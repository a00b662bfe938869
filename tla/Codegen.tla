------------------------------ MODULE Codegen ------------------------------
(***************************************************************************)
(* The code generator: a method's syntax tree (codegen.c's constructors,   *)
(* called by the actions of grammar.y) is compiled to opcodes (codegen.c), *)
(* and its strings and identifiers are entered in the tables of the object *)
(* it is defined on (object.c).                                            *)
(*                                                                         *)
(* Lists of the tree are sequences in source order (the parser links them  *)
(* in reverse and the generator walks them backwards); positions in the    *)
(* code start at 1; local variables are numbered from 0, as in the code.   *)
(* A word of the code is an opcode's name, a number or a name.             *)
(***************************************************************************)
EXTENDS Integers, Sequences, FiniteSets, SequencesExt

CONSTANT Functions      \* built-in functions: the lower-case names of op_info

NONE == -1

-----------------------------------------------------------------------------
(* Syntax trees: the constructors the parser calls.                        *)

Program(over, args, rest, vars, stmts) ==
    [overridable |-> over, args |-> args, rest |-> rest, vars |-> vars, stmts |-> stmts]

CommentStmt(text)          == [type |-> "COMMENT", comment |-> text]
NoopStmt                   == [type |-> "NOOP"]
ExprStmt(e)                == [type |-> "EXPR", expr |-> e]
CompoundStmt(stmts)        == [type |-> "COMPOUND", stmts |-> stmts]
IfStmt(c, t)               == [type |-> "IF", cond |-> c, true |-> t]
IfElseStmt(c, t, f)        == [type |-> "IF_ELSE", cond |-> c, true |-> t, false |-> f]
ForRangeStmt(v, l, u, b)   == [type |-> "FOR_RANGE", var |-> v, lower |-> l, upper |-> u, body |-> b]
ForListStmt(v, l, b)       == [type |-> "FOR_LIST", var |-> v, list |-> l, body |-> b]
WhileStmt(c, b)            == [type |-> "WHILE", cond |-> c, body |-> b]
SwitchStmt(e, cases)       == [type |-> "SWITCH", expr |-> e, cases |-> cases]
CaseEntry(values, stmts)   == [values |-> values, stmts |-> stmts]    \* no values: default
BreakStmt                  == [type |-> "BREAK"]
ContinueStmt               == [type |-> "CONTINUE"]
ReturnStmt                 == [type |-> "RETURN"]
ReturnExprStmt(e)          == [type |-> "RETURN_EXPR", expr |-> e]
CatchStmt(errs, b, h)      == [type |-> "CATCH", errors |-> errs, body |-> b, handler |-> h]

IntegerExpr(n)             == [type |-> "INTEGER", num |-> n]
StringExpr(s)              == [type |-> "STRING", str |-> s]
DbrefExpr(d)               == [type |-> "DBREF", dbref |-> d]
SymbolExpr(s)              == [type |-> "SYMBOL", symbol |-> s]
ErrorExpr(e)               == [type |-> "ERROR", error |-> e]
NameExpr(n)                == [type |-> "NAME", name |-> n]
VarExpr(v)                 == [type |-> "VAR", var |-> v]
AssignExpr(v, e)           == [type |-> "ASSIGN", var |-> v, value |-> e]
FunctionCallExpr(f, args)  == [type |-> "FUNCTION_CALL", function |-> f, args |-> args]
PassExpr(args)             == [type |-> "PASS", args |-> args]
MessageExpr(to, n, args)   == [type |-> "MESSAGE", to |-> to, message |-> n, args |-> args]
ExprMessageExpr(to, m, args) ==
    [type |-> "EXPR_MESSAGE", to |-> to, selector |-> m, args |-> args]
This                       == FunctionCallExpr("this", <<>>)          \* a message with no receiver
ListExpr(args)             == [type |-> "LIST", args |-> args]
DictExpr(args)             == [type |-> "DICT", args |-> args]
BufferExpr(args)           == [type |-> "BUFFER", args |-> args]
FrobExpr(class, rep)       == [type |-> "FROB", class |-> class, rep |-> rep]
IndexExpr(l, i)            == [type |-> "INDEX", list |-> l, offset |-> i]
UnaryExpr(op, e)           == [type |-> "UNARY", opcode |-> op, expr |-> e]
BinaryExpr(op, l, r)       == [type |-> "BINARY", opcode |-> op, left |-> l, right |-> r]
AndExpr(l, r)              == [type |-> "AND", left |-> l, right |-> r]
OrExpr(l, r)               == [type |-> "OR", left |-> l, right |-> r]
CondExpr(c, t, f)          == [type |-> "CONDITIONAL", cond |-> c, true |-> t, false |-> f]
CriticalExpr(e)            == [type |-> "CRITICAL", expr |-> e]
PropagateExpr(e)           == [type |-> "PROPAGATE", expr |-> e]
SpliceExpr(e)              == [type |-> "SPLICE", expr |-> e]
RangeExpr(l, u)            == [type |-> "RANGE", lower |-> l, upper |-> u]

-----------------------------------------------------------------------------
(* The opcode table: the types of the words that follow an opcode.         *)

OpArgs(op) ==
    CASE op \in {"COMMENT", "STRING"} -> <<"STRING">>
      [] op \in {"SET_LOCAL", "GET_LOCAL"} -> <<"VAR">>
      [] op \in {"SET_OBJ_VAR", "GET_OBJ_VAR", "SYMBOL", "ERROR", "NAME", "MESSAGE"} -> <<"IDENT">>
      [] op \in {"INTEGER", "DBREF"} -> <<"INTEGER">>
      [] op \in {"IF", "IF_ELSE", "ELSE", "SWITCH", "CASE_VALUE", "CASE_RANGE",
                 "LAST_CASE_VALUE", "LAST_CASE_RANGE", "END_CASE", "END", "CATCH_END",
                 "AND", "OR", "CONDITIONAL", "CRITICAL", "PROPAGATE"} -> <<"JUMP">>
      [] op \in {"FOR_RANGE", "FOR_LIST", "BREAK", "CONTINUE"} -> <<"JUMP", "VAR">>
      [] op = "WHILE" -> <<"JUMP", "JUMP">>
      [] op = "CATCH" -> <<"JUMP", "ERROR">>
      [] OTHER -> <<>>

OpSize(op) == 1 + Len(OpArgs(op))

-----------------------------------------------------------------------------
(* The generator's state st: the program, the instruction buffer, the jump *)
(* table and the errors reported.                                          *)

StartState(p) == [prog |-> p, code |-> <<>>, jumps |-> <<>>, errors |-> <<>>]

Code(st, words)        == [st EXCEPT !.code = @ \o words]
NewJumpDest(st)        == [st EXCEPT !.jumps = Append(@, 0)]
JumpDest(st)           == Len(st.jumps) + 1       \* the one NewJumpDest returns
SetJumpDestHere(st, d) == [st EXCEPT !.jumps[d] = Len(st.code) + 1]
CompilerError(st, msg) == [st EXCEPT !.errors = Append(@, msg)]

LastIndex(seq, x) == CHOOSE i \in DOMAIN seq : seq[i] = x /\ \A j \in DOMAIN seq : seq[j] = x => j <= i

\* Arguments count from the first one, variables from the last one, and the
\* variable that takes the remaining arguments comes between them.
FindLocalVar(p, id) ==
    LET base == Len(p.args) + (IF p.rest = "" THEN 0 ELSE 1)
    IN  CASE id \in ToSet(p.args) -> LastIndex(p.args, id) - 1
          [] id \notin ToSet(p.args) /\ id = p.rest -> Len(p.args)
          [] id \notin ToSet(p.args) /\ id # p.rest /\ id \in ToSet(p.vars)
                -> base + Len(p.vars) - LastIndex(p.vars, id)
          [] OTHER -> NONE

-----------------------------------------------------------------------------
(* Expressions.                                                            *)

RECURSIVE CompileExpr(_, _), CompileExprList(_, _)

CompileExprList(st, exprs) ==
    IF exprs = <<>> THEN st ELSE CompileExprList(CompileExpr(st, Head(exprs)), Tail(exprs))

CompileArgs(st, args, op) == Code(CompileExprList(Code(st, <<"START_ARGS">>), args), op)

Literals == {"INTEGER", "STRING", "DBREF", "SYMBOL", "ERROR", "NAME"}

CompileLiteral(st, e) ==
    Code(st, CASE e.type = "INTEGER" -> CASE e.num = 0 -> <<"ZERO">>
                                          [] e.num = 1 -> <<"ONE">>
                                          [] OTHER -> <<"INTEGER", e.num>>
               [] e.type = "STRING" -> <<"STRING", e.str>>
               [] e.type = "DBREF"  -> <<"DBREF", e.dbref>>
               [] e.type = "SYMBOL" -> <<"SYMBOL", e.symbol>>
               [] e.type = "ERROR"  -> <<"ERROR", e.error>>
               [] e.type = "NAME"   -> <<"NAME", e.name>>)

VarWords(p, id, local, global) ==
    LET n == FindLocalVar(p, id) IN IF n # NONE THEN <<local, n>> ELSE <<global, id>>

CompileVar(st, e) == Code(st, VarWords(st.prog, e.var, "GET_LOCAL", "GET_OBJ_VAR"))

CompileAssign(st, e) ==
    Code(CompileExpr(st, e.value), VarWords(st.prog, e.var, "SET_LOCAL", "SET_OBJ_VAR"))

CompileFunctionCall(st, e) ==
    LET known == e.function \in Functions
        called == CompileArgs(st, e.args, IF known THEN <<e.function>> ELSE <<>>)
    IN  IF known THEN called ELSE CompilerError(called, "Unknown function")

CompileMessage(st, e) == CompileArgs(CompileExpr(st, e.to), e.args, <<"MESSAGE", e.message>>)

CompileExprMessage(st, e) ==
    CompileArgs(CompileExpr(CompileExpr(st, e.to), e.selector), e.args, <<"EXPR_MESSAGE">>)

\* [@foo, ...] is foo [...] SPLICE_ADD.
CompileList(st, e) ==
    IF e.args # <<>> /\ Head(e.args).type = "SPLICE"
    THEN CompileArgs(CompileExpr(st, Head(e.args).expr), Tail(e.args), <<"LIST", "SPLICE_ADD">>)
    ELSE CompileArgs(st, e.args, <<"LIST">>)

CompileTwo(st, first, second, op) == Code(CompileExpr(CompileExpr(st, first), second), op)

\* AND, OR: the left side, a jump to the end, the right side.
CompileShort(st, e) ==
    LET end  == JumpDest(st)
        left == Code(CompileExpr(NewJumpDest(st), e.left), <<e.type, end>>)
    IN  SetJumpDestHere(CompileExpr(left, e.right), end)

CompileConditional(st, e) ==
    LET false == JumpDest(st)
        end   == false + 1
        cond  == Code(CompileExpr(NewJumpDest(NewJumpDest(st)), e.cond), <<"CONDITIONAL", false>>)
        true  == Code(CompileExpr(cond, e.true), <<"ELSE", end>>)
    IN  SetJumpDestHere(CompileExpr(SetJumpDestHere(true, false), e.false), end)

\* CRITICAL, PROPAGATE: the expression between a jump to its end and the end.
CompileGuarded(st, e) ==
    LET end   == JumpDest(st)
        inner == CompileExpr(Code(NewJumpDest(st), <<e.type, end>>), e.expr)
    IN  SetJumpDestHere(
            Code(inner, <<IF e.type = "CRITICAL" THEN "CRITICAL_END" ELSE "PROPAGATE_END">>), end)

CompileExpr(st, e) ==
    CASE e.type \in Literals        -> CompileLiteral(st, e)
      [] e.type = "VAR"             -> CompileVar(st, e)
      [] e.type = "ASSIGN"          -> CompileAssign(st, e)
      [] e.type = "FUNCTION_CALL"   -> CompileFunctionCall(st, e)
      [] e.type = "PASS"            -> CompileArgs(st, e.args, <<"PASS">>)
      [] e.type = "MESSAGE"         -> CompileMessage(st, e)
      [] e.type = "EXPR_MESSAGE"    -> CompileExprMessage(st, e)
      [] e.type = "LIST"            -> CompileList(st, e)
      [] e.type = "DICT"            -> CompileArgs(st, e.args, <<"DICT">>)
      [] e.type = "BUFFER"          -> CompileArgs(st, e.args, <<"BUFFER">>)
      [] e.type = "FROB"            -> CompileTwo(st, e.class, e.rep, <<"FROB">>)
      [] e.type = "INDEX"           -> CompileTwo(st, e.list, e.offset, <<"INDEX">>)
      [] e.type = "UNARY"           -> Code(CompileExpr(st, e.expr), <<e.opcode>>)
      [] e.type = "BINARY"          -> CompileTwo(st, e.left, e.right, <<e.opcode>>)
      [] e.type \in {"AND", "OR"}   -> CompileShort(st, e)
      [] e.type = "CONDITIONAL"     -> CompileConditional(st, e)
      [] e.type \in {"CRITICAL", "PROPAGATE"} -> CompileGuarded(st, e)
      [] e.type = "SPLICE"          -> Code(CompileExpr(st, e.expr), <<"SPLICE">>)
      [] e.type = "RANGE"           -> CompileTwo(st, e.lower, e.upper, <<>>)

-----------------------------------------------------------------------------
(* Statements.  loop is the destination of the loop they are in, or NONE;  *)
(* level the number of catch statements they are in within that loop.      *)

RECURSIVE CompileStmt(_, _, _, _), CompileStmtList(_, _, _, _)

CompileStmtList(st, stmts, loop, level) ==
    IF stmts = <<>> THEN st
    ELSE CompileStmtList(CompileStmt(st, Head(stmts), loop, level), Tail(stmts), loop, level)

CompileIf(st, s, loop, level) ==
    LET end  == JumpDest(st)
        cond == Code(CompileExpr(NewJumpDest(st), s.cond), <<"IF", end>>)
    IN  SetJumpDestHere(CompileStmt(cond, s.true, loop, level), end)

CompileIfElse(st, s, loop, level) ==
    LET false == JumpDest(st)
        end   == false + 1
        cond  == Code(CompileExpr(NewJumpDest(NewJumpDest(st)), s.cond), <<"IF_ELSE", false>>)
        true  == Code(CompileStmt(cond, s.true, loop, level), <<"ELSE", end>>)
    IN  SetJumpDestHere(CompileStmt(SetJumpDestHere(true, false), s.false, loop, level), end)

\* A loop from its loop instruction on; st is positioned there.
CompileLoop(st, op, begin, end, word, back, body) ==
    LET looped == CompileStmt(Code(SetJumpDestHere(st, begin), <<op, end, word>>), body, begin, 0)
    IN  SetJumpDestHere(Code(looped, <<"END", back>>), end)

CompileForRange(st, s) ==
    LET n      == FindLocalVar(st.prog, s.var)
        begin  == JumpDest(st)
        bounds == CompileTwo(NewJumpDest(NewJumpDest(st)), s.lower, s.upper, <<>>)
    IN  IF n = NONE THEN CompilerError(st, "is not a local variable")
        ELSE CompileLoop(bounds, "FOR_RANGE", begin, begin + 1, n, begin, s.body)

CompileForList(st, s) ==
    LET n     == FindLocalVar(st.prog, s.var)
        begin == JumpDest(st)
        list  == Code(CompileExpr(NewJumpDest(NewJumpDest(st)), s.list), <<"ZERO">>)
    IN  IF n = NONE THEN CompilerError(st, "is not a local variable")
        ELSE CompileLoop(list, "FOR_LIST", begin, begin + 1, n, begin, s.body)

CompileWhile(st, s) ==
    LET cond   == JumpDest(st)
        begin  == cond + 1
        dests  == NewJumpDest(NewJumpDest(NewJumpDest(st)))
        tested == CompileExpr(SetJumpDestHere(dests, cond), s.cond)
    IN  CompileLoop(tested, "WHILE", begin, begin + 1, cond, cond, s.body)

CaseOp(e, last) == CASE ~last -> IF e.type = "RANGE" THEN "CASE_RANGE" ELSE "CASE_VALUE"
                     [] last  -> IF e.type = "RANGE" THEN "LAST_CASE_RANGE" ELSE "LAST_CASE_VALUE"

RECURSIVE CompileCaseValues(_, _, _)
CompileCaseValues(st, values, body) ==
    IF values = <<>> THEN st
    ELSE CompileCaseValues(Code(CompileExpr(st, Head(values)), <<CaseOp(Head(values), FALSE), body>>),
                           Tail(values), body)

CompileCase(st, entry, loop, level, end) ==
    LET body   == JumpDest(st)
        next   == body + 1
        early  == CompileCaseValues(NewJumpDest(NewJumpDest(st)), Front(entry.values), body)
        tested == Code(CompileExpr(early, Last(entry.values)), <<CaseOp(Last(entry.values), TRUE), next>>)
        stmts  == CompileStmtList(SetJumpDestHere(tested, body), entry.stmts, loop, level)
    IN  SetJumpDestHere(Code(stmts, <<"END_CASE", end>>), next)

RECURSIVE CompileEach(_, _, _, _, _)
CompileEach(st, cases, loop, level, end) ==
    IF cases = <<>> THEN st
    ELSE CompileEach(CompileCase(st, Head(cases), loop, level, end), Tail(cases), loop, level, end)

\* A default entry that is not the last one ends the walk, which begins at the last.
CompileCases(st, cases, loop, level, end) ==
    LET defaults == {i \in DOMAIN cases : cases[i].values = <<>>}
        from == IF defaults = {} THEN 1 ELSE LastIndex([i \in DOMAIN cases |-> i \in defaults], TRUE) + 1
        st1  == IF defaults = {} THEN st ELSE CompilerError(st, "Default case not last in list")
    IN  CompileEach(st1, SubSeq(cases, from, Len(cases)), loop, level, end)

CompileSwitch(st, s, loop, level) ==
    LET end     == JumpDest(st)
        value   == Code(CompileExpr(NewJumpDest(st), s.expr), <<"SWITCH", end>>)
        default == s.cases # <<>> /\ Last(s.cases).values = <<>>
        cases   == CompileCases(value, IF default THEN Front(s.cases) ELSE s.cases, loop, level, end)
        stmts   == IF default THEN Last(s.cases).stmts ELSE <<>>
    IN  SetJumpDestHere(CompileStmtList(Code(cases, <<"DEFAULT">>), stmts, loop, level), end)

\* BREAK and CONTINUE name the loop instruction and the catches to leave.
CompileLeave(st, s, loop, level) ==
    IF loop = NONE THEN CompilerError(st, "statement outside loop") ELSE Code(st, <<s.type, loop, level>>)

\* No errors: catch any.
CompileCatch(st, s, loop, level) ==
    LET handler == JumpDest(st)
        end     == handler + 1
        dests   == NewJumpDest(NewJumpDest(st))
        body    == CompileStmt(Code(dests, <<"CATCH", handler, s.errors>>), s.body, loop, level + 1)
        caught  == SetJumpDestHere(Code(body, <<"CATCH_END", end>>), handler)
    IN  SetJumpDestHere(Code(CompileStmt(caught, s.handler, loop, level), <<"HANDLER_END">>), end)

CompileStmt(st, s, loop, level) ==
    CASE s.type = "COMMENT"     -> Code(st, <<"COMMENT", s.comment>>)
      [] s.type = "NOOP"        -> st
      [] s.type = "EXPR"        -> Code(CompileExpr(st, s.expr), <<"POP">>)
      [] s.type = "COMPOUND"    -> CompileStmtList(st, s.stmts, loop, level)
      [] s.type = "IF"          -> CompileIf(st, s, loop, level)
      [] s.type = "IF_ELSE"     -> CompileIfElse(st, s, loop, level)
      [] s.type = "FOR_RANGE"   -> CompileForRange(st, s)
      [] s.type = "FOR_LIST"    -> CompileForList(st, s)
      [] s.type = "WHILE"       -> CompileWhile(st, s)
      [] s.type = "SWITCH"      -> CompileSwitch(st, s, loop, level)
      [] s.type \in {"BREAK", "CONTINUE"} -> CompileLeave(st, s, loop, level)
      [] s.type = "RETURN"      -> Code(st, <<"RETURN">>)
      [] s.type = "RETURN_EXPR" -> Code(CompileExpr(st, s.expr), <<"RETURN_EXPR">>)
      [] s.type = "CATCH"       -> CompileCatch(st, s, loop, level)

-----------------------------------------------------------------------------
(* An object's string and identifier tables: entries [key, refs], a blank  *)
(* entry having no references.                                             *)

Blank == [key |-> "", refs |-> 0]

\* The entry that is equal to key, else the last blank one, else a new one.
TableIndex(table, key) ==
    LET same   == {i \in DOMAIN table : table[i].refs > 0 /\ table[i].key = key}
        blanks == {i \in DOMAIN table : table[i].refs = 0}
    IN  CASE same # {} -> CHOOSE i \in same : TRUE
          [] same = {} /\ blanks # {} -> CHOOSE i \in blanks : \A j \in blanks : j <= i
          [] OTHER -> Len(table) + 1

TableAdd(table, key) ==
    LET i == TableIndex(table, key)
        refs == IF i \in DOMAIN table THEN table[i].refs ELSE 0
    IN  [j \in DOMAIN table \cup {i} |-> IF j = i THEN [key |-> key, refs |-> refs + 1] ELSE table[j]]

TableDiscard(table, i) ==
    [table EXCEPT ![i] = IF @.refs = 1 THEN Blank ELSE [@ EXCEPT !.refs = @ - 1]]

AddString(tables, str)   == [tables EXCEPT !.strings = TableAdd(@, str)]
AddIdent(tables, id)     == [tables EXCEPT !.idents = TableAdd(@, id)]
DiscardString(tables, i) == [tables EXCEPT !.strings = TableDiscard(@, i)]
DiscardIdent(tables, i)  == [tables EXCEPT !.idents = TableDiscard(@, i)]

NoTables == [strings |-> <<>>, idents |-> <<>>]

-----------------------------------------------------------------------------
(* The final pass: names and strings become table indices, destinations    *)
(* become positions, error lists become numbers.                           *)

RECURSIVE AddIdents(_, _)
AddIdents(acc, ids) ==        \* acc: [tables, words]
    IF ids = <<>> THEN acc
    ELSE AddIdents([tables |-> AddIdent(acc.tables, Head(ids)),
                    words  |-> Append(acc.words, TableIndex(acc.tables.idents, Head(ids)))], Tail(ids))

FinalArg(acc, jumps, word, type) ==
    CASE type = "STRING" -> [acc EXCEPT !.words = Append(@, TableIndex(acc.tables.strings, word)),
                                        !.tables = AddString(@, word)]
      [] type = "IDENT"  -> [acc EXCEPT !.words = Append(@, TableIndex(acc.tables.idents, word)),
                                        !.tables = AddIdent(@, word)]
      [] type = "JUMP"   -> [acc EXCEPT !.words = Append(@, jumps[word])]
      [] type = "ERROR"  -> IF word = <<>> THEN [acc EXCEPT !.words = Append(@, NONE)]
                            ELSE [acc EXCEPT !.words = Append(@, Len(acc.lists) + 1),
                                             !.lists = Append(@, word)]
      [] OTHER           -> [acc EXCEPT !.words = Append(@, word)]

RECURSIVE FinalCode(_, _, _)
FinalCode(acc, st, i) ==
    IF i > Len(st.code) THEN acc
    ELSE LET op   == st.code[i]
             args == OpArgs(op)
             acc0 == [acc EXCEPT !.words = Append(@, op)]
             acc1 == IF Len(args) < 1 THEN acc0 ELSE FinalArg(acc0, st.jumps, st.code[i + 1], args[1])
             acc2 == IF Len(args) < 2 THEN acc1 ELSE FinalArg(acc1, st.jumps, st.code[i + 2], args[2])
         IN  FinalCode(acc2, st, i + OpSize(op))

FinalPass(st, tables) ==
    LET p    == st.prog
        args == AddIdents([tables |-> tables, words |-> <<>>], Reverse(p.args))
        rest == AddIdents([args EXCEPT !.words = <<>>], IF p.rest = "" THEN <<>> ELSE <<p.rest>>)
        vars == AddIdents([rest EXCEPT !.words = <<>>], Reverse(p.vars))
        code == FinalCode([tables |-> vars.tables, words |-> <<>>, lists |-> <<>>], st, 1)
    IN  [method |-> [overridable |-> p.overridable, argnames |-> args.words,
                     rest |-> IF rest.words = <<>> THEN NONE ELSE rest.words[1],
                     varnames |-> vars.words, opcodes |-> code.words, error_lists |-> code.lists],
         tables |-> code.tables]

Compiled(p) == CompileStmtList(StartState(p), p.stmts, NONE, 0)

Compiles(p) == Compiled(p).errors = <<>>

GenerateMethod(p, tables) == FinalPass(Code(Compiled(p), <<"RETURN">>), tables)

-----------------------------------------------------------------------------
(* Deleting a method gives back what its code holds in the tables.         *)

RECURSIVE Uses(_, _, _)
Uses(code, type, i) ==       \* the words of a type, from position i on
    IF i > Len(code) THEN <<>>
    ELSE LET args == OpArgs(code[i])
             here == SelectSeq([a \in 1..Len(args) |-> a], LAMBDA a : args[a] = type)
         IN  [a \in 1..Len(here) |-> code[i + here[a]]] \o Uses(code, type, i + OpSize(code[i]))

\* The argument that takes the rest keeps its reference.
Bug_IdentUses(m) == m.argnames \o m.varnames \o Uses(m.opcodes, "IDENT", 1)

IdentUses(m) ==
    m.argnames \o (IF m.rest = NONE THEN <<>> ELSE <<m.rest>>) \o m.varnames \o Uses(m.opcodes, "IDENT", 1)

MethodDeleteCodeRefs(m, tables) ==
    FoldLeft(DiscardString, FoldLeft(DiscardIdent, tables, IdentUses(m)), Uses(m.opcodes, "STRING", 1))

=============================================================================
