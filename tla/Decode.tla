------------------------------- MODULE Decode -------------------------------
(***************************************************************************)
(* The decompiler (decode.c): a method's opcodes are turned back into a    *)
(* syntax tree, the tree into the lines of a listing (list_method, text    *)
(* dumps), and a position in the code into a line number (tracebacks).     *)
(*                                                                         *)
(* A line is a sequence of tokens: indentation and spacing are left out,   *)
(* the braces and parentheses that decide how it parses are not.           *)
(***************************************************************************)
EXTENDS Codegen

-----------------------------------------------------------------------------
(* d: the method and the tables of its object.                             *)

OpAt(d, pos) == d.method.opcodes[pos]
WordAt(d, pos) == d.method.opcodes[pos]
StringAt(d, pos) == d.tables.strings[WordAt(d, pos)].key
IdentName(d, i) == d.tables.idents[i].key
IdentAt(d, pos) == IdentName(d, WordAt(d, pos))

VarName(d, ind) ==
    LET m     == d.method
        nargs == Len(m.argnames)
        nrest == IF m.rest = NONE THEN 0 ELSE 1
    IN  IdentName(d, CASE ind < nargs -> m.argnames[nargs - ind]
                       [] ind >= nargs /\ ind < nargs + nrest -> m.rest
                       [] OTHER -> m.varnames[ind - nargs - nrest + 1])

-----------------------------------------------------------------------------
(* Expressions: the stack of trees that interpreting the code from pos on  *)
(* would build, up to end, a statement's opcode or one that takes an       *)
(* argument list.                                                          *)

BinaryOps == {"*", "/", "%", "+", "-", "EQ", "NE", ">", ">=", "<", "<=", "IN"}

Leaf(d, pos) ==
    LET op == OpAt(d, pos)
    IN  CASE op = "ZERO"        -> IntegerExpr(0)
          [] op = "ONE"         -> IntegerExpr(1)
          [] op = "INTEGER"     -> IntegerExpr(WordAt(d, pos + 1))
          [] op = "STRING"      -> StringExpr(StringAt(d, pos + 1))
          [] op = "SYMBOL"      -> SymbolExpr(IdentAt(d, pos + 1))
          [] op = "ERROR"       -> ErrorExpr(IdentAt(d, pos + 1))
          [] op = "NAME"        -> NameExpr(IdentAt(d, pos + 1))
          [] op = "GET_LOCAL"   -> VarExpr(VarName(d, WordAt(d, pos + 1)))
          [] op = "GET_OBJ_VAR" -> VarExpr(IdentAt(d, pos + 1))

LeafOps == {"ZERO", "ONE", "INTEGER", "STRING", "SYMBOL", "ERROR", "NAME", "GET_LOCAL", "GET_OBJ_VAR"}

\* The top elements of the stack that an opcode replaces by one tree.
UnaryTree(d, pos, e) ==
    LET op == OpAt(d, pos)
    IN  CASE op = "SET_LOCAL"     -> AssignExpr(VarName(d, WordAt(d, pos + 1)), e)
          [] op = "SET_OBJ_VAR"   -> AssignExpr(IdentAt(d, pos + 1), e)
          [] op = "CRITICAL_END"  -> CriticalExpr(e)
          [] op = "PROPAGATE_END" -> PropagateExpr(e)
          [] op = "SPLICE"        -> SpliceExpr(e)
          [] op \in {"!", "NEG"}  -> UnaryExpr(op, e)

UnaryOps == {"SET_LOCAL", "SET_OBJ_VAR", "CRITICAL_END", "PROPAGATE_END", "SPLICE", "!", "NEG"}

BinaryTree(op, l, r) ==
    CASE op = "FROB"         -> FrobExpr(l, r)
      [] op = "INDEX"        -> IndexExpr(l, r)
      [] op \in BinaryOps    -> BinaryExpr(op, l, r)
      [] op = "SPLICE_ADD"   -> ListExpr(<<SpliceExpr(l)>> \o r.args)

\* The arguments are decompiled; the opcode that takes them is at pos.
ArgsTree(d, pos, stack, args) ==
    LET op  == OpAt(d, pos)
        top == Last(stack)
        Push(e) == Append(stack, e)
    IN  CASE op = "PASS"         -> Push(PassExpr(args))
          [] op = "MESSAGE"      -> Append(Front(stack), MessageExpr(top, IdentAt(d, pos + 1), args))
          [] op = "EXPR_MESSAGE" -> Append(Front(Front(stack)),
                                           ExprMessageExpr(Last(Front(stack)), top, args))
          [] op = "LIST"         -> Push(ListExpr(args))
          [] op = "DICT"         -> Push(DictExpr(args))
          [] op = "BUFFER"       -> Push(BufferExpr(args))
          [] OTHER               -> Push(FunctionCallExpr(op, args))

Top2(stack) == stack[Len(stack) - 1]
Pop2(stack) == Front(Front(stack))

RECURSIVE DecompileExpressions(_, _, _, _)
DecompileExpressions(d, pos, end, stack) ==
    LET op == OpAt(d, pos)
        Go(to, new) == DecompileExpressions(d, to, end, new)
        Sub(from, to) == Last(DecompileExpressions(d, from, to, <<>>).stack)
        jump == WordAt(d, pos + 1)
        Over(e) == Append(Front(stack), e)
    IN  CASE end # NONE /\ pos >= end -> [pos |-> pos, stack |-> stack]
          [] OTHER ->
        CASE op \in LeafOps -> Go(pos + OpSize(op), Append(stack, Leaf(d, pos)))
             \* The case lacks its break and goes on as SYMBOL, at the next instruction.
          [] op = "DBREF" -> Go(pos + 4, stack \o <<DbrefExpr(jump), SymbolExpr("garbage")>>)
          [] op \in UnaryOps -> Go(pos + OpSize(op), Over(UnaryTree(d, pos, Last(stack))))
          [] op \in BinaryOps \cup {"FROB", "INDEX", "SPLICE_ADD"} ->
                Go(pos + 1, Append(Pop2(stack), BinaryTree(op, Top2(stack), Last(stack))))
          [] op = "START_ARGS" ->
                LET args == DecompileExpressions(d, pos + 1, NONE, <<>>)
                IN  Go(args.pos + OpSize(OpAt(d, args.pos)), ArgsTree(d, args.pos, stack, args.stack))
          [] op \in {"CRITICAL", "PROPAGATE"} -> Go(pos + 2, stack)
          [] op = "AND" -> Go(jump, Over(AndExpr(Last(stack), Sub(pos + 2, jump))))
          [] op = "OR"  -> Go(jump, Over(OrExpr(Last(stack), Sub(pos + 2, jump))))
          [] op = "CONDITIONAL" ->
                LET last == WordAt(d, jump - 1)
                IN  Go(last, Over(CondExpr(Last(stack), Sub(pos + 2, jump - 2), Sub(jump, last))))
          [] OTHER -> [pos |-> pos, stack |-> stack]

-----------------------------------------------------------------------------
(* Statements.                                                             *)

BodyFromStmtList(stmts) ==
    CASE Len(stmts) = 0 -> NoopStmt
      [] Len(stmts) = 1 -> stmts[1]
      [] Len(stmts) > 1 -> CompoundStmt(stmts)

MakeErrorIdList(d, which) == IF which = NONE THEN <<>> ELSE d.method.error_lists[which]

RECURSIVE DecompileCaseValues(_, _, _)
DecompileCaseValues(d, pos, values) ==      \* [pos, end, values]
    LET exprs == DecompileExpressions(d, pos, NONE, <<>>)
        op    == OpAt(d, exprs.pos)
        value == IF op \in {"CASE_RANGE", "LAST_CASE_RANGE"}
                 THEN RangeExpr(Top2(exprs.stack), Last(exprs.stack)) ELSE Last(exprs.stack)
    IN  IF op \in {"CASE_VALUE", "CASE_RANGE"}
        THEN DecompileCaseValues(d, exprs.pos + 2, Append(values, value))
        ELSE [pos |-> exprs.pos + 2, end |-> WordAt(d, exprs.pos + 1), values |-> Append(values, value)]

RECURSIVE DecompileStmt(_, _), DecompileStmtList(_, _, _), DecompileUntil(_, _, _)

DecompileBody(d, start, end) == BodyFromStmtList(DecompileStmtList(d, start, end))

DecompileCase(d, pos, switch_end) ==
    IF OpAt(d, pos) = "DEFAULT"
    THEN [pos |-> switch_end, entry |-> CaseEntry(<<>>, DecompileStmtList(d, pos + 1, switch_end))]
    ELSE LET cv == DecompileCaseValues(d, pos, <<>>)
         IN  [pos |-> cv.end, entry |-> CaseEntry(cv.values, DecompileStmtList(d, cv.pos, cv.end - 2))]

RECURSIVE CaseEntries(_, _, _)
CaseEntries(d, pos, end) ==
    IF pos >= end THEN <<>>
    ELSE LET c == DecompileCase(d, pos, end) IN <<c.entry>> \o CaseEntries(d, c.pos, end)

\* A default case without statements is forgotten.
DecompileCases(d, start, end) ==
    LET cases == CaseEntries(d, start, end)
    IN  IF Last(cases).stmts = <<>> THEN Front(cases) ELSE cases

DecompileCatch(d, pos) ==
    LET end     == WordAt(d, pos + 1)
        handler == DecompileUntil(d, end, <<>>)
    IN  [pos  |-> handler.pos + 1,
         stmt |-> CatchStmt(MakeErrorIdList(d, WordAt(d, pos + 2)), DecompileBody(d, pos + 3, end - 2),
                            IF handler.stmts = <<>> THEN NoopStmt ELSE BodyFromStmtList(handler.stmts))]

DecompileStmt(d, start) ==
    LET exprs == DecompileExpressions(d, start, NONE, <<>>)
        pos   == exprs.pos
        op    == OpAt(d, pos)
        e     == Last(exprs.stack)
        e2    == Top2(exprs.stack)
        end   == WordAt(d, pos + 1)
        At(to, s) == [pos |-> to, stmt |-> s]
        var   == VarName(d, WordAt(d, pos + 2))
        body  == DecompileBody(d, pos + 3, end - 2)
    IN  CASE op = "COMMENT"     -> At(pos + 2, CommentStmt(StringAt(d, pos + 1)))
          [] op = "POP"         -> At(pos + 1, ExprStmt(e))
          [] op = "IF"          -> At(end, IfStmt(e, DecompileBody(d, pos + 2, end)))
          [] op = "IF_ELSE"     ->
                LET last == WordAt(d, end - 1)
                IN  At(last, IfElseStmt(e, DecompileBody(d, pos + 2, end - 2), DecompileBody(d, end, last)))
          [] op = "FOR_RANGE"   -> At(end, ForRangeStmt(var, e2, e, body))
          [] op = "FOR_LIST"    -> At(end, ForListStmt(var, e2, body))
          [] op = "WHILE"       -> At(end, WhileStmt(e, body))
          [] op = "SWITCH"      -> At(end, SwitchStmt(e, DecompileCases(d, pos + 2, end)))
          [] op = "BREAK"       -> At(pos + 3, BreakStmt)
          [] op = "CONTINUE"    -> At(pos + 3, ContinueStmt)
          [] op = "RETURN"      -> At(pos + 1, ReturnStmt)
          [] op = "RETURN_EXPR" -> At(pos + 1, ReturnExprStmt(e))
          [] op = "CATCH"       -> DecompileCatch(d, pos)

DecompileStmtList(d, start, end) ==
    IF start >= end THEN <<>>
    ELSE LET s == DecompileStmt(d, start) IN <<s.stmt>> \o DecompileStmtList(d, s.pos, end)

DecompileUntil(d, pos, stmts) ==        \* up to HANDLER_END
    IF OpAt(d, pos) = "HANDLER_END" THEN [pos |-> pos, stmts |-> stmts]
    ELSE LET s == DecompileStmt(d, pos) IN DecompileUntil(d, s.pos, Append(stmts, s.stmt))

\* The last statement is the RETURN that ends every method.
DecompiledStmts(d) == Front(DecompileStmtList(d, 1, Len(d.method.opcodes) + 1))

-----------------------------------------------------------------------------
(* The text of expressions, as tokens.                                     *)

BinaryToken(op) == CASE op = "IN" -> "in" [] op = "EQ" -> "==" [] op = "NE" -> "!=" [] OTHER -> op

PrecLevel(type) ==
    CASE type = "CONDITIONAL" -> 2
      [] type = "OR"          -> 3
      [] type = "AND"         -> 4
      [] type = "IN"          -> 5
      [] type \in {"EQ", "NE", ">", ">=", "<", "<="} -> 6
      [] type \in {"+", "-"}  -> 7
      [] type \in {"*", "/", "%"} -> 8
      [] type \in {"!", "NEG"} -> 9
      [] type = "MESSAGE"     -> 10
      [] type = "INDEX"       -> 11
      [] OTHER                -> NONE

IsThis(e) == e.type = "FUNCTION_CALL" /\ e.function = "this" /\ e.args = <<>>

\* Texts with commas between them.
Listed(texts) ==
    IF texts = <<>> THEN <<>> ELSE FoldLeft(LAMBDA t, x : t \o <<",">> \o x, Head(texts), Tail(texts))

RECURSIVE UnparseExpr(_, _), UnparseArgs(_, _)

\* The side the operand is on makes no difference.
Bug_UnparseExprPrec(e, parens, caller, assoc) ==
    LET prec == PrecLevel(IF e.type \in {"BINARY", "UNARY"} THEN e.opcode ELSE e.type)
        text == UnparseExpr(e, parens)
    IN  IF prec >= 0 /\ (parens \/ PrecLevel(caller) > prec) THEN <<"(">> \o text \o <<")">> ELSE text

\* In parentheses if the caller binds tighter, or as tight on the side assoc.
UnparseExprPrec(e, parens, caller, assoc) ==
    LET prec == PrecLevel(IF e.type \in {"BINARY", "UNARY"} THEN e.opcode ELSE e.type)
        text == UnparseExpr(e, parens)
    IN  IF prec >= 0 /\ (parens \/ PrecLevel(caller) + assoc > prec)
        THEN <<"(">> \o text \o <<")">> ELSE text

UnparseArgs(args, parens) == Listed([i \in DOMAIN args |-> UnparseExpr(args[i], parens)])

Receiver(e, parens) == IF IsThis(e.to) THEN <<>> ELSE UnparseExprPrec(e.to, parens, "MESSAGE", 0)

UnparseExpr(e, parens) ==
    LET X(x) == UnparseExpr(x, parens)
        P(x, caller, assoc) == UnparseExprPrec(x, parens, caller, assoc)
        Args == UnparseArgs(e.args, parens)
    IN  CASE e.type = "INTEGER" -> <<ToString(e.num)>>
          [] e.type = "STRING"  -> <<"\"", e.str>>
          [] e.type = "DBREF"   -> <<"#", ToString(e.dbref)>>
          [] e.type = "SYMBOL"  -> <<"'", e.symbol>>
          [] e.type = "ERROR"   -> <<"~", e.error>>
          [] e.type = "NAME"    -> <<"$", e.name>>
          [] e.type = "VAR"     -> <<e.var>>
          [] e.type = "ASSIGN"  -> <<e.var, "=">> \o X(e.value)
          [] e.type = "FUNCTION_CALL" -> <<e.function, "(">> \o Args \o <<")">>
          [] e.type = "PASS"    -> <<"pass", "(">> \o Args \o <<")">>
          [] e.type = "MESSAGE" -> Receiver(e, parens) \o <<".", e.message, "(">> \o Args \o <<")">>
          [] e.type = "EXPR_MESSAGE" ->
                Receiver(e, parens) \o <<".", "(">> \o X(e.selector) \o <<")", "(">> \o Args \o <<")">>
          [] e.type = "LIST"    -> <<"[">> \o Args \o <<"]">>
          [] e.type = "DICT"    -> <<"#[">> \o Args \o <<"]">>
          [] e.type = "BUFFER"  -> <<"buffer[">> \o Args \o <<"]">>
          [] e.type = "FROB"    -> <<"<">> \o X(e.class) \o <<",">> \o X(e.rep) \o <<">">>
          [] e.type = "INDEX"   -> P(e.list, "INDEX", 0) \o <<"[">> \o X(e.offset) \o <<"]">>
          [] e.type = "UNARY"   -> <<IF e.opcode = "NEG" THEN "-" ELSE e.opcode>> \o P(e.expr, e.opcode, 0)
          [] e.type = "BINARY"  ->
                P(e.left, e.opcode, 0) \o <<BinaryToken(e.opcode)>> \o P(e.right, e.opcode, 1)
          [] e.type = "AND"     -> P(e.left, "AND", 1) \o <<"&&">> \o P(e.right, "AND", 0)
          [] e.type = "OR"      -> P(e.left, "OR", 1) \o <<"||">> \o P(e.right, "OR", 0)
          [] e.type = "CONDITIONAL" ->
                P(e.cond, "CONDITIONAL", 1) \o <<"?">> \o X(e.true) \o <<"|">> \o P(e.false, "CONDITIONAL", 0)
          [] e.type = "CRITICAL"  -> <<"(|">> \o X(e.expr) \o <<"|)">>
          [] e.type = "PROPAGATE" -> <<"(>">> \o X(e.expr) \o <<"<)">>
          [] e.type = "SPLICE"  -> <<"@">> \o (IF e.expr.type = "BINARY"
                                               THEN <<"(">> \o X(e.expr) \o <<")">> ELSE X(e.expr))
          [] e.type = "RANGE"   -> X(e.lower) \o <<"..">> \o X(e.upper)

-----------------------------------------------------------------------------
(* The text of statements: sequences of lines.                             *)

IsComplexType(type) == type \notin {"NOOP", "EXPR", "ASSIGN", "BREAK", "CONTINUE", "RETURN", "RETURN_EXPR"}

RECURSIVE IsComplexIfElse(_)
IsComplexIfElse(s) ==
    \/ IsComplexType(s.true.type)
    \/ CASE s.false.type = "IF_ELSE" -> IsComplexIfElse(s.false)
         [] s.false.type = "IF"      -> IsComplexType(s.false.true.type)
         [] OTHER                    -> IsComplexType(s.false.type)

Keyword == [BREAK |-> "break", CONTINUE |-> "continue", RETURN |-> "return"]

RECURSIVE UnparseStmt(_, _, _)      \* the statement, parens, the one before it

UnparseStmtList(stmts, parens) ==
    FoldLeftDomain(LAMBDA lines, i :
        lines \o UnparseStmt(stmts[i], parens, IF i = 1 THEN NoopStmt ELSE stmts[i - 1]), <<>>, stmts)

UnparseBody(header, body, parens) ==
    IF IsComplexType(body.type)
    THEN <<Append(header, "{")>> \o UnparseStmt(body, parens, NoopStmt) \o << <<"}">> >>
    ELSE <<header>> \o UnparseStmt(body, parens, NoopStmt)

If(e, parens) == <<"if", "(">> \o UnparseExpr(e, parens) \o <<")">>

\* The last clause of an if-else chain; str is the line begun before it.
UnparseLastClause(s, parens, complex, str) ==
    CASE s.type = "NOOP" -> <<Append(str, ";")>>
      [] s.type # "NOOP" /\ complex ->
            <<Append(str, "{")>> \o UnparseStmt(s, parens, NoopStmt) \o << <<"}">> >>
      [] OTHER -> <<str>> \o UnparseStmt(s, parens, NoopStmt)

RECURSIVE UnparseIfChain(_, _, _, _)
UnparseIfChain(s, parens, complex, str) ==
    CASE s.type = "IF_ELSE" ->
            LET line == str \o If(s.cond, parens)
            IN  <<IF complex THEN Append(line, "{") ELSE line>>
                \o UnparseStmt(s.true, parens, NoopStmt)
                \o UnparseIfChain(s.false, parens, complex, (IF complex THEN <<"}">> ELSE <<>>) \o <<"else">>)
      [] s.type = "IF" -> UnparseLastClause(s.true, parens, complex, str \o If(s.cond, parens))
      [] OTHER -> UnparseLastClause(s, parens, complex, str)

UnparseCase(c, parens) ==
    <<IF c.values = <<>> THEN <<"default", ":">>
      ELSE <<"case">> \o UnparseArgs(c.values, parens) \o <<":">> >>
    \o UnparseStmtList(c.stmts, parens)

UnparseCases(cases, parens) == FoldLeft(LAMBDA lines, c : lines \o UnparseCase(c, parens), <<>>, cases)

UnparseErrors(errors) ==
    IF errors = <<>> THEN <<"any">> ELSE Listed([i \in DOMAIN errors |-> <<"~", errors[i]>>])

UnparseCatch(s, parens) ==
    <<<<"catch">> \o UnparseErrors(s.errors) \o <<"{">> >>
    \o UnparseStmt(s.body, parens, NoopStmt)
    \o (IF s.handler.type = "NOOP" THEN <<>>
        ELSE << <<"}", "with", "handler", "{">> >> \o UnparseStmt(s.handler, parens, NoopStmt))
    \o << <<"}">> >>

UnparseStmt(s, parens, last) ==
    LET X(e) == UnparseExpr(e, parens)
    IN  CASE s.type = "COMMENT"   ->
                (IF last.type \in {"NOOP", "COMMENT"} THEN <<>> ELSE << <<>> >>) \o << <<"//", s.comment>> >>
          [] s.type = "NOOP"      -> <<>>
          [] s.type = "EXPR"      -> <<Append(X(s.expr), ";")>>
          [] s.type = "COMPOUND"  -> UnparseStmtList(s.stmts, parens)
          [] s.type = "IF"        -> UnparseBody(If(s.cond, parens), s.true, parens)
          [] s.type = "IF_ELSE"   -> UnparseIfChain(s, parens, IsComplexIfElse(s), <<>>)
          [] s.type = "FOR_RANGE" ->
                UnparseBody(<<"for", s.var, "in", "[">> \o X(s.lower) \o <<"..">> \o X(s.upper) \o <<"]">>,
                            s.body, parens)
          [] s.type = "FOR_LIST"  ->
                UnparseBody(<<"for", s.var, "in", "(">> \o X(s.list) \o <<")">>, s.body, parens)
          [] s.type = "WHILE"     -> UnparseBody(<<"while", "(">> \o X(s.cond) \o <<")">>, s.body, parens)
          [] s.type = "SWITCH"    ->
                <<<<"switch", "(">> \o X(s.expr) \o <<")", "{">> >> \o UnparseCases(s.cases, parens)
                \o << <<"}">> >>
          [] s.type \in {"BREAK", "CONTINUE", "RETURN"} -> << <<Keyword[s.type], ";">> >>
          [] s.type = "RETURN_EXPR" -> <<<<"return">> \o X(s.expr) \o <<";">> >>
          [] s.type = "CATCH"     -> UnparseCatch(s, parens)

-----------------------------------------------------------------------------
(* The listing.                                                            *)

Names(d, inds) == [i \in DOMAIN inds |-> <<IdentName(d, inds[i])>>]

Declarations(d) ==
    LET m    == d.method
        rest == IF m.rest = NONE THEN <<>> ELSE << <<"[", IdentName(d, m.rest), "]">> >>
        args == Names(d, Reverse(m.argnames)) \o rest
    IN  (IF m.overridable THEN <<>> ELSE << <<"disallow_overrides", ";">> >>)
        \o (IF args = <<>> THEN <<>> ELSE <<<<"arg">> \o Listed(args) \o <<";">> >>)
        \o (IF m.varnames = <<>> THEN <<>>
            ELSE <<<<"var">> \o Listed(Names(d, Reverse(m.varnames))) \o <<";">> >>)

Decompile(d, parens) ==
    LET decl == Declarations(d)
    IN  decl \o (IF decl = <<>> THEN <<>> ELSE << <<>> >>) \o UnparseStmtList(DecompiledStmts(d), parens)

-----------------------------------------------------------------------------
(* Line numbers.  cl: the lines counted so far, the kind of the last       *)
(* statement, and what a caller must know of the block: COMPLEX (it prints *)
(* in braces), SPANNING_IF (an if that prints after its "else"),           *)
(* COMPLEX_IF (such an if added a line for its brace).                     *)

RECURSIVE CountLines(_, _, _, _)
Block(code, start, end) ==
    CountLines(code, start, end, [count |-> 0, last |-> "none", flags |-> {}])

Counted(cl, n, last, on, off) ==
    [count |-> cl.count + n, last |-> last, flags |-> (cl.flags \ off) \cup on]

\* A statement of one line.
CountSimple(cl, op, n) ==
    Counted(cl, n, op, IF cl.last = "none" THEN {} ELSE {"COMPLEX"}, {"SPANNING_IF"})

\* The closing brace of a while loop is not counted.
Bug_CountBlock(cl, op, body) ==
    LET brace == op \in {"IF", "FOR_RANGE", "FOR_LIST"} /\ "COMPLEX" \in body.flags
        on    == {"COMPLEX"} \cup (IF op = "IF" /\ brace THEN {"COMPLEX_IF"} ELSE {})
                             \cup (IF op = "IF" /\ cl.last = "none" THEN {"SPANNING_IF"} ELSE {})
    IN  Counted(cl, 1 + body.count + (IF brace THEN 1 ELSE 0), op, on,
                IF op = "IF" THEN {} ELSE {"SPANNING_IF"})

\* A header, a body and perhaps a closing brace.
CountBlock(cl, op, body) ==
    LET brace == op \in {"IF", "FOR_RANGE", "FOR_LIST", "WHILE"} /\ "COMPLEX" \in body.flags
        on    == {"COMPLEX"} \cup (IF op = "IF" /\ brace THEN {"COMPLEX_IF"} ELSE {})
                             \cup (IF op = "IF" /\ cl.last = "none" THEN {"SPANNING_IF"} ELSE {})
    IN  Counted(cl, 1 + body.count + (IF brace THEN 1 ELSE 0), op, on,
                IF op = "IF" THEN {} ELSE {"SPANNING_IF"})

CountIfElse(cl, true, false) ==
    LET spans == "SPANNING_IF" \in false.flags
        brace == \/ "COMPLEX" \in true.flags
                 \/ "COMPLEX" \in false.flags /\ ~spans
                 \/ "COMPLEX_IF" \in false.flags /\ spans
        less  == (IF spans THEN 1 ELSE 0) + (IF spans /\ "COMPLEX_IF" \in false.flags THEN 1 ELSE 0)
    IN  Counted(cl, 2 + true.count + false.count - less + (IF brace THEN 1 ELSE 0), "IF_ELSE",
                {"COMPLEX"} \cup (IF brace THEN {"COMPLEX_IF"} ELSE {})
                            \cup (IF cl.last = "none" THEN {"SPANNING_IF"} ELSE {}), {})

\* end is inside a block that starts at start: n lines come before it.
Inside(code, start, end, cl, n) ==
    [cl EXCEPT !.count = @ + n + Block(code, start, end).count]

CountLines(code, start, end, cl) ==
    LET op   == code[start]
        next == start + OpSize(op)
        jump == code[start + 1]
    IN  IF start >= end THEN cl
        ELSE
        CASE op \in {"POP", "BREAK", "CONTINUE", "RETURN", "RETURN_EXPR"} ->
                CountLines(code, next, end, CountSimple(cl, op, 1))
          [] op = "COMMENT" ->
                CountLines(code, next, end,
                           CountSimple(cl, op, IF cl.last \in {"none", "COMMENT"} THEN 1 ELSE 2))
          [] op = "IF_ELSE" ->
                LET last == code[jump - 1]
                    else == Block(code, jump, last)
                IN  CASE end < jump - 2 -> Inside(code, next, end, cl, 1)
                      [] end >= jump - 2 /\ end < last ->
                            Inside(code, jump, end, cl, Block(code, next, jump - 2).count
                                   + (IF "SPANNING_IF" \in else.flags THEN 1 ELSE 2))
                      [] OTHER -> CountLines(code, last, end,
                                             CountIfElse(cl, Block(code, next, jump - 2), else))
          [] op \in {"IF", "FOR_RANGE", "FOR_LIST", "WHILE", "LAST_CASE_VALUE", "LAST_CASE_RANGE"} ->
                LET body_end == IF op \in {"LAST_CASE_VALUE", "LAST_CASE_RANGE"} THEN jump - 2 ELSE jump
                IN  IF end < body_end THEN Inside(code, next, end, cl, 1)
                    ELSE CountLines(code, body_end, end, CountBlock(cl, op, Block(code, next, body_end)))
          [] op = "SWITCH" ->
                IF end < jump THEN Inside(code, next, end, cl, 1)
                ELSE CountLines(code, jump, end, Counted(cl, Block(code, next, jump).count + 2, op,
                                                         {"COMPLEX"}, {"SPANNING_IF"}))
          [] op = "DEFAULT" -> [cl EXCEPT !.count = @ + 1 + Block(code, next, end).count]
          [] op = "CATCH" ->
                IF end < jump THEN Inside(code, next, end, cl, 1)
                ELSE LET empty == code[jump] = "HANDLER_END"
                     IN  CountLines(code, IF empty THEN jump + 1 ELSE jump, end,
                                    Counted(cl, 2 + Block(code, next, jump).count,
                                            IF empty THEN "CATCH" ELSE "none", {"COMPLEX"}, {"SPANNING_IF"}))
          [] op = "HANDLER_END" -> CountLines(code, next, end, Counted(cl, 1, "CATCH", {}, {}))
          [] OTHER -> CountLines(code, next, end, cl)

LineNumber(m, pc) ==
    LET decl == (IF m.overridable THEN 0 ELSE 1)
                + (IF m.argnames # <<>> \/ m.rest # NONE THEN 1 ELSE 0)
                + (IF m.varnames # <<>> THEN 1 ELSE 0)
    IN  1 + decl + (IF decl > 0 THEN 1 ELSE 0) + Block(m.opcodes, 1, pc).count

=============================================================================
