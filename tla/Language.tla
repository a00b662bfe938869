------------------------------- MODULE Language -------------------------------
(***************************************************************************)
(* What a program of the language means, said of its syntax tree: the      *)
(* outcome that the code generator and the interpreter together are to     *)
(* arrive at.  There is no code, no stack, no frame and no specifier here; *)
(* a context c holds what a method call knows, a state s its variables and *)
(* those of the objects.  Ticks are left out.                              *)
(*                                                                         *)
(* A result is a value or an error, with the state after it.  given: a     *)
(* method returned the value itself.  asis: a propagate expression, or a   *)
(* failed error handler, lets the error leave the method as it is.  left:  *)
(* throw() and rethrow() leave the method at once, past its catches.       *)
(***************************************************************************)
EXTENDS Interp

Val(d, s)           == [kind |-> "value", val |-> d, given |-> TRUE, s |-> s]
Err(error, asis, s) == [kind |-> "error", error |-> error, asis |-> asis, left |-> FALSE, s |-> s]
Left(error, s)      == [kind |-> "error", error |-> error, asis |-> TRUE, left |-> TRUE, s |-> s]
Done(s)            == [kind |-> "next", s |-> s]

Then(r, Op(_, _)) == IF r.kind = "value" THEN Op(r.val, r.s) ELSE r

RECURSIVE Eval(_, _, _), EvalArgs(_, _, _, _), ExecAll(_, _, _), Apply(_, _, _, _)

-----------------------------------------------------------------------------
(* Calls.  c: the tree of "go", the object, the method, sender, caller and *)
(* rep, the errors being handled, and the number of calls under way.       *)

Tree(name, c) == IF name = "go" THEN c.main ELSE Callees[name]

Takes(p, n) == n = Len(p.args) \/ (n > Len(p.args) /\ p.rest # "")

LocalVars(p, args) ==
    LET n == Len(p.args)
    IN  [x \in ToSet(p.args) |-> args[LastIndex(p.args, x)]]
        @@ [x \in IF p.rest = "" THEN {} ELSE {p.rest} |-> List(SubSeq(args, n + 1, Len(args)))]
        @@ [x \in ToSet(p.vars) |-> Integer(0)]

\* c is the called method's context.
Call(args, c, s) ==
    LET p   == Tree(c.method, c)
        r   == ExecAll(p.stmts, c, [locals |-> LocalVars(p, args), params |-> s.params])
        out == [s EXCEPT !.params = r.s.params]
    IN  CASE ~Takes(p, Len(args)) -> Err("numargs", FALSE, s)
          [] Takes(p, Len(args)) /\ c.depth > MaxDepth + 1 -> Err("maxdepth", FALSE, s)
          [] OTHER ->
                CASE r.kind = "error" -> Err(IF r.asis THEN r.error ELSE "methoderr", FALSE, out)
                  [] r.kind = "value" -> Val(r.val, out)
                  [] OTHER            -> [Val(Dbref(c.self), out) EXCEPT !.given = FALSE]

Callee(c, self, method, rep) ==
    [c EXCEPT !.self = self, !.method = method, !.sender = c.self, !.caller = 1, !.rep = rep,
              !.handling = <<>>, !.depth = @ + 1]

Understands(d, message) ==
    ClassOf(d) \in DOMAIN Found /\ message \in DOMAIN Found[ClassOf(d)]

\* The object of target may have a method catch, which is asked for a value to
\* go on with.  When it gives none, the error leaves the method as it is.
Repaired(target, suberror, error, value, c, s, GoOn(_, _)) ==
    LET name == Found[ClassOf(target)]["catch"]
        r    == Call(<<Error(suberror), List(<<>>), value>>, Callee(c, ClassOf(target), name, RepOf(target)), s)
    IN  CASE ~Understands(target, "catch") \/ c.depth > MaxDepth -> Err(error, FALSE, s)
          [] Understands(target, "catch") /\ c.depth <= MaxDepth ->
                CASE ~Takes(Tree(name, c), 3) -> Err(error, FALSE, s)
                  [] Takes(Tree(name, c), 3) /\ r.kind = "value" /\ r.given -> GoOn(r.val, r.s)
                  [] OTHER -> Err(error, TRUE, r.s)

Wrong(value, suberror, c, s, GoOn(_, _)) == Repaired(value, suberror, "type", value, c, s, GoOn)

Send(target, message, args, c, s) ==
    CASE ClassOf(target) = NONE -> Err("objnf", FALSE, s)
      [] ClassOf(target) # NONE /\ ClassOf(target) \notin DOMAIN Found ->
            Repaired(Dbref(SYSTEM_DBREF), "objnf", "objnf", target, c, s,
                     LAMBDA d, t : Apply("SEND", <<d, Symbol(message)>> \o args, c, t))
      [] OTHER ->
            CASE Understands(target, message) ->
                    Call(args, Callee(c, ClassOf(target), Found[ClassOf(target)][message], RepOf(target)), s)
              [] message = "catch" -> Err("methodnf", FALSE, s)
              [] OTHER -> Repaired(target, "methodnf", "methodnf", Symbol(message), c, s,
                                   LAMBDA d, t : Apply("SEND", <<target, d>> \o args, c, t))

Pass(args, c, s) ==
    IF c.method \notin DOMAIN NextMethod THEN Err("methodnf", FALSE, s)
    ELSE Call(args, [c EXCEPT !.method = NextMethod[c.method], !.handling = <<>>, !.depth = @ + 1], s)

-----------------------------------------------------------------------------
(* Operators on values.                                                    *)

ArithmeticOps == {"*", "/", "%", "-"}

\* The type the operands of + are to have, or none.
SumType(a, b) ==
    LET types == {a.type, b.type}
    IN  CASE "INTEGER" \in types -> "INTEGER"
          [] "INTEGER" \notin types /\ "STRING" \in types -> "STRING"
          [] types \cap {"INTEGER", "STRING"} = {} /\ "LIST" \in types -> "LIST"
          [] OTHER -> "none"

Joined(a, b) == CASE a.type = "INTEGER" -> Integer(a.val + b.val)
                  [] a.type = "STRING"  -> String(a.str \o b.str)
                  [] a.type = "LIST"    -> List(a.list \o b.list)

Number(op, a, b) ==
    LET quotient == LET q == (IF a < 0 THEN -a ELSE a) \div (IF b < 0 THEN -b ELSE b)
                    IN  IF a * b < 0 THEN -q ELSE q
    IN  CASE op = "*" -> a * b
          [] op = "-" -> a - b
          [] op = "/" -> quotient
          [] op = "%" -> a - b * quotient

Element(d, i) == IF d.type = "LIST" THEN d.list[i] ELSE String(SubSeq(d.str, i, i))

\* Both are of the type, or one of them is wrong.
Both(type, op, a, b, c, s, Op(_, _)) ==
    CASE a.type # type -> Wrong(a, TypeIdent[type], c, s, LAMBDA d, t : Apply(op, <<d, b>>, c, t))
      [] a.type = type /\ b.type # type ->
            Wrong(b, TypeIdent[type], c, s, LAMBDA d, t : Apply(op, <<a, d>>, c, t))
      [] OTHER -> Val(Op(a, b), s)

Arithmetic(op, a, b, c, s) ==
    IF op \in {"/", "%"} /\ {a.type, b.type} = {"INTEGER"} /\ b.val = 0
    THEN Repaired(b, "div", "div", b, c, s, LAMBDA d, t : Apply(op, <<a, d>>, c, t))
    ELSE Both("INTEGER", op, a, b, c, s, LAMBDA x, y : Integer(Number(op, x.val, y.val)))

Plus(a, b, c, s) ==
    LET type == SumType(a, b)
    IN  IF type = "none" THEN Repaired(a, "type", "type", a, c, s, LAMBDA d, t : Apply("+", <<d, b>>, c, t))
        ELSE Both(type, "+", a, b, c, s, LAMBDA x, y : Joined(x, y))

Index(d, i, c, s) ==
    LET at == {j \in DOMAIN d.pairs : d.pairs[j][1] = i}
    IN  CASE d.type \notin {"LIST", "STRING", "DICT"} ->
                Wrong(d, "type", c, s, LAMBDA x, t : Apply("INDEX", <<x, i>>, c, t))
          [] d.type = "DICT" -> IF at = {} THEN Err("keynf", FALSE, s)
                                ELSE Val(d.pairs[CHOOSE j \in at : TRUE][2], s)
          [] OTHER ->
                CASE i.type # "INTEGER" -> Err("type", FALSE, s)
                  [] i.type = "INTEGER" /\ i.val \notin 1 .. (IF d.type = "LIST" THEN Len(d.list) ELSE Len(d.str)) ->
                        Repaired(d, "range", "range", i, c, s, LAMBDA x, t : Apply("INDEX", <<d, x>>, c, t))
                  [] OTHER -> Val(Element(d, i.val), s)

Compare(op, a, b) ==
    CASE op = ">" -> DataOrder(a, b) > 0  [] op = ">=" -> DataOrder(a, b) >= 0
      [] op = "<" -> DataOrder(a, b) < 0  [] op = "<=" -> DataOrder(a, b) <= 0

Search(d, list, c, s) ==
    LET at == {i \in DOMAIN list.list : list.list[i] = d}
    IN  IF list.type # "LIST" THEN Wrong(list, "list", c, s, LAMBDA x, t : Apply("IN", <<d, x>>, c, t))
        ELSE Val(Integer(IF at = {} THEN 0 ELSE CHOOSE i \in at : \A j \in at : i <= j), s)

Negative(d, c, s) ==
    IF d.type # "INTEGER" THEN Wrong(d, "integer", c, s, LAMBDA x, t : Apply("NEG", <<x>>, c, t))
    ELSE Val(Integer(-d.val), s)

\* The values a loop's variable or a list of arguments takes.
ListElements(d, c, s) ==
    IF d.type # "LIST" THEN Wrong(d, "list", c, s, LAMBDA x, t : Apply("SPLICE", <<x>>, c, t)) ELSE Val(d.list, s)

RangeElements(a, b, c, s) ==
    Both("INTEGER", "FOR_RANGE", a, b, c, s,
         LAMBDA x, y : [i \in 1 .. y.val - x.val + 1 |-> Integer(x.val + i - 1)])

DomainElements(d, c, s) ==
    CASE d.type = "LIST" -> Val(d.list, s)
      [] d.type = "DICT" -> Val([i \in DOMAIN d.pairs |-> List(d.pairs[i])], s)
      [] OTHER -> Wrong(d, "type", c, s, LAMBDA x, t : Apply("FOR_LIST", <<x>>, c, t))

MakeFrob(class, rep, c, s) ==
    IF class.type # "DBREF" THEN Wrong(class, "dbref", c, s, LAMBDA x, t : Apply("FROB", <<x, rep>>, c, t))
    ELSE Val(Frob(class.dbref, rep), s)

MakeDict(pairs, s) ==
    IF \A i \in DOMAIN pairs : pairs[i].type = "LIST" /\ Len(pairs[i].list) = 2
    THEN Val(Dict(FoldLeft(LAMBDA p, d : DictAdd(p, d.list), <<>>, pairs)), s) ELSE Err("type", FALSE, s)

MakeBuffer(bytes, s) ==
    IF \A i \in DOMAIN bytes : bytes[i].type = "INTEGER"
    THEN Val(Buffer([i \in DOMAIN bytes |-> bytes[i].val % 256]), s) ELSE Err("type", FALSE, s)

\* args: the receiver, the message, its arguments.
SendSymbol(args, c, s) ==
    IF args[2].type # "SYMBOL"
    THEN Wrong(args[2], "symbol", c, s, LAMBDA d, t : Apply("SEND", [args EXCEPT ![2] = d], c, t))
    ELSE Send(args[1], args[2].symbol, SubSeq(args, 3, Len(args)), c, s)

Function(f, args, c, s) ==
    LET none == args = <<>>
        Handling(r) == IF c.handling = <<>> THEN Err("error", FALSE, s) ELSE r
    IN  CASE f \in {"this", "definer", "sender", "caller", "rep", "error", "traceback"} /\ ~none ->
                Err("numargs", FALSE, s)
          [] f = "this" /\ none -> Val(IF c.rep.type = "NONE" THEN Dbref(c.self) ELSE Frob(c.self, c.rep), s)
          [] f = "definer" /\ none -> Val(Dbref(1), s)
          [] f = "sender" /\ none -> Val(IF c.sender = NONE THEN Integer(0) ELSE Dbref(c.sender), s)
          [] f = "caller" /\ none -> Val(IF c.caller = NONE THEN Integer(0) ELSE Dbref(c.caller), s)
          [] f = "rep" /\ none -> IF c.rep.type = "NONE" THEN Err("frob", FALSE, s) ELSE Val(c.rep, s)
          [] f = "error" /\ none -> Handling(Val(Error(Last(c.handling)), s))
          [] f = "traceback" /\ none -> Handling(Val(List(<<>>), s))
          [] f = "throw" ->
                CASE Len(args) \notin 2..3 -> Err("numargs", FALSE, s)
                  [] Len(args) \in 2..3 /\ args[1].type # "ERROR" ->
                        Wrong(args[1], "ERROR", c, s, LAMBDA d, t : Apply(f, [args EXCEPT ![1] = d], c, t))
                  [] Len(args) \in 2..3 /\ args[1].type = "ERROR" /\ args[2].type # "STRING" ->
                        Wrong(args[2], "STRING", c, s, LAMBDA d, t : Apply(f, [args EXCEPT ![2] = d], c, t))
                  [] OTHER -> Left(args[1].error, s)
          [] f = "rethrow" ->
                CASE Len(args) # 1 -> Err("numargs", FALSE, s)
                  [] Len(args) = 1 /\ args[1].type # "ERROR" ->
                        Wrong(args[1], "ERROR", c, s, LAMBDA d, t : Apply(f, <<d>>, c, t))
                  [] OTHER -> Handling(Left(args[1].error, s))

Apply(op, args, c, s) ==
    LET a == args[1]
        b == args[2]
    IN  CASE op = "SEND" -> SendSymbol(args, c, s)
          [] op \in ArithmeticOps -> Arithmetic(op, a, b, c, s)
          [] op = "+" -> Plus(a, b, c, s)
          [] op = "SPLICE_ADD" -> Both("LIST", op, a, b, c, s, LAMBDA x, y : Joined(x, y))
          [] op = "EQ" -> Val(Bool(a = b), s)
          [] op = "NE" -> Val(Bool(a # b), s)
          [] op \in {">", ">=", "<", "<="} ->
                IF a.type # b.type THEN Err("type", FALSE, s) ELSE Val(Bool(Compare(op, a, b)), s)
          [] op = "IN" -> Search(a, b, c, s)
          [] op = "!" -> Val(Bool(~DataTrue(a)), s)
          [] op = "NEG" -> Negative(a, c, s)
          [] op = "INDEX" -> Index(a, b, c, s)
          [] op = "FROB" -> MakeFrob(a, b, c, s)
          [] op = "SPLICE" -> ListElements(a, c, s)
          [] op = "FOR_RANGE" -> RangeElements(a, b, c, s)
          [] op = "FOR_LIST" -> DomainElements(a, c, s)
          [] op = "LIST" -> Val(List(args), s)
          [] op = "DICT" -> MakeDict(args, s)
          [] op = "BUFFER" -> MakeBuffer(args, s)
          [] op = "PASS" -> Pass(args, c, s)
          [] op \in Functions -> Function(op, args, c, s)

-----------------------------------------------------------------------------
(* Expressions.                                                            *)

\* A spliced list's elements become arguments.
Elements(e, c, s) ==
    IF e.type # "SPLICE" THEN Then(Eval(e, c, s), LAMBDA d, t : Val(<<d>>, t))
    ELSE Then(Eval(e.expr, c, s), LAMBDA d, t :
            Apply("SPLICE", <<d>>, c, t))

EvalArgs(args, done, c, s) ==
    IF args = <<>> THEN Val(done, s)
    ELSE Then(Elements(Head(args), c, s), LAMBDA ds, t : EvalArgs(Tail(args), done \o ds, c, t))

With(args, op, c, s) == Then(EvalArgs(args, <<>>, c, s), LAMBDA ds, t : Apply(op, ds, c, t))

Assign(x, d, c, s) ==
    CASE x \in DOMAIN s.locals -> Val(d, [s EXCEPT !.locals[x] = d])
      [] x \notin DOMAIN s.locals /\ x = "v" -> Val(d, [s EXCEPT !.params[c.self] = d])
      [] OTHER -> Err("paramnf", FALSE, s)

Literal(e, s) ==
    CASE e.type = "INTEGER" -> Val(Integer(e.num), s)
      [] e.type = "STRING"  -> Val(String(e.str), s)
      [] e.type = "DBREF"   -> Val(Dbref(e.dbref), s)
      [] e.type = "SYMBOL"  -> Val(Symbol(e.symbol), s)
      [] e.type = "ERROR"   -> Val(Error(e.error), s)
      [] e.type = "NAME"    -> IF e.name \in DOMAIN TypeObject THEN Val(Dbref(TypeObject[e.name]), s)
                               ELSE Err("namenf", FALSE, s)

\* [@foo, ...]: the wrong foo is found once the rest is there.
EvalList(e, c, s) ==
    IF e.args # <<>> /\ Head(e.args).type = "SPLICE"
    THEN Then(Eval(Head(e.args).expr, c, s), LAMBDA d, t :
            Then(EvalArgs(Tail(e.args), <<>>, c, t), LAMBDA ds, u : Apply("SPLICE_ADD", <<d, List(ds)>>, c, u)))
    ELSE With(e.args, "LIST", c, s)

Critical(r) == IF r.kind = "error" /\ ~r.left THEN Val(Error(r.error), r.s) ELSE r
Propagate(r) == IF r.kind = "error" THEN [r EXCEPT !.asis = TRUE] ELSE r

Eval(e, c, s) ==
    CASE e.type \in Literals -> Literal(e, s)
      [] e.type = "VAR" -> CASE e.var \in DOMAIN s.locals -> Val(s.locals[e.var], s)
                             [] e.var \notin DOMAIN s.locals /\ e.var = "v" -> Val(s.params[c.self], s)
                             [] OTHER -> Err("paramnf", FALSE, s)
      [] e.type = "ASSIGN" -> Then(Eval(e.value, c, s), LAMBDA d, t : Assign(e.var, d, c, t))
      [] e.type = "FUNCTION_CALL" -> With(e.args, e.function, c, s)
      [] e.type \in {"PASS", "DICT", "BUFFER"} -> With(e.args, e.type, c, s)
      [] e.type = "MESSAGE" -> With(<<e.to, SymbolExpr(e.message)>> \o e.args, "SEND", c, s)
      [] e.type = "EXPR_MESSAGE" -> With(<<e.to, e.selector>> \o e.args, "SEND", c, s)
      [] e.type = "LIST" -> EvalList(e, c, s)
      [] e.type = "FROB" -> With(<<e.class, e.rep>>, "FROB", c, s)
      [] e.type = "INDEX" -> With(<<e.list, e.offset>>, "INDEX", c, s)
      [] e.type = "UNARY" -> With(<<e.expr>>, e.opcode, c, s)
      [] e.type = "BINARY" -> With(<<e.left, e.right>>, e.opcode, c, s)
      [] e.type = "AND" -> Then(Eval(e.left, c, s), LAMBDA d, t : IF DataTrue(d) THEN Eval(e.right, c, t) ELSE Val(d, t))
      [] e.type = "OR" -> Then(Eval(e.left, c, s), LAMBDA d, t : IF DataTrue(d) THEN Val(d, t) ELSE Eval(e.right, c, t))
      [] e.type = "CONDITIONAL" ->
            Then(Eval(e.cond, c, s), LAMBDA d, t : Eval(IF DataTrue(d) THEN e.true ELSE e.false, c, t))
      [] e.type = "CRITICAL" -> Critical(Eval(e.expr, c, s))
      [] e.type = "PROPAGATE" -> Propagate(Eval(e.expr, c, s))

-----------------------------------------------------------------------------
(* Statements.  A result may also be that the next one is to be executed,  *)
(* or a break, a continue or a return.                                     *)

Stop(kind, s) == [kind |-> kind, s |-> s]

RECURSIVE Exec(_, _, _), Loop(_, _, _, _, _), While(_, _, _), Cases(_, _, _, _)

ExecAll(stmts, c, s) ==
    IF stmts = <<>> THEN Done(s)
    ELSE LET r == Exec(Head(stmts), c, s)
         IN  IF r.kind = "next" THEN ExecAll(Tail(stmts), c, r.s) ELSE r

\* What a loop does after its body has had the result r.
After(r, GoOn(_)) == CASE r.kind \in {"next", "continue"} -> GoOn(r.s)
                       [] r.kind = "break" -> Done(r.s)
                       [] OTHER -> r

Loop(x, values, body, c, s) ==
    IF values = <<>> THEN Done(s)
    ELSE After(Exec(body, c, [s EXCEPT !.locals[x] = Head(values)]),
               LAMBDA t : Loop(x, Tail(values), body, c, t))

While(st, c, s) ==
    Then(Eval(st.cond, c, s), LAMBDA d, t :
        IF DataTrue(d) THEN After(Exec(st.body, c, t), LAMBDA u : While(st, c, u)) ELSE Done(t))

ForRange(st, c, s) ==
    Then(EvalArgs(<<st.lower, st.upper>>, <<>>, c, s), LAMBDA b, t :
        Then(Apply("FOR_RANGE", b, c, t), LAMBDA values, u : Loop(st.var, values, st.body, c, u)))

ForList(st, c, s) ==
    Then(Eval(st.list, c, s), LAMBDA d, t :
        Then(Apply("FOR_LIST", <<d>>, c, t), LAMBDA values, u : Loop(st.var, values, st.body, c, u)))

Within(value, low, high) ==
    value.type = low.type /\ DataOrder(value, low) >= 0 /\ DataOrder(value, high) <= 0

\* Does the value match one of a case's values, taken in order?
RECURSIVE Matches(_, _, _, _)
Matches(value, exprs, c, s) ==
    LET e == Head(exprs)
        Or(match, t) == IF match THEN Val(TRUE, t) ELSE Matches(value, Tail(exprs), c, t)
    IN  CASE exprs = <<>> -> Val(FALSE, s)
          [] exprs # <<>> /\ e.type = "RANGE" ->
                Then(EvalArgs(<<e.lower, e.upper>>, <<>>, c, s), LAMBDA b, t :
                    IF b[1].type # b[2].type \/ b[1].type \notin {"INTEGER", "STRING"} THEN Err("type", FALSE, t)
                    ELSE Or(Within(value, b[1], b[2]), t))
          [] OTHER -> Then(Eval(e, c, s), LAMBDA d, t : Or(d = value, t))

Cases(value, cases, c, s) ==
    CASE cases = <<>> -> Done(s)
      [] cases # <<>> /\ Head(cases).values = <<>> -> ExecAll(Head(cases).stmts, c, s)
      [] OTHER -> Then(Matches(value, Head(cases).values, c, s), LAMBDA match, t :
                      IF match THEN ExecAll(Head(cases).stmts, c, t) ELSE Cases(value, Tail(cases), c, t))

Catch(st, c, s) ==
    LET r == Exec(st.body, c, s)
    IN  IF r.kind = "error" /\ ~r.left /\ (st.errors = <<>> \/ r.error \in ToSet(st.errors))
        THEN Exec(st.handler, [c EXCEPT !.handling = Append(@, r.error)], r.s) ELSE r

Exec(st, c, s) ==
    CASE st.type \in {"COMMENT", "NOOP"} -> Done(s)
      [] st.type = "EXPR"        -> Then(Eval(st.expr, c, s), LAMBDA d, t : Done(t))
      [] st.type = "COMPOUND"    -> ExecAll(st.stmts, c, s)
      [] st.type = "IF"          ->
            Then(Eval(st.cond, c, s), LAMBDA d, t : IF DataTrue(d) THEN Exec(st.true, c, t) ELSE Done(t))
      [] st.type = "IF_ELSE"     ->
            Then(Eval(st.cond, c, s), LAMBDA d, t : Exec(IF DataTrue(d) THEN st.true ELSE st.false, c, t))
      [] st.type = "FOR_RANGE"   -> ForRange(st, c, s)
      [] st.type = "FOR_LIST"    -> ForList(st, c, s)
      [] st.type = "WHILE"       -> While(st, c, s)
      [] st.type = "SWITCH"      -> Then(Eval(st.expr, c, s), LAMBDA d, t : Cases(d, st.cases, c, t))
      [] st.type = "BREAK"       -> Stop("break", s)
      [] st.type = "CONTINUE"    -> Stop("continue", s)
      [] st.type = "RETURN"      -> Stop("return", s)
      [] st.type = "RETURN_EXPR" -> Eval(st.expr, c, s)      \* a value leaves the method
      [] st.type = "CATCH"       -> Catch(st, c, s)

-----------------------------------------------------------------------------
\* The outcome of "go", sent without arguments to object 1.
Meaning(program) ==
    LET c == [main |-> program, self |-> 1, method |-> "go", sender |-> NONE, caller |-> NONE,
              rep |-> NoData, handling |-> <<>>, depth |-> 1]
        r == Call(<<>>, c, [locals |-> <<>>, params |-> [d \in DOMAIN Found |-> Integer(0)]])
    IN  [outcome |-> IF r.kind = "value" THEN [kind |-> "value", value |-> r.val]
                     ELSE [kind |-> "error", error |-> r.error],
         params  |-> r.s.params]

=============================================================================
