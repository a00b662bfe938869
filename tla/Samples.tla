------------------------------- MODULE Samples -------------------------------
(***************************************************************************)
(* Programs for the code generator, the decompiler and the interpreter:    *)
(* every expression form, operators in operators, every statement form in  *)
(* every other one; and the methods of a few objects that answer messages  *)
(* and handle errors.                                                      *)
(***************************************************************************)
EXTENDS Codegen

-----------------------------------------------------------------------------
(* The methods of the objects.                                             *)

I(n) == IntegerExpr(n)
V(x) == VarExpr(x)
Plus2(l, r) == BinaryExpr("+", l, r)
Div(l, r) == BinaryExpr("/", l, r)
Fail == Div(I(7), I(0))
Fn(f) == FunctionCallExpr(f, <<>>)
Method(args, stmts) == Program(TRUE, args, "", <<>>, stmts)
Do(e) == ExprStmt(e)

Methods == [
    m0    |-> Method(<<>>, <<ReturnExprStmt(I(5))>>),
    m1    |-> Method(<<"a">>, <<ReturnExprStmt(Plus2(V("a"), I(1)))>>),
    rest  |-> Program(FALSE, <<"a">>, "r", <<"l">>, <<Do(AssignExpr("l", V("r"))), ReturnExprStmt(V("l"))>>),
    fail  |-> Method(<<>>, <<Do(AssignExpr("v", I(9))), Do(Fail)>>),
    prop  |-> Method(<<>>, <<ReturnExprStmt(PropagateExpr(Fail))>>),
    deep  |-> Method(<<>>, <<ReturnExprStmt(MessageExpr(This, "deep", <<>>))>>),
    throw |-> Method(<<>>, <<CatchStmt(<<>>, Do(FunctionCallExpr("throw", <<ErrorExpr("bad"), StringExpr("s")>>)),
                                       ReturnExprStmt(I(3)))>>),
    again |-> Method(<<>>, <<CatchStmt(<<>>, Do(Fail), Do(FunctionCallExpr("rethrow", <<Fn("error")>>)))>>),
    who   |-> Method(<<>>, <<ReturnExprStmt(ListExpr(<<Fn("this"), Fn("sender"), Fn("caller"), Fn("definer"),
                                                       CriticalExpr(Fn("rep"))>>))>>),
    over  |-> Method(<<"a">>, <<ReturnExprStmt(ListExpr(<<PassExpr(<<V("a")>>), I(2)>>))>>),
    base  |-> Method(<<"a">>, <<ReturnExprStmt(Plus2(V("a"), I(3)))>>),
    \* error handlers
    one   |-> Method(<<"e", "t", "a">>, <<ReturnExprStmt(I(1))>>),
    none  |-> Method(<<"e", "t", "a">>, <<>>),
    worse |-> Program(TRUE, <<"e">>, "r", <<>>, <<ReturnExprStmt(MessageExpr(This, "no", <<>>))>>),
    \* answers a message that is not understood with one that is
    other |-> Method(<<"e", "t", "a">>, <<ReturnExprStmt(SymbolExpr("m0"))>>)]

Passed == [over |-> "base"]
Objects == 0 :> [none |-> "none"]
        @@ 1 :> [x \in {"m0", "m1", "rest", "fail", "prop", "deep", "throw", "again", "who", "over", "none"} |-> x]
        @@ 2 :> [m0 |-> "m0", who |-> "who", catch |-> "other"]
        @@ 3 :> [catch |-> "one", m1 |-> "m1"]
        @@ 4 :> [catch |-> "none", who |-> "who"]
        @@ 5 :> [catch |-> "worse"]
Types == [SYMBOL |-> 2, STRING |-> 3, LIST |-> 4, DICT |-> 5, BUFFER |-> 9]

-----------------------------------------------------------------------------
(* Expressions: one program returns each.                                  *)

S == StringExpr("s")
L(args) == ListExpr(args)
To(to, m) == MessageExpr(to, m, <<>>)
NEG(e) == UnaryExpr("NEG", e)
Crit(e) == CriticalExpr(e)
Two == L(<<I(1), I(2)>>)
Pairs == DictExpr(<<L(<<I(1), S>>), L(<<S, I(2)>>), L(<<I(1), I(3)>>)>>)

\* Every pair of n and m elements.
Product(n, m, Op(_, _)) == [k \in 1 .. n * m |-> Op(1 + (k - 1) \div m, 1 + ((k - 1) % m))]

Ops   == <<"*", "/", "%", "-", "+", "EQ", "NE", ">", ">=", "<", "<=", "IN">>
Lefts == <<I(7), NEG(I(5)), S, Two, Pairs, Fail>>
Rights == <<I(2), I(0), S, Two, Pairs>>

Operands == Product(Len(Lefts), Len(Rights), LAMBDA l, r : <<Lefts[l], Rights[r]>>)

\* The order of strings and lists, and search in strings, are not modelled.
Searchable(e) == e.opcode = "IN" => e.right.type # "STRING"

Operations == SelectSeq(Product(Len(Ops), Len(Operands),
                                LAMBDA o, a : BinaryExpr(Ops[o], Operands[a][1], Operands[a][2])),
                        LAMBDA e : Searchable(e) /\ (e.opcode \in {">", ">=", "<", "<="} =>
                                      (e.left.type \in {"INTEGER", "UNARY"}) \/ e.right.type = "INTEGER"))

\* Operators in operators: the listing needs the right parentheses.
Wraps(e) == <<BinaryExpr("*", e, I(3)), BinaryExpr("-", I(3), e), BinaryExpr("-", e, I(3)), NEG(e),
              BinaryExpr("EQ", e, I(1)), AndExpr(e, I(4)), AndExpr(I(4), e), OrExpr(e, I(4)), OrExpr(I(0), e),
              CondExpr(e, I(4), I(5)), CondExpr(I(0), e, I(6)), CondExpr(I(0), I(6), e), UnaryExpr("!", e),
              IndexExpr(L(<<e, I(8)>>), I(1)), IndexExpr(e, I(1)), BinaryExpr("IN", e, Two), Crit(e),
              PropagateExpr(e), MessageExpr(This, "m1", <<e>>), To(e, "who"), L(<<SpliceExpr(e), I(1)>>)>>
Inners == <<BinaryExpr("+", V("x"), I(2)), NEG(I(2)), OrExpr(V("x"), I(0)), CondExpr(V("x"), I(2), I(1)),
            To(This, "m0"), Two, AssignExpr("x", I(2))>>
Nested == FlattenSeq([i \in DOMAIN Inners |-> Wraps(Inners[i])])

Others == <<
    To(This, "m0"), To(This, "m1"), To(This, "fail"), To(This, "prop"), To(This, "deep"), To(This, "throw"),
    To(This, "again"), To(This, "who"), To(This, "no"), To(S, "m1"), MessageExpr(S, "m1", <<I(2)>>), To(Two, "who"),
    To(SymbolExpr("a"), "who"), To(BufferExpr(<<I(1)>>), "m0"), To(I(1), "m0"), To(NameExpr("SYMBOL"), "m0"),
    To(CondExpr(I(1), FrobExpr(NameExpr("SYMBOL"), S), S), "who"), FrobExpr(NameExpr("SYMBOL"), Two), FrobExpr(I(1), S), FrobExpr(S, S), NameExpr("nosuch"),
    MessageExpr(This, "rest", <<>>), MessageExpr(This, "rest", <<I(1)>>), MessageExpr(This, "rest", <<I(1), SpliceExpr(Two)>>),
    MessageExpr(This, "over", <<I(4)>>), PassExpr(<<>>),
    ExprMessageExpr(This, SymbolExpr("m1"), <<I(4)>>), ExprMessageExpr(This, SymbolExpr("no"), <<>>),
    ExprMessageExpr(SymbolExpr("a"), SymbolExpr("no"), <<>>), ExprMessageExpr(This, S, <<>>),
    ExprMessageExpr(S, SymbolExpr("m1"), <<S>>), L(<<>>), L(<<I(1), SpliceExpr(Two), I(3)>>),
    L(<<SpliceExpr(Two), SpliceExpr(Two)>>), L(<<SpliceExpr(I(2)), Fail>>), L(<<I(1), SpliceExpr(S)>>),
    DictExpr(<<I(1)>>), BufferExpr(<<I(300), I(2)>>), BufferExpr(<<S>>),
    IndexExpr(Two, I(2)), IndexExpr(Two, I(3)), IndexExpr(Two, S), IndexExpr(S, I(4)), IndexExpr(Pairs, S),
    IndexExpr(Pairs, I(5)), IndexExpr(I(1), I(1)), Fn("this"), Fn("sender"), Fn("rep"), Fn("error"), Fn("traceback"),
    FunctionCallExpr("this", <<I(1)>>), FunctionCallExpr("throw", <<I(1), S>>), FunctionCallExpr("throw", <<ErrorExpr("bad")>>),
    FunctionCallExpr("rethrow", <<ErrorExpr("bad")>>), FunctionCallExpr("throw", <<ErrorExpr("bad"), S, Two>>),
    FunctionCallExpr("throw", <<ErrorExpr("bad"), I(2)>>), Plus2(V("x"), AssignExpr("x", I(2))), V("w"), AssignExpr("w", S),
    AssignExpr("x", Plus2(S, S)), AssignExpr("v", Plus2(Two, Two)), Crit(To(This, "fail")), Crit(Fail), L(<<I(1), Crit(Fail), I(2)>>),
    CondExpr(Crit(To(This, "prop")), I(1), I(2)), PropagateExpr(To(This, "throw")), PropagateExpr(Crit(Fail))>>

Returning(e) == Program(TRUE, <<>>, "", <<"x">>, <<ReturnExprStmt(e)>>)
Expressions == [i \in DOMAIN (Operations \o Nested \o Others) |-> Returning((Operations \o Nested \o Others)[i])]

-----------------------------------------------------------------------------
(* Statements: a form in a form in a method.  Literals of two digits occur *)
(* once and mark the lines they are on.                                    *)

Add(k) == Do(AssignExpr("x", Plus2(V("x"), I(k))))
Small == BinaryExpr("<", V("x"), I(150))
AnyError == <<>>
DivError == <<"div">>

Leaves == <<Add(11), CompoundStmt(<<Add(11), BreakStmt>>), CompoundStmt(<<ContinueStmt, Add(11)>>), ReturnExprStmt(I(11)),
            CompoundStmt(<<Do(Fail), Add(11)>>), Do(To(This, "throw")), CompoundStmt(<<CommentStmt("c"), Add(11)>>), BreakStmt>>
Leaving == {2, 3, 8}

\* k, k + 1, ... mark the statements beside b.
Forms(b, k) ==
    <<IfStmt(Small, b), IfElseStmt(Small, b, Add(k)), IfElseStmt(V("x"), Add(k), b),
      IfElseStmt(V("y"), ReturnStmt, IfElseStmt(Small, b, Add(k))),
      IfElseStmt(V("y"), Add(k), IfStmt(Small, b)),
      SwitchStmt(V("x"), <<CaseEntry(<<I(151)>>, <<>>), CaseEntry(<<S, RangeExpr(I(9), I(99)), I(150)>>, <<b>>), CaseEntry(<<Fail>>, <<Add(k)>>)>>),
      SwitchStmt(V("x"), <<CaseEntry(<<RangeExpr(I(1), I(2))>>, <<Add(k)>>), CaseEntry(<<>>, <<b, Add(k + 1)>>)>>),
      CompoundStmt(<<b, Add(k)>>),
      ForRangeStmt("y", I(1), I(2), b), ForListStmt("y", Two, CompoundStmt(<<b, Add(k)>>)),
      WhileStmt(Small, b),
      CatchStmt(AnyError, b, Do(AssignExpr("y", Fn("error")))), CatchStmt(DivError, CompoundStmt(<<Add(k), b>>), NoopStmt),
      CatchStmt(<<"bad", "range">>, b, Add(k)), CatchStmt(AnyError, Do(Fail), b)>>
Loops == 9 .. 11
Catches == 12 .. 15

Body(stmts) == Program(TRUE, <<>>, "r", <<"x", "y">>, <<Add(10)>> \o stmts \o <<ReturnExprStmt(L(<<V("x"), V("y"), V("v")>>))>>)

\* BREAK and CONTINUE that leave no catch statement.
Nesting(f, g, l) == l \in Leaving => g \in Loops \/ (f \in Loops /\ g \notin Catches)

NF == Len(Forms(NoopStmt, 0))
Triples == SelectSeq(Product(NF, NF * Len(Leaves),
                             LAMBDA f, n : <<f, 1 + (n - 1) \div Len(Leaves), 1 + ((n - 1) % Len(Leaves))>>),
                     LAMBDA t : Nesting(t[1], t[2], t[3]))
Statements == [i \in DOMAIN Triples |->
    Body(<<Forms(Forms(Leaves[Triples[i][3]], 20)[Triples[i][2]], 30)[Triples[i][1]]>>)]

\* Bodies without statements.
Empties == <<Body(<<IfStmt(Small, NoopStmt), Add(11)>>), Body(<<IfElseStmt(Small, NoopStmt, Add(11)), Add(12)>>),
             Body(<<IfElseStmt(Small, NoopStmt, WhileStmt(Small, Add(11))), Add(12)>>),
             Body(<<IfElseStmt(V("y"), Add(11), IfStmt(Small, NoopStmt)), Add(12)>>), Body(<<IfElseStmt(Small, Add(11), NoopStmt), Add(12)>>),
             Body(<<WhileStmt(Fn("rep"), NoopStmt), Add(12)>>), Body(<<ForListStmt("y", Two, CompoundStmt(<<>>)), Add(12)>>)>>

AllSamples == Expressions \o Statements \o Empties

-----------------------------------------------------------------------------
(* Programs the passing run leaves out.                                    *)

\* for y in [1 .. 2] { catch any { break; } }  w;
BreakInCatch == <<Body(<<ForRangeStmt("y", I(1), I(2), CatchStmt(AnyError, BreakStmt, NoopStmt)), Do(V("w"))>>)>>

\* return [1, (| [7 / 0] |), 2];
CriticalArgs == <<Returning(L(<<I(1), Crit(L(<<Fail>>)), I(2)>>))>>

=============================================================================
