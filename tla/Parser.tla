-------------------------------- MODULE Parser --------------------------------
(***************************************************************************)
(* The grammar of the language (grammar.y): what tree the parser builds of *)
(* a method's text, given as the tokens that Decode's listings consist of. *)
(* The grammar's precedences and its preference for shifting are what a    *)
(* climb over precedence levels does.                                      *)
(***************************************************************************)
EXTENDS Codegen

CONSTANT Numbers        \* the numbers that texts contain

-----------------------------------------------------------------------------
(* ts: the tokens.  A result is [tree, pos]: what was read and where the   *)
(* rest begins.                                                            *)

At(ts, pos) == IF pos \in DOMAIN ts THEN ts[pos] ELSE "end of text"
Read(tree, pos) == [tree |-> tree, pos |-> pos]

SyntaxError == [type |-> "SYNTAX_ERROR"]

NumberToken == [t \in {ToString(n) : n \in Numbers} |-> CHOOSE n \in Numbers : ToString(n) = t]

Level == [t \in {"?", "||", "&&", "in", "==", "!=", ">", ">=", "<", "<=", "+", "-", "*", "/", "%"} |->
            CASE t = "?"  -> 2
              [] t = "||" -> 3
              [] t = "&&" -> 4
              [] t = "in" -> 5
              [] t \in {"==", "!=", ">", ">=", "<", "<="} -> 6
              [] t \in {"+", "-"} -> 7
              [] OTHER    -> 8]
UnaryLevel == 9
RightAssociative == {"?", "||", "&&"}

Operation(t) == CASE t = "in" -> "IN" [] t = "==" -> "EQ" [] t = "!=" -> "NE" [] OTHER -> t

\* The tokens after which no operand begins: a frob's > is an operator otherwise.
Closers == {")", "]", ">", ",", ";", ":", "..", "|", "|)", "<)", "{", "}", "=", "end of text"}
        \cup (DOMAIN Level \ {"-", "+", "<"})

IsOperator(ts, pos) ==
    /\ At(ts, pos) \in DOMAIN Level
    /\ At(ts, pos) = ">" => At(ts, pos + 1) \notin Closers

-----------------------------------------------------------------------------
(* Expressions.                                                            *)

RECURSIVE ParseExpr(_, _, _), ParseArgs(_, _, _, _), Postfix(_, _, _), Climb(_, _, _, _)

\* sexpr: an expression or a list to splice.
ParseElement(ts, pos) ==
    LET e == ParseExpr(ts, pos + 1, 0)
    IN  IF At(ts, pos) = "@" THEN Read(SpliceExpr(e.tree), e.pos) ELSE ParseExpr(ts, pos, 0)

\* args up to the closing token, which is passed.
ParseArgs(ts, pos, close, done) ==
    LET e == ParseElement(ts, pos)
    IN  CASE At(ts, pos) = close -> Read(done, pos + 1)
          [] At(ts, pos) # close /\ At(ts, e.pos) = "," -> ParseArgs(ts, e.pos + 1, close, Append(done, e.tree))
          [] OTHER -> Read(Append(done, e.tree), e.pos + 1)

\* What follows ".": a message to the expression before it.
ParseMessage(ts, pos, to) ==
    LET selector == ParseExpr(ts, pos + 1, 0)
        byname   == ParseArgs(ts, pos + 2, ")", <<>>)
        byvalue  == ParseArgs(ts, selector.pos + 2, ")", <<>>)
    IN  IF At(ts, pos) = "(" THEN Read(ExprMessageExpr(to, selector.tree, byvalue.tree), byvalue.pos)
        ELSE Read(MessageExpr(to, At(ts, pos), byname.tree), byname.pos)

ParseIdent(ts, pos) ==
    LET value == ParseExpr(ts, pos + 2, 0)
        args  == ParseArgs(ts, pos + 2, ")", <<>>)
        name  == At(ts, pos)
    IN  CASE At(ts, pos + 1) = "=" -> Read(AssignExpr(name, value.tree), value.pos)
          [] At(ts, pos + 1) = "(" ->
                Read(IF name = "pass" THEN PassExpr(args.tree) ELSE FunctionCallExpr(name, args.tree), args.pos)
          [] OTHER -> Read(VarExpr(name), pos + 1)

ParseFrob(ts, pos) ==
    LET class == ParseExpr(ts, pos, 0)
        rep   == ParseExpr(ts, class.pos + 1, 0)
    IN  Read(FrobExpr(class.tree, rep.tree), rep.pos + 1)

ParsePrimary(ts, pos) ==
    LET t     == At(ts, pos)
        next  == At(ts, pos + 1)
        inner == ParseExpr(ts, pos + 1, 0)
        Args  == ParseArgs(ts, pos + 1, "]", <<>>)
        Literal(e) == Read(e, pos + 2)
        Unary(op) == LET e == ParseExpr(ts, pos + 1, UnaryLevel) IN Read(UnaryExpr(op, e.tree), e.pos)
    IN  CASE t \in DOMAIN NumberToken -> Read(IntegerExpr(NumberToken[t]), pos + 1)
          [] t = "\"" -> Literal(StringExpr(next))
          [] t = "#"  -> Literal(DbrefExpr(NumberToken[next]))
          [] t = "'"  -> Literal(SymbolExpr(next))
          [] t = "~"  -> Literal(ErrorExpr(next))
          [] t = "$"  -> Literal(NameExpr(next))
          [] t = "."  -> ParseMessage(ts, pos + 1, This)
          [] t = "["  -> Read(ListExpr(Args.tree), Args.pos)
          [] t = "#[" -> Read(DictExpr(Args.tree), Args.pos)
          [] t = "buffer[" -> Read(BufferExpr(Args.tree), Args.pos)
          [] t = "<"  -> ParseFrob(ts, pos + 1)
          [] t = "!"  -> Unary("!")
          [] t = "-"  -> Unary("NEG")
          [] t = "+"  -> ParseExpr(ts, pos + 1, UnaryLevel)
          [] t = "("  -> Read(inner.tree, inner.pos + 1)
          [] t = "(|" -> Read(CriticalExpr(inner.tree), inner.pos + 1)
          [] t = "(>" -> Read(PropagateExpr(inner.tree), inner.pos + 1)
          [] t \in Closers -> Read(SyntaxError, pos + 1)
          [] OTHER    -> ParseIdent(ts, pos)

Postfix(ts, pos, e) ==
    LET message == ParseMessage(ts, pos + 1, e)
        offset  == ParseExpr(ts, pos + 1, 0)
    IN  CASE At(ts, pos) = "." -> Postfix(ts, message.pos, message.tree)
          [] At(ts, pos) = "[" -> Postfix(ts, offset.pos + 1, IndexExpr(e, offset.tree))
          [] OTHER -> Read(e, pos)

Binary(t, l, r) == CASE t = "||" -> OrExpr(l, r)
                     [] t = "&&" -> AndExpr(l, r)
                     [] OTHER    -> BinaryExpr(Operation(t), l, r)

\* e has been read; operators of the level min or above go on with it.
Climb(ts, pos, min, e) ==
    LET t     == At(ts, pos)
        right == ParseExpr(ts, pos + 1, IF t \in RightAssociative THEN Level[t] ELSE Level[t] + 1)
        true  == ParseExpr(ts, pos + 1, 0)
        false == ParseExpr(ts, true.pos + 1, Level[t])
    IN  IF ~IsOperator(ts, pos) THEN Read(e, pos)
        ELSE CASE Level[t] < min -> Read(e, pos)
               [] Level[t] >= min /\ t = "?" -> Climb(ts, false.pos, min, CondExpr(e, true.tree, false.tree))
               [] OTHER -> Climb(ts, right.pos, min, Binary(t, e, right.tree))

ParseExpr(ts, pos, min) ==
    LET first == ParsePrimary(ts, pos)
        whole == Postfix(ts, first.pos, first.tree)
    IN  Climb(ts, whole.pos, min, whole.tree)

-----------------------------------------------------------------------------
(* Statements.                                                             *)

RECURSIVE ParseStmt(_, _), ParseStmtList(_, _, _), ParseErrors(_, _, _), ParseCases(_, _, _),
          ParseCaseValues(_, _, _), ParseIdList(_, _, _)

ParseStmtList(ts, pos, done) ==
    LET s == ParseStmt(ts, pos)
    IN  IF At(ts, pos) \in {"}", "case", "default", "end of text"} THEN Read(done, pos)
        ELSE ParseStmtList(ts, s.pos, Append(done, s.tree))

\* An else belongs to the if before it.
ParseIf(ts, pos) ==
    LET cond  == ParseExpr(ts, pos + 1, 0)
        true  == ParseStmt(ts, cond.pos + 1)
        false == ParseStmt(ts, true.pos + 1)
    IN  IF At(ts, true.pos) = "else" THEN Read(IfElseStmt(cond.tree, true.tree, false.tree), false.pos)
        ELSE Read(IfStmt(cond.tree, true.tree), true.pos)

\* pos is after "for": IDENT in ...
ParseFor(ts, pos) ==
    LET first == ParseExpr(ts, pos + 3, 0)
        upper == ParseExpr(ts, first.pos + 1, 0)
        end   == IF At(ts, pos + 2) = "[" THEN upper.pos ELSE first.pos
        body  == ParseStmt(ts, end + 1)
    IN  Read(IF At(ts, pos + 2) = "[" THEN ForRangeStmt(At(ts, pos), first.tree, upper.tree, body.tree)
             ELSE ForListStmt(At(ts, pos), first.tree, body.tree), body.pos)

ParseWhile(ts, pos) ==
    LET cond == ParseExpr(ts, pos + 1, 0)
        body == ParseStmt(ts, cond.pos + 1)
    IN  Read(WhileStmt(cond.tree, body.tree), body.pos)

ParseCaseValues(ts, pos, done) ==
    LET e     == ParseExpr(ts, pos, 0)
        upper == ParseExpr(ts, e.pos + 1, 0)
        value == IF At(ts, e.pos) = ".." THEN Read(RangeExpr(e.tree, upper.tree), upper.pos) ELSE e
    IN  IF At(ts, value.pos) = "," THEN ParseCaseValues(ts, value.pos + 1, Append(done, value.tree))
        ELSE Read(Append(done, value.tree), value.pos)

ParseCases(ts, pos, done) ==
    LET values  == IF At(ts, pos) = "case" THEN ParseCaseValues(ts, pos + 1, <<>>) ELSE Read(<<>>, pos + 1)
        stmts   == ParseStmtList(ts, values.pos + 1, <<>>)
    IN  IF At(ts, pos) \notin {"case", "default"} THEN Read(done, pos + 1)
        ELSE ParseCases(ts, stmts.pos, Append(done, CaseEntry(values.tree, stmts.tree)))

ParseSwitch(ts, pos) ==
    LET e     == ParseExpr(ts, pos + 1, 0)
        cases == ParseCases(ts, e.pos + 2, <<>>)
    IN  Read(SwitchStmt(e.tree, cases.tree), cases.pos)

ParseErrors(ts, pos, done) ==
    CASE At(ts, pos) = "any" -> Read(<<>>, pos + 1)
      [] At(ts, pos) \in {"~", ","} ->
            ParseErrors(ts, pos + (IF At(ts, pos) = "~" THEN 2 ELSE 1),
                        IF At(ts, pos) = "~" THEN Append(done, At(ts, pos + 1)) ELSE done)
      [] OTHER -> Read(done, pos)

ParseCatch(ts, pos) ==
    LET errs    == ParseErrors(ts, pos, <<>>)
        body    == ParseStmt(ts, errs.pos)
        handler == ParseStmt(ts, body.pos + 2)
    IN  IF At(ts, body.pos) = "with" THEN Read(CatchStmt(errs.tree, body.tree, handler.tree), handler.pos)
        ELSE Read(CatchStmt(errs.tree, body.tree, NoopStmt), body.pos)

ParseStmt(ts, pos) ==
    LET t     == At(ts, pos)
        expr  == ParseExpr(ts, pos, 0)
        value == ParseExpr(ts, pos + 1, 0)
        block == ParseStmtList(ts, pos + 1, <<>>)
    IN  CASE t = "//"       -> Read(CommentStmt(At(ts, pos + 1)), pos + 2)
          [] t = ";"        -> Read(NoopStmt, pos + 1)
          [] t = "{"        -> Read(CompoundStmt(block.tree), block.pos + 1)
          [] t = "if"       -> ParseIf(ts, pos + 1)
          [] t = "for"      -> ParseFor(ts, pos + 1)
          [] t = "while"    -> ParseWhile(ts, pos + 1)
          [] t = "switch"   -> ParseSwitch(ts, pos + 1)
          [] t = "break"    -> Read(BreakStmt, pos + 2)
          [] t = "continue" -> Read(ContinueStmt, pos + 2)
          [] t = "return"   -> IF At(ts, pos + 1) = ";" THEN Read(ReturnStmt, pos + 2)
                               ELSE Read(ReturnExprStmt(value.tree), value.pos + 1)
          [] t = "catch"    -> ParseCatch(ts, pos + 1)
          [] OTHER          -> Read(ExprStmt(expr.tree), expr.pos + 1)

-----------------------------------------------------------------------------
(* A method.                                                               *)

ParseIdList(ts, pos, done) ==       \* names, up to ";" or "["
    CASE At(ts, pos) = "," -> ParseIdList(ts, pos + 1, done)
      [] At(ts, pos) \in {";", "[", "end of text"} -> Read(done, pos)
      [] OTHER -> ParseIdList(ts, pos + 1, Append(done, At(ts, pos)))

Parse(ts) ==
    LET over == At(ts, 1) # "disallow_overrides"
        p1   == IF over THEN 1 ELSE 3
        args == IF At(ts, p1) = "arg" THEN ParseIdList(ts, p1 + 1, <<>>) ELSE Read(<<>>, p1 - 1)
        rest == IF At(ts, args.pos) = "[" THEN At(ts, args.pos + 1) ELSE ""
        p2   == args.pos + (IF rest = "" THEN 1 ELSE 4)
        vars == IF At(ts, p2) = "var" THEN ParseIdList(ts, p2 + 1, <<>>) ELSE Read(<<>>, p2 - 1)
    IN  Program(over, args.tree, rest, vars.tree, ParseStmtList(ts, vars.pos + 1, <<>>).tree)

=============================================================================
