------------------------------- MODULE Interp -------------------------------
(***************************************************************************)
(* The interpreter of one task: frames, the data stack, the stack of       *)
(* argument starts, error-action specifiers and object error handlers      *)
(* (execute.c), and the opcodes of the language (syntaxop.c, arithop.c,    *)
(* errorop.c, methodop.c).  One step executes one opcode, with everything  *)
(* it calls; the code comes from the code generator.                       *)
(*                                                                         *)
(* Data is a record whose second field is named as in data.h.  Strings     *)
(* order and search, the contents of tracebacks and of error messages, and *)
(* reference counts are left out.                                          *)
(***************************************************************************)
EXTENDS Codegen

CONSTANTS
    Programs,        \* sequence of method trees, one of which is run
    Callees,         \* the other methods: [name -> tree]
    NextMethod,      \* the method that pass() finds: [name -> name], partial
    Found,           \* [dbref -> [message -> name of the method found]], both partial
    TypeObject,      \* the object $type for data that is not a dbref: [type -> dbref], partial
    SYSTEM_DBREF,
    FrameTicks,      \* METHOD_TICKS, of every frame
    MaxDepth         \* MAX_CALL_DEPTH

ASSUME TicksAssumption == FrameTicks \in Nat \ {0} /\ MaxDepth \in Nat

VARIABLES
    prog,            \* which of Programs is run, as method "go" of object 1
    code,            \* the methods, and the string and identifier tables of object 1
    vm               \* the interpreter's globals, see InitVM

progVars == <<prog, code, vm>>

-----------------------------------------------------------------------------
(* Data.                                                                   *)

Integer(n) == [type |-> "INTEGER", val |-> n]
String(s)  == [type |-> "STRING", str |-> s]
Dbref(d)   == [type |-> "DBREF", dbref |-> d]
List(s)    == [type |-> "LIST", list |-> s]
Symbol(s)  == [type |-> "SYMBOL", symbol |-> s]
Error(e)   == [type |-> "ERROR", error |-> e]
Frob(c, r) == [type |-> "FROB", class |-> c, rep |-> r]
Dict(p)    == [type |-> "DICT", pairs |-> p]      \* key, value pairs in order of insertion
Buffer(b)  == [type |-> "BUFFER", bytes |-> b]
NoData     == [type |-> "NONE"]
Bool(b)    == Integer(IF b THEN 1 ELSE 0)

RECURSIVE DataTrue(_)
DataTrue(d) ==
    CASE d.type = "INTEGER" -> d.val # 0
      [] d.type = "STRING"  -> d.str # ""
      [] d.type = "LIST"    -> d.list # <<>>
      [] d.type = "DICT"    -> d.pairs # <<>>
      [] d.type = "BUFFER"  -> d.bytes # <<>>
      [] d.type = "ERROR"   -> FALSE
      [] d.type = "FROB"    -> DataTrue(d.rep)
      [] OTHER              -> TRUE

\* Only numbers: the order of other data is left out.
DataOrder(d1, d2) == IF d1.type = "INTEGER" THEN d1.val - d2.val ELSE d1.dbref - d2.dbref

\* A key that comes again replaces the value.
DictAdd(pairs, pair) ==
    LET at == {i \in DOMAIN pairs : pairs[i][1] = pair[1]}
    IN  IF at = {} THEN Append(pairs, pair) ELSE [pairs EXCEPT ![CHOOSE i \in at : TRUE] = pair]

-----------------------------------------------------------------------------
(* The methods, compiled one after the other on one object.                *)

RECURSIVE CompileAll(_, _, _)
CompileAll(names, acc, tree) ==
    IF names = {} THEN acc
    ELSE LET n == CHOOSE x \in names : TRUE
             g == GenerateMethod(tree[n], acc.tables)
         IN  CompileAll(names \ {n}, [methods |-> acc.methods @@ (n :> g.method), tables |-> g.tables], tree)

Library == CompileAll(DOMAIN Callees, [methods |-> <<>>, tables |-> NoTables], Callees)
WithMethod(p) ==
    LET g == GenerateMethod(p, Library.tables)
    IN  [methods |-> Library.methods @@ ("go" :> g.method), tables |-> g.tables]

MethodNamed(name) == code.methods[name]
ObjectGetString(i) == code.tables.strings[i].key
ObjectGetIdent(i) == code.tables.idents[i].key

-----------------------------------------------------------------------------
(* The stack and the frames.  v is a value of vm.                          *)

Cur(v) == Last(v.frames)
CallerOf(v) == v.frames[Len(v.frames) - 1]
SetFrame(v, f) == [v EXCEPT !.frames[Len(v.frames)] = f]
StackPos(v) == Len(v.stack)
Top(v, n) == v.stack[StackPos(v) - n]
SetTop(v, n, d) == [v EXCEPT !.stack[StackPos(v) - n] = d]
Push(v, d) == [v EXCEPT !.stack = Append(@, d)]

\* pop() asserts that it is asked for no negative number.
Pop(v, n) == IF n < 0 THEN [v EXCEPT !.outcome = [kind |-> "assertion"]]
             ELSE [v EXCEPT !.stack = SubSeq(@, 1, Len(@) - n)]

Replace(v, n, d) == Push(Pop(v, n), d)

Operand(v, n) == MethodNamed(Cur(v).method).opcodes[Cur(v).pc + n]
Jump(v, pc) == SetFrame(v, [Cur(v) EXCEPT !.pc = pc])
Skip(v, n) == Jump(v, Cur(v).pc + n)

\* The top data of args is the start of the arguments; the C stack position
\* of stack[i] is i - 1.
ArgStart(v) == Last(v.args)
PopArgs(v) == [v EXCEPT !.args = Front(@)]
Args(v) == SubSeq(v.stack, ArgStart(v) + 1, StackPos(v))

VarIndex(v, n) == Cur(v).var_start + n + 1

FrameStartError(v, method, arg_start) ==
    LET m == MethodNamed(method)
        n == StackPos(v) - arg_start
    IN  CASE n < Len(m.argnames) \/ (n > Len(m.argnames) /\ m.rest = NONE) -> "numargs"
          [] Len(v.frames) > MaxDepth -> "maxdepth"
          [] OTHER -> "none"

StartFrame(v, object, method, sender, rep, caller, stack_start, arg_start) ==
    LET m     == MethodNamed(method)
        named == SubSeq(v.stack, 1, arg_start + Len(m.argnames))
        rest  == SubSeq(v.stack, arg_start + Len(m.argnames) + 1, StackPos(v))
        args  == IF m.rest = NONE THEN named ELSE Append(named, List(rest))
    IN  [v EXCEPT !.stack = args \o [i \in 1..Len(m.varnames) |-> Integer(0)],
                  !.restart = FALSE,
                  !.frames = Append(@, [object |-> object, method |-> method, sender |-> sender, rep |-> rep,
                                        caller |-> caller, pc |-> 1, last_pc |-> 1, ticks |-> FrameTicks,
                                        specifiers |-> <<>>, handler_info |-> <<>>,
                                        stack_start |-> stack_start, var_start |-> arg_start,
                                        argpos_start |-> Len(v.args)])]

PushSpecifier(v, spec) == SetFrame(v, [Cur(v) EXCEPT !.specifiers = Append(@, spec)])
PopErrorActionSpecifier(v) ==
    SetFrame(v, [Cur(v) EXCEPT !.specifiers = IF @ = <<>> THEN @ ELSE Front(@)])
PushHandlerInfo(v, error) == SetFrame(v, [Cur(v) EXCEPT !.handler_info = Append(@, error)])
PopHandlerInfo(v) == SetFrame(v, [Cur(v) EXCEPT !.handler_info = IF @ = <<>> THEN @ ELSE Front(@)])

ReturnFrame(v) ==
    [v EXCEPT !.stack = SubSeq(@, 1, Cur(v).stack_start),
              !.args = SubSeq(@, 1, Cur(v).argpos_start),
              !.frames = Front(@)]

-----------------------------------------------------------------------------
(* Errors.                                                                 *)

Handles(v, spec, error) ==
    \/ spec.error_list = NONE
    \/ error \in ToSet(MethodNamed(Cur(v).method).error_lists[spec.error_list])

Unwound(v, spec) == Pop(v, StackPos(v) - spec.stack_pos)

\* The stack is not cut back to where it was at the critical expression.
Bug_CriticalHandles(v, spec, error) == PopErrorActionSpecifier(Push(Jump(v, spec.end), Error(error)))

CriticalHandles(v, spec, error) ==
    PopErrorActionSpecifier(Push(Jump(Unwound(v, spec), spec.end), Error(error)))

CatchHandles(v, spec, error) ==
    PopErrorActionSpecifier(Jump(Unwound(PushHandlerInfo(v, error), spec), spec.handler))

RECURSIVE PropagateError(_, _, _)
\* propagate: the frame is to hand error itself on, not ~methoderr.
PropagateError(v, error, propagate) ==
    IF v.frames = <<>> THEN [v EXCEPT !.outcome = [kind |-> "error", error |-> error]]
    ELSE IF Cur(v).specifiers = <<>>
    THEN PropagateError(ReturnFrame(v), IF propagate THEN error ELSE "methoderr", FALSE)
    ELSE LET spec == Last(Cur(v).specifiers)
         IN  CASE spec.type = "DBREF" ->      \* an object error handler failed: the original error
                    PropagateError(PopErrorActionSpecifier(PopHandlerInfo(Unwound(v, spec))),
                                   Last(Cur(v).handler_info), TRUE)
               [] spec.type = "CRITICAL" -> CriticalHandles(v, spec, error)
               [] spec.type = "PROPAGATE" -> PropagateError(PopErrorActionSpecifier(v), error, TRUE)
               [] spec.type = "CATCH" /\ Handles(v, spec, error) -> CatchHandles(v, spec, error)
               [] OTHER -> PropagateError(PopErrorActionSpecifier(v), error, propagate)

Throw(v, error) == PropagateError(v, error, FALSE)

\* The frame that raises the error does not get to handle it.
UserError(v, error) == PropagateError(ReturnFrame(v), error, FALSE)

OutOfTicksError(v) == PropagateError(ReturnFrame([v EXCEPT !.spent = TRUE]), "methoderr", FALSE)

-----------------------------------------------------------------------------
(* Messages and object error handlers.                                     *)

ClassOf(d) == CASE d.type = "DBREF" -> d.dbref
                [] d.type = "FROB"  -> d.class
                [] OTHER -> IF d.type \in DOMAIN TypeObject THEN TypeObject[d.type] ELSE NONE

RepOf(d) == CASE d.type = "DBREF" -> NoData [] d.type = "FROB" -> d.rep [] OTHER -> d

SendError(v, dbref, message, arg_start) ==
    CASE dbref \notin DOMAIN Found -> "objnf"
      [] dbref \in DOMAIN Found /\ message \notin DOMAIN Found[dbref] -> "methodnf"
      [] OTHER -> FrameStartError(v, Found[dbref][message], arg_start)

SendMessage(v, dbref, message, rep, stack_start, arg_start) ==
    StartFrame(v, dbref, Found[dbref][message], Cur(v).object, rep, 1, stack_start, arg_start)

\* The object of target has a method catch that takes three arguments.
HasHandler(v, target) ==
    LET dbref == ClassOf(target)
    IN  /\ Len(v.frames) <= MaxDepth
        /\ dbref \in DOMAIN Found
        /\ "catch" \in DOMAIN Found[dbref]
        /\ LET m == MethodNamed(Found[dbref]["catch"])
           IN  Len(m.argnames) = 3 \/ (Len(m.argnames) < 3 /\ m.rest # NONE)

\* The opcode is to be executed again with what the handler returns in the
\* place of stack[at].
ErrHandler(v, target, at, suberror, error) ==
    IF ~HasHandler(v, target) THEN Throw(v, error)
    ELSE LET spec == [type |-> "DBREF", stack_pos |-> StackPos(v), result |-> at]
             kept == PushHandlerInfo(PushSpecifier(v, spec), error)
             back == [Jump(kept, Cur(v).last_pc) EXCEPT !.args = v.last_args]
             sent == Push(Push(back, target), Symbol("catch"))
             args == [sent EXCEPT !.args = Append(@, StackPos(sent))]
             full == Push(Push(Push(args, Error(suberror)), List(<<>>)), v.stack[at])
         IN  SendMessage(PopArgs(full), ClassOf(target), "catch", RepOf(target),
                         StackPos(v), StackPos(sent))

ObjHandler(v, at, error) == ErrHandler(v, Dbref(SYSTEM_DBREF), at, error, error)
DataObjHandler(v, target, at, error) == ErrHandler(v, target, at, error, error)
TypeError(v, at, suberror) == ErrHandler(v, v.stack[at], at, suberror, "type")

-----------------------------------------------------------------------------
(* The state and the loop.                                                 *)

InitVM ==
    [stack |-> <<>>, args |-> <<>>, last_args |-> <<>>, frames |-> <<>>,
     params  |-> [d \in DOMAIN Found |-> Integer(0)],   \* each object's "v", the one variable object 1 defines
     restart |-> FALSE,                 \* opcode_restart
     spent   |-> FALSE,                 \* history: some frame ran out of ticks
     outcome |-> [kind |-> "none"]]     \* history: what the task came to

\* The task is started by a message "go" without arguments to object 1.
ProgInit ==
    /\ prog \in DOMAIN Programs
    /\ code = WithMethod(Programs[prog])
    /\ vm = StartFrame(InitVM, 1, "go", NONE, NoData, NONE, 0, 0)

VMRuns == vm.outcome.kind = "none"
Opcode == MethodNamed(Cur(vm).method).opcodes[Cur(vm).pc]

\* The frame's tick is taken and its pc is past the opcode.
Fetched ==
    [SetFrame(vm, [Cur(vm) EXCEPT !.ticks = @ - 1, !.last_pc = @, !.pc = Cur(vm).pc + 1])
     EXCEPT !.last_args = vm.args, !.frames[Len(vm.frames)].last_pc = Cur(vm).pc]

Executes(ops, Op(_)) ==
    /\ VMRuns
    /\ Cur(vm).ticks > 1
    /\ Opcode \in ops
    /\ LET after == Op(Fetched)
       IN  vm' = [after EXCEPT !.restart = IF vm.restart THEN FALSE ELSE @]
    /\ UNCHANGED <<prog, code>>

OutOfTicks ==
    /\ VMRuns
    /\ Cur(vm).ticks = 1
    /\ vm' = OutOfTicksError([Fetched EXCEPT !.restart = vm.restart])
    /\ UNCHANGED <<prog, code>>

-----------------------------------------------------------------------------
(* Variables and literals.                                                 *)

OpComment(v) == Skip([v EXCEPT !.frames[Len(v.frames)].ticks = @ + 1], 1)
OpPop(v) == Pop(v, 1)
OpSetLocal(v) == Skip([v EXCEPT !.stack[VarIndex(v, Operand(v, 0))] = Top(v, 0)], 1)
OpGetLocal(v) == Skip(Push(v, v.stack[VarIndex(v, Operand(v, 0))]), 1)

OpSetObjVar(v) ==
    IF ObjectGetIdent(Operand(v, 0)) = "v" THEN Skip([v EXCEPT !.params[Cur(v).object] = Top(v, 0)], 1)
    ELSE Throw(Skip(v, 1), "paramnf")

OpGetObjVar(v) ==
    IF ObjectGetIdent(Operand(v, 0)) = "v" THEN Skip(Push(v, v.params[Cur(v).object]), 1) ELSE Throw(Skip(v, 1), "paramnf")

OpLiteral(v) ==
    LET op   == MethodNamed(Cur(v).method).opcodes[Cur(v).last_pc]
        word == Operand(v, 0)
    IN  CASE op = "ZERO"    -> Push(v, Integer(0))
          [] op = "ONE"     -> Push(v, Integer(1))
          [] op = "INTEGER" -> Skip(Push(v, Integer(word)), 1)
          [] op = "STRING"  -> Skip(Push(v, String(ObjectGetString(word))), 1)
          [] op = "DBREF"   -> Skip(Push(v, Dbref(word)), 1)
          [] op = "SYMBOL"  -> Skip(Push(v, Symbol(ObjectGetIdent(word))), 1)
          [] op = "ERROR"   -> Skip(Push(v, Error(ObjectGetIdent(word))), 1)

\* Names are those of the objects that stand for types.
OpName(v) ==
    LET name == ObjectGetIdent(Operand(v, 0))
    IN  IF name \in DOMAIN TypeObject THEN Skip(Push(v, Dbref(TypeObject[name])), 1)
        ELSE Throw(Skip(v, 1), "namenf")

-----------------------------------------------------------------------------
(* Statements.                                                             *)

OpIf(v) == Pop(IF DataTrue(Top(v, 0)) THEN Skip(v, 1) ELSE Jump(v, Operand(v, 0)), 1)
Bug_OpJump(v) == Jump([v EXCEPT !.frames[Len(v.frames)].ticks = @ + 1], Operand(v, 0))   \* takes no tick
OpJump(v) == Jump(v, Operand(v, 0))                       \* ELSE, END_CASE, END
OpWhile(v) == Pop(IF DataTrue(Top(v, 0)) THEN Skip(v, 2) ELSE Jump(v, Operand(v, 0)), 1)
OpSwitch(v) == Skip(v, 1)
OpDefault(v) == Pop(v, 1)

OpForRange(v) ==
    LET low == Top(v, 1)
        high == Top(v, 0)
        set  == [v EXCEPT !.stack[VarIndex(v, Operand(v, 1))] = low]
    IN  CASE low.type # "INTEGER" -> TypeError(v, StackPos(v) - 1, "integer")
          [] low.type = "INTEGER" /\ high.type # "INTEGER" -> TypeError(v, StackPos(v), "integer")
          [] OTHER -> IF low.val > high.val THEN Jump(Pop(v, 2), Operand(v, 0))
                      ELSE Skip(SetTop(set, 1, Integer(low.val + 1)), 2)

OpForList(v) ==
    LET count  == Top(v, 0).val
        domain == Top(v, 1)
        elems  == IF domain.type = "LIST" THEN domain.list
                  ELSE [i \in DOMAIN domain.pairs |-> List(domain.pairs[i])]
        set    == [v EXCEPT !.stack[VarIndex(v, Operand(v, 1))] = elems[count + 1]]
    IN  CASE domain.type \notin {"LIST", "DICT"} -> TypeError(v, StackPos(v) - 1, "type")
          [] OTHER -> IF count >= Len(elems) THEN Jump(Pop(v, 2), Operand(v, 0))
                      ELSE Skip(SetTop(set, 0, Integer(count + 1)), 2)

\* On a match the switch's value goes too.  CASE_* jump to the body then,
\* LAST_CASE_* to the next case otherwise.
CaseOutcome(v, match, size, last) ==
    LET popped == Pop(v, IF match THEN size + 1 ELSE size)
    IN  IF match = last THEN Skip(popped, 1) ELSE Jump(popped, Operand(v, 0))

OpCaseValue(v, last) == CaseOutcome(v, Top(v, 1) = Top(v, 0), 1, last)

OpCaseRange(v, last) ==
    LET value == Top(v, 2)
        low   == Top(v, 1)
        high  == Top(v, 0)
    IN  IF low.type # high.type \/ low.type \notin {"INTEGER", "STRING"} THEN Throw(v, "type")
        ELSE CaseOutcome(v, /\ value.type = low.type
                            /\ DataOrder(value, low) >= 0
                            /\ DataOrder(value, high) <= 0, 2, last)

\* The loop instruction is the operand; the second operand is not used.
OpBreak(v) ==
    LET n   == Operand(v, 0)
        ops == MethodNamed(Cur(v).method).opcodes
    IN  Jump(IF ops[n] \in {"FOR_LIST", "FOR_RANGE"} THEN Pop(v, 2) ELSE v, ops[n + 1])

OpContinue(v) ==
    LET n   == Operand(v, 0)
        ops == MethodNamed(Cur(v).method).opcodes
    IN  Jump(v, IF ops[n] = "WHILE" THEN ops[n + 2] ELSE n)

\* Leaving a frame that an object error handler ran in.
InHandler(v) == v.frames # <<>> /\ Cur(v).specifiers # <<>> /\ Last(Cur(v).specifiers).type = "DBREF"

Finished(v, d) == [v EXCEPT !.outcome = [kind |-> "value", value |-> d]]

OpReturn(v) ==
    LET back  == ReturnFrame(v)
        this  == Dbref(Cur(v).object)
    IN  CASE InHandler(back) -> PropagateError(back, "methoderr", FALSE)
          [] back.frames = <<>> -> Finished(back, this)
          [] OTHER -> Push(back, this)

OpReturnExpr(v) ==
    LET val  == Top(v, 0)
        back == ReturnFrame(Pop(v, 1))
        spec == Last(Cur(back).specifiers)
    IN  CASE back.frames = <<>> -> Finished(back, val)
          [] back.frames # <<>> /\ InHandler(back) ->
                PopHandlerInfo(PopErrorActionSpecifier(
                    [back EXCEPT !.stack[spec.result] = val, !.restart = TRUE]))
          [] OTHER -> Push(back, val)

-----------------------------------------------------------------------------
(* Error statements and expressions.                                       *)

OpCatch(v) == Skip(PushSpecifier(v, [type |-> "CATCH", stack_pos |-> StackPos(v),
                                     handler |-> Operand(v, 0), error_list |-> Operand(v, 1)]), 2)
OpCatchEnd(v) == Jump(PopErrorActionSpecifier(v), Operand(v, 0))
OpHandlerEnd(v) == PopHandlerInfo(v)
OpCritical(v) ==
    Skip(PushSpecifier(v, [type |-> "CRITICAL", stack_pos |-> StackPos(v), end |-> Operand(v, 0)]), 1)
Bug_OpCriticalEnd(v) == v       \* the specifier is left behind
OpCriticalEnd(v) == PopErrorActionSpecifier(v)
OpPropagate(v) ==
    Skip(PushSpecifier(v, [type |-> "PROPAGATE", stack_pos |-> StackPos(v), end |-> Operand(v, 0)]), 1)
OpPropagateEnd(v) == PopErrorActionSpecifier(v)

-----------------------------------------------------------------------------
(* Arguments, messages and constructors.                                   *)

OpStartArgs(v) == [v EXCEPT !.args = Append(@, StackPos(v))]

OpPass(v) ==
    LET start  == ArgStart(v)
        name   == Cur(v).method
        popped == PopArgs(v)
        error  == IF name \notin DOMAIN NextMethod THEN "methodnf"
                  ELSE FrameStartError(popped, NextMethod[name], start)
    IN  IF error # "none" THEN Throw(popped, error)
        ELSE StartFrame(popped, Cur(v).object, NextMethod[name], Cur(v).sender, Cur(v).rep,
                        Cur(v).caller, start, start)

\* The message is on the stack, between its target and its arguments.
OpExprMessage(v) ==
    LET start   == ArgStart(v)
        popped  == PopArgs(v)
        message == v.stack[start]
        target  == v.stack[start - 1]
        class   == ClassOf(target)
        error   == SendError(popped, class, message.symbol, start)
    IN  CASE message.type # "SYMBOL" -> TypeError(popped, start, "symbol")
          [] message.type = "SYMBOL" /\ class = NONE -> Throw(popped, "objnf")
          [] OTHER ->
                CASE error = "none" -> SendMessage(popped, class, message.symbol, RepOf(target), start - 2, start)
                  [] error = "objnf" -> ObjHandler(popped, start - 1, "objnf")
                  [] error = "methodnf" /\ message.symbol # "catch" ->
                        DataObjHandler(popped, target, start, "methodnf")
                  [] OTHER -> Throw(popped, error)

\* A message that is not understood becomes an expression's message, its
\* symbol spliced into the stack, before the handler is called.
Spliced(v, start, message) ==
    [v EXCEPT !.stack = SubSeq(@, 1, start) \o <<Symbol(message)>> \o SubSeq(@, start + 1, Len(@))]

OpMessage(v) ==
    LET start   == ArgStart(v)
        popped  == Skip(PopArgs(v), 1)
        message == ObjectGetIdent(Operand(v, 0))
        target  == v.stack[start]
        class   == ClassOf(target)
        error   == SendError(popped, class, message, start)
        spliced == Spliced(popped, start, message)
    IN  CASE v.restart -> OpExprMessage(v)
          [] ~v.restart /\ class = NONE -> Throw(popped, "objnf")
          [] OTHER ->
                CASE error = "none" -> SendMessage(popped, class, message, RepOf(target), start - 1, start)
                  [] error = "objnf" -> ObjHandler(spliced, start, "objnf")
                  [] error = "methodnf" /\ message # "catch" ->
                        DataObjHandler(spliced, target, start + 1, "methodnf")
                  [] OTHER -> Throw(popped, error)

Constructed(v, d) == Push([PopArgs(v) EXCEPT !.stack = SubSeq(@, 1, ArgStart(v))], d)

OpList(v) == Constructed(v, List(Args(v)))

OpDict(v) ==
    LET slices == Args(v)
        pair(d) == d.type = "LIST" /\ Len(d.list) = 2
    IN  IF \A i \in DOMAIN slices : pair(slices[i])
        THEN Constructed(v, Dict(FoldLeft(LAMBDA p, d : DictAdd(p, d.list), <<>>, slices)))
        ELSE Throw([PopArgs(v) EXCEPT !.stack = SubSeq(@, 1, ArgStart(v))], "type")

OpBuffer(v) ==
    LET elems == Args(v)
    IN  IF \A i \in DOMAIN elems : elems[i].type = "INTEGER"
        THEN Constructed(v, Buffer([i \in DOMAIN elems |-> elems[i].val % 256]))
        ELSE Throw(PopArgs(v), "type")

OpFrob(v) ==
    IF Top(v, 1).type # "DBREF" THEN TypeError(v, StackPos(v) - 1, "dbref")
    ELSE Replace(v, 2, Frob(Top(v, 1).dbref, Top(v, 0)))

OpIndex(v) ==
    LET d    == Top(v, 1)
        ind  == Top(v, 0)
        at   == {i \in DOMAIN d.pairs : d.pairs[i][1] = ind}
        len  == IF d.type = "LIST" THEN Len(d.list) ELSE Len(d.str)
    IN  CASE d.type \notin {"LIST", "STRING", "DICT"} -> TypeError(v, StackPos(v) - 1, "type")
          [] d.type = "DICT" -> IF at = {} THEN Throw(v, "keynf")
                                ELSE Replace(v, 2, d.pairs[CHOOSE i \in at : TRUE][2])
          [] OTHER ->
                CASE ind.type # "INTEGER" -> Throw(v, "type")
                  [] ind.type = "INTEGER" /\ ind.val \notin 1..len -> DataObjHandler(v, d, StackPos(v), "range")
                  [] OTHER -> Replace(v, 2, IF d.type = "LIST" THEN d.list[ind.val]
                                            ELSE String(SubSeq(d.str, ind.val, ind.val)))

OpSplice(v) ==
    IF Top(v, 0).type # "LIST" THEN TypeError(v, StackPos(v), "list")
    ELSE [v EXCEPT !.stack = Front(@) \o Top(v, 0).list]

OpShort(v, stop) ==      \* AND stops at a false value, OR at a true one
    IF DataTrue(Top(v, 0)) = stop THEN Jump(v, Operand(v, 0)) ELSE Pop(Skip(v, 1), 1)

-----------------------------------------------------------------------------
(* Operators.                                                              *)

OpNot(v) == SetTop(v, 0, Bool(~DataTrue(Top(v, 0))))
OpNegate(v) == IF Top(v, 0).type # "INTEGER" THEN TypeError(v, StackPos(v), "integer")
               ELSE SetTop(v, 0, Integer(-Top(v, 0).val))

\* C division truncates towards zero.
Quotient(a, b) == LET q == (IF a < 0 THEN -a ELSE a) \div (IF b < 0 THEN -b ELSE b)
                  IN  IF (a < 0) = (b < 0) THEN q ELSE -q

\* *, /, %, -: two integers, the second of which may have to differ from 0.
OpArith(v) ==
    LET op == MethodNamed(Cur(v).method).opcodes[Cur(v).last_pc]
        d1 == Top(v, 1)
        d2 == Top(v, 0)
    IN  CASE d1.type # "INTEGER" -> TypeError(v, StackPos(v) - 1, "integer")
          [] d1.type = "INTEGER" /\ d2.type # "INTEGER" -> TypeError(v, StackPos(v), "integer")
          [] OTHER ->
                CASE op \in {"/", "%"} /\ d2.val = 0 -> DataObjHandler(v, d2, StackPos(v), "div")
                  [] op = "*" -> Replace(v, 2, Integer(d1.val * d2.val))
                  [] op = "-" -> Replace(v, 2, Integer(d1.val - d2.val))
                  [] op = "/" -> Replace(v, 2, Integer(Quotient(d1.val, d2.val)))
                  [] op = "%" -> Replace(v, 2, Integer(d1.val - d2.val * Quotient(d1.val, d2.val)))

TypeIdent == [INTEGER |-> "integer", STRING |-> "string", LIST |-> "list"]

\* The variable about to be assigned gives up its reference first.
AnticipateAssignment(v) ==
    CASE Operand(v, 0) = "SET_LOCAL" -> [v EXCEPT !.stack[VarIndex(v, Operand(v, 1))] = Integer(0)]
      [] Operand(v, 0) = "SET_OBJ_VAR" /\ ObjectGetIdent(Operand(v, 1)) = "v" -> [v EXCEPT !.params[Cur(v).object] = Integer(0)]
      [] OTHER -> v

\* The operand that is not of the type the other one asks for is to blame.
Concatenated(v, type) ==
    LET d1 == Top(v, 1)
        d2 == Top(v, 0)
    IN  CASE d1.type # type -> TypeError(v, StackPos(v) - 1, TypeIdent[type])
          [] d1.type = type /\ d2.type # type -> TypeError(v, StackPos(v), TypeIdent[type])
          [] OTHER ->
                CASE type = "INTEGER" -> Replace(v, 2, Integer(d1.val + d2.val))
                  [] type = "STRING" -> Replace(AnticipateAssignment(v), 2, String(d1.str \o d2.str))
                  [] type = "LIST" -> Replace(AnticipateAssignment(v), 2, List(d1.list \o d2.list))

OpAdd(v) ==
    LET types == {Top(v, 1).type, Top(v, 0).type}
    IN  CASE "INTEGER" \in types -> Concatenated(v, "INTEGER")
          [] "INTEGER" \notin types /\ "STRING" \in types -> Concatenated(v, "STRING")
          [] types \cap {"INTEGER", "STRING"} = {} /\ "LIST" \in types -> Concatenated(v, "LIST")
          [] OTHER -> DataObjHandler(v, Top(v, 1), StackPos(v) - 1, "type")

OpSpliceAdd(v) == Concatenated(v, "LIST")

OpEqual(v) ==
    LET same == Top(v, 1) = Top(v, 0)
    IN  Replace(v, 2, Bool(IF MethodNamed(Cur(v).method).opcodes[Cur(v).last_pc] = "EQ" THEN same ELSE ~same))

OpCompare(v) ==
    LET op == MethodNamed(Cur(v).method).opcodes[Cur(v).last_pc]
        c  == DataOrder(Top(v, 1), Top(v, 0))
    IN  IF Top(v, 1).type # Top(v, 0).type THEN Throw(v, "type")
        ELSE Replace(v, 2, Bool(CASE op = ">" -> c > 0 [] op = ">=" -> c >= 0
                                  [] op = "<" -> c < 0 [] op = "<=" -> c <= 0))

OpIn(v) ==
    LET d    == Top(v, 1)
        list == Top(v, 0)
        at   == {i \in DOMAIN list.list : list.list[i] = d}
    IN  CASE list.type = "LIST" ->
                Replace(v, 2, Integer(IF at = {} THEN 0 ELSE CHOOSE i \in at : \A j \in at : i <= j))
          [] list.type \notin {"LIST", "STRING"} -> TypeError(v, StackPos(v), "list")
          [] list.type = "STRING" /\ d.type # "STRING" -> TypeError(v, StackPos(v) - 1, "string")

-----------------------------------------------------------------------------
(* Functions.                                                              *)

\* func_init_*: the number of the arguments, then their types.
FuncInit(v, least, types, Op(_)) ==
    LET n     == Len(Args(v))
        wrong == {i \in 1..n : types[i] \notin {"any", v.stack[ArgStart(v) + i].type}}
        first == CHOOSE i \in wrong : \A j \in wrong : i <= j
    IN  CASE n < least \/ n > Len(types) -> Throw(PopArgs(v), "numargs")
          [] n \in least..Len(types) /\ wrong # {} ->
                TypeError(PopArgs(v), ArgStart(v) + first, types[first])
          [] OTHER -> Op(PopArgs(v))

OpThis(v) == FuncInit(v, 0, <<>>, LAMBDA w :
    Push(w, IF Cur(w).rep.type = "NONE" THEN Dbref(Cur(w).object) ELSE Frob(Cur(w).object, Cur(w).rep)))
OpDefiner(v) == FuncInit(v, 0, <<>>, LAMBDA w : Push(w, Dbref(1)))
OpSender(v) == FuncInit(v, 0, <<>>, LAMBDA w :
    Push(w, IF Cur(w).sender = NONE THEN Integer(0) ELSE Dbref(Cur(w).sender)))
OpCaller(v) == FuncInit(v, 0, <<>>, LAMBDA w :
    Push(w, IF Cur(w).caller = NONE THEN Integer(0) ELSE Dbref(Cur(w).caller)))
OpRep(v) == FuncInit(v, 0, <<>>, LAMBDA w :
    IF Cur(w).rep.type = "NONE" THEN Throw(w, "frob") ELSE Push(w, Cur(w).rep))

NeedsHandlerInfo(v, Op(_)) == IF Cur(v).handler_info = <<>> THEN Throw(v, "error") ELSE Op(v)

OpErrorFunc(v) == FuncInit(v, 0, <<>>, LAMBDA w :
    NeedsHandlerInfo(w, LAMBDA x : Push(x, Error(Last(Cur(x).handler_info)))))
OpTraceback(v) == FuncInit(v, 0, <<>>, LAMBDA w : NeedsHandlerInfo(w, LAMBDA x : Push(x, List(<<>>))))
OpThrow(v) == FuncInit(v, 2, <<"ERROR", "STRING", "any">>, LAMBDA w :
    UserError(w, w.stack[ArgStart(v) + 1].error))
OpRethrow(v) == FuncInit(v, 1, <<"ERROR">>, LAMBDA w :
    NeedsHandlerInfo(w, LAMBDA x : UserError(x, Top(x, 0).error)))

-----------------------------------------------------------------------------
ProgNext ==
    \/ OutOfTicks
    \/ Executes({"COMMENT"}, OpComment)
    \/ Executes({"POP"}, OpPop)
    \/ Executes({"SET_LOCAL"}, OpSetLocal)
    \/ Executes({"SET_OBJ_VAR"}, OpSetObjVar)
    \/ Executes({"GET_LOCAL"}, OpGetLocal)
    \/ Executes({"GET_OBJ_VAR"}, OpGetObjVar)
    \/ Executes({"ZERO", "ONE", "INTEGER", "STRING", "DBREF", "SYMBOL", "ERROR"}, OpLiteral)
    \/ Executes({"NAME"}, OpName)
    \/ Executes({"IF", "IF_ELSE", "CONDITIONAL"}, OpIf)
    \/ Executes({"ELSE", "END_CASE", "END"}, OpJump)
    \/ Executes({"FOR_RANGE"}, OpForRange)
    \/ Executes({"FOR_LIST"}, OpForList)
    \/ Executes({"WHILE"}, OpWhile)
    \/ Executes({"SWITCH"}, OpSwitch)
    \/ Executes({"CASE_VALUE"}, LAMBDA v : OpCaseValue(v, FALSE))
    \/ Executes({"LAST_CASE_VALUE"}, LAMBDA v : OpCaseValue(v, TRUE))
    \/ Executes({"CASE_RANGE"}, LAMBDA v : OpCaseRange(v, FALSE))
    \/ Executes({"LAST_CASE_RANGE"}, LAMBDA v : OpCaseRange(v, TRUE))
    \/ Executes({"DEFAULT"}, OpDefault)
    \/ Executes({"BREAK"}, OpBreak)
    \/ Executes({"CONTINUE"}, OpContinue)
    \/ Executes({"RETURN"}, OpReturn)
    \/ Executes({"RETURN_EXPR"}, OpReturnExpr)
    \/ Executes({"CATCH"}, OpCatch)
    \/ Executes({"CATCH_END"}, OpCatchEnd)
    \/ Executes({"HANDLER_END"}, OpHandlerEnd)
    \/ Executes({"CRITICAL"}, OpCritical)
    \/ Executes({"CRITICAL_END"}, OpCriticalEnd)
    \/ Executes({"PROPAGATE"}, OpPropagate)
    \/ Executes({"PROPAGATE_END"}, OpPropagateEnd)
    \/ Executes({"START_ARGS"}, OpStartArgs)
    \/ Executes({"PASS"}, OpPass)
    \/ Executes({"MESSAGE"}, OpMessage)
    \/ Executes({"EXPR_MESSAGE"}, OpExprMessage)
    \/ Executes({"LIST"}, OpList)
    \/ Executes({"DICT"}, OpDict)
    \/ Executes({"BUFFER"}, OpBuffer)
    \/ Executes({"FROB"}, OpFrob)
    \/ Executes({"INDEX"}, OpIndex)
    \/ Executes({"AND"}, LAMBDA v : OpShort(v, FALSE))
    \/ Executes({"OR"}, LAMBDA v : OpShort(v, TRUE))
    \/ Executes({"SPLICE"}, OpSplice)
    \/ Executes({"!"}, OpNot)
    \/ Executes({"NEG"}, OpNegate)
    \/ Executes({"*", "/", "%", "-"}, OpArith)
    \/ Executes({"+"}, OpAdd)
    \/ Executes({"SPLICE_ADD"}, OpSpliceAdd)
    \/ Executes({"EQ", "NE"}, OpEqual)
    \/ Executes({">", ">=", "<", "<="}, OpCompare)
    \/ Executes({"IN"}, OpIn)
    \/ Executes({"this"}, OpThis)
    \/ Executes({"definer"}, OpDefiner)
    \/ Executes({"sender"}, OpSender)
    \/ Executes({"caller"}, OpCaller)
    \/ Executes({"rep"}, OpRep)
    \/ Executes({"error"}, OpErrorFunc)
    \/ Executes({"traceback"}, OpTraceback)
    \/ Executes({"throw"}, OpThrow)
    \/ Executes({"rethrow"}, OpRethrow)

=============================================================================
