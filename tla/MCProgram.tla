------------------------------ MODULE MCProgram ------------------------------
(* execute.c, in two parts that are checked on their own: one task that     *)
(* runs a program of Samples, after that was compiled, listed and read back; *)
(* and four tasks of one operation per turn, with VMStates for all of them   *)
(* and for the callers of execute() at once.                                *)
EXTENDS Samples, Language, Decode, Parser, Tasks

CONSTANT Parts      \* of "program" and "tasks"
VARIABLE part

AllFunctions == {"this", "definer", "sender", "caller", "rep", "error", "traceback", "throw", "rethrow"}
SomeNumbers == 0 .. 300

-----------------------------------------------------------------------------
(* What compiling, decompiling and parsing lose: braces around a single    *)
(* statement or none, braces in braces, a default case without statements. *)

RECURSIVE NormalStmt(_), NormalList(_)

OneStmt(stmts) == CASE Len(stmts) = 0 -> NoopStmt
                    [] Len(stmts) = 1 -> stmts[1]
                    [] OTHER          -> CompoundStmt(stmts)

NormalBody(s) == OneStmt(NormalList(<<s>>))

NormalCases(cases) ==
    LET all == [i \in DOMAIN cases |-> [cases[i] EXCEPT !.stmts = NormalList(@)]]
    IN  IF all # <<>> /\ Last(all).values = <<>> /\ Last(all).stmts = <<>> THEN Front(all) ELSE all

NormalStmt(s) ==
    CASE s.type = "IF" -> [s EXCEPT !.true = NormalBody(@)]
      [] s.type = "IF_ELSE" -> [s EXCEPT !.true = NormalBody(@), !.false = NormalBody(@)]
      [] s.type \in {"FOR_RANGE", "FOR_LIST", "WHILE"} -> [s EXCEPT !.body = NormalBody(@)]
      [] s.type = "SWITCH" -> [s EXCEPT !.cases = NormalCases(@)]
      [] s.type = "CATCH" -> [s EXCEPT !.body = NormalBody(@), !.handler = NormalBody(@)]
      [] OTHER -> s

NormalList(stmts) ==
    FlattenSeq([i \in DOMAIN stmts |-> CASE stmts[i].type = "NOOP" -> <<>>
                                         [] stmts[i].type = "COMPOUND" -> NormalList(stmts[i].stmts)
                                         [] OTHER -> <<NormalStmt(stmts[i])>>])

Normal(p) == [p EXCEPT !.stmts = NormalList(@)]

-----------------------------------------------------------------------------
(* Properties.                                                             *)

\* The method as the decompiler is given it.
Go == [method |-> code.methods["go"], tables |-> code.tables]

\* The first step of the task, which finds the object as it was compiled.
Begins == Len(vm.frames) = 1 /\ vm.frames[1].ticks = FrameTicks

\* An operator whose first operand is an assignment.
AssignsFirst(e) ==
    \/ e.type \in {"BINARY", "AND", "OR"} /\ e.left.type = "ASSIGN"
    \/ e.type = "CONDITIONAL" /\ e.cond.type = "ASSIGN"
    \/ e.type = "INDEX" /\ e.list.type = "ASSIGN"
    \/ e.type = "MESSAGE" /\ e.to.type = "ASSIGN"

\* A body without statements that is listed without braces and is not the last
\* of an if-else chain, of which a ";" is listed.
Hollow(s) == s.type = "NOOP" \/ (s.type = "COMPOUND" /\ NormalList(s.stmts) = <<>>)
Swallows(s) ==
    \/ s.type = "IF" /\ Hollow(s.true)
    \/ s.type = "IF_ELSE" /\ Hollow(s.true) /\ ~IsComplexIfElse(s)
    \/ s.type \in {"WHILE", "FOR_LIST"} /\ Hollow(s.body)
Misread(p) ==
    \E i \in DOMAIN p.stmts : LET s == p.stmts[i] IN
        Swallows(s) \/ (s.type = "RETURN_EXPR" /\ AssignsFirst(s.expr))

\* What decompile() lists, read by the grammar, is the program that was
\* compiled, whatever the compiler did to jumps, cases and operators, with and
\* without the parentheses that precedence makes superfluous; but for braces
\* and empty cases, as Normal says.  There are two exceptions, which always are
\* exceptions.  No parentheses are put around an assignment that is an
\* operator's first operand (prec_level(), decode.c:1532, has no level for it),
\* so that the grammar reads the whole operation as the value assigned; and
\* nothing stands for a body without statements (decode.c:1254), so that the
\* next statement is read as the body, or an else as no statement.
ReadsBack ==
    [][Begins => \A parens \in BOOLEAN :
           Normal(Parse(FlattenSeq(Decompile(Go, parens)))) = Normal(Programs[prog])
               <=> ~Misread(Programs[prog])]_progVars

\* Where a literal stands in the code, and the lines it is on.
RECURSIVE Instructions(_, _)
Instructions(ops, i) == IF i > Len(ops) THEN {} ELSE {i} \cup Instructions(ops, i + OpSize(ops[i]))
LiteralAt(ops, n) == {i \in Instructions(ops, 1) : ops[i] = "INTEGER" /\ ops[i + 1] = n}
LinesOf(listing, n) == {i \in DOMAIN listing : ToString(n) \in ToSet(listing[i])}

Marks == {7, 10, 11, 20, 30}

\* The default cases before instruction i that the listing leaves out, because
\* they have no statements: the DEFAULT is the last opcode of its switch.  The
\* compiler codes one for every switch.
Unlisted(ops, i) ==
    {j \in Instructions(ops, 1) : /\ j < i /\ ops[j] = "DEFAULT"
                                  /\ \E s \in Instructions(ops, 1) : ops[s] = "SWITCH" /\ ops[s + 1] = j + 1}

\* The line that line_number() gives a traceback for an opcode is the line of
\* decompile()'s listing on which its expression stands, and one more for each
\* switch before it that has no default case with statements, of which
\* count_lines() counts the header that the listing leaves out: two walks over
\* the same code, one that prints and one that only counts.
LinesAgree ==
    [][Begins => \A listing \in {Decompile(Go, FALSE)} :
           LET m == Go.method
           IN  \A n \in Marks : \A i \in LiteralAt(m.opcodes, n) :
                   Cardinality(LiteralAt(m.opcodes, n)) = 1 =>
                       LinesOf(listing, n) = {LineNumber(m, i) - Cardinality(Unlisted(m.opcodes, i))}]_progVars

RefsOf(table, key) == FoldSet(LAMBDA i, n : n + table[i].refs, 0, {j \in DOMAIN table : table[j].key = key})
Keys(table) == {table[i].key : i \in DOMAIN table}

\* What the compiler takes from the object's tables of strings and identifiers
\* while it generates code, method_delete_code_refs(), which only sees the
\* opcodes, gives back: one reference for one.
TablesBalance ==
    [][Begins => \A after \in {MethodDeleteCodeRefs(Go.method, Go.tables)}, before \in {Library.tables} :
           \A t \in {"strings", "idents"} : \A k \in Keys(Go.tables[t]) :
               RefsOf(after[t], k) = RefsOf(before[t], k)]_progVars

\* The stack positions a frame and what is under way in it hold, and a limit.
Ascending(seq) == \A i \in 1 .. Len(seq) - 1 : seq[i] <= seq[i + 1]
Floor(f) == f.var_start + Len(MethodNamed(f.method).argnames) + (IF MethodNamed(f.method).rest = NONE THEN 0 ELSE 1)
            + Len(MethodNamed(f.method).varnames)

\* The positions that frames, their specifiers and their pending argument lists
\* remember of the stack lie in the order in which they will be popped to, so
\* that no return, error or end of a catch cuts off what an outer one needs.
SpecifiersNest ==
    VMRuns => \A i \in DOMAIN vm.frames :
        LET f    == vm.frames[i]
            next == IF i = Len(vm.frames) THEN StackPos(vm) ELSE vm.frames[i + 1].stack_start
            args == SubSeq(vm.args, f.argpos_start + 1,
                           IF i = Len(vm.frames) THEN Len(vm.args) ELSE vm.frames[i + 1].argpos_start)
        IN  /\ Ascending(<<f.stack_start, f.var_start, Floor(f)>>
                         \o [j \in DOMAIN f.specifiers |-> f.specifiers[j].stack_pos] \o <<next>>)
            /\ Ascending(<<Floor(f)>> \o args \o <<next>>)

\* pop() is never asked for fewer than no values: execute.c asserts n >= 0.
NoAssertionFails == vm.outcome.kind # "assertion"

ProgramEnds == vm.outcome.kind = "none" /\ vm'.outcome.kind # "none"

\* A method whose code was generated by the compiler and run by the interpreter
\* returns, and reports as error, what the meaning of its source says: catch,
\* critical, propagate, loops, switch, splices, pass and messages included.
\* (A method that ran out of ticks is not judged.)
OutcomeAgrees ==
    [][ProgramEnds /\ ~vm'.spent =>
        LET meaning == Meaning(Programs[prog])
        IN  vm'.outcome = meaning.outcome /\ vm'.params = meaning.params]_progVars

\* A frame gets nearer its end: it has fewer ticks left, or has passed a
\* comment, which takes none.
Nearer(f, g) == g.ticks < f.ticks \/ (g.ticks = f.ticks /\ g.pc > f.pc)

\* Frames, outermost first, get nearer the end in lexicographic order: a step
\* changes the innermost one it keeps, and may start one within it.
TicksFall ==
    [][LET before == vm.frames
           after  == vm'.frames
       IN  \E i \in DOMAIN before :
               /\ i > Len(after) \/ (i <= Len(after) /\ Nearer(before[i], after[i]))
               /\ \A j \in 1 .. i - 1 : ~Nearer(after[j], before[j])]_progVars

-----------------------------------------------------------------------------
(* The two parts.                                                          *)

MCVars == <<progVars, vars, part>>

NoProgram == prog = 0 /\ code = NONE /\ vm = [frames |-> <<>>, outcome |-> [kind |-> "no program"]]

MCInit ==
    /\ part \in Parts /\ Init
    /\ IF part = "program" THEN ProgInit ELSE NoProgram

ProgramOver == ~VMRuns /\ UNCHANGED progVars
MCNext ==
    /\ \/ part = "program" /\ (ProgNext \/ ProgramOver) /\ UNCHANGED vars
       \/ part = "tasks" /\ Next /\ UNCHANGED progVars
    /\ UNCHANGED part

\* The Fairness of Tasks, of that part: in the other one its actions stand
\* still.  No property of programs needs any.
OfTasks(A) == part = "tasks" /\ A
MCFairness ==
    /\ WF_vars(OfTasks(FrameReturn)) /\ WF_vars(OfTasks(Ending))
    /\ WF_vars(OfTasks(RunPausedTasks))
    /\ WF_vars(OfTasks(MainStep /\ (main = "io" => Heartbeat)))

MCSpec == MCInit /\ [][MCNext]_MCVars /\ MCFairness

=============================================================================
