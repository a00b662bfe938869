-------------------------------- MODULE Tasks --------------------------------
(* Tasks of the interpreter (execute.c): one runs at a time, and its state  *)
(* is parked in a VMState when it suspends, pauses, resumes another task or *)
(* waits for its turn.  VMStates are linked by their next fields into the   *)
(* lists tasks, paused and vmstore (the free ones); stacks not in use are   *)
(* in stack_store.  main_loop starts tasks and runs the paused ones.        *)
EXTENDS Integers, Sequences, FiniteSets, SequencesExt

CONSTANTS MaxTasks,     \* bound: tasks started in a run
          MaxVM,        \* bound: VMStates allocated
          METHOD_TICKS, PAUSED_METHOD_TICKS,
          MAX_CALL_DEPTH,
          Heartbeat     \* heartbeat_freq # -1

ASSUME TasksAssumption ==
    /\ {MaxTasks, MaxVM, MAX_CALL_DEPTH} \subseteq Nat
    /\ {METHOD_TICKS, PAUSED_METHOD_TICKS} \subseteq Nat \ {0}
    /\ Heartbeat \in BOOLEAN

VARIABLES main,         \* where main_loop is
          heap,         \* VMStates, and the heads of their lists
          cur,          \* the interpreter's globals: the task of cur_frame,
                        \* task_id (tid) and the stack
          started,      \* tasks started so far
          callers,      \* C calls under way below execute()
          frames,       \* ticks left in each frame of each task, the
                        \* frame that executes last
          frame_depth,
          stack_store, stacks,  \* spare stacks, and stacks allocated
          astray        \* history: resume() or cancel() was asked for a task
                        \* that the lists cannot give up (see Aimed)

vars == <<main, heap, cur, started, callers, frames, frame_depth,
          stack_store, stacks, astray>>

NULL == 0
TaskNo == 1 .. MaxTasks
VMs == 1 .. MaxVM
None == 0       \* no task: cur_frame is NULL

FreshVM == [next |-> NULL, task |-> None, tid |-> 0, stack |-> 0, paused |-> FALSE]

(* The nodes of the list that begins at head, in order; the walk goes no    *)
(* further than a list of all the VMStates would.                           *)
Walk(h, head) ==
    LET upTo[i \in 1 .. MaxVM + 1] ==
            IF i = 1 THEN <<head>>
            ELSE LET s == upTo[i - 1]
                     n == h.vm[s[Len(s)]].next
                 IN  IF n = NULL THEN s ELSE Append(s, n)
    IN  IF head = NULL THEN <<>> ELSE upTo[MaxVM + 1]
Nodes(h, head) == LET w == Walk(h, head) IN {w[i] : i \in DOMAIN w}
Ends(h, head) == Len(Walk(h, head)) <= MaxVM

(* Definitions named Bug_... are plausible mistakes, each in the place of    *)
(* the definition that follows it; the properties have to notice them.      *)

(* suspend_vm: a VMState from vmstore, or a new one, with the globals.      *)
Taken(h) == IF h.vmstore # NULL THEN h.vmstore ELSE h.allocated + 1
Bug_Parked(h, paused) ==        \* never marks the task paused
    LET v == Taken(h) IN
    [h EXCEPT !.vm[v] = [next |-> NULL, task |-> cur.task, tid |-> cur.tid,
                         stack |-> cur.stack, paused |-> FALSE],
              !.vmstore = IF @ # NULL THEN h.vm[@].next ELSE @,
              !.allocated = IF h.vmstore # NULL THEN @ ELSE @ + 1]
Parked(h, paused) ==
    LET v == Taken(h) IN
    [h EXCEPT !.vm[v] = [next |-> NULL, task |-> cur.task, tid |-> cur.tid,
                         stack |-> cur.stack, paused |-> paused],
              !.vmstore = IF @ # NULL THEN h.vm[@].next ELSE @,
              !.allocated = IF h.vmstore # NULL THEN @ ELSE @ + 1]
CanPark(h) == h.vmstore # NULL \/ h.allocated < MaxVM

(* restore_vm                                                               *)
Restored(h, v) == [task |-> h.vm[v].task, tid |-> h.vm[v].tid, stack |-> h.vm[v].stack]

(* ADD_TO_LIST                                                              *)
Added(h, list, v) == [h EXCEPT !.vm[v].next = h[list], ![list] = v]

Bug_Removed(h, list, v) ==      \* looks no further than the head
    IF h[list] = v THEN [h EXCEPT ![list] = h.vm[v].next] ELSE h

(* REMOVE_FROM_LIST and task_delete: the walk begins at the second node, so *)
(* it looks for the element from the third on.  (With an empty list, which  *)
(* a task that is not Aimed can meet, it reads through a null pointer; here *)
(* it finds nothing.)                                                       *)
Removed(h, list, v) ==
    LET from == h.vm[h[list]].next
        before == IF h[list] = NULL THEN {}
                  ELSE {n \in Nodes(h, from) : h.vm[n].next = v}
    IN  IF h[list] = v THEN [h EXCEPT ![list] = h.vm[v].next]
        ELSE IF before = {} THEN h
        ELSE [h EXCEPT !.vm[CHOOSE n \in before : TRUE].next = h.vm[v].next]

(* task_lookup: the tasks list first, then paused.                          *)
Lookup(h, tid) ==
    LET all == Walk(h, h.tasks) \o Walk(h, h.paused)
        hits == SelectInSeq(all, LAMBDA v : h.vm[v].tid = tid)
    IN  IF hits = 0 THEN NULL ELSE all[hits]

(* What resume() and cancel() can be asked for: not a paused task with      *)
(* resume(), and not the second task of a list with either.  Nothing checks *)
(* that.  What they do with another task is modelled, and leaves it on two  *)
(* lists; what the server does from then on is not.                         *)
Aimed(v, resume) ==
    /\ resume => v \in Nodes(heap, heap.tasks)
    /\ \A list \in {"tasks", "paused"} :
          heap[list] # NULL => heap.vm[heap[list]].next # v

(* init_execute: a spare stack for the globals, or a new one.               *)
NewStack == IF stack_store # <<>> THEN Head(stack_store) ELSE stacks + 1
Bug_InitExecute ==              \* leaves the stack it takes among the spare
    /\ stack_store' = stack_store
    /\ stacks' = IF stack_store # <<>> THEN stacks ELSE stacks + 1
InitExecute ==
    /\ stack_store' = IF stack_store # <<>> THEN Tail(stack_store) ELSE stack_store
    /\ stacks' = IF stack_store # <<>> THEN stacks ELSE stacks + 1

-----------------------------------------------------------------------------
Init ==
    /\ main = "flush"
    /\ heap = [vm |-> [v \in VMs |-> FreshVM], tasks |-> NULL, paused |-> NULL,
               vmstore |-> NULL, allocated |-> 0]
    /\ cur = [task |-> None, tid |-> 1, stack |-> 1]
    /\ started = 0 /\ callers = <<>>
    /\ frames = [t \in TaskNo |-> <<>>] /\ frame_depth = 0
    /\ stack_store = <<>> /\ stacks = 1 /\ astray = FALSE

InMain == callers = <<>> /\ cur.task = None /\ ~astray
Running == cur.task # None
Returned == ~Running /\ ~astray /\ callers # <<>>   \* from execute()
Caller == callers[Len(callers)]
CallersBelow == SubSeq(callers, 1, Len(callers) - 1)
(* task: from flush_defunct, handle_io_events or the heartbeat.             *)
StartTask ==
    LET t == started + 1 IN
    /\ InMain /\ t \in TaskNo
    /\ main \in IF Heartbeat THEN {"flush", "io", "beat"} ELSE {"flush", "io"}
    /\ started' = t
    /\ cur' = [cur EXCEPT !.task = t]
    /\ frames' = [frames EXCEPT ![t] = <<METHOD_TICKS>>] /\ frame_depth' = 1
    /\ callers' = <<[kind |-> "task", vm |-> NULL, next |-> NULL]>>
    /\ UNCHANGED <<main, heap, stack_store, stacks, astray>>

(* execute takes a tick from the frame, and does an operation unless that   *)
(* was the last one.                                                        *)
WithTicks(fs, n) == [fs EXCEPT ![Len(fs)] = n]
MayExecute == Running /\ ~astray /\ Last(frames[cur.task]) > 1
Spent == WithTicks(frames[cur.task], Last(frames[cur.task]) - 1)
Spend == MayExecute /\ frames' = [frames EXCEPT ![cur.task] = Spent]

(* frame_start: one more frame, unless the depth is past the maximum.       *)
FrameStart ==
    /\ MayExecute
    /\ ~(frame_depth > MAX_CALL_DEPTH)
    /\ frame_depth' = frame_depth + 1
    /\ frames' = [frames EXCEPT ![cur.task] = Append(Spent, METHOD_TICKS)]
    /\ UNCHANGED <<main, heap, cur, started, callers, stack_store, stacks, astray>>

(* frame_return, by a return, an error or the end of the ticks.             *)
FrameReturn ==
    /\ Running /\ ~astray
    /\ frames' = [frames EXCEPT ![cur.task] = Front(@)]
    /\ frame_depth' = frame_depth - 1
    /\ cur' = IF Len(frames[cur.task]) = 1 THEN [cur EXCEPT !.task = None] ELSE cur
    /\ UNCHANGED <<main, heap, started, callers, stack_store, stacks, astray>>

(* task_suspend and task_pause end the execute() that runs the task.        *)
TaskSuspend ==
    /\ Spend /\ CanPark(heap)
    /\ heap' = Added(Parked(heap, FALSE), "tasks", Taken(heap))
    /\ cur' = [cur EXCEPT !.task = None, !.stack = NewStack]
    /\ InitExecute
    /\ UNCHANGED <<main, started, callers, frame_depth, astray>>

TaskPause ==
    /\ Spend /\ CanPark(heap)
    /\ heap' = Added(Parked(heap, TRUE), "paused", Taken(heap))
    /\ cur' = [cur EXCEPT !.task = None, !.stack = NewStack]
    /\ InitExecute
    /\ UNCHANGED <<main, started, callers, frame_depth, astray>>

(* task_resume, up to its call of execute().                                *)
TaskResume(tid) ==
    LET v == Lookup(heap, tid)
        h == Parked(heap, FALSE)
        t == heap.vm[v].task
    IN  /\ MayExecute /\ CanPark(heap)
        /\ v # NULL /\ astray' = ~Aimed(v, TRUE)
        /\ heap' = Added(Removed(h, "tasks", v), "vmstore", v)
        /\ cur' = Restored(h, v)
        /\ callers' = Append(callers, [kind |-> "resume", vm |-> Taken(heap),
                                       next |-> NULL])
        /\ frames' = [frames EXCEPT ![cur.task] = Spent,
                                    ![t] = WithTicks(@, METHOD_TICKS)]
        /\ UNCHANGED <<main, started, frame_depth, stack_store, stacks>>

(* task_cancel: every frame of the task returns, its stack is spare.        *)
TaskCancel(tid) ==
    LET v == Lookup(heap, tid)
        h == Parked(heap, FALSE)
        list == IF heap.vm[v].paused THEN "paused" ELSE "tasks"
        t == heap.vm[v].task
        self == Taken(heap)
    IN  /\ MayExecute /\ CanPark(heap)
        /\ v # NULL /\ astray' = ~Aimed(v, FALSE)
        /\ heap' = Added(Added(Removed(h, list, v), "vmstore", v), "vmstore", self)
        /\ frames' = [frames EXCEPT ![cur.task] = Spent, ![t] = <<>>]
        /\ frame_depth' = frame_depth - Len(frames[t])
        /\ stack_store' = <<heap.vm[v].stack>> \o stack_store
        /\ UNCHANGED <<main, cur, started, callers, stacks>>

(* execute() has returned to task, which counts; the caller is main_loop.   *)
TaskEnds ==
    /\ Returned /\ Caller.kind = "task"
    /\ callers' = CallersBelow
    /\ cur' = [cur EXCEPT !.tid = @ + 1]
    /\ UNCHANGED <<main, heap, started, frames, frame_depth, stack_store, stacks, astray>>

(* It has returned to task_resume, which goes on with the resumer.          *)
ResumeEnds ==
    /\ Returned /\ Caller.kind = "resume"
    /\ callers' = CallersBelow
    /\ cur' = Restored(heap, Caller.vm)
    /\ heap' = Added(heap, "vmstore", Caller.vm)
    /\ stack_store' = <<cur.stack>> \o stack_store
    /\ UNCHANGED <<main, started, frames, frame_depth, stacks, astray>>

(* main_loop, one stage after another.                                      *)
FlushDefunct == main = "flush" /\ main' = "io"
HandleIoEvents == main = "io" /\ main' = "beat"
HeartbeatDone == main = "beat" /\ main' = "paused"

MainStep ==
    /\ InMain
    /\ FlushDefunct \/ HandleIoEvents \/ HeartbeatDone
    /\ UNCHANGED <<heap, cur, started, callers, frames, frame_depth,
                   stack_store, stacks, astray>>

Bug_RunPausedTasks ==           \* takes only the head of the list
    /\ InMain /\ main = "paused"
    /\ main' = "flush"
    /\ IF heap.paused = NULL THEN UNCHANGED <<heap, callers>>
       ELSE /\ CanPark(heap)
            /\ heap' = [Parked(heap, FALSE) EXCEPT
                           !.paused = heap.vm[heap.paused].next,
                           !.vm[heap.paused].next = NULL]
            /\ callers' = <<[kind |-> "paused", vm |-> Taken(heap),
                             next |-> heap.paused]>>
    /\ UNCHANGED <<cur, started, frames, frame_depth, stack_store, stacks, astray>>

(* run_paused_tasks takes the whole list, so that a task that pauses again  *)
(* waits for the next round.                                                *)
RunPausedTasks ==
    /\ InMain /\ main = "paused"
    /\ main' = "flush"
    /\ IF heap.paused = NULL THEN UNCHANGED <<heap, callers>>
       ELSE /\ CanPark(heap)
            /\ heap' = [Parked(heap, FALSE) EXCEPT !.paused = NULL]
            /\ callers' = <<[kind |-> "paused", vm |-> Taken(heap),
                             next |-> heap.paused]>>
    /\ UNCHANGED <<cur, started, frames, frame_depth, stack_store, stacks, astray>>

(* Its loop: the stack of the task that has just ended is put away (there   *)
(* is none yet at the first one), and the next task restored.               *)
NextPaused ==
    LET v == Caller.next
        first == Caller.vm # NULL /\ heap.vm[Caller.vm].stack = cur.stack
    IN  /\ Returned /\ Caller.kind = "paused" /\ v # NULL
        /\ cur' = Restored(heap, v)
        /\ callers' = Append(CallersBelow, [Caller EXCEPT !.next = heap.vm[v].next])
        /\ heap' = Added(heap, "vmstore", v)
        /\ frames' = [frames EXCEPT ![heap.vm[v].task] = WithTicks(@, PAUSED_METHOD_TICKS)]
        /\ stack_store' = IF first THEN stack_store ELSE <<cur.stack>> \o stack_store
        /\ UNCHANGED <<main, started, frame_depth, stacks, astray>>

PausedEnd ==
    /\ Returned /\ Caller.kind = "paused" /\ Caller.next = NULL
    /\ callers' = CallersBelow
    /\ cur' = Restored(heap, Caller.vm)
    /\ heap' = Added(heap, "vmstore", Caller.vm)
    /\ stack_store' = <<cur.stack>> \o stack_store
    /\ UNCHANGED <<main, started, frames, frame_depth, stacks, astray>>

Ending == TaskEnds \/ ResumeEnds \/ NextPaused \/ PausedEnd

Execute ==
    \/ FrameStart \/ FrameReturn \/ TaskSuspend \/ TaskPause
    \/ \E tid \in TaskNo : TaskResume(tid) \/ TaskCancel(tid)

NotFollowed == astray /\ UNCHANGED vars

Next == StartTask \/ Execute \/ Ending \/ MainStep \/ RunPausedTasks \/ NotFollowed

(* The process is one thread and does not stop by itself: a task runs out   *)
(* of ticks and returns, main_loop goes round, and select returns at the    *)
(* latest for the next heartbeat, if there is one.  No task need ever start.*)
Fairness == /\ WF_vars(FrameReturn) /\ WF_vars(Ending) /\ WF_vars(RunPausedTasks)
            /\ WF_vars(MainStep /\ (main = "io" => Heartbeat))

Spec == Init /\ [][Next]_vars /\ Fairness

-----------------------------------------------------------------------------
TypeOK ==
    /\ main \in {"flush", "io", "beat", "paused"}
    /\ heap.vm \in [VMs -> [next : VMs \cup {NULL}, task : TaskNo \cup {None},
                            tid : 0 .. MaxTasks + 1, stack : Nat, paused : BOOLEAN]]
    /\ {heap.tasks, heap.paused, heap.vmstore} \subseteq VMs \cup {NULL}
    /\ cur.task \in TaskNo \cup {None} /\ cur.tid \in 1 .. MaxTasks + 1
    /\ frames \in [TaskNo -> Seq(Nat \ {0})] /\ frame_depth \in Int

(* Where VMStates are: in one of the lists, in the rest of a paused list    *)
(* that is being run, or in a C variable of a caller of execute().          *)
Pending == UNION {Nodes(heap, callers[i].next) : i \in DOMAIN callers}
Locals == {callers[i].vm : i \in DOMAIN callers} \ {NULL}
Waiters == Nodes(heap, heap.tasks)
Paused == Nodes(heap, heap.paused)
Spare == Nodes(heap, heap.vmstore)

(* The lists end, and share no VMState with each other or with a caller of  *)
(* execute(), whatever tasks resume, cancel, suspend and pause each other,  *)
(* until one is asked for that they cannot give up.                         *)
ListsSound ==
    LET places == <<Waiters, Paused, Spare, Pending, Locals>> IN
    astray \/ /\ \A list \in {"tasks", "paused", "vmstore"} : Ends(heap, heap[list])
              /\ \A i, j \in 1 .. 5 : i # j => places[i] \cap places[j] = {}
              /\ UNION Range(places) = 1 .. heap.allocated

(* No task is lost and none is in two places: one that has frames is the    *)
(* one that runs or the one a single VMState outside vmstore stands for,    *)
(* and that VMState is marked paused just if it came from task_pause.       *)
TasksAccountedFor ==
    LET inUse == (1 .. heap.allocated) \ Spare
        pausing == Paused \cup Pending
    IN  astray \/ \A t \in TaskNo :
            LET at == {v \in inUse : heap.vm[v].task = t} IN
            /\ Cardinality(at) + (IF cur.task = t THEN 1 ELSE 0)
                  = (IF frames[t] # <<>> THEN 1 ELSE 0)
            /\ \A v \in at : heap.vm[v].paused <=> v \in pausing

(* Two tasks never share a stack, nor does one use a stack that is spare.   *)
StacksExclusive ==
    LET inUse == (1 .. heap.allocated) \ Spare
        spare == Range(stack_store)
    IN  astray \/ /\ \A v, w \in inUse : v # w => heap.vm[v].stack # heap.vm[w].stack
                  /\ \A v \in inUse : heap.vm[v].stack \notin spare
                  /\ cur.stack \notin spare
                  /\ Cardinality(spare) = Len(stack_store)

(* A task that paused runs again, or is cancelled: it does not wait behind  *)
(* tasks that keep pausing, nor behind a queue that never empties.          *)
Waiting(t) == \E v \in Paused \cup Pending : heap.vm[v].task = t
PausedTasksRun ==
    \A t \in TaskNo : Waiting(t) ~> (cur.task = t \/ frames[t] = <<>> \/ astray)

(* adminop.c:545 and adminop.c:572, of a task that task_lookup does not     *)
(* find: "No such task".  One that was cancelled or has ended is not found. *)
EndedTasksGone ==
    \A t \in 1 .. started : frames[t] = <<>> => Lookup(heap, t) = NULL
=============================================================================
