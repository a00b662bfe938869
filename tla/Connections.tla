----------------------------- MODULE Connections -----------------------------
(* Network connections (io.c, net.c): the lists of client connections, of    *)
(* server sockets and of connects under way, the flags that one turn of      *)
(* main_loop sets in them and a later step acts on, and the tasks that the   *)
(* walks over the lists start, which may change all three.                   *)
(*                                                                           *)
(* A list only grows at its head, so that its members are numbered as they   *)
(* come, and a walk visits them from the highest number down.                *)
EXTENDS Integers, Sequences, FiniteSets, FiniteSetsExt

CONSTANTS Objects,          \* dbrefs that receive what connections report
          SYSTEM_DBREF,
          Ports,
          MaxConnections,   \* bound: connections in a run, with stdin and stdout
          MaxServers, MaxPendings,  \* bounds: server sockets, connects in a run
          MaxOut,           \* bound: what a write buffer holds, in echoes
          Silent,           \* descriptors without input
          MaxOps,           \* bound: operations of tasks in a run
          Watched           \* connections that DrainedGoAway is about

ASSUME ConnectionsAssumption ==
    /\ SYSTEM_DBREF \in Objects /\ MaxConnections \in Nat \ {0, 1}
    /\ {MaxServers, MaxPendings, MaxOut, MaxOps} \subseteq Nat

VARIABLES connections, servers, pendings,
          open,         \* descriptors of this module that are open
          main,         \* where main_loop is: the walk, and the number below
                        \* which the members to visit lie
          going,        \* the connection that connection_discard is about to free
          task,         \* the method that main_loop called, and its cur_conn
          paused,       \* the same of the paused task
          running,
          ops,          \* operations left to the tasks of this run
          told,         \* history: whether each connection was reported, and as gone
          due,          \* history: what it was given to write and has not written
          answers,      \* history: the reports on each connect
          refused,      \* history: the connects that failed at once, as on the
                        \* same host; they closed their descriptors themselves
          struck        \* history: the descriptor of one of them was closed again
                        \* when another had it, or taken for a connection's

vars == <<connections, servers, pendings, open, main, going, task, paused,
          running, ops, told, due, answers, refused, struck>>

None == 0               \* no connection: a NULL cur_conn
NoTask == [name |-> "none", conn |-> None]
NOT_AN_IDENT == "none"
Nobody == [fd |-> -1, conn |-> None]
Stdin == 1              \* init_io takes its write buffer away
Ids == 1 .. MaxConnections

Busy == task # NoTask
Numbers(n) == 1 .. n
First(list, test(_)) == LET is == {i \in DOMAIN list : i < main.below /\ test(list[i])}
                        IN  IF is = {} THEN 0 ELSE Max(is)
Every(n) == n + 1       \* a walk that has not visited anyone yet
Extend(list, i, x) == [j \in DOMAIN list \cup {i} |-> IF j = i THEN x ELSE list[j]]
Without(list, is) == [j \in DOMAIN list \ is |-> list[j]]
Fds == 0 .. MaxConnections + MaxServers + MaxPendings
FreeFd == Min(Fds \ open)   \* the system's choice

At(walk, n) == main' = [at |-> walk, below |-> Every(n)]
GoOn(i) == main' = [main EXCEPT !.below = i]
Starts(name, conn) == task' = [name |-> name, conn |-> conn]

(* connection_add, init_io                                                   *)
Connection(fd, dbref) == [fd |-> fd, dbref |-> dbref, out |-> <<>>,
                          readable |-> FALSE, writable |-> FALSE, dead |-> FALSE]
Added(i, fd, dbref) ==
    /\ connections' = Extend(connections, i, Connection(fd, dbref))
    /\ told' = [told EXCEPT ![i] = "connect"]

HasBuffer(i) == i # Stdin
Fresh == Max({i \in Ids : told[i] # "nothing"}) + 1

(* A bound: there is a number for every connection that may still come up.   *)
ComingUp == Cardinality({p \in DOMAIN answers : answers[p] = 0})
            + Cardinality({s \in DOMAIN servers : servers[s].client # -1})
MayAdd == Fresh + ComingUp \in Ids

Init ==
    /\ connections = [i \in 1 .. 2 |-> Connection(i - 1, SYSTEM_DBREF)]
    /\ servers = [i \in {} |-> NoTask] /\ pendings = servers
    /\ open = {0, 1}
    /\ main = [at |-> "flush", below |-> Every(MaxConnections)]
    /\ going = Nobody /\ task = NoTask /\ paused = NoTask /\ running = TRUE /\ ops = MaxOps
    /\ told = [i \in Ids |-> IF i \in 1 .. 2 THEN "connect" ELSE "nothing"]
    /\ due = [i \in Ids |-> <<>>]
    /\ answers = [i \in {} |-> 0] /\ refused = {} /\ struck = FALSE

-----------------------------------------------------------------------------
(* flush_defunct.  A connection goes once it is dead and has nothing left to *)
(* write; the task that hears of it still has it as cur_conn.                *)
Bug_DefunctRead(i) ==           \* waits for its input to be read
    connections[i].dead /\ HasBuffer(i) /\ connections[i].out = <<>> /\ ~connections[i].readable
Defunct(i) == connections[i].dead /\ HasBuffer(i) /\ connections[i].out = <<>>

(* main_loop looks at running before the walk, not during it.                *)
MayFlush == main.at = "flush" /\ ~Busy /\ (running \/ main.below # Every(MaxConnections))

FlushConnection ==
    /\ MayFlush
    /\ \E i \in DOMAIN connections :
          /\ i < main.below /\ Defunct(i)
          /\ \A j \in DOMAIN connections : j > i /\ j < main.below => ~Defunct(j)
          /\ connections' = Without(connections, {i})
          /\ going' = [fd |-> connections[i].fd, conn |-> i]
          /\ told' = [told EXCEPT ![i] = "disconnect"]
          /\ Starts("disconnect", i)
          /\ main' = [at |-> "discard", below |-> i]
    /\ UNCHANGED <<servers, pendings, open, paused, running, ops,
                   due, answers, refused, struck>>

(* The second half of connection_discard.                                    *)
ConnectionDiscard ==
    /\ main.at = "discard" /\ ~Busy
    /\ open' = open \ {going.fd}
    /\ going' = Nobody
    /\ main' = [main EXCEPT !.at = "flush"]
    /\ UNCHANGED <<connections, servers, pendings, task, paused, running, ops, told,
                   due, answers, refused, struck>>

Bug_Flushed == {}               \* a pending connect stays when it is finished
Flushed == {p \in DOMAIN pendings : pendings[p].finished}

FlushServersAndPendings ==
    /\ MayFlush
    /\ \A i \in DOMAIN connections : i < main.below => ~Defunct(i)
    /\ LET dead == {s \in DOMAIN servers : servers[s].dead}
       IN  /\ servers' = Without(servers, dead)
           /\ open' = open \ {servers[s].fd : s \in dead}
    /\ pendings' = Without(pendings, Flushed)
    /\ At("select", 0)
    /\ UNCHANGED <<connections, going, task, paused, running, ops, told,
                   due, answers, refused, struck>>

-----------------------------------------------------------------------------
(* io_event_wait.  Connects that have already failed are finished before     *)
(* select(); if it times out, handle_io_events does nothing else.            *)
Reading == {connections[i].fd : i \in {j \in DOMAIN connections : ~connections[j].dead}}
           \cup {servers[s].fd : s \in DOMAIN servers}
Writing == {connections[i].fd : i \in {j \in DOMAIN connections : connections[j].out # <<>>}}
           \cup {pendings[p].fd : p \in {q \in DOMAIN pendings : pendings[q].error = NOT_AN_IDENT}}

AlreadyFailed == [p \in DOMAIN pendings |->
                    [pendings[p] EXCEPT !.finished = @ \/ pendings[p].error # NOT_AN_IDENT]]

(* Otherwise select() fails, and the server panics.                          *)
Selectable == Reading \cup Writing \subseteq open

Panic ==
    /\ main.at = "select" /\ ~Selectable
    /\ At("stopped", 0)
    /\ pendings' = AlreadyFailed
    /\ UNCHANGED <<connections, servers, open, going, task, paused, running, ops, told,
                   due, answers, refused, struck>>

SelectTimeout ==
    /\ main.at = "select" /\ Selectable
    /\ pendings' = AlreadyFailed
    /\ At("heartbeat", 0)
    /\ UNCHANGED <<connections, servers, open, going, task, paused, running, ops, told,
                   due, answers, refused, struck>>

Marked(r, w) == [i \in DOMAIN connections |->
                    [connections[i] EXCEPT !.readable = @ \/ connections[i].fd \in r,
                                           !.writable = @ \/ connections[i].fd \in w]]
Connected(w, error) == [p \in DOMAIN pendings |->
                          IF pendings[p].fd \in w
                          THEN [pendings[p] EXCEPT !.error = error, !.finished = TRUE]
                          ELSE AlreadyFailed[p]]

(* Descriptors ready to read and to write; at most one server has a client,  *)
(* which may hang up before accept(); a connect succeeds or is refused.      *)
Select ==
    /\ main.at = "select" /\ Selectable
    /\ \E r \in SUBSET (Reading \ Silent), w \in SUBSET Writing, accepted \in BOOLEAN, error \in {NOT_AN_IDENT, "refused"} :
          /\ Cardinality(r) + Cardinality(w) \in 1 .. 2
          /\ connections' = Marked(r, w)
          /\ pendings' = Connected(w, error)
          /\ \E s \in DOMAIN servers \cup {0} :
                /\ \A t \in DOMAIN servers : servers[t].fd \in r <=> t = s
                /\ IF s # 0 /\ accepted /\ MayAdd
                   THEN /\ servers' = [servers EXCEPT ![s].client = FreeFd]
                        /\ open' = open \cup {FreeFd}
                   ELSE UNCHANGED <<servers, open>>
    /\ At("read", MaxConnections)
    /\ UNCHANGED <<going, task, paused, running, ops, told, due, answers, refused, struck>>

-----------------------------------------------------------------------------
(* handle_io_events: first the connections.                                  *)
Bug_MayRead(i) == connections[i].readable       \* booted meanwhile, read all the same
MayRead(i) == connections[i].readable /\ ~connections[i].dead

ReadOrWrite(i) == MayRead(i) \/ connections[i].writable

AtConnection(i) ==
    /\ ~Busy /\ i < main.below /\ ReadOrWrite(i)
    /\ \A j \in DOMAIN connections : j > i /\ j < main.below => ~ReadOrWrite(j)

(* connection_read: interrupted, at the end of the input, or with data.      *)
ConnectionRead ==
    /\ main.at = "read"
    /\ \E i \in DOMAIN connections :
          /\ AtConnection(i)
          /\ main' = [at |-> "write", below |-> i]
          /\ IF ~MayRead(i)
             THEN UNCHANGED <<connections, task>>
             ELSE \/ UNCHANGED <<connections, task>>
                  \/ /\ connections' = [connections EXCEPT ![i].readable = FALSE, ![i].dead = TRUE]
                     /\ UNCHANGED task
                  \/ /\ connections' = [connections EXCEPT ![i].readable = FALSE]
                     /\ Starts("parse", i)
    /\ UNCHANGED <<told, servers, pendings, open, going, paused, running, ops,
                   due, answers, refused, struck>>

(* connection_write: the first n that are waiting, or none because the       *)
(* connection is lost; then an empty buffer is reported.                     *)
Bug_Left(out, n) ==             \* truncates without moving the rest down
    SubSeq(out, 1, Len(out) - n)
Left(out, n) == [k \in 1 .. Len(out) - n |-> out[k + n]]

ConnectionWrite ==
    /\ main.at = "write" /\ ~Busy
    /\ main' = [main EXCEPT !.at = "read"]
    /\ LET i == main.below
           c == connections[i]
       IN  IF ~c.writable
           THEN UNCHANGED <<connections, due, task>>
           ELSE \E n \in 0 .. Len(c.out) :
                  LET left == IF n = 0 THEN <<>> ELSE Left(c.out, n)
                  IN  /\ connections' = [connections EXCEPT ![i].writable = FALSE, ![i].out = left,
                                                            ![i].dead = @ \/ n = 0]
                      /\ due' = [due EXCEPT ![i] = IF n = 0 THEN <<>> ELSE SubSeq(@, n + 1, Len(@))]
                      /\ IF left = <<>> THEN Starts("transmit", i) ELSE UNCHANGED task
    /\ UNCHANGED <<told, servers, pendings, open, going, paused, running, ops, answers, refused, struck>>

ConnectionsHandled ==
    /\ main.at = "read" /\ ~Busy
    /\ \A i \in DOMAIN connections : i < main.below => ~ReadOrWrite(i)
    /\ At("accept", MaxServers)
    /\ UNCHANGED <<connections, servers, pendings, open, going, task, paused, running, ops, told,
                   due, answers, refused, struck>>

-----------------------------------------------------------------------------
(* Then the clients that io_event_wait accepted.                             *)
Bug_NoClient(server) == server  \* the same client is added in the next turn too
NoClient(server) == [server EXCEPT !.client = -1]

AcceptClient ==
    /\ main.at = "accept" /\ ~Busy
    /\ LET s == First(servers, LAMBDA server : server.client # -1)
       IN  IF s = 0
           THEN At("connects", MaxPendings) /\ UNCHANGED <<connections, servers, told, task>>
           ELSE /\ Added(Fresh, servers[s].client, servers[s].dbref)
                /\ servers' = [servers EXCEPT ![s] = NoClient(@)]
                /\ Starts("connect", Fresh)
                /\ GoOn(s)
    /\ UNCHANGED <<pendings, open, going, paused, running, ops, due, answers, refused, struck>>

(* Then the connects that are finished.                                      *)
Closed(pending) == {pending.fd}
Strikes(p) == p \in refused /\ (pendings[p].error = NOT_AN_IDENT \/ pendings[p].fd \in open)

PendingFinished ==
    /\ main.at = "connects" /\ ~Busy
    /\ LET p == First(pendings, LAMBDA pending : pending.finished)
       IN  IF p = 0
           THEN At("heartbeat", 0) /\ UNCHANGED <<connections, open, told, task, answers, struck>>
           ELSE /\ GoOn(p)
                /\ answers' = [answers EXCEPT ![p] = @ + 1]
                /\ struck' = (struck \/ Strikes(p))
                /\ IF pendings[p].error = NOT_AN_IDENT
                   THEN /\ Added(Fresh, pendings[p].fd, pendings[p].dbref)
                        /\ Starts("connect", Fresh)
                        /\ UNCHANGED open
                   ELSE /\ open' = open \ Closed(pendings[p])
                        /\ Starts("failed", None)
                        /\ UNCHANGED <<connections, told>>
    /\ UNCHANGED <<servers, pendings, going, paused, running, ops, due, refused>>

-----------------------------------------------------------------------------
(* The rest of a turn: the heartbeat, if it is due, and the paused task.     *)
Heartbeat ==
    /\ main.at = "heartbeat"
    /\ At("paused", 0)
    /\ Starts("heartbeat", None) \/ UNCHANGED task
    /\ UNCHANGED <<connections, servers, pendings, open, going, paused, running, ops, told,
                   due, answers, refused, struck>>

RunPausedTasks ==
    /\ main.at = "paused" /\ ~Busy
    /\ At("flush", MaxConnections)
    /\ task' = paused
    /\ paused' = NoTask
    /\ UNCHANGED <<connections, servers, pendings, open, going, running, ops, told,
                   due, answers, refused, struck>>

(* A stopped server writes what it can and exits.                            *)
FlushOutput ==
    /\ main.at = "flush" /\ ~Busy /\ ~running /\ main.below = Every(MaxConnections)
    /\ At("stopped", 0)
    /\ UNCHANGED <<connections, servers, pendings, open, going, task, paused, running, ops, told,
                   due, answers, refused, struck>>

-----------------------------------------------------------------------------
(* What a running task may do.                                               *)
Op == Busy /\ ops > 0 /\ ops' = ops - 1 /\ UNCHANGED task

Receives(i, dbref) == connections[i].dbref = dbref /\ ~connections[i].dead /\ HasBuffer(i)

OpEcho ==       \* tell; the number of the operation stands for what it says
    /\ Op
    /\ \E d \in Objects :
          LET is == {i \in DOMAIN connections : Receives(i, d)}
          IN  /\ \A i \in is : Len(connections[i].out) < MaxOut
              /\ connections' = [i \in DOMAIN connections |->
                     IF i \in is THEN [connections[i] EXCEPT !.out = Append(@, ops)] ELSE connections[i]]
              /\ due' = [i \in Ids |-> IF i \in is THEN Append(due[i], ops) ELSE due[i]]
    /\ UNCHANGED <<servers, pendings, open, main, going, paused, running, told, answers, refused, struck>>

OpDisconnect == \* boot; also when an object is destroyed
    /\ Op
    /\ \E d \in Objects :
          connections' = [i \in DOMAIN connections |->
              [connections[i] EXCEPT !.dead = @ \/ connections[i].dbref = d]]
    /\ UNCHANGED <<servers, pendings, open, main, going, paused, running, told,
                   due, answers, refused, struck>>

Server(fd, port, dbref) == [fd |-> fd, port |-> port, dbref |-> dbref, dead |-> FALSE, client |-> -1]

Bound(port) == {s \in DOMAIN servers : servers[s].port = port}
NewServer == IF servers = <<>> THEN 1 ELSE Max(DOMAIN servers) + 1

OpBind ==       \* add_server
    /\ Op
    /\ \E port \in Ports, d \in Objects :
          IF Bound(port) # {}
          THEN /\ servers' = [s \in DOMAIN servers |-> IF s \in Bound(port)
                                THEN [servers[s] EXCEPT !.dbref = d, !.dead = FALSE] ELSE servers[s]]
               /\ UNCHANGED open
          ELSE /\ NewServer \in Numbers(MaxServers)
               /\ servers' = Extend(servers, NewServer, Server(FreeFd, port, d))
               /\ open' = open \cup {FreeFd}
    /\ UNCHANGED <<connections, pendings, main, going, paused, running, told,
                   due, answers, refused, struck>>

OpUnbind ==     \* remove_server
    /\ Op
    /\ \E s \in DOMAIN servers : servers' = [servers EXCEPT ![s].dead = TRUE]
    /\ UNCHANGED <<connections, pendings, open, main, going, paused, running, told,
                   due, answers, refused, struck>>

(* make_connection.  A connect refused at once has closed its descriptor.    *)
NewPending == Cardinality(DOMAIN answers) + 1

OpConnect ==
    /\ Op
    /\ NewPending \in Numbers(MaxPendings) /\ MayAdd
    /\ \E d \in Objects, atOnce \in BOOLEAN :
          /\ pendings' = Extend(pendings, NewPending,
                 [fd |-> FreeFd, dbref |-> d, finished |-> FALSE,
                  error |-> IF atOnce THEN "refused" ELSE NOT_AN_IDENT])
          /\ open' = IF atOnce THEN open ELSE open \cup {FreeFd}
          /\ refused' = IF atOnce THEN refused \cup {NewPending} ELSE refused
    /\ answers' = Extend(answers, NewPending, 0)
    /\ UNCHANGED <<connections, servers, main, going, paused, running, told, due, struck>>

(* cur_conn is never cleared: a task that paused may still have one that has *)
(* been freed.  What conn_assign() then overwrites is left out.              *)
OpConnAssign ==
    /\ Op
    /\ task.conn \in DOMAIN connections \cup {going.conn, None}
    /\ \E d \in Objects :
          connections' = [i \in DOMAIN connections |->
              [connections[i] EXCEPT !.dbref = IF i = task.conn THEN d ELSE @]]
    /\ UNCHANGED <<servers, pendings, open, main, going, paused, running, told,
                   due, answers, refused, struck>>

OpShutdown ==
    /\ Op
    /\ running' = FALSE
    /\ UNCHANGED <<connections, servers, pendings, open, main, going, paused, told,
                   due, answers, refused, struck>>

TaskPause ==
    /\ Busy /\ paused = NoTask /\ ops > 0
    /\ paused' = task
    /\ task' = NoTask
    /\ UNCHANGED <<connections, servers, pendings, open, main, going, running, ops, told,
                   due, answers, refused, struck>>

TaskEnds ==
    /\ Busy
    /\ task' = NoTask
    /\ UNCHANGED <<connections, servers, pendings, open, main, going, paused, running, ops, told,
                   due, answers, refused, struck>>

-----------------------------------------------------------------------------
Flush == FlushConnection \/ ConnectionDiscard \/ FlushServersAndPendings \/ FlushOutput
HandleIoEvents == Panic \/ SelectTimeout \/ Select \/ ConnectionRead \/ ConnectionWrite
                  \/ ConnectionsHandled \/ AcceptClient \/ PendingFinished
MainStep == Flush \/ HandleIoEvents \/ Heartbeat \/ RunPausedTasks
TaskStep == OpEcho \/ OpDisconnect \/ OpBind \/ OpUnbind \/ OpConnect \/ OpConnAssign
            \/ OpShutdown \/ TaskPause

Next == MainStep \/ TaskStep \/ TaskEnds

(* The process is one thread: a task runs out of ticks and main_loop goes on. *)
Fairness == WF_vars(MainStep) /\ WF_vars(TaskEnds)
Spec == Init /\ [][Next]_vars /\ Fairness

-----------------------------------------------------------------------------
(* Types.                                                                    *)
Methods == {"connect", "parse", "transmit", "disconnect", "failed", "heartbeat"}

TypeOK ==
    /\ \A i \in DOMAIN connections : i \in Ids /\
          connections[i] \in [fd : Fds, dbref : Objects, out : Seq(1 .. MaxOps),
                              readable : BOOLEAN, writable : BOOLEAN, dead : BOOLEAN]
    /\ \A s \in DOMAIN servers : s \in Numbers(MaxServers) /\
          servers[s] \in [fd : Fds, port : Ports, dbref : Objects, dead : BOOLEAN, client : Fds \cup {-1}]
    /\ \A p \in DOMAIN pendings : p \in Numbers(MaxPendings) /\
          pendings[p] \in [fd : Fds, dbref : Objects, finished : BOOLEAN, error : {NOT_AN_IDENT, "refused"}]
    /\ open \subseteq Fds /\ refused \subseteq DOMAIN answers /\ struck \in BOOLEAN
    /\ going \in [fd : Fds \cup {-1}, conn : Ids \cup {None}]
    /\ {task, paused} \subseteq [name : Methods, conn : Ids \cup {None}] \cup {NoTask}

(* Every open descriptor belongs to one connection, server, client that is   *)
(* to be added or connect under way that has not been reported, and to no    *)
(* other: none is used after it was closed, closed twice or lost, until the  *)
(* descriptor of a connect that failed at once is.                           *)
Owners ==
    {<<"connection", i, connections[i].fd>> : i \in DOMAIN connections}
    \cup {<<"server", s, servers[s].fd>> : s \in DOMAIN servers}
    \cup {<<"client", s, servers[s].client>> : s \in {t \in DOMAIN servers : servers[t].client # -1}}
    \cup {<<"pending", p, pendings[p].fd>> : p \in {q \in DOMAIN pendings \ refused : answers[q] = 0}}
    \cup (IF going = Nobody THEN {} ELSE {<<"connection", going.conn, going.fd>>})

DescriptorsOwnedOnce ==
    struck \/ /\ open = {o[3] : o \in Owners}
              /\ \A o, p \in Owners : o[3] = p[3] => o = p

(* A connect that op_connect accepted is reported once, as a connection or   *)
(* as a failure, before its record is thrown away; one that failed at once   *)
(* may not be reported at all.                                               *)
ConnectsReportedOnce ==
    \A p \in DOMAIN answers :
        /\ answers[p] <= 1
        /\ answers[p] = 0 => p \in DOMAIN pendings \cup refused

(* What tasks tell a connection is written, or still in its buffer, in the   *)
(* order it was told, until a write fails; a connection that is booted is    *)
(* not closed before.                                                        *)
OutputKept ==
    \A i \in Ids : due[i] = (IF i \in DOMAIN connections THEN connections[i].out ELSE <<>>)

(* net.c:153: "Lose horribly if select() fails on anything but an            *)
(* interrupted system call": all that it is asked about is open.             *)
SelectSound == main.at = "select" => Selectable

(* A connection's reports begin with connect and end with disconnect, each   *)
(* of them once, and it is parsed only while it lives: not once it is dead,  *)
(* even if the task of another connection booted it after select() found it  *)
(* readable.                                                                 *)
Reports == ~Busy /\ Busy' /\ main.at # "paused"
ReportsInOrder ==
    [][Reports /\ task'.conn # None =>
         LET i == task'.conn
         IN  /\ told[i] # "disconnect"
             /\ (told[i] = "nothing") <=> (task'.name = "connect")
             /\ (told'[i] = "disconnect") <=> (task'.name = "disconnect")
             /\ task'.name = "parse" => ~connections[i].dead]_vars

(* A dead connection that has written all goes away, if the server stays up, *)
(* whatever else dies and comes up meanwhile.                                *)
Drained(i) == i \in DOMAIN connections /\ HasBuffer(i) /\ connections[i].dead /\ connections[i].out = <<>>
DrainedGoAway ==
    \A i \in Watched : Drained(i) ~> (i \notin DOMAIN connections \/ main.at = "stopped")

=============================================================================
