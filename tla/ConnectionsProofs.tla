-------------------------- MODULE ConnectionsProofs --------------------------
(* Proofs about Connections, for every number of connections, servers and    *)
(* connects.                                                                 *)
EXTENDS Connections, FiniteSetTheorems, SequenceTheorems, WellFoundedInduction, TLAPS
-----------------------------------------------------------------------------
(* The inductive invariants.                                                 *)

Clients == {s \in DOMAIN servers : servers[s].client # -1}
Unanswered == {p \in DOMAIN answers : answers[p] = 0}
Reported == {i \in Ids : told[i] # "nothing"}

(* What is in a buffer.                                                      *)
Texts == Seq(Int)

(* Data, but for descriptors.                                                *)
Shapes ==
    /\ DOMAIN connections \subseteq Ids
    /\ \A i \in DOMAIN connections :
          /\ connections[i].out \in Texts /\ connections[i].dbref \in Objects
          /\ {connections[i].readable, connections[i].writable, connections[i].dead} \subseteq BOOLEAN
          /\ DOMAIN connections[i] = {"fd", "dbref", "out", "readable", "writable", "dead"}
    /\ DOMAIN servers \subseteq Numbers(MaxServers)
    /\ \A s \in DOMAIN servers :
          /\ DOMAIN servers[s] = {"fd", "port", "dbref", "dead", "client"}
          /\ servers[s].dbref \in Objects
    /\ DOMAIN pendings \subseteq DOMAIN answers
    /\ \A p \in DOMAIN pendings :
          /\ DOMAIN pendings[p] = {"fd", "dbref", "finished", "error"}
          /\ pendings[p].finished \in BOOLEAN /\ pendings[p].dbref \in Objects
    /\ DOMAIN answers = 1 .. Cardinality(DOMAIN answers)
    /\ Cardinality(DOMAIN answers) \in 0 .. MaxPendings
    /\ told \in [Ids -> {"nothing", "connect", "disconnect"}]
    /\ due \in [Ids -> Texts]
    /\ main.below \in Int /\ DOMAIN main = {"at", "below"}
    /\ ops \in Int /\ refused \subseteq DOMAIN answers

(* Every connection was reported, and as nothing but a connection; the one   *)
(* that is about to be freed was reported as gone.                           *)
Told ==
    /\ 1 \in Reported
    /\ \A i \in DOMAIN connections : told[i] = "connect"
    /\ main.at = "discard" <=> going # Nobody
    /\ going # Nobody => going.conn \in Ids /\ told[going.conn] = "disconnect"

(* A walk stands at a connection that exists while it is between reading     *)
(* from it and writing to it.                                                *)
AtWrite == main.at = "write" => main.below \in DOMAIN connections

(* A client that was accepted is still to be visited, and is the only one.   *)
ClientsAhead ==
    /\ \A s \in Clients : main.at \in {"read", "write"} \/ (main.at = "accept" /\ s < main.below)
    /\ \A s, t \in Clients : s = t

(* A connect that was reported is finished, lies behind the walk and is      *)
(* thrown away at the next flush.                                            *)
AnsweredBehind ==
    /\ \A p \in DOMAIN answers : answers[p] \in {0, 1}
    /\ \A p \in DOMAIN pendings : answers[p] = 1 =>
          /\ pendings[p].finished
          /\ main.at \in {"heartbeat", "paused", "flush", "discard", "stopped"}
             \/ (main.at = "connects" /\ p >= main.below)

(* There is a number for every connection that may still come up.            *)
NumbersLeft == Fresh + ComingUp <= MaxConnections + 1

Inv == Shapes /\ Told /\ AtWrite /\ ClientsAhead /\ AnsweredBehind /\ NumbersLeft /\ OutputKept

(* But for connects that failed at once, one that is finished but not        *)
(* reported lies before the walk, and one that failed is finished.           *)
UnansweredAhead ==
    /\ \A p \in DOMAIN pendings \ refused : pendings[p].finished /\ answers[p] = 0 =>
          main.at \in {"read", "write", "accept"} \/ (main.at = "connects" /\ p < main.below)
    /\ \A p \in DOMAIN pendings \ refused : pendings[p].error # NOT_AN_IDENT => pendings[p].finished
    /\ \A p \in DOMAIN answers \ refused : answers[p] = 0 => p \in DOMAIN pendings

-----------------------------------------------------------------------------
(* The least and the greatest member of a set.                               *)
LEMMA NaturalsWellFounded ==
    IsWellFoundedOn({ss \in Nat \X Nat : ss[1] < ss[2]}, Nat)
  BY NatLessThanWellFounded, Zenon DEF OpToRel

LEMMA MinOfNaturals ==
    ASSUME NEW S \in SUBSET Nat, S # {}
    PROVE  Min(S) \in S /\ \A y \in S : Min(S) <= y
<1> DEFINE R == {ss \in Nat \X Nat : ss[1] < ss[2]}
<1>1. PICK x \in S : \A y \in S : ~(<<y, x>> \in R)
  BY NaturalsWellFounded, WFMin, Zenon
<1>2. ASSUME NEW y \in S PROVE x <= y
  <2>1. x \in Nat /\ y \in Nat
    OBVIOUS
  <2>2. ~(<<y, x>> \in R)
    BY <1>1
  <2> QED BY <2>1, <2>2
<1> QED BY <1>2 DEF Min

LEMMA MaxOfBounded ==
    ASSUME NEW n \in Nat, NEW S \in SUBSET (1 .. n), S # {}
    PROVE  Max(S) \in S /\ \A y \in S : Max(S) >= y
<1> DEFINE T == {n - x : x \in S}
<1>1. T \in SUBSET Nat
  OBVIOUS
<1>2. T # {}
  OBVIOUS
<1>3. Min(T) \in T /\ \A t \in T : Min(T) <= t
  BY <1>1, <1>2, MinOfNaturals
<1>4. PICK x \in S : Min(T) = n - x
  BY <1>3
<1>5. ASSUME NEW y \in S PROVE x >= y
  <2>1. n - y \in T
    OBVIOUS
  <2>2. x \in Nat /\ y \in Nat
    OBVIOUS
  <2>3. Min(T) <= n - y
    BY <1>3, <2>1, Zenon
  <2>4. n - x <= n - y
    BY <1>4, <2>3, Zenon
  <2> QED BY <2>2, <2>4
<1>6. \E z \in S : \A y \in S : z >= y
  BY <1>5
<1> DEFINE m == CHOOSE z \in S : \A y \in S : z >= y
<1>7. m \in S /\ \A y \in S : m >= y
  BY <1>6, Zenon
<1> QED BY <1>7, Zenon DEF Max

LEMMA MaxOfOneMore ==
    ASSUME NEW n \in Nat, NEW S \in SUBSET (1 .. n), S # {}, Max(S) + 1 <= n
    PROVE  Max(S \cup {Max(S) + 1}) = Max(S) + 1
<1> DEFINE m == Max(S)
           T == S \cup {m + 1}
<1>1. m \in S /\ \A y \in S : m >= y
  BY MaxOfBounded, Zenon
<1>2. m + 1 <= n
  OBVIOUS
<1> HIDE DEF m
<1>3. m \in 1 .. n
  BY <1>1
<1>4. m + 1 \in 1 .. n
  BY <1>2, <1>3
<1>5. T \in SUBSET (1 .. n)
  BY <1>4
<1>6. T # {}
  OBVIOUS
<1>7. Max(T) \in T /\ \A y \in T : Max(T) >= y
  BY <1>5, <1>6, MaxOfBounded, Zenon
<1>8. Max(T) >= m + 1
  BY <1>7
<1>9. \A y \in T : y <= m + 1 /\ y \in Int
  BY <1>1, <1>3
<1>10. Max(T) = m + 1
  <2>1. Max(T) <= m + 1 /\ Max(T) \in Int
    BY <1>7, <1>9, Zenon
  <2> QED BY <1>8, <1>3, <2>1
<1> QED BY <1>10 DEF m

-----------------------------------------------------------------------------
(* Numbers of connections.                                                   *)
LEMMA Bounds ==
    /\ MaxConnections \in Nat /\ MaxConnections >= 2
    /\ MaxServers \in Nat /\ MaxPendings \in Nat /\ MaxOut \in Nat
  BY ConnectionsAssumption

LEMMA NumbersFinite ==
    Shapes => /\ IsFiniteSet(Clients) /\ Cardinality(Clients) \in Nat
              /\ IsFiniteSet(Unanswered) /\ Cardinality(Unanswered) \in Nat
              /\ IsFiniteSet(DOMAIN answers)
<1> SUFFICES ASSUME Shapes
             PROVE  /\ IsFiniteSet(Clients) /\ Cardinality(Clients) \in Nat
                    /\ IsFiniteSet(Unanswered) /\ Cardinality(Unanswered) \in Nat
                    /\ IsFiniteSet(DOMAIN answers)
  OBVIOUS
<1>1. IsFiniteSet(1 .. MaxServers)
  BY Bounds, FS_Interval
<1>2. Clients \in SUBSET (1 .. MaxServers)
  BY DEF Shapes, Clients, Numbers
<1>3. IsFiniteSet(DOMAIN answers)
  <2>1. Cardinality(DOMAIN answers) \in Int
    BY DEF Shapes
  <2>2. IsFiniteSet(1 .. Cardinality(DOMAIN answers))
    BY <2>1, FS_Interval
  <2> QED BY <2>2 DEF Shapes
<1>4. Unanswered \in SUBSET (DOMAIN answers)
  BY DEF Unanswered
<1>5. IsFiniteSet(Clients) /\ IsFiniteSet(Unanswered)
  BY <1>1, <1>2, <1>3, <1>4, FS_Subset, Zenon
<1> QED BY <1>3, <1>5, FS_CardinalityType, Zenon

LEMMA ComingUpIs ==
    ComingUp = Cardinality(Unanswered) + Cardinality(Clients)
  BY DEF ComingUp, Unanswered, Clients

LEMMA FreshIs ==
    Fresh = Max(Reported) + 1
  BY DEF Fresh, Reported

LEMMA FreshIsUnused ==
    ASSUME Shapes, 1 \in Reported
    PROVE  /\ Fresh \in 2 .. MaxConnections + 1
           /\ Fresh = Max(Reported) + 1
           /\ \A i \in Ids : i >= Fresh => told[i] = "nothing"
<1>1. Reported \in SUBSET (1 .. MaxConnections) /\ Reported # {}
  BY DEF Reported, Ids
<1>2. Max(Reported) \in Reported /\ \A y \in Reported : Max(Reported) >= y
  BY Bounds, <1>1, MaxOfBounded, Zenon
<1>3. Max(Reported) \in 1 .. MaxConnections
  BY <1>1, <1>2
<1>4. Fresh \in 2 .. MaxConnections + 1
  BY FreshIs, Bounds, <1>3
<1>5. ASSUME NEW i \in Ids, i >= Fresh PROVE told[i] = "nothing"
  <2>1. i \in Int
    BY DEF Ids
  <2>2. ~(Max(Reported) >= i)
    BY FreshIs, <1>3, <1>5, <2>1
  <2>3. i \notin Reported
    BY <1>2, <2>2, Zenon
  <2> QED BY <2>3 DEF Reported
<1> QED BY FreshIs, <1>4, <1>5

(* No connection comes up or is promised.                                    *)
LEMMA NumbersKept ==
    ASSUME NumbersLeft, Reported' = Reported, Unanswered' = Unanswered, Clients' = Clients
    PROVE  NumbersLeft'
<1>1. Fresh' = Fresh
  BY DEF Fresh, Reported
<1>2. ComingUp' = ComingUp
  BY DEF ComingUp, Unanswered, Clients
<1> QED BY <1>1, <1>2 DEF NumbersLeft

(* One that was promised comes up.                                           *)
LEMMA NumberTaken ==
    ASSUME Shapes, 1 \in Reported, NumbersLeft, Reported' = Reported \cup {Fresh},
           ComingUp \in Int, ComingUp > 0, ComingUp' = ComingUp - 1
    PROVE  NumbersLeft' /\ Fresh \in Ids
<1>1. /\ Fresh = Max(Reported) + 1 /\ Fresh \in 2 .. MaxConnections + 1
      /\ Reported \in SUBSET (1 .. MaxConnections) /\ Reported # {}
  BY FreshIsUnused DEF Reported, Ids
<1>2. Max(Reported) + 1 <= MaxConnections
  BY <1>1, Bounds DEF NumbersLeft
<1>3. Max(Reported') = Max(Reported) + 1
  BY <1>1, <1>2, MaxOfOneMore, Bounds
<1>4. Fresh' = Max(Reported') + 1
  BY FreshIs DEF Fresh, Reported
<1>5. Fresh' = Fresh + 1
  BY <1>1, <1>3, <1>4
<1>6. NumbersLeft'
  BY <1>1, <1>5, Bounds DEF NumbersLeft
<1> QED BY <1>1, <1>2, <1>6, Bounds DEF Ids

(* A connection is promised, or a promise kept or given up.                  *)
LEMMA UnansweredMore ==
    ASSUME Shapes, NEW x, x \notin Unanswered, Unanswered' = Unanswered \cup {x}, Clients' = Clients
    PROVE  ComingUp' = ComingUp + 1 /\ ComingUp \in Nat
<1>1. Cardinality(Unanswered') = Cardinality(Unanswered) + 1
  BY NumbersFinite, FS_AddElement
<1>2. ComingUp' = Cardinality(Unanswered') + Cardinality(Clients')
  BY DEF ComingUp, Unanswered, Clients
<1> QED BY <1>1, <1>2, NumbersFinite, ComingUpIs

LEMMA UnansweredLess ==
    ASSUME Shapes, NEW x \in Unanswered, Unanswered' = Unanswered \ {x}, Clients' = Clients
    PROVE  ComingUp' = ComingUp - 1 /\ ComingUp \in Nat /\ ComingUp > 0
<1>1. Cardinality(Unanswered') = Cardinality(Unanswered) - 1 /\ Cardinality(Unanswered') \in Nat
  BY NumbersFinite, FS_RemoveElement, FS_CardinalityType
<1>2. ComingUp' = Cardinality(Unanswered') + Cardinality(Clients')
  BY DEF ComingUp, Unanswered, Clients
<1> QED BY <1>1, <1>2, NumbersFinite, ComingUpIs

LEMMA ClientsMore ==
    ASSUME Shapes, NEW x, x \notin Clients, Clients' = Clients \cup {x}, Unanswered' = Unanswered
    PROVE  ComingUp' = ComingUp + 1 /\ ComingUp \in Nat
<1>1. Cardinality(Clients') = Cardinality(Clients) + 1
  BY NumbersFinite, FS_AddElement
<1>2. ComingUp' = Cardinality(Unanswered') + Cardinality(Clients')
  BY DEF ComingUp, Unanswered, Clients
<1> QED BY <1>1, <1>2, NumbersFinite, ComingUpIs

LEMMA ClientsLess ==
    ASSUME Shapes, NEW x \in Clients, Clients' = Clients \ {x}, Unanswered' = Unanswered
    PROVE  ComingUp' = ComingUp - 1 /\ ComingUp \in Nat /\ ComingUp > 0
<1>1. Cardinality(Clients') = Cardinality(Clients) - 1 /\ Cardinality(Clients') \in Nat
  BY NumbersFinite, FS_RemoveElement, FS_CardinalityType
<1>2. ComingUp' = Cardinality(Unanswered') + Cardinality(Clients')
  BY DEF ComingUp, Unanswered, Clients
<1> QED BY <1>1, <1>2, NumbersFinite, ComingUpIs

-----------------------------------------------------------------------------
(* What each step keeps.                                                     *)

LEMMA FlushConnectionInv ==
    ASSUME Inv, FlushConnection
    PROVE  Inv'
<1> USE Bounds
<1>0. Shapes /\ Told /\ AtWrite /\ ClientsAhead /\ AnsweredBehind /\ NumbersLeft /\ OutputKept
  BY DEF Inv
<1>1. Shapes'
  BY <1>0 DEF Shapes, FlushConnection, MayFlush, Defunct, Without, Starts, Ids, None, Nobody
<1>2. Told'
  BY <1>0 DEF Shapes, Told, Reported, FlushConnection, MayFlush, Defunct, Without, Starts, Ids, None, Nobody
<1>3. AtWrite'
  BY <1>0 DEF AtWrite, FlushConnection, MayFlush, Defunct, Without, Starts, Ids, None, Nobody
<1>4. ClientsAhead'
  BY <1>0 DEF ClientsAhead, Clients, FlushConnection, MayFlush, Defunct, Without, Starts, Ids, None, Nobody
<1>5. AnsweredBehind'
  BY <1>0 DEF Shapes, AnsweredBehind, FlushConnection, MayFlush, Defunct, Without, Starts, Ids, None, Nobody
<1>6. NumbersLeft'
  <2>1. Reported' = Reported
    BY <1>0 DEF Shapes, Told, Reported, FlushConnection, MayFlush, Defunct, Without, Starts, Ids, None, Nobody
  <2>2. Unanswered' = Unanswered
    BY <1>0 DEF Unanswered, FlushConnection, MayFlush, Defunct, Without, Starts, Ids, None, Nobody
  <2>3. Clients' = Clients
    BY <1>0 DEF Shapes, Clients, ClientsAhead, FlushConnection, MayFlush, Defunct, Without, Starts, Ids, None, Nobody
  <2> QED BY <1>0, <2>1, <2>2, <2>3, NumbersKept
<1>7. OutputKept'
  BY <1>0 DEF Shapes, OutputKept, FlushConnection, MayFlush, Defunct, Without, Starts, Ids, None, Nobody
<1> QED BY <1>1, <1>2, <1>3, <1>4, <1>5, <1>6, <1>7 DEF Inv

LEMMA ConnectionDiscardInv ==
    ASSUME Inv, ConnectionDiscard
    PROVE  Inv'
<1> USE Bounds
<1>0. Shapes /\ Told /\ AtWrite /\ ClientsAhead /\ AnsweredBehind /\ NumbersLeft /\ OutputKept
  BY DEF Inv
<1>1. Shapes'
  BY <1>0 DEF Shapes, ConnectionDiscard
<1>2. Told'
  BY <1>0 DEF Shapes, Told, Reported, ConnectionDiscard
<1>3. AtWrite'
  BY <1>0 DEF AtWrite, ConnectionDiscard
<1>4. ClientsAhead'
  BY <1>0 DEF ClientsAhead, Clients, ConnectionDiscard
<1>5. AnsweredBehind'
  BY <1>0 DEF Shapes, AnsweredBehind, ConnectionDiscard
<1>6. NumbersLeft'
  <2>1. Reported' = Reported
    BY <1>0 DEF Shapes, Told, Reported, ConnectionDiscard
  <2>2. Unanswered' = Unanswered
    BY <1>0 DEF Unanswered, ConnectionDiscard
  <2>3. Clients' = Clients
    BY <1>0 DEF Shapes, Clients, ClientsAhead, ConnectionDiscard
  <2> QED BY <1>0, <2>1, <2>2, <2>3, NumbersKept
<1>7. OutputKept'
  BY <1>0 DEF Shapes, OutputKept, ConnectionDiscard
<1> QED BY <1>1, <1>2, <1>3, <1>4, <1>5, <1>6, <1>7 DEF Inv

LEMMA FlushServersAndPendingsInv ==
    ASSUME Inv, FlushServersAndPendings
    PROVE  Inv'
<1> USE Bounds
<1>0. Shapes /\ Told /\ AtWrite /\ ClientsAhead /\ AnsweredBehind /\ NumbersLeft /\ OutputKept
  BY DEF Inv
<1>1. Shapes'
  BY <1>0 DEF Shapes, FlushServersAndPendings, MayFlush, Without, At, Every, Flushed, Defunct
<1>2. Told'
  BY <1>0 DEF Shapes, Told, Reported, FlushServersAndPendings, MayFlush, Without, At, Every, Flushed, Defunct
<1>3. AtWrite'
  BY <1>0 DEF AtWrite, FlushServersAndPendings, MayFlush, Without, At, Every, Flushed, Defunct
<1>4. ClientsAhead'
  BY <1>0 DEF ClientsAhead, Clients, FlushServersAndPendings, MayFlush, Without, At, Every, Flushed, Defunct
<1>5. AnsweredBehind'
  BY <1>0 DEF Shapes, AnsweredBehind, FlushServersAndPendings, MayFlush, Without, At, Every, Flushed, Defunct
<1>6. NumbersLeft'
  <2>1. Reported' = Reported
    BY <1>0 DEF Shapes, Told, Reported, FlushServersAndPendings, MayFlush, Without, At, Every, Flushed, Defunct
  <2>2. Unanswered' = Unanswered
    BY <1>0 DEF Unanswered, FlushServersAndPendings, MayFlush, Without, At, Every, Flushed, Defunct
  <2>3. Clients' = Clients
    BY <1>0 DEF Shapes, Clients, ClientsAhead, FlushServersAndPendings, MayFlush, Without, At, Every, Flushed, Defunct
  <2> QED BY <1>0, <2>1, <2>2, <2>3, NumbersKept
<1>7. OutputKept'
  BY <1>0 DEF Shapes, OutputKept, FlushServersAndPendings, MayFlush, Without, At, Every, Flushed, Defunct
<1> QED BY <1>1, <1>2, <1>3, <1>4, <1>5, <1>6, <1>7 DEF Inv

LEMMA SelectTimeoutInv ==
    ASSUME Inv, SelectTimeout
    PROVE  Inv'
<1> USE Bounds
<1>0. Shapes /\ Told /\ AtWrite /\ ClientsAhead /\ AnsweredBehind /\ NumbersLeft /\ OutputKept
  BY DEF Inv
<1>1. Shapes'
  <2>1. ASSUME NEW p \in DOMAIN pendings'
        PROVE  /\ DOMAIN pendings'[p] = {"fd", "dbref", "finished", "error"}
               /\ pendings'[p].finished \in BOOLEAN /\ pendings'[p].dbref \in Objects
    <3>1. p \in DOMAIN pendings
      BY DEF SelectTimeout, AlreadyFailed
    <3>2. pendings'[p] = [pendings[p] EXCEPT !.finished = @ \/ pendings[p].error # NOT_AN_IDENT]
      BY <3>1 DEF SelectTimeout, AlreadyFailed
    <3>3. DOMAIN pendings[p] = {"fd", "dbref", "finished", "error"}
      BY <1>0, <3>1 DEF Shapes
    <3>4. DOMAIN pendings'[p] = {"fd", "dbref", "finished", "error"}
      BY <3>2, <3>3
    <3>5. pendings'[p].finished = (pendings[p].finished \/ pendings[p].error # NOT_AN_IDENT)
      BY <3>2, <3>3
    <3>6. pendings'[p].dbref = pendings[p].dbref
      BY <3>2, <3>3
    <3>7. pendings'[p].finished \in BOOLEAN
      BY <3>5, Zenon
    <3> QED BY <1>0, <3>1, <3>4, <3>6, <3>7 DEF Shapes
  <2>2. DOMAIN pendings' \subseteq DOMAIN answers'
    BY <1>0 DEF Shapes, SelectTimeout, AlreadyFailed
  <2> QED BY <1>0, <2>1, <2>2 DEF Shapes, SelectTimeout, At, Every
<1>2. Told'
  BY <1>0 DEF Shapes, Told, Reported, SelectTimeout, At, Every, AlreadyFailed
<1>3. AtWrite'
  BY <1>0 DEF AtWrite, SelectTimeout, At, Every, AlreadyFailed
<1>4. ClientsAhead'
  BY <1>0 DEF ClientsAhead, Clients, SelectTimeout, At, Every, AlreadyFailed
<1>5. AnsweredBehind'
  BY <1>0 DEF Shapes, AnsweredBehind, SelectTimeout, At, Every, AlreadyFailed
<1>6. NumbersLeft'
  <2>1. Reported' = Reported
    BY <1>0 DEF Shapes, Told, Reported, SelectTimeout, At, Every, AlreadyFailed
  <2>2. Unanswered' = Unanswered
    BY <1>0 DEF Unanswered, SelectTimeout, At, Every, AlreadyFailed
  <2>3. Clients' = Clients
    BY <1>0 DEF Shapes, Clients, ClientsAhead, SelectTimeout, At, Every, AlreadyFailed
  <2> QED BY <1>0, <2>1, <2>2, <2>3, NumbersKept
<1>7. OutputKept'
  BY <1>0 DEF Shapes, OutputKept, SelectTimeout, At, Every, AlreadyFailed
<1> QED BY <1>1, <1>2, <1>3, <1>4, <1>5, <1>6, <1>7 DEF Inv

LEMMA PanicInv ==
    ASSUME Inv, Panic
    PROVE  Inv'
<1> USE Bounds
<1>0. Shapes /\ Told /\ AtWrite /\ ClientsAhead /\ AnsweredBehind /\ NumbersLeft /\ OutputKept
  BY DEF Inv
<1>1. Shapes'
  <2>1. ASSUME NEW p \in DOMAIN pendings'
        PROVE  /\ DOMAIN pendings'[p] = {"fd", "dbref", "finished", "error"}
               /\ pendings'[p].finished \in BOOLEAN /\ pendings'[p].dbref \in Objects
    <3>1. p \in DOMAIN pendings
      BY DEF Panic, AlreadyFailed
    <3>2. pendings'[p] = [pendings[p] EXCEPT !.finished = @ \/ pendings[p].error # NOT_AN_IDENT]
      BY <3>1 DEF Panic, AlreadyFailed
    <3>3. DOMAIN pendings[p] = {"fd", "dbref", "finished", "error"}
      BY <1>0, <3>1 DEF Shapes
    <3>4. DOMAIN pendings'[p] = {"fd", "dbref", "finished", "error"}
      BY <3>2, <3>3
    <3>5. pendings'[p].finished = (pendings[p].finished \/ pendings[p].error # NOT_AN_IDENT)
      BY <3>2, <3>3
    <3>6. pendings'[p].dbref = pendings[p].dbref
      BY <3>2, <3>3
    <3>7. pendings'[p].finished \in BOOLEAN
      BY <3>5, Zenon
    <3> QED BY <1>0, <3>1, <3>4, <3>6, <3>7 DEF Shapes
  <2>2. DOMAIN pendings' \subseteq DOMAIN answers'
    BY <1>0 DEF Shapes, Panic, AlreadyFailed
  <2> QED BY <1>0, <2>1, <2>2 DEF Shapes, Panic, At, Every
<1>2. Told'
  BY <1>0 DEF Shapes, Told, Reported, Panic, At, Every, AlreadyFailed
<1>3. AtWrite'
  BY <1>0 DEF AtWrite, Panic, At, Every, AlreadyFailed
<1>4. ClientsAhead'
  BY <1>0 DEF ClientsAhead, Clients, Panic, At, Every, AlreadyFailed
<1>5. AnsweredBehind'
  BY <1>0 DEF Shapes, AnsweredBehind, Panic, At, Every, AlreadyFailed
<1>6. NumbersLeft'
  <2>1. Reported' = Reported
    BY <1>0 DEF Shapes, Told, Reported, Panic, At, Every, AlreadyFailed
  <2>2. Unanswered' = Unanswered
    BY <1>0 DEF Unanswered, Panic, At, Every, AlreadyFailed
  <2>3. Clients' = Clients
    BY <1>0 DEF Shapes, Clients, ClientsAhead, Panic, At, Every, AlreadyFailed
  <2> QED BY <1>0, <2>1, <2>2, <2>3, NumbersKept
<1>7. OutputKept'
  BY <1>0 DEF Shapes, OutputKept, Panic, At, Every, AlreadyFailed
<1> QED BY <1>1, <1>2, <1>3, <1>4, <1>5, <1>6, <1>7 DEF Inv

LEMMA ConnectionReadInv ==
    ASSUME Inv, ConnectionRead
    PROVE  Inv'
<1> USE Bounds
<1>0. Shapes /\ Told /\ AtWrite /\ ClientsAhead /\ AnsweredBehind /\ NumbersLeft /\ OutputKept
  BY DEF Inv
<1>1. Shapes'
  <2>1. PICK i \in DOMAIN connections :
          /\ main' = [at |-> "write", below |-> i]
          /\ \/ connections' = connections
             \/ connections' = [connections EXCEPT ![i].readable = FALSE, ![i].dead = TRUE]
             \/ connections' = [connections EXCEPT ![i].readable = FALSE]
    BY DEF ConnectionRead
  <2>2. main'.below \in Int /\ DOMAIN main' = {"at", "below"}
    BY <1>0, <2>1 DEF Shapes, Ids
  <2>3. ASSUME NEW j \in DOMAIN connections'
        PROVE  /\ connections'[j].out \in Texts /\ connections'[j].dbref \in Objects
               /\ {connections'[j].readable, connections'[j].writable, connections'[j].dead} \subseteq BOOLEAN
               /\ DOMAIN connections'[j] = {"fd", "dbref", "out", "readable", "writable", "dead"}
    <3>1. CASE connections' = connections
      BY <1>0, <3>1 DEF Shapes
    <3>2. CASE connections' = [connections EXCEPT ![i].readable = FALSE]
      BY <1>0, <3>2 DEF Shapes
    <3>3. CASE connections' = [connections EXCEPT ![i].readable = FALSE, ![i].dead = TRUE]
      <4>1. j \in DOMAIN connections /\ DOMAIN connections[j] = {"fd", "dbref", "out", "readable", "writable", "dead"}
        BY <1>0, <3>3 DEF Shapes
      <4>2. /\ DOMAIN connections'[j] = DOMAIN connections[j]
            /\ \A f \in {"fd", "dbref", "out", "writable"} : connections'[j][f] = connections[j][f]
            /\ connections'[j].readable \in {FALSE, connections[j].readable}
            /\ connections'[j].dead \in {TRUE, connections[j].dead}
        BY <3>3, <4>1
      <4> QED BY <1>0, <4>1, <4>2 DEF Shapes
    <3> QED BY <2>1, <3>1, <3>2, <3>3
  <2>4. DOMAIN connections' = DOMAIN connections
    BY <2>1
  <2> QED BY <1>0, <2>2, <2>3, <2>4 DEF Shapes, ConnectionRead
<1>2. Told'
  BY <1>0 DEF Shapes, Told, Reported, ConnectionRead, AtConnection, Starts
<1>3. AtWrite'
  BY <1>0 DEF AtWrite, ConnectionRead, AtConnection, Starts
<1>4. ClientsAhead'
  BY <1>0 DEF ClientsAhead, Clients, ConnectionRead, AtConnection, Starts
<1>5. AnsweredBehind'
  BY <1>0 DEF Shapes, AnsweredBehind, ConnectionRead, AtConnection, Starts
<1>6. NumbersLeft'
  <2>1. Reported' = Reported
    BY <1>0 DEF Shapes, Told, Reported, ConnectionRead, AtConnection, Starts
  <2>2. Unanswered' = Unanswered
    BY <1>0 DEF Unanswered, ConnectionRead, AtConnection, Starts
  <2>3. Clients' = Clients
    BY <1>0 DEF Shapes, Clients, ClientsAhead, ConnectionRead, AtConnection, Starts
  <2> QED BY <1>0, <2>1, <2>2, <2>3, NumbersKept
<1>7. OutputKept'
  BY <1>0 DEF Shapes, OutputKept, ConnectionRead, AtConnection, Starts
<1> QED BY <1>1, <1>2, <1>3, <1>4, <1>5, <1>6, <1>7 DEF Inv

LEMMA ConnectionsHandledInv ==
    ASSUME Inv, ConnectionsHandled
    PROVE  Inv'
<1> USE Bounds
<1>0. Shapes /\ Told /\ AtWrite /\ ClientsAhead /\ AnsweredBehind /\ NumbersLeft /\ OutputKept
  BY DEF Inv
<1>1. Shapes'
  BY <1>0 DEF Shapes, ConnectionsHandled, At, Every
<1>2. Told'
  BY <1>0 DEF Shapes, Told, Reported, ConnectionsHandled, At, Every
<1>3. AtWrite'
  BY <1>0 DEF AtWrite, ConnectionsHandled, At, Every
<1>4. ClientsAhead'
  BY <1>0 DEF Shapes, Numbers, ClientsAhead, Clients, ConnectionsHandled, At, Every
<1>5. AnsweredBehind'
  BY <1>0 DEF Shapes, AnsweredBehind, ConnectionsHandled, At, Every
<1>6. NumbersLeft'
  <2>1. Reported' = Reported
    BY <1>0 DEF Shapes, Told, Reported, ConnectionsHandled, At, Every
  <2>2. Unanswered' = Unanswered
    BY <1>0 DEF Unanswered, ConnectionsHandled, At, Every
  <2>3. Clients' = Clients
    BY <1>0 DEF Shapes, Clients, ClientsAhead, ConnectionsHandled, At, Every
  <2> QED BY <1>0, <2>1, <2>2, <2>3, NumbersKept
<1>7. OutputKept'
  BY <1>0 DEF Shapes, OutputKept, ConnectionsHandled, At, Every
<1> QED BY <1>1, <1>2, <1>3, <1>4, <1>5, <1>6, <1>7 DEF Inv

LEMMA HeartbeatInv ==
    ASSUME Inv, Heartbeat
    PROVE  Inv'
<1> USE Bounds
<1>0. Shapes /\ Told /\ AtWrite /\ ClientsAhead /\ AnsweredBehind /\ NumbersLeft /\ OutputKept
  BY DEF Inv
<1>1. Shapes'
  BY <1>0 DEF Shapes, Heartbeat, At, Every, Starts
<1>2. Told'
  BY <1>0 DEF Shapes, Told, Reported, Heartbeat, At, Every, Starts
<1>3. AtWrite'
  BY <1>0 DEF AtWrite, Heartbeat, At, Every, Starts
<1>4. ClientsAhead'
  BY <1>0 DEF ClientsAhead, Clients, Heartbeat, At, Every, Starts
<1>5. AnsweredBehind'
  BY <1>0 DEF Shapes, AnsweredBehind, Heartbeat, At, Every, Starts
<1>6. NumbersLeft'
  <2>1. Reported' = Reported
    BY <1>0 DEF Shapes, Told, Reported, Heartbeat, At, Every, Starts
  <2>2. Unanswered' = Unanswered
    BY <1>0 DEF Unanswered, Heartbeat, At, Every, Starts
  <2>3. Clients' = Clients
    BY <1>0 DEF Shapes, Clients, ClientsAhead, Heartbeat, At, Every, Starts
  <2> QED BY <1>0, <2>1, <2>2, <2>3, NumbersKept
<1>7. OutputKept'
  BY <1>0 DEF Shapes, OutputKept, Heartbeat, At, Every, Starts
<1> QED BY <1>1, <1>2, <1>3, <1>4, <1>5, <1>6, <1>7 DEF Inv

LEMMA RunPausedTasksInv ==
    ASSUME Inv, RunPausedTasks
    PROVE  Inv'
<1> USE Bounds
<1>0. Shapes /\ Told /\ AtWrite /\ ClientsAhead /\ AnsweredBehind /\ NumbersLeft /\ OutputKept
  BY DEF Inv
<1>1. Shapes'
  BY <1>0 DEF Shapes, RunPausedTasks, At, Every
<1>2. Told'
  BY <1>0 DEF Shapes, Told, Reported, RunPausedTasks, At, Every
<1>3. AtWrite'
  BY <1>0 DEF AtWrite, RunPausedTasks, At, Every
<1>4. ClientsAhead'
  BY <1>0 DEF ClientsAhead, Clients, RunPausedTasks, At, Every
<1>5. AnsweredBehind'
  BY <1>0 DEF Shapes, AnsweredBehind, RunPausedTasks, At, Every
<1>6. NumbersLeft'
  <2>1. Reported' = Reported
    BY <1>0 DEF Shapes, Told, Reported, RunPausedTasks, At, Every
  <2>2. Unanswered' = Unanswered
    BY <1>0 DEF Unanswered, RunPausedTasks, At, Every
  <2>3. Clients' = Clients
    BY <1>0 DEF Shapes, Clients, ClientsAhead, RunPausedTasks, At, Every
  <2> QED BY <1>0, <2>1, <2>2, <2>3, NumbersKept
<1>7. OutputKept'
  BY <1>0 DEF Shapes, OutputKept, RunPausedTasks, At, Every
<1> QED BY <1>1, <1>2, <1>3, <1>4, <1>5, <1>6, <1>7 DEF Inv

LEMMA FlushOutputInv ==
    ASSUME Inv, FlushOutput
    PROVE  Inv'
<1> USE Bounds
<1>0. Shapes /\ Told /\ AtWrite /\ ClientsAhead /\ AnsweredBehind /\ NumbersLeft /\ OutputKept
  BY DEF Inv
<1>1. Shapes'
  BY <1>0 DEF Shapes, FlushOutput, At, Every
<1>2. Told'
  BY <1>0 DEF Shapes, Told, Reported, FlushOutput, At, Every
<1>3. AtWrite'
  BY <1>0 DEF AtWrite, FlushOutput, At, Every
<1>4. ClientsAhead'
  BY <1>0 DEF ClientsAhead, Clients, FlushOutput, At, Every
<1>5. AnsweredBehind'
  BY <1>0 DEF Shapes, AnsweredBehind, FlushOutput, At, Every
<1>6. NumbersLeft'
  <2>1. Reported' = Reported
    BY <1>0 DEF Shapes, Told, Reported, FlushOutput, At, Every
  <2>2. Unanswered' = Unanswered
    BY <1>0 DEF Unanswered, FlushOutput, At, Every
  <2>3. Clients' = Clients
    BY <1>0 DEF Shapes, Clients, ClientsAhead, FlushOutput, At, Every
  <2> QED BY <1>0, <2>1, <2>2, <2>3, NumbersKept
<1>7. OutputKept'
  BY <1>0 DEF Shapes, OutputKept, FlushOutput, At, Every
<1> QED BY <1>1, <1>2, <1>3, <1>4, <1>5, <1>6, <1>7 DEF Inv

LEMMA OpEchoInv ==
    ASSUME Inv, OpEcho
    PROVE  Inv'
<1> USE Bounds
<1>0. Shapes /\ Told /\ AtWrite /\ ClientsAhead /\ AnsweredBehind /\ NumbersLeft /\ OutputKept
  BY DEF Inv
<1>1. Shapes' /\ OutputKept'
  <2>1. PICK is : /\ connections' = [i \in DOMAIN connections |->
                       IF i \in is THEN [connections[i] EXCEPT !.out = Append(@, ops)] ELSE connections[i]]
                  /\ due' = [i \in Ids |-> IF i \in is THEN Append(due[i], ops) ELSE due[i]]
                  /\ is \subseteq DOMAIN connections
    BY DEF OpEcho
  <2>2. ops' \in Int /\ UNCHANGED <<servers, pendings, main, told, answers, refused>>
    BY <1>0 DEF Shapes, OpEcho, Op
  <2>3. \A t \in Texts : Append(t, ops) \in Texts
    BY <1>0 DEF Shapes, Texts
  <2>4. ASSUME NEW i \in DOMAIN connections
        PROVE  /\ connections'[i].out \in Texts /\ connections'[i].dbref \in Objects
               /\ {connections'[i].readable, connections'[i].writable, connections'[i].dead} \subseteq BOOLEAN
               /\ DOMAIN connections'[i] = {"fd", "dbref", "out", "readable", "writable", "dead"}
               /\ connections'[i].out = (IF i \in is THEN Append(connections[i].out, ops) ELSE connections[i].out)
    BY <1>0, <2>1, <2>3 DEF Shapes
  <2>5. due' \in [Ids -> Texts] /\ \A i \in Ids : due'[i] = (IF i \in is THEN Append(due[i], ops) ELSE due[i])
    BY <1>0, <2>1, <2>3 DEF Shapes
  <2>6. DOMAIN connections' = DOMAIN connections
    BY <2>1
  <2>7. Shapes'
    BY <1>0, <2>2, <2>4, <2>5, <2>6 DEF Shapes
  <2>8. OutputKept'
    BY <1>0, <2>1, <2>4, <2>5, <2>6 DEF OutputKept, Shapes
  <2> QED BY <2>7, <2>8
<1>2. Told'
  BY <1>0 DEF Shapes, Told, Reported, OpEcho, Op, Receives
<1>3. AtWrite'
  BY <1>0 DEF AtWrite, OpEcho, Op, Receives
<1>4. ClientsAhead'
  BY <1>0 DEF ClientsAhead, Clients, OpEcho, Op, Receives
<1>5. AnsweredBehind'
  BY <1>0 DEF Shapes, AnsweredBehind, OpEcho, Op, Receives
<1>6. NumbersLeft'
  <2>1. Reported' = Reported
    BY <1>0 DEF Shapes, Told, Reported, OpEcho, Op, Receives
  <2>2. Unanswered' = Unanswered
    BY <1>0 DEF Unanswered, OpEcho, Op, Receives
  <2>3. Clients' = Clients
    BY <1>0 DEF Shapes, Clients, ClientsAhead, OpEcho, Op, Receives
  <2> QED BY <1>0, <2>1, <2>2, <2>3, NumbersKept
<1> QED BY <1>1, <1>2, <1>3, <1>4, <1>5, <1>6 DEF Inv

LEMMA OpDisconnectInv ==
    ASSUME Inv, OpDisconnect
    PROVE  Inv'
<1> USE Bounds
<1>0. Shapes /\ Told /\ AtWrite /\ ClientsAhead /\ AnsweredBehind /\ NumbersLeft /\ OutputKept
  BY DEF Inv
<1>1. Shapes'
  <2>1. ASSUME NEW i \in DOMAIN connections'
        PROVE  /\ connections'[i].out \in Texts /\ connections'[i].dbref \in Objects
               /\ {connections'[i].readable, connections'[i].writable, connections'[i].dead} \subseteq BOOLEAN
               /\ DOMAIN connections'[i] = {"fd", "dbref", "out", "readable", "writable", "dead"}
    <3>0. i \in DOMAIN connections
      BY DEF OpDisconnect, Op
    <3>1. PICK d \in Objects : connections'[i] = [connections[i] EXCEPT !.dead = @ \/ connections[i].dbref = d]
      BY <3>0 DEF OpDisconnect, Op
    <3>2. DOMAIN connections[i] = {"fd", "dbref", "out", "readable", "writable", "dead"}
      BY <1>0, <3>0 DEF Shapes
    <3>3. connections'[i].dead = (connections[i].dead \/ connections[i].dbref = d)
      BY <3>1, <3>2
    <3>4. connections'[i].dead \in BOOLEAN
      BY <3>3, Zenon
    <3> QED BY <1>0, <3>0, <3>1, <3>4 DEF Shapes
  <2>2. DOMAIN connections' = DOMAIN connections
    BY DEF OpDisconnect
  <2>3. ops' \in Int /\ UNCHANGED <<servers, pendings, main, told, due, answers, refused>>
    BY <1>0 DEF Shapes, OpDisconnect, Op
  <2> QED BY <1>0, <2>1, <2>2, <2>3 DEF Shapes
<1>2. Told'
  BY <1>0 DEF Shapes, Told, Reported, OpDisconnect, Op
<1>3. AtWrite'
  BY <1>0 DEF AtWrite, OpDisconnect, Op
<1>4. ClientsAhead'
  BY <1>0 DEF ClientsAhead, Clients, OpDisconnect, Op
<1>5. AnsweredBehind'
  BY <1>0 DEF Shapes, AnsweredBehind, OpDisconnect, Op
<1>6. NumbersLeft'
  <2>1. Reported' = Reported
    BY <1>0 DEF Shapes, Told, Reported, OpDisconnect, Op
  <2>2. Unanswered' = Unanswered
    BY <1>0 DEF Unanswered, OpDisconnect, Op
  <2>3. Clients' = Clients
    BY <1>0 DEF Shapes, Clients, ClientsAhead, OpDisconnect, Op
  <2> QED BY <1>0, <2>1, <2>2, <2>3, NumbersKept
<1>7. OutputKept'
  BY <1>0 DEF Shapes, OutputKept, OpDisconnect, Op
<1> QED BY <1>1, <1>2, <1>3, <1>4, <1>5, <1>6, <1>7 DEF Inv

LEMMA OpUnbindInv ==
    ASSUME Inv, OpUnbind
    PROVE  Inv'
<1> USE Bounds
<1>0. Shapes /\ Told /\ AtWrite /\ ClientsAhead /\ AnsweredBehind /\ NumbersLeft /\ OutputKept
  BY DEF Inv
<1>1. Shapes'
  BY <1>0 DEF Shapes, OpUnbind, Op
<1>2. Told'
  BY <1>0 DEF Shapes, Told, Reported, OpUnbind, Op
<1>3. AtWrite'
  BY <1>0 DEF AtWrite, OpUnbind, Op
<1>4. ClientsAhead'
  BY <1>0 DEF ClientsAhead, Clients, OpUnbind, Op
<1>5. AnsweredBehind'
  BY <1>0 DEF Shapes, AnsweredBehind, OpUnbind, Op
<1>6. NumbersLeft'
  <2>1. Reported' = Reported
    BY <1>0 DEF Shapes, Told, Reported, OpUnbind, Op
  <2>2. Unanswered' = Unanswered
    BY <1>0 DEF Unanswered, OpUnbind, Op
  <2>3. Clients' = Clients
    BY <1>0 DEF Shapes, Clients, ClientsAhead, OpUnbind, Op
  <2> QED BY <1>0, <2>1, <2>2, <2>3, NumbersKept
<1>7. OutputKept'
  BY <1>0 DEF Shapes, OutputKept, OpUnbind, Op
<1> QED BY <1>1, <1>2, <1>3, <1>4, <1>5, <1>6, <1>7 DEF Inv

LEMMA OpConnAssignInv ==
    ASSUME Inv, OpConnAssign
    PROVE  Inv'
<1> USE Bounds
<1>0. Shapes /\ Told /\ AtWrite /\ ClientsAhead /\ AnsweredBehind /\ NumbersLeft /\ OutputKept
  BY DEF Inv
<1>1. Shapes'
  <2>1. PICK d \in Objects : connections' = [i \in DOMAIN connections |->
              [connections[i] EXCEPT !.dbref = IF i = task.conn THEN d ELSE @]]
    BY DEF OpConnAssign
  <2>2. ASSUME NEW i \in DOMAIN connections
        PROVE  /\ connections'[i].out \in Texts /\ connections'[i].dbref \in Objects
               /\ {connections'[i].readable, connections'[i].writable, connections'[i].dead} \subseteq BOOLEAN
               /\ DOMAIN connections'[i] = {"fd", "dbref", "out", "readable", "writable", "dead"}
    BY <1>0, <2>1 DEF Shapes
  <2>3. DOMAIN connections' = DOMAIN connections
    BY <2>1
  <2>4. ops' \in Int /\ UNCHANGED <<servers, pendings, main, told, due, answers, refused>>
    BY <1>0 DEF Shapes, OpConnAssign, Op
  <2> QED BY <1>0, <2>2, <2>3, <2>4 DEF Shapes
<1>2. Told'
  BY <1>0 DEF Shapes, Told, Reported, OpConnAssign, Op
<1>3. AtWrite'
  BY <1>0 DEF AtWrite, OpConnAssign, Op
<1>4. ClientsAhead'
  BY <1>0 DEF ClientsAhead, Clients, OpConnAssign, Op
<1>5. AnsweredBehind'
  BY <1>0 DEF Shapes, AnsweredBehind, OpConnAssign, Op
<1>6. NumbersLeft'
  <2>1. Reported' = Reported
    BY <1>0 DEF Shapes, Told, Reported, OpConnAssign, Op
  <2>2. Unanswered' = Unanswered
    BY <1>0 DEF Unanswered, OpConnAssign, Op
  <2>3. Clients' = Clients
    BY <1>0 DEF Shapes, Clients, ClientsAhead, OpConnAssign, Op
  <2> QED BY <1>0, <2>1, <2>2, <2>3, NumbersKept
<1>7. OutputKept'
  BY <1>0 DEF Shapes, OutputKept, OpConnAssign, Op
<1> QED BY <1>1, <1>2, <1>3, <1>4, <1>5, <1>6, <1>7 DEF Inv

LEMMA OpShutdownInv ==
    ASSUME Inv, OpShutdown
    PROVE  Inv'
<1> USE Bounds
<1>0. Shapes /\ Told /\ AtWrite /\ ClientsAhead /\ AnsweredBehind /\ NumbersLeft /\ OutputKept
  BY DEF Inv
<1>1. Shapes'
  BY <1>0 DEF Shapes, OpShutdown, Op
<1>2. Told'
  BY <1>0 DEF Shapes, Told, Reported, OpShutdown, Op
<1>3. AtWrite'
  BY <1>0 DEF AtWrite, OpShutdown, Op
<1>4. ClientsAhead'
  BY <1>0 DEF ClientsAhead, Clients, OpShutdown, Op
<1>5. AnsweredBehind'
  BY <1>0 DEF Shapes, AnsweredBehind, OpShutdown, Op
<1>6. NumbersLeft'
  <2>1. Reported' = Reported
    BY <1>0 DEF Shapes, Told, Reported, OpShutdown, Op
  <2>2. Unanswered' = Unanswered
    BY <1>0 DEF Unanswered, OpShutdown, Op
  <2>3. Clients' = Clients
    BY <1>0 DEF Shapes, Clients, ClientsAhead, OpShutdown, Op
  <2> QED BY <1>0, <2>1, <2>2, <2>3, NumbersKept
<1>7. OutputKept'
  BY <1>0 DEF Shapes, OutputKept, OpShutdown, Op
<1> QED BY <1>1, <1>2, <1>3, <1>4, <1>5, <1>6, <1>7 DEF Inv

LEMMA TaskPauseInv ==
    ASSUME Inv, TaskPause
    PROVE  Inv'
<1> USE Bounds
<1>0. Shapes /\ Told /\ AtWrite /\ ClientsAhead /\ AnsweredBehind /\ NumbersLeft /\ OutputKept
  BY DEF Inv
<1>1. Shapes'
  BY <1>0 DEF Shapes, TaskPause
<1>2. Told'
  BY <1>0 DEF Shapes, Told, Reported, TaskPause
<1>3. AtWrite'
  BY <1>0 DEF AtWrite, TaskPause
<1>4. ClientsAhead'
  BY <1>0 DEF ClientsAhead, Clients, TaskPause
<1>5. AnsweredBehind'
  BY <1>0 DEF Shapes, AnsweredBehind, TaskPause
<1>6. NumbersLeft'
  <2>1. Reported' = Reported
    BY <1>0 DEF Shapes, Told, Reported, TaskPause
  <2>2. Unanswered' = Unanswered
    BY <1>0 DEF Unanswered, TaskPause
  <2>3. Clients' = Clients
    BY <1>0 DEF Shapes, Clients, ClientsAhead, TaskPause
  <2> QED BY <1>0, <2>1, <2>2, <2>3, NumbersKept
<1>7. OutputKept'
  BY <1>0 DEF Shapes, OutputKept, TaskPause
<1> QED BY <1>1, <1>2, <1>3, <1>4, <1>5, <1>6, <1>7 DEF Inv

LEMMA TaskEndsInv ==
    ASSUME Inv, TaskEnds
    PROVE  Inv'
<1> USE Bounds
<1>0. Shapes /\ Told /\ AtWrite /\ ClientsAhead /\ AnsweredBehind /\ NumbersLeft /\ OutputKept
  BY DEF Inv
<1>1. Shapes'
  BY <1>0 DEF Shapes, TaskEnds
<1>2. Told'
  BY <1>0 DEF Shapes, Told, Reported, TaskEnds
<1>3. AtWrite'
  BY <1>0 DEF AtWrite, TaskEnds
<1>4. ClientsAhead'
  BY <1>0 DEF ClientsAhead, Clients, TaskEnds
<1>5. AnsweredBehind'
  BY <1>0 DEF Shapes, AnsweredBehind, TaskEnds
<1>6. NumbersLeft'
  <2>1. Reported' = Reported
    BY <1>0 DEF Shapes, Told, Reported, TaskEnds
  <2>2. Unanswered' = Unanswered
    BY <1>0 DEF Unanswered, TaskEnds
  <2>3. Clients' = Clients
    BY <1>0 DEF Shapes, Clients, ClientsAhead, TaskEnds
  <2> QED BY <1>0, <2>1, <2>2, <2>3, NumbersKept
<1>7. OutputKept'
  BY <1>0 DEF Shapes, OutputKept, TaskEnds
<1> QED BY <1>1, <1>2, <1>3, <1>4, <1>5, <1>6, <1>7 DEF Inv

LEMMA NothingIs ==
    <<>> \in Texts
  BY DEF Texts

(* A partial write leaves the rest, in its order.                            *)
LEMMA LeftIs ==
    ASSUME NEW out \in Texts, NEW n \in 0 .. Len(out)
    PROVE  Left(out, n) \in Texts /\ Left(out, n) = SubSeq(out, n + 1, Len(out))
<1>0. out \in Seq(Int)
  BY DEF Texts
<1>1. Len(out) - n \in Nat /\ \A k \in 1 .. Len(out) - n : k + n \in 1 .. Len(out)
  BY <1>0
<1>2. Left(out, n) \in Seq(Int) /\ Len(Left(out, n)) = Len(out) - n
  <2>1. \A k \in 1 .. Len(out) - n : out[k + n] \in Int
    BY <1>0, <1>1
  <2> PICK m : m = Len(out) - n
    OBVIOUS
  <2>2. Left(out, n) = [k \in 1 .. m |-> out[k + n]]
    BY DEF Left
  <2> QED BY <1>1, <2>1, <2>2, IsASeq
<1>3. SubSeq(out, n + 1, Len(out)) \in Seq(Int) /\ Len(SubSeq(out, n + 1, Len(out))) = Len(out) - n
  BY <1>0
<1>4. \A k \in 1 .. Len(out) - n : Left(out, n)[k] = SubSeq(out, n + 1, Len(out))[k]
  BY <1>0, <1>1 DEF Left
<1> QED BY <1>2, <1>3, <1>4 DEF Texts

LEMMA ConnectionWriteInv ==
    ASSUME Inv, ConnectionWrite
    PROVE  Inv'
<1> DEFINE i == main.below
           Fields == {"fd", "dbref", "out", "readable", "writable", "dead"}
<1>0. Shapes /\ Told /\ AtWrite /\ ClientsAhead /\ AnsweredBehind /\ NumbersLeft /\ OutputKept
  BY DEF Inv
<1>1. i \in DOMAIN connections /\ DOMAIN connections[i] = Fields /\ connections[i].out \in Texts
  BY <1>0 DEF AtWrite, Shapes, ConnectionWrite
<1>2. /\ DOMAIN connections' = DOMAIN connections /\ main'.below = main.below /\ main'.at = "read"
      /\ DOMAIN main' = DOMAIN main
      /\ UNCHANGED <<told, servers, pendings, going, answers, ops, refused>>
  BY <1>0 DEF Shapes, ConnectionWrite
<1>3. /\ due' \in [Ids -> Texts]
      /\ \A j \in Ids : j # i => due'[j] = due[j]
      /\ \A j \in DOMAIN connections : j # i => connections'[j] = connections[j]
      /\ DOMAIN connections'[i] = Fields
      /\ connections'[i].dbref = connections[i].dbref
      /\ {connections'[i].readable, connections'[i].writable, connections'[i].dead} \subseteq BOOLEAN
      /\ connections'[i].out \in Texts
      /\ due'[i] = connections'[i].out
  <2>1. CASE ~connections[i].writable
    <3>1. connections' = connections /\ due' = due
      BY <2>1 DEF ConnectionWrite
    <3> QED BY <1>0, <1>1, <3>1 DEF Shapes, OutputKept
  <2>2. CASE connections[i].writable
    <3>1. PICK n \in 0 .. Len(connections[i].out) :
            LET left == IF n = 0 THEN <<>> ELSE Left(connections[i].out, n)
            IN  /\ connections' = [connections EXCEPT ![i].writable = FALSE, ![i].out = left,
                                                      ![i].dead = @ \/ n = 0]
                /\ due' = [due EXCEPT ![i] = IF n = 0 THEN <<>> ELSE SubSeq(@, n + 1, Len(@))]
      BY <2>2 DEF ConnectionWrite
    <3> DEFINE left == IF n = 0 THEN <<>> ELSE Left(connections[i].out, n)
    <3>2. left \in Texts /\ (n # 0 => left = SubSeq(connections[i].out, n + 1, Len(connections[i].out)))
      BY <1>1, LeftIs, NothingIs
    <3>3. due[i] = connections[i].out /\ i \in Ids
      BY <1>0, <1>1 DEF OutputKept, Shapes
    <3>4. due'[i] = left /\ due' \in [Ids -> Texts] /\ \A j \in Ids : j # i => due'[j] = due[j]
      <4>1. due' = [due EXCEPT ![i] = left]
        BY <3>1, <3>2, <3>3
      <4> HIDE DEF left
      <4> QED BY <1>0, <3>2, <3>3, <4>1 DEF Shapes
    <3> HIDE DEF left
    <3>5. connections' = [connections EXCEPT ![i].writable = FALSE, ![i].out = left,
                                             ![i].dead = @ \/ n = 0]
      BY <3>1 DEF left
    <3>6. /\ DOMAIN connections'[i] = Fields
          /\ connections'[i].dbref = connections[i].dbref
          /\ connections'[i].readable = connections[i].readable
          /\ connections'[i].writable = FALSE
          /\ connections'[i].out = left
      BY <1>1, <3>5
    <3>7. connections'[i].dead = (connections[i].dead \/ n = 0)
      BY <1>1, <3>5
    <3>8. connections'[i].dead \in BOOLEAN
      BY <3>7, Zenon
    <3>9. \A j \in DOMAIN connections : j # i => connections'[j] = connections[j]
      BY <3>5
    <3>10. connections[i].readable \in BOOLEAN
      BY <1>0, <1>1 DEF Shapes
    <3> QED BY <3>2, <3>4, <3>6, <3>8, <3>9, <3>10
  <2> QED BY <2>1, <2>2
<1>4. Shapes'
  BY <1>0, <1>1, <1>2, <1>3 DEF Shapes
<1>5. Told'
  BY <1>0, <1>2 DEF Shapes, Told, Reported, ConnectionWrite
<1>6. AtWrite' /\ ClientsAhead' /\ AnsweredBehind'
  BY <1>0, <1>2 DEF AtWrite, ClientsAhead, Clients, AnsweredBehind, Shapes, ConnectionWrite
<1>7. NumbersLeft'
  BY <1>0, <1>2, NumbersKept DEF Reported, Unanswered, Clients
<1>8. OutputKept'
  BY <1>0, <1>1, <1>2, <1>3 DEF OutputKept, Shapes
<1> QED BY <1>4, <1>5, <1>6, <1>7, <1>8 DEF Inv

-----------------------------------------------------------------------------
(* The walks over the servers and the connects find the greatest number that *)
(* is below the last one.                                                    *)
AcceptsNone ==
    /\ main.at = "accept" /\ ~Busy
    /\ \A s \in Clients : ~(s < main.below)
    /\ At("connects", MaxPendings)
    /\ UNCHANGED <<connections, servers, pendings, open, going, told, task, due, answers, ops, refused, struck>>

Accepts(s) ==
    /\ main.at = "accept" /\ ~Busy
    /\ s \in Clients /\ s < main.below /\ \A t \in Clients : t < main.below => t <= s
    /\ Added(Fresh, servers[s].client, servers[s].dbref)
    /\ servers' = [servers EXCEPT ![s].client = -1]
    /\ Starts("connect", Fresh)
    /\ GoOn(s)
    /\ UNCHANGED <<pendings, open, going, due, answers, ops, refused, struck>>

LEMMA AcceptClientSplits ==
    ASSUME Shapes, AcceptClient
    PROVE  AcceptsNone \/ \E s \in DOMAIN servers : Accepts(s)
<1> DEFINE is == {s \in DOMAIN servers : s < main.below /\ servers[s].client # -1}
           s == First(servers, LAMBDA server : server.client # -1)
<1>1. s = IF is = {} THEN 0 ELSE Max(is)
  BY DEF First
<1>2. is \in SUBSET (1 .. MaxServers)
  BY DEF Shapes, Numbers
<1>3. CASE is = {}
  <2>1. s = 0
    BY <1>1, <1>3
  <2>2. \A t \in Clients : ~(t < main.below)
    BY <1>3 DEF Clients
  <2> QED BY <2>1, <2>2 DEF AcceptClient, AcceptsNone
<1>4. CASE is # {}
  <2>1. s \in is /\ \A y \in is : s >= y
    BY <1>1, <1>2, <1>4, MaxOfBounded, Bounds, Zenon
  <2>2. s # 0
    BY <1>2, <2>1
  <2> HIDE DEF s
  <2>3. s \in Clients /\ s < main.below /\ \A t \in Clients : t < main.below => t <= s
    BY <1>2, <2>1 DEF Clients
  <2>4. Accepts(s)
    BY <2>2, <2>3 DEF AcceptClient, Accepts, NoClient, s
  <2> QED BY <2>3, <2>4 DEF Clients
<1> QED BY <1>3, <1>4

ReportsNone ==
    /\ main.at = "connects" /\ ~Busy
    /\ \A p \in DOMAIN pendings : p < main.below => ~pendings[p].finished
    /\ At("heartbeat", 0)
    /\ UNCHANGED <<connections, servers, pendings, open, going, told, task, due, answers, ops, refused, struck>>

ReportsConnect(p) ==
    /\ main.at = "connects" /\ ~Busy
    /\ pendings[p].finished /\ p < main.below
    /\ \A q \in DOMAIN pendings : q < main.below /\ pendings[q].finished => q <= p
    /\ GoOn(p)
    /\ answers' = [answers EXCEPT ![p] = @ + 1]
    /\ \/ /\ pendings[p].error = NOT_AN_IDENT
          /\ Added(Fresh, pendings[p].fd, pendings[p].dbref)
          /\ Starts("connect", Fresh)
          /\ UNCHANGED open
       \/ /\ pendings[p].error # NOT_AN_IDENT
          /\ open' = open \ {pendings[p].fd}
          /\ Starts("failed", None)
          /\ UNCHANGED <<connections, told>>
    /\ struck' = (struck \/ Strikes(p))
    /\ UNCHANGED <<servers, pendings, going, due, ops, refused>>

LEMMA PendingFinishedSplits ==
    ASSUME Shapes, PendingFinished
    PROVE  ReportsNone \/ \E p \in DOMAIN pendings : ReportsConnect(p)
<1> DEFINE is == {p \in DOMAIN pendings : p < main.below /\ pendings[p].finished}
           p == First(pendings, LAMBDA pending : pending.finished)
<1>1. p = IF is = {} THEN 0 ELSE Max(is)
  BY DEF First
<1>2. is \in SUBSET (1 .. MaxPendings)
  BY Bounds DEF Shapes
<1>3. CASE is = {}
  <2>1. p = 0
    BY <1>1, <1>3
  <2>2. \A q \in DOMAIN pendings : q < main.below => ~pendings[q].finished
    BY <1>3
  <2> QED BY <2>1, <2>2 DEF PendingFinished, ReportsNone
<1>4. CASE is # {}
  <2>1. p \in is /\ \A y \in is : p >= y
    BY <1>1, <1>2, <1>4, MaxOfBounded, Bounds, Zenon
  <2>2. p # 0
    BY <1>2, <2>1
  <2> HIDE DEF p
  <2>3. /\ p \in DOMAIN pendings /\ pendings[p].finished /\ p < main.below
        /\ \A q \in DOMAIN pendings : q < main.below /\ pendings[q].finished => q <= p
    BY <1>2, <2>1
  <2>4. ReportsConnect(p)
    BY <2>2, <2>3 DEF PendingFinished, ReportsConnect, Closed, p
  <2> QED BY <2>3, <2>4
<1> QED BY <1>3, <1>4

(* A connection is added at a number that no connection has had.             *)
LEMMA AddedAtFresh ==
    ASSUME Inv, Fresh \in Ids, NEW fd, NEW dbref \in Objects, Added(Fresh, fd, dbref)
    PROVE  /\ DOMAIN connections' = DOMAIN connections \cup {Fresh} /\ Fresh \notin DOMAIN connections
           /\ \A i \in DOMAIN connections : connections'[i] = connections[i]
           /\ connections'[Fresh] = Connection(fd, dbref)
           /\ told[Fresh] = "nothing" /\ told'[Fresh] = "connect"
           /\ told' \in [Ids -> {"nothing", "connect", "disconnect"}]
           /\ \A i \in Ids : i # Fresh => told'[i] = told[i]
           /\ Reported' = Reported \cup {Fresh}
           /\ (UNCHANGED due => OutputKept')
<1>0. Shapes /\ Told /\ OutputKept
  BY DEF Inv
<1>1. told[Fresh] = "nothing"
  <2>1. Fresh \in Int
    BY DEF Ids
  <2> QED BY <1>0, <2>1, FreshIsUnused DEF Told
<1>2. Fresh \notin DOMAIN connections
  BY <1>0, <1>1 DEF Told
<1>3. /\ connections' = Extend(connections, Fresh, Connection(fd, dbref))
      /\ told' = [told EXCEPT ![Fresh] = "connect"]
  BY DEF Added
<1>4. /\ DOMAIN connections' = DOMAIN connections \cup {Fresh}
      /\ \A i \in DOMAIN connections : connections'[i] = connections[i]
      /\ connections'[Fresh] = Connection(fd, dbref)
  BY <1>2, <1>3 DEF Extend
<1>5. /\ told'[Fresh] = "connect"
      /\ told' \in [Ids -> {"nothing", "connect", "disconnect"}]
      /\ \A i \in Ids : i # Fresh => told'[i] = told[i]
  BY <1>0, <1>3 DEF Shapes
<1>6. Reported' = Reported \cup {Fresh}
  <2>1. Reported' = {i \in Ids : told'[i] # "nothing"}
    BY DEF Reported
  <2> QED BY <1>5, <2>1 DEF Reported
<1>7. ASSUME UNCHANGED due PROVE OutputKept'
  <2>1. connections'[Fresh].out = <<>> /\ due[Fresh] = <<>>
    BY <1>0, <1>2, <1>4 DEF Connection, OutputKept
  <2> QED BY <1>0, <1>4, <1>7, <2>1 DEF OutputKept
<1> QED BY <1>1, <1>2, <1>4, <1>5, <1>6, <1>7

LEMMA AddedShapes ==
    ASSUME Inv, Fresh \in Ids, NEW fd, NEW dbref \in Objects, Added(Fresh, fd, dbref)
    PROVE  /\ DOMAIN connections' \subseteq Ids
           /\ \A i \in DOMAIN connections' :
                /\ connections'[i].out \in Texts /\ connections'[i].dbref \in Objects
                /\ {connections'[i].readable, connections'[i].writable, connections'[i].dead} \subseteq BOOLEAN
                /\ DOMAIN connections'[i] = {"fd", "dbref", "out", "readable", "writable", "dead"}
           /\ \A i \in DOMAIN connections' : told'[i] = "connect"
<1>0. Shapes /\ Told
  BY DEF Inv
<1>1. /\ Connection(fd, dbref).out \in Texts /\ Connection(fd, dbref).dbref \in Objects
      /\ {Connection(fd, dbref).readable, Connection(fd, dbref).writable, Connection(fd, dbref).dead} \subseteq BOOLEAN
      /\ DOMAIN Connection(fd, dbref) = {"fd", "dbref", "out", "readable", "writable", "dead"}
  BY NothingIs DEF Connection
<1> HIDE DEF Connection
<1> QED BY <1>0, <1>1, AddedAtFresh DEF Shapes, Told

(* While a connection is to come up, there is a number left for it.          *)
LEMMA NumberThere ==
    ASSUME Inv, Clients # {} \/ Unanswered # {}
    PROVE  Fresh \in Ids
<1>1. Shapes /\ 1 \in Reported /\ NumbersLeft
  BY DEF Inv, Told
<1>2. Cardinality(Clients) # 0 \/ Cardinality(Unanswered) # 0
  BY <1>1, NumbersFinite, FS_EmptySet
<1>3. ComingUp \in Nat /\ ComingUp > 0
  BY <1>1, <1>2, NumbersFinite, ComingUpIs
<1>4. Fresh \in 2 .. MaxConnections + 1
  BY <1>1, FreshIsUnused
<1> QED BY <1>1, <1>3, <1>4, Bounds DEF NumbersLeft, Ids

LEMMA AcceptClientInv ==
    ASSUME Inv, AcceptClient
    PROVE  Inv'
<1>0. Shapes /\ Told /\ AtWrite /\ ClientsAhead /\ AnsweredBehind /\ NumbersLeft /\ OutputKept
  BY DEF Inv
<1>1. CASE AcceptsNone
  <2>1. Clients = {}
    BY <1>0, <1>1 DEF ClientsAhead, AcceptsNone
  <2>2. /\ UNCHANGED <<connections, servers, pendings, going, told, due, answers, ops, refused>>
        /\ main.at = "accept" /\ main'.at = "connects" /\ main'.below = MaxPendings + 1 /\ DOMAIN main' = {"at", "below"}
    BY <1>1 DEF AcceptsNone, At, Every
  <2>3. Clients' = {}
    BY <2>1, <2>2 DEF Clients
  <2>4. AnsweredBehind'
    BY <1>0, <2>2 DEF AnsweredBehind, Shapes
  <2>5. Shapes' /\ AtWrite' /\ ClientsAhead' /\ OutputKept'
    BY <1>0, <2>2, <2>3, Bounds DEF Shapes, AtWrite, ClientsAhead, OutputKept
  <2>6. Told'
    BY <1>0, <2>2 DEF Told, Reported
  <2>7. NumbersLeft'
    BY <1>0, <2>2, NumbersKept DEF Reported, Unanswered, Clients
  <2> QED BY <2>4, <2>5, <2>6, <2>7 DEF Inv
<1>2. CASE \E s \in DOMAIN servers : Accepts(s)
  <2>0. PICK s \in DOMAIN servers : Accepts(s)
    BY <1>2
  <2>1. /\ s \in Clients /\ s < main.below /\ main.at = "accept"
        /\ servers' = [servers EXCEPT ![s].client = -1]
        /\ Added(Fresh, servers[s].client, servers[s].dbref)
        /\ main' = [main EXCEPT !.below = s]
        /\ UNCHANGED <<pendings, going, due, answers, ops, refused>>
    BY <2>0 DEF Accepts, GoOn
  <2>2. Clients' = Clients \ {s}
    <3>1. Clients' = {t \in DOMAIN servers' : servers'[t].client # -1}
      BY DEF Clients
    <3> QED BY <1>0, <2>1, <3>1 DEF Clients, Shapes
  <2>3. ComingUp' = ComingUp - 1 /\ ComingUp \in Nat /\ ComingUp > 0
    <3>1. Unanswered' = Unanswered
      BY <2>1 DEF Unanswered
    <3> QED BY <1>0, <2>1, <2>2, <3>1, ClientsLess
  <2>4. Fresh \in Ids
    BY <2>1, NumberThere
  <2>5. servers[s].dbref \in Objects
    BY <1>0 DEF Shapes
  <2>6. Shapes'
    <3>1. /\ DOMAIN servers' = DOMAIN servers
          /\ \A t \in DOMAIN servers' : /\ DOMAIN servers'[t] = {"fd", "port", "dbref", "dead", "client"}
                                       /\ servers'[t].dbref \in Objects
      BY <1>0, <2>1 DEF Shapes
    <3>2. main'.below \in Int /\ DOMAIN main' = {"at", "below"}
      BY <1>0, <2>1, Bounds DEF Shapes, Numbers
    <3> QED BY <1>0, <2>1, <2>4, <2>5, <3>1, <3>2, AddedShapes, AddedAtFresh DEF Shapes
  <2>7. main'.at = "accept" /\ main'.below = s
    BY <1>0, <2>1 DEF Shapes
  <2>8. Told'
    <3>1. 1 \in Reported'
      BY <1>0, <2>1, <2>4, <2>5, AddedAtFresh DEF Told
    <3>2. going' # Nobody => going'.conn \in Ids /\ told'[going'.conn] = "disconnect"
      BY <1>0, <2>1, <2>4, <2>5, AddedAtFresh DEF Told
    <3> QED BY <1>0, <2>1, <2>4, <2>5, <2>7, <3>1, <3>2, AddedShapes DEF Told
  <2>9. ClientsAhead'
    BY <1>0, <2>1, <2>2, <2>7 DEF ClientsAhead
  <2>10. AtWrite' /\ AnsweredBehind'
    BY <1>0, <2>1, <2>7 DEF AtWrite, AnsweredBehind
  <2>11. NumbersLeft'
    BY <1>0, <2>1, <2>3, <2>4, <2>5, NumberTaken, AddedAtFresh DEF Told
  <2>12. OutputKept'
    BY <2>1, <2>4, <2>5, AddedAtFresh
  <2> QED BY <2>6, <2>8, <2>9, <2>10, <2>11, <2>12 DEF Inv
<1> QED BY <1>0, <1>1, <1>2, AcceptClientSplits

LEMMA ReportedOnce ==
    ASSUME Inv, NEW p \in DOMAIN pendings, ReportsConnect(p)
    PROVE  p \in Unanswered
<1>1. /\ main.at = "connects" /\ p < main.below /\ p \in Int /\ main.below \in Int
      /\ p \in DOMAIN answers /\ answers[p] \in {0, 1}
  BY Bounds DEF Inv, Shapes, AnsweredBehind, ReportsConnect
<1>2. answers[p] # 1
  BY <1>1 DEF Inv, AnsweredBehind
<1> QED BY <1>1, <1>2 DEF Unanswered

LEMMA PendingFinishedInv ==
    ASSUME Inv, PendingFinished
    PROVE  Inv'
<1>0. Shapes /\ Told /\ AtWrite /\ ClientsAhead /\ AnsweredBehind /\ NumbersLeft /\ OutputKept
  BY DEF Inv
<1>1. CASE ReportsNone
  <2>1. /\ UNCHANGED <<connections, servers, pendings, going, told, due, answers, ops, refused>>
        /\ main.at = "connects" /\ main'.at = "heartbeat" /\ main'.below = 1 /\ DOMAIN main' = {"at", "below"}
    BY <1>1 DEF ReportsNone, At, Every
  <2>2. Shapes' /\ AtWrite' /\ ClientsAhead' /\ AnsweredBehind' /\ OutputKept'
    BY <1>0, <2>1, Bounds DEF Shapes, AtWrite, ClientsAhead, Clients, AnsweredBehind, OutputKept
  <2>3. Told'
    BY <1>0, <2>1 DEF Told, Reported
  <2>4. NumbersLeft'
    BY <1>0, <2>1, NumbersKept DEF Reported, Unanswered, Clients
  <2> QED BY <2>2, <2>3, <2>4 DEF Inv
<1>2. CASE \E p \in DOMAIN pendings : ReportsConnect(p)
  <2>0. PICK p \in DOMAIN pendings : ReportsConnect(p)
    BY <1>2
  <2>1. /\ pendings[p].finished /\ p < main.below /\ main.at = "connects"
        /\ answers' = [answers EXCEPT ![p] = @ + 1]
        /\ main' = [main EXCEPT !.below = p]
        /\ UNCHANGED <<servers, pendings, going, due, ops, refused>>
    BY <2>0 DEF ReportsConnect, GoOn
  <2>2. main'.at = "connects" /\ main'.below = p /\ DOMAIN main' = {"at", "below"} /\ p \in Int /\ main.below \in Int
    BY <1>0, <2>1, Bounds DEF Shapes
  <2>3. p \in DOMAIN answers /\ answers[p] = 0
    BY <2>0, ReportedOnce DEF Unanswered
  <2>4. /\ answers'[p] = 1 /\ DOMAIN answers' = DOMAIN answers
        /\ \A q \in DOMAIN answers : q # p => answers'[q] = answers[q]
    BY <2>1, <2>3
  <2>5. Unanswered' = Unanswered \ {p} /\ p \in Unanswered /\ Clients' = Clients
    <3>1. Unanswered' = {q \in DOMAIN answers' : answers'[q] = 0}
      BY DEF Unanswered
    <3>2. Unanswered' = Unanswered \ {p}
      BY <2>4, <3>1 DEF Unanswered
    <3> QED BY <2>1, <2>3, <3>2 DEF Unanswered, Clients
  <2>6. ComingUp' = ComingUp - 1 /\ ComingUp \in Nat /\ ComingUp > 0
    BY <1>0, <2>5, UnansweredLess
  <2>7. Fresh \in Ids
    BY <2>5, NumberThere
  <2>8. ClientsAhead'
    BY <1>0, <2>1, <2>5 DEF ClientsAhead
  <2>9. AnsweredBehind'
    <3>1. \A q \in DOMAIN answers' : answers'[q] \in {0, 1}
      BY <1>0, <2>4 DEF AnsweredBehind
    <3>2. ASSUME NEW q \in DOMAIN pendings, answers'[q] = 1
          PROVE  pendings[q].finished /\ q >= p
      <4>1. CASE q = p
        BY <2>1, <2>2, <4>1
      <4>2. CASE q # p
        <5>1. q \in DOMAIN answers /\ answers[q] = 1 /\ q \in Int
          BY <1>0, <2>4, <3>2, <4>2, Bounds DEF Shapes
        <5>2. pendings[q].finished /\ q >= main.below
          BY <1>0, <2>1, <5>1 DEF AnsweredBehind
        <5> QED BY <2>1, <2>2, <5>1, <5>2
      <4> QED BY <4>1, <4>2
    <3> QED BY <2>1, <2>2, <3>1, <3>2 DEF AnsweredBehind
  <2>10. /\ DOMAIN pendings' \subseteq DOMAIN answers'
         /\ DOMAIN answers' = 1 .. Cardinality(DOMAIN answers')
         /\ Cardinality(DOMAIN answers') \in 0 .. MaxPendings
         /\ main'.below \in Int /\ ops' \in Int /\ refused' \subseteq DOMAIN answers'
    BY <1>0, <2>1, <2>2, <2>4 DEF Shapes
  <2>11. CASE UNCHANGED <<connections, told>>
    <3>1. Shapes' /\ AtWrite' /\ OutputKept'
      BY <1>0, <2>1, <2>2, <2>10, <2>11 DEF Shapes, AtWrite, OutputKept
    <3>2. Told'
      BY <1>0, <2>1, <2>2, <2>11 DEF Told, Reported
    <3>3. NumbersLeft'
      <4>1. Fresh' = Fresh
        BY <2>11 DEF Fresh
      <4>2. Fresh \in Int
        BY <2>7 DEF Ids
      <4> QED BY <1>0, <2>6, <4>1, <4>2, Bounds DEF NumbersLeft
    <3> QED BY <2>8, <2>9, <3>1, <3>2, <3>3 DEF Inv
  <2>12. CASE Added(Fresh, pendings[p].fd, pendings[p].dbref)
    <3>1. pendings[p].dbref \in Objects
      BY <1>0 DEF Shapes
    <3>2. Shapes'
      BY <1>0, <2>1, <2>2, <2>7, <2>10, <2>12, <3>1, AddedShapes, AddedAtFresh DEF Shapes
    <3>3. 1 \in Reported'
      BY <1>0, <2>7, <2>12, <3>1, AddedAtFresh DEF Told
    <3>4. going' # Nobody => going'.conn \in Ids /\ told'[going'.conn] = "disconnect"
      BY <1>0, <2>1, <2>7, <2>12, <3>1, AddedAtFresh DEF Told
    <3>5. Told'
      BY <1>0, <2>1, <2>2, <2>7, <2>12, <3>1, <3>3, <3>4, AddedShapes DEF Told
    <3>6. NumbersLeft'
      BY <1>0, <2>6, <2>7, <2>12, <3>1, NumberTaken, AddedAtFresh DEF Told
    <3>7. AtWrite' /\ OutputKept'
      BY <2>1, <2>2, <2>7, <2>12, <3>1, AddedAtFresh DEF AtWrite
    <3> QED BY <2>8, <2>9, <3>2, <3>5, <3>6, <3>7 DEF Inv
  <2> QED BY <2>0, <2>11, <2>12 DEF ReportsConnect
<1> QED BY <1>0, <1>1, <1>2, PendingFinishedSplits

LEMMA SelectInv ==
    ASSUME Inv, Select
    PROVE  Inv'
<1> DEFINE Fields == {"fd", "dbref", "out", "readable", "writable", "dead"}
<1>0. Shapes /\ Told /\ AtWrite /\ ClientsAhead /\ AnsweredBehind /\ NumbersLeft /\ OutputKept
  BY DEF Inv
<1>1. /\ main.at = "select" /\ main'.at = "read" /\ main'.below \in Int /\ DOMAIN main' = {"at", "below"}
      /\ UNCHANGED <<going, told, due, answers, ops, refused>>
  <2>1. main.at = "select" /\ At("read", MaxConnections) /\ UNCHANGED <<going, told, due, answers, ops, refused>>
    BY Zenon DEF Select
  <2> QED BY <2>1, Bounds DEF At, Every
<1>2. Clients = {} /\ \A p \in DOMAIN pendings : answers[p] # 1
  <2>1. Clients = {}
    BY <1>0, <1>1 DEF ClientsAhead
  <2>2. \A p \in DOMAIN pendings : answers[p] # 1
    BY <1>0, <1>1 DEF AnsweredBehind
  <2> QED BY <2>1, <2>2
<1>3. PICK r \in SUBSET (Reading \ Silent), w \in SUBSET Writing, error \in {NOT_AN_IDENT, "refused"} :
        connections' = Marked(r, w) /\ pendings' = Connected(w, error)
  BY Zenon DEF Select
<1>4. \/ UNCHANGED servers
      \/ /\ MayAdd
         /\ \E s \in DOMAIN servers : servers' = [servers EXCEPT ![s].client = FreeFd]
  BY DEF Select
<1>5. ASSUME NEW i \in DOMAIN connections
      PROVE  /\ connections'[i].out = connections[i].out /\ connections'[i].dbref = connections[i].dbref
             /\ {connections'[i].readable, connections'[i].writable, connections'[i].dead} \subseteq BOOLEAN
             /\ DOMAIN connections'[i] = Fields
  <2>1. connections'[i] = [connections[i] EXCEPT !.readable = @ \/ connections[i].fd \in r,
                                                 !.writable = @ \/ connections[i].fd \in w]
    BY <1>3 DEF Marked
  <2>2. DOMAIN connections[i] = Fields
    BY <1>0 DEF Shapes
  <2>3. /\ connections'[i].readable = (connections[i].readable \/ connections[i].fd \in r)
        /\ connections'[i].writable = (connections[i].writable \/ connections[i].fd \in w)
    BY <2>1, <2>2
  <2>4. connections'[i].readable \in BOOLEAN /\ connections'[i].writable \in BOOLEAN
    BY <2>3, Zenon
  <2>5. /\ connections'[i].out = connections[i].out /\ connections'[i].dbref = connections[i].dbref
        /\ connections'[i].dead = connections[i].dead /\ DOMAIN connections'[i] = Fields
    BY <2>1, <2>2
  <2> QED BY <1>0, <2>4, <2>5 DEF Shapes
<1>6. ASSUME NEW p \in DOMAIN pendings
      PROVE  /\ DOMAIN pendings'[p] = {"fd", "dbref", "finished", "error"}
             /\ pendings'[p].finished \in BOOLEAN /\ pendings'[p].dbref \in Objects
  <2>1. DOMAIN pendings[p] = {"fd", "dbref", "finished", "error"} /\ pendings[p].dbref \in Objects
    BY <1>0 DEF Shapes
  <2>2. CASE pendings[p].fd \in w
    <3>1. pendings'[p] = [pendings[p] EXCEPT !.error = error, !.finished = TRUE]
      BY <1>3, <2>2 DEF Connected
    <3> QED BY <2>1, <3>1
  <2>3. CASE pendings[p].fd \notin w
    <3>1. pendings'[p] = [pendings[p] EXCEPT !.finished = @ \/ pendings[p].error # NOT_AN_IDENT]
      BY <1>3, <2>3 DEF Connected, AlreadyFailed
    <3>2. pendings'[p].finished = (pendings[p].finished \/ pendings[p].error # NOT_AN_IDENT)
      BY <2>1, <3>1
    <3>3. pendings'[p].finished \in BOOLEAN
      BY <3>2, Zenon
    <3> QED BY <2>1, <3>1, <3>3
  <2> QED BY <2>2, <2>3
<1>7. DOMAIN connections' = DOMAIN connections /\ DOMAIN pendings' = DOMAIN pendings
  BY <1>3 DEF Marked, Connected
<1>8. /\ DOMAIN servers' = DOMAIN servers
      /\ \A s \in DOMAIN servers : /\ DOMAIN servers'[s] = {"fd", "port", "dbref", "dead", "client"}
                                   /\ servers'[s].dbref \in Objects
  BY <1>0, <1>4 DEF Shapes
<1>9. Shapes'
  BY <1>0, <1>1, <1>5, <1>6, <1>7, <1>8 DEF Shapes
<1>10. Told'
  BY <1>0, <1>1, <1>7 DEF Told, Reported
<1>11. AtWrite' /\ AnsweredBehind'
  BY <1>0, <1>1, <1>2, <1>7 DEF AtWrite, AnsweredBehind
<1>12. OutputKept'
  BY <1>0, <1>1, <1>5, <1>7 DEF OutputKept
<1>13. Unanswered' = Unanswered /\ Fresh' = Fresh /\ Reported' = Reported
  BY <1>1 DEF Unanswered, Fresh, Reported
<1>14. CASE UNCHANGED servers
  <2>1. Clients' = Clients
    BY <1>14 DEF Clients
  <2>2. ClientsAhead'
    BY <1>2, <2>1 DEF ClientsAhead
  <2>3. NumbersLeft'
    BY <1>0, <1>13, <2>1, NumbersKept
  <2> QED BY <1>9, <1>10, <1>11, <1>12, <2>2, <2>3 DEF Inv
<1>15. CASE MayAdd /\ \E s \in DOMAIN servers : servers' = [servers EXCEPT ![s].client = FreeFd]
  <2>1. PICK s \in DOMAIN servers : servers' = [servers EXCEPT ![s].client = FreeFd]
    BY <1>15
  <2>2. Clients' \subseteq {s}
    BY <1>0, <1>2, <2>1 DEF Clients, Shapes
  <2>3. ClientsAhead'
    BY <1>1, <2>2 DEF ClientsAhead
  <2>4. CASE Clients' = {}
    <3>1. NumbersLeft'
      BY <1>0, <1>2, <1>13, <2>4, NumbersKept
    <3> QED BY <1>9, <1>10, <1>11, <1>12, <2>3, <3>1 DEF Inv
  <2>5. CASE Clients' = {s}
    <3>1. ComingUp' = ComingUp + 1 /\ ComingUp \in Nat
      BY <1>0, <1>2, <1>13, <2>5, ClientsMore
    <3>2. Fresh \in Int
      BY <1>0, FreshIsUnused DEF Told
    <3>3. NumbersLeft'
      BY <1>13, <1>15, <3>1, <3>2, Bounds DEF MayAdd, NumbersLeft, Ids
    <3> QED BY <1>9, <1>10, <1>11, <1>12, <2>3, <3>3 DEF Inv
  <2> QED BY <2>2, <2>4, <2>5
<1> QED BY <1>4, <1>14, <1>15

LEMMA NewServerIsNew ==
    ASSUME Shapes
    PROVE  NewServer \notin DOMAIN servers
<1>1. DOMAIN servers \in SUBSET (1 .. MaxServers)
  BY DEF Shapes, Numbers
<1>2. CASE DOMAIN servers = {}
  BY <1>2
<1>3. CASE DOMAIN servers # {}
  <2>1. NewServer = Max(DOMAIN servers) + 1
    BY <1>3 DEF NewServer
  <2>2. Max(DOMAIN servers) \in DOMAIN servers /\ \A y \in DOMAIN servers : Max(DOMAIN servers) >= y
    BY <1>1, <1>3, MaxOfBounded, Bounds, Zenon
  <2> QED BY <1>1, <2>1, <2>2
<1> QED BY <1>2, <1>3

LEMMA OpBindInv ==
    ASSUME Inv, OpBind
    PROVE  Inv'
<1>0. Shapes /\ Told /\ AtWrite /\ ClientsAhead /\ AnsweredBehind /\ NumbersLeft /\ OutputKept
  BY DEF Inv
<1>1. ops' = ops - 1 /\ UNCHANGED <<connections, pendings, main, going, told, due, answers, refused>>
  BY DEF OpBind, Op
<1>2. PICK port \in Ports, d \in Objects :
        \/ servers' = [s \in DOMAIN servers |-> IF s \in Bound(port)
                         THEN [servers[s] EXCEPT !.dbref = d, !.dead = FALSE] ELSE servers[s]]
        \/ /\ NewServer \in Numbers(MaxServers)
           /\ servers' = Extend(servers, NewServer, Server(FreeFd, port, d))
  BY DEF OpBind
<1>3. /\ DOMAIN servers' \subseteq Numbers(MaxServers)
      /\ \A s \in DOMAIN servers' : /\ DOMAIN servers'[s] = {"fd", "port", "dbref", "dead", "client"}
                                    /\ servers'[s].dbref \in Objects
      /\ Clients' = Clients
  <2>0. Clients' = {s \in DOMAIN servers' : servers'[s].client # -1}
    BY DEF Clients
  <2>1. CASE servers' = [s \in DOMAIN servers |-> IF s \in Bound(port)
                           THEN [servers[s] EXCEPT !.dbref = d, !.dead = FALSE] ELSE servers[s]]
    <3>1. DOMAIN servers' = DOMAIN servers
      BY <2>1
    <3>2. ASSUME NEW s \in DOMAIN servers
          PROVE  /\ DOMAIN servers'[s] = {"fd", "port", "dbref", "dead", "client"}
                 /\ servers'[s].dbref \in Objects
                 /\ servers'[s].client = servers[s].client
      BY <1>0, <2>1 DEF Shapes
    <3> QED BY <1>0, <2>0, <3>1, <3>2 DEF Shapes, Clients
  <2>2. CASE /\ NewServer \in Numbers(MaxServers)
             /\ servers' = Extend(servers, NewServer, Server(FreeFd, port, d))
    <3>1. NewServer \notin DOMAIN servers
      BY <1>0, NewServerIsNew
    <3>2. /\ DOMAIN servers' = DOMAIN servers \cup {NewServer}
          /\ \A s \in DOMAIN servers : servers'[s] = servers[s]
          /\ servers'[NewServer] = Server(FreeFd, port, d)
      BY <2>2, <3>1 DEF Extend
    <3>3. /\ DOMAIN Server(FreeFd, port, d) = {"fd", "port", "dbref", "dead", "client"}
          /\ Server(FreeFd, port, d).dbref \in Objects /\ Server(FreeFd, port, d).client = -1
      BY DEF Server
    <3>4. Clients' = Clients
      BY <2>0, <3>1, <3>2, <3>3 DEF Clients
    <3> QED BY <1>0, <2>2, <3>2, <3>3, <3>4 DEF Shapes
  <2> QED BY <1>2, <2>1, <2>2
<1>4. Shapes'
  BY <1>0, <1>1, <1>3 DEF Shapes
<1>5. Told' /\ AtWrite' /\ AnsweredBehind' /\ OutputKept'
  BY <1>0, <1>1 DEF Told, Reported, AtWrite, AnsweredBehind, OutputKept
<1>6. ClientsAhead'
  BY <1>0, <1>1, <1>3 DEF ClientsAhead
<1>7. NumbersLeft'
  BY <1>0, <1>1, <1>3, NumbersKept DEF Reported, Unanswered
<1> QED BY <1>4, <1>5, <1>6, <1>7 DEF Inv

LEMMA OpConnectInv ==
    ASSUME Inv, OpConnect
    PROVE  Inv'
<1> DEFINE n == Cardinality(DOMAIN answers)
<1>0. Shapes /\ Told /\ AtWrite /\ ClientsAhead /\ AnsweredBehind /\ NumbersLeft /\ OutputKept
  BY DEF Inv
<1>1. UNCHANGED <<connections, servers, main, going, told, due>>
  BY DEF OpConnect
<1>2. PICK pending :
        /\ DOMAIN pending = {"fd", "dbref", "finished", "error"}
        /\ pending.dbref \in Objects /\ pending.finished = FALSE
        /\ pendings' = Extend(pendings, n + 1, pending)
  BY DEF OpConnect, NewPending
<1>13. refused' \subseteq refused \cup {n + 1}
  BY DEF OpConnect, NewPending
<1>3. answers' = Extend(answers, n + 1, 0) /\ n + 1 <= MaxPendings /\ MayAdd
  BY DEF OpConnect, NewPending, Numbers
<1>4. n \in Nat /\ DOMAIN answers = 1 .. n
  BY <1>0, Bounds DEF Shapes
<1> HIDE DEF n
<1>5. /\ DOMAIN answers' = 1 .. n + 1 /\ answers'[n + 1] = 0
      /\ \A p \in DOMAIN answers : answers'[p] = answers[p]
  BY <1>3, <1>4 DEF Extend
<1>6. n + 1 \notin DOMAIN pendings /\ n + 1 \notin DOMAIN answers
  BY <1>0, <1>4 DEF Shapes
<1>7. /\ DOMAIN pendings' = DOMAIN pendings \cup {n + 1}
      /\ pendings'[n + 1] = pending
      /\ \A p \in DOMAIN pendings : pendings'[p] = pendings[p]
  BY <1>2, <1>6 DEF Extend
<1>8. Cardinality(DOMAIN answers') = n + 1
  BY <1>4, <1>5, FS_Interval
<1>9. Shapes'
  <2>1. \A p \in DOMAIN pendings' :
          /\ DOMAIN pendings'[p] = {"fd", "dbref", "finished", "error"}
          /\ pendings'[p].finished \in BOOLEAN /\ pendings'[p].dbref \in Objects
    BY <1>0, <1>2, <1>7 DEF Shapes
  <2>2. DOMAIN pendings' \subseteq DOMAIN answers'
    BY <1>0, <1>4, <1>5, <1>7 DEF Shapes
  <2>3. Cardinality(DOMAIN answers') \in 0 .. MaxPendings /\ DOMAIN answers' = 1 .. Cardinality(DOMAIN answers')
    BY <1>3, <1>4, <1>5, <1>8, Bounds
  <2>4. ops' \in Int /\ refused' \subseteq DOMAIN answers'
    <3>1. ops' = ops - 1
      BY DEF OpConnect, Op
    <3> QED BY <1>0, <1>4, <1>5, <1>13, <3>1 DEF Shapes
  <2> QED BY <1>0, <1>1, <2>1, <2>2, <2>3, <2>4 DEF Shapes
<1>10. Told' /\ AtWrite' /\ OutputKept' /\ ClientsAhead'
  BY <1>0, <1>1 DEF Told, Reported, AtWrite, OutputKept, ClientsAhead, Clients
<1>11. AnsweredBehind'
  BY <1>0, <1>1, <1>4, <1>5, <1>7 DEF AnsweredBehind, Shapes
<1>12. NumbersLeft'
  <2>1. Unanswered' = Unanswered \cup {n + 1} /\ n + 1 \notin Unanswered
    <3>1. Unanswered' = {p \in DOMAIN answers' : answers'[p] = 0}
      BY DEF Unanswered
    <3> QED BY <1>4, <1>5, <1>6, <3>1 DEF Unanswered
  <2>2. ComingUp' = ComingUp + 1 /\ ComingUp \in Nat
    BY <1>0, <1>1, <2>1, UnansweredMore DEF Clients
  <2>3. Fresh' = Fresh /\ Fresh \in Int
    BY <1>0, <1>1, FreshIsUnused DEF Told, Fresh
  <2> QED BY <1>3, <2>2, <2>3, Bounds DEF MayAdd, NumbersLeft, Ids
<1> QED BY <1>9, <1>10, <1>11, <1>12 DEF Inv

-----------------------------------------------------------------------------
LEMMA InitInv ==
    Init => Inv
<1> SUFFICES ASSUME Init PROVE Inv
  OBVIOUS
<1>1. /\ connections = [i \in 1 .. 2 |-> Connection(i - 1, SYSTEM_DBREF)]
      /\ DOMAIN servers = {} /\ DOMAIN pendings = {} /\ DOMAIN answers = {}
      /\ main = [at |-> "flush", below |-> MaxConnections + 1] /\ going = Nobody
      /\ told = [i \in Ids |-> IF i \in 1 .. 2 THEN "connect" ELSE "nothing"]
      /\ due = [i \in Ids |-> <<>>] /\ refused = {} /\ ops = MaxOps
  BY DEF Init, Every
<1>2. SYSTEM_DBREF \in Objects
  BY ConnectionsAssumption
<1>3. Cardinality(DOMAIN answers) = 0
  BY <1>1, FS_EmptySet
<1>4. Shapes
  <2>1. /\ DOMAIN connections \subseteq Ids
        /\ \A i \in DOMAIN connections :
              /\ connections[i].out \in Texts /\ connections[i].dbref \in Objects
              /\ {connections[i].readable, connections[i].writable, connections[i].dead} \subseteq BOOLEAN
              /\ DOMAIN connections[i] = {"fd", "dbref", "out", "readable", "writable", "dead"}
    <3>1. \A i \in 1 .. 2 : connections[i] = Connection(i - 1, SYSTEM_DBREF)
      BY <1>1
    <3>2. DOMAIN connections = 1 .. 2
      BY <1>1
    <3>3. ASSUME NEW i \in 1 .. 2
          PROVE  /\ connections[i].out = <<>> /\ connections[i].dbref = SYSTEM_DBREF
                 /\ connections[i].readable = FALSE /\ connections[i].writable = FALSE
                 /\ connections[i].dead = FALSE
                 /\ DOMAIN connections[i] = {"fd", "dbref", "out", "readable", "writable", "dead"}
      BY <3>1 DEF Connection
    <3>4. 1 .. 2 \subseteq Ids
      BY Bounds DEF Ids
    <3>5. <<>> \in Texts
      BY NothingIs
    <3>6. DOMAIN connections \subseteq Ids
      BY <3>2, <3>4, Zenon
    <3>7. ASSUME NEW i \in DOMAIN connections
          PROVE  /\ connections[i].out \in Texts /\ connections[i].dbref \in Objects
                 /\ {connections[i].readable, connections[i].writable, connections[i].dead} \subseteq BOOLEAN
                 /\ DOMAIN connections[i] = {"fd", "dbref", "out", "readable", "writable", "dead"}
      <4>1. i \in 1 .. 2
        BY <3>2
      <4> QED BY <1>2, <3>3, <3>5, <4>1
    <3> QED BY <3>6, <3>7
  <2>2. told \in [Ids -> {"nothing", "connect", "disconnect"}]
    <3>1. \A i \in Ids : (IF i \in 1 .. 2 THEN "connect" ELSE "nothing") \in {"nothing", "connect", "disconnect"}
      OBVIOUS
    <3> QED BY <1>1, <3>1, Zenon
  <2>3. due \in [Ids -> Texts] /\ main.below \in Int /\ DOMAIN main = {"at", "below"}
    <3>1. due \in [Ids -> Texts]
      BY <1>1, NothingIs
    <3>2. main.below = MaxConnections + 1 /\ DOMAIN main = {"at", "below"}
      BY <1>1
    <3> QED BY <3>1, <3>2, Bounds
  <2>4. DOMAIN answers = 1 .. Cardinality(DOMAIN answers) /\ Cardinality(DOMAIN answers) \in 0 .. MaxPendings
    BY <1>1, <1>3, Bounds
  <2>5. ops \in Int /\ refused \subseteq DOMAIN answers
    BY <1>1, Bounds, ConnectionsAssumption
  <2> QED BY <1>1, <2>1, <2>2, <2>3, <2>4, <2>5 DEF Shapes
<1>5. Told
  BY <1>1, Bounds DEF Told, Reported, Ids
<1>6. Clients = {} /\ Unanswered = {}
  BY <1>1 DEF Clients, Unanswered
<1>7. AtWrite /\ ClientsAhead /\ AnsweredBehind
  BY <1>1, <1>6 DEF AtWrite, ClientsAhead, AnsweredBehind
<1>8. NumbersLeft
  <2>1. ComingUp = 0
    BY <1>6, FS_EmptySet, ComingUpIs
  <2>2. \A i \in Reported : i <= 2
    BY <1>1 DEF Reported, Ids
  <2>3. 1 \in Reported
    BY <1>5 DEF Told
  <2>4. Reported \in SUBSET (1 .. MaxConnections)
    BY DEF Reported, Ids
  <2>5. Max(Reported) \in Reported
    <3>1. Reported # {}
      BY <2>3
    <3> QED BY <2>4, <3>1, MaxOfBounded, Bounds, Zenon
  <2>6. Max(Reported) \in Int /\ Max(Reported) <= 2
    <3>1. Max(Reported) <= 2
      BY <2>2, <2>5, Zenon
    <3>2. Max(Reported) \in 1 .. MaxConnections
      BY <2>4, <2>5, Zenon
    <3> DEFINE m == Max(Reported)
    <3>3. m \in 1 .. MaxConnections => m \in Int
      OBVIOUS
    <3> QED BY <3>1, <3>2, <3>3, Zenon
  <2> QED BY <2>1, <2>6, FreshIs, Bounds DEF NumbersLeft
<1>9. OutputKept
  BY <1>1, Bounds DEF OutputKept, Connection, Ids
<1> QED BY <1>4, <1>5, <1>7, <1>8, <1>9 DEF Inv

LEMMA NextInv ==
    Inv /\ [Next]_vars => Inv'
<1> SUFFICES ASSUME Inv, [Next]_vars PROVE Inv'
  OBVIOUS
<1>1. CASE Flush
  BY <1>1, FlushConnectionInv, ConnectionDiscardInv, FlushServersAndPendingsInv, FlushOutputInv
     DEF Flush
<1>2. CASE HandleIoEvents
  BY <1>2, PanicInv, SelectTimeoutInv, SelectInv, ConnectionReadInv, ConnectionWriteInv, ConnectionsHandledInv,
     AcceptClientInv, PendingFinishedInv DEF HandleIoEvents
<1>3. CASE Heartbeat \/ RunPausedTasks
  BY <1>3, HeartbeatInv, RunPausedTasksInv
<1>4. CASE TaskStep \/ TaskEnds
  BY <1>4, OpEchoInv, OpDisconnectInv, OpBindInv, OpUnbindInv, OpConnectInv, OpConnAssignInv,
     OpShutdownInv, TaskPauseInv, TaskEndsInv DEF TaskStep
<1>5. CASE UNCHANGED vars
  <2>1. UNCHANGED <<connections, servers, pendings, main, going, told, due, answers, ops, refused>>
    BY <1>5 DEF vars
  <2>2. Shapes' /\ Told' /\ AtWrite' /\ ClientsAhead' /\ AnsweredBehind' /\ OutputKept'
    BY <2>1 DEF Inv, Shapes, Told, Reported, AtWrite, ClientsAhead, Clients, AnsweredBehind, OutputKept
  <2>3. NumbersLeft'
    BY <2>1, NumbersKept DEF Inv, Reported, Unanswered, Clients
  <2> QED BY <2>2, <2>3 DEF Inv
<1> QED BY <1>1, <1>2, <1>3, <1>4, <1>5 DEF Next, MainStep

LEMMA AlwaysInv ==
    Spec => []Inv
  BY InitInv, NextInv, PTL DEF Spec

(* io.c keeps in a connection's buffer what it was told and has not written, *)
(* in the order it was told.                                                 *)
THEOREM OutputIsKept ==
    Spec => []OutputKept
<1>1. Inv => OutputKept
  BY DEF Inv
<1> QED BY <1>1, AlwaysInv, PTL

-----------------------------------------------------------------------------
(* The reports on a connection.                                              *)
InOrder ==
    Reports /\ task'.conn # None =>
        LET i == task'.conn
        IN  /\ told[i] # "disconnect"
            /\ (told[i] = "nothing") <=> (task'.name = "connect")
            /\ (told'[i] = "disconnect") <=> (task'.name = "disconnect")
            /\ task'.name = "parse" => ~connections[i].dead

LEMMA NextInOrder ==
    ASSUME Inv, [Next]_vars
    PROVE  InOrder
<1>0. Shapes /\ Told /\ AtWrite /\ AnsweredBehind /\ NumbersLeft /\ ClientsAhead
  BY DEF Inv
<1>1. CASE task' = task \/ main.at = "paused" \/ Busy \/ task' = NoTask
  BY <1>1 DEF InOrder, Reports, Busy
<1>2. CASE FlushConnection
  <2>1. PICK i \in DOMAIN connections : told' = [told EXCEPT ![i] = "disconnect"] /\ Starts("disconnect", i)
    BY <1>2 DEF FlushConnection, MayFlush
  <2> QED BY <1>0, <2>1 DEF Shapes, Told, InOrder, Starts
<1>3. CASE ConnectionRead
  <2>1. PICK i \in DOMAIN connections : (MayRead(i) /\ Starts("parse", i)) \/ UNCHANGED task
    BY <1>3 DEF ConnectionRead
  <2>2. told' = told
    BY <1>3 DEF ConnectionRead
  <2> QED BY <1>0, <1>1, <2>1, <2>2 DEF Told, InOrder, Starts, MayRead
<1>4. CASE ConnectionWrite
  <2>1. main.below \in DOMAIN connections
    BY <1>0, <1>4 DEF AtWrite, ConnectionWrite
  <2>2. Starts("transmit", main.below) \/ UNCHANGED task
    BY <1>4 DEF ConnectionWrite
  <2>3. told' = told
    BY <1>4 DEF ConnectionWrite
  <2> QED BY <1>0, <1>1, <2>1, <2>2, <2>3 DEF Told, InOrder, Starts
<1>5. CASE AcceptClient
  <2>1. CASE AcceptsNone
    BY <1>1, <2>1 DEF AcceptsNone
  <2>2. CASE \E s \in DOMAIN servers : Accepts(s)
    <3>1. PICK s \in DOMAIN servers : Accepts(s)
      BY <2>2
    <3>2. told[Fresh] = "nothing" /\ told'[Fresh] = "connect"
      <4>1. Fresh \in Ids /\ servers[s].dbref \in Objects
        BY <1>0, <3>1, NumberThere DEF Accepts, Shapes
      <4> QED BY <3>1, <4>1, AddedAtFresh DEF Accepts
    <3> QED BY <3>1, <3>2 DEF Accepts, Starts, InOrder
  <2> QED BY <1>0, <1>5, <2>1, <2>2, AcceptClientSplits
<1>6. CASE PendingFinished
  <2>1. CASE ReportsNone
    BY <1>1, <2>1 DEF ReportsNone
  <2>2. CASE \E p \in DOMAIN pendings : ReportsConnect(p)
    <3>1. PICK p \in DOMAIN pendings : ReportsConnect(p)
      BY <2>2
    <3>2. Fresh \in Ids /\ pendings[p].dbref \in Objects
      BY <1>0, <3>1, NumberThere, ReportedOnce DEF Shapes
    <3>3. CASE Starts("failed", None)
      BY <3>3 DEF Starts, InOrder
    <3>4. CASE Added(Fresh, pendings[p].fd, pendings[p].dbref) /\ Starts("connect", Fresh)
      <4>1. told[Fresh] = "nothing" /\ told'[Fresh] = "connect"
        BY <3>2, <3>4, AddedAtFresh
      <4> QED BY <3>4, <4>1 DEF Starts, InOrder
    <3> QED BY <3>1, <3>3, <3>4 DEF ReportsConnect
  <2> QED BY <1>0, <1>6, <2>1, <2>2, PendingFinishedSplits
<1>7. CASE Heartbeat
  BY <1>1, <1>7 DEF Heartbeat, Starts, InOrder
<1>8. CASE ConnectionDiscard \/ FlushServersAndPendings \/ FlushOutput \/ Panic \/ SelectTimeout \/ ConnectionsHandled
            \/ UNCHANGED vars
  BY <1>1, <1>8 DEF ConnectionDiscard, FlushServersAndPendings, FlushOutput, Panic, SelectTimeout, ConnectionsHandled, vars
<1>9. CASE Select
  <2>1. task' = task
    BY <1>9, Zenon DEF Select
  <2> QED BY <1>1, <2>1
<1>10. CASE RunPausedTasks \/ TaskStep \/ TaskEnds
  BY <1>1, <1>10 DEF RunPausedTasks, TaskStep, TaskEnds, TaskPause, OpEcho, OpDisconnect, OpBind, OpUnbind,
     OpConnect, OpConnAssign, OpShutdown, Op
<1> QED BY <1>2, <1>3, <1>4, <1>5, <1>6, <1>7, <1>8, <1>9, <1>10 DEF Next, MainStep, Flush, HandleIoEvents

(* A connection's reports begin with connect and end with disconnect, each   *)
(* of them once, and input is parsed only while it lives.                    *)
THEOREM ReportsAreInOrder ==
    Spec => ReportsInOrder
<1>1. Inv /\ [Next]_vars => InOrder
  BY NextInOrder
<1>2. Spec => [][InOrder]_vars
  BY <1>1, AlwaysInv, PTL DEF Spec
<1> QED BY <1>2 DEF ReportsInOrder, InOrder

-----------------------------------------------------------------------------
(* A connect that fails later than at once is finished by select(), and the  *)
(* walk over the connects comes to it before the next flush.                 *)
LEMMA InitUnanswered ==
    Init => UnansweredAhead
  BY DEF Init, UnansweredAhead

LEMMA NextUnanswered ==
    ASSUME Inv, UnansweredAhead, [Next]_vars
    PROVE  UnansweredAhead'
<1>0. Shapes /\ AnsweredBehind
  BY DEF Inv
<1>1. CASE UNCHANGED <<pendings, answers, refused>> /\ (main'.at \in {"read", "write", "accept"} \/ UNCHANGED main)
  BY <1>1 DEF UnansweredAhead
<1>2. CASE UNCHANGED <<pendings, answers, refused>> /\ main.at \notin {"read", "write", "accept", "connects"}
  BY <1>2 DEF UnansweredAhead
<1>3. CASE FlushServersAndPendings
  <2>1. /\ DOMAIN pendings' = DOMAIN pendings \ Flushed /\ answers' = answers /\ refused' = refused
        /\ \A p \in DOMAIN pendings' : pendings'[p] = pendings[p]
        /\ main.at = "flush"
    BY <1>3 DEF FlushServersAndPendings, MayFlush, Without
  <2>2. \A p \in DOMAIN pendings' : ~pendings'[p].finished
    BY <2>1 DEF Flushed
  <2>3. \A p \in DOMAIN pendings \ refused : answers[p] = 0 => ~pendings[p].finished
    BY <2>1 DEF UnansweredAhead
  <2> QED BY <2>1, <2>2, <2>3 DEF UnansweredAhead, Flushed
<1>4. CASE SelectTimeout \/ Panic
  <2>1. /\ DOMAIN pendings' = DOMAIN pendings /\ answers' = answers /\ refused' = refused
        /\ main.at = "select"
    BY <1>4 DEF SelectTimeout, Panic, AlreadyFailed
  <2>2. ASSUME NEW p \in DOMAIN pendings
        PROVE  /\ pendings'[p].error = pendings[p].error
               /\ p \notin refused => (pendings'[p].finished <=> pendings[p].finished)
    <3>1. pendings'[p] = [pendings[p] EXCEPT !.finished = @ \/ pendings[p].error # NOT_AN_IDENT]
      BY <1>4 DEF SelectTimeout, Panic, AlreadyFailed
    <3>2. DOMAIN pendings[p] = {"fd", "dbref", "finished", "error"} /\ pendings[p].finished \in BOOLEAN
      BY <1>0 DEF Shapes
    <3>3. pendings'[p].finished = (pendings[p].finished \/ pendings[p].error # NOT_AN_IDENT)
      BY <3>1, <3>2
    <3>4. pendings'[p].error = pendings[p].error
      BY <3>1, <3>2
    <3> QED BY <3>3, <3>4 DEF UnansweredAhead
  <2> QED BY <2>1, <2>2 DEF UnansweredAhead
<1>5. CASE Select
  <2>1. answers' = answers /\ refused' = refused /\ main.at = "select" /\ At("read", MaxConnections)
    BY <1>5, Zenon DEF Select
  <2>2. PICK w \in SUBSET Writing, error \in {NOT_AN_IDENT, "refused"} : pendings' = Connected(w, error)
    BY <1>5, Zenon DEF Select
  <2>3. ASSUME NEW p \in DOMAIN pendings \ refused, pendings'[p].error # NOT_AN_IDENT
        PROVE  pendings'[p].finished
    <3>1. DOMAIN pendings[p] = {"fd", "dbref", "finished", "error"}
      BY <1>0 DEF Shapes
    <3>2. CASE pendings[p].fd \in w
      <4>1. pendings'[p] = [pendings[p] EXCEPT !.error = error, !.finished = TRUE]
        BY <2>2, <3>2 DEF Connected
      <4> QED BY <3>1, <4>1
    <3>3. CASE pendings[p].fd \notin w
      <4>1. pendings'[p] = [pendings[p] EXCEPT !.finished = @ \/ pendings[p].error # NOT_AN_IDENT]
        BY <2>2, <3>3 DEF Connected, AlreadyFailed
      <4>2. pendings'[p].finished = (pendings[p].finished \/ pendings[p].error # NOT_AN_IDENT)
        BY <3>1, <4>1
      <4>3. pendings'[p].error = pendings[p].error
        BY <3>1, <4>1
      <4> QED BY <2>3, <4>2, <4>3
    <3> QED BY <3>2, <3>3
  <2>4. main'.at = "read" /\ DOMAIN pendings' = DOMAIN pendings
    BY <2>1, <2>2 DEF At, Connected
  <2> QED BY <2>1, <2>3, <2>4 DEF UnansweredAhead
<1>6. CASE AcceptClient
  <2>1. UNCHANGED <<pendings, answers, refused>>
    BY <1>6 DEF AcceptClient
  <2>2. CASE AcceptsNone
    <3>1. main'.at = "connects" /\ main'.below = MaxPendings + 1
      BY <2>2 DEF AcceptsNone, At, Every
    <3>2. \A p \in DOMAIN pendings : p < MaxPendings + 1
      BY <1>0, Bounds DEF Shapes
    <3> QED BY <2>1, <3>1, <3>2 DEF UnansweredAhead
  <2>3. CASE \E s \in DOMAIN servers : Accepts(s)
    <3>1. main'.at = "accept"
      BY <1>0, <2>3 DEF Accepts, GoOn, Shapes
    <3> QED BY <1>1, <2>1, <3>1
  <2> QED BY <1>0, <1>6, <2>2, <2>3, AcceptClientSplits
<1>7. CASE PendingFinished
  <2>1. CASE ReportsNone
    <3>1. UNCHANGED <<pendings, answers, refused>> /\ main.at = "connects"
      BY <2>1 DEF ReportsNone
    <3>2. \A p \in DOMAIN pendings \ refused : answers[p] = 0 => ~pendings[p].finished
      BY <2>1, <3>1 DEF ReportsNone, UnansweredAhead
    <3> QED BY <3>1, <3>2 DEF UnansweredAhead
  <2>2. CASE \E p \in DOMAIN pendings : ReportsConnect(p)
    <3>1. PICK p \in DOMAIN pendings : ReportsConnect(p)
      BY <2>2
    <3>2. /\ main.at = "connects" /\ pendings' = pendings /\ refused' = refused
          /\ answers' = [answers EXCEPT ![p] = @ + 1]
          /\ main' = [main EXCEPT !.below = p]
          /\ \A q \in DOMAIN pendings : q < main.below /\ pendings[q].finished => q <= p
      BY <3>1 DEF ReportsConnect, GoOn
    <3>3. p \in DOMAIN answers /\ answers[p] = 0
      BY <3>1, ReportedOnce DEF Unanswered
    <3>4. answers'[p] = 1 /\ DOMAIN answers' = DOMAIN answers /\ main'.at = "connects" /\ main'.below = p
      BY <1>0, <3>2, <3>3 DEF Shapes
    <3>5. ASSUME NEW q \in DOMAIN answers, answers'[q] = 0 PROVE q # p /\ answers[q] = 0
      BY <3>2, <3>4, <3>5
    <3>6. ASSUME NEW q \in DOMAIN pendings \ refused, pendings[q].finished, answers'[q] = 0 PROVE q < p
      <4>1. q \in DOMAIN answers /\ q \in Int /\ p \in Int
        BY <1>0, Bounds DEF Shapes
      <4>2. q # p /\ q < main.below
        BY <3>2, <3>5, <3>6, <4>1 DEF UnansweredAhead
      <4> QED BY <3>2, <3>6, <4>1, <4>2
    <3> QED BY <3>2, <3>4, <3>5, <3>6 DEF UnansweredAhead
  <2> QED BY <1>0, <1>7, <2>1, <2>2, PendingFinishedSplits
<1>8. CASE OpConnect
  <2> DEFINE n == NewPending
  <2>0. PICK d \in Objects, atOnce \in BOOLEAN :
          /\ pendings' = Extend(pendings, n, [fd |-> FreeFd, dbref |-> d, finished |-> FALSE,
                                              error |-> IF atOnce THEN "refused" ELSE NOT_AN_IDENT])
          /\ refused' = (IF atOnce THEN refused \cup {n} ELSE refused)
    BY <1>8 DEF OpConnect
  <2> DEFINE pending == [fd |-> FreeFd, dbref |-> d, finished |-> FALSE,
                         error |-> IF atOnce THEN "refused" ELSE NOT_AN_IDENT]
  <2>1. /\ pendings' = Extend(pendings, n, pending)
        /\ pending.finished = FALSE /\ (~atOnce => pending.error = NOT_AN_IDENT)
    BY <2>0
  <2> HIDE DEF pending
  <2>2. answers' = Extend(answers, n, 0) /\ UNCHANGED main
    BY <1>8 DEF OpConnect
  <2>3. n \notin DOMAIN answers /\ n \notin DOMAIN pendings
    BY <1>0, Bounds DEF Shapes, NewPending
  <2> HIDE DEF n
  <2>4. /\ DOMAIN pendings' = DOMAIN pendings \cup {n} /\ pendings'[n] = pending
        /\ \A p \in DOMAIN pendings : pendings'[p] = pendings[p]
    BY <2>1, <2>3 DEF Extend
  <2>5. /\ DOMAIN answers' = DOMAIN answers \cup {n}
        /\ \A p \in DOMAIN answers : answers'[p] = answers[p]
    BY <2>2, <2>3 DEF Extend
  <2>6. DOMAIN pendings \subseteq DOMAIN answers
    BY <1>0 DEF Shapes
  <2>7. refused \subseteq refused' /\ (n \notin refused' => ~atOnce)
    BY <2>0
  <2> QED BY <2>1, <2>2, <2>4, <2>5, <2>6, <2>7 DEF UnansweredAhead
<1>9. CASE FlushConnection \/ ConnectionDiscard \/ FlushOutput \/ Heartbeat \/ RunPausedTasks
  BY <1>2, <1>9 DEF FlushConnection, MayFlush, ConnectionDiscard, FlushOutput, Heartbeat, RunPausedTasks
<1>10. CASE ConnectionRead \/ ConnectionWrite \/ ConnectionsHandled
  <2>1. UNCHANGED <<pendings, answers, refused>>
    BY <1>10 DEF ConnectionRead, ConnectionWrite, ConnectionsHandled
  <2>2. main'.at \in {"read", "write", "accept"}
    <3>1. CASE ConnectionRead
      BY <3>1 DEF ConnectionRead
    <3>2. CASE ConnectionsHandled
      BY <3>2 DEF ConnectionsHandled, At
    <3>3. CASE ConnectionWrite
      <4>1. main' = [main EXCEPT !.at = "read"] /\ DOMAIN main = {"at", "below"}
        BY <1>0, <3>3 DEF Shapes, ConnectionWrite
      <4> QED BY <4>1
    <3> QED BY <1>10, <3>1, <3>2, <3>3
  <2> QED BY <1>1, <2>1, <2>2
<1>11. CASE OpEcho \/ OpDisconnect \/ OpBind \/ OpUnbind \/ OpConnAssign \/ OpShutdown \/ TaskPause \/ TaskEnds
            \/ UNCHANGED vars
  <2>1. UNCHANGED <<pendings, answers, refused, main>>
    BY <1>11 DEF OpEcho, OpDisconnect, OpBind, OpUnbind, OpConnAssign, OpShutdown, TaskPause, TaskEnds, vars
  <2> QED BY <1>1, <2>1
<1> QED BY <1>3, <1>4, <1>5, <1>6, <1>7, <1>8, <1>9, <1>10, <1>11 DEF Next, MainStep, Flush, HandleIoEvents, TaskStep

LEMMA AlwaysUnanswered ==
    Spec => [](Inv /\ UnansweredAhead)
<1>1. Inv /\ UnansweredAhead /\ [Next]_vars => Inv' /\ UnansweredAhead'
  BY NextInv, NextUnanswered
<1>2. Init => Inv /\ UnansweredAhead
  BY InitInv, InitUnanswered
<1> QED BY <1>1, <1>2, PTL DEF Spec

(* op_connect's connects are reported at most once, and all but those that   *)
(* failed at once are before their records are thrown away.                  *)
THEOREM ConnectsAreReportedOnce ==
    Spec => []ConnectsReportedOnce
<1>1. Inv /\ UnansweredAhead => ConnectsReportedOnce
  <2> SUFFICES ASSUME Inv, UnansweredAhead, NEW p \in DOMAIN answers
               PROVE  answers[p] <= 1 /\ (answers[p] = 0 => p \in DOMAIN pendings \cup refused)
    BY DEF ConnectsReportedOnce
  <2>1. answers[p] \in {0, 1}
    BY DEF Inv, AnsweredBehind
  <2>2. p \notin DOMAIN pendings \cup refused => answers[p] # 0
    BY DEF UnansweredAhead
  <2> QED BY <2>1, <2>2
<1> QED BY <1>1, AlwaysUnanswered, PTL

-----------------------------------------------------------------------------
(* Descriptors and their owners.                                             *)
OfConnections == {<<"connection", i, connections[i].fd>> : i \in DOMAIN connections}
OfServers == {<<"server", s, servers[s].fd>> : s \in DOMAIN servers}
OfClients == {<<"client", s, servers[s].client>> : s \in Clients}
OfPendings == {<<"pending", p, pendings[p].fd>> : p \in {q \in DOMAIN pendings \ refused : answers[q] = 0}}
OfGoing == IF going = Nobody THEN {} ELSE {<<"connection", going.conn, going.fd>>}

OwnedOnce(descriptors, owners) ==
    /\ descriptors = {o[3] : o \in owners}
    /\ \A o, p \in owners : o[3] = p[3] => o = p

LEMMA OwnersAre ==
    Owners = OfConnections \cup OfServers \cup OfClients \cup OfPendings \cup OfGoing
  BY DEF Owners, OfConnections, OfServers, OfClients, OfPendings, OfGoing, Clients

Owned == OwnedOnce(open, Owners)

LEMMA OwnerAdded ==
    ASSUME NEW descriptors, NEW owners, OwnedOnce(descriptors, owners),
           NEW o, o[3] \notin descriptors
    PROVE  OwnedOnce(descriptors \cup {o[3]}, owners \cup {o})
  BY DEF OwnedOnce

LEMMA OwnersRemoved ==
    ASSUME NEW descriptors, NEW owners, OwnedOnce(descriptors, owners), NEW gone \in SUBSET owners
    PROVE  OwnedOnce(descriptors \ {o[3] : o \in gone}, owners \ gone)
  BY DEF OwnedOnce

LEMMA OwnerReplaced ==
    ASSUME NEW descriptors, NEW owners, OwnedOnce(descriptors, owners),
           NEW o \in owners, NEW p, p[3] = o[3]
    PROVE  OwnedOnce(descriptors, (owners \ {o}) \cup {p})
  BY DEF OwnedOnce

(* There is a descriptor left: connections, the client that was accepted,    *)
(* servers and connects have different numbers.                              *)
Slot(o) == CASE o[1] = "connection" -> o[2]
             [] o[1] = "client" -> Fresh
             [] o[1] = "server" -> MaxConnections + o[2]
             [] o[1] = "pending" -> MaxConnections + MaxServers + o[2]

LEMMA SlotsDiffer ==
    ASSUME Inv, NEW o \in Owners, NEW p \in Owners, Slot(o) = Slot(p)
    PROVE  Slot(o) \in 1 .. MaxConnections + MaxServers + MaxPendings /\ o[3] = p[3]
<1>0. Shapes /\ Told /\ ClientsAhead
  BY DEF Inv
<1> DEFINE Owner(q) ==
      \/ q[1] = "connection" /\ q[2] \in Ids /\ told[q[2]] = "connect"
         /\ q[3] = connections[q[2]].fd
      \/ q[1] = "connection" /\ q[2] = going.conn /\ q[3] = going.fd /\ q[2] \in Ids
         /\ told[q[2]] = "disconnect"
      \/ q[1] = "client" /\ q[2] \in Clients /\ q[3] = servers[q[2]].client
      \/ q[1] = "server" /\ q[2] \in 1 .. MaxServers /\ q[3] = servers[q[2]].fd
      \/ q[1] = "pending" /\ q[2] \in 1 .. MaxPendings /\ q[3] = pendings[q[2]].fd
<1>1. ASSUME NEW q \in Owners PROVE Owner(q)
  <2>1. CASE q \in OfConnections
    BY <1>0, <2>1 DEF OfConnections, Shapes, Told
  <2>2. CASE q \in OfGoing
    BY <1>0, <2>2 DEF OfGoing, Told
  <2>3. CASE q \in OfClients
    BY <2>3 DEF OfClients
  <2>4. CASE q \in OfServers
    BY <1>0, <2>4 DEF OfServers, Shapes, Numbers
  <2>5. CASE q \in OfPendings
    BY <1>0, <2>5, Bounds DEF OfPendings, Shapes
  <2> QED BY <2>1, <2>2, <2>3, <2>4, <2>5, OwnersAre
<1>2. Clients # {} => Fresh \in Ids
  BY NumberThere
<1>3. \A i \in Ids : i = Fresh => told[i] = "nothing"
  <2>1. Fresh \in Int
    BY <1>0, FreshIsUnused DEF Told
  <2> QED BY <1>0, <2>1, FreshIsUnused DEF Told
<1> DEFINE Place(q) ==
      \/ q[1] = "connection" /\ Slot(q) = q[2] /\ q[2] \in 1 .. MaxConnections
      \/ q[1] = "client" /\ Slot(q) = Fresh /\ Fresh \in 1 .. MaxConnections
      \/ q[1] = "server" /\ Slot(q) = MaxConnections + q[2] /\ q[2] \in 1 .. MaxServers
      \/ q[1] = "pending" /\ Slot(q) = MaxConnections + MaxServers + q[2] /\ q[2] \in 1 .. MaxPendings
<1>4. ASSUME NEW q \in Owners PROVE Place(q)
  BY <1>1, <1>2 DEF Slot, Ids
<1>5. Place(o) /\ Place(p) /\ Owner(o) /\ Owner(p)
  BY <1>1, <1>4
<1> HIDE DEF Place, Owner
<1>6. Slot(o) \in 1 .. MaxConnections + MaxServers + MaxPendings
  BY <1>5, Bounds DEF Place
<1>7. o[1] = p[1] \/ {o[1], p[1]} = {"connection", "client"}
  BY <1>5, Bounds DEF Place
<1>8. CASE o[1] = p[1]
  <2>1. CASE o[1] = "client"
    <3>1. o[2] = p[2]
      BY <1>0, <1>5, <1>8, <2>1 DEF Owner, ClientsAhead
    <3> QED BY <1>5, <1>6, <1>8, <2>1, <3>1 DEF Owner
  <2>2. CASE o[1] # "client"
    <3>1. o[2] = p[2]
      BY <1>5, <1>8, <2>2, Bounds DEF Place
    <3> QED BY <1>5, <1>6, <1>8, <2>2, <3>1 DEF Owner
  <2> QED BY <2>1, <2>2
<1>9. CASE {o[1], p[1]} = {"connection", "client"}
  <2>1. PICK q \in {o, p} : q[1] = "connection" /\ q[2] = Fresh /\ Owner(q)
    BY <1>5, <1>9 DEF Place
  <2> QED BY <1>3, <2>1 DEF Owner
<1> QED BY <1>6, <1>7, <1>8, <1>9

LEMMA FreeFdIsFree ==
    ASSUME Inv, Owned
    PROVE  FreeFd \in Fds /\ FreeFd \notin open
<1> DEFINE N == MaxConnections + MaxServers + MaxPendings
<1>1. Fds \ open # {}
  <2> SUFFICES ASSUME Fds \subseteq open PROVE FALSE
    OBVIOUS
  <2> DEFINE owner(fd) == CHOOSE o \in Owners : o[3] = fd
             f == [fd \in Fds |-> Slot(owner(fd))]
  <2>1. ASSUME NEW fd \in Fds PROVE owner(fd) \in Owners /\ owner(fd)[3] = fd
    <3>1. \E o \in Owners : o[3] = fd
      BY DEF Owned, OwnedOnce
    <3> QED BY <3>1
  <2> HIDE DEF owner
  <2>2. f \in [Fds -> 1 .. N]
    <3>1. ASSUME NEW fd \in Fds PROVE Slot(owner(fd)) \in 1 .. N
      BY <2>1, SlotsDiffer
    <3> QED BY <3>1
  <2>3. IsFiniteSet(Fds) /\ Cardinality(Fds) = N + 1
    BY Bounds, FS_Interval DEF Fds
  <2>4. IsFiniteSet(1 .. N) /\ Cardinality(1 .. N) = N
    BY Bounds, FS_Interval
  <2>5. Cardinality(1 .. N) < Cardinality(Fds)
    BY <2>3, <2>4, Bounds
  <2>6. PICK x \in Fds, y \in Fds : x # y /\ f[x] = f[y]
    <3> HIDE DEF f
    <3> QED BY <2>2, <2>3, <2>4, <2>5, FS_PigeonHole, Zenon
  <2>7. owner(x)[3] = owner(y)[3]
    <3>1. Slot(owner(x)) = Slot(owner(y))
      BY <2>6
    <3> QED BY <2>1, <3>1, SlotsDiffer, Zenon
  <2> QED BY <2>1, <2>6, <2>7
<1>2. Fds \ open \in SUBSET Nat
  BY Bounds DEF Fds
<1>3. FreeFd \in Fds \ open
  BY <1>1, <1>2, MinOfNaturals, Zenon DEF FreeFd
<1> QED BY <1>3

-----------------------------------------------------------------------------
(* What steps do to the owners.                                              *)
LEMMA OwnersPrimed ==
    Owners' = OfConnections' \cup OfServers' \cup OfClients' \cup OfPendings' \cup OfGoing'
  BY DEF Owners, OfConnections, OfServers, OfClients, OfPendings, OfGoing, Clients

LEMMA OwnedAfter ==
    ASSUME OwnedOnce(open', Owners') PROVE Owned'
  BY DEF Owned, OwnedOnce

LEMMA ConnectionsOwnSame ==
    ASSUME DOMAIN connections' = DOMAIN connections,
           \A i \in DOMAIN connections : connections'[i].fd = connections[i].fd
    PROVE  OfConnections' = OfConnections
  BY DEF OfConnections

LEMMA PendingsOwnSame ==
    ASSUME DOMAIN pendings' = DOMAIN pendings, answers' = answers, refused' = refused,
           \A p \in DOMAIN pendings : pendings'[p].fd = pendings[p].fd
    PROVE  OfPendings' = OfPendings
  BY DEF OfPendings

LEMMA ServersOwnSame ==
    ASSUME DOMAIN servers' = DOMAIN servers,
           \A s \in DOMAIN servers : servers'[s].fd = servers[s].fd /\ servers'[s].client = servers[s].client
    PROVE  OfServers' = OfServers /\ OfClients' = OfClients
<1>1. Clients' = Clients
  BY DEF Clients
<1> QED BY <1>1 DEF OfServers, OfClients, Clients

LEMMA OwnersSame ==
    ASSUME Owned, open' = open, OfConnections' = OfConnections,
           OfServers' = OfServers, OfClients' = OfClients, OfPendings' = OfPendings, going' = going
    PROVE  Owned'
<1>1. OfGoing' = OfGoing
  BY DEF OfGoing
<1>2. Owners' = Owners
  BY <1>1, OwnersAre, OwnersPrimed
<1>3. OwnedOnce(open', Owners')
  BY <1>2 DEF Owned
<1> QED BY <1>3, OwnedAfter

LEMMA FlushOwners ==
    ASSUME Inv, UnansweredAhead, Owned,
           FlushConnection \/ ConnectionDiscard \/ FlushServersAndPendings
    PROVE  Owned'
<1>0. Shapes /\ Told /\ ClientsAhead /\ OwnedOnce(open, Owners)
  BY DEF Inv, Owned
<1>1. CASE FlushConnection
  <2>1. PICK i \in DOMAIN connections :
          /\ connections' = Without(connections, {i})
          /\ going' = [fd |-> connections[i].fd, conn |-> i]
    BY <1>1 DEF FlushConnection, MayFlush
  <2>2. going = Nobody /\ UNCHANGED <<servers, pendings, open, answers, refused>>
    BY <1>0, <1>1 DEF Told, FlushConnection, MayFlush
  <2> DEFINE o == <<"connection", i, connections[i].fd>>
  <2>3. OfConnections' = {<<"connection", j, connections[j].fd>> : j \in DOMAIN connections \ {i}}
    BY <2>1 DEF OfConnections, Without
  <2>4. going' # Nobody
    BY <1>0, <2>1 DEF Shapes, Ids, Nobody, None
  <2>5. OfGoing = {} /\ OfGoing' = {o}
    BY <2>1, <2>2, <2>4 DEF OfGoing
  <2>6. OfConnections = OfConnections' \cup {o}
    BY <2>3 DEF OfConnections
  <2>7. OfServers' = OfServers /\ OfClients' = OfClients /\ OfPendings' = OfPendings
    BY <2>2 DEF OfServers, OfClients, Clients, OfPendings
  <2>8. Owners' = Owners
    BY <2>5, <2>6, <2>7, OwnersAre, OwnersPrimed
  <2> QED BY <1>0, <2>2, <2>8, OwnedAfter
<1>2. CASE ConnectionDiscard
  <2>1. /\ open' = open \ {going.fd} /\ going' = Nobody /\ going # Nobody
        /\ UNCHANGED <<connections, servers, pendings, answers, refused>>
    BY <1>0, <1>2 DEF Told, ConnectionDiscard
  <2> DEFINE o == <<"connection", going.conn, going.fd>>
  <2>2. OfGoing' = {} /\ OfGoing = {o}
    BY <2>1 DEF OfGoing
  <2>3. o \notin OfConnections
    BY <1>0, <2>1 DEF OfConnections, Told
  <2>4. o \notin OfServers /\ o \notin OfClients /\ o \notin OfPendings
    BY DEF OfServers, OfClients, OfPendings
  <2>5. OfConnections' = OfConnections /\ OfServers' = OfServers /\ OfClients' = OfClients /\ OfPendings' = OfPendings
    BY <2>1 DEF OfConnections, OfServers, OfClients, Clients, OfPendings
  <2> HIDE DEF o
  <2>6. Owners' = Owners \ {o} /\ o \in Owners
    BY <2>2, <2>3, <2>4, <2>5, OwnersAre, OwnersPrimed
  <2>7. OwnedOnce(open \ {q[3] : q \in {o}}, Owners \ {o})
    BY <1>0, <2>6, OwnersRemoved
  <2>8. {q[3] : q \in {o}} = {going.fd}
    BY DEF o
  <2> QED BY <2>1, <2>6, <2>7, <2>8, OwnedAfter
<1>3. CASE FlushServersAndPendings
  <2> DEFINE dead == {s \in DOMAIN servers : servers[s].dead}
             gone == {<<"server", s, servers[s].fd>> : s \in dead}
  <2>1. /\ servers' = Without(servers, dead) /\ open' = open \ {servers[s].fd : s \in dead}
        /\ pendings' = Without(pendings, Flushed) /\ main.at = "flush"
        /\ UNCHANGED <<connections, going, answers, refused>>
    BY <1>3 DEF FlushServersAndPendings, MayFlush
  <2>2. Clients = {} /\ Clients' = {}
    BY <1>0, <2>1 DEF ClientsAhead, Clients, Without
  <2>3. OfClients = {} /\ OfClients' = {}
    BY <2>2 DEF OfClients
  <2>4. OfServers' = {<<"server", s, servers[s].fd>> : s \in DOMAIN servers \ dead}
    BY <2>1 DEF OfServers, Without
  <2>5. OfServers' = OfServers \ gone /\ gone \subseteq OfServers
    BY <2>4 DEF OfServers
  <2>6. OfPendings' = OfPendings
    <3>1. \A p \in DOMAIN pendings \ refused : answers[p] = 0 => p \notin Flushed
      BY <2>1 DEF Flushed, UnansweredAhead
    <3>2. OfPendings' = {<<"pending", p, pendings[p].fd>> : p \in {q \in (DOMAIN pendings \ Flushed) \ refused : answers[q] = 0}}
      BY <2>1 DEF OfPendings, Without
    <3> QED BY <3>1, <3>2 DEF OfPendings
  <2>7. OfConnections' = OfConnections /\ OfGoing' = OfGoing
    BY <2>1 DEF OfConnections, OfGoing
  <2>8. gone \cap (OfConnections \cup OfPendings \cup OfGoing) = {}
    BY DEF OfConnections, OfPendings, OfGoing
  <2>9. {servers[s].fd : s \in dead} = {o[3] : o \in gone}
    <3>1. ASSUME NEW s \in dead PROVE servers[s].fd \in {o[3] : o \in gone}
      <4>1. <<"server", s, servers[s].fd>> \in gone /\ <<"server", s, servers[s].fd>>[3] = servers[s].fd
        OBVIOUS
      <4> QED BY <4>1, Zenon
    <3>2. ASSUME NEW o \in gone PROVE o[3] \in {servers[s].fd : s \in dead}
      OBVIOUS
    <3> QED BY <3>1, <3>2
  <2> HIDE DEF gone
  <2>10. Owners' = Owners \ gone /\ gone \in SUBSET Owners
    BY <2>3, <2>5, <2>6, <2>7, <2>8, OwnersAre, OwnersPrimed
  <2>11. OwnedOnce(open \ {o[3] : o \in gone}, Owners \ gone)
    BY <1>0, <2>10, OwnersRemoved
  <2> QED BY <2>1, <2>9, <2>10, <2>11, OwnedAfter
<1> QED BY <1>1, <1>2, <1>3

LEMMA SelectOwners ==
    ASSUME Inv, Owned, Select
    PROVE  Owned'
<1>0. Shapes /\ ClientsAhead /\ OwnedOnce(open, Owners)
  BY DEF Inv, Owned
<1>1. PICK r \in SUBSET (Reading \ Silent), w \in SUBSET Writing, error \in {NOT_AN_IDENT, "refused"} :
        connections' = Marked(r, w) /\ pendings' = Connected(w, error)
  BY Zenon DEF Select
<1>2. UNCHANGED <<going, answers, refused>> /\ main.at = "select"
  BY Zenon DEF Select
<1>3. OfConnections' = OfConnections
  <2>1. DOMAIN connections' = DOMAIN connections
    BY <1>1 DEF Marked
  <2>2. ASSUME NEW i \in DOMAIN connections PROVE connections'[i].fd = connections[i].fd
    <3>1. connections'[i] = [connections[i] EXCEPT !.readable = @ \/ connections[i].fd \in r,
                                                   !.writable = @ \/ connections[i].fd \in w]
      BY <1>1 DEF Marked
    <3>2. DOMAIN connections[i] = {"fd", "dbref", "out", "readable", "writable", "dead"}
      BY <1>0 DEF Shapes
    <3> QED BY <3>1, <3>2
  <2> QED BY <2>1, <2>2, ConnectionsOwnSame
<1>4. OfPendings' = OfPendings
  <2>1. DOMAIN pendings' = DOMAIN pendings
    BY <1>1 DEF Connected
  <2>2. ASSUME NEW p \in DOMAIN pendings PROVE pendings'[p].fd = pendings[p].fd
    <3>1. \/ pendings'[p] = [pendings[p] EXCEPT !.error = error, !.finished = TRUE]
          \/ pendings'[p] = [pendings[p] EXCEPT !.finished = @ \/ pendings[p].error # NOT_AN_IDENT]
      BY <1>1 DEF Connected, AlreadyFailed
    <3>2. DOMAIN pendings[p] = {"fd", "dbref", "finished", "error"}
      BY <1>0 DEF Shapes
    <3> QED BY <3>1, <3>2
  <2> QED BY <1>2, <2>1, <2>2, PendingsOwnSame
<1>5. \/ UNCHANGED <<servers, open>>
      \/ /\ \E s \in DOMAIN servers : servers' = [servers EXCEPT ![s].client = FreeFd]
         /\ open' = open \cup {FreeFd}
  BY DEF Select
<1>6. CASE UNCHANGED <<servers, open>>
  <2>1. OfServers' = OfServers /\ OfClients' = OfClients
    BY <1>6 DEF OfServers, OfClients, Clients
  <2> QED BY <1>2, <1>3, <1>4, <1>6, <2>1, OwnersSame
<1>7. CASE /\ \E s \in DOMAIN servers : servers' = [servers EXCEPT ![s].client = FreeFd]
           /\ open' = open \cup {FreeFd}
  <2>1. PICK s \in DOMAIN servers : servers' = [servers EXCEPT ![s].client = FreeFd]
    BY <1>7
  <2>2. FreeFd \notin open /\ FreeFd # -1
    BY FreeFdIsFree DEF Fds
  <2>3. Clients = {}
    BY <1>0, <1>2 DEF ClientsAhead
  <2>4. /\ DOMAIN servers' = DOMAIN servers
        /\ \A t \in DOMAIN servers : servers'[t].fd = servers[t].fd
        /\ \A t \in DOMAIN servers : t # s => servers'[t].client = servers[t].client
        /\ servers'[s].client = FreeFd
    <3>1. \A t \in DOMAIN servers : DOMAIN servers[t] = {"fd", "port", "dbref", "dead", "client"}
      BY <1>0 DEF Shapes
    <3> QED BY <2>1, <3>1
  <2>5. OfServers' = OfServers
    BY <2>4 DEF OfServers
  <2> DEFINE o == <<"client", s, FreeFd>>
  <2>6. OfClients = {} /\ OfClients' = {o}
    <3>1. Clients' = {s}
      <4>1. Clients' = {t \in DOMAIN servers' : servers'[t].client # -1}
        BY DEF Clients
      <4> QED BY <2>2, <2>3, <2>4, <4>1 DEF Clients
    <3>2. OfClients' = {<<"client", t, servers'[t].client>> : t \in Clients'}
      BY DEF OfClients
    <3> QED BY <2>3, <2>4, <3>1, <3>2 DEF OfClients
  <2>7. OfGoing' = OfGoing
    BY <1>2 DEF OfGoing
  <2>8. o[3] = FreeFd
    OBVIOUS
  <2> HIDE DEF o
  <2>9. Owners' = Owners \cup {o}
    BY <1>3, <1>4, <2>5, <2>6, <2>7, OwnersAre, OwnersPrimed
  <2>10. OwnedOnce(open \cup {o[3]}, Owners \cup {o})
    BY <1>0, <2>2, <2>8, OwnerAdded
  <2> QED BY <1>7, <2>8, <2>9, <2>10, OwnedAfter
<1> QED BY <1>5, <1>6, <1>7

LEMMA AcceptOwners ==
    ASSUME Inv, Owned, AcceptClient
    PROVE  Owned'
<1>0. Shapes /\ Told /\ ClientsAhead /\ OwnedOnce(open, Owners)
  BY DEF Inv, Owned
<1>1. CASE AcceptsNone
  BY <1>1, OwnersSame DEF AcceptsNone, OfConnections, OfServers, OfClients, Clients, OfPendings
<1>2. CASE \E s \in DOMAIN servers : Accepts(s)
  <2>1. PICK s \in DOMAIN servers : Accepts(s)
    BY <1>2
  <2>2. /\ s \in Clients /\ servers' = [servers EXCEPT ![s].client = -1]
        /\ UNCHANGED <<pendings, open, going, answers, refused>>
        /\ Added(Fresh, servers[s].client, servers[s].dbref)
    BY <2>1 DEF Accepts
  <2>3. Fresh \in Ids /\ servers[s].dbref \in Objects
    BY <1>0, <2>2, NumberThere DEF Shapes
  <2> DEFINE o == <<"client", s, servers[s].client>>
             p == <<"connection", Fresh, servers[s].client>>
  <2>4. OfConnections' = OfConnections \cup {p}
    <3>1. /\ DOMAIN connections' = DOMAIN connections \cup {Fresh}
          /\ \A i \in DOMAIN connections : connections'[i] = connections[i]
          /\ connections'[Fresh] = Connection(servers[s].client, servers[s].dbref)
      BY <2>2, <2>3, AddedAtFresh
    <3>2. connections'[Fresh].fd = servers[s].client
      BY <3>1 DEF Connection
    <3> QED BY <3>1, <3>2 DEF OfConnections
  <2>5. /\ DOMAIN servers' = DOMAIN servers
        /\ \A t \in DOMAIN servers : servers'[t].fd = servers[t].fd
        /\ servers'[s].client = -1 /\ \A t \in DOMAIN servers : t # s => servers'[t].client = servers[t].client
    <3>1. \A t \in DOMAIN servers : DOMAIN servers[t] = {"fd", "port", "dbref", "dead", "client"}
      BY <1>0 DEF Shapes
    <3> QED BY <2>2, <3>1
  <2>6. OfServers' = OfServers
    BY <2>5 DEF OfServers
  <2>7. OfClients = {o} /\ OfClients' = {}
    <3>1. Clients = {s}
      BY <1>0, <2>2 DEF ClientsAhead
    <3>2. Clients' = {}
      <4>1. Clients' = {t \in DOMAIN servers' : servers'[t].client # -1}
        BY DEF Clients
      <4> QED BY <2>5, <3>1, <4>1 DEF Clients
    <3> QED BY <3>1, <3>2 DEF OfClients
  <2>8. OfPendings' = OfPendings /\ OfGoing' = OfGoing
    BY <2>2 DEF OfPendings, OfGoing
  <2>9. o \notin OfConnections \cup OfServers \cup OfPendings \cup OfGoing
    BY DEF OfConnections, OfServers, OfPendings, OfGoing
  <2>10. p[3] = o[3]
    OBVIOUS
  <2> HIDE DEF o, p
  <2>11. o \in Owners /\ Owners' = (Owners \ {o}) \cup {p}
    BY <2>4, <2>6, <2>7, <2>8, <2>9, OwnersAre, OwnersPrimed
  <2>12. OwnedOnce(open, (Owners \ {o}) \cup {p})
    BY <1>0, <2>10, <2>11, OwnerReplaced
  <2> QED BY <2>2, <2>11, <2>12, OwnedAfter
<1> QED BY <1>0, <1>1, <1>2, AcceptClientSplits

LEMMA PendingFinishedOwners ==
    ASSUME Inv, Owned, PendingFinished, ~struck'
    PROVE  Owned'
<1>0. Shapes /\ Told /\ OwnedOnce(open, Owners)
  BY DEF Inv, Owned
<1>1. CASE ReportsNone
  BY <1>1, OwnersSame DEF ReportsNone, OfConnections, OfServers, OfClients, Clients, OfPendings
<1>2. CASE \E p \in DOMAIN pendings : ReportsConnect(p)
  <2>1. PICK p \in DOMAIN pendings : ReportsConnect(p)
    BY <1>2
  <2>2. answers' = [answers EXCEPT ![p] = @ + 1] /\ UNCHANGED <<servers, pendings, going, refused>>
    BY <2>1 DEF ReportsConnect
  <2>3. p \in DOMAIN answers /\ answers[p] = 0 /\ p \in Unanswered
    BY <2>1, ReportedOnce DEF Unanswered
  <2>5. OfServers' = OfServers /\ OfClients' = OfClients /\ OfGoing' = OfGoing
    BY <2>2 DEF OfServers, OfClients, Clients, OfGoing
  <2>10. CASE p \in refused
    <3>1. pendings[p].error # NOT_AN_IDENT /\ pendings[p].fd \notin open
      BY <2>1, <2>10 DEF ReportsConnect, Strikes
    <3>2. open' = open /\ UNCHANGED connections
      BY <2>1, <3>1 DEF ReportsConnect
    <3>3. OfConnections' = OfConnections
      BY <3>2 DEF OfConnections
    <3>4. OfPendings' = OfPendings
      <4>1. \A t \in DOMAIN pendings \ refused : answers'[t] = answers[t]
        BY <1>0, <2>2, <2>10 DEF Shapes
      <4> QED BY <2>2, <4>1 DEF OfPendings
    <3> QED BY <2>2, <2>5, <3>2, <3>3, <3>4, OwnersSame
  <2>11. SUFFICES ASSUME p \notin refused PROVE Owned'
    BY <2>10
  <2> DEFINE o == <<"pending", p, pendings[p].fd>>
             q == <<"connection", Fresh, pendings[p].fd>>
  <2>4. OfPendings' = OfPendings \ {o} /\ o \in OfPendings
    <3>1. DOMAIN pendings \subseteq DOMAIN answers
      BY <1>0 DEF Shapes
    <3>2. \A t \in DOMAIN pendings : answers'[t] = 0 <=> (answers[t] = 0 /\ t # p)
      BY <2>2, <2>3, <3>1
    <3>3. OfPendings' = {<<"pending", t, pendings[t].fd>> : t \in {u \in DOMAIN pendings \ refused : answers'[u] = 0}}
      BY <2>2 DEF OfPendings
    <3> QED BY <2>3, <2>11, <3>2, <3>3 DEF OfPendings
  <2>6. o \notin OfConnections \cup OfServers \cup OfClients \cup OfGoing
    BY DEF OfConnections, OfServers, OfClients, OfGoing
  <2>7. q[3] = o[3] /\ {t[3] : t \in {o}} = {pendings[p].fd}
    OBVIOUS
  <2>8. CASE Added(Fresh, pendings[p].fd, pendings[p].dbref) /\ UNCHANGED open
    <3>1. Fresh \in Ids /\ pendings[p].dbref \in Objects
      BY <1>0, <2>3, NumberThere DEF Shapes
    <3>2. OfConnections' = OfConnections \cup {q}
      <4>1. /\ DOMAIN connections' = DOMAIN connections \cup {Fresh}
            /\ \A i \in DOMAIN connections : connections'[i] = connections[i]
            /\ connections'[Fresh] = Connection(pendings[p].fd, pendings[p].dbref)
        BY <2>8, <3>1, AddedAtFresh
      <4>2. connections'[Fresh].fd = pendings[p].fd
        BY <4>1 DEF Connection
      <4> QED BY <4>1, <4>2 DEF OfConnections
    <3> HIDE DEF o, q
    <3>3. o \in Owners /\ Owners' = (Owners \ {o}) \cup {q}
      BY <2>4, <2>5, <2>6, <3>2, OwnersAre, OwnersPrimed
    <3>4. OwnedOnce(open, (Owners \ {o}) \cup {q})
      BY <1>0, <2>7, <3>3, OwnerReplaced
    <3> QED BY <2>8, <3>3, <3>4, OwnedAfter
  <2>9. CASE open' = open \ {pendings[p].fd} /\ UNCHANGED connections
    <3>1. OfConnections' = OfConnections
      BY <2>9 DEF OfConnections
    <3> HIDE DEF o, q
    <3>2. Owners' = Owners \ {o} /\ {o} \in SUBSET Owners
      BY <2>4, <2>5, <2>6, <3>1, OwnersAre, OwnersPrimed
    <3>3. OwnedOnce(open \ {t[3] : t \in {o}}, Owners \ {o})
      BY <1>0, <3>2, OwnersRemoved
    <3> QED BY <2>7, <2>9, <3>2, <3>3, OwnedAfter
  <2> QED BY <2>1, <2>8, <2>9 DEF ReportsConnect
<1> QED BY <1>0, <1>1, <1>2, PendingFinishedSplits

LEMMA OpBindOwners ==
    ASSUME Inv, Owned, OpBind
    PROVE  Owned'
<1>0. Shapes /\ OwnedOnce(open, Owners)
  BY DEF Inv, Owned
<1>1. UNCHANGED <<connections, pendings, going, answers, refused>>
  BY DEF OpBind
<1>2. OfConnections' = OfConnections /\ OfPendings' = OfPendings /\ OfGoing' = OfGoing
  BY <1>1 DEF OfConnections, OfPendings, OfGoing
<1>3. PICK port \in Ports, d \in Objects :
        \/ /\ servers' = [s \in DOMAIN servers |-> IF s \in Bound(port)
                            THEN [servers[s] EXCEPT !.dbref = d, !.dead = FALSE] ELSE servers[s]]
           /\ UNCHANGED open
        \/ /\ servers' = Extend(servers, NewServer, Server(FreeFd, port, d))
           /\ open' = open \cup {FreeFd}
  BY DEF OpBind
<1>4. CASE /\ servers' = [s \in DOMAIN servers |-> IF s \in Bound(port)
                            THEN [servers[s] EXCEPT !.dbref = d, !.dead = FALSE] ELSE servers[s]]
           /\ UNCHANGED open
  <2>1. DOMAIN servers' = DOMAIN servers
    BY <1>4
  <2>2. ASSUME NEW s \in DOMAIN servers
        PROVE  servers'[s].fd = servers[s].fd /\ servers'[s].client = servers[s].client
    <3>1. DOMAIN servers[s] = {"fd", "port", "dbref", "dead", "client"}
      BY <1>0 DEF Shapes
    <3> QED BY <1>4, <3>1
  <2> QED BY <1>1, <1>2, <1>4, <2>1, <2>2, ServersOwnSame, OwnersSame
<1>5. CASE /\ servers' = Extend(servers, NewServer, Server(FreeFd, port, d))
           /\ open' = open \cup {FreeFd}
  <2>1. NewServer \notin DOMAIN servers
    BY <1>0, NewServerIsNew
  <2>2. /\ DOMAIN servers' = DOMAIN servers \cup {NewServer}
        /\ \A s \in DOMAIN servers : servers'[s] = servers[s]
        /\ servers'[NewServer].fd = FreeFd /\ servers'[NewServer].client = -1
    <3>1. /\ DOMAIN servers' = DOMAIN servers \cup {NewServer}
          /\ \A s \in DOMAIN servers : servers'[s] = servers[s]
          /\ servers'[NewServer] = Server(FreeFd, port, d)
      BY <1>5, <2>1 DEF Extend
    <3> QED BY <3>1 DEF Server
  <2> DEFINE o == <<"server", NewServer, FreeFd>>
  <2>3. OfServers' = OfServers \cup {o}
    BY <2>2 DEF OfServers
  <2>4. OfClients' = OfClients
    <3>1. Clients' = Clients
      <4>1. Clients' = {t \in DOMAIN servers' : servers'[t].client # -1}
        BY DEF Clients
      <4> QED BY <2>1, <2>2, <4>1 DEF Clients
    <3>2. OfClients' = {<<"client", t, servers'[t].client>> : t \in Clients'}
      BY DEF OfClients
    <3> QED BY <2>2, <3>1, <3>2 DEF OfClients, Clients
  <2>5. o[3] = FreeFd
    OBVIOUS
  <2> HIDE DEF o
  <2>6. Owners' = Owners \cup {o}
    BY <1>2, <2>3, <2>4, OwnersAre, OwnersPrimed
  <2>7. OwnedOnce(open \cup {o[3]}, Owners \cup {o})
    BY <1>0, <2>5, FreeFdIsFree, OwnerAdded
  <2> QED BY <1>5, <2>5, <2>6, <2>7, OwnedAfter
<1> QED BY <1>3, <1>4, <1>5

LEMMA OpConnectOwners ==
    ASSUME Inv, Owned, OpConnect
    PROVE  Owned'
<1> DEFINE n == NewPending
<1>0. Shapes /\ OwnedOnce(open, Owners)
  BY DEF Inv, Owned
<1>1. PICK d \in Objects, atOnce \in BOOLEAN :
        /\ pendings' = Extend(pendings, n, [fd |-> FreeFd, dbref |-> d, finished |-> FALSE,
                                            error |-> IF atOnce THEN "refused" ELSE NOT_AN_IDENT])
        /\ open' = (IF atOnce THEN open ELSE open \cup {FreeFd})
        /\ refused' = (IF atOnce THEN refused \cup {n} ELSE refused)
  BY DEF OpConnect
<1>2. /\ answers' = Extend(answers, n, 0)
      /\ UNCHANGED <<connections, servers, going>>
  BY DEF OpConnect
<1>3. n \notin DOMAIN answers /\ n \notin DOMAIN pendings /\ DOMAIN pendings \subseteq DOMAIN answers
      /\ n \notin refused
  BY <1>0, Bounds DEF Shapes, NewPending
<1> HIDE DEF n
<1>4. /\ DOMAIN pendings' = DOMAIN pendings \cup {n} /\ pendings'[n].fd = FreeFd
      /\ \A p \in DOMAIN pendings : pendings'[p] = pendings[p]
  BY <1>1, <1>3 DEF Extend
<1>5. answers'[n] = 0 /\ \A p \in DOMAIN answers : answers'[p] = answers[p]
  BY <1>2, <1>3 DEF Extend
<1>7. OfConnections' = OfConnections /\ OfServers' = OfServers /\ OfClients' = OfClients /\ OfGoing' = OfGoing
  BY <1>2 DEF OfConnections, OfServers, OfClients, Clients, OfGoing
<1>11. CASE atOnce
  <2>1. OfPendings' = OfPendings
    <3>1. {p \in DOMAIN pendings' \ refused' : answers'[p] = 0} = {p \in DOMAIN pendings \ refused : answers[p] = 0}
      BY <1>1, <1>3, <1>4, <1>5, <1>11
    <3> QED BY <1>4, <3>1 DEF OfPendings
  <2> QED BY <1>1, <1>2, <1>7, <1>11, <2>1, OwnersSame
<1>12. CASE ~atOnce
  <2> DEFINE o == <<"pending", n, FreeFd>>
  <2>1. OfPendings' = OfPendings \cup {o}
    <3>1. {p \in DOMAIN pendings' \ refused' : answers'[p] = 0}
             = {p \in DOMAIN pendings \ refused : answers[p] = 0} \cup {n}
      BY <1>1, <1>3, <1>4, <1>5, <1>12
    <3> QED BY <1>4, <3>1 DEF OfPendings
  <2>2. o[3] = FreeFd
    OBVIOUS
  <2> HIDE DEF o
  <2>3. Owners' = Owners \cup {o}
    BY <1>7, <2>1, OwnersAre, OwnersPrimed
  <2>4. OwnedOnce(open \cup {o[3]}, Owners \cup {o})
    BY <1>0, <2>2, FreeFdIsFree, OwnerAdded
  <2> QED BY <1>1, <1>12, <2>2, <2>3, <2>4, OwnedAfter
<1> QED BY <1>11, <1>12

LEMMA StruckStays ==
    ASSUME [Next]_vars, struck PROVE struck'
<1>1. CASE PendingFinished
  <2>1. struck' = struck \/ \E b : struck' = (struck \/ b)
    BY <1>1, Zenon DEF PendingFinished
  <2> QED BY <2>1
<1>2. CASE ~PendingFinished
  <2>1. struck' = struck
    BY <1>2, Zenon DEF Next, MainStep, Flush, HandleIoEvents, TaskStep, vars, FlushConnection, ConnectionDiscard,
       FlushServersAndPendings, FlushOutput, Panic, SelectTimeout, Select, ConnectionRead, ConnectionWrite,
       ConnectionsHandled, AcceptClient, Heartbeat, RunPausedTasks, OpEcho, OpDisconnect, OpBind, OpUnbind,
       OpConnect, OpConnAssign, OpShutdown, TaskPause, TaskEnds
  <2> QED BY <2>1
<1> QED BY <1>1, <1>2

LEMMA NextOwned ==
    ASSUME Inv, UnansweredAhead, Owned, [Next]_vars, ~struck'
    PROVE  Owned'
<1>0. Shapes /\ AtWrite
  BY DEF Inv
<1> DEFINE Rest == UNCHANGED <<servers, open, going, answers, refused>>
           KeepsPendings == DOMAIN pendings' = DOMAIN pendings
                            /\ \A p \in DOMAIN pendings : pendings'[p].fd = pendings[p].fd
           KeepsConnections == DOMAIN connections' = DOMAIN connections
                               /\ \A i \in DOMAIN connections : connections'[i].fd = connections[i].fd
<1>1. CASE Rest /\ KeepsPendings /\ KeepsConnections
  <2>1. OfServers' = OfServers /\ OfClients' = OfClients
    BY <1>1 DEF OfServers, OfClients, Clients
  <2> QED BY <1>1, <2>1, ConnectionsOwnSame, PendingsOwnSame, OwnersSame
<1>2. CASE ConnectionsHandled \/ FlushOutput \/ Heartbeat \/ RunPausedTasks \/ OpShutdown \/ TaskPause \/ TaskEnds
           \/ UNCHANGED vars
  <2>1. Rest /\ UNCHANGED <<connections, pendings>>
    BY <1>2 DEF ConnectionsHandled, FlushOutput, Heartbeat, RunPausedTasks, OpShutdown, TaskPause, TaskEnds, vars
  <2> QED BY <1>1, <2>1
<1>3. CASE SelectTimeout \/ Panic
  <2>1. Rest /\ UNCHANGED connections /\ pendings' = AlreadyFailed
    BY <1>3 DEF SelectTimeout, Panic
  <2>2. KeepsPendings
    <3>1. ASSUME NEW p \in DOMAIN pendings PROVE pendings'[p].fd = pendings[p].fd
      <4>1. pendings'[p] = [pendings[p] EXCEPT !.finished = @ \/ pendings[p].error # NOT_AN_IDENT]
        BY <2>1 DEF AlreadyFailed
      <4> QED BY <1>0, <4>1 DEF Shapes
    <3> QED BY <2>1, <3>1 DEF AlreadyFailed
  <2> QED BY <1>1, <2>1, <2>2
<1>4. CASE ConnectionRead \/ ConnectionWrite \/ OpEcho \/ OpDisconnect \/ OpConnAssign
  <2>1. Rest /\ UNCHANGED pendings
    BY <1>4 DEF ConnectionRead, ConnectionWrite, OpEcho, OpDisconnect, OpConnAssign
  <2>2. KeepsConnections
    <3>1. ASSUME NEW i \in DOMAIN connections PROVE "fd" \in DOMAIN connections[i]
      BY <1>0 DEF Shapes
    <3>2. CASE ConnectionRead
      <4>1. PICK i \in DOMAIN connections :
              \/ connections' = connections
              \/ connections' = [connections EXCEPT ![i].readable = FALSE, ![i].dead = TRUE]
              \/ connections' = [connections EXCEPT ![i].readable = FALSE]
        BY <3>2 DEF ConnectionRead
      <4> QED BY <3>1, <4>1
    <3>3. CASE ConnectionWrite
      <4> DEFINE i == main.below
      <4>1. CASE connections[i].writable
        <5>1. PICK n \in 0 .. Len(connections[i].out) :
                connections' = [connections EXCEPT ![i].writable = FALSE,
                                  ![i].out = IF n = 0 THEN <<>> ELSE Left(connections[i].out, n),
                                  ![i].dead = @ \/ n = 0]
          BY <3>3, <4>1 DEF ConnectionWrite
        <5> QED BY <3>1, <5>1
      <4>2. CASE ~connections[i].writable
        BY <3>3, <4>2 DEF ConnectionWrite
      <4> QED BY <4>1, <4>2
    <3>4. CASE OpEcho
      <4>1. PICK is : connections' = [i \in DOMAIN connections |->
                        IF i \in is THEN [connections[i] EXCEPT !.out = Append(@, ops)] ELSE connections[i]]
        BY <3>4 DEF OpEcho
      <4> QED BY <3>1, <4>1
    <3>5. CASE OpDisconnect
      <4>1. PICK d \in Objects : connections' = [i \in DOMAIN connections |->
                                   [connections[i] EXCEPT !.dead = @ \/ connections[i].dbref = d]]
        BY <3>5 DEF OpDisconnect
      <4> QED BY <3>1, <4>1
    <3>6. CASE OpConnAssign
      <4>1. PICK d \in Objects : connections' = [i \in DOMAIN connections |->
                                   [connections[i] EXCEPT !.dbref = IF i = task.conn THEN d ELSE @]]
        BY <3>6 DEF OpConnAssign
      <4> QED BY <3>1, <4>1
    <3> QED BY <1>4, <3>2, <3>3, <3>4, <3>5, <3>6
  <2> QED BY <1>1, <2>1, <2>2
<1>5. CASE OpUnbind
  <2>1. UNCHANGED <<connections, pendings, open, going, answers, refused>>
    BY <1>5 DEF OpUnbind
  <2>2. PICK s \in DOMAIN servers : servers' = [servers EXCEPT ![s].dead = TRUE]
    BY <1>5 DEF OpUnbind
  <2>3. \A t \in DOMAIN servers : DOMAIN servers[t] = {"fd", "port", "dbref", "dead", "client"}
    BY <1>0 DEF Shapes
  <2>4. OfServers' = OfServers /\ OfClients' = OfClients
    BY <2>2, <2>3, ServersOwnSame
  <2>5. OfConnections' = OfConnections /\ OfPendings' = OfPendings
    BY <2>1 DEF OfConnections, OfPendings
  <2> QED BY <2>1, <2>4, <2>5, OwnersSame
<1> QED BY <1>2, <1>3, <1>4, <1>5, FlushOwners, SelectOwners, AcceptOwners, PendingFinishedOwners,
           OpBindOwners, OpConnectOwners DEF Next, MainStep, Flush, HandleIoEvents, TaskStep

LEMMA InitOwned ==
    Init => Owned
<1> SUFFICES ASSUME Init PROVE Owned
  OBVIOUS
<1>1. /\ DOMAIN connections = {1, 2} /\ \A i \in {1, 2} : connections[i].fd = i - 1
      /\ DOMAIN servers = {} /\ DOMAIN pendings = {} /\ going = Nobody /\ open = {0, 1}
  BY DEF Init, Connection
<1>2. Owners = {<<"connection", 1, 0>>, <<"connection", 2, 1>>}
  BY <1>1 DEF Owners
<1> QED BY <1>1, <1>2 DEF Owned, OwnedOnce

(* Every open descriptor has one owner, and every owner's descriptor is      *)
(* open: net.c and io.c neither lose one, nor use one after it was closed,   *)
(* until they use one of a connect that failed at once, which it had closed. *)
THEOREM DescriptorsAreOwnedOnce ==
    Spec => []DescriptorsOwnedOnce
<1>1. Inv /\ UnansweredAhead /\ (struck \/ Owned) /\ [Next]_vars => (struck \/ Owned)'
  BY NextOwned, StruckStays
<1>2. Init => struck \/ Owned
  BY InitOwned
<1>3. (struck \/ Owned) => DescriptorsOwnedOnce
  BY DEF DescriptorsOwnedOnce, Owned, OwnedOnce
<1> QED BY <1>1, <1>2, <1>3, AlwaysUnanswered, PTL DEF Spec
=============================================================================
