---------------------------- MODULE TablesProofs -----------------------------
(* Proofs about two tables whose entries must not be lost or given to two:   *)
(* the cache of names before the index on disk (NameCache), for every set of *)
(* names and objects and every size of the cache; and the trays and piles     *)
(* that memory is taken from (Memory), for every size of trays, blocks and   *)
(* requests.                                                                 *)
EXTENDS NameCache, Memory,
        FiniteSetTheorems, SequenceTheorems, WellFoundedInduction, TLAPS

-----------------------------------------------------------------------------
(* What the functions of lookup.c keep of the cache and the index.          *)

Entries == [name : Names \cup {NOT_AN_IDENT}, dbref : NamedDbrefs \cup {NoDbref},
            dirty : BOOLEAN, on_disk : BOOLEAN]
AllTables == [cache : [Slots -> Entries], disk : [Names -> NamedDbrefs \cup {NoDbref}]]

Live(e) == e.name # NOT_AN_IDENT

(* A name is in its slot only, and what would not be written back is there. *)
Consistent(t) ==
    /\ t \in AllTables
    /\ \A s \in Slots : Live(t.cache[s]) =>
          /\ Slot(t.cache[s].name) = s
          /\ t.cache[s].dbref \in NamedDbrefs
          /\ ~t.cache[s].dirty => t.disk[t.cache[s].name] = t.cache[s].dbref

(* b: the names stored past their entry in the index, and not written yet.  *)
FlagsRight(t, b) ==
    \A s \in Slots : Live(t.cache[s]) =>
        (t.cache[s].on_disk <=> t.disk[t.cache[s].name] # NoDbref
                                /\ t.cache[s].name \notin b)

(* A name is blind only while its entry is dirty.                           *)
BlindIsDirty(t, b) == b \subseteq Names /\ Unwritten(t, b) = b

(* The map that the cache and the index stand for.                          *)
View(t) == [n \in Names |-> Retrieval(t, n)]

(* A write to the index that is no removal brings it opened to the map.         *)
WritesBack(t, u) == \A n \in Names : u.disk[n] \in {t.disk[n], View(t)[n]}

LEMMA SlotInSlots ==
    ASSUME NEW n \in Names
    PROVE  Slot(n) \in Slots
<1>1. n \in Nat /\ NAME_CACHE_SIZE \in Nat \ {0}
  BY NameAssumption
<1> QED BY <1>1, SMT DEF Slot, Slots

LEMMA NameIsLive ==
    ASSUME NEW n \in Names
    PROVE  n # NOT_AN_IDENT
  BY NotANameAssumption

(* Another slot holds another name.                                         *)
LEMMA CachedInOneSlot ==
    ASSUME NEW t, Consistent(t), NEW n \in Names, NEW s \in Slots,
           t.cache[s].name = n
    PROVE  s = Slot(n)
  BY NameIsLive DEF Consistent, Live

LEMMA ViewIsMap ==
    ASSUME NEW t, Consistent(t)
    PROVE  /\ View(t) \in [Names -> NamedDbrefs \cup {NoDbref}]
           /\ \A n \in Names : View(t)[n] = Retrieval(t, n)
<1>1. SUFFICES ASSUME NEW n \in Names
               PROVE  Retrieval(t, n) \in NamedDbrefs \cup {NoDbref}
  BY DEF View
<1>2. Slot(n) \in Slots
  BY SlotInSlots
<1>3. t.cache[Slot(n)].dbref \in NamedDbrefs \cup {NoDbref}
  BY <1>2 DEF Consistent, AllTables, Entries
<1>4. t.disk[n] \in NamedDbrefs \cup {NoDbref}
  BY DEF Consistent, AllTables
<1> QED BY <1>3, <1>4 DEF Retrieval

-----------------------------------------------------------------------------
(* A slot that another name takes: its old entry is written back if dirty.  *)
LEMMA EvictedWrites ==
    ASSUME NEW t, Consistent(t), NEW n \in Names
    PROVE  LET u   == Evicted(t, n)
               old == t.cache[Slot(n)]
           IN  /\ u \in AllTables
               /\ u.cache = t.cache
               /\ \A m \in Names : u.disk[m] = IF m = old.name /\ old.dirty
                                               THEN old.dbref ELSE t.disk[m]
<1> DEFINE old == t.cache[Slot(n)]
<1>1. Slot(n) \in Slots
  BY SlotInSlots
<1>2. t \in AllTables /\ old \in Entries
  BY <1>1 DEF Consistent, AllTables
<1>3. \A m \in Names : m # NOT_AN_IDENT
  BY NameIsLive
<1>4. CASE Live(old) /\ old.dirty
  <2>1. old.name \in Names /\ old.dbref \in NamedDbrefs
    BY <1>1, <1>2, <1>4 DEF Consistent, Live, Entries
  <2>2. Evicted(t, n) = [t EXCEPT !.disk[old.name] = old.dbref]
    BY <1>4 DEF Evicted, Live
  <2>3. Evicted(t, n) = [cache |-> t.cache, disk |-> [t.disk EXCEPT ![old.name] = old.dbref]]
    BY <1>2, <2>2 DEF AllTables
  <2> QED BY <1>2, <1>4, <2>1, <2>3 DEF AllTables
<1>5. CASE ~(Live(old) /\ old.dirty)
  <2>1. Evicted(t, n) = t
    BY <1>5 DEF Evicted, Live
  <2>2. \A m \in Names : ~(m = old.name /\ old.dirty)
    BY <1>3, <1>5 DEF Live
  <2> QED BY <1>2, <2>1, <2>2
<1> QED BY <1>4, <1>5

(* An entry takes the slot of its name, which was not cached.               *)
Placed(t, n, e) == [Evicted(t, n) EXCEPT !.cache[Slot(n)] = e]

LEMMA PlacedKeeps ==
    ASSUME NEW t, Consistent(t), NEW n \in Names, ~Cached(t, n),
           NEW e \in Entries, e.name = n, e.dbref \in NamedDbrefs,
           ~e.dirty => t.disk[n] = e.dbref, NEW b
    PROVE  LET u == Placed(t, n, e)
           IN  /\ Consistent(u)
               /\ View(u) = [View(t) EXCEPT ![n] = e.dbref]
               /\ WritesBack(t, u)
               /\ u.cache[Slot(n)] = e
               /\ \A s \in Slots : s # Slot(n) => u.cache[s] = t.cache[s]
               /\ FlagsRight(t, b) /\ (e.on_disk <=> t.disk[n] # NoDbref /\ n \notin b)
                      => FlagsRight(u, b)
<1> DEFINE v   == Evicted(t, n)
           u   == Placed(t, n, e)
           old == t.cache[Slot(n)]
<1>1. Slot(n) \in Slots
  BY SlotInSlots
<1>2. /\ v \in AllTables
      /\ v.cache = t.cache
      /\ \A m \in Names : v.disk[m] = IF m = old.name /\ old.dirty
                                      THEN old.dbref ELSE t.disk[m]
  BY EvictedWrites
<1>3. u = [cache |-> [t.cache EXCEPT ![Slot(n)] = e], disk |-> v.disk]
  BY <1>2 DEF Placed, AllTables
<1>4. /\ t \in AllTables
      /\ u \in AllTables
  BY <1>1, <1>2, <1>3 DEF AllTables, Consistent
<1>5. /\ u.cache[Slot(n)] = e
      /\ \A s \in Slots : s # Slot(n) => u.cache[s] = t.cache[s]
      /\ u.disk = v.disk
  BY <1>1, <1>3, <1>4 DEF AllTables
<1>6. old.name # n
  BY DEF Cached
<1>7. u.disk[n] = t.disk[n]
  BY <1>2, <1>5, <1>6
<1>8. \A s \in Slots : s # Slot(n) /\ Live(t.cache[s]) =>
          /\ t.cache[s].name \in Names
          /\ t.cache[s].name # n
          /\ u.disk[t.cache[s].name] = t.disk[t.cache[s].name]
  <2> SUFFICES ASSUME NEW s \in Slots, s # Slot(n), Live(t.cache[s])
               PROVE  /\ t.cache[s].name \in Names
                      /\ t.cache[s].name # n
                      /\ u.disk[t.cache[s].name] = t.disk[t.cache[s].name]
    OBVIOUS
  <2>1. t.cache[s].name \in Names
    BY <1>4 DEF AllTables, Entries, Live
  <2>2. Slot(t.cache[s].name) = s
    BY DEF Consistent
  <2>3. Live(old) => Slot(old.name) = Slot(n)
    BY <1>1 DEF Consistent
  <2>4. t.cache[s].name # old.name
    BY <2>2, <2>3 DEF Live
  <2> QED BY <1>2, <1>5, <2>1, <2>2, <2>4
<1>9. Consistent(u)
  <2> SUFFICES ASSUME NEW s \in Slots, Live(u.cache[s])
               PROVE  /\ Slot(u.cache[s].name) = s
                      /\ u.cache[s].dbref \in NamedDbrefs
                      /\ ~u.cache[s].dirty => u.disk[u.cache[s].name] = u.cache[s].dbref
    BY <1>4 DEF Consistent
  <2>1. CASE s = Slot(n)
    BY <1>5, <1>7, <2>1
  <2>2. CASE s # Slot(n)
    BY <1>5, <1>8, <2>2 DEF Consistent
  <2> QED BY <2>1, <2>2
<1>10. View(u) = [View(t) EXCEPT ![n] = e.dbref]
  <2>1. SUFFICES ASSUME NEW m \in Names
                 PROVE  Retrieval(u, m) = IF m = n THEN e.dbref ELSE Retrieval(t, m)
    BY DEF View
  <2>2. CASE m = n
    BY <1>5, <2>2 DEF Retrieval, Cached
  <2>3. CASE m # n /\ Slot(m) # Slot(n)
    <3>1. Slot(m) \in Slots
      BY SlotInSlots
    <3>2. u.cache[Slot(m)] = t.cache[Slot(m)]
      BY <1>5, <2>3, <3>1
    <3>3. m # old.name
      <4>1. Live(old) => Slot(old.name) = Slot(n)
        BY <1>1 DEF Consistent
      <4> QED BY <2>3, <4>1, NameIsLive DEF Live
    <3>4. u.disk[m] = t.disk[m]
      BY <1>2, <1>5, <3>3
    <3> QED BY <2>3, <3>2, <3>4 DEF Retrieval, Cached
  <2>4. CASE m # n /\ Slot(m) = Slot(n)
    <3>1. ~Cached(u, m)
      BY <1>5, <2>4 DEF Cached
    <3>2. Retrieval(u, m) = v.disk[m]
      BY <1>5, <3>1 DEF Retrieval
    <3>3. CASE old.name = m
      <4>1. Retrieval(t, m) = old.dbref
        BY <2>4, <3>3 DEF Retrieval, Cached
      <4>2. ~old.dirty => t.disk[m] = old.dbref
        BY <1>1, <3>3, NameIsLive DEF Consistent, Live
      <4> QED BY <1>2, <2>4, <3>2, <3>3, <4>1, <4>2
    <3>4. CASE old.name # m
      <4>1. Retrieval(t, m) = t.disk[m]
        BY <2>4, <3>4 DEF Retrieval, Cached
      <4> QED BY <1>2, <2>4, <3>2, <3>4, <4>1
    <3> QED BY <3>3, <3>4
  <2> QED BY <2>2, <2>3, <2>4
<1>11. WritesBack(t, u)
  <2> SUFFICES ASSUME NEW m \in Names
               PROVE  u.disk[m] \in {t.disk[m], Retrieval(t, m)}
    BY DEF WritesBack, View
  <2>1. CASE m = old.name /\ old.dirty
    <3>1. Slot(m) = Slot(n)
      BY <1>1, <2>1, NameIsLive DEF Consistent, Live
    <3>2. Retrieval(t, m) = old.dbref
      BY <2>1, <3>1 DEF Retrieval, Cached
    <3> QED BY <1>2, <1>5, <2>1, <3>2
  <2>2. CASE ~(m = old.name /\ old.dirty)
    BY <1>2, <1>5, <2>2
  <2> QED BY <2>1, <2>2
<1>12. FlagsRight(t, b) /\ (e.on_disk <=> t.disk[n] # NoDbref /\ n \notin b)
           => FlagsRight(u, b)
  <2> SUFFICES ASSUME FlagsRight(t, b), e.on_disk <=> t.disk[n] # NoDbref /\ n \notin b,
                      NEW s \in Slots, Live(u.cache[s])
               PROVE  u.cache[s].on_disk <=> u.disk[u.cache[s].name] # NoDbref
                                             /\ u.cache[s].name \notin b
    BY DEF FlagsRight
  <2>1. CASE s = Slot(n)
    BY <1>5, <1>7, <2>1
  <2>2. CASE s # Slot(n)
    BY <1>5, <1>8, <2>2 DEF FlagsRight
  <2> QED BY <2>1, <2>2
<1> QED BY <1>5, <1>9, <1>10, <1>11, <1>12

-----------------------------------------------------------------------------
(* The functions of lookup.c, against the map.                              *)

(* A name that is no longer blind has no entry that says it were not on     *)
(* disk, if no entry of a blind name was written and kept.                  *)
Right(t, b) == FlagsRight(t, b) /\ BlindIsDirty(t, b)

LEMMA StillBlind ==
    ASSUME NEW u, Consistent(u), NEW b \in SUBSET Names, FlagsRight(u, b),
           \A s \in Slots : Live(u.cache[s]) /\ u.cache[s].name \in b => u.cache[s].dirty
    PROVE  Right(u, Unwritten(u, b))
<1>1. BlindIsDirty(u, Unwritten(u, b))
  BY DEF BlindIsDirty, Unwritten
<1>2. ASSUME NEW s \in Slots, Live(u.cache[s])
      PROVE  u.cache[s].name \in Unwritten(u, b) <=> u.cache[s].name \in b
  <2>1. Cached(u, u.cache[s].name) /\ Slot(u.cache[s].name) = s
    BY <1>2 DEF Consistent, Cached
  <2> QED BY <1>2, <2>1 DEF Unwritten
<1> QED BY <1>1, <1>2 DEF Right, FlagsRight

(* The entries of blind names are dirty.                                    *)
LEMMA BlindEntries ==
    ASSUME NEW t, Consistent(t), NEW b, BlindIsDirty(t, b)
    PROVE  /\ \A n \in b : Cached(t, n)
           /\ \A s \in Slots : Live(t.cache[s]) /\ t.cache[s].name \in b => t.cache[s].dirty
<1>1. \A n \in b : Cached(t, n) /\ t.cache[Slot(n)].dirty
  BY DEF BlindIsDirty, Unwritten
<1> QED BY <1>1 DEF Consistent

(* lookup_retrieve_name leaves the map alone.                               *)
LEMMA RetrievedKeeps ==
    ASSUME NEW t, Consistent(t), NEW n \in Names, NEW b
    PROVE  LET u == Retrieved(t, n)
           IN  /\ Consistent(u)
               /\ View(u) = View(t)
               /\ WritesBack(t, u)
               /\ Right(t, b) => Right(u, Unwritten(u, b))
<1> DEFINE u == Retrieved(t, n)
           e == NameEntry(n, t.disk[n], FALSE, TRUE)
<1>1. Slot(n) \in Slots
  BY SlotInSlots
<1>2. CASE Cached(t, n) \/ t.disk[n] = NoDbref
  <2>1. u = t
    BY <1>2 DEF Retrieved
  <2>2. WritesBack(t, t)
    BY DEF WritesBack
  <2>3. Right(t, b) => Right(t, Unwritten(t, b))
    BY DEF Right, BlindIsDirty
  <2> QED BY <1>2, <2>1, <2>2, <2>3
<1>3. CASE ~Cached(t, n) /\ t.disk[n] # NoDbref
  <2>1. u = Placed(t, n, e)
    BY <1>3 DEF Retrieved, Placed
  <2>2. t.disk[n] \in NamedDbrefs
    BY <1>3 DEF Consistent, AllTables
  <2>3. /\ e \in Entries /\ e.name = n /\ e.dbref = t.disk[n]
        /\ e.on_disk /\ ~e.dirty
    BY <2>2 DEF NameEntry, Entries
  <2> HIDE DEF e
  <2>4. /\ Consistent(u)
        /\ View(u) = [View(t) EXCEPT ![n] = t.disk[n]]
        /\ WritesBack(t, u)
        /\ u.cache[Slot(n)] = e
        /\ \A s \in Slots : s # Slot(n) => u.cache[s] = t.cache[s]
        /\ FlagsRight(t, b) /\ n \notin b => FlagsRight(u, b)
    BY <1>3, <2>1, <2>2, <2>3, PlacedKeeps
  <2>5. View(t)[n] = t.disk[n]
    BY <1>3, ViewIsMap DEF Retrieval
  <2>6. View(u) = View(t)
    BY <2>4, <2>5, ViewIsMap
  <2>7. ASSUME Right(t, b)
        PROVE  Right(u, Unwritten(u, b))
    <3>1. b \in SUBSET Names /\ n \notin b
      BY <1>3, <2>7, BlindEntries DEF Right, BlindIsDirty
    <3>2. \A s \in Slots : Live(u.cache[s]) /\ u.cache[s].name \in b => u.cache[s].dirty
      BY <2>3, <2>4, <2>7, <3>1, BlindEntries DEF Right
    <3> HIDE DEF u
    <3> QED BY <2>4, <2>7, <3>1, <3>2, StillBlind DEF Right
  <2> QED BY <2>4, <2>6, <2>7
<1> QED BY <1>2, <1>3

(* lookup_store_name binds the name, and says that it is not on disk unless *)
(* it is cached already.                                                    *)
StoredPast(t, n) == IF Cached(t, n) \/ t.disk[n] = NoDbref THEN {} ELSE {n}

LEMMA StoredBinds ==
    ASSUME NEW t, Consistent(t), NEW n \in Names, NEW d \in NamedDbrefs, NEW b
    PROVE  LET u == Stored(t, n, d)
           IN  /\ Consistent(u)
               /\ View(u) = [View(t) EXCEPT ![n] = d]
               /\ WritesBack(t, u)
               /\ Right(t, b) => Right(u, Unwritten(u, b \cup StoredPast(t, n)))
<1> DEFINE u   == Stored(t, n, d)
           old == t.cache[Slot(n)]
<1>1. Slot(n) \in Slots
  BY SlotInSlots
<1>2. t \in AllTables /\ old \in Entries
  BY <1>1 DEF Consistent, AllTables
<1>3. CASE Cached(t, n) /\ old.dbref = d
  <2>1. u = t
    BY <1>3 DEF Stored
  <2>2. View(t)[n] = d
    BY <1>3, ViewIsMap DEF Retrieval
  <2>3. View(t) = [View(t) EXCEPT ![n] = d]
    BY <2>2, ViewIsMap
  <2>4. WritesBack(t, t)
    BY DEF WritesBack
  <2>5. StoredPast(t, n) = {}
    BY <1>3 DEF StoredPast
  <2>6. Right(t, b) => Right(t, Unwritten(t, b \cup StoredPast(t, n)))
    BY <2>5 DEF Right, BlindIsDirty
  <2> QED BY <2>1, <2>3, <2>4, <2>6
<1>4. CASE Cached(t, n) /\ old.dbref # d
  <2> DEFINE e == [old EXCEPT !.dbref = d, !.dirty = TRUE]
  <2>1. /\ e \in Entries /\ e.name = n /\ e.dbref = d /\ e.dirty
        /\ e.on_disk = old.on_disk
    BY <1>2, <1>4 DEF Entries, Cached
  <2>2. u = [cache |-> [t.cache EXCEPT ![Slot(n)] = e], disk |-> t.disk]
    BY <1>1, <1>2, <1>4 DEF Stored, AllTables
  <2> HIDE DEF e
  <2>3. /\ u \in AllTables
        /\ u.disk = t.disk
        /\ u.cache[Slot(n)] = e
        /\ \A s \in Slots : s # Slot(n) => u.cache[s] = t.cache[s]
    BY <1>1, <1>2, <2>1, <2>2 DEF AllTables
  <2>4. Consistent(u)
    <3> SUFFICES ASSUME NEW s \in Slots, Live(u.cache[s])
                 PROVE  /\ Slot(u.cache[s].name) = s
                        /\ u.cache[s].dbref \in NamedDbrefs
                        /\ ~u.cache[s].dirty => u.disk[u.cache[s].name] = u.cache[s].dbref
      BY <2>3 DEF Consistent
    <3>1. CASE s = Slot(n)
      BY <2>1, <2>3, <3>1
    <3>2. CASE s # Slot(n)
      BY <2>3, <3>2 DEF Consistent
    <3> QED BY <3>1, <3>2
  <2>5. \A m \in Names : Retrieval(u, m) = IF m = n THEN d ELSE Retrieval(t, m)
    <3> SUFFICES ASSUME NEW m \in Names
                 PROVE  Retrieval(u, m) = IF m = n THEN d ELSE Retrieval(t, m)
      OBVIOUS
    <3>1. Slot(m) \in Slots
      BY SlotInSlots
    <3>2. CASE Slot(m) = Slot(n)
      BY <1>4, <2>1, <2>3, <3>2 DEF Retrieval, Cached
    <3>3. CASE Slot(m) # Slot(n)
      BY <2>3, <3>1, <3>3 DEF Retrieval, Cached
    <3> QED BY <3>2, <3>3
  <2>6. View(u) = [View(t) EXCEPT ![n] = d]
    BY <2>5 DEF View
  <2>7. WritesBack(t, u)
    BY <2>3 DEF WritesBack
  <2>8. FlagsRight(t, b) => FlagsRight(u, b)
    <3> SUFFICES ASSUME FlagsRight(t, b), NEW s \in Slots, Live(u.cache[s])
                 PROVE  u.cache[s].on_disk <=> u.disk[u.cache[s].name] # NoDbref
                                               /\ u.cache[s].name \notin b
      BY DEF FlagsRight
    <3>1. CASE s = Slot(n)
      <4>1. Live(old) /\ old.name = n
        BY <1>4, NameIsLive DEF Cached, Live
      <4> QED BY <1>1, <2>1, <2>3, <3>1, <4>1 DEF FlagsRight
    <3>2. CASE s # Slot(n)
      BY <2>3, <3>2 DEF FlagsRight
    <3> QED BY <3>1, <3>2
  <2>9. ASSUME Right(t, b)
        PROVE  Right(u, Unwritten(u, b \cup StoredPast(t, n)))
    <3>1. b \in SUBSET Names /\ b \cup StoredPast(t, n) = b
      BY <1>4, <2>9 DEF StoredPast, Right, BlindIsDirty
    <3>2. \A s \in Slots : Live(u.cache[s]) /\ u.cache[s].name \in b => u.cache[s].dirty
      BY <2>1, <2>3, <2>9, BlindEntries DEF Right
    <3> HIDE DEF u
    <3> QED BY <2>4, <2>8, <2>9, <3>1, <3>2, StillBlind DEF Right
  <2> QED BY <2>4, <2>6, <2>7, <2>9
<1>5. CASE ~Cached(t, n)
  <2> DEFINE e == NameEntry(n, d, TRUE, FALSE)
  <2>1. u = Placed(t, n, e)
    BY <1>5 DEF Stored, Placed
  <2>2. /\ e \in Entries /\ e.name = n /\ e.dbref = d
        /\ e.dirty /\ ~e.on_disk
    BY DEF NameEntry, Entries
  <2> DEFINE c == b \cup StoredPast(t, n)
  <2> HIDE DEF e
  <2>3. /\ Consistent(u)
        /\ View(u) = [View(t) EXCEPT ![n] = d]
        /\ WritesBack(t, u)
        /\ u.cache[Slot(n)] = e
        /\ \A s \in Slots : s # Slot(n) => u.cache[s] = t.cache[s]
        /\ FlagsRight(t, c) /\ ~(t.disk[n] # NoDbref /\ n \notin c) => FlagsRight(u, c)
    BY <1>5, <2>1, <2>2, PlacedKeeps
  <2>4. ASSUME Right(t, b)
        PROVE  Right(u, Unwritten(u, c))
    <3>1. c \in SUBSET Names /\ ~(t.disk[n] # NoDbref /\ n \notin c)
      BY <1>5, <2>4 DEF Right, BlindIsDirty, StoredPast
    <3>2. \A m \in c : m \in b \/ m = n
      BY DEF StoredPast
    <3>3. FlagsRight(t, c)
      <4>1. ASSUME NEW s \in Slots, Live(t.cache[s])
            PROVE  t.cache[s].name \in c <=> t.cache[s].name \in b
        BY <1>5, <3>2, <4>1, CachedInOneSlot DEF Cached
      <4> QED BY <2>4, <4>1 DEF Right, FlagsRight
    <3>4. \A s \in Slots : Live(u.cache[s]) /\ u.cache[s].name \in c => u.cache[s].dirty
      <4> SUFFICES ASSUME NEW s \in Slots, Live(u.cache[s]), u.cache[s].name \in c
                   PROVE  u.cache[s].dirty
        OBVIOUS
      <4>1. CASE s = Slot(n)
        BY <2>2, <2>3, <4>1
      <4>2. CASE s # Slot(n)
        <5>1. u.cache[s] = t.cache[s]
          BY <2>3, <4>2
        <5>2. u.cache[s].name # n
          BY <4>2, <5>1, CachedInOneSlot
        <5> QED BY <2>4, <3>2, <5>1, <5>2, BlindEntries DEF Right
      <4> QED BY <4>1, <4>2
    <3> HIDE DEF u, c
    <3> QED BY <2>3, <3>1, <3>3, <3>4, StillBlind
  <2> QED BY <2>3, <2>4
<1> QED BY <1>3, <1>4, <1>5

(* lookup_remove_name says whether the name was bound, and unbinds it if it *)
(* was not blind; no other name changes.                                    *)
LEMMA RemovedUnbinds ==
    ASSUME NEW t, Consistent(t), NEW n \in Names, NEW b
    PROVE  LET u == Removed(t, n)
           IN  /\ Consistent(u)
               /\ \A m \in Names : m # n => /\ u.disk[m] = t.disk[m]
                                           /\ View(u)[m] = View(t)[m]
               /\ Right(t, b) => /\ n \notin b => View(u)[n] = NoDbref
                                 /\ Right(u, Unwritten(u, b))
<1> DEFINE u   == Removed(t, n)
           old == t.cache[Slot(n)]
           e   == IF Cached(t, n) THEN [old EXCEPT !.name = NOT_AN_IDENT] ELSE old
<1>1. Slot(n) \in Slots
  BY SlotInSlots
<1>2. t \in AllTables /\ old \in Entries
  BY <1>1 DEF Consistent, AllTables
<1>3. e \in Entries /\ e.name # n /\ (Cached(t, n) => ~Live(e)) /\ (~Cached(t, n) => e = old)
  BY <1>2, NameIsLive DEF Entries, Cached, Live
<1>4. /\ u.cache = [t.cache EXCEPT ![Slot(n)] = e]
      /\ u.disk = IF Cached(t, n) /\ ~old.on_disk THEN t.disk
                  ELSE [t.disk EXCEPT ![n] = NoDbref]
      /\ u = [cache |-> u.cache, disk |-> u.disk]
  <2>1. CASE Cached(t, n)
    BY <1>1, <1>2, <2>1 DEF Removed, AllTables
  <2>2. CASE ~Cached(t, n)
    BY <1>1, <1>2, <2>2 DEF Removed, AllTables
  <2> QED BY <2>1, <2>2
<1> HIDE DEF e
<1>5. /\ u \in AllTables
      /\ u.cache[Slot(n)] = e
      /\ \A s \in Slots : s # Slot(n) => u.cache[s] = t.cache[s]
      /\ \A m \in Names : m # n => u.disk[m] = t.disk[m]
  BY <1>1, <1>2, <1>3, <1>4 DEF AllTables
<1>6. \A s \in Slots : Live(u.cache[s]) =>
          /\ u.cache[s] = t.cache[s]
          /\ u.cache[s].name \in Names
          /\ u.cache[s].name # n
  <2> SUFFICES ASSUME NEW s \in Slots, Live(u.cache[s])
               PROVE  /\ u.cache[s] = t.cache[s]
                      /\ u.cache[s].name \in Names
                      /\ u.cache[s].name # n
    OBVIOUS
  <2>1. u.cache[s].name \in Names
    BY <1>5 DEF AllTables, Entries, Live
  <2>2. CASE s = Slot(n)
    BY <1>3, <1>5, <2>1, <2>2
  <2>3. CASE s # Slot(n)
    BY <1>5, <2>1, <2>3, CachedInOneSlot
  <2> QED BY <2>2, <2>3
<1>7. Consistent(u)
  BY <1>5, <1>6 DEF Consistent
<1>8. ASSUME NEW m \in Names, m # n
      PROVE  Retrieval(u, m) = Retrieval(t, m)
  <2>1. Slot(m) \in Slots /\ u.disk[m] = t.disk[m]
    BY <1>5, <1>8, SlotInSlots
  <2>2. Cached(u, m) = Cached(t, m)
    <3>1. CASE Slot(m) # Slot(n)
      BY <1>5, <2>1, <3>1 DEF Cached
    <3>2. CASE Slot(m) = Slot(n) /\ Cached(t, n)
      BY <1>3, <1>5, <1>8, <3>2, NameIsLive DEF Cached, Live
    <3>3. CASE Slot(m) = Slot(n) /\ ~Cached(t, n)
      BY <1>3, <1>5, <3>3 DEF Cached
    <3> QED BY <3>1, <3>2, <3>3
  <2>3. Cached(u, m) => u.cache[Slot(m)] = t.cache[Slot(m)]
    BY <1>6, <2>1, NameIsLive DEF Cached, Live
  <2> QED BY <2>1, <2>2, <2>3 DEF Retrieval
<1>9. \A m \in Names : m # n => View(u)[m] = View(t)[m]
  BY <1>8 DEF View
<1>10. ASSUME FlagsRight(t, b), n \notin b
       PROVE  View(u)[n] = NoDbref
  <2>1. Cached(t, n) => (old.on_disk <=> t.disk[n] # NoDbref)
    BY <1>1, <1>10, NameIsLive DEF FlagsRight, Cached, Live
  <2>2. u.disk[n] = NoDbref
    BY <1>2, <1>4, <2>1 DEF AllTables
  <2>3. Retrieval(u, n) = NoDbref
    BY <1>3, <1>5, <2>2 DEF Retrieval, Cached
  <2> QED BY <2>3 DEF View
<1>11. ASSUME Right(t, b)
       PROVE  Right(u, Unwritten(u, b))
  <2>1. FlagsRight(u, b) /\ b \in SUBSET Names
    BY <1>5, <1>6, <1>11 DEF Right, FlagsRight, BlindIsDirty
  <2>2. \A s \in Slots : Live(u.cache[s]) /\ u.cache[s].name \in b => u.cache[s].dirty
    BY <1>6, <1>11, BlindEntries DEF Right
  <2> HIDE DEF u
  <2> QED BY <1>7, <2>1, <2>2, StillBlind
<1> QED BY <1>5, <1>7, <1>9, <1>10, <1>11 DEF Right

(* The result of lookup_remove_name is whether the name was bound.          *)
LEMMA RemovalIs ==
    ASSUME NEW t, Consistent(t), NEW n \in Names, NEW b, FlagsRight(t, b)
    PROVE  Removal(t, n) <=> Retrieval(t, n) # NoDbref
<1>1. Slot(n) \in Slots
  BY SlotInSlots
<1>2. CASE Cached(t, n)
  <2>1. Live(t.cache[Slot(n)]) /\ t.cache[Slot(n)].name = n
    BY <1>2, NameIsLive DEF Cached, Live
  <2>2. t.cache[Slot(n)].dbref # NoDbref
    BY <1>1, <2>1, NameAssumption DEF Consistent
  <2>3. t.cache[Slot(n)].on_disk => t.disk[n] # NoDbref
    BY <1>1, <2>1 DEF FlagsRight
  <2> QED BY <1>2, <2>2, <2>3 DEF Removal, Retrieval
<1>3. CASE ~Cached(t, n)
  BY <1>3 DEF Removal, Retrieval
<1> QED BY <1>2, <1>3

(* sync_name_cache leaves the map alone and makes the index equal to it.    *)
LEMMA SyncedWritesAll ==
    ASSUME NEW t, Consistent(t), NEW b
    PROVE  LET u == Synced(t)
           IN  /\ Consistent(u)
               /\ View(u) = View(t)
               /\ u.disk = View(t)
               /\ Right(t, b) => Right(u, Unwritten(u, b))
<1> DEFINE u   == Synced(t)
           Out(s) == t.cache[s].name # NOT_AN_IDENT /\ t.cache[s].dirty
<1>1. t \in AllTables
  BY DEF Consistent
<1>2. /\ u = [cache |-> u.cache, disk |-> u.disk]
      /\ u.cache = [s \in Slots |-> IF Out(s) THEN [t.cache[s] EXCEPT !.dirty = FALSE, !.on_disk = TRUE]
                                              ELSE t.cache[s]]
      /\ u.disk = [n \in Names |-> IF Slot(n) \in {s \in Slots : Out(s)} /\ t.cache[Slot(n)].name = n
                                   THEN t.cache[Slot(n)].dbref ELSE t.disk[n]]
  BY DEF Synced
<1>3. \A s \in Slots : /\ t.cache[s] \in Entries
                       /\ u.cache[s] \in Entries
                       /\ u.cache[s].name = t.cache[s].name
                       /\ u.cache[s].dbref = t.cache[s].dbref
                       /\ Out(s) => u.cache[s].on_disk
                       /\ ~Out(s) => u.cache[s] = t.cache[s]
  <2> SUFFICES ASSUME NEW s \in Slots
               PROVE  /\ t.cache[s] \in Entries
                      /\ u.cache[s] \in Entries
                      /\ u.cache[s].name = t.cache[s].name
                      /\ u.cache[s].dbref = t.cache[s].dbref
                      /\ Out(s) => u.cache[s].on_disk
                      /\ ~Out(s) => u.cache[s] = t.cache[s]
    OBVIOUS
  <2>1. t.cache[s] \in Entries
    BY <1>1 DEF AllTables
  <2>2. u.cache[s] = IF Out(s) THEN [t.cache[s] EXCEPT !.dirty = FALSE, !.on_disk = TRUE]
                               ELSE t.cache[s]
    BY <1>2
  <2> HIDE DEF u, Out
  <2>3. CASE Out(s)
    BY <2>1, <2>2, <2>3 DEF Entries
  <2>4. CASE ~Out(s)
    BY <2>1, <2>2, <2>4
  <2> QED BY <2>3, <2>4, <2>1
<1>4. \A n \in Names : u.disk[n] = Retrieval(t, n)
  <2> SUFFICES ASSUME NEW n \in Names
               PROVE  u.disk[n] = Retrieval(t, n)
    OBVIOUS
  <2>1. Slot(n) \in Slots
    BY SlotInSlots
  <2>2. CASE ~Cached(t, n)
    BY <1>2, <2>2 DEF Retrieval, Cached
  <2>3. CASE Cached(t, n) /\ Out(Slot(n))
    <3>1. Slot(n) \in {s \in Slots : Out(s)}
      BY <2>1, <2>3
    <3>2. u.disk[n] = IF Slot(n) \in {s \in Slots : Out(s)} /\ t.cache[Slot(n)].name = n
                      THEN t.cache[Slot(n)].dbref ELSE t.disk[n]
      BY <1>2
    <3> QED BY <2>3, <3>1, <3>2 DEF Retrieval, Cached
  <2>4. CASE Cached(t, n) /\ ~Out(Slot(n))
    <3>1. Live(t.cache[Slot(n)]) /\ ~t.cache[Slot(n)].dirty /\ t.cache[Slot(n)].name = n
      BY <2>4, NameIsLive DEF Cached, Live
    <3>2. t.disk[n] = t.cache[Slot(n)].dbref
      BY <2>1, <3>1 DEF Consistent
    <3>3. u.disk[n] = t.disk[n]
      BY <1>2, <2>4
    <3> QED BY <2>4, <3>2, <3>3 DEF Retrieval
  <2> QED BY <2>2, <2>3, <2>4
<1>5. u.disk = View(t)
  BY <1>2, <1>4 DEF View
<1>6. u \in AllTables
  <2>1. u.cache \in [Slots -> Entries]
    BY <1>2, <1>3
  <2>2. u.disk \in [Names -> NamedDbrefs \cup {NoDbref}]
    BY <1>5, ViewIsMap
  <2> QED BY <1>2, <2>1, <2>2 DEF AllTables
<1> HIDE DEF u
<1>7. \A s \in Slots : Live(u.cache[s]) =>
          /\ Live(t.cache[s])
          /\ u.cache[s].name \in Names
          /\ Slot(u.cache[s].name) = s
          /\ u.cache[s].dbref \in NamedDbrefs
          /\ u.disk[u.cache[s].name] = u.cache[s].dbref
  <2> SUFFICES ASSUME NEW s \in Slots, Live(u.cache[s])
               PROVE  /\ Live(t.cache[s])
                      /\ u.cache[s].name \in Names
                      /\ Slot(u.cache[s].name) = s
                      /\ u.cache[s].dbref \in NamedDbrefs
                      /\ u.disk[u.cache[s].name] = u.cache[s].dbref
    OBVIOUS
  <2>1. Live(t.cache[s]) /\ u.cache[s].name \in Names
    BY <1>3 DEF Live, Entries
  <2>2. Slot(u.cache[s].name) = s /\ u.cache[s].dbref \in NamedDbrefs
    BY <1>3, <2>1 DEF Consistent
  <2>3. Retrieval(t, u.cache[s].name) = t.cache[s].dbref
    BY <1>3, <2>2 DEF Retrieval, Cached
  <2> QED BY <1>3, <1>4, <2>1, <2>2, <2>3
<1>8. Consistent(u)
  BY <1>6, <1>7 DEF Consistent
<1>9. \A n \in Names : Retrieval(u, n) = Retrieval(t, n)
  <2> SUFFICES ASSUME NEW n \in Names
               PROVE  Retrieval(u, n) = Retrieval(t, n)
    OBVIOUS
  <2>1. Slot(n) \in Slots
    BY SlotInSlots
  <2>2. Cached(u, n) = Cached(t, n) /\ u.cache[Slot(n)].dbref = t.cache[Slot(n)].dbref
    BY <1>3, <2>1 DEF Cached
  <2> QED BY <1>4, <2>2 DEF Retrieval
<1>10. View(u) = View(t)
  BY <1>9 DEF View
<1>11. \A s \in Slots : Live(u.cache[s]) => ~u.cache[s].dirty
  <2> SUFFICES ASSUME NEW s \in Slots, Live(u.cache[s])
               PROVE  ~u.cache[s].dirty
    OBVIOUS
  <2>1. u.cache[s] = IF Out(s) THEN [t.cache[s] EXCEPT !.dirty = FALSE, !.on_disk = TRUE]
                               ELSE t.cache[s]
    BY <1>2 DEF u
  <2>2. t.cache[s] \in Entries /\ Live(t.cache[s])
    BY <1>3, <1>7
  <2> QED BY <2>1, <2>2 DEF Entries, Live
<1>12. ASSUME Right(t, b)
       PROVE  Right(u, Unwritten(u, b))
  <2>1. Unwritten(u, b) = {}
    <3>1. ASSUME NEW n \in b, Cached(u, n)
          PROVE  ~u.cache[Slot(n)].dirty
      <4>1. n \in Names
        BY <1>12 DEF Right, BlindIsDirty
      <4> QED BY <1>11, <3>1, <4>1, SlotInSlots, NameIsLive DEF Cached, Live
    <3> QED BY <3>1 DEF Unwritten
  <2>2. FlagsRight(u, {})
    <3> SUFFICES ASSUME NEW s \in Slots, Live(u.cache[s])
                 PROVE  u.cache[s].on_disk /\ u.disk[u.cache[s].name] # NoDbref
      BY DEF FlagsRight
    <3>1. u.disk[u.cache[s].name] # NoDbref
      BY <1>7, NameAssumption
    <3>2. CASE Out(s)
      BY <1>3, <3>1, <3>2
    <3>3. CASE ~Out(s)
      <4>1. ~t.cache[s].dirty /\ u.cache[s] = t.cache[s] /\ Live(t.cache[s])
        BY <1>3, <1>7, <3>3 DEF Live
      <4>2. t.disk[t.cache[s].name] = t.cache[s].dbref /\ t.cache[s].dbref # NoDbref
        BY <1>7, <4>1, NameAssumption DEF Consistent
      <4>3. t.cache[s].name \notin b
        BY <1>12, <4>1, BlindEntries DEF Right
      <4>4. t.cache[s].on_disk
        BY <1>12, <4>1, <4>2, <4>3 DEF Right, FlagsRight
      <4> QED BY <3>1, <4>1, <4>4
    <3> QED BY <3>2, <3>3
  <2> QED BY <2>1, <2>2 DEF Right, BlindIsDirty, Unwritten
<1> QED BY <1>5, <1>8, <1>10, <1>12, Zenon DEF u

-----------------------------------------------------------------------------
(* The cache and the index stay consistent, whatever C-- code does.         *)

IInv == NameTypeOK /\ Consistent(Tables)

LEMMA BecomeTables ==
    ASSUME NEW u \in AllTables, NEW b, Become(u, b)
    PROVE  Tables' = u /\ diskNames' = u.disk /\ blind' = Unwritten(u, b)
  BY DEF Become, Tables, AllTables

LEMMA EmptyIsConsistent ==
    ASSUME NEW disk \in [Names -> NamedDbrefs \cup {NoDbref}]
    PROVE  LET t == [cache |-> Empty, disk |-> disk]
           IN  /\ Consistent(t) /\ Right(t, {}) /\ View(t) = disk
               /\ Unwritten(t, {}) = {}
<1> DEFINE t == [cache |-> Empty, disk |-> disk]
<1>1. Free \in Entries /\ ~Live(Free)
  BY DEF Free, Entries, Live
<1>2. /\ t \in AllTables
      /\ \A s \in Slots : t.cache[s] = Free
  BY <1>1 DEF Empty, AllTables
<1>3. \A n \in Names : Retrieval(t, n) = disk[n]
  BY <1>2, SlotInSlots, NameIsLive DEF Retrieval, Cached, Free
<1>4. View(t) = disk
  BY <1>3 DEF View
<1> QED BY <1>1, <1>2, <1>4 DEF Consistent, Right, FlagsRight, BlindIsDirty, Unwritten

(* NameTypeOK says of the tables what Consistent does.                          *)
LEMMA ConsistentIsTyped ==
    ASSUME Consistent(Tables)'
    PROVE  /\ name_cache' \in [Slots -> Entries]
           /\ \A s \in Slots : name_cache'[s].name # NOT_AN_IDENT => name_cache'[s].dbref \in NamedDbrefs
           /\ diskNames' \in [Names -> NamedDbrefs \cup {NoDbref}]
  BY DEF Consistent, Tables, AllTables, Live

LEMMA InitIInv ==
    NameInit => IInv
<1> SUFFICES ASSUME NameInit PROVE IInv
  OBVIOUS
<1>1. Unbound \in [Names -> NamedDbrefs \cup {NoDbref}]
  BY DEF Unbound
<1>2. Consistent(Tables)
  BY <1>1, EmptyIsConsistent DEF NameInit, Tables
<1>3. NameTypeOK
  BY <1>1, <1>2 DEF NameInit, NameTypeOK, Consistent, Tables, AllTables, Entries, Live
<1> QED BY <1>2, <1>3 DEF IInv

LEMMA NextIInv ==
    IInv /\ [NameNext]_nameVars => IInv'
<1> SUFFICES ASSUME IInv, [NameNext]_nameVars PROVE IInv'
  OBVIOUS
<1> USE DEF IInv
<1>1. ASSUME Consistent(Tables)', blind' \subseteq Names,
             opened' \in BOOLEAN /\ clean' \in BOOLEAN,
             {names', saved'} \subseteq [Names -> NamedDbrefs \cup {NoDbref}],
             {touched', missed'} \subseteq SUBSET Names
      PROVE  IInv'
  BY <1>1, ConsistentIsTyped DEF NameTypeOK, Entries
<1>2. ASSUME NEW u, Consistent(u), NEW b \in SUBSET Names, Become(u, b)
      PROVE  Consistent(Tables)' /\ blind' \subseteq Names /\ diskNames' = u.disk
  <2>1. u \in AllTables
    BY <1>2 DEF Consistent
  <2>2. Tables' = u /\ blind' = Unwritten(u, b) /\ diskNames' = u.disk
    BY <1>2, <2>1, BecomeTables
  <2> QED BY <1>2, <2>2 DEF Unwritten
<1>3. CASE LookupOpen
  <2> DEFINE d == IF clean THEN diskNames ELSE Unbound
  <2>1. d \in [Names -> NamedDbrefs \cup {NoDbref}]
    BY DEF NameTypeOK, Unbound
  <2>2. Become([cache |-> Empty, disk |-> d], {})
    BY <1>3 DEF LookupOpen
  <2> HIDE DEF d
  <2>3. Consistent([cache |-> Empty, disk |-> d])
    BY <2>1, EmptyIsConsistent
  <2>4. Consistent(Tables)' /\ blind' \subseteq Names /\ diskNames' = d
    BY <1>2, <2>2, <2>3
  <2> QED BY <1>1, <1>3, <2>1, <2>4 DEF LookupOpen
<1>4. CASE NameFlush
  <2>1. Consistent(Synced(Tables))
    BY SyncedWritesAll
  <2>2. Consistent(Tables)' /\ blind' \subseteq Names
    BY <1>2, <1>4, <2>1 DEF NameFlush, NameTypeOK
  <2> QED BY <1>1, <1>4, <2>2 DEF NameFlush, NameTypeOK
<1>5. CASE LookupFirstName
  <2>1. Consistent(Synced(Tables))
    BY SyncedWritesAll
  <2>2. Consistent(Tables)' /\ blind' \subseteq Names
    BY <1>2, <1>5, <2>1 DEF LookupFirstName, NameTypeOK
  <2> QED BY <1>1, <1>5, <2>2 DEF LookupFirstName, NameTypeOK
<1>6. CASE ObjectWritten
  <2>1. Tables' = Tables
    BY <1>6 DEF ObjectWritten, Tables
  <2>2. Consistent(Tables)'
    BY <2>1
  <2> QED BY <1>1, <1>6, <2>2 DEF ObjectWritten, NameTypeOK
<1>7. CASE NameCrash
  <2>1. Consistent([cache |-> Empty, disk |-> diskNames])
    BY EmptyIsConsistent DEF NameTypeOK
  <2>2. Consistent(Tables)' /\ blind' \subseteq Names
    BY <1>2, <1>7, <2>1 DEF NameCrash
  <2> QED BY <1>1, <1>7, <2>2 DEF NameCrash, NameTypeOK
<1>8. ASSUME NEW n \in Names, LookupRetrieveName(n)
      PROVE  IInv'
  <2>1. Consistent(Retrieved(Tables, n))
    BY RetrievedKeeps
  <2>2. Consistent(Tables)' /\ blind' \subseteq Names
    BY <1>2, <1>8, <2>1 DEF LookupRetrieveName, NameTypeOK
  <2> QED BY <1>1, <1>8, <2>2 DEF LookupRetrieveName, NameTypeOK
<1>9. ASSUME NEW n \in Names, LookupRemoveName(n)
      PROVE  IInv'
  <2>1. Consistent(Removed(Tables, n))
    BY RemovedUnbinds
  <2>2. Consistent(Tables)' /\ blind' \subseteq Names
    BY <1>2, <1>9, <2>1 DEF LookupRemoveName, NameTypeOK
  <2> QED BY <1>1, <1>9, <2>2 DEF LookupRemoveName, NameTypeOK
<1>10. ASSUME NEW n \in Names, NEW d \in NamedDbrefs, LookupStoreName(n, d)
       PROVE  IInv'
  <2>1. Consistent(Stored(Tables, n, d))
    BY StoredBinds
  <2>2. Consistent(Tables)' /\ blind' \subseteq Names
    <3>1. Become(Stored(Tables, n, d), blind \cup StoredPast(Tables, n))
      BY <1>10 DEF LookupStoreName, StoredPast, Tables
    <3>2. blind \cup StoredPast(Tables, n) \in SUBSET Names
      BY DEF StoredPast, NameTypeOK
    <3> QED BY <1>2, <2>1, <3>1, <3>2
  <2> QED BY <1>1, <1>10, <2>2 DEF LookupStoreName, NameTypeOK
<1>11. CASE UNCHANGED nameVars
  <2>1. Tables' = Tables
    BY <1>11 DEF nameVars, Tables
  <2>2. Consistent(Tables)'
    BY <2>1
  <2> QED BY <1>1, <1>11, <2>2 DEF nameVars, NameTypeOK
<1> QED BY <1>3, <1>4, <1>5, <1>6, <1>7, <1>8, <1>9, <1>10, <1>11 DEF NameNext

LEMMA AlwaysIInv ==
    NameSpec => []IInv
  BY InitIInv, NextIInv, PTL DEF NameSpec

(* The slots of name_cache hold names that belong there, bound to objects.  *)
THEOREM NamesTypeCorrect ==
    NameSpec => []NameTypeOK
  BY AlwaysIInv, PTL DEF IInv

(* lookup.c writes an entry back when its slot goes to another name only if *)
(* it is dirty: one that is not says what the index says.                   *)
THEOREM CleanSlotsAgreeWithDisk ==
    NameSpec => []CleanSlotsOnDisk
<1>1. IInv => CleanSlotsOnDisk
  BY DEF IInv, Consistent, Tables, Live, CleanSlotsOnDisk
<1> QED BY <1>1, AlwaysIInv, PTL

-----------------------------------------------------------------------------
(* But for the names whose removal missed the index, the cache and the      *)
(* index are the map of names, and what is not touched is as it was saved.  *)

MInv ==
    /\ Right(Tables, blind)
    /\ opened => \A n \in Names \ missed : View(Tables)[n] = names[n]
    /\ opened => \A n \in Names \ (touched \cup missed) : names[n] = saved[n]
    /\ OnlyTouchedNamesMove

(* What a step that writes only the map to the index keeps of the names     *)
(* that were not touched.                                                   *)
LEMMA WritingBackMovesNothing ==
    ASSUME IInv, MInv, opened, WritesBack(Tables, Tables'),
           clean' => clean, saved' = saved,
           touched \cup missed \subseteq touched' \cup missed'
    PROVE  OnlyTouchedNamesMove'
<1> SUFFICES ASSUME NEW n \in Names \ (touched' \cup missed'), clean
             PROVE  diskNames'[n] = saved[n]
  BY DEF OnlyTouchedNamesMove
<1>1. diskNames[n] = saved[n] /\ View(Tables)[n] = saved[n]
  BY DEF MInv, OnlyTouchedNamesMove
<1> QED BY <1>1 DEF WritesBack, Tables

LEMMA InitMInv ==
    NameInit => MInv
<1> SUFFICES ASSUME NameInit PROVE MInv
  OBVIOUS
<1>1. Unbound \in [Names -> NamedDbrefs \cup {NoDbref}]
  BY DEF Unbound
<1>2. Right(Tables, {})
  BY <1>1, EmptyIsConsistent DEF NameInit, Tables
<1> QED BY <1>2 DEF NameInit, MInv, OnlyTouchedNamesMove

LEMMA NextMInv ==
    IInv /\ MInv /\ [NameNext]_nameVars => MInv'
<1> SUFFICES ASSUME IInv, MInv, [NameNext]_nameVars PROVE MInv'
  OBVIOUS
<1> USE DEF MInv
<1>0. Consistent(Tables) /\ Tables.disk = diskNames
  BY DEF IInv, Tables
<1>1. CASE LookupOpen
  <2> DEFINE d == IF clean THEN diskNames ELSE Unbound
             u == [cache |-> Empty, disk |-> d]
  <2>1. d \in [Names -> NamedDbrefs \cup {NoDbref}]
    BY DEF IInv, NameTypeOK, Unbound
  <2>2. Become(u, {})
    BY <1>1 DEF LookupOpen
  <2> HIDE DEF d
  <2>3. Consistent(u) /\ Right(u, {}) /\ View(u) = d /\ Unwritten(u, {}) = {}
    BY <2>1, EmptyIsConsistent
  <2>4. u.disk = d
    OBVIOUS
  <2> HIDE DEF u
  <2>5. Tables' = u /\ diskNames' = d /\ blind' = {}
    BY <2>2, <2>3, <2>4, BecomeTables DEF Consistent
  <2>6. names' = diskNames' /\ saved' = diskNames'
    BY <1>1 DEF LookupOpen
  <2> QED BY <2>3, <2>5, <2>6 DEF OnlyTouchedNamesMove
<1>2. CASE NameFlush
  <2> DEFINE u == Synced(Tables)
  <2>1. /\ Consistent(u) /\ View(u) = View(Tables) /\ u.disk = View(Tables)
        /\ Right(u, Unwritten(u, blind))
    BY <1>0, SyncedWritesAll
  <2>2. Become(u, blind)
    BY <1>2 DEF NameFlush
  <2> HIDE DEF u
  <2>3. Tables' = u /\ diskNames' = u.disk /\ blind' = Unwritten(u, blind)
    BY <2>1, <2>2, BecomeTables DEF Consistent
  <2> QED BY <1>2, <2>1, <2>3 DEF NameFlush, OnlyTouchedNamesMove
<1>3. CASE LookupFirstName
  <2> DEFINE u == Synced(Tables)
  <2>1. /\ Consistent(u) /\ View(u) = View(Tables) /\ u.disk = View(Tables)
        /\ Right(u, Unwritten(u, blind))
    BY <1>0, SyncedWritesAll
  <2>2. Become(u, blind)
    BY <1>3 DEF LookupFirstName
  <2> HIDE DEF u
  <2>3. Tables' = u /\ diskNames' = u.disk /\ blind' = Unwritten(u, blind)
    BY <2>1, <2>2, BecomeTables DEF Consistent
  <2>4. WritesBack(Tables, Tables')
    BY <2>1, <2>3 DEF WritesBack
  <2>5. OnlyTouchedNamesMove'
    BY <1>3, <2>4, WritingBackMovesNothing DEF LookupFirstName
  <2> QED BY <1>3, <2>1, <2>3, <2>5 DEF LookupFirstName
<1>4. CASE ObjectWritten
  <2>1. Tables' = Tables
    BY <1>4 DEF ObjectWritten, Tables
  <2> QED BY <1>4, <2>1 DEF ObjectWritten, OnlyTouchedNamesMove
<1>5. CASE NameCrash
  <2> DEFINE u == [cache |-> Empty, disk |-> diskNames]
  <2>1. Consistent(u) /\ Right(u, {}) /\ Unwritten(u, {}) = {} /\ u.disk = diskNames
    BY EmptyIsConsistent DEF IInv, NameTypeOK
  <2>2. Become(u, {})
    BY <1>5 DEF NameCrash
  <2> HIDE DEF u
  <2>3. Tables' = u /\ diskNames' = diskNames /\ blind' = {}
    BY <2>1, <2>2, BecomeTables DEF Consistent
  <2> QED BY <1>5, <2>1, <2>3 DEF NameCrash, OnlyTouchedNamesMove
<1>6. ASSUME NEW n \in Names, LookupRetrieveName(n)
      PROVE  MInv'
  <2> DEFINE u == Retrieved(Tables, n)
  <2>1. /\ Consistent(u) /\ View(u) = View(Tables) /\ WritesBack(Tables, u)
        /\ Right(u, Unwritten(u, blind))
    BY <1>0, RetrievedKeeps
  <2>2. Become(u, blind)
    BY <1>6 DEF LookupRetrieveName
  <2> HIDE DEF u
  <2>3. Tables' = u /\ blind' = Unwritten(u, blind)
    BY <2>1, <2>2, BecomeTables DEF Consistent
  <2>4. OnlyTouchedNamesMove'
    BY <1>6, <2>1, <2>3, WritingBackMovesNothing DEF LookupRetrieveName
  <2> QED BY <1>6, <2>1, <2>3, <2>4 DEF LookupRetrieveName
<1>7. ASSUME NEW n \in Names, LookupRemoveName(n)
      PROVE  MInv'
  <2> DEFINE u == Removed(Tables, n)
  <2>1. /\ Consistent(u)
        /\ \A m \in Names : m # n => /\ u.disk[m] = diskNames[m]
                                     /\ View(u)[m] = View(Tables)[m]
        /\ n \notin blind => View(u)[n] = NoDbref
        /\ Right(u, Unwritten(u, blind))
    BY <1>0, RemovedUnbinds
  <2>2. Become(u, blind)
    BY <1>7 DEF LookupRemoveName
  <2> HIDE DEF u
  <2>3. Tables' = u /\ diskNames' = u.disk /\ blind' = Unwritten(u, blind)
    BY <2>1, <2>2, BecomeTables DEF Consistent
  <2>4. \A m \in Names : names'[m] = IF m = n THEN NoDbref ELSE names[m]
    BY <1>7 DEF LookupRemoveName, IInv, NameTypeOK
  <2>5. \A m \in Names \ missed' : m = n => n \notin blind
    BY <1>7 DEF LookupRemoveName
  <2>6. \A m \in Names \ missed' : m # n => m \notin missed
    BY <1>7 DEF LookupRemoveName
  <2>7. \A m \in Names \ missed' : View(Tables')[m] = names'[m]
    BY <1>7, <2>1, <2>3, <2>4, <2>5, <2>6 DEF LookupRemoveName
  <2>8. \A m \in Names \ (touched' \cup missed') : m # n /\ m \notin touched /\ m \notin missed
    BY <1>7, <2>6 DEF LookupRemoveName
  <2>9. \A m \in Names \ (touched' \cup missed') : names'[m] = saved'[m]
    BY <1>7, <2>4, <2>8 DEF LookupRemoveName
  <2>10. OnlyTouchedNamesMove'
    BY <1>7, <2>1, <2>3, <2>8 DEF LookupRemoveName, OnlyTouchedNamesMove
  <2> QED BY <2>1, <2>3, <2>7, <2>9, <2>10
<1>8. ASSUME NEW n \in Names, NEW d \in NamedDbrefs, LookupStoreName(n, d)
      PROVE  MInv'
  <2> DEFINE u == Stored(Tables, n, d)
             b == blind \cup StoredPast(Tables, n)
  <2>1. /\ Consistent(u) /\ WritesBack(Tables, u)
        /\ View(u) = [View(Tables) EXCEPT ![n] = d]
        /\ Right(u, Unwritten(u, b))
    BY <1>0, StoredBinds
  <2>2. Become(u, b)
    BY <1>8 DEF LookupStoreName, StoredPast, Tables
  <2> HIDE DEF u, b
  <2>3. Tables' = u /\ blind' = Unwritten(u, b)
    BY <2>1, <2>2, BecomeTables DEF Consistent
  <2>4. \A m \in Names : names'[m] = IF m = n THEN d ELSE names[m]
    BY <1>8 DEF LookupStoreName, IInv, NameTypeOK
  <2>5. \A m \in Names : View(u)[m] = IF m = n THEN d ELSE View(Tables)[m]
    BY <1>0, <2>1, ViewIsMap
  <2>6. \A m \in Names \ missed' : m # n => m \notin missed
    BY <1>8 DEF LookupStoreName
  <2>7. \A m \in Names \ missed' : View(Tables')[m] = names'[m]
    BY <1>8, <2>3, <2>4, <2>5, <2>6 DEF LookupStoreName
  <2>8. \A m \in Names \ (touched' \cup missed') : m # n /\ m \notin touched /\ m \notin missed
    BY <1>8, <2>6 DEF LookupStoreName
  <2>9. \A m \in Names \ (touched' \cup missed') : names'[m] = saved'[m]
    BY <1>8, <2>4, <2>8 DEF LookupStoreName
  <2>10. touched \cup missed \subseteq touched' \cup missed'
    BY <1>8 DEF LookupStoreName
  <2>11. OnlyTouchedNamesMove'
    BY <1>8, <2>1, <2>3, <2>10, WritingBackMovesNothing DEF LookupStoreName
  <2> QED BY <2>1, <2>3, <2>7, <2>9, <2>11
<1>9. CASE UNCHANGED nameVars
  <2>1. Tables' = Tables
    BY <1>9 DEF nameVars, Tables
  <2> QED BY <1>9, <2>1 DEF nameVars, OnlyTouchedNamesMove
<1> QED BY <1>1, <1>2, <1>3, <1>4, <1>5, <1>6, <1>7, <1>8, <1>9 DEF NameNext

LEMMA AlwaysMInv ==
    NameSpec => []MInv
  BY AlwaysIInv, InitMInv, NextMInv, PTL DEF NameSpec

(* lookup_retrieve_name returns the dbref last stored under the name, and   *)
(* lookup_remove_name tells whether there was one, for every name but those *)
(* whose removal did not reach the index: for C-- code that looks names up  *)
(* before it sets them, and for code that does not.                         *)
THEOREM NamesAnsweredRight ==
    NameSpec => []AnswersRight
<1>1. IInv /\ MInv => AnswersRight
  <2> SUFFICES ASSUME IInv, MInv, opened, NEW n \in Names \ missed
               PROVE  /\ Retrieval(Tables, n) = names[n]
                      /\ Removal(Tables, n) <=> names[n] # NoDbref
    BY DEF AnswersRight
  <2>1. Retrieval(Tables, n) = names[n]
    BY ViewIsMap DEF MInv, IInv
  <2> QED BY <2>1, RemovalIs DEF IInv, MInv, Right
<1> QED BY <1>1, AlwaysIInv, AlwaysMInv, PTL

(* on_disk, by which lookup_remove_name decides whether the removal has to  *)
(* reach the index, says whether the name is there: in every entry that was *)
(* not made for a name already there, and in none of the others until it is *)
(* written back.                                                            *)
THEOREM OnDiskFlagsTrue ==
    NameSpec => []OnDiskFlagRight
<1>1. MInv => OnDiskFlagRight
  BY DEF MInv, Right, FlagsRight, Tables, Live, OnDiskFlagRight
<1> QED BY <1>1, AlwaysMInv, PTL

(* A crash under a clean mark leaves every name that was neither set nor    *)
(* removed since db_flush as it was saved, a removal that missed the index  *)
(* excepted.                                                                *)
THEOREM UntouchedNamesStay ==
    NameSpec => []OnlyTouchedNamesMove
  BY AlwaysMInv, PTL DEF MInv

-----------------------------------------------------------------------------
(* memory.c, for every size of trays, blocks and requests.                   *)
(* Lists as sets.                                                            *)
LEMMA PushedIs ==
    ASSUME NEW S, NEW s \in Seq(S), NEW x \in S
    PROVE  /\ <<x>> \o s \in Seq(S) /\ ToSet(<<x>> \o s) = {x} \cup ToSet(s)
           /\ IsInjective(s) /\ x \notin ToSet(s) => IsInjective(<<x>> \o s)
<1> PICK t : t = <<x>> \o s
  OBVIOUS
<1>1. t \in Seq(S) /\ Len(t) = Len(s) + 1 /\ t[1] = x /\ \A i \in 1 .. Len(s) : t[i + 1] = s[i]
  OBVIOUS
<1>2. DOMAIN t = 1 .. Len(s) + 1 /\ DOMAIN s = 1 .. Len(s) /\ Len(s) \in Nat
  BY <1>1
<1>3. \A i \in DOMAIN t : i = 1 \/ (i - 1 \in DOMAIN s /\ t[i] = s[i - 1])
  <2>1. ASSUME NEW i \in 1 .. Len(s) + 1, i # 1
        PROVE  i - 1 \in 1 .. Len(s) /\ t[i] = s[i - 1]
    <3>1. i - 1 \in 1 .. Len(s) /\ (i - 1) + 1 = i
      BY <1>2, <2>1
    <3>2. t[(i - 1) + 1] = s[i - 1]
      BY <1>1, <3>1, Zenon
    <3> QED BY <3>1, <3>2, Zenon
  <2> QED BY <1>2, <2>1, Zenon
<1>4. ToSet(t) = {x} \cup ToSet(s)
  <2>1. ASSUME NEW y \in ToSet(t) PROVE y \in {x} \cup ToSet(s)
    <3>1. PICK i \in DOMAIN t : y = t[i]
      BY Zenon DEF ToSet
    <3>2. i = 1 \/ y \in ToSet(s)
      BY <1>3, <3>1, Zenon DEF ToSet
    <3> QED BY <1>1, <3>1, <3>2
  <2>2. ASSUME NEW y \in ToSet(s) PROVE y \in ToSet(t)
    <3>1. PICK i \in DOMAIN s : y = s[i]
      BY Zenon DEF ToSet
    <3>2. i + 1 \in DOMAIN t /\ t[i + 1] = y
      BY <1>1, <1>2, <3>1
    <3> QED BY <3>2, Zenon DEF ToSet
  <2>3. x \in ToSet(t)
    <3>1. 1 \in DOMAIN t
      BY <1>2
    <3> QED BY <1>1, <3>1, Zenon DEF ToSet
  <2> QED BY <2>1, <2>2, <2>3
<1>5. ASSUME IsInjective(s), x \notin ToSet(s)
      PROVE  IsInjective(t)
  <2>1. \A i \in DOMAIN s : s[i] # x
    BY <1>5, Zenon DEF ToSet
  <2>2. ASSUME NEW i \in DOMAIN t, NEW j \in DOMAIN t, t[i] = t[j] PROVE i = j
    <3>1. CASE i = 1
      BY <1>1, <1>3, <2>1, <2>2, <3>1
    <3>2. CASE j = 1
      BY <1>1, <1>3, <2>1, <2>2, <3>2
    <3>3. CASE i # 1 /\ j # 1
      <4>1. i - 1 \in DOMAIN s /\ j - 1 \in DOMAIN s /\ s[i - 1] = s[j - 1]
        BY <1>3, <2>2, <3>3
      <4>2. i - 1 = j - 1
        BY <1>5, <4>1, Zenon DEF IsInjective
      <4> QED BY <1>2, <4>2
    <3> QED BY <3>1, <3>2, <3>3
  <2> QED BY <2>2, Zenon DEF IsInjective
<1> QED BY <1>1, <1>4, <1>5, Zenon

LEMMA TakenIs ==
    ASSUME NEW S, NEW s \in Seq(S), s # <<>>, IsInjective(s)
    PROVE  /\ Head(s) \in S /\ Head(s) \in ToSet(s) /\ Tail(s) \in Seq(S) /\ IsInjective(Tail(s))
           /\ ToSet(Tail(s)) = ToSet(s) \ {Head(s)}
<1> PICK t : t = Tail(s)
  OBVIOUS
<1> PICK x : x = Head(s)
  OBVIOUS
<1>1. /\ x = s[1] /\ Len(s) \in Nat /\ Len(s) > 0 /\ DOMAIN s = 1 .. Len(s) /\ 1 \in DOMAIN s
      /\ t \in Seq(S) /\ DOMAIN t = 1 .. Len(s) - 1 /\ \A i \in 1 .. Len(s) - 1 : t[i] = s[i + 1]
  <2>1. Len(s) > 0 /\ x = s[1] /\ t \in Seq(S) /\ Len(t) = Len(s) - 1 /\ \A i \in 1 .. Len(t) : t[i] = s[i + 1]
    BY EmptySeq, HeadTailProperties
  <2> QED BY <2>1
<1>2. x \in ToSet(s) /\ x \in S
  BY <1>1 DEF ToSet
<1>3. ASSUME NEW i \in DOMAIN s, NEW j \in DOMAIN s, s[i] = s[j] PROVE i = j
  BY <1>3, Zenon DEF IsInjective
<1>4. IsInjective(t)
  <2>1. ASSUME NEW i \in DOMAIN t, NEW j \in DOMAIN t, t[i] = t[j] PROVE i = j
    <3>1. i \in Int /\ j \in Int /\ i + 1 \in DOMAIN s /\ j + 1 \in DOMAIN s /\ s[i + 1] = s[j + 1]
      BY <1>1, <2>1
    <3>2. i + 1 = j + 1
      BY <1>3, <3>1, Zenon
    <3> QED BY <3>1, <3>2
  <2> QED BY <2>1, Zenon DEF IsInjective
<1>5. ASSUME NEW y \in ToSet(t) PROVE y \in ToSet(s) /\ y # x
  <2>1. PICK i \in DOMAIN t : y = t[i]
    BY Zenon DEF ToSet
  <2>2. i + 1 \in DOMAIN s /\ y = s[i + 1] /\ i + 1 # 1
    BY <1>1, <2>1
  <2>3. y # x
    BY <1>1, <1>3, <2>2
  <2> QED BY <2>2, <2>3, Zenon DEF ToSet
<1>6. ASSUME NEW y \in ToSet(s), y # x PROVE y \in ToSet(t)
  <2>1. PICK i \in DOMAIN s : y = s[i]
    BY Zenon DEF ToSet
  <2>2. i - 1 \in DOMAIN t /\ t[i - 1] = y
    <3>1. i # 1 /\ i \in 1 .. Len(s)
      BY <1>1, <1>6, <2>1
    <3>2. i - 1 \in 1 .. Len(s) - 1 /\ (i - 1) + 1 = i
      BY <1>1, <3>1
    <3>3. t[i - 1] = s[(i - 1) + 1]
      BY <1>1, <3>2, Zenon
    <3> QED BY <1>1, <2>1, <3>2, <3>3, Zenon
  <2> QED BY <2>2, Zenon DEF ToSet
<1> QED BY <1>1, <1>2, <1>4, <1>5, <1>6


LEMMA JoinedIs ==
    ASSUME NEW S, NEW r \in Seq(S), NEW s \in Seq(S)
    PROVE  /\ r \o s \in Seq(S) /\ ToSet(r \o s) = ToSet(r) \cup ToSet(s)
           /\ IsInjective(r) /\ IsInjective(s) /\ ToSet(r) \cap ToSet(s) = {} => IsInjective(r \o s)
<1> PICK t : t = r \o s
  OBVIOUS
<1> PICK n \in Nat : n = Len(r)
  OBVIOUS
<1> PICK m \in Nat : m = Len(s)
  OBVIOUS
<1>1. /\ t \in Seq(S) /\ Len(t) = n + m /\ DOMAIN t = 1 .. n + m /\ DOMAIN r = 1 .. n /\ DOMAIN s = 1 .. m
      /\ \A i \in 1 .. n : t[i] = r[i]
      /\ \A i \in n + 1 .. n + m : t[i] = s[i - n]
  <2>1. /\ t \in Seq(S) /\ Len(t) = Len(r) + Len(s)
        /\ \A i \in 1 .. Len(r) + Len(s) : t[i] = IF i <= Len(r) THEN r[i] ELSE s[i - Len(r)]
    BY ConcatProperties, Zenon
  <2> QED BY <2>1
<1>2. ASSUME NEW y \in ToSet(t) PROVE y \in ToSet(r) \cup ToSet(s)
  <2>1. PICK i \in DOMAIN t : y = t[i]
    BY Zenon DEF ToSet
  <2>2. (i \in DOMAIN r /\ y = r[i]) \/ (i - n \in DOMAIN s /\ y = s[i - n])
    BY <1>1, <2>1
  <2> QED BY <2>2, Zenon DEF ToSet
<1>3. ASSUME NEW y \in ToSet(r) PROVE y \in ToSet(t)
  <2>1. PICK i \in DOMAIN r : y = r[i]
    BY Zenon DEF ToSet
  <2>2. i \in DOMAIN t /\ t[i] = y
    BY <1>1, <2>1
  <2> QED BY <2>2, Zenon DEF ToSet
<1>4. ASSUME NEW y \in ToSet(s) PROVE y \in ToSet(t)
  <2>1. PICK i \in DOMAIN s : y = s[i]
    BY Zenon DEF ToSet
  <2>2. i + n \in n + 1 .. n + m /\ (i + n) - n = i
    BY <1>1, <2>1
  <2>3. i + n \in DOMAIN t /\ t[i + n] = s[(i + n) - n]
    BY <1>1, <2>2
  <2> QED BY <2>1, <2>2, <2>3, Zenon DEF ToSet
<1>5. ASSUME IsInjective(r), IsInjective(s), ToSet(r) \cap ToSet(s) = {}
      PROVE  IsInjective(t)
  <2>1. ASSUME NEW i \in DOMAIN t, NEW j \in DOMAIN t, t[i] = t[j], i < j PROVE FALSE
    <3>1. CASE j <= n
      <4>1. i \in DOMAIN r /\ j \in DOMAIN r /\ r[i] = r[j]
        BY <1>1, <2>1, <3>1
      <4>2. i = j
        BY <1>5, <4>1, Zenon DEF IsInjective
      <4> QED BY <1>1, <2>1, <4>2
    <3>2. CASE i > n
      <4>1. i - n \in DOMAIN s /\ j - n \in DOMAIN s /\ s[i - n] = s[j - n]
        BY <1>1, <2>1, <3>2
      <4>2. i - n = j - n
        BY <1>5, <4>1, Zenon DEF IsInjective
      <4> QED BY <1>1, <2>1, <4>2
    <3>3. CASE i <= n /\ j > n
      <4>1. i \in DOMAIN r /\ j - n \in DOMAIN s /\ r[i] = s[j - n]
        BY <1>1, <2>1, <3>3
      <4>2. r[i] \in ToSet(r) /\ s[j - n] \in ToSet(s)
        BY <4>1, Zenon DEF ToSet
      <4> QED BY <1>5, <4>1, <4>2
    <3> QED BY <1>1, <3>1, <3>2, <3>3
  <2>2. ASSUME NEW i \in DOMAIN t, NEW j \in DOMAIN t, t[i] = t[j] PROVE i = j
    <3>1. ~(i < j) /\ ~(j < i)
      BY <2>1, <2>2
    <3> QED BY <1>1, <3>1
  <2> QED BY <2>2, Zenon DEF IsInjective
<1> QED BY <1>1, <1>2, <1>3, <1>4, <1>5

LEMMA ReversedIs ==
    ASSUME NEW S, NEW s \in Seq(S)
    PROVE  /\ Reverse(s) \in Seq(S) /\ ToSet(Reverse(s)) = ToSet(s)
           /\ IsInjective(s) => IsInjective(Reverse(s))
<1> PICK t : t = Reverse(s)
  OBVIOUS
<1> PICK n \in Nat : n = Len(s)
  OBVIOUS
<1>1. DOMAIN s = 1 .. n /\ t = [i \in 1 .. n |-> s[(n - i) + 1]]
  BY DEF Reverse
<1>2. t \in Seq(S)
  <2>1. \A i \in 1 .. n : s[(n - i) + 1] \in S
    BY <1>1
  <2> QED BY <1>1, <2>1
<1>3. DOMAIN t = 1 .. n /\ \A i \in 1 .. n : (n - i) + 1 \in 1 .. n /\ t[i] = s[(n - i) + 1]
  BY <1>1
<1>4. ASSUME NEW y \in ToSet(t) PROVE y \in ToSet(s)
  <2>1. PICK i \in DOMAIN t : y = t[i]
    BY Zenon DEF ToSet
  <2> QED BY <1>1, <1>3, <2>1, Zenon DEF ToSet
<1>5. ASSUME NEW y \in ToSet(s) PROVE y \in ToSet(t)
  <2>1. PICK i \in DOMAIN s : y = s[i]
    BY Zenon DEF ToSet
  <2>2. (n - i) + 1 \in 1 .. n /\ (n - ((n - i) + 1)) + 1 = i
    BY <1>1, <2>1
  <2>3. (n - i) + 1 \in DOMAIN t /\ t[(n - i) + 1] = y
    BY <1>3, <2>1, <2>2
  <2> QED BY <2>3, Zenon DEF ToSet
<1>6. ASSUME IsInjective(s) PROVE IsInjective(t)
  <2>1. ASSUME NEW i \in DOMAIN t, NEW j \in DOMAIN t, t[i] = t[j] PROVE i = j
    <3>1. (n - i) + 1 \in DOMAIN s /\ (n - j) + 1 \in DOMAIN s /\ s[(n - i) + 1] = s[(n - j) + 1]
      BY <1>1, <1>3, <2>1
    <3>2. (n - i) + 1 = (n - j) + 1
      BY <1>6, <3>1, Zenon DEF IsInjective
    <3> QED BY <1>3, <3>2
  <2> QED BY <2>1, Zenon DEF IsInjective
<1> QED BY <1>2, <1>4, <1>5, <1>6

-----------------------------------------------------------------------------
(* The pieces of a new tray, one after the other.                            *)
Pieces == [at : 1 .. MaxRegions, off : Nat, words : Nat \ {0}, pile : BOOLEAN]

Follows(p, q) == q.off + q.words <= p.off

LEMMA Constants ==
    /\ NumTrays \in Nat \ {0} /\ TrayElem \in Nat \ {0} /\ PileBlockSize \in Nat \ {0}
    /\ MaxPileBlocks \in Nat \ {0} /\ MaxRegions \in Nat \ {0} /\ MaxWords \in Nat \ {0}
    /\ 2 <= NumTrays /\ NumTrays <= TrayElem /\ OversizedWords = 2 /\ 1 \in Trays
  BY MemoryAssumption DEF OversizedWords, Trays

LEMMA Products ==
    ASSUME NEW n \in Nat, NEW i \in Nat, NEW j \in Nat, i <= j
    PROVE  i * n \in Nat /\ i * n <= j * n
  OBVIOUS

LEMMA Offsets ==
    ASSUME NEW n \in 1 .. NumTrays
    PROVE  \E k \in Nat \ {0} : \E off \in [1 .. k -> Nat] :
              /\ \A at : NewTray(at, n) = [i \in 1 .. k |-> Piece(at, off[i], n, FALSE)]
              /\ \A i \in 1 .. k : off[i] + n <= TrayElem
              /\ \A i, j \in 1 .. k : i < j => off[i] + n <= off[j]
<1> PICK k : k = TrayElem \div n
  OBVIOUS
<1>0. n \in Nat /\ n > 0 /\ n <= TrayElem /\ TrayElem \in Nat
  BY Constants
<1>1. k \in Nat \ {0} /\ k * n \in Nat /\ k * n <= TrayElem
  BY <1>0
<1> DEFINE off == [i \in 1 .. k |-> (i - 1) * n]
<1>2. ASSUME NEW i \in 1 .. k
      PROVE  off[i] = (i - 1) * n /\ (i - 1) * n \in Nat /\ (i - 1) * n + n = i * n
  <2>1. i - 1 \in Nat /\ i \in Nat
    BY <1>1
  <2>2. (i - 1) * n \in Nat
    BY <1>0, <2>1, Products
  <2>3. (i - 1) * n + n = i * n
    BY <1>0, <2>1
  <2> QED BY <2>2, <2>3
<1>3. off \in [1 .. k -> Nat]
  BY <1>2
<1>4. ASSUME NEW i \in 1 .. k PROVE off[i] + n <= TrayElem
  <2>1. i \in Nat /\ i <= k
    BY <1>1
  <2>2. i * n \in Nat /\ i * n <= k * n
    BY <1>0, <1>1, <2>1, Products
  <2>3. off[i] + n = i * n
    BY <1>2
  <2> QED BY <1>0, <1>1, <2>2, <2>3
<1>5. ASSUME NEW i \in 1 .. k, NEW j \in 1 .. k, i < j PROVE off[i] + n <= off[j]
  <2>1. i \in Nat /\ j - 1 \in Nat /\ i <= j - 1
    BY <1>1, <1>5
  <2>2. i * n <= (j - 1) * n
    BY <1>0, <2>1, Products
  <2>3. off[i] + n = i * n /\ off[j] = (j - 1) * n
    BY <1>2
  <2> QED BY <2>2, <2>3, Zenon
<1>6. \A at : NewTray(at, n) = [i \in 1 .. k |-> Piece(at, off[i], n, FALSE)]
  BY <1>2 DEF NewTray
<1> HIDE DEF off
<1> QED BY <1>1, <1>3, <1>4, <1>5, <1>6

LEMMA NewTrayIs ==
    ASSUME NEW at \in 1 .. MaxRegions, NEW n \in 1 .. NumTrays
    PROVE  /\ NewTray(at, n) \in Seq(Pieces) /\ NewTray(at, n) # <<>> /\ IsInjective(NewTray(at, n))
           /\ \A p \in ToSet(NewTray(at, n)) :
                 p.at = at /\ p.words = n /\ ~p.pile /\ p.off + p.words <= TrayElem
           /\ \A p, q \in ToSet(NewTray(at, n)) : p # q => Follows(p, q) \/ Follows(q, p)
<1>0. PICK k \in Nat \ {0} : \E off \in [1 .. k -> Nat] :
              /\ NewTray(at, n) = [i \in 1 .. k |-> Piece(at, off[i], n, FALSE)]
              /\ \A i \in 1 .. k : off[i] + n <= TrayElem
              /\ \A i, j \in 1 .. k : i < j => off[i] + n <= off[j]
  BY Offsets
<1>1. PICK off \in [1 .. k -> Nat] :
              /\ NewTray(at, n) = [i \in 1 .. k |-> Piece(at, off[i], n, FALSE)]
              /\ \A i \in 1 .. k : off[i] + n <= TrayElem
              /\ \A i, j \in 1 .. k : i < j => off[i] + n <= off[j]
  BY <1>0
<1>2. n \in Nat \ {0}
  BY Constants
<1>3. PICK s : s = NewTray(at, n)
  OBVIOUS
<1>4. ASSUME NEW i \in 1 .. k
      PROVE  /\ s[i].at = at /\ s[i].off = off[i] /\ s[i].words = n /\ ~s[i].pile
             /\ s[i] \in Pieces
  <2> PICK x \in Nat : x = off[i]
    OBVIOUS
  <2> PICK p : p = [at |-> at, off |-> x, words |-> n, pile |-> FALSE]
    OBVIOUS
  <2>1. s[i] = p
    BY <1>1, <1>3 DEF Piece
  <2>2. p.at = at /\ p.off = x /\ p.words = n /\ ~p.pile
    OBVIOUS
  <2>3. p \in Pieces
    BY <1>2 DEF Pieces
  <2> QED BY <2>1, <2>2, <2>3
<1>5. s \in Seq(Pieces) /\ s # <<>> /\ DOMAIN s = 1 .. k
  <2>1. DOMAIN s = 1 .. k /\ s = [i \in 1 .. k |-> s[i]]
    BY <1>1, <1>3
  <2>2. s \in [1 .. k -> Pieces]
    BY <1>4, <2>1
  <2> QED BY <2>1, <2>2
<1>6. ASSUME NEW i \in 1 .. k, NEW j \in 1 .. k, i < j
      PROVE  Follows(s[j], s[i]) /\ s[i] # s[j]
  <2>1. s[i].off = off[i] /\ s[i].words = n /\ s[j].off = off[j]
    BY <1>4
  <2>2. off[i] + n <= off[j] /\ off[i] \in Nat /\ off[j] \in Nat
    BY <1>1, <1>6
  <2>3. off[i] # off[j]
    BY <1>2, <2>2
  <2> QED BY <2>1, <2>2, <2>3 DEF Follows
<1>7. IsInjective(s)
  <2>1. ASSUME NEW i \in DOMAIN s, NEW j \in DOMAIN s, s[i] = s[j] PROVE i = j
    <3>1. ~(i < j) /\ ~(j < i)
      BY <1>5, <1>6, <2>1
    <3> QED BY <1>5, <3>1
  <2> QED BY <2>1, Zenon DEF IsInjective
<1>8. ASSUME NEW p \in ToSet(s) PROVE p.at = at /\ p.words = n /\ ~p.pile /\ p.off + p.words <= TrayElem
  <2>1. PICK i \in 1 .. k : p = s[i]
    BY <1>5 DEF ToSet
  <2> QED BY <1>1, <1>4, <2>1
<1>9. ASSUME NEW p \in ToSet(s), NEW q \in ToSet(s), p # q PROVE Follows(p, q) \/ Follows(q, p)
  <2>1. PICK i \in 1 .. k, j \in 1 .. k : p = s[i] /\ q = s[j]
    BY <1>5 DEF ToSet
  <2>2. i # j /\ i \in Int /\ j \in Int
    BY <1>9, <2>1
  <2>3. i < j \/ j < i
    BY <2>2
  <2> QED BY <1>6, <2>1, <2>3
<1> QED BY <1>3, <1>5, <1>7, <1>8, <1>9


-----------------------------------------------------------------------------
(* The invariant. Pieces of one region do not overlap, and one that is       *)
(* larger than a tray's has a region to itself; the list of a tray has the   *)
(* free pieces of its size, each once; the pile's pieces are those that lie  *)
(* in its blocks, below the position of the next, and in its oversized       *)
(* blocks, whose nodes are pieces in use.                                    *)
OnTrays(T) == UNION {ToSet(T[t]) : t \in Trays}
Ats(s) == {s[i].at : i \in DOMAIN s}

Blocks == [at : 1 .. MaxRegions, pos : Nat]
OverBlocks == [at : 1 .. MaxRegions, node : Pieces]

Mapped(R) == DOMAIN R \subseteq 1 .. MaxRegions /\ \A r \in DOMAIN R : R[r] \in Nat

Laid(R, A) ==
    /\ A \subseteq Pieces
    /\ \A p \in A : p.at \in DOMAIN R /\ p.off + p.words <= R[p.at]
    /\ \A p, q \in A : p # q /\ p.at = q.at => Follows(p, q) \/ Follows(q, p)
    /\ \A p, q \in A : p.at = q.at /\ ~p.pile /\ p.words > NumTrays => q = p

Listed(T, L) ==
    /\ T \in [Trays -> Seq(Pieces)]
    /\ \A t \in Trays : /\ IsInjective(T[t])
                        /\ \A p \in ToSet(T[t]) : p.words = t + 1 /\ ~p.pile /\ p \notin L

Piled(R, B, O, A) ==
    /\ B \in Seq(Blocks) /\ O \in Seq(OverBlocks)
    /\ \A p \in A : p.pile <=> p.at \in Ats(B) \cup Ats(O)
    /\ Ats(B) \cup Ats(O) \subseteq DOMAIN R /\ Ats(B) \cap Ats(O) = {}
    /\ \A i \in DOMAIN B : /\ R[B[i].at] = PileBlockSize
                           /\ \A p \in A : p.at = B[i].at => p.off + p.words <= B[i].pos
    /\ \A i, j \in DOMAIN B : B[i].at = B[j].at => i = j

Noded(O, L) ==
    /\ \A i \in DOMAIN O : O[i].node \in L /\ ~O[i].node.pile /\ O[i].node.words = OversizedWords
    /\ \A i, j \in DOMAIN O : O[i].node = O[j].node => i = j

Good(R, T, B, O, L) ==
    /\ Mapped(R) /\ Listed(T, L) /\ L \subseteq Pieces
    /\ Laid(R, L \cup OnTrays(T)) /\ Piled(R, B, O, L \cup OnTrays(T)) /\ Noded(O, L)

Inv == Good(regions, trays, blocks, over, live)

-----------------------------------------------------------------------------
(* What malloc and free do to regions.                                       *)
LEMMA MinOfNaturals ==
    ASSUME NEW S \in SUBSET Nat, S # {}
    PROVE  Min(S) \in S /\ \A y \in S : Min(S) <= y
<1> DEFINE R == {ss \in Nat \X Nat : ss[1] < ss[2]}
<1>1. IsWellFoundedOn(R, Nat)
  BY NatLessThanWellFounded, Zenon DEF OpToRel
<1>2. PICK x \in S : \A y \in S : ~(<<y, x>> \in R)
  BY <1>1, WFMin, Zenon
<1>3. ASSUME NEW y \in S PROVE x <= y
  <2>1. x \in Nat /\ y \in Nat
    OBVIOUS
  <2>2. ~(<<y, x>> \in R)
    BY <1>2
  <2> QED BY <2>1, <2>2
<1> QED BY <1>3 DEF Min

Larger(R, larger, at, words) ==
    /\ at \in (1 .. MaxRegions) \ DOMAIN R /\ Mapped(larger)
    /\ DOMAIN larger = DOMAIN R \cup {at} /\ larger[at] = words
    /\ \A r \in DOMAIN R : larger[r] = R[r]
    /\ Unmapped(larger) = Unmapped(R) \ {at}

LEMMA EmallocIs ==
    ASSUME NEW R, Mapped(R), Unmapped(R) # {}, NEW words \in Nat
    PROVE  Larger(R, emalloc(R, words).regions, emalloc(R, words).at, words)
<1> PICK new : new = emalloc(R, words)
  OBVIOUS
<1>1. Unmapped(R) \in SUBSET Nat
  BY DEF Unmapped
<1>2. Min(Unmapped(R)) \in Unmapped(R)
  BY <1>1, MinOfNaturals, Zenon
<1>3. new.at = Min(Unmapped(R)) /\ new.regions = [r \in DOMAIN R \cup {new.at} |-> IF r = new.at THEN words ELSE R[r]]
  BY DEF emalloc
<1> PICK at : at = new.at
  OBVIOUS
<1> PICK more : more = new.regions
  OBVIOUS
<1>4. at \in (1 .. MaxRegions) \ DOMAIN R
  BY <1>2, <1>3 DEF Unmapped
<1>5. DOMAIN more = DOMAIN R \cup {at} /\ more[at] = words /\ \A r \in DOMAIN R : more[r] = R[r]
  BY <1>3, <1>4
<1>6. Mapped(more)
  BY <1>4, <1>5 DEF Mapped
<1>7. Unmapped(more) = Unmapped(R) \ {at}
  BY <1>5 DEF Unmapped
<1> QED BY <1>4, <1>5, <1>6, <1>7, Zenon DEF Larger

LEMMA FreeIs ==
    ASSUME NEW R, Mapped(R), NEW ats
    PROVE  /\ Mapped(free(R, ats)) /\ DOMAIN free(R, ats) = DOMAIN R \ ats
           /\ \A r \in DOMAIN R \ ats : free(R, ats)[r] = R[r]
  BY DEF Mapped, free

LEMMA LaidLess ==
    ASSUME NEW R, NEW A, Laid(R, A), NEW less, less \subseteq A
    PROVE  Laid(R, less)
  BY DEF Laid

LEMMA LaidAfterFree ==
    ASSUME NEW R, Mapped(R), NEW A, Laid(R, A), NEW ats, \A p \in A : p.at \notin ats
    PROVE  Laid(free(R, ats), A)
<1>1. ASSUME NEW p \in A PROVE p.at \in DOMAIN free(R, ats) /\ p.off + p.words <= free(R, ats)[p.at]
  <2>1. p.at \in DOMAIN R \ ats /\ p.off + p.words <= R[p.at]
    BY DEF Laid
  <2>2. DOMAIN free(R, ats) = DOMAIN R \ ats /\ \A r \in DOMAIN R \ ats : free(R, ats)[r] = R[r]
    BY FreeIs, Zenon
  <2>3. p.at \in DOMAIN free(R, ats)
    BY <2>1, <2>2, Zenon
  <2> QED BY <2>1, <2>2, <2>3
<1> QED BY <1>1, Zenon DEF Laid

Spread(N, at, words) ==
    /\ N \subseteq Pieces /\ \A p \in N : p.at = at /\ p.off + p.words <= words
    /\ \A p, q \in N : p # q => Follows(p, q) \/ Follows(q, p)
    /\ \A p, q \in N : ~p.pile /\ p.words > NumTrays => q = p

LEMMA LaidMore ==
    ASSUME NEW R, NEW A, Laid(R, A), NEW larger, NEW at, NEW words, Larger(R, larger, at, words),
           NEW N, Spread(N, at, words)
    PROVE  Laid(larger, A \cup N) /\ A \cap N = {}
<1>0. /\ N \subseteq Pieces /\ \A p \in N : p.at = at /\ p.off + p.words <= words
      /\ \A p, q \in N : p # q => Follows(p, q) \/ Follows(q, p)
      /\ \A p, q \in N : ~p.pile /\ p.words > NumTrays => q = p
  BY Zenon DEF Spread
<1>1. \A p \in A : p.at \in DOMAIN R /\ p.at # at /\ p.at \in DOMAIN larger /\ p.off + p.words <= larger[p.at]
  BY DEF Laid, Larger
<1>2. \A p \in N : p.at \in DOMAIN larger /\ p.off + p.words <= larger[p.at]
  BY <1>0 DEF Larger
<1>3. \A p, q \in A \cup N : p.at = q.at => (p \in A /\ q \in A) \/ (p \in N /\ q \in N)
  BY <1>0, <1>1
<1>4. A \cap N = {}
  BY <1>0, <1>1
<1>5. A \cup N \subseteq Pieces /\ \A p \in A \cup N : p.at \in DOMAIN larger /\ p.off + p.words <= larger[p.at]
  BY <1>0, <1>1, <1>2 DEF Laid
<1>6. \A p, q \in A \cup N : p # q /\ p.at = q.at => Follows(p, q) \/ Follows(q, p)
  BY <1>0, <1>3 DEF Laid
<1>7. \A p, q \in A \cup N : p.at = q.at /\ ~p.pile /\ p.words > NumTrays => q = p
  BY <1>0, <1>3 DEF Laid
<1> QED BY <1>4, <1>5, <1>6, <1>7 DEF Laid

LEMMA PiledMore ==
    ASSUME NEW R, NEW B, NEW O, NEW A, Piled(R, B, O, A),
           NEW larger, NEW at, NEW words, Larger(R, larger, at, words),
           NEW N, \A p \in N : p.at = at /\ ~p.pile
    PROVE  Piled(larger, B, O, A \cup N)
<1>1. at \notin DOMAIN R /\ DOMAIN R \subseteq DOMAIN larger /\ \A r \in DOMAIN R : larger[r] = R[r]
  BY DEF Larger
<1>2. /\ Ats(B) \cup Ats(O) \subseteq DOMAIN R /\ Ats(B) \cap Ats(O) = {}
      /\ \A p \in A : p.pile <=> p.at \in Ats(B) \cup Ats(O)
      /\ \A i \in DOMAIN B : /\ R[B[i].at] = PileBlockSize
                             /\ \A p \in A : p.at = B[i].at => p.off + p.words <= B[i].pos
  BY DEF Piled
<1>3. at \notin Ats(B) \cup Ats(O)
  BY <1>1, <1>2
<1>4. \A p \in A \cup N : p.pile <=> p.at \in Ats(B) \cup Ats(O)
  BY <1>2, <1>3
<1>5. ASSUME NEW i \in DOMAIN B
      PROVE  /\ larger[B[i].at] = PileBlockSize
             /\ \A p \in A \cup N : p.at = B[i].at => p.off + p.words <= B[i].pos
  <2>1. B[i].at \in Ats(B)
    BY DEF Ats
  <2>2. B[i].at \in DOMAIN R /\ B[i].at # at
    BY <1>2, <1>3, <2>1
  <2> QED BY <1>1, <1>2, <2>2
<1>6. Ats(B) \cup Ats(O) \subseteq DOMAIN larger
  BY <1>1, <1>2
<1> QED BY <1>2, <1>4, <1>5, <1>6, Zenon DEF Piled

LEMMA PiledSame ==
    ASSUME NEW R, NEW B, NEW O, NEW A, Piled(R, B, O, A), NEW less, less \subseteq A
    PROVE  Piled(R, B, O, less)
  BY DEF Piled


-----------------------------------------------------------------------------
(* What a tray's list loses and gains.                                       *)
Put(T, t, s) == [T EXCEPT ![t] = s]

LEMMA PutIs ==
    ASSUME NEW T \in [Trays -> Seq(Pieces)], NEW t \in Trays, NEW s \in Seq(Pieces)
    PROVE  /\ Put(T, t, s) \in [Trays -> Seq(Pieces)] /\ Put(T, t, s)[t] = s
           /\ \A u \in Trays : u # t => Put(T, t, s)[u] = T[u]
  BY DEF Put

Fitting(s, t, M) ==
    /\ s \in Seq(Pieces) /\ IsInjective(s)
    /\ \A p \in ToSet(s) : p.words = t + 1 /\ ~p.pile /\ p \notin M
Others(T, t) == OnTrays(T) \ ToSet(T[t])

LEMMA ListedPut ==
    ASSUME NEW T, NEW L, Listed(T, L), NEW t \in Trays, NEW s, NEW M, Fitting(s, t, M), Others(T, t) \cap M = {}
    PROVE  /\ Listed(Put(T, t, s), M)
           /\ OnTrays(Put(T, t, s)) = Others(T, t) \cup ToSet(s)
<1>0. /\ s \in Seq(Pieces) /\ IsInjective(s)
      /\ \A p \in ToSet(s) : p.words = t + 1 /\ ~p.pile /\ p \notin M
  BY Zenon DEF Fitting
<1> PICK after : after = Put(T, t, s)
  OBVIOUS
<1>1. T \in [Trays -> Seq(Pieces)]
  BY Zenon DEF Listed
<1>2. after \in [Trays -> Seq(Pieces)] /\ after[t] = s /\ \A u \in Trays : u # t => after[u] = T[u]
  <2>1. /\ Put(T, t, s) \in [Trays -> Seq(Pieces)] /\ Put(T, t, s)[t] = s
        /\ \A u \in Trays : u # t => Put(T, t, s)[u] = T[u]
    BY <1>0, <1>1, PutIs
  <2> QED BY <2>1
<1>3. \A u \in Trays : IsInjective(T[u]) /\ \A p \in ToSet(T[u]) : p.words = u + 1 /\ ~p.pile
  BY Zenon DEF Listed
<1>4. Trays \subseteq Int
  BY Constants DEF Trays
<1>5. ASSUME NEW u \in Trays, u # t, NEW p \in ToSet(T[u]) PROVE p \in Others(T, t)
  <2>1. p \in OnTrays(T)
    BY Zenon DEF OnTrays
  <2>2. p.words = u + 1
    BY <1>3
  <2>3. u + 1 # t + 1
    BY <1>4, <1>5
  <2>4. p \notin ToSet(T[t])
    BY <1>3, <2>2, <2>3, Zenon
  <2> QED BY <2>1, <2>4, Zenon DEF Others
<1>6. ASSUME NEW u \in Trays
      PROVE  /\ IsInjective(after[u])
             /\ \A p \in ToSet(after[u]) : p.words = u + 1 /\ ~p.pile /\ p \notin M
  <2>1. CASE u = t
    BY <1>0, <1>2, <2>1, Zenon
  <2>2. CASE u # t
    BY <1>2, <1>3, <1>5, <2>2
  <2> QED BY <2>1, <2>2, Zenon
<1>7. Listed(after, M)
  BY <1>2, <1>6, Zenon DEF Listed
<1>8. ASSUME NEW p \in OnTrays(after) PROVE p \in Others(T, t) \cup ToSet(s)
  <2>1. PICK u \in Trays : p \in ToSet(after[u])
    BY DEF OnTrays
  <2>2. CASE u = t
    BY <1>2, <2>1, <2>2
  <2>3. CASE u # t
    <3>1. p \in ToSet(T[u])
      BY <1>2, <2>1, <2>3, Zenon
    <3> QED BY <1>5, <2>3, <3>1
  <2> QED BY <2>2, <2>3
<1>9. ASSUME NEW p \in Others(T, t) \cup ToSet(s) PROVE p \in OnTrays(after)
  <2>1. CASE p \in ToSet(s)
    <3>1. p \in ToSet(after[t])
      BY <1>2, <2>1, Zenon
    <3> QED BY <3>1 DEF OnTrays
  <2>2. CASE p \in Others(T, t)
    <3>1. PICK u \in Trays : p \in ToSet(T[u]) /\ u # t
      BY <2>2 DEF OnTrays, Others
    <3>2. p \in ToSet(after[u])
      BY <1>2, <3>1, Zenon
    <3> QED BY <3>2 DEF OnTrays
  <2> QED BY <2>1, <2>2
<1>10. OnTrays(after) = Others(T, t) \cup ToSet(s)
  BY <1>8, <1>9
<1> QED BY <1>7, <1>10, Zenon

LEMMA NodedMore ==
    ASSUME NEW O, NEW L, Noded(O, L), NEW M, L \subseteq M
    PROVE  Noded(O, M)
  BY DEF Noded

(* The first free element of a tray.                                         *)
Taken(R, T, B, O, L, t, x, rest) ==
    /\ Good(R, Put(T, t, rest), B, O, L \cup {x})
    /\ x \in Pieces \ L /\ x.words = t + 1 /\ ~x.pile

LEMMA Taking ==
    ASSUME NEW R, NEW T, NEW B, NEW O, NEW L, Good(R, T, B, O, L), NEW t \in Trays, T[t] # <<>>
    PROVE  Taken(R, T, B, O, L, t, Head(T[t]), Tail(T[t]))
<1> PICK s : s = T[t]
  OBVIOUS
<1> PICK x : x = Head(T[t])
  OBVIOUS
<1> PICK rest : rest = Tail(T[t])
  OBVIOUS
<1> PICK after : after = Put(T, t, rest)
  OBVIOUS
<1>1. Listed(T, L) /\ Mapped(R) /\ L \subseteq Pieces /\ Laid(R, L \cup OnTrays(T)) /\ Piled(R, B, O, L \cup OnTrays(T))
      /\ Noded(O, L)
  BY Zenon DEF Good
<1>2. T \in [Trays -> Seq(Pieces)]
  BY <1>1, Zenon DEF Listed
<1>3. s \in Seq(Pieces) /\ s # <<>>
  BY <1>2
<1>4. IsInjective(s) /\ \A p \in ToSet(s) : p.words = t + 1 /\ ~p.pile /\ p \notin L
  BY <1>1, Zenon DEF Listed
<1>5. x \in Pieces /\ x \in ToSet(s) /\ rest \in Seq(Pieces) /\ IsInjective(rest) /\ ToSet(rest) = ToSet(s) \ {x}
  BY <1>3, <1>4, TakenIs, Zenon
<1>6. ToSet(s) \subseteq OnTrays(T)
  BY DEF OnTrays
<1>7. \A p \in OnTrays(T) : p \notin L
  BY <1>1 DEF Listed, OnTrays
<1>8. Fitting(rest, t, L \cup {x})
  <2>1. \A p \in ToSet(rest) : p.words = t + 1 /\ ~p.pile /\ p \notin L \cup {x}
    BY <1>4, <1>5
  <2> QED BY <1>5, <2>1, Zenon DEF Fitting
<1>9. Others(T, t) \cap (L \cup {x}) = {}
  BY <1>5, <1>7 DEF Others
<1>10. Listed(after, L \cup {x}) /\ OnTrays(after) = Others(T, t) \cup ToSet(rest)
  BY <1>1, <1>8, <1>9, ListedPut, Zenon
<1>11. (L \cup {x}) \cup OnTrays(after) = L \cup OnTrays(T)
  BY <1>5, <1>6, <1>10 DEF Others
<1>12. Noded(O, L \cup {x})
  BY <1>1, NodedMore
<1>13. Good(R, after, B, O, L \cup {x})
  <2>1. L \cup {x} \subseteq Pieces
    BY <1>1, <1>5
  <2> QED BY <1>1, <1>10, <1>11, <1>12, <2>1, Zenon DEF Good
<1>14. x \in Pieces \ L /\ x.words = t + 1 /\ ~x.pile
  BY <1>4, <1>5
<1> QED BY <1>13, <1>14, Zenon DEF Taken

(* A fresh tray.                                                             *)
LEMMA Stocking ==
    ASSUME NEW R, NEW T, NEW B, NEW O, NEW L, Good(R, T, B, O, L), NEW words \in 1 .. NumTrays,
           T[words - 1] = <<>>, NEW larger, NEW at, Larger(R, larger, at, TrayElem)
    PROVE  /\ Good(larger, Put(T, words - 1, NewTray(at, words)), B, O, L)
           /\ NewTray(at, words) # <<>> /\ NewTray(at, words) \in Seq(Pieces)
<1> PICK t : t = words - 1
  OBVIOUS
<1> PICK s : s = NewTray(at, words)
  OBVIOUS
<1> PICK after : after = Put(T, t, s)
  OBVIOUS
<1>0. t \in Trays /\ t + 1 = words /\ words <= NumTrays /\ TrayElem \in Nat
  BY Constants DEF Trays
<1>1. Listed(T, L) /\ Mapped(R) /\ L \subseteq Pieces /\ Laid(R, L \cup OnTrays(T)) /\ Piled(R, B, O, L \cup OnTrays(T))
      /\ Noded(O, L)
  BY Zenon DEF Good
<1>2. at \in 1 .. MaxRegions /\ Mapped(larger)
  BY DEF Larger
<1>3. /\ s \in Seq(Pieces) /\ s # <<>> /\ IsInjective(s)
      /\ \A p \in ToSet(s) : p.at = at /\ p.words = words /\ ~p.pile /\ p.off + p.words <= TrayElem
      /\ \A p, q \in ToSet(s) : p # q => Follows(p, q) \/ Follows(q, p)
  BY <1>2, NewTrayIs, Zenon
<1>4. ToSet(s) \subseteq Pieces
  BY <1>3 DEF ToSet
<1>5. \A p \in ToSet(s) : ~(p.words > NumTrays)
  <2>1. \A p \in ToSet(s) : p.words = words
    BY <1>3, Zenon
  <2>2. ~(words > NumTrays)
    BY <1>0, Constants
  <2> QED BY <2>1, <2>2, Zenon
<1>6. Laid(larger, (L \cup OnTrays(T)) \cup ToSet(s)) /\ (L \cup OnTrays(T)) \cap ToSet(s) = {}
  <2>1. Spread(ToSet(s), at, TrayElem)
    BY <1>3, <1>4, <1>5, Zenon DEF Spread
  <2> QED BY <1>1, <2>1, LaidMore, Zenon
<1>7. Piled(larger, B, O, (L \cup OnTrays(T)) \cup ToSet(s))
  BY <1>1, <1>3, PiledMore, Zenon
<1>8. Listed(after, L) /\ OnTrays(after) = Others(T, t) \cup ToSet(s)
  <2>1. \A p \in ToSet(s) : p.words = t + 1 /\ ~p.pile /\ p \notin L
    BY <1>0, <1>3, <1>6
  <2>2. Fitting(s, t, L)
    BY <1>3, <2>1, Zenon DEF Fitting
  <2>3. Others(T, t) \cap L = {}
    BY <1>1 DEF Listed, OnTrays, Others
  <2>4. Listed(T, L) /\ t \in Trays
    BY <1>0, <1>1, Zenon
  <2>5. Listed(Put(T, t, s), L) /\ OnTrays(Put(T, t, s)) = Others(T, t) \cup ToSet(s)
    BY <2>2, <2>3, <2>4, ListedPut
  <2> QED BY <2>5, Zenon
<1>9. L \cup OnTrays(after) = (L \cup OnTrays(T)) \cup ToSet(s)
  <2>1. T[t] = <<>>
    BY Zenon
  <2>2. ToSet(T[t]) = {}
    BY <2>1 DEF ToSet
  <2> QED BY <1>8, <2>2 DEF Others
<1>10. Good(larger, after, B, O, L)
  BY <1>1, <1>2, <1>6, <1>7, <1>8, <1>9, Zenon DEF Good
<1> QED BY <1>3, <1>10, Zenon

LEMMA PieceIs ==
    ASSUME NEW at \in 1 .. MaxRegions, NEW off \in Nat, NEW words \in Nat \ {0}, NEW pile \in BOOLEAN
    PROVE  /\ Piece(at, off, words, pile) \in Pieces
           /\ Piece(at, off, words, pile).at = at /\ Piece(at, off, words, pile).off = off
           /\ Piece(at, off, words, pile).words = words /\ Piece(at, off, words, pile).pile = pile
  BY DEF Piece, Pieces

(* A piece with a region to itself.                                          *)
LEMMA Growing ==
    ASSUME NEW R, NEW T, NEW B, NEW O, NEW L, Good(R, T, B, O, L), NEW words \in Nat \ {0},
           NEW larger, NEW at, Larger(R, larger, at, words)
    PROVE  /\ Good(larger, T, B, O, L \cup {Piece(at, 0, words, FALSE)})
           /\ Piece(at, 0, words, FALSE) \in Pieces \ L
<1> PICK x : x = Piece(at, 0, words, FALSE)
  OBVIOUS
<1>1. Listed(T, L) /\ Mapped(R) /\ L \subseteq Pieces /\ Laid(R, L \cup OnTrays(T)) /\ Piled(R, B, O, L \cup OnTrays(T))
      /\ Noded(O, L)
  BY Zenon DEF Good
<1>2. at \in 1 .. MaxRegions /\ Mapped(larger)
  BY DEF Larger
<1>3. x \in Pieces /\ x.at = at /\ x.off = 0 /\ x.words = words /\ x.pile = FALSE
  <2>1. /\ Piece(at, 0, words, FALSE) \in Pieces
        /\ Piece(at, 0, words, FALSE).at = at /\ Piece(at, 0, words, FALSE).off = 0
        /\ Piece(at, 0, words, FALSE).words = words /\ Piece(at, 0, words, FALSE).pile = FALSE
    BY <1>2 DEF Piece, Pieces
  <2> QED BY <2>1, Zenon
<1>4. Laid(larger, (L \cup OnTrays(T)) \cup {x}) /\ (L \cup OnTrays(T)) \cap {x} = {}
  <2>1. \A p \in {x} : p.at = at /\ p.off + p.words <= words
    <3>1. 0 + words <= words
      OBVIOUS
    <3> QED BY <1>3, <3>1, Zenon
  <2>2. Spread({x}, at, words)
    BY <1>3, <2>1 DEF Spread
  <2> QED BY <1>1, <2>2, LaidMore, Zenon
<1>5. Piled(larger, B, O, (L \cup OnTrays(T)) \cup {x})
  <2>1. \A p \in {x} : p.at = at /\ ~p.pile
    BY <1>3
  <2> QED BY <1>1, <2>1, PiledMore, Zenon
<1>6. (L \cup {x}) \cup OnTrays(T) = (L \cup OnTrays(T)) \cup {x} /\ x \notin L /\ x \notin OnTrays(T)
  BY <1>4
<1>7. Listed(T, L \cup {x})
  <2>1. \A t \in Trays : ToSet(T[t]) \subseteq OnTrays(T)
    BY DEF OnTrays
  <2> QED BY <1>1, <1>6, <2>1 DEF Listed
<1>8. Noded(O, L \cup {x}) /\ L \cup {x} \subseteq Pieces
  BY <1>1, <1>3, NodedMore
<1>9. Good(larger, T, B, O, L \cup {x})
  BY <1>1, <1>2, <1>4, <1>5, <1>6, <1>7, <1>8, Zenon DEF Good
<1> QED BY <1>3, <1>6, <1>9

Got(R, T, B, O, L, words, got) ==
    /\ Good(got.regions, got.trays, B, O, L \cup {got.piece})
    /\ got.piece \in Pieces \ L /\ got.piece.words = words /\ ~got.piece.pile
    /\ Unmapped(got.regions) = Unmapped(R) \/ \E at \in Unmapped(R) : Unmapped(got.regions) = Unmapped(R) \ {at}

LEMMA TmallocIs ==
    ASSUME NEW R, NEW T, NEW B, NEW O, NEW L, Good(R, T, B, O, L), NEW words \in Nat \ {0},
           words > MaxUseTray \/ T[words - 1] = <<>> => Unmapped(R) # {}
    PROVE  Got(R, T, B, O, L, words, tmalloc(R, T, words))
<1> PICK got : got = tmalloc(R, T, words)
  OBVIOUS
<1>0. Mapped(R) /\ Listed(T, L) /\ MaxUseTray = NumTrays /\ NumTrays \in Nat /\ TrayElem \in Nat
  BY Constants DEF Good, MaxUseTray
<1>1. CASE words > MaxUseTray
  <2> PICK new : new = emalloc(R, words)
    OBVIOUS
  <2>1. Larger(R, new.regions, new.at, words)
    BY <1>0, <1>1, EmallocIs
  <2>2. PICK x : x = Piece(new.at, 0, words, FALSE)
    OBVIOUS
  <2>3. got = [regions |-> new.regions, trays |-> T, piece |-> x]
    BY <1>1, <2>2 DEF tmalloc
  <2>4. got.regions = new.regions /\ got.trays = T /\ got.piece = x
    BY <2>3
  <2>5. Good(new.regions, T, B, O, L \cup {x}) /\ x \in Pieces \ L
    BY <2>1, <2>2, Growing, Zenon
  <2>6. x.words = words /\ ~x.pile
    BY <2>2 DEF Piece
  <2>7. \E at \in Unmapped(R) : Unmapped(new.regions) = Unmapped(R) \ {at}
    BY <2>1 DEF Larger, Unmapped
  <2> QED BY <2>4, <2>5, <2>6, <2>7, Zenon DEF Got
<1>2. CASE ~(words > MaxUseTray)
  <2>1. PICK t \in Trays : t = words - 1 /\ t + 1 = words /\ words \in 1 .. NumTrays
    BY <1>0, <1>2 DEF Trays
  <2>2. CASE T[t] # <<>>
    <3>1. got = [regions |-> R, trays |-> Put(T, t, Tail(T[t])), piece |-> Head(T[t])]
      BY <1>2, <2>1, <2>2 DEF tmalloc, Put
    <3>2. got.regions = R /\ got.trays = Put(T, t, Tail(T[t])) /\ got.piece = Head(T[t])
      BY <3>1
    <3>3. Taken(R, T, B, O, L, t, Head(T[t]), Tail(T[t]))
      BY <2>2, Taking, Zenon
    <3> QED BY <2>1, <3>2, <3>3, Zenon DEF Got, Taken
  <2>3. CASE T[t] = <<>>
    <3> PICK new : new = emalloc(R, TrayElem)
      OBVIOUS
    <3> PICK s : s = NewTray(new.at, words)
      OBVIOUS
    <3> PICK mid : mid = Put(T, t, s)
      OBVIOUS
    <3>1. Larger(R, new.regions, new.at, TrayElem)
      BY <1>0, <2>1, <2>3, EmallocIs
    <3>2. Good(new.regions, mid, B, O, L) /\ s # <<>> /\ s \in Seq(Pieces)
      BY <2>1, <2>3, <3>1, Stocking, Zenon
    <3>3. T \in [Trays -> Seq(Pieces)]
      BY <1>0 DEF Listed
    <3>4. mid[t] = s
      BY <3>2, <3>3, PutIs, Zenon
    <3>5. /\ Good(new.regions, Put(mid, t, Tail(s)), B, O, L \cup {Head(s)})
          /\ Head(s) \in Pieces \ L /\ Head(s).words = t + 1 /\ ~Head(s).pile
      <4>1. Good(new.regions, mid, B, O, L) /\ mid[t] # <<>>
        BY <3>2, <3>4, Zenon
      <4>2. Taken(new.regions, mid, B, O, L, t, Head(mid[t]), Tail(mid[t]))
        BY <4>1, Taking, Zenon
      <4> QED BY <3>4, <4>2, Zenon DEF Taken
    <3>6. Tail(s) \in Seq(Pieces)
      BY <3>2
    <3>7. Put(mid, t, Tail(s)) = Put(T, t, Tail(s))
      <4>1. Put(Put(T, t, s), t, Tail(s)) = Put(T, t, Tail(s))
        BY <3>3 DEF Put
      <4> QED BY <4>1, Zenon
    <3>8. got = [regions |-> new.regions, trays |-> Put(T, t, Tail(s)), piece |-> Head(s)]
      BY <1>2, <2>1, <2>3 DEF tmalloc, Put
    <3>9. got.regions = new.regions /\ got.trays = Put(T, t, Tail(s)) /\ got.piece = Head(s)
      BY <3>8
    <3>10. \E at \in Unmapped(R) : Unmapped(new.regions) = Unmapped(R) \ {at}
      BY <3>1 DEF Larger, Unmapped
    <3> QED BY <2>1, <3>5, <3>7, <3>9, <3>10, Zenon DEF Got
  <2> QED BY <2>2, <2>3
<1> QED BY <1>1, <1>2

-----------------------------------------------------------------------------
(* A piece given back by tfree.                                              *)
LEMMA PiledAfterFree ==
    ASSUME NEW R, Mapped(R), NEW B, NEW O, NEW A, Piled(R, B, O, A), NEW ats, ats \cap (Ats(B) \cup Ats(O)) = {}
    PROVE  Piled(free(R, ats), B, O, A)
<1>1. DOMAIN free(R, ats) = DOMAIN R \ ats /\ \A r \in DOMAIN R \ ats : free(R, ats)[r] = R[r]
  BY FreeIs, Zenon
<1>2. /\ Ats(B) \cup Ats(O) \subseteq DOMAIN R
      /\ \A i \in DOMAIN B : /\ R[B[i].at] = PileBlockSize
                             /\ \A p \in A : p.at = B[i].at => p.off + p.words <= B[i].pos
  BY Zenon DEF Piled
<1>3. \A i \in DOMAIN B : B[i].at \in Ats(B)
  BY DEF Ats
<1>4. \A i \in DOMAIN B : /\ free(R, ats)[B[i].at] = PileBlockSize
                          /\ \A p \in A : p.at = B[i].at => p.off + p.words <= B[i].pos
  BY <1>1, <1>2, <1>3
<1>5. Ats(B) \cup Ats(O) \subseteq DOMAIN free(R, ats)
  BY <1>1, <1>2
<1> QED BY <1>4, <1>5, Zenon DEF Piled

NotANode(O, x) == \A i \in DOMAIN O : O[i].node # x

LEMMA FreeingARegion ==
    ASSUME NEW R, NEW T, NEW B, NEW O, NEW L, Good(R, T, B, O, L), NEW x \in L, ~x.pile, NotANode(O, x),
           x.words > NumTrays
    PROVE  Good(free(R, {x.at}), T, B, O, L \ {x})
<1> PICK at : at = x.at
  OBVIOUS
<1> PICK A : A = L \cup OnTrays(T)
  OBVIOUS
<1> PICK A2 : A2 = (L \ {x}) \cup OnTrays(T)
  OBVIOUS
<1>1. Listed(T, L) /\ Mapped(R) /\ L \subseteq Pieces /\ Laid(R, A) /\ Piled(R, B, O, A) /\ Noded(O, L)
  BY Zenon DEF Good
<1>2. x \notin OnTrays(T)
  BY <1>1 DEF Listed, OnTrays
<1>3. A2 \subseteq A /\ x \in A /\ x \notin A2
  BY <1>2
<1>4. \A p \in A2 : p.at \notin {at}
  BY <1>1, <1>3 DEF Laid
<1>5. Laid(R, A2) /\ Piled(R, B, O, A2)
  BY <1>1, <1>3, LaidLess, PiledSame, Zenon
<1>6. Laid(free(R, {at}), A2)
  BY <1>1, <1>4, <1>5, LaidAfterFree, Zenon
<1>7. {at} \cap (Ats(B) \cup Ats(O)) = {}
  BY <1>1, <1>3 DEF Piled
<1>8. Piled(free(R, {at}), B, O, A2)
  BY <1>1, <1>5, <1>7, PiledAfterFree, Zenon
<1>9. Listed(T, L \ {x})
  BY <1>1 DEF Listed
<1>10. Noded(O, L \ {x})
  BY <1>1 DEF Noded, NotANode
<1>11. Mapped(free(R, {at})) /\ L \ {x} \subseteq Pieces
  BY <1>1, FreeIs
<1> QED BY <1>6, <1>8, <1>9, <1>10, <1>11, Zenon DEF Good

LEMMA ToTheTray ==
    ASSUME NEW R, NEW T, NEW B, NEW O, NEW L, Good(R, T, B, O, L), NEW x \in L, ~x.pile, NotANode(O, x),
           NEW t \in Trays, x.words = t + 1
    PROVE  Good(R, Put(T, t, <<x>> \o T[t]), B, O, L \ {x})
<1> PICK s : s = <<x>> \o T[t]
  OBVIOUS
<1> PICK after : after = Put(T, t, s)
  OBVIOUS
<1>1. Listed(T, L) /\ Mapped(R) /\ L \subseteq Pieces /\ Laid(R, L \cup OnTrays(T)) /\ Piled(R, B, O, L \cup OnTrays(T))
      /\ Noded(O, L)
  BY Zenon DEF Good
<1>2. /\ T[t] \in Seq(Pieces) /\ IsInjective(T[t])
      /\ \A p \in ToSet(T[t]) : p.words = t + 1 /\ ~p.pile /\ p \notin L
  BY <1>1 DEF Listed
<1>3. x \in Pieces /\ x \notin ToSet(T[t])
  BY <1>1, <1>2
<1>4. s \in Seq(Pieces) /\ ToSet(s) = {x} \cup ToSet(T[t]) /\ IsInjective(s)
  BY <1>2, <1>3, PushedIs, Zenon
<1>5. Fitting(s, t, L \ {x})
  <2>1. \A p \in ToSet(s) : p.words = t + 1 /\ ~p.pile /\ p \notin L \ {x}
    BY <1>2, <1>4
  <2> QED BY <1>4, <2>1, Zenon DEF Fitting
<1>6. Others(T, t) \cap (L \ {x}) = {}
  BY <1>1 DEF Listed, OnTrays, Others
<1>7. Listed(after, L \ {x}) /\ OnTrays(after) = Others(T, t) \cup ToSet(s)
  BY <1>1, <1>5, <1>6, ListedPut, Zenon
<1>8. (L \ {x}) \cup OnTrays(after) = L \cup OnTrays(T)
  <2>1. ToSet(T[t]) \subseteq OnTrays(T)
    BY DEF OnTrays
  <2> QED BY <1>4, <1>7, <2>1 DEF Others
<1>9. Noded(O, L \ {x}) /\ L \ {x} \subseteq Pieces
  BY <1>1 DEF Noded, NotANode
<1> QED BY <1>1, <1>7, <1>8, <1>9, Zenon DEF Good

-----------------------------------------------------------------------------
(* A piece of the pile.                                                      *)
LEMMA Piling ==
    ASSUME NEW R, NEW T, NEW B, NEW O, NEW L, Good(R, T, B, O, L), NEW x \in Pieces, x.pile,
           NEW R2, Mapped(R2), Laid(R2, (L \cup OnTrays(T)) \cup {x}),
           NEW B2, NEW O2, Piled(R2, B2, O2, (L \cup OnTrays(T)) \cup {x}), Noded(O2, L)
    PROVE  Good(R2, T, B2, O2, L \cup {x})
<1>1. Listed(T, L) /\ L \subseteq Pieces
  BY Zenon DEF Good
<1>2. Listed(T, L \cup {x})
  BY <1>1 DEF Listed
<1>3. Noded(O2, L \cup {x})
  BY NodedMore
<1>4. (L \cup {x}) \cup OnTrays(T) = (L \cup OnTrays(T)) \cup {x} /\ L \cup {x} \subseteq Pieces
  BY <1>1
<1> QED BY <1>2, <1>3, <1>4, Zenon DEF Good

Heaped(R, A, x, at, off, words) ==
    /\ Laid(R, A \cup {x}) /\ x \in Pieces /\ x.pile
    /\ x.at = at /\ x.off = off /\ x.words = words

LEMMA LaidAlone ==
    ASSUME NEW R, NEW A, Laid(R, A), NEW larger, NEW at, NEW words \in Nat \ {0}, Larger(R, larger, at, words),
           NEW size \in 1 .. words
    PROVE  Heaped(larger, A, Piece(at, 0, size, TRUE), at, 0, size)
<1> PICK x : x = Piece(at, 0, size, TRUE)
  OBVIOUS
<1>1. at \in 1 .. MaxRegions
  BY DEF Larger
<1>2. x \in Pieces /\ x.pile /\ x.at = at /\ x.off = 0 /\ x.words = size
  BY <1>1 DEF Piece, Pieces
<1>3. Spread({x}, at, words)
  <2>1. 0 + size <= words
    OBVIOUS
  <2> QED BY <1>2, <2>1 DEF Spread
<1>4. Laid(larger, A \cup {x})
  BY <1>3, LaidMore, Zenon
<1> QED BY <1>2, <1>4, Zenon DEF Heaped

Pushed(t, s, b) ==
    /\ 1 \in DOMAIN t /\ t[1] = b
    /\ \A i \in DOMAIN t : i # 1 => i - 1 \in DOMAIN s /\ t[i] = s[i - 1]
    /\ \A i \in DOMAIN s : i + 1 \in DOMAIN t /\ t[i + 1] = s[i]

LEMMA PushedList ==
    ASSUME NEW S, NEW s \in Seq(S), NEW b \in S
    PROVE  <<b>> \o s \in Seq(S) /\ Pushed(<<b>> \o s, s, b)
<1> PICK t : t = <<b>> \o s
  OBVIOUS
<1>1. t \in Seq(S) /\ Len(t) = Len(s) + 1 /\ t[1] = b /\ \A i \in 1 .. Len(s) : t[i + 1] = s[i]
  OBVIOUS
<1>2. DOMAIN t = 1 .. Len(s) + 1 /\ DOMAIN s = 1 .. Len(s) /\ Len(s) \in Nat
  BY <1>1
<1>3. ASSUME NEW i \in DOMAIN t, i # 1 PROVE i - 1 \in DOMAIN s /\ t[i] = s[i - 1]
  <2>1. i - 1 \in 1 .. Len(s) /\ (i - 1) + 1 = i
    BY <1>2, <1>3
  <2>2. t[(i - 1) + 1] = s[i - 1]
    BY <1>1, <2>1, Zenon
  <2> QED BY <1>2, <2>1, <2>2, Zenon
<1>4. \A i \in DOMAIN s : i + 1 \in DOMAIN t /\ t[i + 1] = s[i]
  BY <1>1, <1>2
<1>5. 1 \in DOMAIN t
  BY <1>2
<1> QED BY <1>1, <1>3, <1>4, <1>5, Zenon DEF Pushed

LEMMA AtsPushed ==
    ASSUME NEW s, NEW b, NEW t, Pushed(t, s, b)
    PROVE  Ats(t) = {b.at} \cup Ats(s)
<1>1. ASSUME NEW i \in DOMAIN t PROVE t[i].at \in {b.at} \cup Ats(s)
  BY DEF Pushed, Ats
<1>2. b.at \in Ats(t)
  BY DEF Pushed, Ats
<1>3. ASSUME NEW i \in DOMAIN s PROVE s[i].at \in Ats(t)
  <2>1. i + 1 \in DOMAIN t /\ t[i + 1] = s[i]
    BY Zenon DEF Pushed
  <2> QED BY <2>1, Zenon DEF Ats
<1> QED BY <1>1, <1>2, <1>3 DEF Ats

LEMMA PiledInANewBlock ==
    ASSUME NEW R, NEW B, NEW O, NEW A, Piled(R, B, O, A), A \subseteq Pieces, \A p \in A : p.at \in DOMAIN R,
           NEW larger, NEW at, Larger(R, larger, at, PileBlockSize), NEW pos \in Nat, NEW b, b = [at |-> at, pos |-> pos],
           NEW x \in Pieces, x.pile, x.at = at, x.off + x.words = pos
    PROVE  Piled(larger, <<b>> \o B, O, A \cup {x})
<1> PICK t : t = <<b>> \o B
  OBVIOUS
<1>1. at \in (1 .. MaxRegions) \ DOMAIN R /\ DOMAIN larger = DOMAIN R \cup {at} /\ larger[at] = PileBlockSize
      /\ \A r \in DOMAIN R : larger[r] = R[r]
  BY DEF Larger
<1>2. /\ B \in Seq(Blocks) /\ O \in Seq(OverBlocks)
      /\ \A p \in A : p.pile <=> p.at \in Ats(B) \cup Ats(O)
      /\ Ats(B) \cup Ats(O) \subseteq DOMAIN R /\ Ats(B) \cap Ats(O) = {}
      /\ \A i \in DOMAIN B : /\ R[B[i].at] = PileBlockSize
                             /\ \A p \in A : p.at = B[i].at => p.off + p.words <= B[i].pos
      /\ \A i, j \in DOMAIN B : B[i].at = B[j].at => i = j
  BY Zenon DEF Piled
<1>3. b \in Blocks /\ b.at = at
  BY <1>1 DEF Blocks
<1>4. t \in Seq(Blocks) /\ Pushed(t, B, b)
  BY <1>2, <1>3, PushedList, Zenon
<1>5. Ats(t) = {at} \cup Ats(B)
  BY <1>3, <1>4, AtsPushed, Zenon
<1>6. \A p \in A \cup {x} : p.pile <=> p.at \in Ats(t) \cup Ats(O)
  BY <1>1, <1>2, <1>5
<1>7. Ats(t) \cup Ats(O) \subseteq DOMAIN larger /\ Ats(t) \cap Ats(O) = {}
  BY <1>1, <1>2, <1>5
<1>8. \A i \in DOMAIN B : B[i].at \in DOMAIN R /\ B[i].at # at
  BY <1>1, <1>2 DEF Ats
<1>9. /\ 1 \in DOMAIN t /\ t[1] = b
      /\ \A i \in DOMAIN t : i # 1 => i - 1 \in DOMAIN B /\ t[i] = B[i - 1]
  BY <1>4, Zenon DEF Pushed
<1>10. ASSUME NEW i \in DOMAIN t
       PROVE  larger[t[i].at] = PileBlockSize /\ \A p \in A \cup {x} : p.at = t[i].at => p.off + p.words <= t[i].pos
  <2>1. CASE i = 1
    <3>1. t[i].at = at /\ t[i].pos = pos
      BY <1>3, <1>9, <2>1
    <3>2. \A p \in A : p.at # at
      BY <1>1
    <3>3. x.off + x.words <= pos
      OBVIOUS
    <3> QED BY <1>1, <3>1, <3>2, <3>3
  <2>2. CASE i # 1
    <3>1. i - 1 \in DOMAIN B /\ t[i] = B[i - 1]
      BY <1>9, <2>2
    <3> PICK j \in DOMAIN B : j = i - 1
      BY <3>1
    <3>2. t[i] = B[j]
      BY <3>1, Zenon
    <3>3. B[j].at \in DOMAIN R /\ B[j].at # at
      BY <1>8
    <3>4. larger[B[j].at] = PileBlockSize
      BY <1>1, <1>2, <3>3
    <3>5. \A p \in A \cup {x} : p.at = B[j].at => p.off + p.words <= B[j].pos
      BY <1>2, <3>3
    <3> QED BY <3>2, <3>4, <3>5, Zenon
  <2> QED BY <2>1, <2>2
<1>11. ASSUME NEW i \in DOMAIN t, NEW j \in DOMAIN t, t[i].at = t[j].at PROVE i = j
  <2>1. \A k \in DOMAIN t : k = 1 <=> t[k].at = at
    BY <1>3, <1>8, <1>9
  <2>2. CASE i = 1 \/ j = 1
    BY <1>11, <2>1, <2>2
  <2>3. CASE i # 1 /\ j # 1
    <3>1. i - 1 \in DOMAIN B /\ j - 1 \in DOMAIN B /\ B[i - 1].at = B[j - 1].at
      BY <1>9, <1>11, <2>3
    <3>2. i - 1 = j - 1
      BY <1>2, <3>1, Zenon
    <3>3. i \in Int /\ j \in Int
      <4>1. DOMAIN t = 1 .. Len(t)
        BY <1>4
      <4> QED BY <4>1
    <3> QED BY <3>2, <3>3
  <2> QED BY <2>2, <2>3
<1>12. Piled(larger, t, O, A \cup {x})
  BY <1>2, <1>4, <1>6, <1>7, <1>10, <1>11, Zenon DEF Piled
<1> QED BY <1>12, Zenon

LEMMA PiledOversized ==
    ASSUME NEW R, NEW B, NEW O, NEW A, Piled(R, B, O, A), A \subseteq Pieces, \A p \in A : p.at \in DOMAIN R,
           NEW larger, NEW at, NEW words, Larger(R, larger, at, words), NEW b \in OverBlocks,
           b.at = at, NEW x \in Pieces, x.pile, x.at = at
    PROVE  Piled(larger, B, <<b>> \o O, A \cup {x})
<1> PICK t : t = <<b>> \o O
  OBVIOUS
<1>1. at \in (1 .. MaxRegions) \ DOMAIN R /\ DOMAIN larger = DOMAIN R \cup {at}
      /\ \A r \in DOMAIN R : larger[r] = R[r]
  BY DEF Larger
<1>2. /\ B \in Seq(Blocks) /\ O \in Seq(OverBlocks)
      /\ \A p \in A : p.pile <=> p.at \in Ats(B) \cup Ats(O)
      /\ Ats(B) \cup Ats(O) \subseteq DOMAIN R /\ Ats(B) \cap Ats(O) = {}
      /\ \A i \in DOMAIN B : /\ R[B[i].at] = PileBlockSize
                             /\ \A p \in A : p.at = B[i].at => p.off + p.words <= B[i].pos
      /\ \A i, j \in DOMAIN B : B[i].at = B[j].at => i = j
  BY Zenon DEF Piled
<1>4. t \in Seq(OverBlocks) /\ Pushed(t, O, b)
  BY <1>2, PushedList, Zenon
<1>5. Ats(t) = {at} \cup Ats(O)
  BY <1>4, AtsPushed, Zenon
<1>6. \A p \in A \cup {x} : p.pile <=> p.at \in Ats(B) \cup Ats(t)
  <2>1. \A p \in A : p.at # at /\ (p.pile <=> p.at \in Ats(B) \cup Ats(O))
    BY <1>1, <1>2
  <2>2. x.pile /\ x.at \in Ats(t)
    BY <1>5
  <2> QED BY <1>5, <2>1, <2>2
<1>7. Ats(B) \cup Ats(t) \subseteq DOMAIN larger /\ Ats(B) \cap Ats(t) = {}
  BY <1>1, <1>2, <1>5
<1>8. \A i \in DOMAIN B : B[i].at \in DOMAIN R /\ B[i].at # at
  BY <1>1, <1>2 DEF Ats
<1>9. \A i \in DOMAIN B : /\ larger[B[i].at] = PileBlockSize
                          /\ \A p \in A \cup {x} : p.at = B[i].at => p.off + p.words <= B[i].pos
  BY <1>1, <1>2, <1>8
<1> QED BY <1>2, <1>4, <1>6, <1>7, <1>9, Zenon DEF Piled

LEMMA LaidInABlock ==
    ASSUME NEW R, NEW B, NEW O, NEW A, Laid(R, A), Mapped(R), Piled(R, B, O, A), NEW i \in DOMAIN B,
           NEW words \in Nat \ {0}, B[i].pos + words <= PileBlockSize
    PROVE  /\ Laid(R, A \cup {Piece(B[i].at, B[i].pos, words, TRUE)})
           /\ Piece(B[i].at, B[i].pos, words, TRUE) \in Pieces /\ Piece(B[i].at, B[i].pos, words, TRUE).pile
<1> PICK x : x = Piece(B[i].at, B[i].pos, words, TRUE)
  OBVIOUS
<1>1. /\ B \in Seq(Blocks)
      /\ \A p \in A : p.pile <=> p.at \in Ats(B) \cup Ats(O)
      /\ Ats(B) \subseteq DOMAIN R /\ R[B[i].at] = PileBlockSize
      /\ \A p \in A : p.at = B[i].at => p.off + p.words <= B[i].pos
  BY DEF Piled
<1>2. B[i] \in Blocks
  BY <1>1
<1> PICK at \in 1 .. MaxRegions : at = B[i].at
  BY <1>2 DEF Blocks
<1> PICK pos \in Nat : pos = B[i].pos
  BY <1>2 DEF Blocks
<1>3. at \in Ats(B)
  BY DEF Ats
<1>4. x \in Pieces /\ x.at = at /\ x.off = pos /\ x.words = words /\ x.pile
  <2>1. PICK y : y = Piece(at, pos, words, TRUE)
    OBVIOUS
  <2>2. y \in Pieces /\ y.at = at /\ y.off = pos /\ y.words = words /\ y.pile
    BY <2>1 DEF Piece, Pieces
  <2> QED BY <2>1, <2>2
<1>5. /\ A \subseteq Pieces
      /\ \A p \in A : p.at \in DOMAIN R /\ p.off + p.words <= R[p.at]
      /\ \A p, q \in A : p # q /\ p.at = q.at => Follows(p, q) \/ Follows(q, p)
      /\ \A p, q \in A : p.at = q.at /\ ~p.pile /\ p.words > NumTrays => q = p
  BY Zenon DEF Laid
<1>6. ASSUME NEW p \in A, p.at = x.at PROVE Follows(x, p) /\ p.pile
  BY <1>1, <1>3, <1>4, <1>6 DEF Follows
<1>7. \A p \in A \cup {x} : p.at \in DOMAIN R /\ p.off + p.words <= R[p.at]
  <2>1. x.at \in DOMAIN R /\ x.off + x.words <= R[x.at]
    BY <1>1, <1>3, <1>4
  <2> QED BY <1>5, <2>1
<1>8. \A p, q \in A \cup {x} : p # q /\ p.at = q.at => Follows(p, q) \/ Follows(q, p)
  <2>1. \A p \in A : p.at = x.at => Follows(x, p)
    BY <1>6
  <2> QED BY <1>5, <2>1
<1>9. \A p, q \in A \cup {x} : p.at = q.at /\ ~p.pile /\ p.words > NumTrays => q = p
  <2>1. \A p \in A : p.at = x.at => p.pile
    BY <1>6
  <2> QED BY <1>4, <1>5, <2>1
<1>10. Laid(R, A \cup {x})
  BY <1>4, <1>5, <1>7, <1>8, <1>9 DEF Laid
<1> QED BY <1>4, <1>10, Zenon

LEMMA ListOf ==
    ASSUME NEW S, NEW n \in Nat, NEW t, t = [i \in 1 .. n |-> t[i]], \A i \in 1 .. n : t[i] \in S
    PROVE  t \in Seq(S)
<1>1. t \in [1 .. n -> S]
  OBVIOUS
<1> QED BY <1>1

LEMMA ResetIs ==
    ASSUME NEW b \in Blocks
    PROVE  [b EXCEPT !.pos = 0] \in Blocks /\ [b EXCEPT !.pos = 0].at = b.at
  BY DEF Blocks

LEMMA PiledInABlock ==
    ASSUME NEW R, NEW B, NEW O, NEW A, A \subseteq Pieces, Piled(R, B, O, A), NEW i \in DOMAIN B,
           NEW words \in Nat \ {0}
    PROVE  Piled(R, [B EXCEPT ![i].pos = @ + words], O, A \cup {Piece(B[i].at, B[i].pos, words, TRUE)})
<1> PICK x : x = Piece(B[i].at, B[i].pos, words, TRUE)
  OBVIOUS
<1> PICK t : t = [B EXCEPT ![i].pos = @ + words]
  OBVIOUS
<1>1. /\ B \in Seq(Blocks) /\ O \in Seq(OverBlocks)
      /\ \A p \in A : p.pile <=> p.at \in Ats(B) \cup Ats(O)
      /\ Ats(B) \cup Ats(O) \subseteq DOMAIN R /\ Ats(B) \cap Ats(O) = {}
      /\ \A j \in DOMAIN B : /\ R[B[j].at] = PileBlockSize
                             /\ \A p \in A : p.at = B[j].at => p.off + p.words <= B[j].pos
      /\ \A j, k \in DOMAIN B : B[j].at = B[k].at => j = k
  BY Zenon DEF Piled
<1>2. B[i] \in Blocks
  BY <1>1
<1> PICK at \in 1 .. MaxRegions : at = B[i].at
  BY <1>2 DEF Blocks
<1> PICK pos \in Nat : pos = B[i].pos
  BY <1>2 DEF Blocks
<1>3. x.at = at /\ x.off = pos /\ x.words = words /\ x.pile
  BY DEF Piece
<1>4. DOMAIN t = DOMAIN B /\ \A j \in DOMAIN B : j # i => t[j] = B[j]
  BY <1>1
<1>5. t[i].at = at /\ t[i].pos = pos + words /\ t[i] \in Blocks
  <2>1. B[i] = [at |-> at, pos |-> pos]
    BY <1>2 DEF Blocks
  <2>2. t[i] = [at |-> at, pos |-> pos + words]
    BY <1>1, <2>1
  <2> QED BY <2>2 DEF Blocks
<1>6. t \in Seq(Blocks)
  <2>1. PICK n \in Nat : DOMAIN B = 1 .. n
    BY <1>1
  <2>2. t = [j \in 1 .. n |-> t[j]]
    BY <1>4, <2>1
  <2>3. \A j \in 1 .. n : t[j] \in Blocks
    BY <1>1, <1>4, <1>5, <2>1
  <2> QED BY <2>2, <2>3, ListOf, Zenon
<1>7. \A j \in DOMAIN B : t[j].at = B[j].at
  BY <1>4, <1>5
<1>8. Ats(t) = Ats(B) /\ at \in Ats(B)
  BY <1>4, <1>7 DEF Ats
<1>9. \A p \in A \cup {x} : p.pile <=> p.at \in Ats(t) \cup Ats(O)
  <2>1. x.pile /\ x.at \in Ats(t)
    BY <1>3, <1>8
  <2> QED BY <1>1, <1>8, <2>1
<1>10. ASSUME NEW j \in DOMAIN t
       PROVE  R[t[j].at] = PileBlockSize /\ \A p \in A \cup {x} : p.at = t[j].at => p.off + p.words <= t[j].pos
  <2>1. R[t[j].at] = PileBlockSize
    BY <1>1, <1>4, <1>7
  <2>2. CASE j = i
    <3>1. \A p \in A : p.at = at => p.off + p.words <= pos
      BY <1>1
    <3>2. \A p \in A : p.off + p.words \in Nat
      BY DEF Pieces
    <3>3. x.off + x.words <= pos + words
      <4>1. x.off + x.words = pos + words
        BY <1>3, Zenon
      <4>2. pos + words <= pos + words
        OBVIOUS
      <4> QED BY <4>1, <4>2, Zenon
    <3>4. \A p \in A : p.at = at => p.off + p.words <= pos + words
      BY <3>1, <3>2
    <3> QED BY <1>5, <2>1, <2>2, <3>3, <3>4
  <2>3. CASE j # i
    <3>1. t[j] = B[j] /\ B[j].at # at
      BY <1>1, <1>4, <2>3
    <3>2. x.at # t[j].at
      BY <1>3, <3>1
    <3>3. \A p \in A : p.at = t[j].at => p.off + p.words <= t[j].pos
      BY <1>1, <1>4, <3>1
    <3> QED BY <2>1, <3>2, <3>3
  <2> QED BY <2>2, <2>3
<1>11. \A j, k \in DOMAIN t : t[j].at = t[k].at => j = k
  BY <1>1, <1>4, <1>7
<1>12. Ats(t) \cup Ats(O) \subseteq DOMAIN R /\ Ats(t) \cap Ats(O) = {}
  BY <1>1, <1>8
<1>13. Piled(R, t, O, A \cup {x})
  BY <1>1, <1>6, <1>9, <1>10, <1>11, <1>12, Zenon DEF Piled
<1> QED BY <1>13, Zenon

-----------------------------------------------------------------------------
(* What is freed with the pile.                                              *)
LEMMA ShortIs ==
    ASSUME NEW S, NEW s \in Seq(S), NEW k \in Nat, k <= Len(s)
    PROVE  /\ DOMAIN SubSeq(s, 1, k) = 1 .. k /\ 1 .. k \subseteq DOMAIN s
           /\ \A i \in 1 .. k : SubSeq(s, 1, k)[i] = s[i]
<1> PICK t : t = SubSeq(s, 1, k)
  OBVIOUS
<1>1. \A i \in 1 .. k : s[i] \in S
  OBVIOUS
<1>2. /\ t \in Seq(S) /\ Len(t) = IF 1 <= k THEN k - 1 + 1 ELSE 0
      /\ \A i \in 1 .. k - 1 + 1 : t[i] = s[1 + i - 1]
  BY <1>1, SubSeqProperties
<1>3. Len(t) = k /\ DOMAIN t = 1 .. Len(t)
  BY <1>2
<1>4. \A i \in 1 .. k : i \in 1 .. k - 1 + 1 /\ 1 + i - 1 = i
  OBVIOUS
<1>5. \A i \in 1 .. k : t[i] = s[i]
  BY <1>2, <1>4
<1> QED BY <1>3, <1>5

LEMMA RestIs ==
    ASSUME NEW S, NEW s \in Seq(S), NEW m \in Nat
    PROVE  \A i \in DOMAIN SubSeq(s, m + 1, Len(s)) :
              i \in Nat \ {0} /\ m + i \in DOMAIN s /\ SubSeq(s, m + 1, Len(s))[i] = s[m + i]
<1> PICK t : t = SubSeq(s, m + 1, Len(s))
  OBVIOUS
<1> PICK n \in Nat : n = Len(s)
  OBVIOUS
<1>1. \A i \in m + 1 .. n : s[i] \in S
  OBVIOUS
<1>2. /\ t \in Seq(S) /\ Len(t) = IF m + 1 <= n THEN n - (m + 1) + 1 ELSE 0
      /\ \A i \in 1 .. n - (m + 1) + 1 : t[i] = s[(m + 1) + i - 1]
  BY <1>1, SubSeqProperties
<1>3. DOMAIN t = 1 .. Len(t) /\ DOMAIN s = 1 .. n
  BY <1>2
<1>4. ASSUME NEW i \in DOMAIN t PROVE i \in Nat \ {0} /\ m + i \in DOMAIN s /\ t[i] = s[m + i]
  <2>1. i \in Nat \ {0} /\ i \in 1 .. n - (m + 1) + 1 /\ (m + 1) + i - 1 = m + i /\ m + i \in 1 .. n
    BY <1>2, <1>3
  <2>2. t[i] = s[(m + 1) + i - 1]
    BY <1>2, <2>1
  <2> QED BY <1>3, <2>1, <2>2
<1> QED BY <1>4, Zenon

Cleared(s) == [i \in DOMAIN s |-> [s[i] EXCEPT !.pos = 0]]
Distinct(B) == \A i, j \in DOMAIN B : B[i].at = B[j].at => i = j
Parted(B, gone, kept) ==
    /\ kept \in Seq(Blocks) /\ DOMAIN kept \subseteq DOMAIN B /\ \A i \in DOMAIN kept : kept[i].at = B[i].at
    /\ Ats(gone) \subseteq Ats(B) /\ Ats(kept) \subseteq Ats(B) \ Ats(gone)

LEMMA PfreedBlocks ==
    ASSUME NEW B, B \in Seq(Blocks), Distinct(B), NEW m \in Nat, NEW k \in Nat, k <= m, k <= Len(B)
    PROVE  Parted(B, SubSeq(B, m + 1, Len(B)), Cleared(SubSeq(B, 1, k)))
<1> PICK kept : kept = SubSeq(B, 1, k)
  OBVIOUS
<1> PICK gone : gone = SubSeq(B, m + 1, Len(B))
  OBVIOUS
<1> PICK t : t = Cleared(kept)
  OBVIOUS
<1>1. /\ DOMAIN kept = 1 .. k /\ 1 .. k \subseteq DOMAIN B
      /\ \A i \in 1 .. k : kept[i] = B[i]
  BY ShortIs
<1>2. \A i \in DOMAIN gone : i \in Nat \ {0} /\ m + i \in DOMAIN B /\ gone[i] = B[m + i]
  BY RestIs
<1>3. DOMAIN t = 1 .. k /\ \A i \in 1 .. k : t[i] = [B[i] EXCEPT !.pos = 0]
  BY <1>1 DEF Cleared
<1>4. \A i \in 1 .. k : B[i] \in Blocks
  BY <1>1
<1>5. ASSUME NEW i \in 1 .. k PROVE t[i] \in Blocks /\ t[i].at = B[i].at
  <2>1. B[i] \in Blocks /\ t[i] = [B[i] EXCEPT !.pos = 0]
    BY <1>3, <1>4
  <2> QED BY <2>1, ResetIs, Zenon
<1>6. t \in Seq(Blocks)
  <2>1. t = [i \in 1 .. k |-> t[i]]
    BY <1>3 DEF Cleared
  <2>2. \A i \in 1 .. k : t[i] \in Blocks
    BY <1>5, Zenon
  <2> QED BY <2>1, <2>2, ListOf, Zenon
<1>7. Ats(gone) \subseteq Ats(B)
  BY <1>2 DEF Ats
<1>8. ASSUME NEW i \in 1 .. k PROVE t[i].at \in Ats(B) /\ t[i].at \notin Ats(gone)
  <2>1. i \in DOMAIN B /\ t[i].at = B[i].at
    BY <1>1, <1>5
  <2>2. ASSUME NEW j \in DOMAIN gone PROVE gone[j].at # B[i].at
    <3>1. j \in Nat \ {0} /\ m + j \in DOMAIN B /\ gone[j] = B[m + j]
      BY <1>2
    <3>2. m + j # i
      BY <3>1
    <3>3. B[m + j].at # B[i].at
      BY <2>1, <3>1, <3>2, Zenon DEF Distinct
    <3> QED BY <3>1, <3>3, Zenon
  <2> QED BY <2>1, <2>2 DEF Ats
<1>9. Ats(t) \subseteq Ats(B) \ Ats(gone)
  <2>1. ASSUME NEW a \in Ats(t) PROVE a \in Ats(B) \ Ats(gone)
    <3>1. PICK i \in 1 .. k : a = t[i].at
      BY <1>3 DEF Ats
    <3> QED BY <1>8, <3>1
  <2> QED BY <2>1
<1>10. DOMAIN t \subseteq DOMAIN B /\ \A i \in DOMAIN t : t[i].at = B[i].at
  BY <1>1, <1>3, <1>5
<1> QED BY <1>6, <1>7, <1>9, <1>10, Zenon DEF Parted

NodesOf(O) == [i \in DOMAIN O |-> O[i].node]

LEMMA NodesAre ==
    ASSUME NEW O \in Seq(OverBlocks), NEW L, Noded(O, L)
    PROVE  /\ NodesOf(O) \in Seq(Pieces) /\ IsInjective(NodesOf(O))
           /\ \A p \in ToSet(NodesOf(O)) : p \in L /\ ~p.pile /\ p.words = 2 /\ ~NotANode(O, p)
           /\ \A p : ~NotANode(O, p) => p \in ToSet(NodesOf(O))
<1> PICK t : t = NodesOf(O)
  OBVIOUS
<1>1. PICK n \in Nat : DOMAIN O = 1 .. n
  OBVIOUS
<1>2. DOMAIN t = 1 .. n /\ t = [i \in 1 .. n |-> t[i]] /\ \A i \in 1 .. n : t[i] = O[i].node
  BY <1>1 DEF NodesOf
<1>3. \A i \in 1 .. n : O[i].node \in Pieces
  <2>1. \A i \in 1 .. n : O[i] \in OverBlocks
    BY <1>1
  <2> QED BY <2>1 DEF OverBlocks
<1>4. \A i \in 1 .. n : t[i] \in Pieces
  BY <1>2, <1>3
<1>5. t \in Seq(Pieces)
  BY <1>2, <1>4, ListOf, Zenon
<1>6. \A i \in 1 .. n : O[i].node \in L /\ ~O[i].node.pile /\ O[i].node.words = 2
  BY <1>1, Constants DEF Noded
<1>7. \A i, j \in 1 .. n : t[i] = t[j] => i = j
  BY <1>1, <1>2 DEF Noded
<1>8. IsInjective(t)
  BY <1>2, <1>7, Zenon DEF IsInjective
<1>9. ASSUME NEW p \in ToSet(t) PROVE p \in L /\ ~p.pile /\ p.words = 2 /\ ~NotANode(O, p)
  <2>1. PICK i \in 1 .. n : p = O[i].node
    BY <1>2 DEF ToSet
  <2> QED BY <1>1, <1>6, <2>1 DEF NotANode
<1>10. ASSUME NEW p, ~NotANode(O, p) PROVE p \in ToSet(t)
  <2>1. PICK i \in 1 .. n : p = O[i].node
    BY <1>1, <1>10 DEF NotANode
  <2> QED BY <1>2, <2>1 DEF ToSet
<1> QED BY <1>5, <1>8, <1>9, <1>10, Zenon

Kept(O, L) == {p \in L : ~p.pile /\ NotANode(O, p)}

Reset(B, ats, B2) ==
    /\ B2 \in Seq(Blocks) /\ DOMAIN B2 \subseteq DOMAIN B /\ Ats(B2) \cap ats = {}
    /\ \A i \in DOMAIN B2 : B2[i].at = B[i].at

NoPile(A) == \A p \in A : ~p.pile
Away(A, B, O) == \A p \in A : p.at \notin Ats(B) \cup Ats(O)

LEMMA PiledAfterReset ==
    ASSUME NEW R, Mapped(R), NEW B, NEW O, NEW A, Piled(R, B, O, A), NEW less, less \subseteq A,
           NoPile(less), NEW ats, NEW B2, Reset(B, ats, B2)
    PROVE  Piled(free(R, ats), B2, <<>>, less) /\ Away(less, B, O)
<1>1. /\ \A p \in A : p.pile <=> p.at \in Ats(B) \cup Ats(O)
      /\ Ats(B) \cup Ats(O) \subseteq DOMAIN R
      /\ \A i \in DOMAIN B : R[B[i].at] = PileBlockSize
      /\ \A i, j \in DOMAIN B : B[i].at = B[j].at => i = j
  BY Zenon DEF Piled
<1>2. B2 \in Seq(Blocks) /\ DOMAIN B2 \subseteq DOMAIN B /\ Ats(B2) \cap ats = {} /\ \A i \in DOMAIN B2 : B2[i].at = B[i].at
  BY Zenon DEF Reset
<1>3. DOMAIN free(R, ats) = DOMAIN R \ ats /\ \A r \in DOMAIN R \ ats : free(R, ats)[r] = R[r]
  BY FreeIs, Zenon
<1>4. \A p \in less : ~p.pile /\ p.at \notin Ats(B) \cup Ats(O)
  BY <1>1 DEF NoPile
<1>5. ASSUME NEW i \in DOMAIN B2
      PROVE  /\ B2[i].at \in Ats(B2) /\ B2[i].at \in Ats(B) /\ B2[i].at \in DOMAIN R \ ats
             /\ R[B2[i].at] = PileBlockSize
  <2>1. B2[i].at = B[i].at /\ i \in DOMAIN B
    BY <1>2
  <2>2. B2[i].at \in Ats(B2) /\ B[i].at \in Ats(B)
    BY <2>1 DEF Ats
  <2> QED BY <1>1, <1>2, <2>1, <2>2
<1>6. Ats(B2) \subseteq Ats(B) /\ Ats(B2) \subseteq DOMAIN R \ ats
  BY <1>5 DEF Ats
<1>7. Ats(<<>>) = {}
  BY DEF Ats
<1>8. \A p \in less : p.pile <=> p.at \in Ats(B2) \cup Ats(<<>>)
  BY <1>4, <1>6, <1>7
<1>9. Ats(B2) \cup Ats(<<>>) \subseteq DOMAIN free(R, ats) /\ Ats(B2) \cap Ats(<<>>) = {}
  BY <1>3, <1>6, <1>7
<1>10. \A i \in DOMAIN B2 : /\ free(R, ats)[B2[i].at] = PileBlockSize
                            /\ \A p \in less : p.at = B2[i].at => p.off + p.words <= B2[i].pos
  BY <1>3, <1>4, <1>5
<1>11. \A i, j \in DOMAIN B2 : B2[i].at = B2[j].at => i = j
  BY <1>1, <1>2
<1>12. <<>> \in Seq(OverBlocks)
  OBVIOUS
<1>13. Piled(free(R, ats), B2, <<>>, less)
  BY <1>2, <1>8, <1>9, <1>10, <1>11, <1>12, Zenon DEF Piled
<1> QED BY <1>4, <1>13 DEF Away

Returned(T, O) == Put(T, 1, Reverse(NodesOf(O)) \o T[1])

LEMMA TraysAfterPfree ==
    ASSUME NEW T, NEW L, Listed(T, L), NEW O \in Seq(OverBlocks), Noded(O, L)
    PROVE  /\ Listed(Returned(T, O), Kept(O, L)) /\ OnTrays(Returned(T, O)) \subseteq L \cup OnTrays(T)
           /\ \A p \in OnTrays(Returned(T, O)) : ~p.pile
<1> PICK nodes : nodes = NodesOf(O)
  OBVIOUS
<1> PICK back : back = Reverse(nodes)
  OBVIOUS
<1> PICK s : s = back \o T[1]
  OBVIOUS
<1> PICK T2 : T2 = Put(T, 1, s)
  OBVIOUS
<1>3. /\ nodes \in Seq(Pieces) /\ IsInjective(nodes)
      /\ \A p \in ToSet(nodes) : p \in L /\ ~p.pile /\ p.words = 2 /\ ~NotANode(O, p)
  BY NodesAre, Zenon
<1>4. 1 \in Trays
  BY Constants
<1>5. /\ T[1] \in Seq(Pieces) /\ IsInjective(T[1])
      /\ \A p \in ToSet(T[1]) : p.words = 1 + 1 /\ ~p.pile /\ p \notin L
  BY <1>4 DEF Listed
<1>6. back \in Seq(Pieces) /\ ToSet(back) = ToSet(nodes) /\ IsInjective(back)
  BY <1>3, ReversedIs, Zenon
<1>7. s \in Seq(Pieces) /\ ToSet(s) = ToSet(nodes) \cup ToSet(T[1]) /\ IsInjective(s)
  <2>1. ToSet(back) \cap ToSet(T[1]) = {}
    BY <1>3, <1>5, <1>6
  <2> PICK list : list = T[1]
    OBVIOUS
  <2>2. list \in Seq(Pieces) /\ IsInjective(list) /\ ToSet(back) \cap ToSet(list) = {}
    BY <1>5, <2>1, Zenon
  <2>3. back \o list \in Seq(Pieces) /\ ToSet(back \o list) = ToSet(back) \cup ToSet(list) /\ IsInjective(back \o list)
    BY <1>6, <2>2, JoinedIs
  <2> QED BY <1>6, <2>3, Zenon
<1>8. Fitting(s, 1, Kept(O, L))
  <2>1. \A p \in ToSet(nodes) : p.words = 1 + 1 /\ ~p.pile /\ p \notin Kept(O, L)
    BY <1>3 DEF Kept
  <2>2. \A p \in ToSet(T[1]) : p.words = 1 + 1 /\ ~p.pile /\ p \notin Kept(O, L)
    BY <1>5 DEF Kept
  <2> QED BY <1>7, <2>1, <2>2 DEF Fitting
<1>9. \A p \in OnTrays(T) : p \notin L /\ ~p.pile
  BY DEF Listed, OnTrays
<1>10. Others(T, 1) \cap Kept(O, L) = {}
  BY <1>9 DEF Others, Kept
<1>11. Listed(Put(T, 1, s), Kept(O, L)) /\ OnTrays(Put(T, 1, s)) = Others(T, 1) \cup ToSet(s)
  BY <1>4, <1>8, <1>10, ListedPut
<1>12. OnTrays(T2) \subseteq L \cup OnTrays(T) /\ \A p \in OnTrays(T2) : ~p.pile
  <2>1. ToSet(T[1]) \subseteq OnTrays(T)
    BY <1>4 DEF OnTrays
  <2> QED BY <1>3, <1>7, <1>9, <1>11, <2>1 DEF Others
<1>13. Returned(T, O) = T2
  BY Zenon DEF Returned
<1> QED BY <1>11, <1>12, <1>13

LEMMA Pfreeing ==
    ASSUME NEW R, NEW T, NEW B, NEW O, NEW L, Good(R, T, B, O, L), NEW ats, ats \subseteq Ats(B) \cup Ats(O),
           NEW B2, Reset(B, ats, B2)
    PROVE  Good(free(R, ats), Returned(T, O), B2, <<>>, Kept(O, L))
<1> PICK T2 : T2 = Returned(T, O)
  OBVIOUS
<1> PICK L2 : L2 = Kept(O, L)
  OBVIOUS
<1> PICK A : A = L \cup OnTrays(T)
  OBVIOUS
<1> PICK A2 : A2 = L2 \cup OnTrays(T2)
  OBVIOUS
<1>1. Listed(T, L) /\ Mapped(R) /\ L \subseteq Pieces /\ Laid(R, A) /\ Piled(R, B, O, A) /\ Noded(O, L)
  BY Zenon DEF Good
<1>2. O \in Seq(OverBlocks)
  BY <1>1, Zenon DEF Piled
<1>3. Listed(T2, L2) /\ OnTrays(T2) \subseteq A /\ \A p \in OnTrays(T2) : ~p.pile
  BY <1>1, <1>2, TraysAfterPfree, Zenon
<1>4. A2 \subseteq A /\ NoPile(A2)
  <2>1. L2 \subseteq L /\ \A p \in L2 : ~p.pile
    BY DEF Kept
  <2> QED BY <1>3, <2>1 DEF NoPile
<1>5. Piled(free(R, ats), B2, <<>>, A2) /\ Away(A2, B, O)
  BY <1>1, <1>4, PiledAfterReset, Zenon
<1>6. Laid(free(R, ats), A2)
  <2>1. \A p \in A2 : p.at \notin ats
    BY <1>5 DEF Away
  <2>2. Laid(R, A2)
    BY <1>1, <1>4, LaidLess, Zenon
  <2> QED BY <1>1, <2>1, <2>2, LaidAfterFree, Zenon
<1>7. Mapped(free(R, ats))
  BY <1>1, FreeIs, Zenon
<1>8. Noded(<<>>, L2) /\ L2 \subseteq Pieces
  BY <1>1 DEF Noded, Kept
<1>9. Good(free(R, ats), T2, B2, <<>>, L2)
  BY <1>3, <1>5, <1>6, <1>7, <1>8, Zenon DEF Good
<1> QED BY <1>9, Zenon

-----------------------------------------------------------------------------
(* Each action keeps the invariant.                                          *)
LEMMA InitInv == MemoryInit => Inv
<1> SUFFICES ASSUME MemoryInit PROVE Inv
  OBVIOUS
<1>1. /\ regions = [r \in {1} |-> PileBlockSize] /\ trays = [t \in Trays |-> <<>>]
      /\ blocks = <<[at |-> 1, pos |-> 0]>> /\ over = <<>> /\ live = {}
  BY Zenon DEF MemoryInit
<1>2. 1 \in 1 .. MaxRegions /\ PileBlockSize \in Nat
  BY Constants
<1>3. Mapped(regions) /\ DOMAIN regions = {1} /\ regions[1] = PileBlockSize
  BY <1>1, <1>2 DEF Mapped
<1>4. OnTrays(trays) = {} /\ Listed(trays, live)
  <2>1. ToSet(<<>>) = {} /\ IsInjective(<<>>) /\ <<>> \in Seq(Pieces)
    BY DEF ToSet, IsInjective
  <2>2. \A t \in Trays : trays[t] = <<>>
    BY <1>1
  <2>3. trays \in [Trays -> Seq(Pieces)]
    BY <1>1, <2>1
  <2>4. \A t \in Trays : ToSet(trays[t]) = {} /\ IsInjective(trays[t])
    BY <2>1, <2>2, Zenon
  <2> QED BY <2>3, <2>4 DEF Listed, OnTrays
<1>5. live \cup OnTrays(trays) = {}
  BY <1>1, <1>4
<1>6. Laid(regions, {})
  BY DEF Laid
<1>7. DOMAIN blocks = {1} /\ blocks[1] = [at |-> 1, pos |-> 0] /\ blocks \in Seq(Blocks)
  BY <1>1, <1>2 DEF Blocks
<1>8. blocks[1].at = 1 /\ Ats(blocks) = {1} /\ Ats(over) = {} /\ over \in Seq(OverBlocks)
  BY <1>1, <1>7 DEF Ats
<1>9. Piled(regions, blocks, over, {})
  BY <1>3, <1>7, <1>8 DEF Piled
<1>10. Noded(over, live) /\ live \subseteq Pieces
  BY <1>1 DEF Noded
<1> QED BY <1>3, <1>4, <1>5, <1>6, <1>9, <1>10, Zenon DEF Inv, Good

LEMMA TmallocKeeps ==
    ASSUME Inv, NEW words \in 1 .. MaxWords, Tmalloc(words)
    PROVE  Inv'
<1> PICK got : got = tmalloc(regions, trays, words)
  OBVIOUS
<1>1. /\ words > MaxUseTray \/ trays[words - 1] = <<>> => Unmapped(regions) # {}
      /\ regions' = got.regions /\ trays' = got.trays /\ live' = live \cup {got.piece}
      /\ blocks' = blocks /\ over' = over
  BY Zenon DEF Tmalloc, NeedsRegion
<1>2. words \in Nat \ {0}
  BY Constants
<1>3. Good(regions, trays, blocks, over, live)
  BY Zenon DEF Inv
<1>4. Got(regions, trays, blocks, over, live, words, got)
  BY <1>1, <1>2, <1>3, TmallocIs, Zenon
<1> QED BY <1>1, <1>4, Zenon DEF Got, Inv

LEMMA TfreeKeeps ==
    ASSUME Inv, NEW piece \in live, Tfree(piece)
    PROVE  Inv'
<1>1. ~piece.pile /\ NotANode(over, piece) /\ live' = live \ {piece} /\ blocks' = blocks /\ over' = over
  BY Zenon DEF Tfree, NotANode
<1>2. Good(regions, trays, blocks, over, live) /\ live \subseteq Pieces
  BY Zenon DEF Inv, Good
<1>3. MaxUseTray = NumTrays /\ NumTrays \in Nat /\ piece.words \in Nat \ {0}
  BY <1>2, Constants DEF MaxUseTray, Pieces
<1>4. CASE piece.words > MaxUseTray
  <2>1. regions' = free(regions, {piece.at}) /\ trays' = trays
    BY <1>4, Zenon DEF Tfree
  <2>2. piece.words > NumTrays
    BY <1>3, <1>4, Zenon
  <2>3. Good(free(regions, {piece.at}), trays, blocks, over, live \ {piece})
    BY <1>1, <1>2, <2>2, FreeingARegion, Zenon
  <2> QED BY <1>1, <2>1, <2>3, Zenon DEF Inv
<1>5. CASE ~(piece.words > MaxUseTray)
  <2>1. PICK t \in Trays : t = piece.words - 1 /\ piece.words = t + 1
    BY <1>3, <1>5 DEF Trays
  <2>2. trays \in [Trays -> Seq(Pieces)]
    BY <1>2 DEF Good, Listed
  <2>3. trays' = Put(trays, t, <<piece>> \o trays[t]) /\ regions' = regions
    BY <1>5, <2>1, <2>2 DEF Tfree, tfree, Put
  <2>4. Good(regions, Put(trays, t, <<piece>> \o trays[t]), blocks, over, live \ {piece})
    BY <1>1, <1>2, <2>1, ToTheTray, Zenon
  <2> QED BY <1>1, <2>3, <2>4, Zenon DEF Inv
<1> QED BY <1>4, <1>5, Zenon

LEMMA TwoLeft ==
    ASSUME NEW R, Cardinality(Unmapped(R)) >= 2
    PROVE  Unmapped(R) # {} /\ \A at \in Unmapped(R) : Unmapped(R) \ {at} # {}
<1>1. IsFiniteSet(Unmapped(R))
  <2>1. IsFiniteSet(1 .. MaxRegions)
    BY Constants, FS_Interval
  <2>2. Unmapped(R) \in SUBSET (1 .. MaxRegions)
    BY DEF Unmapped
  <2> QED BY <2>1, <2>2, FS_Subset
<1>2. Cardinality({}) = 0
  BY FS_EmptySet
<1>3. Unmapped(R) # {}
  BY <1>2
<1>4. ASSUME NEW at \in Unmapped(R) PROVE Unmapped(R) \ {at} # {}
  <2>1. Cardinality(Unmapped(R) \ {at}) = Cardinality(Unmapped(R)) - 1 /\ Cardinality(Unmapped(R)) \in Nat
    BY <1>1, FS_RemoveElement, FS_CardinalityType
  <2> QED BY <1>2, <2>1
<1> QED BY <1>3, <1>4

NewNode(O, L, node) == node \in L /\ ~node.pile /\ node.words = 2 /\ NotANode(O, node)

GoodOver(R, T, B, O, L, at, node, words) ==
    Good(R, T, B, <<[at |-> at, node |-> node]>> \o O, L \cup {Piece(at, 0, words, TRUE)})

LEMMA OversizedAdded ==
    ASSUME NEW R, NEW T, NEW B, NEW O, NEW L, Good(R, T, B, O, L), NEW node, NewNode(O, L, node), NEW words \in Nat \ {0}, NEW larger, NEW at, Larger(R, larger, at, words)
    PROVE  GoodOver(larger, T, B, O, L, at, node, words)
<1> PICK A : A = L \cup OnTrays(T)
  OBVIOUS
<1> PICK x : x = Piece(at, 0, words, TRUE)
  OBVIOUS
<1> PICK b : b = [at |-> at, node |-> node]
  OBVIOUS
<1> PICK O2 : O2 = <<b>> \o O
  OBVIOUS
<1>1. Listed(T, L) /\ Mapped(R) /\ L \subseteq Pieces /\ Laid(R, A) /\ Piled(R, B, O, A) /\ Noded(O, L)
  BY Zenon DEF Good
<1>0. node \in L /\ ~node.pile /\ node.words = 2 /\ NotANode(O, node)
  BY Zenon DEF NewNode
<1>2. A \subseteq Pieces /\ \A p \in A : p.at \in DOMAIN R
  BY <1>1 DEF Laid
<1>3. at \in 1 .. MaxRegions /\ Mapped(larger)
  BY DEF Larger
<1>4. b \in OverBlocks /\ b.at = at /\ b.node = node
  BY <1>0, <1>1, <1>3 DEF OverBlocks
<1>5. Laid(larger, A \cup {x}) /\ x \in Pieces /\ x.pile /\ x.at = at
  <2>1. words \in 1 .. words
    OBVIOUS
  <2>2. Heaped(larger, A, Piece(at, 0, words, TRUE), at, 0, words)
    BY <1>1, <2>1, LaidAlone, Zenon
  <2> QED BY <2>2, Zenon DEF Heaped
<1>6. Piled(larger, B, O2, A \cup {x})
  BY <1>1, <1>2, <1>4, <1>5, PiledOversized, Zenon
<1>7. Noded(O2, L)
  <2>1. O \in Seq(OverBlocks)
    BY <1>1, Zenon DEF Piled
  <2>2. O2 \in Seq(OverBlocks) /\ Pushed(O2, O, b)
    BY <1>4, <2>1, PushedList, Zenon
  <2>3. /\ O2[1] = b /\ \A i \in DOMAIN O2 : i # 1 => i - 1 \in DOMAIN O /\ O2[i] = O[i - 1]
    BY <2>2, Zenon DEF Pushed
  <2>4. \A i \in DOMAIN O : O[i].node \in L /\ ~O[i].node.pile /\ O[i].node.words = OversizedWords /\ O[i].node # node
    BY <1>0, <1>1 DEF Noded, NotANode
  <2>5. \A i \in DOMAIN O2 : O2[i].node \in L /\ ~O2[i].node.pile /\ O2[i].node.words = OversizedWords
                             /\ (i = 1 <=> O2[i].node = node)
    BY <1>0, <1>4, <2>3, <2>4, Constants
  <2>6. ASSUME NEW i \in DOMAIN O2, NEW j \in DOMAIN O2, O2[i].node = O2[j].node PROVE i = j
    <3>1. CASE i = 1 \/ j = 1
      BY <2>5, <2>6, <3>1
    <3>2. CASE i # 1 /\ j # 1
      <4>1. i - 1 \in DOMAIN O /\ j - 1 \in DOMAIN O /\ O[i - 1].node = O[j - 1].node
        BY <2>3, <2>6, <3>2
      <4>2. i - 1 = j - 1
        BY <1>1, <4>1, Zenon DEF Noded
      <4>3. i \in Int /\ j \in Int
        BY <2>2
      <4> QED BY <4>2, <4>3
    <3> QED BY <3>1, <3>2
  <2> QED BY <2>5, <2>6, Zenon DEF Noded
<1>8. Good(larger, T, B, O2, L \cup {x})
  BY <1>3, <1>5, <1>6, <1>7, Piling, Zenon
<1> QED BY <1>8, Zenon DEF GoodOver

LEMMA OversizedKeeps ==
    ASSUME Inv, NEW words \in 1 .. MaxWords, Oversized(words)
    PROVE  Inv'
<1> PICK got : got = tmalloc(regions, trays, OversizedWords)
  OBVIOUS
<1> PICK new : new = emalloc(got.regions, words)
  OBVIOUS
<1>1. /\ Cardinality(Unmapped(regions)) >= 2
      /\ regions' = new.regions /\ trays' = got.trays
      /\ over' = <<[at |-> new.at, node |-> got.piece]>> \o over
      /\ live' = live \cup {got.piece, Piece(new.at, 0, words, TRUE)} /\ blocks' = blocks
  BY Zenon DEF Oversized
<1>2. words \in Nat \ {0} /\ OversizedWords \in Nat \ {0} /\ OversizedWords = 2
  BY Constants
<1>3. Good(regions, trays, blocks, over, live)
  BY Zenon DEF Inv
<1>4. Unmapped(regions) # {} /\ \A at \in Unmapped(regions) : Unmapped(regions) \ {at} # {}
  BY <1>1, TwoLeft, Zenon
<1>5. Got(regions, trays, blocks, over, live, OversizedWords, got)
  BY <1>2, <1>3, <1>4, TmallocIs, Zenon
<1> PICK R : R = got.regions
  OBVIOUS
<1> PICK T : T = got.trays
  OBVIOUS
<1> PICK node : node = got.piece
  OBVIOUS
<1> PICK L : L = live \cup {node}
  OBVIOUS
<1>6. /\ Good(R, T, blocks, over, L) /\ node \in L
      /\ node \in Pieces \ live /\ node.words = 2 /\ ~node.pile
      /\ Unmapped(R) = Unmapped(regions) \/ \E at \in Unmapped(regions) : Unmapped(R) = Unmapped(regions) \ {at}
  BY <1>2, <1>5 DEF Got
<1>7. Unmapped(R) # {} /\ Mapped(R)
  BY <1>4, <1>6 DEF Good
<1> PICK at : at = new.at
  OBVIOUS
<1> PICK larger : larger = new.regions
  OBVIOUS
<1>8. Larger(R, larger, at, words)
  <2>1. Larger(R, emalloc(R, words).regions, emalloc(R, words).at, words)
    BY <1>2, <1>7, EmallocIs
  <2> QED BY <2>1, Zenon
<1>9. NotANode(over, node)
  BY <1>3, <1>6 DEF Good, Noded, NotANode
<1>10. GoodOver(larger, T, blocks, over, L, at, node, words)
  <2>1. Good(R, T, blocks, over, L) /\ NewNode(over, L, node)
    BY <1>6, <1>9, Zenon DEF NewNode
  <2> QED BY <1>2, <1>8, <2>1, OversizedAdded, Zenon
<1>11. live' = L \cup {Piece(at, 0, words, TRUE)}
  BY <1>1
<1> QED BY <1>1, <1>10, <1>11, Zenon DEF Inv, GoodOver

LEMMA InABlockKeeps ==
    ASSUME Inv, NEW words \in 1 .. MaxWords, InABlock(words)
    PROVE  Inv'
<1> PICK i : i = Min(Fits(words))
  OBVIOUS
<1> PICK x : x = Piece(blocks[i].at, blocks[i].pos, words, TRUE)
  OBVIOUS
<1> PICK B2 : B2 = [blocks EXCEPT ![i].pos = @ + words]
  OBVIOUS
<1> PICK A : A = live \cup OnTrays(trays)
  OBVIOUS
<1>1. /\ Fits(words) # {} /\ blocks' = B2 /\ live' = live \cup {x}
      /\ regions' = regions /\ trays' = trays /\ over' = over
  BY Zenon DEF InABlock
<1>2. Good(regions, trays, blocks, over, live)
  BY Zenon DEF Inv
<1>3. Mapped(regions) /\ Laid(regions, A) /\ Piled(regions, blocks, over, A) /\ Noded(over, live)
  BY <1>2, Zenon DEF Good
<1>4. words \in Nat \ {0} /\ A \subseteq Pieces
  BY <1>3, Constants DEF Laid
<1>5. i \in Fits(words)
  <2>1. blocks \in Seq(Blocks)
    BY <1>3, Zenon DEF Piled
  <2>2. Fits(words) \in SUBSET Nat
    BY <2>1 DEF Fits
  <2> QED BY <1>1, <2>2, MinOfNaturals, Zenon
<1>6. i \in DOMAIN blocks /\ blocks[i].pos + words <= PileBlockSize
  BY <1>5 DEF Fits
<1>7. Laid(regions, A \cup {x}) /\ x \in Pieces /\ x.pile
  <2>1. /\ Laid(regions, A \cup {Piece(blocks[i].at, blocks[i].pos, words, TRUE)})
        /\ Piece(blocks[i].at, blocks[i].pos, words, TRUE) \in Pieces
        /\ Piece(blocks[i].at, blocks[i].pos, words, TRUE).pile
    BY <1>3, <1>4, <1>6, LaidInABlock
  <2> QED BY <2>1, Zenon
<1>8. Piled(regions, B2, over, A \cup {x})
  <2>1. Piled(regions, [blocks EXCEPT ![i].pos = @ + words], over,
              A \cup {Piece(blocks[i].at, blocks[i].pos, words, TRUE)})
    BY <1>3, <1>4, <1>6, PiledInABlock
  <2> QED BY <2>1, Zenon
<1>9. Good(regions, trays, B2, over, live \cup {x})
  BY <1>2, <1>3, <1>7, <1>8, Piling, Zenon
<1> QED BY <1>1, <1>9, Zenon DEF Inv

LEMMA InANewBlockKeeps ==
    ASSUME Inv, NEW words \in 1 .. MaxWords, InANewBlock(words)
    PROVE  Inv'
<1> PICK new : new = emalloc(regions, PileBlockSize)
  OBVIOUS
<1> PICK at : at = new.at
  OBVIOUS
<1> PICK larger : larger = new.regions
  OBVIOUS
<1> PICK x : x = Piece(at, 0, words, TRUE)
  OBVIOUS
<1> PICK b : b = [at |-> at, pos |-> words]
  OBVIOUS
<1> PICK B2 : B2 = <<b>> \o blocks
  OBVIOUS
<1> PICK A : A = live \cup OnTrays(trays)
  OBVIOUS
<1>1. /\ words <= PileBlockSize /\ Unmapped(regions) # {}
      /\ regions' = larger /\ blocks' = B2 /\ live' = live \cup {x} /\ trays' = trays /\ over' = over
  BY Zenon DEF InANewBlock
<1>2. Good(regions, trays, blocks, over, live)
  BY Zenon DEF Inv
<1>3. Mapped(regions) /\ Laid(regions, A) /\ Piled(regions, blocks, over, A) /\ Noded(over, live)
  BY <1>2, Zenon DEF Good
<1>4. words \in Nat /\ words \in 1 .. PileBlockSize /\ PileBlockSize \in Nat \ {0} /\ A \subseteq Pieces
      /\ \A p \in A : p.at \in DOMAIN regions
  BY <1>1, <1>3, Constants DEF Laid
<1>5. Larger(regions, larger, at, PileBlockSize)
  <2>1. Larger(regions, emalloc(regions, PileBlockSize).regions, emalloc(regions, PileBlockSize).at, PileBlockSize)
    BY <1>1, <1>3, <1>4, EmallocIs
  <2> QED BY <2>1, Zenon
<1>6. Mapped(larger)
  BY <1>5 DEF Larger
<1>7. Heaped(larger, A, x, at, 0, words)
  BY <1>3, <1>4, <1>5, LaidAlone, Zenon
<1>8. Laid(larger, A \cup {x}) /\ x \in Pieces /\ x.pile /\ x.at = at /\ x.off + x.words = words
  <2>1. x.off = 0 /\ x.words = words
    BY <1>7, Zenon DEF Heaped
  <2>2. x.off + x.words = words
    <3>1. 0 + words = words
      BY <1>4
    <3> QED BY <2>1, <3>1, Zenon
  <2> QED BY <1>7, <2>2, Zenon DEF Heaped
<1>9. Piled(larger, B2, over, A \cup {x})
  BY <1>3, <1>4, <1>5, <1>8, PiledInANewBlock, Zenon
<1>10. Good(larger, trays, B2, over, live \cup {x})
  BY <1>2, <1>3, <1>6, <1>8, <1>9, Piling, Zenon
<1> QED BY <1>1, <1>10, Zenon DEF Inv

LEMMA PfreeKeeps ==
    ASSUME Inv, Pfree
    PROVE  Inv'
<1> PICK kept : kept = KeptBlocks
  OBVIOUS
<1> PICK gone : gone = GoneBlocks
  OBVIOUS
<1> PICK B2 : B2 = Cleared(kept)
  OBVIOUS
<1> PICK ats : ats = Ats(over) \cup Ats(gone)
  OBVIOUS
<1>1. /\ regions' = free(regions, ats) /\ trays' = NodesFreed /\ over' = <<>> /\ blocks' = B2
      /\ live' = Kept(over, live)
  BY DEF Pfree, Ats, Kept, NotANode, Cleared
<1>2. Good(regions, trays, blocks, over, live)
  BY Zenon DEF Inv
<1>3. blocks \in Seq(Blocks) /\ Distinct(blocks)
  BY <1>2, Zenon DEF Good, Piled, Distinct
<1>4. trays' = Returned(trays, over)
  <2>1. trays \in [Trays -> Seq(Pieces)]
    BY <1>2, Zenon DEF Good, Listed
  <2>2. OversizedWords - 1 = 1
    BY DEF OversizedWords
  <2>3. NodesFreed = [trays EXCEPT ![1] = Reverse(NodesOf(over)) \o @]
    BY <2>2, Zenon DEF NodesFreed, NodesOf
  <2> QED BY <1>1, <2>3, Zenon DEF Returned, Put
<1>5. PICK k \in Nat : k = Min({MaxPileBlocks, Len(blocks)}) /\ k <= MaxPileBlocks /\ k <= Len(blocks)
  <2>1. {MaxPileBlocks, Len(blocks)} \in SUBSET Nat
    BY <1>3, Constants
  <2> QED BY <2>1, MinOfNaturals
<1>6. kept = SubSeq(blocks, 1, k) /\ gone = SubSeq(blocks, MaxPileBlocks + 1, Len(blocks))
  BY <1>5, Zenon DEF KeptBlocks, GoneBlocks
<1>7. /\ B2 \in Seq(Blocks)
      /\ DOMAIN B2 \subseteq DOMAIN blocks /\ \A i \in DOMAIN B2 : B2[i].at = blocks[i].at
      /\ Ats(gone) \subseteq Ats(blocks) /\ Ats(B2) \subseteq Ats(blocks) \ Ats(gone)
  <2>1. MaxPileBlocks \in Nat
    BY Constants
  <2>2. Parted(blocks, SubSeq(blocks, MaxPileBlocks + 1, Len(blocks)), Cleared(SubSeq(blocks, 1, k)))
    BY <1>3, <1>5, <2>1, PfreedBlocks
  <2> QED BY <1>6, <2>2, Zenon DEF Parted
<1>8. Ats(blocks) \cap Ats(over) = {}
  BY <1>2, Zenon DEF Good, Piled
<1>9. Reset(blocks, ats, B2) /\ ats \subseteq Ats(blocks) \cup Ats(over)
  BY <1>7, <1>8 DEF Reset
<1>10. Good(free(regions, ats), Returned(trays, over), B2, <<>>, Kept(over, live))
  BY <1>2, <1>9, Pfreeing, Zenon
<1> QED BY <1>1, <1>4, <1>10, Zenon DEF Inv

LEMMA NextInv == Inv /\ [MemoryNext]_memoryVars => Inv'
<1> SUFFICES ASSUME Inv, [MemoryNext]_memoryVars PROVE Inv'
  OBVIOUS
<1>1. CASE Pfree
  BY <1>1, PfreeKeeps
<1>2. ASSUME NEW words \in 1 .. MaxWords, Tmalloc(words) PROVE Inv'
  BY <1>2, TmallocKeeps
<1>3. ASSUME NEW words \in 1 .. MaxWords, Pmalloc(words) PROVE Inv'
  BY <1>3, OversizedKeeps, InABlockKeeps, InANewBlockKeeps DEF Pmalloc
<1>4. ASSUME NEW piece \in live, Tfree(piece) PROVE Inv'
  BY <1>4, TfreeKeeps
<1>5. CASE UNCHANGED memoryVars
  <2>1. regions' = regions /\ trays' = trays /\ blocks' = blocks /\ over' = over /\ live' = live
    BY <1>5 DEF memoryVars
  <2> QED BY <2>1, Zenon DEF Inv
<1> QED BY <1>1, <1>2, <1>3, <1>4, <1>5, Zenon DEF MemoryNext

-----------------------------------------------------------------------------
LEMMA ApartIs == Inv => MemoryApart
<1> SUFFICES ASSUME Inv PROVE MemoryApart
  OBVIOUS
<1> PICK A : A = live \cup OnTrays(trays)
  OBVIOUS
<1>1. Listed(trays, live) /\ Laid(regions, A)
  BY Zenon DEF Inv, Good
<1>2. FreePieces = OnTrays(trays)
  BY Zenon DEF FreePieces, OnTrays
<1>3. A \subseteq Pieces /\ \A p \in A : Inside(p)
  BY <1>1 DEF Laid, Inside
<1>4. ASSUME NEW p \in A, NEW q \in A, p # q PROVE Words(p) \cap Words(q) = {}
  <2>1. /\ p.off \in Nat /\ p.words \in Nat /\ q.off \in Nat /\ q.words \in Nat
    BY <1>3 DEF Pieces
  <2>2. p.at # q.at \/ p.off + p.words <= q.off \/ q.off + q.words <= p.off
    BY <1>1, <1>4 DEF Laid, Follows
  <2>3. ASSUME NEW w \in Words(p), w \in Words(q) PROVE FALSE
    <3>1. PICK m \in p.off .. p.off + p.words - 1 : w = <<p.at, m>>
      BY Zenon DEF Words
    <3>2. PICK n \in q.off .. q.off + q.words - 1 : w = <<q.at, n>>
      BY <2>3, Zenon DEF Words
    <3>3. p.at = q.at /\ m = n
      BY <3>1, <3>2
    <3> QED BY <2>1, <2>2, <3>3
  <2> QED BY <2>3
<1>5. live \cap FreePieces = {}
  BY <1>1, <1>2 DEF Listed, OnTrays
<1>6. \A t \in Trays : IsInjective(trays[t]) /\ \A p \in ToSet(trays[t]) : p.words = t + 1
  BY <1>1, Zenon DEF Listed
<1> QED BY <1>2, <1>3, <1>4, <1>5, <1>6 DEF MemoryApart

(* Two pieces in use never share a word, whichever allocator gave them and   *)
(* whatever was freed: memory.c's tmalloc and pmalloc hand out each word of  *)
(* the regions malloc gave once, and tfree and pfree take back no more than  *)
(* was handed out.                                                           *)
THEOREM PiecesAreApart == MemorySpec => []MemoryApart
  BY InitInv, NextInv, ApartIs, PTL DEF MemorySpec
==============================================================================
