----------------------------- MODULE ObjectCache -----------------------------
(* cache.c over the store of DiskStore, with the operations of object.c,    *)
(* adminop.c, dump.c and main.c that move objects through it.  Each dbref   *)
(* has one active and one inactive chain of holders (dbref % CACHE_WIDTH).  *)
(* A holder is active while references to it are outstanding; an inactive   *)
(* one keeps its object until a miss needs the holder.  A chain is a        *)
(* sequence from its head.                                                  *)
EXTENDS Integers, FiniteSets, Sequences, SequencesExt

CONSTANTS Dbrefs, Values, NoObj,
          CACHE_WIDTH, CACHE_DEPTH,
          MaxHeld,      \* bound: references the frames hold to one object
          TextDump,     \* dbrefs the "object" lines of the text dump name
          Orphans,      \* bound: objects of which chparents(o, []) is called
          Changeable,   \* bound: objects that are changed
          Unmarked,     \* bound: objects that are changed with no mark while
                        \* they are not dirty
          Scripts       \* what C-- code does: "evals": evals of the text dump
                        \* create, move, destroy or dump objects; "paused_eval":
                        \* one pauses

SYSTEM_DBREF == 0
ROOT_DBREF == 1

ASSUME CacheAssumption ==
    /\ {SYSTEM_DBREF, ROOT_DBREF} \subseteq Dbrefs /\ Dbrefs \subseteq Nat /\ IsFiniteSet(Dbrefs)
    /\ NoObj \notin Values /\ (Values \cup {NoObj}) \cap {<<v>> : v \in Values} = {}
    /\ CACHE_WIDTH \in Nat \ {0} /\ CACHE_DEPTH \in Nat \ {0}
    /\ MaxHeld \in Nat \ {0}
    /\ TextDump \subseteq Dbrefs /\ {Orphans, Changeable, Unmarked} \subseteq SUBSET Dbrefs
    /\ Scripts \subseteq {"evals", "paused_eval"}

VARIABLES phase,    \* "down", "loading" the text dump, or "running"
          active, inactive,     \* the chains
          store, clean,         \* DiskStore
          db_top,               \* one more than the greatest dbref seen
          loadObj,              \* text_dump_read's obj, -1 for NULL
          held,     \* references that frames, the text dump reader and main
                    \* have taken and will give back
          leaked,   \* objects to which op_chparents keeps a reference
          objects,  \* history: what was last stored in each object; <<v>> for
                    \* a v that was stored in one that is not dirty, with no mark
          saved,    \* history: what binary/clean vouches for: objects, when
                    \* it was written; nothing while it is not there
          torn      \* history: the object a crash inside db_del took out of
                    \* files that stay marked

chains == <<active, inactive>>
vars == <<phase, chains, store, clean, db_top, loadObj, held, leaked, objects,
          saved, torn>>

Chains == 0 .. CACHE_WIDTH - 1
Chain(d) == d % CACHE_WIDTH
Nothing == [d \in Dbrefs |-> NoObj]

New(d) == [dbref |-> d, val |-> NoObj, dirty |-> FALSE, dead |-> FALSE,
           refs |-> 1]
Emptied(h) == [dbref |-> -1, val |-> NoObj, dirty |-> h.dirty, dead |-> FALSE,
               refs |-> 0]
Empty == Emptied(New(-1))

(* Definitions named Bug_... are plausible mistakes, each in the place of    *)
(* the definition of its name; the properties have to notice them.          *)

Index(chain, d) ==
    IF \E i \in DOMAIN chain : chain[i].dbref = d
    THEN CHOOSE i \in DOMAIN chain : chain[i].dbref = d ELSE 0

(* The functions below take and return the state of the cache and its store.*)
Cache == [active |-> active, inactive |-> inactive,
          store |-> store, clean |-> clean]
Install(c) == /\ active' = c.active /\ inactive' = c.inactive
              /\ store' = c.store /\ clean' = c.clean
Become(c) == Install(c) /\ saved' = IF c.clean THEN saved ELSE Nothing

Act(c, d) == c.active[Chain(d)]
Inact(c, d) == c.inactive[Chain(d)]
IsActive(c, d) == Index(Act(c, d), d) # 0
IsInactive(c, d) == Index(Inact(c, d), d) # 0

(* cache_check                                                              *)
Exists(c, d) == IsActive(c, d) \/ IsInactive(c, d) \/ c.store[d] # NoObj

Bug_DiskPut(c, h) == [c EXCEPT !.store[h.dbref] = h.val]     \* not db_is_dirty

DiskPut(c, h) == [c EXCEPT !.store[h.dbref] = h.val, !.clean = FALSE]
DiskDel(c, d) == IF c.store[d] = NoObj THEN c
                 ELSE [c EXCEPT !.store[d] = NoObj, !.clean = FALSE]

Bug_GetHolder(c, d) ==          \* recycles a holder without swapping out
    LET in == Inact(c, d)
    IN  [c EXCEPT !.inactive[Chain(d)] = IF in = <<>> THEN in ELSE Front(in),
                  !.active[Chain(d)] = <<New(d)>> \o @]

Bug_GetHolderNew(c, d) ==       \* never recycles one
    [c EXCEPT !.active[Chain(d)] = <<New(d)>> \o @]

(* cache_get_holder: the tail of the inactive chain, its object swapped out *)
(* if it has changed; with no inactive holder left, a new one.              *)
GetHolder(c, d) ==
    LET in == Inact(c, d)
        swap == in # <<>> /\ Last(in).dbref # -1 /\ Last(in).dirty
    IN  [(IF swap THEN DiskPut(c, Last(in)) ELSE c) EXCEPT
            !.inactive[Chain(d)] = IF in = <<>> THEN in ELSE Front(in),
            !.active[Chain(d)] = <<New(d)>> \o @]

Bug_Retrieve(c, d) ==           \* leaves an activated holder in its old chain
    LET i == Index(Act(c, d), d)
        j == Index(Inact(c, d), d)
        miss == GetHolder(c, d)
    IN  IF i # 0 THEN [c EXCEPT !.active[Chain(d)][i].refs = @ + 1]
        ELSE IF j # 0 THEN
            [c EXCEPT !.active[Chain(d)] = <<[Inact(c, d)[j] EXCEPT !.refs = 1]>> \o @]
        ELSE IF miss.store[d] # NoObj THEN
            [miss EXCEPT !.active[Chain(d)][1].val = miss.store[d]]
        ELSE
            [miss EXCEPT !.active[Chain(d)] = Tail(@),
                         !.inactive[Chain(d)] = Append(@, Empty)]

(* cache_retrieve: one more reference to an active holder, or an inactive   *)
(* one activated, or the object read into a fresh holder; the holder of an  *)
(* object that is not there either ends as the next one to be reused.       *)
Retrieve(c, d) ==
    LET i == Index(Act(c, d), d)
        j == Index(Inact(c, d), d)
        miss == GetHolder(c, d)
    IN  IF i # 0 THEN [c EXCEPT !.active[Chain(d)][i].refs = @ + 1]
        ELSE IF j # 0 THEN
            [c EXCEPT !.inactive[Chain(d)] = RemoveAt(@, j),
                      !.active[Chain(d)] = <<[Inact(c, d)[j] EXCEPT !.refs = 1]>> \o @]
        ELSE IF miss.store[d] # NoObj THEN
            [miss EXCEPT !.active[Chain(d)][1].val = miss.store[d]]
        ELSE
            [miss EXCEPT !.active[Chain(d)] = Tail(@),
                         !.inactive[Chain(d)] = Append(@, Empty)]

Holding(c, d) == Act(c, d)[Index(Act(c, d), d)]

(* An assignment to a field of an active object, with and without its dirty *)
(* flag.                                                                    *)
Assign(c, d, v) == [c EXCEPT !.active[Chain(d)][Index(Act(c, d), d)].val = v]
Set(c, d, v) ==
    [Assign(c, d, v) EXCEPT !.active[Chain(d)][Index(Act(c, d), d)].dirty = TRUE]

Kill(c, d) == [c EXCEPT !.active[Chain(d)][Index(Act(c, d), d)].dead = TRUE]

LastRef(c, d) == Holding(c, d).refs = 1
Dies(c, d) == LastRef(c, d) /\ Holding(c, d).dead

Bug_Release(c, d) ==            \* deactivates it while others hold it
    LET i == Index(Act(c, d), d)
        h == [Act(c, d)[i] EXCEPT !.refs = @ - 1]
    IN  [c EXCEPT !.active[Chain(d)] = RemoveAt(@, i),
                  !.inactive[Chain(d)] = <<h>> \o @]

(* cache_discard of an object that is not about to die.                     *)
Release(c, d) ==
    LET i == Index(Act(c, d), d)
        h == [Act(c, d)[i] EXCEPT !.refs = @ - 1]
    IN  IF h.refs # 0 THEN [c EXCEPT !.active[Chain(d)][i] = h]
        ELSE [c EXCEPT !.active[Chain(d)] = RemoveAt(@, i),
                       !.inactive[Chain(d)] = <<h>> \o @]

(* How object_new and object_destroy change a parent or a child: retrieve   *)
(* it, change it, discard it.  kin is empty or a <<dbref, new value>>.       *)
Touch(c, k) == Release(Set(Retrieve(c, k[1]), k[1], k[2]), k[1])
TouchAll(c, kin) == IF kin = <<>> THEN c ELSE Touch(c, kin[1])

(* cache_discard.  A dead object leaves the database with its last          *)
(* reference; it is in no chain while object_destroy changes its kin.       *)
Discard(c, d, kin) ==
    IF ~Dies(c, d) THEN Release(c, d)
    ELSE LET i == Index(Act(c, d), d)
             out == [c EXCEPT !.active[Chain(d)] = RemoveAt(@, i)]
             gone == TouchAll(DiskDel(out, d), kin)
         IN  [gone EXCEPT !.inactive[Chain(d)] = Append(@, Emptied(Act(c, d)[i]))]

(* object_new: a holder for d, whether or not one exists, and its parents   *)
(* told.                                                                    *)
NewObject(c, d, v, kin) == TouchAll(Set(GetHolder(c, d), d, v), kin)

(* The objects that a change of d can reach, and what it makes of them: a   *)
(* list of parents or children always gains or loses one.                   *)
KinOf(objs, d) ==
    LET others == {p \in Changeable \ {d} : objs[p] # NoObj}
    IN  {<<>>} \cup {<<k>> : k \in {q \in others \X Values : objs[q[1]] # q[2]}}
KinIf(b, objs, d) == IF b THEN KinOf(objs, d) ELSE {<<>>}
After(objs, kin) == IF kin = <<>> THEN objs ELSE [objs EXCEPT ![kin[1][1]] = kin[1][2]]

(* cache_sync and db_flush, as cache_sync calls it.                         *)
Synced(c) ==
    LET put(chain) == [i \in DOMAIN chain |-> IF chain[i].dbref = -1 THEN chain[i]
                                              ELSE [chain[i] EXCEPT !.dirty = FALSE]]
        changed == {h \in UNION {Range(c.active[n]) \cup Range(c.inactive[n]) :
                                    n \in Chains} : h.dbref # -1 /\ h.dirty}
    IN  [active |-> [n \in Chains |-> put(c.active[n])],
         inactive |-> [n \in Chains |-> put(c.inactive[n])],
         store |-> [d \in Dbrefs |-> IF \E h \in changed : h.dbref = d
                                     THEN (CHOOSE h \in changed : h.dbref = d).val
                                     ELSE c.store[d]],
         clean |-> TRUE]

-----------------------------------------------------------------------------
NoChains == [n \in Chains |-> <<>>]
Unheld == [d \in Dbrefs |-> 0]

Init ==
    /\ phase = "down"
    /\ active = NoChains /\ inactive = NoChains
    /\ store = Nothing /\ clean = FALSE /\ db_top = 0
    /\ loadObj = -1 /\ held = Unheld /\ leaked = {}
    /\ objects = Nothing /\ saved = Nothing /\ torn = {}

(* initialize: init_cache, init_db, then a root and a system object if the  *)
(* database has none.  Only a database init_db has just emptied is loaded.  *)
Ensured(c, d, v, kin) ==
    IF Exists(c, d) THEN Release(Retrieve(c, d), d)
                    ELSE Release(NewObject(c, d, v, kin), d)

BothHeld == [Unheld EXCEPT ![SYSTEM_DBREF] = 1, ![ROOT_DBREF] = 1]
HoldBoth(c) == Retrieve(Retrieve(c, SYSTEM_DBREF), ROOT_DBREF)

Initialize(v, w) ==
    LET disk == IF clean THEN store ELSE Nothing
        opened == [active |-> NoChains,
                   inactive |-> [n \in Chains |-> [i \in 1 .. CACHE_DEPTH |-> Empty]],
                   store |-> disk, clean |-> TRUE]
        ready == Ensured(Ensured(opened, ROOT_DBREF, v, <<>>),
                         SYSTEM_DBREF, w, <<<<ROOT_DBREF, v>>>>)
        old(d) == disk[d] # NoObj
    IN  /\ phase = "down"
        /\ phase' = IF clean THEN "running" ELSE "loading"
        /\ Install(IF clean THEN HoldBoth(ready) ELSE ready)
        /\ held' = IF clean THEN BothHeld ELSE Unheld
        /\ loadObj' = -1 /\ leaked' = {}
        /\ db_top' = 1 + Max({ROOT_DBREF} \cup {d \in Dbrefs : old(d)})
        /\ objects' = [d \in Dbrefs |->
                         IF old(d) THEN disk[d]
                         ELSE IF d = ROOT_DBREF THEN v
                         ELSE IF d = SYSTEM_DBREF THEN w ELSE NoObj]
        /\ saved' = disk /\ torn' = {}

(* object_new keeps db_top above every dbref it has made.                   *)
Bug_Bumped(d) == IF d > db_top THEN d + 1 ELSE db_top        \* not at db_top itself
Bumped(d) == IF d >= db_top THEN d + 1 ELSE db_top

(* text_dump_read at an "object" line: let go of the previous object, kill  *)
(* an object that has this dbref already, and make a new one.  The reader   *)
(* keeps the new object for the lines that follow.                          *)
Killed(dies, d, kin) == IF dies THEN After([objects EXCEPT ![d] = NoObj], kin)
                                ELSE objects

LoadObject(d, v) ==
    /\ phase = "loading" /\ d \in TextDump
    /\ LET prevDies == loadObj # -1 /\ Dies(Cache, loadObj) IN
       \E kinPrev \in KinIf(prevDies, objects, loadObj) :
       LET c1 == IF loadObj = -1 THEN Cache ELSE Discard(Cache, loadObj, kinPrev)
           o1 == Killed(prevDies, loadObj, kinPrev)
           exists == Exists(c1, d)
           dying == Kill(Retrieve(c1, d), d)
           oldDies == exists /\ Dies(dying, d)
       IN
       \E kinOld \in KinIf(oldDies, o1, d) :
       LET c2 == IF exists THEN Discard(dying, d, kinOld) ELSE Retrieve(c1, d)
           o2 == IF oldDies THEN After(o1, kinOld) ELSE o1
           h1 == IF loadObj = -1 THEN held ELSE [held EXCEPT ![loadObj] = @ - 1]
       IN  /\ \E kinNew \in KinOf(o2, d) :
                 /\ Become(NewObject(c2, d, v, kinNew))
                 /\ objects' = After([o2 EXCEPT ![d] = v], kinNew)
           /\ held' = [h1 EXCEPT ![d] = @ + 1]
           /\ loadObj' = d
           /\ db_top' = Bumped(d)
           /\ UNCHANGED <<phase, leaked, torn>>

(* The end of the text dump, and main's own references to the two objects   *)
(* that must never leave the cache.                                         *)
LoadDone ==
    LET dies == loadObj # -1 /\ Dies(Cache, loadObj)
        h == IF loadObj = -1 THEN held ELSE [held EXCEPT ![loadObj] = @ - 1]
    IN  /\ phase = "loading" /\ phase' = "running"
        /\ \E kin \in KinIf(dies, objects, loadObj) :
              /\ Become(HoldBoth(IF loadObj = -1 THEN Cache
                                 ELSE Discard(Cache, loadObj, kin)))
              /\ objects' = Killed(dies, loadObj, kin)
        /\ held' = [h EXCEPT ![SYSTEM_DBREF] = @ + 1, ![ROOT_DBREF] = @ + 1]
        /\ loadObj' = -1
        /\ UNCHANGED <<db_top, leaked, torn>>

(* C-- code runs in tasks, and before that in the evals that follow an      *)
(* object line of the text dump.                                            *)
Executing(how) ==
    phase = "running" \/ (phase = "loading" /\ loadObj # -1 /\ how \in Scripts)

(* send_message and frame_start take references that outlive the operation  *)
(* (cache_retrieve, cache_grab); asking for an object that does not exist   *)
(* takes none.  A paused eval's first frame holds the object it was for.    *)
Fetch(d) ==
    /\ Executing("paused_eval")
    /\ held[d] < MaxHeld /\ (phase = "loading" => d = loadObj)
    /\ Become(Retrieve(Cache, d))
    /\ held' = IF Exists(Cache, d) THEN [held EXCEPT ![d] = @ + 1] ELSE held
    /\ UNCHANGED <<phase, db_top, loadObj, leaked, objects, torn>>

(* References that are not the frames' to give back.                        *)
Kept(d) == IF phase = "running" THEN BothHeld[d]
           ELSE IF d = loadObj THEN 1 ELSE 0

(* frame_return gives one back.                                             *)
Drop(d) ==
    /\ phase = "running" /\ held[d] > Kept(d)
    /\ \E kin \in KinIf(Dies(Cache, d), objects, d) :
          /\ Become(Discard(Cache, d, kin))
          /\ objects' = Killed(Dies(Cache, d), d, kin)
    /\ held' = [held EXCEPT ![d] = @ - 1]
    /\ UNCHANGED <<phase, db_top, loadObj, leaked, torn>>

(* Any function of object.c that marks the object it changes dirty: a new   *)
(* variable, string, identifier or method, and the stamp of a search.       *)
(* Some do not mark it; what is stored in a clean object so is written only *)
(* if something else marks it.                                              *)
Changing(d) == phase # "down" /\ d \in Changeable /\ held[d] > 0
Changed(c, d, v) ==
    /\ Become(c)
    /\ objects' = [objects EXCEPT ![d] = v]
    /\ UNCHANGED <<phase, db_top, loadObj, held, leaked, torn>>
Modify(d, v) == Changing(d) /\ Changed(Set(Cache, d, v), d, v)

Bare(c, d) == ~Holding(c, d).dirty
MayAssign(c, d) == Bare(c, d) => d \in Unmarked
Stored(c, d, v) == IF Bare(c, d) THEN <<v>> ELSE v

(* object_assign_var and object_put_var, of a variable that is there        *)
(* already.                                                                 *)
AssignVar(d, v) ==
    /\ Changing(d) /\ MayAssign(Cache, d)
    /\ Changed(Assign(Cache, d, v), d, Stored(Cache, d, v))

(* op_chparents: object_change_parents tells the parents the object had and *)
(* gets, which marks them, and stores the list in the object.               *)
OpChparents(d, v) ==
    LET c == Retrieve(Cache, d)
    IN  /\ Executing("evals") /\ d \in Changeable \ {ROOT_DBREF} /\ Exists(Cache, d)
        /\ MayAssign(c, d)
        /\ v # Holding(c, d).val      \* bound: not to the parents it has
        /\ \E kin \in KinOf(objects, d) \ {<<>>} :
              /\ Become(Release(TouchAll(Assign(c, d, v), kin), d))
              /\ objects' = After([objects EXCEPT ![d] = Stored(c, d, v)], kin)
        /\ UNCHANGED <<phase, db_top, loadObj, held, leaked, torn>>

(* op_create: the next free dbref.                                          *)
OpCreate(v) ==
    /\ Executing("evals") /\ db_top \in Dbrefs
    /\ \E kin \in KinOf(objects, db_top) :
          /\ Become(Release(NewObject(Cache, db_top, v, kin), db_top))
          /\ objects' = After([objects EXCEPT ![db_top] = v], kin)
    /\ db_top' = db_top + 1
    /\ UNCHANGED <<phase, loadObj, held, leaked, torn>>

(* op_destroy: the object dies at once if nothing else refers to it.        *)
OpDestroy(d) ==
    LET c == Kill(Retrieve(Cache, d), d)
    IN  /\ Executing("evals") /\ d \notin {ROOT_DBREF, SYSTEM_DBREF}
        /\ Exists(Cache, d)
        /\ \E kin \in KinIf(Dies(c, d), objects, d) :
              /\ Become(Discard(c, d, kin))
              /\ objects' = Killed(Dies(c, d), d, kin)
        /\ UNCHANGED <<phase, db_top, loadObj, held, leaked, torn>>

(* op_chparents with no parents: the reference it took is not given back.   *)
OpChparentsNone(d) ==
    /\ phase = "running" /\ d \in Orphans
    /\ d # ROOT_DBREF /\ Exists(Cache, d)
    /\ d \notin leaked     \* bound: once for each object
    /\ Become(Retrieve(Cache, d))
    /\ leaked' = leaked \cup {d}
    /\ UNCHANGED <<phase, db_top, loadObj, held, objects, torn>>

(* op_binary_dump, and the start of op_text_dump.                           *)
BinaryDump ==
    /\ Executing("evals")
    /\ Install(Synced(Cache))
    /\ saved' = objects
    /\ UNCHANGED <<phase, db_top, loadObj, held, leaked, objects, torn>>

Exit(mark, objs, gone) ==
    /\ phase # "down" /\ phase' = "down"
    /\ active' = NoChains /\ inactive' = NoChains
    /\ clean' = mark /\ db_top' = 0 /\ loadObj' = -1 /\ held' = Unheld
    /\ leaked' = {} /\ objects' = objs /\ torn' = gone

(* main after a shutdown(): cache_sync, db_close, exit.                     *)
Shutdown ==
    /\ phase = "running"
    /\ Exit(TRUE, objects, {})
    /\ store' = Synced(Cache).store /\ saved' = objects

(* The process dies between operations.  A clean database is what was saved *)
(* last; any other is emptied by the next start.                            *)
Crash == Exit(clean, saved, {}) /\ UNCHANGED <<store, saved>>

(* It dies in an operation that had begun to write (see DiskStore).         *)
CrashInPut == Exit(FALSE, Nothing, {}) /\ saved' = Nothing /\ UNCHANGED store

(* It dies inside db_del, as the last reference to a dead object goes, in   *)
(* op_destroy or as a frame returns: the object is not there any more, and  *)
(* the mark is.                                                             *)
CrashInDel(d) ==
    LET c == IF held[d] > Kept(d) THEN Cache ELSE Kill(Retrieve(Cache, d), d)
    IN  /\ d \notin {ROOT_DBREF, SYSTEM_DBREF}
        /\ Exists(Cache, d) /\ Dies(c, d)
        /\ c.clean /\ store[d] # NoObj
        /\ Exit(clean, saved, {d}) /\ UNCHANGED saved
        /\ store' = [store EXCEPT ![d] = NoObj]

Next ==
    \/ \E v, w \in Values : Initialize(v, w)
    \/ LoadDone \/ BinaryDump \/ Shutdown \/ Crash \/ CrashInPut
    \/ \E d \in Dbrefs : Fetch(d) \/ Drop(d) \/ OpDestroy(d)
                          \/ OpChparentsNone(d) \/ CrashInDel(d)
    \/ \E d \in Dbrefs, v \in Values : Modify(d, v) \/ AssignVar(d, v)
                                      \/ OpChparents(d, v) \/ LoadObject(d, v)
    \/ \E v \in Values : OpCreate(v)

Spec == Init /\ [][Next]_vars

-----------------------------------------------------------------------------
Unvouched == {<<v>> : v \in Values}
Records == Values \cup {NoObj} \cup Unvouched

Holder == [dbref : Dbrefs \cup {-1}, val : Values \cup {NoObj},
           dirty : BOOLEAN, dead : BOOLEAN, refs : Nat]

TypeOK ==
    /\ phase \in {"down", "loading", "running"}
    /\ active \in [Chains -> Seq(Holder)] /\ inactive \in [Chains -> Seq(Holder)]
    /\ store \in [Dbrefs -> Values \cup {NoObj}] /\ clean \in BOOLEAN
    /\ db_top \in Nat /\ loadObj \in Dbrefs \cup {-1}
    /\ held \in [Dbrefs -> Nat] /\ leaked \subseteq Dbrefs
    /\ objects \in [Dbrefs -> Records] /\ saved \in [Dbrefs -> Records]
    /\ torn \subseteq Dbrefs

Holders(chain) == {chain[i] : i \in {j \in DOMAIN chain : chain[j].dbref # -1}}

(* An object is in memory once, and in a chain where the search for it      *)
(* looks: "dire things may happen" otherwise (object.c:109).                *)
OneHolder ==
    \A d \in Dbrefs :
        LET at(chain) == {i \in DOMAIN chain : chain[i].dbref = d} IN
        /\ Cardinality(at(active[Chain(d)])) + Cardinality(at(inactive[Chain(d)])) <= 1
        /\ \A n \in Chains \ {Chain(d)} : at(active[n]) = {} /\ at(inactive[n]) = {}

(* A holder that a frame points to is never recycled for another object:    *)
(* while references are held the object is active and its count is exactly  *)
(* the references held, and one more if op_chparents kept one; with none it *)
(* is inactive, and not dead.                                               *)
References(d) == held[d] + IF d \in leaked THEN 1 ELSE 0
HeldIsActive ==
    /\ \A d \in Dbrefs : References(d) > 0 => IsActive(Cache, d)
    /\ \A n \in Chains : \A h \in Holders(active[n]) :
            h.refs = References(h.dbref) /\ h.refs > 0
    /\ \A n \in Chains : \A h \in Holders(inactive[n]) : References(h.dbref) = 0 /\ ~h.dead

(* Wherever an object is, in a chain or on disk, cache_retrieve gives what  *)
(* was last stored in it: hits, misses, swapping out, syncs, destroyed kin  *)
(* and restarts lose no change and bring no old image back.  After a crash  *)
(* the database is the one last saved, or empty, but for an object the      *)
(* crash was deleting.  An object that was changed with no mark since it    *)
(* was last written is there, with that change or without.                  *)
Current(d) ==
    IF phase = "down" THEN IF clean THEN store[d] ELSE NoObj
    ELSE LET i == Index(Act(Cache, d), d)
             j == Index(Inact(Cache, d), d)
         IN  IF i # 0 THEN Act(Cache, d)[i].val
             ELSE IF j # 0 THEN Inact(Cache, d)[j].val ELSE store[d]

Agrees(image, record) ==
    IF record \in Unvouched THEN image # NoObj ELSE image = record

ObjectsIntact == \A d \in Dbrefs \ torn : Agrees(Current(d), objects[d])

(* binary/clean is only there while the files are what was last saved, but  *)
(* for an object that was being deleted from them when the process died.    *)
CleanMeansSaved == clean => \A d \in Dbrefs \ torn : Agrees(store[d], saved[d])

(* object.h:70: dirty is the "Flag: Object has been modified", so that what *)
(* is stored in an object is never lost with its holder.                    *)
ChangesKept ==
    \A d \in Dbrefs \ torn :
        objects[d] \in Unvouched => objects[d] = <<Current(d)>>

(* Holders are only allocated when all of a chain's are in use, so a chain  *)
(* never has more than its depth or, if that is more, one for each of its   *)
(* objects and one for a search that failed.                                *)
HoldersBounded ==
    \A n \in Chains :
        LET mine == Cardinality({d \in Dbrefs : Chain(d) = n})
            have == Len(active[n]) + Len(inactive[n])
        IN  have <= CACHE_DEPTH \/ have <= mine + 1

(* object_new(-1) never meets an object that exists.                        *)
TopIsFree == phase # "down" => \A d \in Dbrefs : objects[d] # NoObj => d < db_top
=============================================================================
