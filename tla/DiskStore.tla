----------------------------- MODULE DiskStore -----------------------------
(* What db.c promises its only client, the object cache: a map from dbrefs  *)
(* to object images that survives the process, and a mark (binary/clean)    *)
(* that says whether the map may be trusted after a restart.  Nothing here  *)
(* knows of blocks, offsets or bitmaps; Db.tla does, and implements this.   *)
CONSTANTS Dbrefs,   \* numbers of objects
          Values,   \* images an object can have
          NoObj     \* no object with this dbref

VARIABLES up,       \* the server is running
          store,    \* the image of each object on disk
          clean     \* binary/clean exists

diskVars == <<up, store, clean>>

Nothing == [d \in Dbrefs |-> NoObj]

Init == up = FALSE /\ store = Nothing /\ clean = FALSE

(* A start keeps what a clean database holds and empties any other one;     *)
(* either way the database is clean afterwards.                             *)
Start ==
    /\ ~up /\ up' = TRUE
    /\ store' = IF clean THEN store ELSE Nothing
    /\ clean' = TRUE

Put(d, v) ==
    /\ up
    /\ store' = [store EXCEPT ![d] = v]
    /\ clean' = FALSE
    /\ UNCHANGED up

Del(d) ==
    /\ up /\ store[d] # NoObj
    /\ store' = [store EXCEPT ![d] = NoObj]
    /\ clean' = FALSE
    /\ UNCHANGED up

Flush == up /\ clean' = TRUE /\ UNCHANGED <<up, store>>

Close == up /\ up' = FALSE /\ clean' = TRUE /\ UNCHANGED store

(* An unclean database is lost with the process: the next start empties it. *)
Crash ==
    /\ up /\ up' = FALSE
    /\ store' = IF clean THEN store ELSE Nothing
    /\ UNCHANGED clean

CrashInPut == up /\ up' = FALSE /\ store' = Nothing /\ clean' = FALSE

(* The index entry goes before the mark does: a crash between the two       *)
(* leaves a clean database that lacks one object.                           *)
CrashInDel(d) ==
    /\ up /\ up' = FALSE
    /\ store[d] # NoObj
    /\ store' = IF clean THEN [store EXCEPT ![d] = NoObj] ELSE Nothing
    /\ UNCHANGED clean

Next ==
    \/ Start \/ Flush \/ Close \/ Crash \/ CrashInPut
    \/ \E d \in Dbrefs : Del(d) \/ CrashInDel(d) \/ \E v \in Values : Put(d, v)

Spec == Init /\ [][Next]_diskVars
=============================================================================
