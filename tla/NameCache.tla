------------------------------ MODULE NameCache ------------------------------
(* The names of objects (lookup.c): entries of the dbm index binary/index,  *)
(* behind a direct-mapped cache of NAME_CACHE_SIZE slots that is written    *)
(* back when a slot is reused and when the index is synced.                 *)
EXTENDS Integers, FiniteSets

CONSTANTS Names,            \* identifiers (numbers) used as names
          NamedDbrefs, NoDbref,
          NAME_CACHE_SIZE

ASSUME NameAssumption ==
    /\ Names \subseteq Nat /\ NoDbref \notin NamedDbrefs
    /\ NAME_CACHE_SIZE \in Nat \ {0}

NOT_AN_IDENT == -1
ASSUME NotANameAssumption == NOT_AN_IDENT \notin Names

VARIABLES opened,       \* the server runs, and has the index open
          name_cache,   \* slot -> [name, dbref, dirty, on_disk]
          diskNames,    \* name -> dbref, the index on disk
          clean,        \* binary/clean exists (db.c)
          names,        \* history: the dbref last stored under each name
          saved,        \* history: names, when binary/clean was last written
          touched,      \* history: names stored or removed since then
          blind,        \* history: names that were on disk but not cached when
                        \* they were stored, until they are written
          missed        \* history: names removed while they were blind

nameVars == <<opened, name_cache, diskNames, clean, names, saved, touched, blind, missed>>

Slots == 0 .. NAME_CACHE_SIZE - 1
Slot(n) == n % NAME_CACHE_SIZE
Unbound == [n \in Names |-> NoDbref]
Free == [name |-> NOT_AN_IDENT, dbref |-> NoDbref, dirty |-> FALSE, on_disk |-> FALSE]

(* The functions below take and return the cache and the index.             *)
Tables == [cache |-> name_cache, disk |-> diskNames]
Cached(t, n) == t.cache[Slot(n)].name = n
Unwritten(t, ns) == {n \in ns : Cached(t, n) /\ t.cache[Slot(n)].dirty}

Become(t, ns) ==        \* ns: the names that were blind before
    /\ name_cache' = t.cache /\ diskNames' = t.disk
    /\ blind' = Unwritten(t, ns)

(* Definitions named Bug_... are plausible mistakes, each in the place of    *)
(* the definition of its name; the properties have to notice them.          *)
Bug_Evicted(t, n) ==            \* stores the old dbref under the new name
    LET old == t.cache[Slot(n)]
    IN  IF old.name # NOT_AN_IDENT /\ old.dirty
        THEN [t EXCEPT !.disk[n] = old.dbref] ELSE t

(* "Discard the old cache entry if it exists", after storing it if dirty.   *)
Evicted(t, n) ==
    LET old == t.cache[Slot(n)]
    IN  IF old.name # NOT_AN_IDENT /\ old.dirty
        THEN [t EXCEPT !.disk[old.name] = old.dbref] ELSE t

NameEntry(n, d, dirty, on_disk) ==
    [name |-> n, dbref |-> d, dirty |-> dirty, on_disk |-> on_disk]

Bug_Retrieved(t, n) ==          \* forgets that the entry came from disk
    IF Cached(t, n) \/ t.disk[n] = NoDbref THEN t
    ELSE [Evicted(t, n) EXCEPT !.cache[Slot(n)] = NameEntry(n, t.disk[n], FALSE, FALSE)]

(* lookup_retrieve_name                                                     *)
Retrieved(t, n) ==
    IF Cached(t, n) \/ t.disk[n] = NoDbref THEN t
    ELSE [Evicted(t, n) EXCEPT !.cache[Slot(n)] = NameEntry(n, t.disk[n], FALSE, TRUE)]

Retrieval(t, n) == IF Cached(t, n) THEN t.cache[Slot(n)].dbref ELSE t.disk[n]

(* lookup_store_name                                                        *)
Stored(t, n, d) ==
    IF Cached(t, n)
    THEN IF t.cache[Slot(n)].dbref = d THEN t
         ELSE [t EXCEPT !.cache[Slot(n)].dbref = d, !.cache[Slot(n)].dirty = TRUE]
    ELSE [Evicted(t, n) EXCEPT !.cache[Slot(n)] = NameEntry(n, d, TRUE, FALSE)]

Bug_Removed(t, n) ==            \* deletes from the cache or from disk, not both
    IF Cached(t, n) THEN [t EXCEPT !.cache[Slot(n)].name = NOT_AN_IDENT]
                    ELSE [t EXCEPT !.disk[n] = NoDbref]

(* lookup_remove_name: what it does, and the result of dbm_delete if it     *)
(* comes to that.                                                           *)
Removed(t, n) ==
    LET uncached == IF Cached(t, n) THEN [t EXCEPT !.cache[Slot(n)].name = NOT_AN_IDENT]
                                    ELSE t
    IN  IF Cached(t, n) /\ ~t.cache[Slot(n)].on_disk THEN uncached
        ELSE [uncached EXCEPT !.disk[n] = NoDbref]

Removal(t, n) == (Cached(t, n) /\ ~t.cache[Slot(n)].on_disk) \/ t.disk[n] # NoDbref

Bug_Synced(t) ==                \* marks the entries written, and writes none
    LET out == {s \in Slots : t.cache[s].name # NOT_AN_IDENT /\ t.cache[s].dirty}
    IN  [t EXCEPT !.cache = [s \in Slots |-> IF s \in out THEN
                                [t.cache[s] EXCEPT !.dirty = FALSE, !.on_disk = TRUE]
                                ELSE t.cache[s]]]

(* sync_name_cache                                                          *)
Synced(t) ==
    LET out == {s \in Slots : t.cache[s].name # NOT_AN_IDENT /\ t.cache[s].dirty}
    IN  [cache |-> [s \in Slots |-> IF s \in out THEN
                        [t.cache[s] EXCEPT !.dirty = FALSE, !.on_disk = TRUE]
                        ELSE t.cache[s]],
         disk |-> [n \in Names |-> IF Slot(n) \in out /\ t.cache[Slot(n)].name = n
                                   THEN t.cache[Slot(n)].dbref ELSE t.disk[n]]]

Empty == [s \in Slots |-> Free]

-----------------------------------------------------------------------------
NameInit ==
    /\ opened = FALSE /\ name_cache = Empty /\ diskNames = Unbound /\ clean = FALSE
    /\ names = Unbound /\ saved = Unbound
    /\ touched = {} /\ blind = {} /\ missed = {}

(* lookup_open, from init_db: a new database truncates the index.           *)
LookupOpen ==
    /\ ~opened /\ opened' = TRUE
    /\ Become([cache |-> Empty, disk |-> IF clean THEN diskNames ELSE Unbound], {})
    /\ names' = diskNames' /\ saved' = diskNames'
    /\ touched' = {} /\ missed' = {}
    /\ clean' = TRUE

LookupRetrieveName(n) ==
    /\ opened
    /\ Become(Retrieved(Tables, n), blind)
    /\ UNCHANGED <<opened, clean, names, saved, touched, missed>>

(* op_set_name, and a "name" line of the text dump.                         *)
LookupStoreName(n, d) ==
    /\ opened
    /\ Become(Stored(Tables, n, d),
              blind \cup (IF Cached(Tables, n) \/ diskNames[n] = NoDbref THEN {} ELSE {n}))
    /\ names' = [names EXCEPT ![n] = d]
    /\ touched' = touched \cup {n} /\ missed' = missed \ {n}
    /\ UNCHANGED <<opened, clean, saved>>

(* op_del_name                                                              *)
LookupRemoveName(n) ==
    /\ opened
    /\ Become(Removed(Tables, n), blind)
    /\ names' = [names EXCEPT ![n] = NoDbref]
    /\ touched' = touched \cup {n}
    /\ missed' = IF n \in blind THEN missed \cup {n} ELSE missed \ {n}
    /\ UNCHANGED <<opened, clean, saved>>

(* db_flush: lookup_sync, then binary/clean.  lookup_first_name syncs the   *)
(* cache as well, but writes no mark.                                       *)
NameFlush ==
    /\ opened
    /\ Become(Synced(Tables), blind) /\ clean' = TRUE
    /\ saved' = names /\ touched' = {}
    /\ UNCHANGED <<opened, names, missed>>

LookupFirstName ==
    /\ opened
    /\ Become(Synced(Tables), blind)
    /\ UNCHANGED <<opened, clean, names, saved, touched, missed>>

(* db_put or db_del of some object, in between (see Db).                    *)
ObjectWritten ==
    /\ opened /\ clean' = FALSE
    /\ UNCHANGED <<opened, name_cache, diskNames, names, saved, touched, blind, missed>>

NameCrash ==
    /\ opened /\ opened' = FALSE
    /\ Become([cache |-> Empty, disk |-> diskNames], {})
    /\ UNCHANGED <<clean, names, saved, touched, missed>>

NameNext ==
    \/ LookupOpen \/ NameFlush \/ LookupFirstName \/ ObjectWritten \/ NameCrash
    \/ \E n \in Names : LookupRetrieveName(n) \/ LookupRemoveName(n)
                        \/ \E d \in NamedDbrefs : LookupStoreName(n, d)

NameSpec == NameInit /\ [][NameNext]_nameVars

-----------------------------------------------------------------------------
NameTypeOK ==
    /\ opened \in BOOLEAN /\ clean \in BOOLEAN
    /\ name_cache \in [Slots -> [name : Names \cup {NOT_AN_IDENT},
                                 dbref : NamedDbrefs \cup {NoDbref},
                                 dirty : BOOLEAN, on_disk : BOOLEAN]]
    /\ \A s \in Slots : name_cache[s].name # NOT_AN_IDENT
                       => name_cache[s].dbref \in NamedDbrefs
    /\ {diskNames, names, saved} \subseteq [Names -> NamedDbrefs \cup {NoDbref}]
    /\ {touched, blind, missed} \subseteq SUBSET Names

(* Whatever name is asked for or removed next, lookup_retrieve_name finds   *)
(* the dbref last stored under it, and lookup_remove_name says whether      *)
(* there was one, through hits, misses, write-backs and removals of names   *)
(* in the cache, on disk, or both; but for the names removed while their    *)
(* entry did not say that they were on disk (lookup.c:201).                 *)
AnswersRight ==
    opened => \A n \in Names \ missed :
                  /\ Retrieval(Tables, n) = names[n]
                  /\ Removal(Tables, n) <=> names[n] # NoDbref

(* on_disk, by which lookup_remove_name decides that it is done             *)
(* (lookup.c:217), says whether the name is in the index, in every entry    *)
(* that was not made by storing a name past its entry there (lookup.c:201), *)
(* and is wrong in each that was, until it is written back.                 *)
OnDiskFlagRight ==
    \A s \in Slots :
        LET e == name_cache[s] IN
        e.name # NOT_AN_IDENT =>
            (e.on_disk <=> diskNames[e.name] # NoDbref /\ e.name \notin blind)

(* A slot that is not dirty may be reused without a write: disk agrees.     *)
CleanSlotsOnDisk ==
    \A s \in Slots :
        LET e == name_cache[s] IN
        e.name # NOT_AN_IDENT /\ ~e.dirty => diskNames[e.name] = e.dbref

(* Write-backs do not take the clean mark away, so a crash can leave a      *)
(* database that is called clean and is not the saved one.  What differs is *)
(* confined to names that were themselves set or removed since, and those   *)
(* whose removal had missed the index.                                      *)
OnlyTouchedNamesMove ==
    \A n \in Names \ (touched \cup missed) : clean => diskNames[n] = saved[n]

(* lookup_remove_name, lookup.c:213: "Delete it from the cache.  If it's    *)
(* not on disk, then we're done": a name that was removed is not found.     *)
RemovedNamesGone ==
    opened => \A n \in Names : names[n] = NoDbref => Retrieval(Tables, n) = NoDbref
=============================================================================
