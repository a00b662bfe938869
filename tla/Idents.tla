------------------------------- MODULE Idents --------------------------------
(* Identifiers (ident.c): one numbered entry for each name in use, counted   *)
(* references, chains of a hash table and the list of blank entries both     *)
(* threaded through the field next, and a table that grows when no entry is  *)
(* blank.                                                                    *)
EXTENDS Chains, FiniteSets, SequencesExt

CONSTANTS Names,            \* names, as numbers
          hash,             \* the number that hash() gives each
          Permanent,        \* names that init_ident takes and keeps
          MaxHeld,          \* bound: references to a name
          InitTabSize,      \* INIT_TAB_SIZE (504)
          TabDelta          \* MALLOC_DELTA (8)

ASSUME IdentsAssumption ==
    /\ Names \subseteq Nat /\ hash \in [Names -> Nat] /\ Permanent \in Seq(Names)
    /\ InitTabSize \in Nat \ {0} /\ {MaxHeld, TabDelta} \subseteq Nat

VARIABLES table,    \* [tab, hashtab, blanks]
          given,    \* history: the identifier a name was given, -1 for none
          held      \* history: references to it that were not discarded

identVars == <<table, given, held>>

NoName == -1
TabSize(t) == Cardinality(DOMAIN t.tab)
Entry(s, next, refs) == [s |-> s, next |-> next, refs |-> refs]
Follow(t, first) ==     \* the entries from first on
    Reached([i \in DOMAIN t.tab |-> t.tab[i].next], first)
Named(t, name) ==       \* the entry of a name, on the chain of its hash
    {i \in Follow(t, t.hashtab[hash[name] % TabSize(t)]) : t.tab[i].s = name}

Blank(size) ==
    [tab |-> [i \in 0 .. size - 1 |-> Entry(NoName, IF i = size - 1 THEN -1 ELSE i + 1, 0)],
     hashtab |-> [i \in 0 .. size - 1 |-> -1], blanks |-> 0]

Bug_Grown(t) ==
    LET old == TabSize(t)
        size == old * 2 + TabDelta
    IN  [t EXCEPT !.tab = [i \in 0 .. size - 1 |->
                IF i < old THEN @[i]
                ELSE Entry(NoName, IF i = size - 1 THEN -1 ELSE i + 1, 0)],
             !.hashtab = [i \in 0 .. size - 1 |-> IF i < old THEN @[i] ELSE -1], !.blanks = old]
Grown(t) ==     \* when no entry is blank
    LET old == TabSize(t)
        size == old * 2 + TabDelta
        slot == [i \in 0 .. old - 1 |-> hash[t.tab[i].s] % size]
    IN  [tab |-> [i \in 0 .. size - 1 |->
                    IF i < old THEN [t.tab[i] EXCEPT !.next = Threaded(slot)[i]]
                    ELSE Entry(NoName, IF i = size - 1 THEN -1 ELSE i + 1, 0)],
         hashtab |-> Heads(slot, size), blanks |-> old]

Installed(t, name) ==   \* at the first blank
    LET ind == t.blanks
        h == hash[name] % TabSize(t)
    IN  [tab |-> [t.tab EXCEPT ![ind] = Entry(name, t.hashtab[h], 1)],
         hashtab |-> [t.hashtab EXCEPT ![h] = ind], blanks |-> t.tab[ind].next]

ident_get(t, name) ==
    IF Named(t, name) # {}
    THEN LET ind == CHOOSE i \in Named(t, name) : TRUE
         IN  [id |-> ind, table |-> [t EXCEPT !.tab[ind].refs = @ + 1]]
    ELSE LET u == IF t.blanks = -1 THEN Grown(t) ELSE t
         IN  [id |-> u.blanks, table |-> Installed(u, name)]

ident_discard(t, id) ==
    LET ind == hash[t.tab[id].s] % TabSize(t)
        next == t.tab[id].next
        unlinked == [t EXCEPT
            !.hashtab[ind] = IF @ = id THEN next ELSE @,
            !.tab = [i \in DOMAIN @ |-> IF i \in Follow(t, t.hashtab[ind]) /\ @[i].next = id
                                        THEN [@[i] EXCEPT !.next = next] ELSE @[i]]]
    IN  IF t.tab[id].refs > 1 THEN [t EXCEPT !.tab[id].refs = @ - 1]
        ELSE [unlinked EXCEPT !.tab[id] = Entry(NoName, t.blanks, 0), !.blanks = id]

init_ident ==
    LET got[n \in 0 .. Len(Permanent)] ==
            IF n = 0 THEN Blank(InitTabSize) ELSE ident_get(got[n - 1], Permanent[n]).table
    IN  got[Len(Permanent)]

IdentInit ==
    /\ table = init_ident
    /\ held = [n \in Names |-> Cardinality({i \in DOMAIN Permanent : Permanent[i] = n})]
    /\ given = [n \in Names |-> IF Named(init_ident, n) = {} THEN -1
                                ELSE CHOOSE i \in Named(init_ident, n) : TRUE]

IdentGet ==
    \E name \in Names :
        /\ held[name] < MaxHeld
        /\ LET got == ident_get(table, name) IN
            /\ table' = got.table
            /\ given' = [given EXCEPT ![name] = got.id]
            /\ held' = [held EXCEPT ![name] = @ + 1]

IdentDup ==
    \E name \in Names :
        /\ held[name] \in 1 .. MaxHeld - 1
        /\ table' = [table EXCEPT !.tab[given[name]].refs = @ + 1]
        /\ held' = [held EXCEPT ![name] = @ + 1]
        /\ UNCHANGED given

IdentDiscard ==
    \E name \in Names :
        /\ held[name] > Cardinality({i \in DOMAIN Permanent : Permanent[i] = name})
        /\ table' = ident_discard(table, given[name])
        /\ held' = [held EXCEPT ![name] = @ - 1]
        /\ given' = [given EXCEPT ![name] = IF held[name] = 1 THEN -1 ELSE @]

IdentNext == IdentGet \/ IdentDup \/ IdentDiscard
IdentSpec == IdentInit /\ [][IdentNext]_identVars
------------------------------------------------------------------------------
(* A name that somebody holds keeps the number it was given, through other   *)
(* names' coming and going and the growth of the table: the chain of its     *)
(* hash leads to that entry and no other, with as many references as were    *)
(* not discarded; and every other entry is on the list of blanks.            *)
IdentsAgree ==
    /\ \A name \in Names :
        IF held[name] = 0 THEN Named(table, name) = {}
        ELSE /\ Named(table, name) = {given[name]}
             /\ table.tab[given[name]].refs = held[name]
    /\ Follow(table, table.blanks) = {i \in DOMAIN table.tab : table.tab[i].s = NoName}
==============================================================================
