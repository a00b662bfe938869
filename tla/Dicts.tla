-------------------------------- MODULE Dicts --------------------------------
(* Dictionaries (dict.c, dictop.c): keys and values in two lists, found by a *)
(* hash table whose chains run through links, one entry for each key. A      *)
(* dictionary is copied before it is changed unless only one reference to it *)
(* is left. The two lists are taken at the values that Lists shows them to   *)
(* keep.                                                                     *)
EXTENDS Chains, FiniteSets, SequencesExt

CONSTANTS Keys,
          data_hash,        \* the number of each key that the table goes by
          Entries,         \* values
          DictVars,
          MaxDicts,         \* bound: dictionaries alive at a time
          HashtabStart,     \* HASHTAB_STARTING_SIZE (27)
          HashtabDelta      \* MALLOC_DELTA (5)

ASSUME DictsAssumption ==
    /\ data_hash \in [Keys -> Nat]
    /\ IsFiniteSet(DictVars) /\ {"top", "none"} \cap DictVars = {}
    /\ {MaxDicts, HashtabStart, HashtabDelta} \subseteq Nat \ {0}

VARIABLES dicts,    \* the dictionary at each address
          boxes,    \* the dictionary in each variable and on the stack, or 0
          maps      \* history: the mapping an immutable one would be there

dictVars == <<dicts, boxes, maps>>

Spots == DictVars \cup {"top"}
DictRefs == 1 .. MaxDicts
Empty == [keys |-> <<>>, values |-> <<>>, size |-> 0, links |-> <<>>,
          hashtab |-> <<>>, refs |-> 0]
Nil(size) == [i \in 0 .. size - 1 |-> -1]
Bucket(dict, key) == data_hash[key] % dict.size

search(dict, key) ==    \* the entry of a key, on the chain of its hash
    LET chain == Reached(dict.links, dict.hashtab[Bucket(dict, key)])
        at == {i \in chain : dict.keys[i + 1] = key}
    IN  IF at = {} THEN -1 ELSE CHOOSE i \in at : TRUE

insert_key(dict, i) ==
    LET ind == Bucket(dict, dict.keys[i + 1]) IN
    [dict EXCEPT !.links[i] = dict.hashtab[ind], !.hashtab[ind] = i]

double_hashtab_size(dict) ==    \* and insert_key for all keys
    LET size == dict.size * 2 + HashtabDelta
        slot == [i \in 0 .. Len(dict.keys) - 1 |-> data_hash[dict.keys[i + 1]] % size]
    IN  [dict EXCEPT !.size = size, !.hashtab = Heads(slot, size),
            !.links = [i \in 0 .. size - 1 |-> IF i \in DOMAIN slot THEN Threaded(slot)[i] ELSE -1]]

InitialSize(n) ==
    LET grown[k \in 0 .. 3] == IF k = 0 THEN HashtabStart
                               ELSE IF grown[k - 1] < n THEN grown[k - 1] * 2 + HashtabDelta
                               ELSE grown[k - 1]
    IN  grown[3]

(* A key that is already there is dropped with its value: the first stays.   *)
dict_new(keys, values) ==
    LET size == InitialSize(Len(keys))
        none == [Empty EXCEPT !.size = size, !.links = Nil(size), !.hashtab = Nil(size),
                              !.refs = 1]
        entered[i \in 0 .. Len(keys)] ==
            IF i = 0 THEN none
            ELSE LET d == entered[i - 1] IN
                 IF search(d, keys[i]) # -1 THEN d
                 ELSE insert_key([d EXCEPT !.keys = Append(@, keys[i]),
                                           !.values = Append(@, values[i])], Len(d.keys))
    IN  entered[Len(keys)]

dict_dup(heap, r) == IF r = 0 THEN heap ELSE [heap EXCEPT ![r].refs = @ + 1]
dict_discard(heap, r) ==
    IF r = 0 THEN heap
    ELSE IF heap[r].refs = 1 THEN [heap EXCEPT ![r] = Empty]
    ELSE [heap EXCEPT ![r].refs = @ - 1]

Vacant(heap) == {n \in DictRefs : heap[n] = Empty}
Stored(heap) == CHOOSE n \in Vacant(heap) : \A o \in Vacant(heap) : n <= o
Bug_prepare_dict(heap, r) == [heap |-> heap, ref |-> r]
prepare_dict(heap, r) ==
    IF heap[r].refs = 1 THEN [heap |-> heap, ref |-> r]
    ELSE [heap |-> [heap EXCEPT ![r].refs = @ - 1, ![Stored(heap)] = [heap[r] EXCEPT !.refs = 1]],
          ref |-> Stored(heap)]

Added(dict, key, value) ==
    LET pos == search(dict, key)
        more == [dict EXCEPT !.keys = Append(@, key), !.values = Append(@, value)]
    IN  IF pos # -1 THEN [dict EXCEPT !.values[pos + 1] = value]
        ELSE IF Len(more.keys) > dict.size THEN double_hashtab_size(more)
        ELSE insert_key(more, Len(dict.keys))
dict_add(heap, r, key, value) ==
    LET p == prepare_dict(heap, r) IN [p EXCEPT !.heap[p.ref] = Added(@, key, value)]

(* The entry leaves its chain, the links beyond it move back, and every      *)
(* index beyond it becomes one less.                                         *)
Removed(dict, key) ==
    LET i == search(dict, key)
        len == Len(dict.keys) - 1
        Less(n) == IF n > i /\ i < len THEN n - 1 ELSE n
        unlinked == [dict EXCEPT    \* *ip = dict->links[i]
            !.hashtab = [h \in DOMAIN @ |-> IF @[h] = i THEN dict.links[i] ELSE @[h]],
            !.links = [l \in DOMAIN @ |-> IF @[l] = i THEN dict.links[i] ELSE @[l]]]
        moved == [j \in DOMAIN dict.links |->
                    IF j = len THEN -1 ELSE IF j \in i .. len - 1 THEN unlinked.links[j + 1]
                    ELSE unlinked.links[j]]
    IN  [dict EXCEPT
            !.keys = RemoveAt(@, i + 1), !.values = RemoveAt(@, i + 1),
            !.links = [j \in DOMAIN @ |-> IF j < len THEN Less(moved[j]) ELSE moved[j]],
            !.hashtab = [h \in DOMAIN @ |-> Less(unlinked.hashtab[h])]]
dict_del(heap, r, key) ==
    LET p == prepare_dict(heap, r) IN [p EXCEPT !.heap[p.ref] = Removed(@, key)]

dict_contains(dict, key) == search(dict, key) # -1
dict_find(dict, key) == dict.values[search(dict, key) + 1]
------------------------------------------------------------------------------
NoMap == <<>>
Mapping(pairs) ==   \* the first pair of a key counts
    [k \in {pairs[i][1] : i \in DOMAIN pairs} |->
        pairs[Min({i \in DOMAIN pairs : pairs[i][1] = k})][2]]

DictInit ==
    /\ dicts = [r \in DictRefs |-> Empty]
    /\ boxes = [s \in Spots |-> 0]
    /\ maps = [s \in Spots |-> NoMap]

DictTargets == DictVars \cup {"none"}
TopDict == dicts[boxes["top"]]
HasDict == boxes["top"] # 0
Emptied(f, w, zero) == [s \in Spots |-> IF s = w THEN zero ELSE f[s]]
GivenUp(w) == IF w \in DictVars THEN dict_discard(dicts, boxes[w]) ELSE dicts
Replace(w, result, map) ==
    /\ dicts' = result.heap
    /\ boxes' = [Emptied(boxes, w, 0) EXCEPT !["top"] = result.ref]
    /\ maps' = [Emptied(maps, w, NoMap) EXCEPT !["top"] = map]

OpDict ==       \* #[[k, v], ...]: op_dict, dict_from_slices
    /\ ~HasDict /\ Vacant(dicts) # {}
    /\ \E n \in 0 .. 2 : \E pairs \in [1 .. n -> Keys \X Entries] :
        /\ dicts' = [dicts EXCEPT ![Stored(dicts)] =
                        dict_new([i \in 1 .. n |-> pairs[i][1]], [i \in 1 .. n |-> pairs[i][2]])]
        /\ boxes' = [boxes EXCEPT !["top"] = Stored(dicts)]
        /\ maps' = [maps EXCEPT !["top"] = Mapping(pairs)]

GetDict ==
    /\ ~HasDict
    /\ \E v \in DictVars :
        /\ boxes[v] # 0
        /\ dicts' = dict_dup(dicts, boxes[v])
        /\ boxes' = [boxes EXCEPT !["top"] = boxes[v]]
        /\ maps' = [maps EXCEPT !["top"] = maps[v]]

SetDict ==
    /\ HasDict
    /\ \E v \in DictVars :
        /\ dicts' = dict_dup(dict_discard(dicts, boxes[v]), boxes["top"])
        /\ boxes' = [boxes EXCEPT ![v] = boxes["top"]]
        /\ maps' = [maps EXCEPT ![v] = maps["top"]]

PopDict ==
    /\ HasDict
    /\ dicts' = dict_discard(dicts, boxes["top"])
    /\ boxes' = [boxes EXCEPT !["top"] = 0]
    /\ maps' = [maps EXCEPT !["top"] = NoMap]

OpDictAdd(w) ==
    /\ HasDict /\ Vacant(dicts) # {}
    /\ \E k \in Keys, v \in Entries :
        Replace(w, dict_add(GivenUp(w), boxes["top"], k, v),
                [x \in DOMAIN maps["top"] \cup {k} |-> IF x = k THEN v ELSE maps["top"][x]])

OpDictDel(w) ==
    /\ HasDict /\ Vacant(dicts) # {}
    /\ \E k \in Keys :
        /\ dict_contains(TopDict, k)
        /\ Replace(w, dict_del(GivenUp(w), boxes["top"], k),
                   [x \in DOMAIN maps["top"] \ {k} |-> maps["top"][x]])

DictNext ==
    \/ OpDict \/ GetDict \/ SetDict \/ PopDict
    \/ \E w \in DictTargets : OpDictAdd(w) \/ OpDictDel(w)
DictSpec == DictInit /\ [][DictNext]_dictVars
------------------------------------------------------------------------------
(* After any sequence of insertions and deletions every variable's           *)
(* dictionary finds exactly the keys, each with the value last given to it   *)
(* there, whatever other variables did with a dictionary they shared; and a  *)
(* dictionary lives as long as somebody refers to it.                        *)
DictsAgree ==
    /\ \A s \in Spots : boxes[s] # 0 => \A k \in Keys :
        /\ dict_contains(dicts[boxes[s]], k) <=> k \in DOMAIN maps[s]
        /\ k \in DOMAIN maps[s] => dict_find(dicts[boxes[s]], k) = maps[s][k]
    /\ \A r \in DictRefs : dicts[r].refs = Cardinality({s \in Spots : boxes[s] = r})
==============================================================================
