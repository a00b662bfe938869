-------------------------------- MODULE Lists --------------------------------
(* Lists (list.c) under the operators of the language (listop.c, arithop.c,  *)
(* syntaxop.c): an array with a window start, len and a count of references. *)
(* An operator whose result is about to be assigned clears the variable      *)
(* first (anticipate_assignment), so that a list that only the variable and  *)
(* the stack held is changed in place.                                       *)
EXTENDS Integers, FiniteSets, SequencesExt

CONSTANTS Locals,           \* variables of the frame or of the object
          Atoms,            \* data that are not lists: positive numbers
          MaxCells,         \* bound: lists alive at a time
          MaxLen,           \* bound: length of a list
          MaxInner,         \* bound: length of a list within a list
          ListStart,        \* STARTING_SIZE (13)
          ListDelta,        \* MALLOC_DELTA (3)
          AllInPlace      \* elements are added and deleted in place even
                            \* when the window starts inside the array

Sizes == LET grown[k \in 0 .. 3] == IF k = 0 THEN ListStart
                                    ELSE 2 * grown[k - 1] + ListDelta
         IN  {grown[k] : k \in 0 .. 3}

ASSUME ListsAssumption ==
    /\ IsFiniteSet(Locals) /\ {"top", "none"} \cap Locals = {}
    /\ Atoms \subseteq Nat \ {0}
    /\ {MaxCells, MaxLen, MaxInner, ListStart, ListDelta} \subseteq Nat \ {0}
    /\ \E size \in Sizes : MaxLen <= size         \* the sizes listed are enough
    /\ AllInPlace \in BOOLEAN

VARIABLES lists,    \* the list at each address
          slots,    \* the data in each variable and on top of the stack
          meant     \* history: what immutable lists would make of the program

listVars == <<lists, slots, meant>>

(* A data is an atom n > 0, the integer 0, or -r for the list at r.          *)
Zero == 0
Refs == 1 .. MaxCells
Slots == Locals \cup {"top"}
Targets == Locals \cup {"none"}     \* what the next instruction assigns, if any
IsList(d) == d < 0
Free == [start |-> 0, len |-> 0, size |-> 0, refs |-> 0, el |-> <<>>]

El(list, i) == IF i \in DOMAIN list.el THEN list.el[i] ELSE Zero
Window(list) == [i \in 1 .. list.len |-> El(list, list.start + i - 1)]

SizeFor(len) == CHOOSE s \in Sizes : s >= len /\ \A t \in Sizes : t >= len => s <= t

(* An array of this size with data from start on, and nothing of interest    *)
(* around it.                                                                *)
Array(size, start, data) ==
    [i \in 0 .. size - 1 |-> IF i - start + 1 \in DOMAIN data
                             THEN data[i - start + 1] ELSE Zero]
Trimmed(list) == [list EXCEPT !.el = Array(list.size, list.start, Window(list))]

list_new(len) == [start |-> 0, len |-> 0, size |-> SizeFor(len), refs |-> 1,
                  el |-> Array(SizeFor(len), 0, <<>>)]

(* The elements of these lists that are the list at r, by list and position. *)
Within(heap, those, r) == {at \in those \X (1 .. MaxLen) :
                        at[2] <= heap[at[1]].len /\ Window(heap[at[1]])[at[2]] = -r}
Occurrences(d, data) == Cardinality({i \in DOMAIN data : data[i] = d})
data_dup(heap, data) ==
    [r \in Refs |-> [heap[r] EXCEPT !.refs = @ + Occurrences(-r, data)]]

Bug_data_discard(heap, data) ==
    LET less == [r \in Refs |-> [heap[r] EXCEPT !.refs = @ - Occurrences(-r, data)]]
    IN  [r \in Refs |-> IF less[r].refs = 0 THEN Free ELSE less[r]]
(* A list that loses its last reference discards its elements; those have no *)
(* lists among theirs in this model.                                         *)
data_discard(heap, data) ==
    LET less == [r \in Refs |-> [heap[r] EXCEPT !.refs = @ - Occurrences(-r, data)]]
        dead == {r \in Refs : heap[r] # Free /\ less[r].refs = 0}
        left == [r \in Refs |-> [less[r] EXCEPT !.refs = @ - Cardinality(Within(less, dead, r))]]
    IN  [r \in Refs |-> IF left[r].refs = 0 THEN Free ELSE left[r]]

NeedsResize(list, start, len) ==
    \/ (len - start) * 4 < list.size /\ list.size > ListStart
    \/ list.size < len
Bug_Moves(list, start, len) ==
    NeedsResize(list, start, len) /\ start > 0
Moves(list, start, len) ==
    \/ list.refs > 1
    \/ NeedsResize(list, start, len) /\ start > 0

Dropped(list, start, len) ==
    LET w == Window(list)
        gone == start - list.start
    IN  SubSeq(w, 1, gone) \o SubSeq(w, gone + len + 1, list.len)

prepare_to_modify(heap, r, start, len) ==
    LET list == heap[r]
        moves == Moves(list, start, len)
        stay == [i \in 1 .. (IF list.len < len THEN list.len ELSE len) |->
                    El(list, start + i - 1)]
        size == IF moves \/ NeedsResize(list, start, len) THEN SizeFor(len) ELSE list.size
        begin == IF moves THEN 0 ELSE start
        cnew == [start |-> begin, len |-> len, size |-> size,
                 refs |-> IF moves THEN 1 ELSE list.refs, el |-> Array(size, begin, stay)]
    IN  IF moves
        THEN LET n == CHOOSE n \in Refs : heap[n] = Free
             IN  [ref |-> n, heap |-> data_discard([data_dup(heap, stay) EXCEPT ![n] = cnew],
                                                   <<-r>>)]
        ELSE [ref |-> r, heap |-> [data_discard(heap, Dropped(list, start, len))
                                        EXCEPT ![r] = cnew]]
ModifyAll(heap, r, more) == prepare_to_modify(heap, r, heap[r].start, heap[r].len + more)
Exclusive(heap, r) == IF heap[r].refs > 1 THEN ModifyAll(heap, r, 0)
                      ELSE [heap |-> heap, ref |-> r]

MEMMOVE(el, to, from, n) ==
    [i \in DOMAIN el |-> IF i \in to .. to + n - 1 /\ i - to + from \in DOMAIN el
                         THEN el[i - to + from] ELSE el[i]]
Write(p, i, d) ==   \* data_dup into an element
    [p EXCEPT !.heap = [data_dup(p.heap, <<d>>) EXCEPT ![p.ref].el =
                            [j \in DOMAIN @ |-> IF j = i THEN d ELSE @[j]]]]

(* data_cmp compares atoms by value and lists by their elements.             *)
SameData(heap, d, e) ==
    IF IsList(d) /\ IsList(e) THEN Window(heap[-d]) = Window(heap[-e]) ELSE d = e
list_search(heap, r, d) ==
    LET at == {i \in 1 .. heap[r].len : SameData(heap, Window(heap[r])[i], d)}
    IN  IF at = {} THEN -1 ELSE Min(at) - 1

list_insert(heap, r, pos, d) ==
    LET p == ModifyAll(heap, r, 1)
        list == p.heap[p.ref]
        at == pos + list.start
    IN  Write([p EXCEPT !.heap[p.ref].el = MEMMOVE(@, at + 1, at, list.len - 1 - at)], at, d)

list_add(heap, r, d) ==
    LET p == ModifyAll(heap, r, 1)
        list == p.heap[p.ref]
    IN  Write(p, list.start + list.len - 1, d)

list_replace(heap, r, pos, d) ==
    LET p == Exclusive(heap, r)
        at == pos + p.heap[p.ref].start
    IN  Write([p EXCEPT !.heap = data_discard(@, <<El(@[p.ref], at)>>)], at, d)

list_delete(heap, r, pos) ==
    IF pos = heap[r].len - 1 THEN ModifyAll(heap, r, -1)
    ELSE LET p == Exclusive(heap, r)
             list == p.heap[p.ref]
             at == pos + list.start
             len == list.len - 1
             less == Trimmed([list EXCEPT !.len = len,
                                 !.el = MEMMOVE(@, at, at + 1, len - at)])
             q == [p EXCEPT !.heap = [data_discard(@, <<El(list, at)>>) EXCEPT ![p.ref] = less]]
         IN  IF (len - list.start) * 4 < list.size /\ list.size > ListStart
             THEN ModifyAll(q.heap, q.ref, 0) ELSE q

list_append(heap, r, other) ==
    LET more == Window(heap[other])
        p == ModifyAll(heap, r, Len(more))
        list == p.heap[p.ref]
        first == list.start + list.len - Len(more)
    IN  [p EXCEPT !.heap = [data_dup(p.heap, more) EXCEPT ![p.ref].el =
            [i \in DOMAIN @ |-> IF i - first + 1 \in DOMAIN more
                                THEN more[i - first + 1] ELSE @[i]]]]

list_setadd(heap, r, d) ==
    IF list_search(heap, r, d) # -1 THEN [heap |-> heap, ref |-> r] ELSE list_add(heap, r, d)
list_setremove(heap, r, d) ==
    IF list_search(heap, r, d) = -1 THEN [heap |-> heap, ref |-> r]
    ELSE list_delete(heap, r, list_search(heap, r, d))
list_union(heap, r, other) ==
    LET more == Window(heap[other])
        added[n \in 0 .. Len(more)] ==
            IF n = 0 THEN [heap |-> heap, ref |-> r]
            ELSE list_setadd(added[n - 1].heap, added[n - 1].ref, more[n])
    IN  added[Len(more)]

(* One later element after another that equals an earlier one is deleted.    *)
list_toset(heap, r) ==
    LET again(p) == {i \in 1 .. p.heap[p.ref].len :
                        list_search(p.heap, p.ref, Window(p.heap[p.ref])[i]) < i - 1}
        less[n \in 0 .. heap[r].len] ==
            IF n = 0 THEN [heap |-> heap, ref |-> r]
            ELSE LET p == less[n - 1] IN
                 IF again(p) = {} THEN p ELSE list_delete(p.heap, p.ref, Min(again(p)) - 1)
    IN  less[heap[r].len]

Rearranged(p, order(_)) ==
    [p EXCEPT !.heap[p.ref].el = Array(p.heap[p.ref].size, p.heap[p.ref].start,
                                       order(Window(p.heap[p.ref])))]
list_reverse(heap, r) == Rearranged(Exclusive(heap, r), Reverse)
SortedBefore(s, i) == {j \in DOMAIN s : s[j] < s[i] \/ (s[j] = s[i] /\ j < i)}
Sorted(s) == [n \in DOMAIN s |->
                s[CHOOSE i \in DOMAIN s : Cardinality(SortedBefore(s, i)) = n - 1]]
list_qsort(heap, r) == Rearranged(ModifyAll(heap, r, 0), Sorted)
list_sublist(heap, r, start, len) ==
    prepare_to_modify(heap, r, heap[r].start + start, len)
------------------------------------------------------------------------------
(* Values: what a data stands for, [n, el] with n = -1 for a list.           *)
AtomValue(n) == [n |-> n, el |-> <<>>]
ListValue(s) == [n |-> -1, el |-> s]
Value(heap, d) ==
    LET flat(e) == IF IsList(e) THEN ListValue([i \in DOMAIN Window(heap[-e]) |->
                                                AtomValue(Window(heap[-e])[i])])
                   ELSE AtomValue(e)
    IN  IF IsList(d) THEN ListValue([i \in DOMAIN Window(heap[-d]) |->
                                     flat(Window(heap[-d])[i])])
        ELSE AtomValue(d)

ListInit ==
    /\ lists = [r \in Refs |-> Free]
    /\ slots = [s \in Slots |-> Zero]
    /\ meant = [s \in Slots |-> AtomValue(Zero)]

Cleared(f, w, zero) == [s \in Slots |-> IF s = w THEN zero ELSE f[s]]

(* anticipate_assignment: the heap once the operand d was pushed too and the *)
(* variable that the next instruction assigns was zeroed.                    *)
Anticipated(w, d) ==
    data_discard(data_dup(lists, <<d>>), IF w \in Locals THEN <<slots[w]>> ELSE <<>>)

(* The operator's result replaces the first argument; the second is popped.  *)
Return(w, d, result, value) ==
    /\ lists' = data_discard(result.heap, <<d>>)
    /\ slots' = [Cleared(slots, w, Zero) EXCEPT !["top"] = -result.ref]
    /\ meant' = [Cleared(meant, w, AtomValue(Zero)) EXCEPT !["top"] = ListValue(value)]

Top == -slots["top"]
Meant == meant["top"].el
HasList == IsList(slots["top"])
Room(n) == /\ lists[Top].len + n <= MaxLen
           /\ Cardinality({r \in Refs : lists[r] = Free}) >= 1
Operands == Atoms \cup {d \in {slots[v] : v \in Locals} :
                /\ IsList(d) /\ lists[-d].len <= MaxInner
                /\ \A i \in 1 .. lists[-d].len : ~IsList(Window(lists[-d])[i])}
Others == {slots[v] : v \in Locals} \cap {-r : r \in Refs}

(* A list that is changed in place has its window at the start of its array. *)
Whole(heap) == AllInPlace \/ heap[Top].refs > 1 \/ heap[Top].start = 0

OpList ==
    /\ slots["top"] = Zero
    /\ \E d \in Operands, n \in {r \in Refs : lists[r] = Free} :
        /\ \A r \in Refs : lists[r] = Free => n <= r
        /\ lists' = [data_dup(lists, <<d>>) EXCEPT ![n] =
                        [list_new(1) EXCEPT !.len = 1, !.el[0] = d]]
        /\ slots' = [slots EXCEPT !["top"] = -n]
        /\ meant' = [meant EXCEPT !["top"] = ListValue(<<Value(lists, d)>>)]

OpGetLocal ==
    /\ slots["top"] = Zero
    /\ \E v \in Locals :
        /\ lists' = data_dup(lists, <<slots[v]>>)
        /\ slots' = [slots EXCEPT !["top"] = slots[v]]
        /\ meant' = [meant EXCEPT !["top"] = meant[v]]

OpSetLocal ==
    /\ HasList
    /\ \E v \in Locals :
        /\ lists' = data_dup(data_discard(lists, <<slots[v]>>), <<slots["top"]>>)
        /\ slots' = [slots EXCEPT ![v] = slots["top"]]
        /\ meant' = [meant EXCEPT ![v] = meant["top"]]

OpPop ==
    /\ HasList
    /\ lists' = data_discard(lists, <<slots["top"]>>)
    /\ slots' = [slots EXCEPT !["top"] = Zero]
    /\ meant' = [meant EXCEPT !["top"] = AtomValue(Zero)]

OpInsert(w) ==
    /\ HasList /\ Room(1)
    /\ \E d \in Operands, pos \in 0 .. lists[Top].len - 1 : \E heap \in {Anticipated(w, d)} :
        /\ Whole(heap)
        /\ Return(w, d, list_insert(heap, Top, pos, d),
                  InsertAt(Meant, pos + 1, Value(lists, d)))

OpReplace(w) ==
    /\ HasList /\ Room(0)
    /\ \E d \in Operands, pos \in 0 .. lists[Top].len - 1 :
        Return(w, d, list_replace(Anticipated(w, d), Top, pos, d),
               [Meant EXCEPT ![pos + 1] = Value(lists, d)])

OpDelete(w) ==
    /\ HasList /\ Room(0)
    /\ \E pos \in 0 .. lists[Top].len - 1 : \E heap \in {Anticipated(w, Zero)} :
        /\ Whole(heap)
        /\ Return(w, Zero, list_delete(heap, Top, pos), RemoveAt(Meant, pos + 1))

OpSublist(w) ==
    /\ HasList /\ Room(0)
    /\ \E start \in 0 .. lists[Top].len - 1 : \E span \in 0 .. lists[Top].len - start :
        Return(w, Zero, list_sublist(Anticipated(w, Zero), Top, start, span),
               SubSeq(Meant, start + 1, start + span))

SetAdded(s, v) == IF Contains(s, v) THEN s ELSE Append(s, v)
OpSetadd(w) ==
    /\ HasList /\ Room(1)
    /\ \E d \in Operands : \E heap \in {Anticipated(w, d)} :
        /\ Whole(heap)
        /\ Return(w, d, list_setadd(heap, Top, d), SetAdded(Meant, Value(lists, d)))

OpSetremove(w) ==
    /\ HasList /\ Room(0)
    /\ \E d \in Operands : \E heap \in {Anticipated(w, d)} :
        /\ Whole(heap)
        /\ Return(w, d, list_setremove(heap, Top, d),
                  LET v == Value(lists, d) IN
                  IF Contains(Meant, v) THEN RemoveAt(Meant, SelectInSeq(Meant, LAMBDA x : x = v))
                  ELSE Meant)

(* list_toset keeps a pointer to an element across deletions, so that the    *)
(* array must not be reallocated between them.                               *)
OpToset(w) ==
    /\ HasList /\ Room(0)
    /\ \E heap \in {Anticipated(w, Zero)} :
       \E set \in {Cardinality(ToSet(Meant))} :
        LET size == IF heap[Top].refs > 1 THEN SizeFor(lists[Top].len) ELSE heap[Top].size IN
        /\ Whole(heap) /\ (set * 4 >= size \/ size = ListStart)
        /\ Return(w, Zero, list_toset(heap, Top), FoldLeft(SetAdded, <<>>, Meant))

OpUnion(w) ==
    /\ HasList /\ Room(1)
    /\ \E d \in Others : \E heap \in {Anticipated(w, d)} :
        /\ Whole(heap) /\ Room(lists[-d].len)
        /\ Return(w, d, list_union(heap, Top, -d),
                  LET more == Value(lists, d).el
                      added[n \in 0 .. Len(more)] ==
                        IF n = 0 THEN Meant ELSE SetAdded(added[n - 1], more[n])
                  IN  added[Len(more)])

OpAdd(w) ==     \* x + y, and op_splice_add for [@x, @y]
    /\ HasList
    /\ \E d \in Others : \E heap \in {Anticipated(w, d)} :
        /\ Whole(heap) /\ Room(lists[-d].len)
        /\ Return(w, d, list_append(heap, Top, -d), Meant \o Value(lists, d).el)

OpQsort(w) ==
    /\ HasList /\ Room(0)
    /\ \A i \in 1 .. lists[Top].len : ~IsList(Window(lists[Top])[i])
    /\ Return(w, Zero, list_qsort(Anticipated(w, Zero), Top),
              SortSeq(Meant, LAMBDA x, y : x.n < y.n))

Reversed ==     \* the fields that match_pattern returns
    /\ HasList /\ Room(0)
    /\ Return("none", Zero, list_reverse(lists, Top), Reverse(Meant))

ListNext ==
    \/ OpList \/ OpGetLocal \/ OpSetLocal \/ OpPop \/ Reversed
    \/ \E w \in Targets :
        \/ OpInsert(w) \/ OpReplace(w) \/ OpDelete(w) \/ OpSublist(w) \/ OpSetadd(w)
        \/ OpSetremove(w) \/ OpToset(w) \/ OpUnion(w) \/ OpAdd(w) \/ OpQsort(w)

ListSpec == ListInit /\ [][ListNext]_listVars
------------------------------------------------------------------------------
(* Whatever lists share, every variable holds what it would hold if lists    *)
(* were copied whenever they are assigned, passed or put into another list   *)
(* (list.c:40, "a list whose contents can be freely modified").              *)
ListsKept == \A s \in Slots : Value(lists, slots[s]) = meant[s]

(* A list is kept exactly as long as a variable, the stack or a list refers  *)
(* to it, and its window lies within its array.                              *)
ReferencesCounted ==
    \A r \in Refs :
        /\ lists[r].refs = Cardinality({s \in Slots : slots[s] = -r})
             + Cardinality(Within(lists, Refs, r))
        /\ lists[r].start + lists[r].len <= lists[r].size
==============================================================================
