------------------------------- MODULE Methods -------------------------------
(* Finding methods (object.c): the search over the inheritance graph, and   *)
(* the cache of its results.  cur_stamp makes every entry of the cache      *)
(* stale at once; here the cache is emptied instead.                        *)
EXTENDS Hierarchy

CONSTANTS Names,                \* numbers of method names
          METHOD_CACHE_SIZE,
          Afters,               \* bound: what pass() searches on from
          Lists, Dumped         \* bounds here: the lists of parents, and the
                                \* objects of the text dump

ASSUME MethodsAssumption ==
    /\ Names \subseteq Nat /\ METHOD_CACHE_SIZE \in Nat \ {0}
    /\ Afters \subseteq Dbrefs /\ Lists \subseteq ParentLists /\ Dumped \subseteq Dbrefs

VARIABLES methods,      \* dbref -> name -> "none", "overridable" or "final"
          method_cache  \* slot -> [dbref, name, after, loc], or NoEntry

mvars == <<hvars, methods, method_cache>>

None == -1      \* no method; no object to search on from
NoEntry == [dbref |-> None, name |-> None, after |-> None, loc |-> None]
NoMethods == [n \in Names |-> "none"]
Has(d, n) == methods[d][n] # "none"

Slot(d, n, after) == (10 + d + 16 * n + after) % METHOD_CACHE_SIZE
Empty == [i \in 0 .. METHOD_CACHE_SIZE - 1 |-> NoEntry]

(* method_cache_check: a hit, unless the object it names has no such method.*)
Hit(cache, d, n, after) ==
    LET e == cache[Slot(d, n, after)]
    IN  e.dbref = d /\ e.name = n /\ e.after = after /\ Has(e.loc, n)

(* method_cache_set, of what was found.                                     *)
Noted(cache, d, n, after, loc) ==
    IF loc = None THEN cache
    ELSE [cache EXCEPT ![Slot(d, n, after)] =
             [dbref |-> d, name |-> n, after |-> after, loc |-> loc]]

(* search_object: reverse depth first, each object once, until a method     *)
(* that may not be overridden or the object to stop at; the last one found  *)
(* is taken.                                                                *)
RECURSIVE SearchObject(_, _, _, _)
SearchObject(d, n, stop, s) ==
    IF d \in s.seen THEN s
    ELSE LET up == FoldRight(LAMBDA p, t : SearchObject(p, n, stop, t), parents[d],
                             [s EXCEPT !.seen = @ \cup {d}])
         IN  IF up.done THEN up
             ELSE IF d = stop THEN [up EXCEPT !.done = TRUE]
             ELSE IF ~Has(d, n) THEN up
             ELSE [up EXCEPT !.last = d, !.done = methods[d][n] = "final"]

Search(d, n, stop) ==
    FoldRight(LAMBDA p, t : SearchObject(p, n, stop, t), parents[d],
              [seen |-> {}, done |-> FALSE, last |-> None])

(* Definitions named Bug_... are plausible mistakes, each in the place of    *)
(* the definition that follows it; the properties have to notice them.      *)

Cached(cache, i) == [loc |-> cache[i].loc, cache |-> cache, seen |-> {}]
Sought(cache, d, n, stop) ==
    [loc |-> Search(d, n, stop).last, cache |-> cache, seen |-> Search(d, n, stop).seen]

(* object_find_method, with the cache it leaves behind and the objects that *)
(* search_object has stamped.                                               *)
RECURSIVE Find(_, _, _)
Find(cache, d, n) ==
    IF Hit(cache, d, n, None) THEN Cached(cache, Slot(d, n, None))
    ELSE LET up == IF Len(parents[d]) = 1 THEN Find(cache, parents[d][1], n)
                   ELSE Sought(cache, d, n, None)
             loc == IF Has(d, n) /\ (up.loc = None \/ methods[up.loc][n] = "overridable")
                    THEN d ELSE up.loc
         IN  [up EXCEPT !.loc = loc, !.cache = Noted(@, d, n, None, loc)]

(* object_find_next_method: what d inherits, as far as it is searched       *)
(* before the object "after".                                               *)
RECURSIVE FindNext(_, _, _, _)
FindNext(cache, d, n, after) ==
    IF Hit(cache, d, n, after) THEN Cached(cache, Slot(d, n, after))
    ELSE LET r == IF Len(parents[d]) # 1
                  THEN Sought(cache, d, n, IF d = after THEN None ELSE after)
                  ELSE IF d = after THEN Find(cache, parents[d][1], n)
                  ELSE FindNext(cache, parents[d][1], n, after)
         IN  [r EXCEPT !.cache = Noted(@, d, n, after, r.loc)]

-----------------------------------------------------------------------------
Bug_Stale == UNCHANGED method_cache     \* forgets to
Stale == method_cache' = Empty

(* What became of the objects themselves: one that was destroyed, or        *)
(* redefined, has lost its methods, and made the cache stale.               *)
Gone(D) ==
    /\ methods' = [d \in Dbrefs |-> IF d \in D THEN NoMethods ELSE methods[d]]
    /\ IF D = {} THEN UNCHANGED method_cache ELSE Stale

Start == Init /\ methods = [d \in Dbrefs |-> NoMethods] /\ method_cache = Empty

Create(ps) == OpCreate(ps) /\ UNCHANGED <<methods, method_cache>>
Chparents(d, ps) == OpChparents(d, ps) /\ Stale /\ UNCHANGED methods
Destroy(d) == OpDestroy(d) /\ Gone(objects \ objects')
LetGo(d) == Release(d) /\ Gone(objects \ objects')
Load(d, ps) == LoadObject(d, ps) /\ Gone({d} \cap objects)
Loaded == LoadDone /\ UNCHANGED <<methods, method_cache>>
Take(d) == Hold(d) /\ UNCHANGED <<methods, method_cache>>
ReadBack(d) == Reread(d) /\ UNCHANGED <<methods, method_cache>>

(* What is marked dirty besides: an object that gains or loses a method, and *)
(* one that a search stamps.                                                *)
Marks(ds) ==
    /\ former' = Marked(former, ds)
    /\ UNCHANGED <<loading, objects, parents, children, dead, held, db_top,
                   reverted, own>>

(* object_add_method and object_del_method.                                 *)
AddMethod(d, n, kind) ==
    /\ d \in objects
    /\ methods' = [methods EXCEPT ![d][n] = kind] /\ Stale
    /\ Marks({d})

DelMethod(d, n) ==
    /\ d \in objects /\ Has(d, n)
    /\ methods' = [methods EXCEPT ![d][n] = "none"] /\ Stale
    /\ Marks({d})

(* send_message and pass_message; nothing is called while a dump is read.   *)
(* The search for an object that is among its own ancestors need not end,   *)
(* and the one that comes to a parent that is gone crashes.                 *)
Searchable(d) ==
    /\ Searched(parents, d) \subseteq objects
    /\ \A x \in Searched(parents, d) : ~Contains(parents[x], x)

FindMethod(d, n) ==
    /\ ~loading /\ Searchable(d)
    /\ \E r \in {Find(method_cache, d, n)} : method_cache' = r.cache /\ Marks(r.seen)
    /\ UNCHANGED methods

FindNextMethod(d, n, after) ==
    /\ ~loading /\ Searchable(d)
    /\ \E r \in {FindNext(method_cache, d, n, after)} :
          method_cache' = r.cache /\ Marks(r.seen)
    /\ UNCHANGED methods

Step ==
    \/ \E ps \in Lists : Create(ps)
    \/ \E d \in Dbrefs : Destroy(d) \/ Take(d) \/ LetGo(d) \/ ReadBack(d)
    \/ \E d \in Dbrefs, ps \in Lists : Chparents(d, ps)
    \/ \E d \in Dumped, ps \in Lists : Load(d, ps)
    \/ Loaded
    \/ \E d \in Dbrefs, n \in Names :
          \/ DelMethod(d, n) \/ FindMethod(d, n)
          \/ \E kind \in {"overridable", "final"} : AddMethod(d, n, kind)
          \/ \E after \in Afters : FindNextMethod(d, n, after)

MethodSpec == Start /\ [][Step]_mvars

-----------------------------------------------------------------------------
MethodTypeOK ==
    /\ methods \in [Dbrefs -> [Names -> {"none", "overridable", "final"}]]
    /\ \A d \in Dbrefs \ objects : methods[d] = NoMethods
    /\ \A i \in DOMAIN method_cache :
          \/ method_cache[i] = NoEntry
          \/ method_cache[i].dbref \in objects /\ method_cache[i].loc \in objects

(* What object_ancestors, which takes no part in it, says should be found:  *)
(* of its order from the far end, up to the object searched on from, the    *)
(* first method that may not be overridden, or else the last one.           *)
Inherited(d, n, after) ==
    LET order == PostOrder(parents, d)
        upTo == IF after = None THEN order
                ELSE SubSeq(order, 1, SelectInSeq(order, LAMBDA x : x = after) - 1)
        having == SelectSeq(upTo, LAMBDA x : Has(x, n))
        final == SelectSeq(having, LAMBDA x : methods[x][n] = "final")
    IN  IF final # <<>> THEN Head(final)
        ELSE IF having # <<>> THEN Last(having) ELSE None

(* A message finds, and pass() goes on to, the method the order of the      *)
(* ancestors says, through the shortcuts for single parents and whatever    *)
(* the cache holds from before objects, parents and methods changed.  (But   *)
(* not if the search comes to an object whose move was lost: cur_stamp is    *)
(* as it was.)                                                              *)
FindAgrees ==
    \A d \in objects, n \in Names :
      Searchable(d) /\ Searched(parents, d) \cap reverted = {} =>
        /\ Find(method_cache, d, n).loc = Inherited(d, n, None)
        /\ \A after \in Range(PostOrder(parents, d)) :
              FindNext(method_cache, d, n, after).loc = Inherited(d, n, after)
=============================================================================
