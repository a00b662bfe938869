----------------------------- MODULE MCHierarchy -----------------------------
(* Four objects: enough for a diamond, for a parent named twice, and for a  *)
(* chain with the destroyed object in the middle.  The graph is checked on  *)
(* its own, with more lists of parents, and with the search for methods;    *)
(* there one name is looked for, and the cache has one slot that everything *)
(* shares.                                                                  *)
EXTENDS Methods

CONSTANT Parts      \* of "graph" and "methods"
VARIABLE part

FourObjects == 0 .. 3
UpToTwo == UNION {[1 .. n -> FourObjects] : n \in 0 .. 2}
GraphLists == {<<>>, <<1>>, <<2>>, <<3>>, <<1, 1>>, <<0, 2>>}
SomeLists == {<<1>>, <<2>>, <<0, 2>>}
TheLast == {3}
OneName == {0}
NotTheLast == {0, 2}

MCVars == <<mvars, part>>
MCInit == part \in Parts /\ Start
MCNext ==
    /\ \/ part = "graph" /\ Next /\ UNCHANGED <<methods, method_cache>>
       \/ part = "methods" /\ Step
    /\ UNCHANGED part
MCSpec == MCInit /\ [][MCNext]_MCVars

(* Kept is the library's selection.                                         *)
ASSUME KeepsAgree ==
    \A s \in UpToTwo, S \in SUBSET FourObjects :
        Kept(s, S) = SelectSeq(s, LAMBDA x : x \in S)

(* object_has_ancestor searches the objects that object_ancestors lists.    *)
Below(d) == UNION {[1 .. n -> 0 .. d - 1] : n \in 0 .. 2}
Upward == {<<a, b, c>> : a \in Below(1), b \in Below(2), c \in Below(3)}
ASSUME SearchesAgree ==
    \A g \in Upward :
        LET par == [d \in Dbrefs |-> IF d = 0 THEN <<>> ELSE g[d]]
        IN  \A d \in Dbrefs : Range(PostOrder(par, d)) = Searched(par, d)
=============================================================================
