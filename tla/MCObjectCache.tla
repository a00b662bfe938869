--------------------------- MODULE MCObjectCache ----------------------------
(* The system object, the root object and two more, in one chain of two     *)
(* holders, so that they keep swapping each other out.  The third is loaded *)
(* and redefined, the fourth keeps a reference; the system object stays as  *)
(* it was made.                                                             *)
EXTENDS ObjectCache

FourObjects == 0 .. 3
AllButSystem == 1 .. 3
NoDump == {}
TheThird == {2}
TheFourth == {3}
Symmetry == Permutations(Values)
=============================================================================
