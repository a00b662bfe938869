-------------------------------- MODULE MCDb --------------------------------
(* The two halves of the database. They share no state here, so that each   *)
(* behaviour works on one of them and leaves the other at its start.        *)
(*   objects: three objects; images of one block exactly and of one byte    *)
(*     more, which need one block and two; a bitmap that grows by two       *)
(*     blocks at a time in a file of four, so that objects grow out of      *)
(*     their blocks, move and wrap.                                         *)
(*   names: three names over two slots: two of them share one.              *)
EXTENDS Db, NameCache

CONSTANT Halves     \* the halves to check

VARIABLE half

MCSizeOf == [v1 |-> 2, v2 |-> 3]
MCValues == {"v1", "v2"}
MCDbrefs == {1, 2, 3}
MCNames == 0 .. 2
MCNamedDbrefs == {1, 2}

MCVars == <<half, vars, nameVars>>

MCInit == half \in Halves /\ Init /\ NameInit

MCNext ==
    \/ half = "objects" /\ Next /\ UNCHANGED <<half, nameVars>>
    \/ half = "names" /\ NameNext /\ UNCHANGED <<half, vars>>

MCSpec == MCInit /\ [][MCNext]_MCVars
=============================================================================
