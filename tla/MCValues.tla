------------------------------ MODULE MCValues -------------------------------
(* The data structures under the interpreter. They share no state, so that   *)
(* each behaviour works on one of them and leaves the others at their start. *)
EXTENDS Lists, Strings, Buffers, Dicts, Idents, Memory

CONSTANT Parts      \* the structures to check

VARIABLE part

HashOfNames == [n \in {0, 2, 5, 7} |-> IF n = 7 THEN 2 ELSE n]   \* two hash alike
HashOfKeys == [k \in {0, 2, 5} |-> IF k = 5 THEN 0 ELSE k]        \* two keys alike
PermanentNames == <<2>>     \* the names that init_ident keeps, here one

vars == <<part, listVars, stringVars, bufferVars, dictVars, identVars, memoryVars>>

Init == /\ part \in Parts
        /\ ListInit /\ StringInit /\ BufferInit /\ DictInit /\ IdentInit /\ MemoryInit

Next ==
    \/ /\ part = "lists" /\ ListNext
       /\ UNCHANGED <<part, stringVars, bufferVars, dictVars, identVars, memoryVars>>
    \/ /\ part = "strings" /\ StringNext
       /\ UNCHANGED <<part, listVars, bufferVars, dictVars, identVars, memoryVars>>
    \/ /\ part = "buffers" /\ BufferNext
       /\ UNCHANGED <<part, listVars, stringVars, dictVars, identVars, memoryVars>>
    \/ /\ part = "dicts" /\ DictNext
       /\ UNCHANGED <<part, listVars, stringVars, bufferVars, identVars, memoryVars>>
    \/ /\ part = "idents" /\ IdentNext
       /\ UNCHANGED <<part, listVars, stringVars, bufferVars, dictVars, memoryVars>>
    \/ /\ part = "memory" /\ MemoryNext
       /\ UNCHANGED <<part, listVars, stringVars, bufferVars, dictVars, identVars>>

Spec == Init /\ [][Next]_vars

(* A value never changes under somebody who holds it: lists, strings and     *)
(* buffers are changed in place only when nobody could tell.                 *)
ValuesKept == ListsKept /\ StringsKept /\ BuffersKept
==============================================================================
