------------------------------- MODULE Chains --------------------------------
(* The chains of a hash table, threaded through an array (ident.c, dict.c):  *)
(* next[i] is the entry after i, and -1 ends a chain.                        *)
EXTENDS Integers, FiniteSetsExt

(* The entries that a loop from first comes to: those of every set that the  *)
(* loop does not leave.                                                      *)
Reached(next, first) ==
    {i \in DOMAIN next : \A S \in SUBSET DOMAIN next :
        first \in S \cup {-1} /\ (\A j \in S : next[j] \in S \cup {-1}) => i \in S}

(* Entries put at the head of their chains from the first one on, when slot  *)
(* is the chain of each: an entry is followed by the latest one before it on *)
(* its chain, and the latest of all is the head.                             *)
Latest(S) == Max(S \cup {-1})
Threaded(slot) ==
    [i \in DOMAIN slot |-> Latest({j \in DOMAIN slot : j < i /\ slot[j] = slot[i]})]
Heads(slot, size) ==
    [h \in 0 .. size - 1 |-> Latest({j \in DOMAIN slot : slot[j] = h})]
==============================================================================
