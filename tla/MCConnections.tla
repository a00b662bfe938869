---------------------------- MODULE MCConnections ----------------------------
(* Standard input and output and two more connections.                       *)
EXTENDS Connections
=============================================================================
