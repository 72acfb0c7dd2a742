------------------------------ MODULE MCPeers ------------------------------
(***************************************************************************)
(* Peers for a node with one seed, which also calls it.  Either there are  *)
(* two connections at a time, or there is one and peers tell the node its  *)
(* own address, so that it calls itself.                                   *)
(***************************************************************************)
EXTENDS Peers

CONSTANTS seed, me

MCScopes == {[conns |-> 2, told |-> {seed}], [conns |-> 1, told |-> {seed, me}]}

=============================================================================
