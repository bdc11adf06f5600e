---------------------------- MODULE MCPubsStream ----------------------------
(* Model values of PubsStream for TLC. *)
EXTENDS PubsStream, TLC

(* Connections, requests and topics are told apart by no action; sound for
   the invariants and the refinement, not used for liveness.               *)
Symmetry ==
  Permutations(Conns) \cup Permutations(Hooks) \cup Permutations(Topics)
===============================================================================
