----------------------------- MODULE MCBroadcast -----------------------------
(* Model checking instances of Broadcast. *)
EXTENDS Broadcast, TLC

Symmetry == Permutations(Node) \cup Permutations(Transmitter)
=============================================================================
