------------------------ MODULE MCMembershipHistory ------------------------
(* Model checking instances of MembershipHistory. *)
EXTENDS MembershipHistory, TLC

Symmetry == Permutations(Node)
=============================================================================
