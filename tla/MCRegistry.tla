----------------------------- MODULE MCRegistry -----------------------------
(* Model checking instances of Registry. *)
EXTENDS Registry

MCEmitCounts == <<0, 2, 3>>
=============================================================================
