---------------------------- MODULE MCDetection ----------------------------
(* Model checking instances of Detection. *)
EXTENDS Detection
=============================================================================
