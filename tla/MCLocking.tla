----------------------------- MODULE MCLocking -----------------------------
(* Model checking instances of Locking. *)
EXTENDS Locking

\* What listeners may call without risk.
MCOnChangeCalls == {"readMap", "writeMap"}

MCOnBroadcastCalls ==
    {"expectAck", "doStatusUpdate", "AddStatusListener", "readMap", "writeMap"}
=============================================================================
