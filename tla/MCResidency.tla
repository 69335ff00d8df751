---------------------------- MODULE MCResidency ----------------------------
(* Small instances of Residency for TLC. *)
EXTENDS Residency

CONSTANTS gemma, llama, coder

AllFaults   == [f \in Faults |-> IF f = "timeout" THEN 2 ELSE 1]
OneEviction == [f \in Faults |-> IF f = "evict" THEN 1 ELSE 0]

=============================================================================
