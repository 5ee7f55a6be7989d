----------------------------- MODULE MCStorage -----------------------------
(* Small instances of the jobs table for TLC. *)
EXTENDS StorageLifecycle

CONSTANTS q1, k1

MCQueues   == {q1}
MCKeys     == {k1}
MCBackoffs ==
  {[type |-> "exponential", delayMs |-> 1, maxDelayMs |-> 1, jitter |-> TRUE]}
MCDelays   == {0, 1}
=============================================================================
