---------------------------- MODULE MCScheduler ----------------------------
(* Small instances of the maintenance loops for TLC. *)
EXTENDS Scheduler, TLC

CONSTANTS q1, m1, m2

MCQueues == {q1}
MCOccurrences == Keys \X (0 .. MaxTime)
MCDelays == {0}
OneLoop  == {m1}
TwoLoops == {m1, m2}
NoRetry  == {[type |-> "fixed", delayMs |-> 0, maxDelayMs |-> Null, jitter |-> FALSE]}
=============================================================================
