------------------------------ MODULE MCWorker ------------------------------
(* Small instances of the workers for TLC. *)
EXTENDS Worker, TLC

CONSTANTS q1, w1, w2

MCQueues  == {q1}
MCNoKeys  == {}
MCDelays  == {0}
OneWorker == {w1}
TwoWorkers == {w1, w2}
Immediate == {[type |-> "fixed", delayMs |-> 0, maxDelayMs |-> Null, jitter |-> FALSE]}
Delayed   == {[type |-> "fixed", delayMs |-> 1, maxDelayMs |-> Null, jitter |-> FALSE]}

WorkerSymmetry == Permutations(Workers)
=============================================================================
