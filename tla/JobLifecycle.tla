---------------------------- MODULE JobLifecycle ----------------------------
(***************************************************************************)
(* What the queue promises of each job, with no table, clock or heartbeat: *)
(* a job is submitted with a number of starts, every start uses one up, a  *)
(* start can be handed back, and a finished job never runs again.          *)
(***************************************************************************)
EXTENDS Integers

CONSTANTS Jobs, StartLimits

VARIABLES phase, startsLeft

lifecycleVars == <<phase, startsLeft>>

Init ==
  /\ phase = [j \in Jobs |-> "unsubmitted"]
  /\ startsLeft = [j \in Jobs |-> 0]

Submit(j) ==
  /\ phase[j] = "unsubmitted"
  /\ phase'[j] = "waiting"
  /\ startsLeft'[j] \in StartLimits

Start(j) ==
  /\ phase[j] = "waiting" /\ startsLeft[j] > 0
  /\ phase'[j] = "running"
  /\ startsLeft'[j] = startsLeft[j] - 1

(* A failed or abandoned run is tried again only while starts are left.    *)
Retry(j) ==
  /\ phase[j] = "running" /\ startsLeft[j] > 0
  /\ phase'[j] = "waiting"
  /\ startsLeft'[j] = startsLeft[j]

(* A worker that shuts down gives its start back.                          *)
HandBack(j) ==
  /\ phase[j] = "running"
  /\ phase'[j] = "waiting"
  /\ startsLeft'[j] = startsLeft[j] + 1

(* Success, failure for good, or cancellation of a job not yet started.    *)
Finish(j) ==
  /\ phase[j] \in {"waiting", "running"}
  /\ phase'[j] = "finished"
  /\ startsLeft'[j] = startsLeft[j]

Purge(j) ==
  /\ phase[j] = "finished"
  /\ phase'[j] = "purged"
  /\ startsLeft'[j] = 0

Rest(j) == phase'[j] = phase[j] /\ startsLeft'[j] = startsLeft[j]

(* One statement may move many jobs, so every job takes a step or rests.   *)
Next ==
  /\ phase' \in [Jobs -> {"unsubmitted", "waiting", "running", "finished", "purged"}]
  /\ startsLeft' \in [Jobs -> Int]
  /\ \A j \in Jobs : \/ Submit(j) \/ Start(j) \/ Retry(j) \/ HandBack(j)
                     \/ Finish(j) \/ Purge(j) \/ Rest(j)

Spec == Init /\ [][Next]_lifecycleVars
=============================================================================
