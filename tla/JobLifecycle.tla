---------------------------- MODULE JobLifecycle ----------------------------
(***************************************************************************)
(* What the deployment service promises of a job, seen through the job     *)
(* file: a job runs its steps in order, each of them once it is settled    *)
(* stays settled, a failed job goes on at the step that failed, and a      *)
(* completed job has settled every step and stays completed.  A write that *)
(* is torn loses the job.                                                  *)
(***************************************************************************)
EXTENDS Integers

CONSTANTS
  Jobs,
  StepCount   \* a natural number

VARIABLES
  phase,     \* what a client sees of the job
  settled    \* how many steps are behind it

vars == <<phase, settled>>

Phases == {"none", "running", "failed", "completed", "lost"}

TypeOK == phase \in [Jobs -> Phases] /\ settled \in [Jobs -> 0 .. StepCount]

Init == phase = [j \in Jobs |-> "none"] /\ settled = [j \in Jobs |-> 0]

Move(j, from, to) == phase[j] = from /\ phase' = [phase EXCEPT ![j] = to]

(* Deploy: the job is on file before anything runs. *)
Start(j) == Move(j, "none", "running") /\ UNCHANGED settled

Settle(j) ==
  /\ phase[j] = "running" /\ settled[j] < StepCount
  /\ settled' = [settled EXCEPT ![j] = @ + 1]
  /\ UNCHANGED phase

Fail(j) ==
  settled[j] < StepCount /\ Move(j, "running", "failed") /\ UNCHANGED settled

Complete(j) ==
  settled[j] = StepCount /\ Move(j, "running", "completed") /\ UNCHANGED settled

(* Resume: nothing that was settled is run again. *)
Retry(j) == Move(j, "failed", "running") /\ UNCHANGED settled

Lose(j) ==
  /\ phase' = [phase EXCEPT ![j] = "lost"]
  /\ UNCHANGED settled

Next ==
  \E j \in Jobs : \/ Start(j) \/ Settle(j) \/ Fail(j)
                  \/ Complete(j) \/ Retry(j) \/ Lose(j)

Spec == Init /\ [][Next]_vars

=============================================================================
