------------------------------ MODULE StepRun ------------------------------
(***************************************************************************)
(* What the two deployment services take a run of a playbook for           *)
(* (Runner.RunDeployStep, Runner.RunRollback): it takes effect on the hosts *)
(* task by task, and only while it lasts; it is reported as completed only  *)
(* when all of its tasks took effect on all hosts, and may fail at any      *)
(* point.  MySQLJobs and PgsqlJobs make their steps of such runs.           *)
(***************************************************************************)
EXTENDS Naturals

CONSTANTS Hosts, Tasks

VARIABLES
  phase,  \* "none" before the first run, "running", or the last verdict
  done    \* how many tasks of the latest run took effect on each host

vars == <<phase, done>>

Init == phase = "none" /\ done = [h \in Hosts |-> 0]

Begin ==
  /\ phase # "running"
  /\ phase' = "running"
  /\ done' = [h \in Hosts |-> 0]

TakeEffect(h) ==
  /\ phase = "running" /\ done[h] < Tasks
  /\ done' = [done EXCEPT ![h] = @ + 1]
  /\ UNCHANGED phase

Complete ==
  /\ phase = "running" /\ \A h \in Hosts : done[h] = Tasks
  /\ phase' = "completed"
  /\ UNCHANGED done

Fail ==
  /\ phase = "running"
  /\ phase' = "failed"
  /\ UNCHANGED done

Next == Begin \/ (\E h \in Hosts : TakeEffect(h)) \/ Complete \/ Fail

Spec == Init /\ [][Next]_vars
=============================================================================
