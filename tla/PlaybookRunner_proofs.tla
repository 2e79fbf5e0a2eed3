----------------------- MODULE PlaybookRunner_proofs -----------------------
(***************************************************************************)
(* Theorems about PlaybookRunner, for every set of hosts and every number   *)
(* of tasks and of runs.                                                    *)
(***************************************************************************)
EXTENDS PlaybookRunner, TLAPS

(* Which files are there, and in what state Ansible is, by the place the   *)
(* call is at.                                                             *)
PlaceInv ==
  /\ at \in {"idle", "workspace", "inventory"} => workspace = {}
  /\ at = "vars" => workspace = {"inventory.yml"}
  /\ at \in {"start", "wait", "drain"} => workspace = InputFiles
  /\ main = "running" => at = "wait"
  /\ at = "drain" => main \in {"succeeded", "failed", "killed"}

(* What the workers are at is not done yet, and when the main process has   *)
(* succeeded everything is.                                                *)
WorkInv ==
  /\ \A h \in Hosts : worker[h] = "busy" => done[h] < Tasks
  /\ main = "succeeded" => \A h \in Hosts : worker[h] = "none" /\ done[h] = Tasks

(* While the workers hold the pipes, none is left when the call returns.   *)
PipeInv ==
  WorkersHoldPipes /\ at \notin {"wait", "drain"}
    => \A h \in Hosts : worker[h] = "none"

IInv == TypeOK /\ PlaceInv /\ WorkInv /\ PipeInv

-----------------------------------------------------------------------------
LEMMA IInvInit ==
  ASSUME Init
  PROVE  IInv
<1>1. 0 \in 0 .. Tasks
  BY RunAssumption
<1>2. TypeOK
  BY <1>1 DEF Init, TypeOK, Places
<1> QED BY <1>2 DEF Init, IInv, PlaceInv, WorkInv, PipeInv

LEMMA BeginStep ==
  ASSUME IInv, Begin
  PROVE  IInv'
<1>1. 0 \in 0 .. Tasks
  BY RunAssumption
<1>2. done' \in [Hosts -> 0 .. Tasks] /\ runs' \in Nat
  BY <1>1 DEF Begin, IInv, TypeOK
<1>3. TypeOK'
  BY <1>2 DEF Begin, IInv, TypeOK, Places
<1>4. PlaceInv'
  BY DEF Begin, IInv, PlaceInv
<1>5. WorkersHoldPipes => \A h \in Hosts : worker'[h] = "none"
  BY DEF Begin, IInv, PipeInv
<1>6. ASSUME NEW h \in Hosts, worker'[h] = "busy"
      PROVE  done'[h] < Tasks
  <2>1. done[h] \in 0 .. Tasks /\ done[h] < Tasks /\ done'[h] = 0
    BY <1>6 DEF Begin, IInv, TypeOK, WorkInv
  <2> QED BY <2>1, RunAssumption
<1> QED BY <1>3, <1>4, <1>5, <1>6 DEF Begin, IInv, WorkInv, PipeInv

LEMMA PrepareStep ==
  ASSUME IInv, MakeWorkspace \/ WriteInventory \/ WriteVars
  PROVE  IInv'
<1>1. /\ at \in {"workspace", "inventory", "vars"}
      /\ at' \in {"inventory", "vars", "start"}
      /\ UNCHANGED <<ctx, interrupted, cancellable, verdict, runs, main, worker, broken, done>>
  BY DEF Prepare, MakeWorkspace, WriteInventory, WriteVars, ansible
<1>2. main # "running"
  BY <1>1 DEF IInv, PlaceInv
<1>3. /\ at' = "inventory" => workspace' = {}
      /\ at' = "vars" => workspace' = {"inventory.yml"}
      /\ at' = "start" => workspace' = InputFiles
  BY DEF Prepare, MakeWorkspace, WriteInventory, WriteVars, IInv, PlaceInv, InputFiles
<1>4. workspace' \subseteq InputFiles
  BY <1>1, <1>3 DEF InputFiles
<1>5. PlaceInv'
  BY <1>1, <1>2, <1>3 DEF PlaceInv
<1> QED BY <1>1, <1>4, <1>5 DEF IInv, TypeOK, WorkInv, PipeInv, Places

(* The call returns from before the start of the command, when no worker   *)
(* is there, or when the pipes are closed.                                 *)
LEMMA ReturnStep ==
  ASSUME IInv, NEW status \in {"completed", "failed"}, Return(status),
         main # "running",
         WorkersHoldPipes => \A h \in Hosts : worker[h] = "none"
  PROVE  IInv'
BY DEF IInv, TypeOK, PlaceInv, WorkInv, PipeInv, Places, ansible, Return, RemoveWorkspace

LEMMA CallStep ==
  ASSUME IInv, Call
  PROVE  IInv'
<1>1. CASE GiveUp
  <2>1. main # "running"
    BY <1>1 DEF GiveUp, IInv, PlaceInv
  <2>2. WorkersHoldPipes => \A h \in Hosts : worker[h] = "none"
    BY <1>1 DEF GiveUp, IInv, PipeInv
  <2> QED BY <1>1, <2>1, <2>2, ReturnStep DEF GiveUp
<1>2. CASE Report
  <2>1. main # "running" /\ Status \in {"completed", "failed"}
    BY <1>2 DEF Report, Status, IInv, PlaceInv
  <2>2. WorkersHoldPipes => \A h \in Hosts : worker[h] = "none"
    BY <1>2 DEF Report, PipesClosed, Working
  <2> QED BY <1>2, <2>1, <2>2, ReturnStep DEF Report
<1>3. CASE Start
  BY <1>3 DEF IInv, TypeOK, PlaceInv, WorkInv, PipeInv, Places, Start
<1>4. CASE Reap
  BY <1>4 DEF IInv, TypeOK, PlaceInv, WorkInv, PipeInv, Places, ansible, Reap
<1> QED BY <1>1, <1>2, <1>3, <1>4, PrepareStep DEF Call

LEMMA ContextStep ==
  ASSUME IInv, Expire \/ Cancel \/ Kill
  PROVE  IInv'
<1>1. CASE Expire \/ Cancel
  BY <1>1 DEF IInv, TypeOK, PlaceInv, WorkInv, PipeInv, caller, ansible,
              Expire, Cancel, EndContext
<1>2. CASE Kill
  BY <1>2 DEF IInv, TypeOK, PlaceInv, WorkInv, PipeInv, caller, Kill
<1> QED BY <1>1, <1>2

LEMMA AnsibleStep ==
  ASSUME IInv, NextTask \/ MainSucceeds \/ MainFails
  PROVE  IInv'
<1>1. CASE NextTask
  <2>1. at = "wait" /\ main' = "running" /\ UNCHANGED <<caller, ctx, interrupted, broken, done>>
    BY <1>1 DEF NextTask, IInv, PlaceInv
  <2>2. worker' \in [Hosts -> {"none", "busy"}]
    BY <1>1 DEF NextTask
  <2>3. \A h \in Hosts : worker'[h] = "busy" => done[h] < Tasks
    BY <1>1 DEF NextTask
  <2> QED BY <2>1, <2>2, <2>3, <1>1
          DEF IInv, TypeOK, PlaceInv, WorkInv, PipeInv, caller, NextTask
<1>2. CASE MainSucceeds
  <2>1. \A h \in Hosts : worker[h] = "none"
    BY <1>2 DEF MainSucceeds, Working
  <2> QED BY <1>2, <2>1 DEF IInv, TypeOK, PlaceInv, WorkInv, PipeInv, caller, MainSucceeds
<1>3. CASE MainFails
  BY <1>3 DEF IInv, TypeOK, PlaceInv, WorkInv, PipeInv, caller, MainFails
<1> QED BY <1>1, <1>2, <1>3

LEMMA WorkerStep ==
  ASSUME IInv, NEW h \in Hosts, WorkerDone(h)
  PROVE  IInv'
<1>1. done[h] \in 0 .. Tasks /\ done[h] < Tasks
  BY DEF IInv, TypeOK, WorkInv, WorkerDone
<1>2. done[h] + 1 \in 0 .. Tasks
  BY <1>1, RunAssumption
<1>3. done' \in [Hosts -> 0 .. Tasks] /\ worker' \in [Hosts -> {"none", "busy"}]
      /\ broken' \subseteq Hosts
  BY <1>2 DEF IInv, TypeOK, WorkerDone
<1>4. main # "succeeded" /\ UNCHANGED <<caller, ctx, interrupted, main>>
  BY DEF IInv, WorkInv, WorkerDone
<1>5. WorkInv'
  <2>1. \A g \in Hosts \ {h} : worker'[g] = worker[g] /\ done'[g] = done[g]
    BY DEF IInv, TypeOK, WorkerDone
  <2>2. worker'[h] = "none"
    BY DEF IInv, TypeOK, WorkerDone
  <2> QED BY <1>4, <2>1, <2>2 DEF IInv, WorkInv
<1>6. PipeInv'
  BY <1>4 DEF IInv, TypeOK, PipeInv, WorkerDone, caller
<1> QED BY <1>3, <1>4, <1>5, <1>6 DEF IInv, TypeOK, PlaceInv, caller

LEMMA IInvStep ==
  ASSUME IInv, [Next]_vars
  PROVE  IInv'
<1>1. CASE UNCHANGED vars
  BY <1>1 DEF IInv, TypeOK, PlaceInv, WorkInv, PipeInv, vars, caller, ansible
<1> QED BY <1>1, BeginStep, CallStep, ContextStep, AnsibleStep, WorkerStep DEF Next

LEMMA IInvHolds == Spec => []IInv
BY IInvInit, IInvStep, PTL DEF Spec

-----------------------------------------------------------------------------
(* Every variable keeps its type: no host does more tasks than there are.  *)
THEOREM TypeCorrect == Spec => []TypeOK
<1>1. IInv => TypeOK
  BY DEF IInv
<1> QED BY <1>1, IInvHolds, PTL

(* The input files are there for the Ansible process, which may read them   *)
(* at any time, and gone when the call has returned, on each of its paths.  *)
THEOREM WorkspaceLasts == Spec => []WorkspaceLastsAsLongAsTheRun
<1>1. IInv => WorkspaceLastsAsLongAsTheRun
  BY DEF IInv, PlaceInv, WorkspaceLastsAsLongAsTheRun
<1> QED BY <1>1, IInvHolds, PTL

LEMMA AbstractInit ==
  ASSUME Init
  PROVE  Abstract!Init
BY DEF Init, Abstract!Init, Phase

LEMMA AbstractReturn ==
  ASSUME IInv, NEW status, Return(status), at # "idle",
         \/ status = "failed"
         \/ status = "completed" /\ \A h \in Hosts : done[h] = Tasks
  PROVE  Abstract!Complete \/ Abstract!Fail
<1>1. Phase = "running" /\ Phase' = status /\ UNCHANGED done
  BY DEF Phase, Return, ansible
<1> QED BY <1>1 DEF Abstract!Complete, Abstract!Fail

LEMMA AbstractStep ==
  ASSUME WorkersHoldPipes, IInv, [Next]_vars
  PROVE  [Abstract!Next]_Abstract!vars
<1>1. CASE UNCHANGED <<at, verdict, done>>
  BY <1>1 DEF Abstract!vars, Phase
<1>2. CASE Begin
  BY <1>2 DEF IInv, TypeOK, Begin, Phase, Abstract!Next, Abstract!Begin
<1>3. CASE MakeWorkspace \/ WriteInventory \/ WriteVars \/ Start \/ Reap
  <2>1. at # "idle" /\ at' # "idle" /\ UNCHANGED done
    BY <1>3 DEF MakeWorkspace, WriteInventory, WriteVars, Prepare, Start, Reap, ansible
  <2> QED BY <2>1 DEF Phase, Abstract!vars
<1>4. CASE GiveUp
  BY <1>4, AbstractReturn DEF GiveUp, Abstract!Next
<1>5. CASE Report
  <2>1. Status = "completed" => \A h \in Hosts : done[h] = Tasks
    BY DEF Status, IInv, WorkInv
  <2>2. Status \in {"completed", "failed"}
    BY DEF Status
  <2> QED BY <1>5, <2>1, <2>2, AbstractReturn DEF Report, Abstract!Next
<1>6. CASE Expire \/ Cancel \/ Kill \/ NextTask \/ MainSucceeds \/ MainFails
  <2>1. UNCHANGED <<at, verdict, done>>
    BY <1>6 DEF Expire, Cancel, EndContext, Kill, NextTask, MainSucceeds, MainFails,
                caller, ansible
  <2> QED BY <2>1, <1>1
<1>7. ASSUME NEW h \in Hosts, WorkerDone(h)
      PROVE  [Abstract!Next]_Abstract!vars
  <2>1. worker[h] = "busy" /\ done[h] < Tasks /\ UNCHANGED <<at, verdict>>
    BY <1>7 DEF WorkerDone, IInv, WorkInv, caller
  <2>2. at # "idle"
    BY <2>1 DEF IInv, PipeInv
  <2>3. CASE done' = [done EXCEPT ![h] = @ + 1]
    BY <2>1, <2>2, <2>3 DEF Phase, Abstract!Next, Abstract!TakeEffect
  <2>4. CASE UNCHANGED done
    BY <2>1, <2>4, <1>1
  <2> QED BY <1>7, <2>3, <2>4 DEF WorkerDone
<1>8. CASE UNCHANGED vars
  BY <1>1, <1>8 DEF vars, caller, ansible
<1> QED BY <1>2, <1>3, <1>4, <1>5, <1>6, <1>7, <1>8 DEF Next, Call

(* When the workers hold the output pipes, a run is what the deployment     *)
(* services take it for, whenever the timeout, the client, the kill of the  *)
(* main process and the end of its workers come: nothing takes effect on    *)
(* the hosts after the verdict, and a completed run has done every task on  *)
(* every host.                                                             *)
THEOREM RunnerImplementsStepRun ==
  ASSUME WorkersHoldPipes
  PROVE  Spec => ImplementsStepRun
<1>1. Init => Abstract!Init
  BY AbstractInit
<1>2. IInv /\ [Next]_vars => [Abstract!Next]_Abstract!vars
  BY AbstractStep
<1> QED BY <1>1, <1>2, IInvHolds, PTL DEF Spec, ImplementsStepRun, Abstract!Spec
=============================================================================
