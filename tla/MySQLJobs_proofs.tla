-------------------------- MODULE MySQLJobs_proofs --------------------------
(***************************************************************************)
(* Theorems about MySQLJobs, for every step table, set of jobs, requests,  *)
(* handlers, executors and bound.                                          *)
(*                                                                         *)
(* The argument.  A step counts as settled once the runner reported its    *)
(* success (ran), or when the job's request skips it; both never change    *)
(* for a job whose id was issued.  So it is enough that every copy of a    *)
(* job, in its file, in a handler or in an executor, only claims steps     *)
(* that are settled when the copy is made or changed: copies may then be   *)
(* raced, lost and written over each other in any order.                   *)
(***************************************************************************)
EXTENDS MySQLJobs, TLAPS

(* The executor's index is inside the table while it has a step in hand. *)
TypeInv ==
  /\ TypeOK
  /\ \A x \in Executors :
       executor[x].at \in {"run", "succeeded", "failed"} => executor[x].i < N

SettledBelow(j, k) == \A i \in 0 .. k - 1 : Settled(j, i)

(* What a copy of job j claims is true. *)
TrueCopy(j, copy) ==
  /\ SettledBelow(j, copy.last + 1)
  /\ copy.status = "completed" => SettledBelow(j, N)

FilesTrue ==
  \A j \in Jobs :
    /\ disk[j] # "absent" => j \in issued
    /\ disk[j] = "intact" => TrueCopy(j, stored[j])

TrueHandler(r) == r.at # "idle" =>
  /\ r.job \in issued
  /\ TrueCopy(r.job, r.copy)
  /\ SettledBelow(r.job, r.next)
  /\ r.at = "resume_finish" => SettledBelow(r.job, N)

TrueExecutor(e) == e.at # "idle" =>
  /\ e.job \in issued
  /\ TrueCopy(e.job, e.copy)
  /\ SettledBelow(e.job, e.i)
  /\ e.at = "succeeded" => e.i \in ran[e.job]

HandlersTrue == \A h \in Handlers : TrueHandler(handler[h])
ExecutorsTrue == \A x \in Executors : TrueExecutor(executor[x])

IInv == TypeInv /\ FilesTrue /\ HandlersTrue /\ ExecutorsTrue

-----------------------------------------------------------------------------
(* The bounds of the table and the values the state starts from. *)
LEMMA Constants ==
  /\ N \in Nat
  /\ AnyJob \in Jobs /\ AnySpec \in Specs
  /\ NewJob \in JobRecord
  /\ IdleHandler \in HandlerState /\ IdleExecutor \in ExecutorState
<1>1. N \in Nat
  BY TableAssumption DEF N
<1>2. AnyJob \in Jobs /\ AnySpec \in Specs
  BY ParameterAssumption DEF AnyJob, AnySpec
<1>3. NewJob \in JobRecord
  BY <1>1 DEF NewJob, JobRecord, Statuses, NoStep
<1>4. IdleHandler \in HandlerState /\ IdleExecutor \in ExecutorState
  BY <1>1, <1>2, <1>3
  DEF IdleHandler, IdleExecutor, HandlerState, ExecutorState, HandlerPCs, ExecutorPCs
<1> QED BY <1>1, <1>2, <1>3, <1>4

(* What the playbooks leave on the hosts are effects of steps. *)
LEMMA StepOutcomeTypes ==
  ASSUME NEW name, NEW request, NEW effects \in SUBSET StepNames
  PROVE  StepOutcomesOnFailure(name, request, effects) \subseteq SUBSET StepNames
BY DEF StepOutcomesOnFailure, StepDone, TakenDown, Lasting, StepNames

LEMMA RollbackOutcomeTypes ==
  ASSUME NEW effects \in SUBSET StepNames
  PROVE  /\ RollbackDone(effects) \in SUBSET StepNames
         /\ RollbackOutcomesOnFailure(effects) \subseteq SUBSET StepNames
BY DEF RollbackOutcomesOnFailure, RollbackDone

(* The types of the variables the store and the bounds own. *)
StoreTypeOK ==
  /\ disk \in [Jobs -> {"absent", "corrupt", "intact"}]
  /\ stored \in [Jobs -> JobRecord]
  /\ secretFile \in [Jobs -> Passwords \cup {NoPassword}]
  /\ used \in [resumes : Nat, rollbacks : Nat, faults : Nat, crashes : Nat]

LEMMA SaveJobTypes ==
  ASSUME TypeOK, NEW j \in Jobs, NEW copy \in JobRecord,
         SaveJob(j, copy) \/ SaveJobFails(j)
  PROVE  StoreTypeOK'
BY DEF TypeOK, StoreTypeOK, SaveJob, SaveJobFails, Fault

LEMMA SaveSecretTypes ==
  ASSUME TypeOK, NEW j \in Jobs, NEW p \in Passwords \cup {NoPassword},
         SaveSecret(j, p) \/ SaveSecretFails(j)
  PROVE  StoreTypeOK'
BY DEF TypeOK, StoreTypeOK, SaveSecret, SaveSecretFails, Fault

LEMMA CopyTypes ==
  ASSUME NEW copy \in JobRecord, NEW i \in 0 .. N - 1
  PROVE  /\ StepSkipped(copy, i) \in JobRecord
         /\ StepEntered(copy, i) \in JobRecord
         /\ StepRecorded(copy, i) \in JobRecord
<1>1. i \in -1 .. N - 1
  BY Constants
<1>2. copy.done + 1 \in Nat
  BY DEF JobRecord
<1>3. StepSkipped(copy, i) \in JobRecord
  BY <1>1 DEF JobRecord, StepSkipped
<1>4. StepEntered(copy, i) \in JobRecord
  BY <1>1 DEF JobRecord, StepEntered
<1>5. StepRecorded(copy, i) \in JobRecord
  BY <1>1, <1>2 DEF JobRecord, StepRecorded
<1> QED BY <1>3, <1>4, <1>5

LEMMA VerdictTypes ==
  ASSUME NEW copy \in JobRecord
  PROVE  /\ JobFailed(copy) \in JobRecord
         /\ JobCompleted(copy) \in JobRecord
         /\ JobRolledBack(copy) \in JobRecord
         /\ [copy EXCEPT !.status = "running"] \in JobRecord
         /\ [copy EXCEPT !.status = "completed"] \in JobRecord
         /\ StartIndex(copy) \in 0 .. N
<1>1. -1 \in -1 .. N - 1 /\ copy.rollbacks + 1 \in Nat
  BY Constants DEF JobRecord
<1>2. JobFailed(copy) \in JobRecord
  BY DEF JobRecord, Statuses, JobFailed
<1>3. JobCompleted(copy) \in JobRecord
  BY <1>1 DEF JobRecord, Statuses, JobCompleted, NoStep
<1>4. JobRolledBack(copy) \in JobRecord
  BY <1>1 DEF JobRecord, Statuses, JobRolledBack
<1>5. /\ [copy EXCEPT !.status = "running"] \in JobRecord
      /\ [copy EXCEPT !.status = "completed"] \in JobRecord
  BY DEF JobRecord, Statuses
<1>6. copy.last \in -1 .. N - 1
  BY DEF JobRecord
<1>7. StartIndex(copy) \in 0 .. N
  BY <1>6, Constants DEF StartIndex
<1> QED BY <1>2, <1>3, <1>4, <1>5, <1>7

-----------------------------------------------------------------------------
(* Type correctness, one lemma for each process. *)

ExecutorTypeOK ==
  /\ executor \in [Executors -> ExecutorState]
  /\ \A x \in Executors :
       executor[x].at \in {"run", "succeeded", "failed"} => executor[x].i < N

LEMMA ExecutorGoesTypes ==
  ASSUME TypeInv, NEW x \in Executors, NEW state \in ExecutorState,
         state.at \in {"run", "succeeded", "failed"} => state.i < N,
         ExecutorGoes(x, state)
  PROVE  ExecutorTypeOK'
BY DEF TypeInv, TypeOK, ExecutorTypeOK, ExecutorGoes

LEMMA ExecutorSavesTypes ==
  ASSUME TypeInv, NEW x \in Executors, NEW copy \in JobRecord,
         NEW state \in ExecutorState,
         state.at \in {"run", "succeeded", "failed"} => state.i < N,
         ExecutorSaves(x, copy, state), UNCHANGED hosts
  PROVE  TypeInv'
<1>1. executor[x].job \in Jobs
  BY DEF TypeInv, TypeOK, ExecutorState
<1>2. StoreTypeOK'
  BY <1>1, SaveJobTypes DEF ExecutorSaves, TypeInv
<1>3. ExecutorGoes(x, state) \/ ExecutorGoes(x, IdleExecutor)
  BY DEF ExecutorSaves
<1>4. ExecutorTypeOK'
  BY <1>3, ExecutorGoesTypes, Constants DEF IdleExecutor
<1>5. UNCHANGED <<issued, spec, handler, inPlace, account, ran>>
  BY <1>3 DEF ExecutorGoes, hosts
<1> QED BY <1>2, <1>4, <1>5 DEF TypeInv, TypeOK, StoreTypeOK, ExecutorTypeOK

LEMMA ExecuteTypes ==
  ASSUME TypeInv, NEW x \in Executors, Execute(x)
  PROVE  TypeInv'
<1> DEFINE e == executor[x]
<1>1. e \in ExecutorState /\ e.job \in Jobs /\ e.copy \in JobRecord /\ e.i \in 0 .. N
  BY DEF TypeInv, TypeOK, ExecutorState
<1>2. N \in Nat
  BY Constants
<1>3. CASE SkipStep(x)
  <2>1. e.i \in 0 .. N - 1 /\ e.i + 1 \in 0 .. N
    BY <1>1, <1>2, <1>3 DEF SkipStep
  <2>2. StepSkipped(e.copy, e.i) \in JobRecord
    BY <1>1, <2>1, CopyTypes
  <2> DEFINE state == [e EXCEPT !.copy = StepSkipped(e.copy, e.i), !.i = e.i + 1]
  <2>3. state \in ExecutorState /\ state.at = "loop"
    BY <1>1, <1>3, <2>1, <2>2 DEF ExecutorState, SkipStep
  <2> QED BY <1>3, <2>2, <2>3, ExecutorSavesTypes DEF SkipStep
<1>4. CASE BeginStep(x)
  <2>1. e.i \in 0 .. N - 1
    BY <1>1, <1>2, <1>4 DEF BeginStep
  <2>2. StepEntered(e.copy, e.i) \in JobRecord
    BY <1>1, <2>1, CopyTypes
  <2> DEFINE state == [e EXCEPT !.copy = StepEntered(e.copy, e.i), !.at = "run"]
  <2>3. state \in ExecutorState /\ state.i = e.i
    BY <1>1, <2>2 DEF ExecutorState, ExecutorPCs
  <2>4. state.i < N
    BY <1>2, <2>1, <2>3
  <2> QED BY <1>4, <2>2, <2>3, <2>4, ExecutorSavesTypes DEF BeginStep
<1>5. CASE StepSucceeds(x)
  <2>1. e.i < N /\ e.i \in 0 .. N - 1
    BY <1>1, <1>2, <1>5 DEF StepSucceeds, TypeInv
  <2> DEFINE state == [e EXCEPT !.at = "succeeded"]
  <2>2. state \in ExecutorState /\ state.i < N
    BY <1>1, <2>1 DEF ExecutorState, ExecutorPCs
  <2>3. ExecutorTypeOK'
    BY <1>5, <2>2, ExecutorGoesTypes DEF StepSucceeds
  <2>4. ran' \in [Jobs -> SUBSET (0 .. N - 1)]
    BY <1>1, <1>5, <2>1 DEF StepSucceeds, TypeInv, TypeOK
  <2>5. inPlace' \in [Jobs -> SUBSET StepNames]
    BY <1>1, <1>5 DEF StepSucceeds, StepDone, TakenDown, Lasting, StepNames, TypeInv, TypeOK
  <2>6. account' \in [Jobs -> Passwords \cup {NoPassword}]
    BY <1>1, <1>5 DEF StepSucceeds, TypeInv, TypeOK, ExecutorState
  <2> QED BY <1>5, <2>3, <2>4, <2>5, <2>6
          DEF StepSucceeds, ExecutorGoes, files, TypeInv, TypeOK, ExecutorTypeOK
<1>6. CASE StepFails(x)
  <2>1. e.i < N
    BY <1>6 DEF StepFails, TypeInv
  <2> DEFINE state == [e EXCEPT !.at = "failed"]
  <2>2. state \in ExecutorState /\ state.i < N
    BY <1>1, <2>1 DEF ExecutorState, ExecutorPCs
  <2>3. ExecutorTypeOK'
    BY <1>6, <2>2, ExecutorGoesTypes DEF StepFails
  <2>4. inPlace' \in [Jobs -> SUBSET StepNames]
    <3>1. inPlace[e.job] \in SUBSET StepNames
      BY <1>1 DEF TypeInv, TypeOK
    <3>2. StepOutcomesOnFailure(Table[e.i + 1].name, spec[e.job], inPlace[e.job])
            \subseteq SUBSET StepNames
      BY <3>1, StepOutcomeTypes
    <3>3. PICK left \in StepOutcomesOnFailure(Table[e.i + 1].name, spec[e.job],
                                              inPlace[e.job]) :
            inPlace' = [inPlace EXCEPT ![e.job] = left]
      BY <1>6 DEF StepFails
    <3>4. left \in SUBSET StepNames
      BY <3>2, <3>3
    <3> QED BY <3>3, <3>4 DEF TypeInv, TypeOK
  <2>5. account' \in [Jobs -> Passwords \cup {NoPassword}]
    <3>1. account[e.job] \in Passwords \cup {NoPassword}
          /\ e.password \in Passwords \cup {NoPassword}
      BY <1>1 DEF TypeInv, TypeOK, ExecutorState
    <3>2. PICK p \in Passwords \cup {NoPassword} : account' = [account EXCEPT ![e.job] = p]
      BY <1>6, <3>1 DEF StepFails
    <3> QED BY <3>2 DEF TypeInv, TypeOK
  <2> QED BY <1>6, <2>3, <2>4, <2>5
          DEF StepFails, ExecutorGoes, files, TypeInv, TypeOK, ExecutorTypeOK
<1>7. CASE RecordSuccess(x)
  <2>1. e.i \in 0 .. N - 1 /\ e.i + 1 \in 0 .. N
    BY <1>1, <1>2, <1>7 DEF RecordSuccess, TypeInv
  <2>2. StepRecorded(e.copy, e.i) \in JobRecord
    BY <1>1, <2>1, CopyTypes
  <2> DEFINE state == [e EXCEPT !.copy = StepRecorded(e.copy, e.i), !.i = e.i + 1,
                                !.at = "loop"]
  <2>3. state \in ExecutorState /\ state.at = "loop"
    BY <1>1, <2>1, <2>2 DEF ExecutorState, ExecutorPCs
  <2> QED BY <1>7, <2>2, <2>3, ExecutorSavesTypes DEF RecordSuccess
<1>8. CASE RecordFailure(x)
  BY <1>1, <1>8, VerdictTypes, Constants, ExecutorSavesTypes
  DEF RecordFailure, IdleExecutor
<1>9. CASE CompleteJob(x)
  BY <1>1, <1>9, VerdictTypes, Constants, ExecutorSavesTypes
  DEF CompleteJob, IdleExecutor
<1> QED BY <1>3, <1>4, <1>5, <1>6, <1>7, <1>8, <1>9 DEF Execute

LEMMA HandlerGoesTypes ==
  ASSUME TypeInv, NEW h \in Handlers, NEW state \in HandlerState,
         HandlerGoes(h, state)
  PROVE  handler' \in [Handlers -> HandlerState]
BY DEF TypeInv, TypeOK, HandlerGoes

LEMMA LoadAndStartTypes ==
  ASSUME TypeInv, NEW h \in Handlers, NEW from \in 0 .. N, LoadAndStart(h, from)
  PROVE  TypeInv'
<1> DEFINE r == handler[h]
<1>1. r \in HandlerState /\ r.job \in Jobs /\ r.password \in Passwords \cup {NoPassword}
  BY DEF TypeInv, TypeOK, HandlerState
<1>2. handler' \in [Handlers -> HandlerState]
  BY Constants, HandlerGoesTypes DEF LoadAndStart
<1>3. ExecutorTypeOK'
  <2>1. CASE UNCHANGED executor
    BY <2>1 DEF ExecutorTypeOK, TypeInv, TypeOK
  <2>2. CASE StartExecutor(r.job, from, r.password)
    <3>1. PICK x \in Executors : executor' = [executor EXCEPT ![x] =
            [at |-> "loop", job |-> r.job, copy |-> stored[r.job],
             password |-> r.password, i |-> from]]
      BY <2>2 DEF StartExecutor
    <3>2. [at |-> "loop", job |-> r.job, copy |-> stored[r.job],
           password |-> r.password, i |-> from] \in ExecutorState
      BY <1>1 DEF ExecutorState, ExecutorPCs, TypeInv, TypeOK
    <3> QED BY <3>1, <3>2 DEF ExecutorTypeOK, TypeInv, TypeOK
  <2> QED BY <2>1, <2>2 DEF LoadAndStart
<1>4. used' \in [resumes : Nat, rollbacks : Nat, faults : Nat, crashes : Nat]
  <2>1. UNCHANGED used \/ Fault
    BY DEF LoadAndStart, JobNotRead
  <2> QED BY <2>1 DEF Fault, TypeInv, TypeOK
<1> QED BY <1>2, <1>3, <1>4 DEF LoadAndStart, TypeInv, TypeOK, ExecutorTypeOK, files, hosts

LEMMA HandleTypes ==
  ASSUME TypeInv, NEW h \in Handlers, Handle(h)
  PROVE  TypeInv'
<1> DEFINE r == handler[h]
<1>1. /\ r \in HandlerState /\ r.job \in Jobs /\ r.copy \in JobRecord
      /\ r.password \in Passwords \cup {NoPassword} /\ r.next \in 0 .. N
  BY DEF TypeInv, TypeOK, HandlerState
<1>2. [r EXCEPT !.at = "deploy_start"] \in HandlerState
      /\ [r EXCEPT !.at = "resume_save"] \in HandlerState
  BY <1>1 DEF HandlerState, HandlerPCs
<1>3. CASE DeploySecret(h)
  <2>1. StoreTypeOK'
    BY <1>1, <1>3, SaveSecretTypes DEF DeploySecret, TypeInv
  <2>2. handler' \in [Handlers -> HandlerState]
    BY <1>2, <1>3, Constants, HandlerGoesTypes DEF DeploySecret
  <2> QED BY <1>3, <2>1, <2>2 DEF DeploySecret, StoreTypeOK, TypeInv, TypeOK, hosts
<1>4. CASE DeployStart(h)
  <2>1. 0 \in 0 .. N
    BY Constants
  <2> QED BY <1>4, <2>1, LoadAndStartTypes DEF DeployStart
<1>5. CASE ResumeFinish(h)
  <2>1. StoreTypeOK'
    BY <1>1, <1>5, SaveJobTypes, VerdictTypes DEF ResumeFinish, TypeInv
  <2>2. handler' \in [Handlers -> HandlerState]
    BY <1>5, Constants, HandlerGoesTypes DEF ResumeFinish
  <2> QED BY <1>5, <2>1, <2>2 DEF ResumeFinish, StoreTypeOK, TypeInv, TypeOK, hosts
<1>6. CASE ResumeLoadSecret(h)
  <2>1. \A p \in Passwords \cup {NoPassword} :
          /\ [r EXCEPT !.at = "resume_save", !.password = p] \in HandlerState
          /\ [r EXCEPT !.at = "resume_save_secret", !.password = p] \in HandlerState
    BY <1>1 DEF HandlerState, HandlerPCs
  <2>2. secretFile[r.job] \in Passwords \cup {NoPassword}
    BY <1>1 DEF TypeInv, TypeOK
  <2>3. PICK state \in HandlerState : HandlerGoes(h, state)
    BY <1>6, <2>1, <2>2 DEF ResumeLoadSecret
  <2>4. handler' \in [Handlers -> HandlerState]
    BY <2>3, HandlerGoesTypes
  <2>5. used' \in [resumes : Nat, rollbacks : Nat, faults : Nat, crashes : Nat]
    <3>1. UNCHANGED used \/ Fault
      BY <1>6 DEF ResumeLoadSecret, SecretNotRead
    <3> QED BY <3>1 DEF Fault, TypeInv, TypeOK
  <2> QED BY <1>6, <2>4, <2>5 DEF ResumeLoadSecret, TypeInv, TypeOK, hosts, files
<1>7. CASE ResumeSaveSecret(h)
  <2>1. StoreTypeOK'
    BY <1>1, <1>7, SaveSecretTypes DEF ResumeSaveSecret, TypeInv
  <2>2. handler' \in [Handlers -> HandlerState]
    BY <1>2, <1>7, Constants, HandlerGoesTypes DEF ResumeSaveSecret
  <2> QED BY <1>7, <2>1, <2>2 DEF ResumeSaveSecret, StoreTypeOK, TypeInv, TypeOK, hosts
<1>8. CASE ResumeSave(h)
  <2> DEFINE copy == [r.copy EXCEPT !.status = "running"]
  <2>1. copy \in JobRecord
    BY <1>1, VerdictTypes
  <2>2. [r EXCEPT !.at = "resume_start", !.copy = copy] \in HandlerState
    BY <1>1, <2>1 DEF HandlerState, HandlerPCs
  <2>3. StoreTypeOK'
    BY <1>1, <1>8, <2>1, SaveJobTypes DEF ResumeSave, TypeInv
  <2>4. handler' \in [Handlers -> HandlerState]
    BY <1>8, <2>2, Constants, HandlerGoesTypes DEF ResumeSave
  <2> QED BY <1>8, <2>3, <2>4 DEF ResumeSave, StoreTypeOK, TypeInv, TypeOK, hosts
<1>9. CASE ResumeStart(h)
  BY <1>1, <1>9, LoadAndStartTypes DEF ResumeStart
<1>10. CASE RollbackRun(h)
  <2>1. /\ JobRolledBack(r.copy) \in JobRecord
        /\ JobFailed(r.copy) \in JobRecord
    BY <1>1, VerdictTypes
  <2>2. /\ [r EXCEPT !.at = "rollback_save", !.copy = JobRolledBack(@)] \in HandlerState
        /\ [r EXCEPT !.at = "rollback_save", !.copy = JobFailed(@)] \in HandlerState
    BY <1>1, <2>1 DEF HandlerState, HandlerPCs
  <2>3. handler' \in [Handlers -> HandlerState]
    BY <1>10, <2>2, HandlerGoesTypes DEF RollbackRun
  <2>4. inPlace[r.job] \in SUBSET StepNames
    BY <1>1 DEF TypeInv, TypeOK
  <2>5. /\ RollbackDone(inPlace[r.job]) \in SUBSET StepNames
        /\ RollbackOutcomesOnFailure(inPlace[r.job]) \subseteq SUBSET StepNames
    BY <2>4, RollbackOutcomeTypes
  <2>6. PICK left \in SUBSET StepNames : inPlace' = [inPlace EXCEPT ![r.job] = left]
    BY <1>10, <2>5 DEF RollbackRun
  <2>7. inPlace' \in [Jobs -> SUBSET StepNames]
    BY <2>6 DEF TypeInv, TypeOK
  <2> QED BY <1>10, <2>3, <2>7 DEF RollbackRun, TypeInv, TypeOK, files
<1>11. CASE RollbackSave(h)
  <2>1. StoreTypeOK'
    BY <1>1, <1>11, SaveJobTypes DEF RollbackSave, TypeInv
  <2>2. handler' \in [Handlers -> HandlerState]
    BY <1>11, Constants, HandlerGoesTypes DEF RollbackSave
  <2> QED BY <1>11, <2>1, <2>2 DEF RollbackSave, StoreTypeOK, TypeInv, TypeOK, hosts
<1> QED BY <1>3, <1>4, <1>5, <1>6, <1>7, <1>8, <1>9, <1>10, <1>11 DEF Handle

LEMMA RequestTypes ==
  ASSUME TypeInv, NEW h \in Handlers, Request(h)
  PROVE  TypeInv'
<1>1. CASE DeployRequest(h)
  <2>1. PICK j \in Jobs \ issued, s \in Specs, p \in Passwords :
          /\ issued' = issued \cup {j}
          /\ spec' = [spec EXCEPT ![j] = s]
          /\ \/ /\ SaveJob(j, NewJob)
                /\ HandlerGoes(h, [IdleHandler EXCEPT !.at = "deploy_secret",
                                                      !.job = j, !.password = p])
             \/ SaveJobFails(j) /\ HandlerGoes(h, IdleHandler)
    BY <1>1 DEF DeployRequest
  <2>2. StoreTypeOK'
    BY <2>1, Constants, SaveJobTypes DEF TypeInv
  <2>3. [IdleHandler EXCEPT !.at = "deploy_secret", !.job = j, !.password = p]
          \in HandlerState
    BY Constants DEF HandlerState, HandlerPCs
  <2>4. handler' \in [Handlers -> HandlerState]
    BY <2>1, <2>3, Constants, HandlerGoesTypes
  <2>5. issued' \subseteq Jobs /\ spec' \in [Jobs -> Specs]
    BY <2>1 DEF TypeInv, TypeOK
  <2> QED BY <1>1, <2>2, <2>4, <2>5
          DEF DeployRequest, StoreTypeOK, TypeInv, TypeOK, hosts
<1>2. CASE ResumeRequest(h)
  <2>1. PICK j \in Jobs, p \in ResumePasswords :
          HandlerGoes(h,
            [at |-> IF StartIndex(stored[j]) >= N THEN "resume_finish"
                    ELSE IF p = NoPassword THEN "resume_load_secret"
                    ELSE "resume_save",
             job |-> j, copy |-> stored[j], password |-> p,
             next |-> StartIndex(stored[j])])
    BY <1>2 DEF ResumeRequest
  <2> DEFINE at == IF StartIndex(stored[j]) >= N THEN "resume_finish"
                   ELSE IF p = NoPassword THEN "resume_load_secret"
                   ELSE "resume_save"
  <2>2. at \in HandlerPCs
    BY DEF HandlerPCs
  <2>3. stored[j] \in JobRecord
    BY DEF TypeInv, TypeOK
  <2>4. StartIndex(stored[j]) \in 0 .. N /\ p \in Passwords \cup {NoPassword}
    BY <2>3, VerdictTypes, ParameterAssumption
  <2> HIDE DEF at
  <2>5. [at |-> at, job |-> j, copy |-> stored[j], password |-> p,
         next |-> StartIndex(stored[j])] \in HandlerState
    BY <2>2, <2>3, <2>4 DEF HandlerState
  <2>6. handler' \in [Handlers -> HandlerState]
    BY <2>1, <2>5, HandlerGoesTypes DEF at
  <2>7. used' \in [resumes : Nat, rollbacks : Nat, faults : Nat, crashes : Nat]
    BY <1>2 DEF ResumeRequest, TypeInv, TypeOK
  <2> QED BY <1>2, <2>6, <2>7 DEF ResumeRequest, TypeInv, TypeOK, files, hosts
<1>3. CASE RollbackRequest(h)
  <2>1. PICK j \in Jobs :
          HandlerGoes(h, [IdleHandler EXCEPT !.at = "rollback_run",
                                             !.job = j, !.copy = stored[j]])
    BY <1>3 DEF RollbackRequest, IInv, TypeInv, TypeOK
  <2>2. [IdleHandler EXCEPT !.at = "rollback_run", !.job = j, !.copy = stored[j]]
          \in HandlerState
    BY Constants DEF HandlerState, HandlerPCs, TypeInv, TypeOK
  <2>3. handler' \in [Handlers -> HandlerState]
    BY <2>1, <2>2, HandlerGoesTypes
  <2>4. used' \in [resumes : Nat, rollbacks : Nat, faults : Nat, crashes : Nat]
    BY <1>3 DEF RollbackRequest, TypeInv, TypeOK
  <2> QED BY <1>3, <2>3, <2>4 DEF RollbackRequest, TypeInv, TypeOK, files, hosts
<1> QED BY <1>1, <1>2, <1>3 DEF Request

LEMMA CrashTypes ==
  ASSUME TypeInv, Crash
  PROVE  TypeInv'
<1>1. handler' \in [Handlers -> HandlerState]
  BY Constants DEF Crash
<1>2. ExecutorTypeOK'
  BY Constants DEF Crash, ExecutorTypeOK, IdleExecutor
<1>3. StoreTypeOK'
  BY DEF Crash, files, StoreTypeOK, TypeInv, TypeOK
<1> QED BY <1>1, <1>2, <1>3 DEF Crash, hosts, TypeInv, TypeOK, StoreTypeOK, ExecutorTypeOK

LEMMA TypeStep ==
  ASSUME TypeInv, [Next]_vars
  PROVE  TypeInv'
<1>1. CASE UNCHANGED vars
  BY <1>1 DEF vars, files, hosts, TypeInv, TypeOK
<1> QED BY <1>1, ExecuteTypes, HandleTypes, RequestTypes, CrashTypes DEF Next

LEMMA TypeInit ==
  ASSUME Init
  PROVE  TypeInv
<1>1. [resumes |-> 0, rollbacks |-> 0, faults |-> 0, crashes |-> 0]
        \in [resumes : Nat, rollbacks : Nat, faults : Nat, crashes : Nat]
  OBVIOUS
<1> QED BY <1>1, Constants DEF Init, TypeInv, TypeOK, IdleExecutor

(* Every variable keeps its type, and an executor that has a step in hand  *)
(* is inside the step table.                                               *)
THEOREM TypeCorrect == Spec => []TypeOK
<1>1. Spec => []TypeInv
  BY TypeInit, TypeStep, PTL DEF Spec
<1>2. TypeInv => TypeOK
  BY DEF TypeInv
<1> QED BY <1>1, <1>2, PTL

-----------------------------------------------------------------------------
(* Settled steps stay settled: the history of a job only grows, and its    *)
(* request never changes once its id is issued.                            *)

HistoryKept ==
  /\ issued \subseteq issued'
  /\ \A j \in issued : spec'[j] = spec[j] /\ ran[j] \subseteq ran'[j]

LEMMA HistoryIsKept ==
  ASSUME TypeInv, [Next]_vars
  PROVE  HistoryKept
<1>1. CASE UNCHANGED <<issued, spec, ran>>
  BY <1>1 DEF HistoryKept
<1>2. ASSUME NEW x \in Executors, Execute(x)
      PROVE  HistoryKept
  <2>1. CASE StepSucceeds(x)
    <3>1. ran \in [Jobs -> SUBSET (0 .. N - 1)] /\ issued \subseteq Jobs
      BY DEF TypeInv, TypeOK
    <3> QED BY <2>1, <3>1 DEF StepSucceeds, ExecutorGoes, HistoryKept
  <2>2. CASE StepFails(x)
    BY <2>2 DEF StepFails, ExecutorGoes, HistoryKept
  <2>3. CASE SkipStep(x)
    BY <2>3 DEF SkipStep, ExecutorSaves, ExecutorGoes, hosts, HistoryKept
  <2>4. CASE BeginStep(x)
    BY <2>4 DEF BeginStep, ExecutorSaves, ExecutorGoes, hosts, HistoryKept
  <2>5. CASE RecordSuccess(x)
    BY <2>5 DEF RecordSuccess, ExecutorSaves, ExecutorGoes, hosts, HistoryKept
  <2>6. CASE RecordFailure(x)
    BY <2>6 DEF RecordFailure, ExecutorSaves, ExecutorGoes, hosts, HistoryKept
  <2>7. CASE CompleteJob(x)
    BY <2>7 DEF CompleteJob, ExecutorSaves, ExecutorGoes, hosts, HistoryKept
  <2> QED BY <1>2, <2>1, <2>2, <2>3, <2>4, <2>5, <2>6, <2>7 DEF Execute
<1>3. ASSUME NEW h \in Handlers, Handle(h)
      PROVE  HistoryKept
  <2>1. UNCHANGED <<issued, spec, ran>>
    BY <1>3 DEF Handle, DeploySecret, DeployStart, ResumeFinish, ResumeLoadSecret,
       ResumeSaveSecret, ResumeSave, ResumeStart, RollbackRun, RollbackSave,
       LoadAndStart, hosts
  <2> QED BY <1>1, <2>1
<1>4. ASSUME NEW h \in Handlers, Request(h)
      PROVE  HistoryKept
  <2>1. CASE DeployRequest(h)
    BY <2>1 DEF DeployRequest, hosts, HistoryKept, TypeInv, TypeOK
  <2>2. CASE ResumeRequest(h)
    BY <1>1, <2>2 DEF ResumeRequest, hosts
  <2>3. CASE RollbackRequest(h)
    BY <1>1, <2>3 DEF RollbackRequest, hosts
  <2> QED BY <1>4, <2>1, <2>2, <2>3 DEF Request
<1>5. CASE Crash
  <2>1. CASE UNCHANGED <<issued, spec>>
    BY <1>1, <1>5, <2>1 DEF Crash, hosts
  <2>2. ASSUME NEW j \in Jobs \ issued, NEW s \in Specs,
               issued' = issued \cup {j}, spec' = [spec EXCEPT ![j] = s]
        PROVE  HistoryKept
    BY <1>5, <2>2 DEF Crash, hosts, HistoryKept, TypeInv, TypeOK
  <2> QED BY <1>5, <2>1, <2>2 DEF Crash
<1>6. CASE UNCHANGED vars
  BY <1>1, <1>6 DEF vars, hosts
<1> QED BY <1>2, <1>3, <1>4, <1>5, <1>6 DEF Next

LEMMA SettledKept ==
  ASSUME HistoryKept, NEW j \in issued, NEW k, SettledBelow(j, k)
  PROVE  SettledBelow(j, k)'
BY DEF HistoryKept, SettledBelow, Settled, Skipped

LEMMA TrueCopyKept ==
  ASSUME HistoryKept, NEW j \in issued, NEW copy, TrueCopy(j, copy)
  PROVE  TrueCopy(j, copy)'
BY SettledKept DEF TrueCopy

LEMMA TrueHandlerKept ==
  ASSUME HistoryKept, NEW r, TrueHandler(r)
  PROVE  TrueHandler(r)'
<1>1. CASE r.at = "idle"
  BY <1>1 DEF TrueHandler
<1>2. CASE r.at # "idle"
  <2>1. r.job \in issued /\ r.job \in issued'
    BY <1>2 DEF TrueHandler, HistoryKept
  <2> QED BY <1>2, <2>1, TrueCopyKept, SettledKept DEF TrueHandler
<1> QED BY <1>1, <1>2

LEMMA TrueExecutorKept ==
  ASSUME HistoryKept, NEW e, TrueExecutor(e)
  PROVE  TrueExecutor(e)'
<1>1. CASE e.at = "idle"
  BY <1>1 DEF TrueExecutor
<1>2. CASE e.at # "idle"
  <2>1. e.job \in issued /\ e.job \in issued'
    BY <1>2 DEF TrueExecutor, HistoryKept
  <2>2. e.at = "succeeded" => e.i \in ran'[e.job]
    BY <1>2, <2>1 DEF TrueExecutor, HistoryKept
  <2> QED BY <1>2, <2>1, <2>2, TrueCopyKept, SettledKept DEF TrueExecutor
<1> QED BY <1>1, <1>2

(* What an action may do to the files, the handlers and the executors. *)
LEMMA FilesStayTrue ==
  ASSUME IInv, HistoryKept, UNCHANGED <<disk, stored>>
  PROVE  FilesTrue'
<1>1. SUFFICES ASSUME NEW j \in Jobs
               PROVE  /\ disk[j] # "absent" => j \in issued'
                      /\ disk[j] = "intact" => TrueCopy(j, stored[j])'
  BY DEF FilesTrue
<1>2. disk[j] # "absent" => j \in issued /\ j \in issued'
  BY DEF IInv, FilesTrue, HistoryKept
<1>3. ASSUME disk[j] = "intact"
      PROVE  TrueCopy(j, stored[j])'
  <2>1. j \in issued /\ TrueCopy(j, stored[j])
    BY <1>2, <1>3 DEF IInv, FilesTrue
  <2>2. \A copy : TrueCopy(j, copy) => TrueCopy(j, copy)'
    BY <2>1, TrueCopyKept
  <2> QED BY <2>1, <2>2 DEF TrueCopy, SettledBelow
<1> QED BY <1>2, <1>3

LEMMA FilesWrittenTrue ==
  ASSUME IInv, HistoryKept, NEW j \in issued', NEW copy, TrueCopy(j, copy)',
         SaveJob(j, copy) \/ SaveJobFails(j)
  PROVE  FilesTrue'
<1>1. SUFFICES ASSUME NEW k \in Jobs
               PROVE  /\ disk'[k] # "absent" => k \in issued'
                      /\ disk'[k] = "intact" => TrueCopy(k, stored[k])'
  BY DEF FilesTrue
<1>2. disk \in [Jobs -> {"absent", "corrupt", "intact"}] /\ stored \in [Jobs -> JobRecord]
  BY DEF IInv, TypeInv, TypeOK
<1>3. disk'[k] # "absent" => k \in issued'
  BY <1>2 DEF IInv, FilesTrue, HistoryKept, SaveJob, SaveJobFails
<1>4. ASSUME disk'[k] = "intact"
      PROVE  TrueCopy(k, stored[k])'
  <2>1. CASE k = j /\ SaveJob(j, copy)
    <3>1. stored'[k] = copy
      BY <1>2, <2>1 DEF SaveJob
    <3> QED BY <2>1, <3>1 DEF TrueCopy, SettledBelow
  <2>2. CASE k # j \/ SaveJobFails(j)
    <3>1. disk[k] = "intact" /\ stored'[k] = stored[k]
      BY <1>2, <1>4, <2>2 DEF SaveJob, SaveJobFails
    <3>2. k \in issued /\ TrueCopy(k, stored[k])
      BY <3>1 DEF IInv, FilesTrue
    <3>3. \A c : TrueCopy(k, c) => TrueCopy(k, c)'
      BY <3>2, TrueCopyKept
    <3>4. \A c : c = stored[k] => TrueCopy(k, c)'
      BY <3>2, <3>3
    <3> QED BY <3>1, <3>4 DEF TrueCopy, SettledBelow
  <2> QED BY <2>1, <2>2
<1> QED BY <1>3, <1>4

LEMMA HandlersStayTrue ==
  ASSUME IInv, HistoryKept, UNCHANGED handler
  PROVE  HandlersTrue'
<1>1. SUFFICES ASSUME NEW h \in Handlers
               PROVE  TrueHandler(handler[h])'
  BY DEF HandlersTrue
<1>2. \A r : r = handler[h] => TrueHandler(r)'
  BY TrueHandlerKept DEF IInv, HandlersTrue
<1> QED BY <1>2 DEF TrueHandler, TrueCopy, SettledBelow

LEMMA HandlerGoesTrue ==
  ASSUME IInv, HistoryKept, NEW h \in Handlers, NEW state, HandlerGoes(h, state),
         TrueHandler(state)'
  PROVE  HandlersTrue'
<1>1. SUFFICES ASSUME NEW g \in Handlers
               PROVE  TrueHandler(handler[g])'
  BY DEF HandlersTrue
<1>2. handler \in [Handlers -> HandlerState]
  BY DEF IInv, TypeInv, TypeOK
<1>3. CASE g = h
  <2>1. handler'[g] = state
    BY <1>2, <1>3 DEF HandlerGoes
  <2> QED BY <2>1 DEF TrueHandler, TrueCopy, SettledBelow
<1>4. CASE g # h
  <2>1. handler'[g] = handler[g]
    BY <1>2, <1>4 DEF HandlerGoes
  <2>2. \A r : r = handler[g] => TrueHandler(r)'
    BY TrueHandlerKept DEF IInv, HandlersTrue
  <2> QED BY <2>1, <2>2 DEF TrueHandler, TrueCopy, SettledBelow
<1> QED BY <1>3, <1>4

LEMMA ExecutorsStayTrue ==
  ASSUME IInv, HistoryKept, UNCHANGED executor
  PROVE  ExecutorsTrue'
<1>1. SUFFICES ASSUME NEW x \in Executors
               PROVE  TrueExecutor(executor[x])'
  BY DEF ExecutorsTrue
<1>2. \A e : e = executor[x] => TrueExecutor(e)'
  BY TrueExecutorKept DEF IInv, ExecutorsTrue
<1> QED BY <1>2 DEF TrueExecutor, TrueCopy, SettledBelow

LEMMA ExecutorGoesTrue ==
  ASSUME IInv, HistoryKept, NEW x \in Executors, NEW state,
         executor' = [executor EXCEPT ![x] = state], TrueExecutor(state)'
  PROVE  ExecutorsTrue'
<1>1. SUFFICES ASSUME NEW y \in Executors
               PROVE  TrueExecutor(executor[y])'
  BY DEF ExecutorsTrue
<1>2. executor \in [Executors -> ExecutorState]
  BY DEF IInv, TypeInv, TypeOK
<1>3. CASE y = x
  <2>1. executor'[y] = state
    BY <1>2, <1>3
  <2> QED BY <2>1 DEF TrueExecutor, TrueCopy, SettledBelow
<1>4. CASE y # x
  <2>1. executor'[y] = executor[y]
    BY <1>2, <1>4
  <2>2. \A e : e = executor[y] => TrueExecutor(e)'
    BY TrueExecutorKept DEF IInv, ExecutorsTrue
  <2> QED BY <2>1, <2>2 DEF TrueExecutor, TrueCopy, SettledBelow
<1> QED BY <1>3, <1>4

LEMMA IdleIsTrue ==
  TrueHandler(IdleHandler)' /\ TrueExecutor(IdleExecutor)'
BY DEF TrueHandler, TrueExecutor, IdleHandler, IdleExecutor

-----------------------------------------------------------------------------
(* The steps of the processes.                                             *)

LEMMA ExecutorSavesTrue ==
  ASSUME IInv, HistoryKept, NEW x \in Executors, NEW j \in issued, NEW copy, NEW state,
         j = executor[x].job, TrueCopy(j, copy)', TrueExecutor(state)',
         ExecutorSaves(x, copy, state)
  PROVE  FilesTrue' /\ HandlersTrue' /\ ExecutorsTrue'
<1>1. j \in issued'
  BY DEF HistoryKept
<1>2. FilesTrue'
  BY <1>1, FilesWrittenTrue DEF ExecutorSaves
<1>3. HandlersTrue'
  BY HandlersStayTrue DEF ExecutorSaves, ExecutorGoes
<1>4. ExecutorsTrue'
  <2>1. CASE ExecutorGoes(x, state)
    BY <2>1, ExecutorGoesTrue DEF ExecutorGoes
  <2>2. CASE ExecutorGoes(x, IdleExecutor)
    BY <2>2, ExecutorGoesTrue, IdleIsTrue DEF ExecutorGoes
  <2> QED BY <2>1, <2>2 DEF ExecutorSaves
<1> QED BY <1>2, <1>3, <1>4

(* An executor claims a step only after it was skipped or has succeeded,   *)
(* and completes the job only past the last step.                          *)
LEMMA ExecuteTrue ==
  ASSUME IInv, HistoryKept, NEW x \in Executors, Execute(x)
  PROVE  FilesTrue' /\ HandlersTrue' /\ ExecutorsTrue'
<1>1. PICK e : e = executor[x]
  OBVIOUS
<1>2. e \in ExecutorState /\ e.copy \in JobRecord /\ e.i \in 0 .. N /\ N \in Nat
  BY <1>1, Constants DEF IInv, TypeInv, TypeOK, ExecutorState
<1>3. e.at # "idle"
  BY <1>1 DEF Execute, SkipStep, BeginStep, StepSucceeds, StepFails, RecordSuccess,
              RecordFailure, CompleteJob
<1>4. TrueExecutor(e)
  BY <1>1 DEF IInv, ExecutorsTrue
<1>5. /\ e.job \in issued /\ e.job \in issued' /\ TrueCopy(e.job, e.copy)
      /\ SettledBelow(e.job, e.i)
  BY <1>3, <1>4 DEF TrueExecutor, HistoryKept
<1>6. /\ TrueExecutor(e)' /\ TrueCopy(e.job, e.copy)'
      /\ SettledBelow(e.job, e.i)'
  BY <1>4, <1>5, TrueExecutorKept, TrueCopyKept, SettledKept
<1>7. e.copy.last + 1 \in Nat /\ e.copy.last \in Int
  BY <1>2 DEF JobRecord
<1>8. ASSUME e.i < N, Settled(e.job, e.i)'
      PROVE  SettledBelow(e.job, e.i + 1)'
  BY <1>2, <1>6, <1>8 DEF SettledBelow
<1>9. CASE SkipStep(x)
  <2> DEFINE copy == StepSkipped(e.copy, e.i)
             state == [e EXCEPT !.copy = copy, !.i = e.i + 1]
  <2>1. e.at = "loop" /\ e.i < N /\ Skipped(e.i, spec[e.job])
    BY <1>1, <1>9 DEF SkipStep
  <2>2. SettledBelow(e.job, e.i + 1)'
    BY <1>5, <1>8, <2>1 DEF Settled, HistoryKept, Skipped
  <2>3. TrueCopy(e.job, copy)'
    <3>1. copy.last = e.i /\ copy.status = e.copy.status
      BY <1>2 DEF StepSkipped, JobRecord
    <3> QED BY <1>6, <2>2, <3>1 DEF TrueCopy
  <2>4. TrueExecutor(state)'
    <3>1. state.at = "loop" /\ state.job = e.job /\ state.copy = copy /\ state.i = e.i + 1
      BY <1>2, <2>1 DEF ExecutorState
    <3> QED BY <1>5, <2>2, <2>3, <3>1 DEF TrueExecutor
  <2>5. ExecutorSaves(x, copy, state)
    BY <1>1, <1>9 DEF SkipStep
  <2> QED BY <1>1, <1>5, <2>3, <2>4, <2>5, ExecutorSavesTrue
<1>10. CASE BeginStep(x)
  <2> DEFINE copy == StepEntered(e.copy, e.i)
             state == [e EXCEPT !.copy = copy, !.at = "run"]
  <2>1. TrueCopy(e.job, copy)'
    <3>1. copy.last = e.copy.last /\ copy.status = e.copy.status
      BY <1>2 DEF StepEntered, JobRecord
    <3> QED BY <1>6, <3>1 DEF TrueCopy
  <2>2. TrueExecutor(state)'
    <3>1. state.at = "run" /\ state.job = e.job /\ state.copy = copy /\ state.i = e.i
      BY <1>2 DEF ExecutorState
    <3> QED BY <1>5, <1>6, <2>1, <3>1 DEF TrueExecutor
  <2>3. ExecutorSaves(x, copy, state)
    BY <1>1, <1>10 DEF BeginStep
  <2> QED BY <1>1, <1>5, <2>1, <2>2, <2>3, ExecutorSavesTrue
<1>11. CASE StepSucceeds(x)
  <2> DEFINE state == [e EXCEPT !.at = "succeeded"]
  <2>1. e.i \in ran'[e.job]
    BY <1>1, <1>2, <1>5, <1>11 DEF StepSucceeds, IInv, TypeInv, TypeOK
  <2>2. TrueExecutor(state)'
    <3>1. /\ state.at = "succeeded" /\ state.job = e.job
          /\ state.copy = e.copy /\ state.i = e.i
      BY <1>2 DEF ExecutorState
    <3> QED BY <1>5, <1>6, <2>1, <3>1 DEF TrueExecutor
  <2>3. executor' = [executor EXCEPT ![x] = state]
    BY <1>1, <1>11 DEF StepSucceeds, ExecutorGoes
  <2>4. UNCHANGED <<disk, stored, handler>>
    BY <1>11 DEF StepSucceeds, ExecutorGoes, files
  <2> QED BY <2>2, <2>3, <2>4, FilesStayTrue, HandlersStayTrue, ExecutorGoesTrue
<1>12. CASE StepFails(x)
  <2> DEFINE state == [e EXCEPT !.at = "failed"]
  <2>1. TrueExecutor(state)'
    <3>1. /\ state.at = "failed" /\ state.job = e.job
          /\ state.copy = e.copy /\ state.i = e.i
      BY <1>2 DEF ExecutorState
    <3> QED BY <1>5, <1>6, <3>1 DEF TrueExecutor
  <2>2. executor' = [executor EXCEPT ![x] = state]
    BY <1>1, <1>12 DEF StepFails, ExecutorGoes
  <2>3. UNCHANGED <<disk, stored, handler>>
    BY <1>12 DEF StepFails, ExecutorGoes, files
  <2> QED BY <2>1, <2>2, <2>3, FilesStayTrue, HandlersStayTrue, ExecutorGoesTrue
<1>13. CASE RecordSuccess(x)
  <2> DEFINE copy == StepRecorded(e.copy, e.i)
             state == [e EXCEPT !.copy = copy, !.i = e.i + 1, !.at = "loop"]
  <2>1. e.at = "succeeded" /\ e.i < N
    BY <1>1, <1>13 DEF RecordSuccess, IInv, TypeInv
  <2>2. SettledBelow(e.job, e.i + 1)'
    BY <1>4, <1>5, <1>8, <2>1 DEF Settled, HistoryKept, TrueExecutor
  <2>3. TrueCopy(e.job, copy)'
    <3>1. copy.last = e.i /\ copy.status = e.copy.status
      BY <1>2 DEF StepRecorded, JobRecord
    <3> QED BY <1>6, <2>2, <3>1 DEF TrueCopy
  <2>4. TrueExecutor(state)'
    <3>1. state.at = "loop" /\ state.job = e.job /\ state.copy = copy /\ state.i = e.i + 1
      BY <1>2 DEF ExecutorState
    <3> QED BY <1>5, <2>2, <2>3, <3>1 DEF TrueExecutor
  <2>5. ExecutorSaves(x, copy, state)
    BY <1>1, <1>13 DEF RecordSuccess
  <2> QED BY <1>1, <1>5, <2>3, <2>4, <2>5, ExecutorSavesTrue
<1>14. CASE RecordFailure(x)
  <2> DEFINE copy == JobFailed(e.copy)
  <2>1. TrueCopy(e.job, copy)'
    <3>1. copy.last = e.copy.last /\ copy.status = "failed"
      BY <1>2 DEF JobFailed, JobRecord
    <3> QED BY <1>6, <3>1 DEF TrueCopy
  <2>2. ExecutorSaves(x, copy, IdleExecutor)
    BY <1>1, <1>14 DEF RecordFailure
  <2> QED BY <1>1, <1>5, <2>1, <2>2, IdleIsTrue, ExecutorSavesTrue
<1>15. CASE CompleteJob(x)
  <2> DEFINE copy == JobCompleted(e.copy)
  <2>1. e.i = N
    BY <1>1, <1>15 DEF CompleteJob
  <2>2. TrueCopy(e.job, copy)'
    <3>1. copy.last = e.copy.last
      BY <1>2 DEF JobCompleted, JobRecord
    <3> QED BY <1>6, <2>1, <3>1 DEF TrueCopy
  <2>3. ExecutorSaves(x, copy, IdleExecutor)
    BY <1>1, <1>15 DEF CompleteJob
  <2> QED BY <1>1, <1>5, <2>2, <2>3, IdleIsTrue, ExecutorSavesTrue
<1> QED BY <1>9, <1>10, <1>11, <1>12, <1>13, <1>14, <1>15 DEF Execute

(* A new executor gets the copy in the file and a start index below which  *)
(* everything is settled.                                                  *)
LEMMA LoadAndStartTrue ==
  ASSUME IInv, HistoryKept, NEW h \in Handlers, NEW from,
         handler[h].job \in issued, SettledBelow(handler[h].job, from),
         LoadAndStart(h, from)
  PROVE  FilesTrue' /\ HandlersTrue' /\ ExecutorsTrue'
<1>1. FilesTrue'
  BY FilesStayTrue DEF LoadAndStart, files
<1>2. HandlersTrue'
  BY IdleIsTrue, HandlerGoesTrue DEF LoadAndStart
<1>3. ExecutorsTrue'
  <2>1. CASE UNCHANGED executor
    BY <2>1, ExecutorsStayTrue
  <2>2. CASE /\ Loadable(handler[h].job)
             /\ StartExecutor(handler[h].job, from, handler[h].password)
    <3>1. PICK j, copy, p : j = handler[h].job /\ copy = stored[j] /\ p = handler[h].password
      OBVIOUS
    <3> DEFINE state == [at |-> "loop", job |-> j, copy |-> copy, password |-> p, i |-> from]
    <3>2. PICK x \in Executors : executor' = [executor EXCEPT ![x] = state]
      BY <2>2, <3>1 DEF StartExecutor
    <3>3. j \in issued /\ j \in issued' /\ SettledBelow(j, from)'
      BY <3>1, SettledKept DEF HistoryKept
    <3>4. TrueCopy(j, copy)
      BY <2>2, <3>1, <3>3 DEF Loadable, IInv, FilesTrue, TypeInv, TypeOK
    <3>5. TrueCopy(j, copy)'
      BY <3>3, <3>4, TrueCopyKept
    <3>6. TrueExecutor(state)'
      BY <3>3, <3>5 DEF TrueExecutor
    <3> QED BY <3>2, <3>6, ExecutorGoesTrue
  <2> QED BY <2>1, <2>2 DEF LoadAndStart
<1> QED BY <1>1, <1>2, <1>3

(* A handler writes only what its copy claims; Resume completes a job only *)
(* when the file it loaded had every step behind it.                       *)
LEMMA HandleTrue ==
  ASSUME IInv, HistoryKept, NEW h \in Handlers, Handle(h)
  PROVE  FilesTrue' /\ HandlersTrue' /\ ExecutorsTrue'
<1>1. PICK r : r = handler[h]
  OBVIOUS
<1>2. r \in HandlerState /\ r.copy \in JobRecord /\ N \in Nat
  BY <1>1, Constants DEF IInv, TypeInv, TypeOK, HandlerState
<1>3. r.at # "idle"
  BY <1>1 DEF Handle, DeploySecret, DeployStart, ResumeFinish, ResumeLoadSecret,
     ResumeSaveSecret, ResumeSave, ResumeStart, RollbackRun, RollbackSave
<1>4. TrueHandler(r)
  BY <1>1 DEF IInv, HandlersTrue
<1>5. /\ r.job \in issued /\ r.job \in issued' /\ TrueCopy(r.job, r.copy)
      /\ SettledBelow(r.job, r.next)
  BY <1>3, <1>4 DEF TrueHandler, HistoryKept
<1>6. /\ TrueCopy(r.job, r.copy)' /\ SettledBelow(r.job, r.next)'
  BY <1>5, TrueCopyKept, SettledKept
<1>7. ASSUME NEW state, state.job = r.job, state.copy = r.copy, state.next = r.next,
             state.at # "resume_finish"
      PROVE  TrueHandler(state)'
  BY <1>5, <1>6, <1>7 DEF TrueHandler
<1>8. CASE DeploySecret(h)
  <2>1. TrueHandler([r EXCEPT !.at = "deploy_start"])'
    <3>1. [r EXCEPT !.at = "deploy_start"].at = "deploy_start"
      BY <1>2 DEF HandlerState
    <3> QED BY <1>2, <1>7, <3>1 DEF HandlerState
  <2>2. HandlersTrue'
    BY <1>1, <1>8, <2>1, IdleIsTrue, HandlerGoesTrue DEF DeploySecret
  <2>3. UNCHANGED <<disk, stored, executor>>
    BY <1>8 DEF DeploySecret, SaveSecret, SaveSecretFails
  <2> QED BY <2>2, <2>3, FilesStayTrue, ExecutorsStayTrue
<1>9. CASE DeployStart(h)
  <2>1. SettledBelow(handler[h].job, 0)
    BY DEF SettledBelow
  <2> QED BY <1>1, <1>5, <1>9, <2>1, LoadAndStartTrue DEF DeployStart
<1>10. CASE ResumeFinish(h)
  <2> DEFINE copy == [r.copy EXCEPT !.status = "completed"]
  <2>1. SettledBelow(r.job, N)'
    BY <1>1, <1>3, <1>4, <1>5, <1>10, SettledKept DEF ResumeFinish, TrueHandler
  <2>2. TrueCopy(r.job, copy)'
    <3>1. copy.last = r.copy.last
      BY <1>2 DEF JobRecord
    <3> QED BY <1>6, <2>1, <3>1 DEF TrueCopy
  <2>3. SaveJob(r.job, copy) \/ SaveJobFails(r.job)
    BY <1>1, <1>10 DEF ResumeFinish
  <2>4. FilesTrue'
    BY <1>5, <2>2, <2>3, FilesWrittenTrue
  <2>5. HandlersTrue' /\ ExecutorsTrue'
    BY <1>10, IdleIsTrue, HandlerGoesTrue, ExecutorsStayTrue DEF ResumeFinish
  <2> QED BY <2>4, <2>5
<1>11. CASE ResumeLoadSecret(h)
  <2>1. ASSUME NEW p, HandlerGoes(h, [r EXCEPT !.at = "resume_save", !.password = p])
        PROVE  HandlersTrue'
    <3> DEFINE state == [r EXCEPT !.at = "resume_save", !.password = p]
    <3>1. /\ state.job = r.job /\ state.copy = r.copy /\ state.next = r.next
          /\ state.at # "resume_finish"
      BY <1>2 DEF HandlerState
    <3>2. TrueHandler(state)'
      BY <1>7, <3>1
    <3> QED BY <2>1, <3>2, HandlerGoesTrue
  <2>2. ASSUME NEW p, HandlerGoes(h, [r EXCEPT !.at = "resume_save_secret", !.password = p])
        PROVE  HandlersTrue'
    <3> DEFINE state == [r EXCEPT !.at = "resume_save_secret", !.password = p]
    <3>1. /\ state.job = r.job /\ state.copy = r.copy /\ state.next = r.next
          /\ state.at # "resume_finish"
      BY <1>2 DEF HandlerState
    <3>2. TrueHandler(state)'
      BY <1>7, <3>1
    <3> QED BY <2>2, <3>2, HandlerGoesTrue
  <2>3. UNCHANGED <<disk, stored, executor>>
    BY <1>11 DEF ResumeLoadSecret, files
  <2>4. HandlersTrue'
    BY <1>1, <1>11, <2>1, <2>2 DEF ResumeLoadSecret
  <2> QED BY <2>3, <2>4, FilesStayTrue, ExecutorsStayTrue
<1>12. CASE ResumeSaveSecret(h)
  <2>1. TrueHandler([r EXCEPT !.at = "resume_save"])'
    <3>1. [r EXCEPT !.at = "resume_save"].at = "resume_save"
      BY <1>2 DEF HandlerState
    <3> QED BY <1>2, <1>7, <3>1 DEF HandlerState
  <2>2. HandlersTrue'
    BY <1>1, <1>12, <2>1, IdleIsTrue, HandlerGoesTrue DEF ResumeSaveSecret
  <2>3. UNCHANGED <<disk, stored, executor>>
    BY <1>12 DEF ResumeSaveSecret, SaveSecret, SaveSecretFails
  <2> QED BY <2>2, <2>3, FilesStayTrue, ExecutorsStayTrue
<1>13. CASE ResumeSave(h)
  <2> DEFINE copy == [r.copy EXCEPT !.status = "running"]
             state == [r EXCEPT !.at = "resume_start", !.copy = copy]
  <2>1. TrueCopy(r.job, copy)'
    <3>1. copy.last = r.copy.last /\ copy.status = "running"
      BY <1>2 DEF JobRecord
    <3> QED BY <1>6, <3>1 DEF TrueCopy
  <2>2. TrueHandler(state)'
    <3>1. /\ state.at = "resume_start" /\ state.job = r.job
          /\ state.copy = copy /\ state.next = r.next
      BY <1>2 DEF HandlerState
    <3> QED BY <1>5, <1>6, <2>1, <3>1 DEF TrueHandler
  <2>3. SaveJob(r.job, copy) \/ SaveJobFails(r.job)
    BY <1>1, <1>13 DEF ResumeSave
  <2>4. FilesTrue'
    BY <1>5, <2>1, <2>3, FilesWrittenTrue
  <2>5. HandlerGoes(h, state) \/ HandlerGoes(h, IdleHandler)
    BY <1>1, <1>13 DEF ResumeSave
  <2>6. HandlersTrue'
    BY <2>2, <2>5, IdleIsTrue, HandlerGoesTrue
  <2>7. ExecutorsTrue'
    BY <1>13, ExecutorsStayTrue DEF ResumeSave
  <2> QED BY <2>4, <2>6, <2>7
<1>14. CASE ResumeStart(h)
  BY <1>1, <1>5, <1>14, LoadAndStartTrue DEF ResumeStart
<1>15. CASE RollbackRun(h)
  <2>1. ASSUME NEW copy, copy.last = r.copy.last, copy.status \in {"failed", "rolled_back"}
        PROVE  TrueHandler([r EXCEPT !.at = "rollback_save", !.copy = copy])'
    <3> DEFINE state == [r EXCEPT !.at = "rollback_save", !.copy = copy]
    <3>1. /\ state.at = "rollback_save" /\ state.job = r.job
          /\ state.copy = copy /\ state.next = r.next
      BY <1>2 DEF HandlerState
    <3>2. TrueCopy(r.job, copy)'
      BY <1>6, <2>1 DEF TrueCopy
    <3> QED BY <1>5, <1>6, <3>1, <3>2 DEF TrueHandler
  <2>2. /\ JobFailed(r.copy).last = r.copy.last
        /\ JobFailed(r.copy).status = "failed"
        /\ JobRolledBack(r.copy).last = r.copy.last
        /\ JobRolledBack(r.copy).status = "rolled_back"
    BY <1>2 DEF JobRecord, JobFailed, JobRolledBack
  <2>3. \/ HandlerGoes(h, [r EXCEPT !.at = "rollback_save", !.copy = JobRolledBack(r.copy)])
        \/ HandlerGoes(h, [r EXCEPT !.at = "rollback_save", !.copy = JobFailed(r.copy)])
    BY <1>1, <1>15 DEF RollbackRun
  <2>4. PICK copy : /\ copy.last = r.copy.last
                    /\ copy.status \in {"failed", "rolled_back"}
                    /\ HandlerGoes(h, [r EXCEPT !.at = "rollback_save", !.copy = copy])
    BY <2>2, <2>3
  <2>5. HandlersTrue'
    BY <2>1, <2>4, HandlerGoesTrue
  <2>6. UNCHANGED <<disk, stored, executor>>
    BY <1>15 DEF RollbackRun, files
  <2> QED BY <2>5, <2>6, FilesStayTrue, ExecutorsStayTrue
<1>16. CASE RollbackSave(h)
  <2>1. SaveJob(r.job, r.copy) \/ SaveJobFails(r.job)
    BY <1>1, <1>16 DEF RollbackSave
  <2>2. FilesTrue'
    BY <1>5, <1>6, <2>1, FilesWrittenTrue
  <2>3. HandlersTrue' /\ ExecutorsTrue'
    BY <1>16, IdleIsTrue, HandlerGoesTrue, ExecutorsStayTrue DEF RollbackSave
  <2> QED BY <2>2, <2>3
<1> QED BY <1>8, <1>9, <1>10, <1>11, <1>12, <1>13, <1>14, <1>15, <1>16 DEF Handle

(* A deployment's id is new, so its request disturbs no other copy.        *)
LEMMA RequestTrue ==
  ASSUME IInv, HistoryKept, NEW h \in Handlers, Request(h)
  PROVE  FilesTrue' /\ HandlersTrue' /\ ExecutorsTrue'
<1>1. CASE DeployRequest(h)
  <2>1. PICK j \in Jobs \ issued, p \in Passwords :
          /\ issued' = issued \cup {j}
          /\ \/ /\ SaveJob(j, NewJob)
                /\ HandlerGoes(h, [IdleHandler EXCEPT !.at = "deploy_secret",
                                                      !.job = j, !.password = p])
             \/ SaveJobFails(j) /\ HandlerGoes(h, IdleHandler)
    BY <1>1 DEF DeployRequest
  <2> DEFINE state == [IdleHandler EXCEPT !.at = "deploy_secret", !.job = j,
                                          !.password = p]
  <2>2. j \in issued'
    BY <2>1
  <2>3. TrueCopy(j, NewJob)' /\ SettledBelow(j, 0)'
    BY DEF NewJob, TrueCopy, SettledBelow
  <2>4. FilesTrue'
    BY <2>1, <2>2, <2>3, FilesWrittenTrue
  <2>5. /\ state.at = "deploy_secret" /\ state.job = j
        /\ state.copy = NewJob /\ state.next = 0
    BY DEF IdleHandler
  <2>6. TrueHandler(state)'
    BY <2>2, <2>3, <2>5 DEF TrueHandler
  <2>7. HandlersTrue'
    BY <2>1, <2>6, IdleIsTrue, HandlerGoesTrue
  <2>8. ExecutorsTrue'
    BY <1>1, ExecutorsStayTrue DEF DeployRequest
  <2> QED BY <2>4, <2>7, <2>8
<1>2. CASE ResumeRequest(h)
  <2>1. PICK j \in Jobs, p \in ResumePasswords, copy \in JobRecord, at \in HandlerPCs :
          /\ Loadable(j) /\ copy = stored[j]
          /\ at = "resume_finish" => StartIndex(copy) >= N
          /\ HandlerGoes(h, [at |-> at, job |-> j, copy |-> copy, password |-> p,
                             next |-> StartIndex(copy)])
    <3>1. PICK j \in Jobs, p \in ResumePasswords :
            /\ Loadable(j)
            /\ HandlerGoes(h,
                 [at |-> IF StartIndex(stored[j]) >= N THEN "resume_finish"
                         ELSE IF p = NoPassword THEN "resume_load_secret"
                         ELSE "resume_save",
                  job |-> j, copy |-> stored[j], password |-> p,
                  next |-> StartIndex(stored[j])])
      BY <1>2 DEF ResumeRequest
    <3>2. PICK at \in HandlerPCs :
                    at = IF StartIndex(stored[j]) >= N THEN "resume_finish"
                         ELSE IF p = NoPassword THEN "resume_load_secret"
                         ELSE "resume_save"
      BY DEF HandlerPCs
    <3>3. at = "resume_finish" => StartIndex(stored[j]) >= N
      BY <3>2
    <3>4. PICK copy \in JobRecord : copy = stored[j]
      BY DEF IInv, TypeInv, TypeOK
    <3> QED BY <3>1, <3>2, <3>3, <3>4
  <2>2. copy \in JobRecord /\ j \in issued /\ j \in issued' /\ TrueCopy(j, copy)
    BY <2>1 DEF Loadable, IInv, FilesTrue, TypeInv, TypeOK, HistoryKept
  <2>3. SettledBelow(j, StartIndex(copy))
    BY <2>2 DEF TrueCopy, StartIndex
  <2>4. StartIndex(copy) \in 0 .. N /\ N \in Nat
    BY <2>2, VerdictTypes, Constants
  <2>5. at = "resume_finish" => SettledBelow(j, N)
    BY <2>1, <2>3, <2>4 DEF SettledBelow
  <2> DEFINE state == [at |-> at, job |-> j, copy |-> copy, password |-> p,
                       next |-> StartIndex(copy)]
  <2>6. TrueHandler(state)
    BY <2>2, <2>3, <2>5 DEF TrueHandler
  <2>7. HandlersTrue'
    BY <2>1, <2>6, TrueHandlerKept, HandlerGoesTrue
  <2>8. UNCHANGED <<disk, stored, executor>>
    BY <1>2 DEF ResumeRequest, files
  <2> QED BY <2>7, <2>8, FilesStayTrue, ExecutorsStayTrue
<1>3. CASE RollbackRequest(h)
  <2>1. PICK j \in Jobs, copy \in JobRecord :
          /\ Loadable(j) /\ copy = stored[j]
          /\ HandlerGoes(h, [IdleHandler EXCEPT !.at = "rollback_run",
                                                !.job = j, !.copy = copy])
    BY <1>3 DEF RollbackRequest, IInv, TypeInv, TypeOK
  <2>2. j \in issued /\ TrueCopy(j, copy)
    BY <2>1 DEF Loadable, IInv, FilesTrue, TypeInv, TypeOK
  <2> DEFINE state == [IdleHandler EXCEPT !.at = "rollback_run", !.job = j, !.copy = copy]
  <2>3. state.at = "rollback_run" /\ state.job = j /\ state.copy = copy /\ state.next = 0
    BY DEF IdleHandler
  <2>4. TrueHandler(state)
    BY <2>2, <2>3 DEF TrueHandler, SettledBelow
  <2>5. HandlersTrue'
    BY <2>1, <2>4, TrueHandlerKept, HandlerGoesTrue
  <2>6. UNCHANGED <<disk, stored, executor>>
    BY <1>3 DEF RollbackRequest, files
  <2> QED BY <2>5, <2>6, FilesStayTrue, ExecutorsStayTrue
<1> QED BY <1>1, <1>2, <1>3 DEF Request

(* A crash leaves the files as they are, or one of them unreadable: that   *)
(* of a job whose id is issued, if only for the write that is torn.        *)
LEMMA CrashLeaves ==
  ASSUME IInv, Crash
  PROVE  /\ UNCHANGED <<stored, ran, inPlace, account>>
         /\ UNCHANGED disk \/ \E j \in Jobs \cap issued' : disk' = [disk EXCEPT ![j] = "corrupt"]
         /\ \A j \in Jobs : disk'[j] # "corrupt" => disk'[j] = disk[j] /\ spec'[j] = spec[j]
<1>1. UNCHANGED <<stored, ran, inPlace, account>>
  BY DEF Crash, files, hosts
<1>2. disk \in [Jobs -> {"absent", "corrupt", "intact"}] /\ spec \in [Jobs -> Specs]
  BY DEF IInv, TypeInv, TypeOK
<1>3. CASE UNCHANGED <<issued, spec, disk>>
  BY <1>1, <1>3
<1>4. ASSUME NEW j \in Jobs, WritingJob(j), disk' = [disk EXCEPT ![j] = "corrupt"],
             UNCHANGED <<issued, spec>>
      PROVE  j \in issued'
  BY <1>4 DEF WritingJob, IInv, HandlersTrue, ExecutorsTrue, TrueHandler, TrueExecutor
<1>5. ASSUME NEW j \in Jobs, NEW s, disk' = [disk EXCEPT ![j] = "corrupt"],
             UNCHANGED spec \/ spec' = [spec EXCEPT ![j] = s], NEW k \in Jobs,
             disk'[k] # "corrupt"
      PROVE  disk'[k] = disk[k] /\ spec'[k] = spec[k]
  BY <1>2, <1>5
<1>6. ASSUME NEW j \in Jobs, WritingJob(j), disk' = [disk EXCEPT ![j] = "corrupt"],
             UNCHANGED <<issued, spec>>
      PROVE  /\ \E k \in Jobs \cap issued' : disk' = [disk EXCEPT ![k] = "corrupt"]
             /\ \A k \in Jobs : disk'[k] # "corrupt" => disk'[k] = disk[k] /\ spec'[k] = spec[k]
  BY <1>2, <1>4, <1>6
<1>7. ASSUME NEW j \in Jobs \ issued, NEW s \in Specs, issued' = issued \cup {j},
             spec' = [spec EXCEPT ![j] = s], disk' = [disk EXCEPT ![j] = "corrupt"]
      PROVE  /\ \E k \in Jobs \cap issued' : disk' = [disk EXCEPT ![k] = "corrupt"]
             /\ \A k \in Jobs : disk'[k] # "corrupt" => disk'[k] = disk[k] /\ spec'[k] = spec[k]
  BY <1>2, <1>7
<1> QED BY <1>1, <1>3, <1>6, <1>7 DEF Crash, files

LEMMA CrashTrue ==
  ASSUME IInv, HistoryKept, Crash
  PROVE  FilesTrue' /\ HandlersTrue' /\ ExecutorsTrue'
<1>1. HandlersTrue' /\ ExecutorsTrue'
  BY DEF Crash, HandlersTrue, ExecutorsTrue, TrueHandler, TrueExecutor,
         IdleHandler, IdleExecutor
<1>2. CASE UNCHANGED disk
  BY <1>1, <1>2, CrashLeaves, FilesStayTrue
<1>3. ASSUME NEW j \in Jobs \cap issued', disk' = [disk EXCEPT ![j] = "corrupt"]
      PROVE  FilesTrue'
  <2>1. disk \in [Jobs -> {"absent", "corrupt", "intact"}] /\ UNCHANGED stored
    BY CrashLeaves DEF IInv, TypeInv, TypeOK
  <2>2. SUFFICES ASSUME NEW k \in Jobs
                 PROVE  /\ disk'[k] # "absent" => k \in issued'
                        /\ disk'[k] = "intact" => TrueCopy(k, stored[k])'
    BY DEF FilesTrue
  <2>3. CASE k = j
    BY <1>3, <2>1, <2>3
  <2>4. CASE k # j
    <3>1. disk'[k] = disk[k]
      BY <1>3, <2>1, <2>4
    <3>2. disk[k] # "absent" => k \in issued /\ k \in issued'
      BY DEF IInv, FilesTrue, HistoryKept
    <3>3. ASSUME disk[k] = "intact"
          PROVE  TrueCopy(k, stored[k])'
      <4>1. k \in issued /\ TrueCopy(k, stored[k])
        BY <3>2, <3>3 DEF IInv, FilesTrue
      <4>2. \A copy : TrueCopy(k, copy) => TrueCopy(k, copy)'
        BY <4>1, TrueCopyKept
      <4> QED BY <2>1, <4>1, <4>2 DEF TrueCopy, SettledBelow
    <3> QED BY <3>1, <3>2, <3>3
  <2> QED BY <2>3, <2>4
<1> QED BY <1>1, <1>2, <1>3, CrashLeaves

LEMMA IInvStep ==
  ASSUME IInv, [Next]_vars
  PROVE  IInv'
<1>1. TypeInv' /\ HistoryKept
  BY TypeStep, HistoryIsKept DEF IInv
<1>2. CASE UNCHANGED vars
  BY <1>1, <1>2, FilesStayTrue, HandlersStayTrue, ExecutorsStayTrue DEF vars, files, IInv
<1> QED BY <1>1, <1>2, ExecuteTrue, HandleTrue, RequestTrue, CrashTrue DEF Next, IInv

LEMMA IInvInit ==
  ASSUME Init
  PROVE  IInv
BY TypeInit DEF Init, IInv, FilesTrue, HandlersTrue, ExecutorsTrue, TrueHandler,
                TrueExecutor, IdleHandler, IdleExecutor

LEMMA IInvHolds == Spec => []IInv
BY IInvInit, IInvStep, PTL DEF Spec

(* Whatever requests, executors, failed writes and crashes do to each      *)
(* other, the job file never counts a step that did not succeed once or is *)
(* skipped: a resume starts past settled steps only.                       *)
THEOREM ProgressIsReal == Spec => []PersistedProgressIsReal
<1>1. IInv => PersistedProgressIsReal
  <2>1. SUFFICES ASSUME IInv, NEW j \in Jobs, disk[j] = "intact",
                        NEW i \in 0 .. stored[j].last
                 PROVE  Settled(j, i)
    BY DEF PersistedProgressIsReal
  <2>2. SettledBelow(j, stored[j].last + 1) /\ stored[j].last \in Int
    BY <2>1, Constants DEF IInv, FilesTrue, TrueCopy, TypeInv, TypeOK, JobRecord
  <2> QED BY <2>1, <2>2 DEF SettledBelow
<1> QED BY <1>1, IInvHolds, PTL

(* A job is shown as completed only when each of its steps succeeded once  *)
(* or is skipped, also after Resume completed it without running anything. *)
THEOREM CompletionIsReal == Spec => []CompletedJobsSettledEveryStep
<1>1. IInv => CompletedJobsSettledEveryStep
  BY DEF IInv, FilesTrue, TrueCopy, CompletedJobsSettledEveryStep, Intact, SettledBelow
<1> QED BY <1>1, IInvHolds, PTL
=============================================================================
