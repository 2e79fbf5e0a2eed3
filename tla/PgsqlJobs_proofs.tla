-------------------------- MODULE PgsqlJobs_proofs --------------------------
(***************************************************************************)
(* Theorems about PgsqlJobs, for every step table, set of jobs, requests,  *)
(* handlers, executors and bound.                                          *)
(*                                                                         *)
(* The argument is that of MySQLJobs_proofs: every copy of a job, in its    *)
(* file, in a handler or in an executor, only claims steps that are settled *)
(* when the copy is made or changed, and settled steps stay settled.  The   *)
(* nodes and their tasks do not enter it, beyond their types.              *)
(***************************************************************************)
EXTENDS PgsqlJobs, TLAPS

(* The executor's index is inside the table while it has a step in hand. *)
TypeInv ==
  /\ TypeOK
  /\ \A x \in Executors :
       executor[x].at \in {"run", "succeeded", "failed"} => executor[x].i < N

SettledBelow(j, k) == \A i \in 0 .. k - 1 : Settled(j, i)

(* What a copy of job j claims is true. *)
TrueCopy(j, copy) ==
  /\ SettledBelow(j, copy.last + 1)
  /\ copy.status = "completed" => SettledBelow(j, N)

FilesTrue ==
  \A j \in Jobs :
    /\ disk[j] # "absent" => j \in issued
    /\ disk[j] = "intact" => TrueCopy(j, stored[j])

TrueHandler(r) == r.at # "idle" =>
  /\ r.job \in issued
  /\ TrueCopy(r.job, r.copy)
  /\ SettledBelow(r.job, r.next)
  /\ r.at = "resume_finish" => SettledBelow(r.job, N)

TrueExecutor(e) == e.at # "idle" =>
  /\ e.job \in issued
  /\ TrueCopy(e.job, e.copy)
  /\ SettledBelow(e.job, e.i)
  /\ e.at = "succeeded" => e.i \in ran[e.job]

HandlersTrue == \A h \in Handlers : TrueHandler(handler[h])
ExecutorsTrue == \A x \in Executors : TrueExecutor(executor[x])

IInv == TypeInv /\ FilesTrue /\ HandlersTrue /\ ExecutorsTrue

-----------------------------------------------------------------------------
(* The bounds of the table and the values the state starts from. *)
LEMMA Constants ==
  /\ N \in Nat
  /\ AnyJob \in Jobs /\ AnySpec \in Specs
  /\ NewJob \in JobRecord
  /\ IdleHandler \in HandlerState /\ IdleExecutor \in ExecutorState
<1>1. N \in Nat
  BY TableAssumption DEF N
<1>2. AnyJob \in Jobs /\ AnySpec \in Specs
  BY JobAssumption, ParameterAssumption DEF AnyJob, AnySpec
<1>3. NewJob \in JobRecord
  BY <1>1 DEF NewJob, JobRecord, Statuses, NoStep
<1>4. IdleHandler \in HandlerState /\ IdleExecutor \in ExecutorState
  BY <1>1, <1>2, <1>3
  DEF IdleHandler, IdleExecutor, HandlerState, ExecutorState, HandlerPCs, ExecutorPCs,
      Secrets, MaybePassword, NoSecret, MostTasks
<1> QED BY <1>1, <1>2, <1>3, <1>4

(* What requests bring, files hold and Resume puts together are passwords   *)
(* of the three accounts.                                                  *)
LEMMA SecretTypes ==
  /\ NoSecret \in Secrets /\ DeploySecrets \subseteq Secrets
  /\ ResumeSecrets \subseteq Secrets /\ [Accounts -> Passwords] \subseteq Secrets
  /\ \A given, others \in Secrets : Filled(given, others) \in Secrets
<1>1. [Accounts -> Passwords] \subseteq Secrets
  BY DEF Secrets, MaybePassword
<1>2. NoSecret \in Secrets
  BY DEF NoSecret, Secrets, MaybePassword
<1>3. \A given, others \in Secrets : Filled(given, others) \in Secrets
  BY DEF Filled, Secrets
<1> QED BY <1>1, <1>2, <1>3, ParameterAssumption

(* No step has more tasks than an executor's index can count.              *)
LEMMA TaskCount ==
  ASSUME NEW name
  PROVE  Len(TasksOf(name)) \in 0 .. MostTasks
BY DEF TasksOf, MostTasks

(* The nodes keep their type through every task.                           *)
LEMMA TaskTypes ==
  ASSUME NEW c \in Cluster, NEW task, NEW due \in BOOLEAN, NEW name,
         NEW run, run.job \in Jobs, run.secret \in Secrets
  PROVE  TaskDone(task, DirectoryOf(name), due, c, run) \in Cluster
<1> DEFINE d == DirectoryOf(name)
<1>1. d \in Directories
  BY DEF DirectoryOf, Directories, Nodes
<1> HIDE DEF d
<1>2. Wiped(d, c) \in Cluster
  <2>1. [c.data EXCEPT ![d] = NoJob] \in [Nodes -> MaybeJob] /\ NoJob \in MaybeJob
    BY DEF Cluster, MaybeJob
  <2> QED BY <2>1 DEF Wiped, Cluster
<1>3. Marked(d, c, run) \in Cluster
  <2> DEFINE counted == [c EXCEPT !.resets[run.job][d] = @ + 1]
  <2>1. counted \in Cluster
    <3>1. c.resets[run.job] \in [Directories -> Nat]
      BY DEF Cluster
    <3> DEFINE resets == [c.resets[run.job] EXCEPT ![d] = @ + 1]
    <3>2. resets \in [Directories -> Nat]
      BY <1>1, <3>1
    <3>3. counted = [c EXCEPT !.resets = [@ EXCEPT ![run.job] = resets]]
      OBVIOUS
    <3> HIDE DEF resets, counted
    <3> QED BY <3>2, <3>3 DEF Cluster
  <2> HIDE DEF counted
  <2>2. [counted EXCEPT !.etcd = run.job] \in Cluster
    BY <2>1 DEF Cluster, MaybeJob
  <2>3. [counted EXCEPT !.marked[d] = @ \cup {run.job}] \in Cluster
    BY <2>1 DEF Cluster
  <2> QED BY <2>2, <2>3 DEF Marked, counted
<1>4. Configured(d, c, run) \in Cluster
  BY <1>1 DEF Configured, Cluster, Directories
<1>5. PrimaryStarted(c, run) \in Cluster
  BY DEF PrimaryStarted, Cluster, Nodes, MaybeJob
<1>6. StandbyStarted(c, run) \in Cluster
  BY DEF StandbyStarted, Cluster, Nodes
<1>7. /\ [c EXCEPT !.running = FALSE] \in Cluster
      /\ [c EXCEPT !.running = TRUE] \in Cluster
  BY DEF Cluster
<1> QED BY <1>2, <1>3, <1>4, <1>5, <1>6, <1>7 DEF TaskDone, d

(* The types of the variables the store and the bounds own. *)
StoreTypeOK ==
  /\ disk \in [Jobs -> {"absent", "corrupt", "intact"}]
  /\ stored \in [Jobs -> JobRecord]
  /\ secretFile \in [Jobs -> Secrets]
  /\ used \in [resumes : Nat, faults : Nat, secretFaults : Nat, crashes : Nat]

LEMMA SaveJobTypes ==
  ASSUME TypeOK, NEW j \in Jobs, NEW copy \in JobRecord,
         SaveJob(j, copy) \/ SaveJobFails(j)
  PROVE  StoreTypeOK'
BY DEF TypeOK, StoreTypeOK, SaveJob, SaveJobFails, Fault

LEMMA SaveSecretTypes ==
  ASSUME TypeOK, NEW j \in Jobs, NEW p \in Secrets,
         SaveSecret(j, p) \/ SaveSecretFails(j)
  PROVE  StoreTypeOK'
BY SecretTypes DEF TypeOK, StoreTypeOK, SaveSecret, SaveSecretFails, SecretFault

LEMMA CopyTypes ==
  ASSUME NEW copy \in JobRecord, NEW i \in 0 .. N - 1
  PROVE  /\ StepSkipped(copy, i) \in JobRecord
         /\ StepEntered(copy, i) \in JobRecord
         /\ StepRecorded(copy, i) \in JobRecord
<1>1. i \in -1 .. N - 1
  BY Constants
<1> QED BY <1>1 DEF JobRecord, StepSkipped, StepEntered, StepRecorded

LEMMA VerdictTypes ==
  ASSUME NEW copy \in JobRecord
  PROVE  /\ JobFailed(copy) \in JobRecord
         /\ JobCompleted(copy) \in JobRecord
         /\ [copy EXCEPT !.status = "running"] \in JobRecord
         /\ [copy EXCEPT !.status = "completed"] \in JobRecord
         /\ StartIndex(copy) \in 0 .. N
<1>1. -1 \in -1 .. N - 1
  BY Constants
<1>2. JobFailed(copy) \in JobRecord
  BY DEF JobRecord, Statuses, JobFailed
<1>3. JobCompleted(copy) \in JobRecord
  BY <1>1 DEF JobRecord, Statuses, JobCompleted, NoStep
<1>5. /\ [copy EXCEPT !.status = "running"] \in JobRecord
      /\ [copy EXCEPT !.status = "completed"] \in JobRecord
  BY DEF JobRecord, Statuses
<1>6. copy.last \in -1 .. N - 1
  BY DEF JobRecord
<1>7. StartIndex(copy) \in 0 .. N
  BY <1>6, Constants DEF StartIndex
<1> QED BY <1>2, <1>3, <1>5, <1>7

-----------------------------------------------------------------------------
(* Type correctness, one lemma for each process. *)

ExecutorTypeOK ==
  /\ executor \in [Executors -> ExecutorState]
  /\ \A x \in Executors :
       executor[x].at \in {"run", "succeeded", "failed"} => executor[x].i < N

LEMMA ExecutorGoesTypes ==
  ASSUME TypeInv, NEW x \in Executors, NEW state \in ExecutorState,
         state.at \in {"run", "succeeded", "failed"} => state.i < N,
         ExecutorGoes(x, state)
  PROVE  ExecutorTypeOK'
BY DEF TypeInv, TypeOK, ExecutorTypeOK, ExecutorGoes

LEMMA ExecutorSavesTypes ==
  ASSUME TypeInv, NEW x \in Executors, NEW copy \in JobRecord,
         NEW state \in ExecutorState,
         state.at \in {"run", "succeeded", "failed"} => state.i < N,
         ExecutorSaves(x, copy, state), UNCHANGED hosts
  PROVE  TypeInv'
<1>1. executor[x].job \in Jobs
  BY DEF TypeInv, TypeOK, ExecutorState
<1>2. StoreTypeOK'
  BY <1>1, SaveJobTypes DEF ExecutorSaves, TypeInv
<1>3. ExecutorGoes(x, state) \/ ExecutorGoes(x, IdleExecutor)
  BY DEF ExecutorSaves
<1>4. ExecutorTypeOK'
  BY <1>3, ExecutorGoesTypes, Constants DEF IdleExecutor
<1>5. UNCHANGED <<issued, spec, handler, cluster, ran>>
  BY <1>3 DEF ExecutorGoes, hosts
<1> QED BY <1>2, <1>4, <1>5 DEF TypeInv, TypeOK, StoreTypeOK, ExecutorTypeOK

LEMMA ExecuteTypes ==
  ASSUME TypeInv, NEW x \in Executors, Execute(x)
  PROVE  TypeInv'
<1> DEFINE e == executor[x]
<1>1. /\ e \in ExecutorState /\ e.job \in Jobs /\ e.copy \in JobRecord
      /\ e.i \in 0 .. N /\ e.secret \in Secrets
      /\ e.task \in 0 .. MostTasks /\ e.due \in BOOLEAN
  BY DEF TypeInv, TypeOK, ExecutorState
<1>2. N \in Nat
  BY Constants
<1>3. CASE SkipStep(x)
  <2>1. e.i \in 0 .. N - 1 /\ e.i + 1 \in 0 .. N
    BY <1>1, <1>2, <1>3 DEF SkipStep
  <2>2. StepSkipped(e.copy, e.i) \in JobRecord
    BY <1>1, <2>1, CopyTypes
  <2> DEFINE state == [e EXCEPT !.copy = StepSkipped(e.copy, e.i), !.i = e.i + 1]
  <2>3. state \in ExecutorState /\ state.at = "loop"
    BY <1>1, <1>3, <2>1, <2>2 DEF ExecutorState, SkipStep
  <2> QED BY <1>3, <2>2, <2>3, ExecutorSavesTypes DEF SkipStep
<1>4. CASE BeginStep(x)
  <2>1. e.i \in 0 .. N - 1
    BY <1>1, <1>2, <1>4 DEF BeginStep
  <2>2. StepEntered(e.copy, e.i) \in JobRecord
    BY <1>1, <2>1, CopyTypes
  <2> DEFINE state == [e EXCEPT !.copy = StepEntered(e.copy, e.i), !.at = "run"]
  <2>3. state \in ExecutorState /\ state.i = e.i
    BY <1>1, <2>2 DEF ExecutorState, ExecutorPCs
  <2>4. state.i < N
    BY <1>2, <2>1, <2>3
  <2> QED BY <1>4, <2>2, <2>3, <2>4, ExecutorSavesTypes DEF BeginStep
<1>5. CASE RunTask(x)
  <2> DEFINE name == NameAt(e)
             task == TasksOf(name)[e.task + 1]
             due == IF task = "look" THEN MustReset(DirectoryOf(name), cluster, RunOf(e))
                                     ELSE e.due
             state == [e EXCEPT !.task = @ + 1, !.due = due]
  <2>1. e.at = "run" /\ e.i < N /\ e.task + 1 \in 0 .. MostTasks
    <3>1. e.task < Len(TasksOf(name)) /\ e.at = "run"
      BY <1>5 DEF RunTask
    <3>2. Len(TasksOf(name)) \in 0 .. MostTasks
      BY TaskCount
    <3> DEFINE length == Len(TasksOf(name))
    <3>3. length \in 0 .. MostTasks /\ e.task < length
      BY <3>1, <3>2
    <3>4. e.i < N
      BY <3>1 DEF TypeInv
    <3> HIDE DEF length, name
    <3>5. e.task + 1 \in 0 .. MostTasks
      BY <1>1, <3>3 DEF MostTasks
    <3> QED BY <3>1, <3>4, <3>5
  <2>2. due \in BOOLEAN
    BY <1>1 DEF MustReset
  <2> HIDE DEF due
  <2>3. state \in ExecutorState /\ state.i < N
    BY <1>1, <2>1, <2>2 DEF ExecutorState
  <2>4. ExecutorGoes(x, state)
    BY <1>5 DEF RunTask, due
  <2>5. ExecutorTypeOK'
    BY <2>3, <2>4, ExecutorGoesTypes
  <2>6. cluster' \in Cluster
    <3>1. cluster \in Cluster
      BY DEF TypeInv, TypeOK
    <3>2. RunOf(e).job \in Jobs /\ RunOf(e).secret \in Secrets
      BY <1>1 DEF RunOf, RunConfig
    <3>3. TaskDone(task, DirectoryOf(name), e.due, cluster, RunOf(e)) \in Cluster
      BY <1>1, <3>1, <3>2, TaskTypes
    <3> QED BY <1>5, <3>3 DEF RunTask
  <2> QED BY <1>5, <2>4, <2>5, <2>6
          DEF RunTask, ExecutorGoes, files, TypeInv, TypeOK, ExecutorTypeOK
<1>6. ASSUME NEW outcome \in {"succeeded", "failed"}, e.at = "run",
             PlaybookEnds(x, outcome)
      PROVE  ExecutorTypeOK'
  <2> DEFINE state == [e EXCEPT !.at = outcome, !.task = 0, !.due = FALSE]
  <2>1. e.i < N
    BY <1>6 DEF TypeInv
  <2>2. outcome \in ExecutorPCs /\ 0 \in 0 .. MostTasks
    BY <1>6 DEF ExecutorPCs, MostTasks
  <2>3. state \in ExecutorState /\ state.i < N
    BY <1>1, <2>1, <2>2 DEF ExecutorState
  <2> QED BY <1>6, <2>3, ExecutorGoesTypes DEF PlaybookEnds
<1>7. CASE StepSucceeds(x)
  <2>1. e.i \in 0 .. N - 1
    BY <1>1, <1>2, <1>7 DEF StepSucceeds, TypeInv
  <2>2. ran' \in [Jobs -> SUBSET (0 .. N - 1)]
    BY <1>1, <1>7, <2>1 DEF StepSucceeds, TypeInv, TypeOK
  <2>3. ExecutorTypeOK'
    BY <1>6, <1>7 DEF StepSucceeds
  <2> QED BY <1>7, <2>2, <2>3
          DEF StepSucceeds, PlaybookEnds, ExecutorGoes, files, TypeInv, TypeOK,
              ExecutorTypeOK
<1>8. CASE StepFails(x)
  <2>1. ExecutorTypeOK'
    BY <1>6, <1>8 DEF StepFails
  <2> QED BY <1>8, <2>1
          DEF StepFails, PlaybookEnds, ExecutorGoes, files, hosts, TypeInv, TypeOK,
              ExecutorTypeOK
<1>9. CASE RecordSuccess(x)
  <2>1. e.i \in 0 .. N - 1 /\ e.i + 1 \in 0 .. N
    BY <1>1, <1>2, <1>9 DEF RecordSuccess, TypeInv
  <2>2. StepRecorded(e.copy, e.i) \in JobRecord
    BY <1>1, <2>1, CopyTypes
  <2> DEFINE state == [e EXCEPT !.copy = StepRecorded(e.copy, e.i), !.i = e.i + 1,
                                !.at = "loop"]
  <2>3. state \in ExecutorState /\ state.at = "loop"
    BY <1>1, <2>1, <2>2 DEF ExecutorState, ExecutorPCs
  <2> QED BY <1>9, <2>2, <2>3, ExecutorSavesTypes DEF RecordSuccess
<1>10. CASE RecordFailure(x)
  BY <1>1, <1>10, VerdictTypes, Constants, ExecutorSavesTypes
  DEF RecordFailure, IdleExecutor
<1>11. CASE CompleteJob(x)
  BY <1>1, <1>11, VerdictTypes, Constants, ExecutorSavesTypes
  DEF CompleteJob, IdleExecutor
<1> QED BY <1>3, <1>4, <1>5, <1>7, <1>8, <1>9, <1>10, <1>11 DEF Execute

LEMMA HandlerGoesTypes ==
  ASSUME TypeInv, NEW h \in Handlers, NEW state \in HandlerState,
         HandlerGoes(h, state)
  PROVE  handler' \in [Handlers -> HandlerState]
BY DEF TypeInv, TypeOK, HandlerGoes

LEMMA LoadAndStartTypes ==
  ASSUME TypeInv, NEW h \in Handlers, NEW from \in 0 .. N, LoadAndStart(h, from)
  PROVE  TypeInv'
<1> DEFINE r == handler[h]
<1>1. r \in HandlerState /\ r.job \in Jobs /\ r.secret \in Secrets
  BY DEF TypeInv, TypeOK, HandlerState
<1>2. handler' \in [Handlers -> HandlerState]
  BY Constants, HandlerGoesTypes DEF LoadAndStart
<1>3. ExecutorTypeOK'
  <2>1. CASE UNCHANGED executor
    BY <2>1 DEF ExecutorTypeOK, TypeInv, TypeOK
  <2>2. CASE StartExecutor(r.job, from, r.secret)
    <3>1. PICK x \in Executors : executor' = [executor EXCEPT ![x] =
            [at |-> "loop", job |-> r.job, copy |-> stored[r.job],
             secret |-> r.secret, i |-> from, task |-> 0, due |-> FALSE]]
      BY <2>2 DEF StartExecutor
    <3>2. [at |-> "loop", job |-> r.job, copy |-> stored[r.job],
           secret |-> r.secret, i |-> from, task |-> 0, due |-> FALSE] \in ExecutorState
      BY <1>1 DEF ExecutorState, ExecutorPCs, MostTasks, TypeInv, TypeOK
    <3> QED BY <3>1, <3>2 DEF ExecutorTypeOK, TypeInv, TypeOK
  <2> QED BY <2>1, <2>2 DEF LoadAndStart
<1>4. used' \in [resumes : Nat, faults : Nat, secretFaults : Nat, crashes : Nat]
  <2>1. UNCHANGED used \/ Fault
    BY DEF LoadAndStart, JobNotRead
  <2> QED BY <2>1 DEF Fault, TypeInv, TypeOK
<1> QED BY <1>2, <1>3, <1>4 DEF LoadAndStart, TypeInv, TypeOK, ExecutorTypeOK, files, hosts

LEMMA HandleTypes ==
  ASSUME TypeInv, NEW h \in Handlers, Handle(h)
  PROVE  TypeInv'
<1> DEFINE r == handler[h]
<1>1. /\ r \in HandlerState /\ r.job \in Jobs /\ r.copy \in JobRecord
      /\ r.secret \in Secrets /\ r.next \in 0 .. N
  BY DEF TypeInv, TypeOK, HandlerState
<1>2. [r EXCEPT !.at = "deploy_start"] \in HandlerState
      /\ [r EXCEPT !.at = "resume_save"] \in HandlerState
  BY <1>1 DEF HandlerState, HandlerPCs
<1>3. CASE DeploySecret(h)
  <2>1. StoreTypeOK'
    BY <1>1, <1>3, SaveSecretTypes DEF DeploySecret, TypeInv
  <2>2. handler' \in [Handlers -> HandlerState]
    BY <1>2, <1>3, Constants, HandlerGoesTypes DEF DeploySecret
  <2> QED BY <1>3, <2>1, <2>2 DEF DeploySecret, StoreTypeOK, TypeInv, TypeOK, hosts
<1>4. CASE DeployStart(h)
  <2>1. 0 \in 0 .. N
    BY Constants
  <2> QED BY <1>4, <2>1, LoadAndStartTypes DEF DeployStart
<1>5. CASE ResumeFinish(h)
  <2>1. StoreTypeOK'
    BY <1>1, <1>5, SaveJobTypes, VerdictTypes DEF ResumeFinish, TypeInv
  <2>2. handler' \in [Handlers -> HandlerState]
    BY <1>5, Constants, HandlerGoesTypes DEF ResumeFinish
  <2> QED BY <1>5, <2>1, <2>2 DEF ResumeFinish, StoreTypeOK, TypeInv, TypeOK, hosts
<1>6. CASE ResumeLoadSecret(h)
  <2>1. PICK p \in Secrets :
          HandlerGoes(h, [r EXCEPT !.at = "resume_save_secret", !.secret = p])
    <3>1. PICK others \in Secrets :
            HandlerGoes(h, [r EXCEPT !.at = "resume_save_secret",
                                     !.secret = Filled(@, others)])
      BY <1>1, <1>6, SecretTypes DEF ResumeLoadSecret, TypeInv, TypeOK
    <3>2. Filled(r.secret, others) \in Secrets
      BY <1>1, SecretTypes
    <3> QED BY <3>1, <3>2
  <2>2. [r EXCEPT !.at = "resume_save_secret", !.secret = p] \in HandlerState
    BY <1>1 DEF HandlerState, HandlerPCs
  <2>3. handler' \in [Handlers -> HandlerState]
    BY <2>1, <2>2, HandlerGoesTypes
  <2>4. used' \in [resumes : Nat, faults : Nat, secretFaults : Nat, crashes : Nat]
    <3>1. UNCHANGED used \/ SecretFault
      BY <1>6 DEF ResumeLoadSecret, SecretNotRead
    <3> QED BY <3>1 DEF SecretFault, TypeInv, TypeOK
  <2> QED BY <1>6, <2>3, <2>4 DEF ResumeLoadSecret, TypeInv, TypeOK, hosts, files
<1>7. CASE ResumeSaveSecret(h)
  <2>1. StoreTypeOK'
    BY <1>1, <1>7, SaveSecretTypes DEF ResumeSaveSecret, TypeInv
  <2>2. handler' \in [Handlers -> HandlerState]
    BY <1>2, <1>7, Constants, HandlerGoesTypes DEF ResumeSaveSecret
  <2> QED BY <1>7, <2>1, <2>2 DEF ResumeSaveSecret, StoreTypeOK, TypeInv, TypeOK, hosts
<1>8. CASE ResumeSave(h)
  <2> DEFINE copy == [r.copy EXCEPT !.status = "running"]
  <2>1. copy \in JobRecord
    BY <1>1, VerdictTypes
  <2>2. [r EXCEPT !.at = "resume_start", !.copy = copy] \in HandlerState
    BY <1>1, <2>1 DEF HandlerState, HandlerPCs
  <2>3. StoreTypeOK'
    BY <1>1, <1>8, <2>1, SaveJobTypes DEF ResumeSave, TypeInv
  <2>4. handler' \in [Handlers -> HandlerState]
    BY <1>8, <2>2, Constants, HandlerGoesTypes DEF ResumeSave
  <2> QED BY <1>8, <2>3, <2>4 DEF ResumeSave, StoreTypeOK, TypeInv, TypeOK, hosts
<1>9. CASE ResumeStart(h)
  BY <1>1, <1>9, LoadAndStartTypes DEF ResumeStart
<1> QED BY <1>3, <1>4, <1>5, <1>6, <1>7, <1>8, <1>9 DEF Handle

LEMMA RequestTypes ==
  ASSUME TypeInv, NEW h \in Handlers, Request(h)
  PROVE  TypeInv'
<1>1. CASE DeployRequest(h)
  <2>1. PICK j \in Jobs \ issued, s \in Specs, p \in DeploySecrets :
          /\ issued' = issued \cup {j}
          /\ spec' = [spec EXCEPT ![j] = s]
          /\ \/ /\ SaveJob(j, NewJob)
                /\ HandlerGoes(h, [IdleHandler EXCEPT !.at = "deploy_secret",
                                                      !.job = j, !.secret = p])
             \/ SaveJobFails(j) /\ HandlerGoes(h, IdleHandler)
    BY <1>1 DEF DeployRequest
  <2>2. StoreTypeOK'
    BY <2>1, Constants, SaveJobTypes DEF TypeInv
  <2>3. [IdleHandler EXCEPT !.at = "deploy_secret", !.job = j, !.secret = p]
          \in HandlerState
    BY Constants, SecretTypes DEF HandlerState, HandlerPCs
  <2>4. handler' \in [Handlers -> HandlerState]
    BY <2>1, <2>3, Constants, HandlerGoesTypes
  <2>5. issued' \subseteq Jobs /\ spec' \in [Jobs -> Specs]
    BY <2>1 DEF TypeInv, TypeOK
  <2> QED BY <1>1, <2>2, <2>4, <2>5
          DEF DeployRequest, StoreTypeOK, TypeInv, TypeOK, hosts
<1>2. CASE ResumeRequest(h)
  <2>1. PICK j \in Jobs, p \in ResumeSecrets :
          HandlerGoes(h,
            [at |-> IF StartIndex(stored[j]) >= N THEN "resume_finish"
                    ELSE IF \E a \in Accounts : p[a] = NoPassword THEN "resume_load_secret"
                    ELSE "resume_save_secret",
             job |-> j, copy |-> stored[j], secret |-> p,
             next |-> StartIndex(stored[j])])
    BY <1>2 DEF ResumeRequest
  <2> DEFINE at == IF StartIndex(stored[j]) >= N THEN "resume_finish"
                   ELSE IF \E a \in Accounts : p[a] = NoPassword THEN "resume_load_secret"
                   ELSE "resume_save_secret"
  <2>2. at \in HandlerPCs
    BY DEF HandlerPCs
  <2>3. stored[j] \in JobRecord
    BY DEF TypeInv, TypeOK
  <2>4. StartIndex(stored[j]) \in 0 .. N /\ p \in Secrets
    BY <2>3, VerdictTypes, SecretTypes
  <2> HIDE DEF at
  <2>5. [at |-> at, job |-> j, copy |-> stored[j], secret |-> p,
         next |-> StartIndex(stored[j])] \in HandlerState
    BY <2>2, <2>3, <2>4 DEF HandlerState
  <2>6. handler' \in [Handlers -> HandlerState]
    BY <2>1, <2>5, HandlerGoesTypes DEF at
  <2>7. used' \in [resumes : Nat, faults : Nat, secretFaults : Nat, crashes : Nat]
    BY <1>2 DEF ResumeRequest, TypeInv, TypeOK
  <2> QED BY <1>2, <2>6, <2>7 DEF ResumeRequest, TypeInv, TypeOK, files, hosts
<1> QED BY <1>1, <1>2 DEF Request

LEMMA CrashTypes ==
  ASSUME TypeInv, Crash
  PROVE  TypeInv'
<1>1. handler' \in [Handlers -> HandlerState]
  BY Constants DEF Crash
<1>2. ExecutorTypeOK'
  BY Constants DEF Crash, ExecutorTypeOK, IdleExecutor
<1>3. StoreTypeOK' /\ issued' \subseteq Jobs /\ spec' \in [Jobs -> Specs]
  BY SecretTypes DEF Crash, CrashTears, files, StoreTypeOK, TypeInv, TypeOK
<1> QED BY <1>1, <1>2, <1>3 DEF Crash, hosts, TypeInv, TypeOK, StoreTypeOK, ExecutorTypeOK

LEMMA TypeStep ==
  ASSUME TypeInv, [Next]_vars
  PROVE  TypeInv'
<1>1. CASE UNCHANGED vars
  BY <1>1 DEF vars, files, hosts, TypeInv, TypeOK
<1> QED BY <1>1, ExecuteTypes, HandleTypes, RequestTypes, CrashTypes DEF Next

LEMMA TypeInit ==
  ASSUME Init
  PROVE  TypeInv
<1>1. [resumes |-> 0, faults |-> 0, secretFaults |-> 0, crashes |-> 0]
        \in [resumes : Nat, faults : Nat, secretFaults : Nat, crashes : Nat]
  OBVIOUS
<1>2. FreshNodes \in Cluster
  BY SecretTypes DEF FreshNodes, Cluster, MaybeJob
<1>3. secretFile \in [Jobs -> Secrets]
  BY SecretTypes DEF Init
<1> QED BY <1>1, <1>2, <1>3, Constants DEF Init, TypeInv, TypeOK, IdleExecutor

(* Every variable keeps its type, and an executor that has a step in hand  *)
(* is inside the step table.                                               *)
THEOREM TypeCorrect == Spec => []TypeOK
<1>1. Spec => []TypeInv
  BY TypeInit, TypeStep, PTL DEF Spec
<1>2. TypeInv => TypeOK
  BY DEF TypeInv
<1> QED BY <1>1, <1>2, PTL

-----------------------------------------------------------------------------
(* Settled steps stay settled: the history of a job only grows, and its    *)
(* request never changes once its id is issued.                            *)

HistoryKept ==
  /\ issued \subseteq issued'
  /\ \A j \in issued : spec'[j] = spec[j] /\ ran[j] \subseteq ran'[j]

LEMMA HistoryIsKept ==
  ASSUME TypeInv, [Next]_vars
  PROVE  HistoryKept
<1>1. CASE UNCHANGED <<issued, spec, ran>>
  BY <1>1 DEF HistoryKept
<1>2. ASSUME NEW x \in Executors, Execute(x)
      PROVE  HistoryKept
  <2>1. CASE StepSucceeds(x)
    <3>1. ran \in [Jobs -> SUBSET (0 .. N - 1)] /\ issued \subseteq Jobs
      BY DEF TypeInv, TypeOK
    <3> QED BY <2>1, <3>1 DEF StepSucceeds, PlaybookEnds, ExecutorGoes, HistoryKept
  <2>2. CASE StepFails(x)
    BY <2>2 DEF StepFails, PlaybookEnds, ExecutorGoes, hosts, HistoryKept
  <2>3. CASE SkipStep(x)
    BY <2>3 DEF SkipStep, ExecutorSaves, ExecutorGoes, hosts, HistoryKept
  <2>4. CASE BeginStep(x)
    BY <2>4 DEF BeginStep, ExecutorSaves, ExecutorGoes, hosts, HistoryKept
  <2>5. CASE RecordSuccess(x)
    BY <2>5 DEF RecordSuccess, ExecutorSaves, ExecutorGoes, hosts, HistoryKept
  <2>6. CASE RecordFailure(x)
    BY <2>6 DEF RecordFailure, ExecutorSaves, ExecutorGoes, hosts, HistoryKept
  <2>7. CASE CompleteJob(x)
    BY <2>7 DEF CompleteJob, ExecutorSaves, ExecutorGoes, hosts, HistoryKept
  <2>8. CASE RunTask(x)
    BY <2>8 DEF RunTask, ExecutorGoes, HistoryKept
  <2> QED BY <1>2, <2>1, <2>2, <2>3, <2>4, <2>5, <2>6, <2>7, <2>8 DEF Execute
<1>3. ASSUME NEW h \in Handlers, Handle(h)
      PROVE  HistoryKept
  <2>1. UNCHANGED <<issued, spec, ran>>
    BY <1>3 DEF Handle, DeploySecret, DeployStart, ResumeFinish, ResumeLoadSecret,
       ResumeSaveSecret, ResumeSave, ResumeStart, LoadAndStart, hosts
  <2> QED BY <1>1, <2>1
<1>4. ASSUME NEW h \in Handlers, Request(h)
      PROVE  HistoryKept
  <2>1. CASE DeployRequest(h)
    BY <2>1 DEF DeployRequest, hosts, HistoryKept, TypeInv, TypeOK
  <2>2. CASE ResumeRequest(h)
    BY <1>1, <2>2 DEF ResumeRequest, hosts
  <2> QED BY <1>4, <2>1, <2>2 DEF Request
<1>5. CASE Crash
  <2>1. CASE UNCHANGED <<issued, spec>>
    BY <1>1, <1>5, <2>1 DEF Crash, hosts
  <2>2. ASSUME NEW j \in Jobs \ issued, NEW s \in Specs,
               issued' = issued \cup {j}, spec' = [spec EXCEPT ![j] = s]
        PROVE  HistoryKept
    BY <1>5, <2>2 DEF Crash, hosts, HistoryKept, TypeInv, TypeOK
  <2> QED BY <1>5, <2>1, <2>2 DEF Crash, CrashTears, files
<1>6. CASE UNCHANGED vars
  BY <1>1, <1>6 DEF vars, hosts
<1> QED BY <1>2, <1>3, <1>4, <1>5, <1>6 DEF Next

LEMMA SettledKept ==
  ASSUME HistoryKept, NEW j \in issued, NEW k, SettledBelow(j, k)
  PROVE  SettledBelow(j, k)'
BY DEF HistoryKept, SettledBelow, Settled, Skipped

LEMMA TrueCopyKept ==
  ASSUME HistoryKept, NEW j \in issued, NEW copy, TrueCopy(j, copy)
  PROVE  TrueCopy(j, copy)'
BY SettledKept DEF TrueCopy

LEMMA TrueHandlerKept ==
  ASSUME HistoryKept, NEW r, TrueHandler(r)
  PROVE  TrueHandler(r)'
<1>1. CASE r.at = "idle"
  BY <1>1 DEF TrueHandler
<1>2. CASE r.at # "idle"
  <2>1. r.job \in issued /\ r.job \in issued'
    BY <1>2 DEF TrueHandler, HistoryKept
  <2> QED BY <1>2, <2>1, TrueCopyKept, SettledKept DEF TrueHandler
<1> QED BY <1>1, <1>2

LEMMA TrueExecutorKept ==
  ASSUME HistoryKept, NEW e, TrueExecutor(e)
  PROVE  TrueExecutor(e)'
<1>1. CASE e.at = "idle"
  BY <1>1 DEF TrueExecutor
<1>2. CASE e.at # "idle"
  <2>1. e.job \in issued /\ e.job \in issued'
    BY <1>2 DEF TrueExecutor, HistoryKept
  <2>2. e.at = "succeeded" => e.i \in ran'[e.job]
    BY <1>2, <2>1 DEF TrueExecutor, HistoryKept
  <2> QED BY <1>2, <2>1, <2>2, TrueCopyKept, SettledKept DEF TrueExecutor
<1> QED BY <1>1, <1>2

(* What an action may do to the files, the handlers and the executors. *)
LEMMA FilesStayTrue ==
  ASSUME IInv, HistoryKept, UNCHANGED <<disk, stored>>
  PROVE  FilesTrue'
<1>1. SUFFICES ASSUME NEW j \in Jobs
               PROVE  /\ disk[j] # "absent" => j \in issued'
                      /\ disk[j] = "intact" => TrueCopy(j, stored[j])'
  BY DEF FilesTrue
<1>2. disk[j] # "absent" => j \in issued /\ j \in issued'
  BY DEF IInv, FilesTrue, HistoryKept
<1>3. ASSUME disk[j] = "intact"
      PROVE  TrueCopy(j, stored[j])'
  <2>1. j \in issued /\ TrueCopy(j, stored[j])
    BY <1>2, <1>3 DEF IInv, FilesTrue
  <2>2. \A copy : TrueCopy(j, copy) => TrueCopy(j, copy)'
    BY <2>1, TrueCopyKept
  <2> QED BY <2>1, <2>2 DEF TrueCopy, SettledBelow
<1> QED BY <1>2, <1>3

LEMMA FilesWrittenTrue ==
  ASSUME IInv, HistoryKept, NEW j \in issued', NEW copy, TrueCopy(j, copy)',
         SaveJob(j, copy) \/ SaveJobFails(j)
  PROVE  FilesTrue'
<1>1. SUFFICES ASSUME NEW k \in Jobs
               PROVE  /\ disk'[k] # "absent" => k \in issued'
                      /\ disk'[k] = "intact" => TrueCopy(k, stored[k])'
  BY DEF FilesTrue
<1>2. disk \in [Jobs -> {"absent", "corrupt", "intact"}] /\ stored \in [Jobs -> JobRecord]
  BY DEF IInv, TypeInv, TypeOK
<1>3. disk'[k] # "absent" => k \in issued'
  BY <1>2 DEF IInv, FilesTrue, HistoryKept, SaveJob, SaveJobFails, Fault
<1>4. ASSUME disk'[k] = "intact"
      PROVE  TrueCopy(k, stored[k])'
  <2>1. CASE k = j /\ SaveJob(j, copy)
    <3>1. stored'[k] = copy
      BY <1>2, <2>1 DEF SaveJob
    <3> QED BY <2>1, <3>1 DEF TrueCopy, SettledBelow
  <2>2. CASE k # j \/ SaveJobFails(j)
    <3>1. disk[k] = "intact" /\ stored'[k] = stored[k]
      BY <1>2, <1>4, <2>2 DEF SaveJob, SaveJobFails, Fault
    <3>2. k \in issued /\ TrueCopy(k, stored[k])
      BY <3>1 DEF IInv, FilesTrue
    <3>3. \A c : TrueCopy(k, c) => TrueCopy(k, c)'
      BY <3>2, TrueCopyKept
    <3>4. \A c : c = stored[k] => TrueCopy(k, c)'
      BY <3>2, <3>3
    <3> QED BY <3>1, <3>4 DEF TrueCopy, SettledBelow
  <2> QED BY <2>1, <2>2
<1> QED BY <1>3, <1>4

LEMMA HandlersStayTrue ==
  ASSUME IInv, HistoryKept, UNCHANGED handler
  PROVE  HandlersTrue'
<1>1. SUFFICES ASSUME NEW h \in Handlers
               PROVE  TrueHandler(handler[h])'
  BY DEF HandlersTrue
<1>2. \A r : r = handler[h] => TrueHandler(r)'
  BY TrueHandlerKept DEF IInv, HandlersTrue
<1> QED BY <1>2 DEF TrueHandler, TrueCopy, SettledBelow

LEMMA HandlerGoesTrue ==
  ASSUME IInv, HistoryKept, NEW h \in Handlers, NEW state, HandlerGoes(h, state),
         TrueHandler(state)'
  PROVE  HandlersTrue'
<1>1. SUFFICES ASSUME NEW g \in Handlers
               PROVE  TrueHandler(handler[g])'
  BY DEF HandlersTrue
<1>2. handler \in [Handlers -> HandlerState]
  BY DEF IInv, TypeInv, TypeOK
<1>3. CASE g = h
  <2>1. handler'[g] = state
    BY <1>2, <1>3 DEF HandlerGoes
  <2> QED BY <2>1 DEF TrueHandler, TrueCopy, SettledBelow
<1>4. CASE g # h
  <2>1. handler'[g] = handler[g]
    BY <1>2, <1>4 DEF HandlerGoes
  <2>2. \A r : r = handler[g] => TrueHandler(r)'
    BY TrueHandlerKept DEF IInv, HandlersTrue
  <2> QED BY <2>1, <2>2 DEF TrueHandler, TrueCopy, SettledBelow
<1> QED BY <1>3, <1>4

LEMMA ExecutorsStayTrue ==
  ASSUME IInv, HistoryKept, UNCHANGED executor
  PROVE  ExecutorsTrue'
<1>1. SUFFICES ASSUME NEW x \in Executors
               PROVE  TrueExecutor(executor[x])'
  BY DEF ExecutorsTrue
<1>2. \A e : e = executor[x] => TrueExecutor(e)'
  BY TrueExecutorKept DEF IInv, ExecutorsTrue
<1> QED BY <1>2 DEF TrueExecutor, TrueCopy, SettledBelow

LEMMA ExecutorGoesTrue ==
  ASSUME IInv, HistoryKept, NEW x \in Executors, NEW state,
         executor' = [executor EXCEPT ![x] = state], TrueExecutor(state)'
  PROVE  ExecutorsTrue'
<1>1. SUFFICES ASSUME NEW y \in Executors
               PROVE  TrueExecutor(executor[y])'
  BY DEF ExecutorsTrue
<1>2. executor \in [Executors -> ExecutorState]
  BY DEF IInv, TypeInv, TypeOK
<1>3. CASE y = x
  <2>1. executor'[y] = state
    BY <1>2, <1>3
  <2> QED BY <2>1 DEF TrueExecutor, TrueCopy, SettledBelow
<1>4. CASE y # x
  <2>1. executor'[y] = executor[y]
    BY <1>2, <1>4
  <2>2. \A e : e = executor[y] => TrueExecutor(e)'
    BY TrueExecutorKept DEF IInv, ExecutorsTrue
  <2> QED BY <2>1, <2>2 DEF TrueExecutor, TrueCopy, SettledBelow
<1> QED BY <1>3, <1>4

LEMMA IdleIsTrue ==
  TrueHandler(IdleHandler)' /\ TrueExecutor(IdleExecutor)'
BY DEF TrueHandler, TrueExecutor, IdleHandler, IdleExecutor

-----------------------------------------------------------------------------
(* The steps of the processes.                                             *)

LEMMA ExecutorSavesTrue ==
  ASSUME IInv, HistoryKept, NEW x \in Executors, NEW j \in issued, NEW copy, NEW state,
         j = executor[x].job, TrueCopy(j, copy)', TrueExecutor(state)',
         ExecutorSaves(x, copy, state)
  PROVE  FilesTrue' /\ HandlersTrue' /\ ExecutorsTrue'
<1>1. j \in issued'
  BY DEF HistoryKept
<1>2. FilesTrue'
  BY <1>1, FilesWrittenTrue DEF ExecutorSaves
<1>3. HandlersTrue'
  BY HandlersStayTrue DEF ExecutorSaves, ExecutorGoes
<1>4. ExecutorsTrue'
  <2>1. CASE ExecutorGoes(x, state)
    BY <2>1, ExecutorGoesTrue DEF ExecutorGoes
  <2>2. CASE ExecutorGoes(x, IdleExecutor)
    BY <2>2, ExecutorGoesTrue, IdleIsTrue DEF ExecutorGoes
  <2> QED BY <2>1, <2>2 DEF ExecutorSaves
<1> QED BY <1>2, <1>3, <1>4

(* An executor claims a step only after it was skipped or has succeeded,   *)
(* and completes the job only past the last step.                          *)
LEMMA ExecuteTrue ==
  ASSUME IInv, HistoryKept, NEW x \in Executors, Execute(x)
  PROVE  FilesTrue' /\ HandlersTrue' /\ ExecutorsTrue'
<1>1. PICK e : e = executor[x]
  OBVIOUS
<1>2. e \in ExecutorState /\ e.copy \in JobRecord /\ e.i \in 0 .. N /\ N \in Nat
  BY <1>1, Constants DEF IInv, TypeInv, TypeOK, ExecutorState
<1>3. e.at # "idle"
  BY <1>1 DEF Execute, SkipStep, BeginStep, RunTask, StepSucceeds, StepFails,
              RecordSuccess, RecordFailure, CompleteJob
<1>4. TrueExecutor(e)
  BY <1>1 DEF IInv, ExecutorsTrue
<1>5. /\ e.job \in issued /\ e.job \in issued' /\ TrueCopy(e.job, e.copy)
      /\ SettledBelow(e.job, e.i)
  BY <1>3, <1>4 DEF TrueExecutor, HistoryKept
<1>6. /\ TrueExecutor(e)' /\ TrueCopy(e.job, e.copy)'
      /\ SettledBelow(e.job, e.i)'
  BY <1>4, <1>5, TrueExecutorKept, TrueCopyKept, SettledKept
<1>7. e.copy.last + 1 \in Nat /\ e.copy.last \in Int
  BY <1>2 DEF JobRecord
<1>8. ASSUME e.i < N, Settled(e.job, e.i)'
      PROVE  SettledBelow(e.job, e.i + 1)'
  BY <1>2, <1>6, <1>8 DEF SettledBelow
<1>9. CASE SkipStep(x)
  <2> DEFINE copy == StepSkipped(e.copy, e.i)
             state == [e EXCEPT !.copy = copy, !.i = e.i + 1]
  <2>1. e.at = "loop" /\ e.i < N /\ Skipped(e.i, spec[e.job])
    BY <1>1, <1>9 DEF SkipStep
  <2>2. SettledBelow(e.job, e.i + 1)'
    BY <1>5, <1>8, <2>1 DEF Settled, HistoryKept, Skipped
  <2>3. TrueCopy(e.job, copy)'
    <3>1. copy.last = e.i /\ copy.status = e.copy.status
      BY <1>2 DEF StepSkipped, JobRecord
    <3> QED BY <1>6, <2>2, <3>1 DEF TrueCopy
  <2>4. TrueExecutor(state)'
    <3>1. state.at = "loop" /\ state.job = e.job /\ state.copy = copy /\ state.i = e.i + 1
      BY <1>2, <2>1 DEF ExecutorState
    <3> QED BY <1>5, <2>2, <2>3, <3>1 DEF TrueExecutor
  <2>5. ExecutorSaves(x, copy, state)
    BY <1>1, <1>9 DEF SkipStep
  <2> QED BY <1>1, <1>5, <2>3, <2>4, <2>5, ExecutorSavesTrue
<1>10. CASE BeginStep(x)
  <2> DEFINE copy == StepEntered(e.copy, e.i)
             state == [e EXCEPT !.copy = copy, !.at = "run"]
  <2>1. TrueCopy(e.job, copy)'
    <3>1. copy.last = e.copy.last /\ copy.status = e.copy.status
      BY <1>2 DEF StepEntered, JobRecord
    <3> QED BY <1>6, <3>1 DEF TrueCopy
  <2>2. TrueExecutor(state)'
    <3>1. state.at = "run" /\ state.job = e.job /\ state.copy = copy /\ state.i = e.i
      BY <1>2 DEF ExecutorState
    <3> QED BY <1>5, <1>6, <2>1, <3>1 DEF TrueExecutor
  <2>3. ExecutorSaves(x, copy, state)
    BY <1>1, <1>10 DEF BeginStep
  <2> QED BY <1>1, <1>5, <2>1, <2>2, <2>3, ExecutorSavesTrue
<1>11. CASE StepSucceeds(x)
  <2> DEFINE state == [e EXCEPT !.at = "succeeded", !.task = 0, !.due = FALSE]
  <2>1. e.i \in ran'[e.job]
    BY <1>1, <1>2, <1>5, <1>11 DEF StepSucceeds, IInv, TypeInv, TypeOK
  <2>2. TrueExecutor(state)'
    <3>1. /\ state.at = "succeeded" /\ state.job = e.job
          /\ state.copy = e.copy /\ state.i = e.i
      BY <1>2 DEF ExecutorState
    <3> QED BY <1>5, <1>6, <2>1, <3>1 DEF TrueExecutor
  <2>3. executor' = [executor EXCEPT ![x] = state]
    BY <1>1, <1>11 DEF StepSucceeds, PlaybookEnds, ExecutorGoes
  <2>4. UNCHANGED <<disk, stored, handler>>
    BY <1>11 DEF StepSucceeds, PlaybookEnds, ExecutorGoes, files
  <2> QED BY <2>2, <2>3, <2>4, FilesStayTrue, HandlersStayTrue, ExecutorGoesTrue
<1>12. CASE StepFails(x)
  <2> DEFINE state == [e EXCEPT !.at = "failed", !.task = 0, !.due = FALSE]
  <2>1. TrueExecutor(state)'
    <3>1. /\ state.at = "failed" /\ state.job = e.job
          /\ state.copy = e.copy /\ state.i = e.i
      BY <1>2 DEF ExecutorState
    <3> QED BY <1>5, <1>6, <3>1 DEF TrueExecutor
  <2>2. executor' = [executor EXCEPT ![x] = state]
    BY <1>1, <1>12 DEF StepFails, PlaybookEnds, ExecutorGoes
  <2>3. UNCHANGED <<disk, stored, handler>>
    BY <1>12 DEF StepFails, PlaybookEnds, ExecutorGoes, files
  <2> QED BY <2>1, <2>2, <2>3, FilesStayTrue, HandlersStayTrue, ExecutorGoesTrue
<1>13. CASE RecordSuccess(x)
  <2> DEFINE copy == StepRecorded(e.copy, e.i)
             state == [e EXCEPT !.copy = copy, !.i = e.i + 1, !.at = "loop"]
  <2>1. e.at = "succeeded" /\ e.i < N
    BY <1>1, <1>13 DEF RecordSuccess, IInv, TypeInv
  <2>2. SettledBelow(e.job, e.i + 1)'
    BY <1>4, <1>5, <1>8, <2>1 DEF Settled, HistoryKept, TrueExecutor
  <2>3. TrueCopy(e.job, copy)'
    <3>1. copy.last = e.i /\ copy.status = e.copy.status
      BY <1>2 DEF StepRecorded, JobRecord
    <3> QED BY <1>6, <2>2, <3>1 DEF TrueCopy
  <2>4. TrueExecutor(state)'
    <3>1. state.at = "loop" /\ state.job = e.job /\ state.copy = copy /\ state.i = e.i + 1
      BY <1>2 DEF ExecutorState
    <3> QED BY <1>5, <2>2, <2>3, <3>1 DEF TrueExecutor
  <2>5. ExecutorSaves(x, copy, state)
    BY <1>1, <1>13 DEF RecordSuccess
  <2> QED BY <1>1, <1>5, <2>3, <2>4, <2>5, ExecutorSavesTrue
<1>14. CASE RecordFailure(x)
  <2> DEFINE copy == JobFailed(e.copy)
  <2>1. TrueCopy(e.job, copy)'
    <3>1. copy.last = e.copy.last /\ copy.status = "failed"
      BY <1>2 DEF JobFailed, JobRecord
    <3> QED BY <1>6, <3>1 DEF TrueCopy
  <2>2. ExecutorSaves(x, copy, IdleExecutor)
    BY <1>1, <1>14 DEF RecordFailure
  <2> QED BY <1>1, <1>5, <2>1, <2>2, IdleIsTrue, ExecutorSavesTrue
<1>15. CASE CompleteJob(x)
  <2> DEFINE copy == JobCompleted(e.copy)
  <2>1. e.i = N
    BY <1>1, <1>15 DEF CompleteJob
  <2>2. TrueCopy(e.job, copy)'
    <3>1. copy.last = e.copy.last
      BY <1>2 DEF JobCompleted, JobRecord
    <3> QED BY <1>6, <2>1, <3>1 DEF TrueCopy
  <2>3. ExecutorSaves(x, copy, IdleExecutor)
    BY <1>1, <1>15 DEF CompleteJob
  <2> QED BY <1>1, <1>5, <2>2, <2>3, IdleIsTrue, ExecutorSavesTrue
<1>16. CASE RunTask(x)
  <2>1. PICK due : executor' = [executor EXCEPT ![x] =
                                  [e EXCEPT !.task = e.task + 1, !.due = due]]
    BY <1>1, <1>16 DEF RunTask, ExecutorGoes
  <2> DEFINE state == [e EXCEPT !.task = e.task + 1, !.due = due]
  <2>2. TrueExecutor(state)'
    <3>1. /\ state.at = e.at /\ state.job = e.job
          /\ state.copy = e.copy /\ state.i = e.i
      BY <1>2 DEF ExecutorState
    <3> QED BY <1>6, <3>1 DEF TrueExecutor
  <2>3. UNCHANGED <<disk, stored, handler>>
    BY <1>16 DEF RunTask, ExecutorGoes, files
  <2> QED BY <2>1, <2>2, <2>3, FilesStayTrue, HandlersStayTrue, ExecutorGoesTrue
<1> QED BY <1>9, <1>10, <1>11, <1>12, <1>13, <1>14, <1>15, <1>16 DEF Execute

(* A new executor gets the copy in the file and a start index below which  *)
(* everything is settled.                                                  *)
LEMMA LoadAndStartTrue ==
  ASSUME IInv, HistoryKept, NEW h \in Handlers, NEW from,
         handler[h].job \in issued, SettledBelow(handler[h].job, from),
         LoadAndStart(h, from)
  PROVE  FilesTrue' /\ HandlersTrue' /\ ExecutorsTrue'
<1>1. FilesTrue'
  BY FilesStayTrue DEF LoadAndStart, files
<1>2. HandlersTrue'
  BY IdleIsTrue, HandlerGoesTrue DEF LoadAndStart
<1>3. ExecutorsTrue'
  <2>1. CASE UNCHANGED executor
    BY <2>1, ExecutorsStayTrue
  <2>2. CASE /\ Loadable(handler[h].job)
             /\ StartExecutor(handler[h].job, from, handler[h].secret)
    <3>1. PICK j, copy, p : j = handler[h].job /\ copy = stored[j] /\ p = handler[h].secret
      OBVIOUS
    <3> DEFINE state == [at |-> "loop", job |-> j, copy |-> copy, secret |-> p, i |-> from,
                         task |-> 0, due |-> FALSE]
    <3>2. PICK x \in Executors : executor' = [executor EXCEPT ![x] = state]
      BY <2>2, <3>1 DEF StartExecutor
    <3>3. j \in issued /\ j \in issued' /\ SettledBelow(j, from)'
      BY <3>1, SettledKept DEF HistoryKept
    <3>4. TrueCopy(j, copy)
      BY <2>2, <3>1, <3>3 DEF Loadable, IInv, FilesTrue, TypeInv, TypeOK
    <3>5. TrueCopy(j, copy)'
      BY <3>3, <3>4, TrueCopyKept
    <3>6. TrueExecutor(state)'
      BY <3>3, <3>5 DEF TrueExecutor
    <3> QED BY <3>2, <3>6, ExecutorGoesTrue
  <2> QED BY <2>1, <2>2 DEF LoadAndStart
<1> QED BY <1>1, <1>2, <1>3

(* A handler writes only what its copy claims; Resume completes a job only *)
(* when the file it loaded had every step behind it.                       *)
LEMMA HandleTrue ==
  ASSUME IInv, HistoryKept, NEW h \in Handlers, Handle(h)
  PROVE  FilesTrue' /\ HandlersTrue' /\ ExecutorsTrue'
<1>1. PICK r : r = handler[h]
  OBVIOUS
<1>2. r \in HandlerState /\ r.copy \in JobRecord /\ N \in Nat
  BY <1>1, Constants DEF IInv, TypeInv, TypeOK, HandlerState
<1>3. r.at # "idle"
  BY <1>1 DEF Handle, DeploySecret, DeployStart, ResumeFinish, ResumeLoadSecret,
     ResumeSaveSecret, ResumeSave, ResumeStart
<1>4. TrueHandler(r)
  BY <1>1 DEF IInv, HandlersTrue
<1>5. /\ r.job \in issued /\ r.job \in issued' /\ TrueCopy(r.job, r.copy)
      /\ SettledBelow(r.job, r.next)
  BY <1>3, <1>4 DEF TrueHandler, HistoryKept
<1>6. /\ TrueCopy(r.job, r.copy)' /\ SettledBelow(r.job, r.next)'
  BY <1>5, TrueCopyKept, SettledKept
<1>7. ASSUME NEW state, state.job = r.job, state.copy = r.copy, state.next = r.next,
             state.at # "resume_finish"
      PROVE  TrueHandler(state)'
  BY <1>5, <1>6, <1>7 DEF TrueHandler
<1>8. CASE DeploySecret(h)
  <2>1. TrueHandler([r EXCEPT !.at = "deploy_start"])'
    <3>1. [r EXCEPT !.at = "deploy_start"].at = "deploy_start"
      BY <1>2 DEF HandlerState
    <3> QED BY <1>2, <1>7, <3>1 DEF HandlerState
  <2>2. HandlersTrue'
    BY <1>1, <1>8, <2>1, IdleIsTrue, HandlerGoesTrue DEF DeploySecret
  <2>3. UNCHANGED <<disk, stored, executor>>
    BY <1>8 DEF DeploySecret, SaveSecret, SaveSecretFails
  <2> QED BY <2>2, <2>3, FilesStayTrue, ExecutorsStayTrue
<1>9. CASE DeployStart(h)
  <2>1. SettledBelow(handler[h].job, 0)
    BY DEF SettledBelow
  <2> QED BY <1>1, <1>5, <1>9, <2>1, LoadAndStartTrue DEF DeployStart
<1>10. CASE ResumeFinish(h)
  <2> DEFINE copy == [r.copy EXCEPT !.status = "completed"]
  <2>1. SettledBelow(r.job, N)'
    BY <1>1, <1>3, <1>4, <1>5, <1>10, SettledKept DEF ResumeFinish, TrueHandler
  <2>2. TrueCopy(r.job, copy)'
    <3>1. copy.last = r.copy.last
      BY <1>2 DEF JobRecord
    <3> QED BY <1>6, <2>1, <3>1 DEF TrueCopy
  <2>3. SaveJob(r.job, copy) \/ SaveJobFails(r.job)
    BY <1>1, <1>10 DEF ResumeFinish
  <2>4. FilesTrue'
    BY <1>5, <2>2, <2>3, FilesWrittenTrue
  <2>5. HandlersTrue' /\ ExecutorsTrue'
    BY <1>10, IdleIsTrue, HandlerGoesTrue, ExecutorsStayTrue DEF ResumeFinish
  <2> QED BY <2>4, <2>5
<1>11. CASE ResumeLoadSecret(h)
  <2>1. PICK p : HandlerGoes(h, [r EXCEPT !.at = "resume_save_secret", !.secret = p])
    BY <1>1, <1>11 DEF ResumeLoadSecret
  <2> DEFINE state == [r EXCEPT !.at = "resume_save_secret", !.secret = p]
  <2>2. /\ state.job = r.job /\ state.copy = r.copy /\ state.next = r.next
        /\ state.at # "resume_finish"
    BY <1>2 DEF HandlerState
  <2>3. UNCHANGED <<disk, stored, executor>>
    BY <1>11 DEF ResumeLoadSecret, files
  <2>4. HandlersTrue'
    BY <1>7, <2>1, <2>2, HandlerGoesTrue
  <2> QED BY <2>3, <2>4, FilesStayTrue, ExecutorsStayTrue
<1>12. CASE ResumeSaveSecret(h)
  <2>1. TrueHandler([r EXCEPT !.at = "resume_save"])'
    <3>1. [r EXCEPT !.at = "resume_save"].at = "resume_save"
      BY <1>2 DEF HandlerState
    <3> QED BY <1>2, <1>7, <3>1 DEF HandlerState
  <2>2. HandlersTrue'
    BY <1>1, <1>12, <2>1, IdleIsTrue, HandlerGoesTrue DEF ResumeSaveSecret
  <2>3. UNCHANGED <<disk, stored, executor>>
    BY <1>12 DEF ResumeSaveSecret, SaveSecret, SaveSecretFails
  <2> QED BY <2>2, <2>3, FilesStayTrue, ExecutorsStayTrue
<1>13. CASE ResumeSave(h)
  <2> DEFINE copy == [r.copy EXCEPT !.status = "running"]
             state == [r EXCEPT !.at = "resume_start", !.copy = copy]
  <2>1. TrueCopy(r.job, copy)'
    <3>1. copy.last = r.copy.last /\ copy.status = "running"
      BY <1>2 DEF JobRecord
    <3> QED BY <1>6, <3>1 DEF TrueCopy
  <2>2. TrueHandler(state)'
    <3>1. /\ state.at = "resume_start" /\ state.job = r.job
          /\ state.copy = copy /\ state.next = r.next
      BY <1>2 DEF HandlerState
    <3> QED BY <1>5, <1>6, <2>1, <3>1 DEF TrueHandler
  <2>3. SaveJob(r.job, copy) \/ SaveJobFails(r.job)
    BY <1>1, <1>13 DEF ResumeSave
  <2>4. FilesTrue'
    BY <1>5, <2>1, <2>3, FilesWrittenTrue
  <2>5. HandlerGoes(h, state) \/ HandlerGoes(h, IdleHandler)
    BY <1>1, <1>13 DEF ResumeSave
  <2>6. HandlersTrue'
    BY <2>2, <2>5, IdleIsTrue, HandlerGoesTrue
  <2>7. ExecutorsTrue'
    BY <1>13, ExecutorsStayTrue DEF ResumeSave
  <2> QED BY <2>4, <2>6, <2>7
<1>14. CASE ResumeStart(h)
  BY <1>1, <1>5, <1>14, LoadAndStartTrue DEF ResumeStart
<1> QED BY <1>8, <1>9, <1>10, <1>11, <1>12, <1>13, <1>14 DEF Handle

(* A deployment's id is new, so its request disturbs no other copy.        *)
LEMMA RequestTrue ==
  ASSUME IInv, HistoryKept, NEW h \in Handlers, Request(h)
  PROVE  FilesTrue' /\ HandlersTrue' /\ ExecutorsTrue'
<1>1. CASE DeployRequest(h)
  <2>1. PICK j \in Jobs \ issued, p \in DeploySecrets :
          /\ issued' = issued \cup {j}
          /\ \/ /\ SaveJob(j, NewJob)
                /\ HandlerGoes(h, [IdleHandler EXCEPT !.at = "deploy_secret",
                                                      !.job = j, !.secret = p])
             \/ SaveJobFails(j) /\ HandlerGoes(h, IdleHandler)
    BY <1>1 DEF DeployRequest
  <2> DEFINE state == [IdleHandler EXCEPT !.at = "deploy_secret", !.job = j,
                                          !.secret = p]
  <2>2. j \in issued'
    BY <2>1
  <2>3. TrueCopy(j, NewJob)' /\ SettledBelow(j, 0)'
    BY DEF NewJob, TrueCopy, SettledBelow
  <2>4. FilesTrue'
    BY <2>1, <2>2, <2>3, FilesWrittenTrue
  <2>5. /\ state.at = "deploy_secret" /\ state.job = j
        /\ state.copy = NewJob /\ state.next = 0
    BY DEF IdleHandler
  <2>6. TrueHandler(state)'
    BY <2>2, <2>3, <2>5 DEF TrueHandler
  <2>7. HandlersTrue'
    BY <2>1, <2>6, IdleIsTrue, HandlerGoesTrue
  <2>8. ExecutorsTrue'
    BY <1>1, ExecutorsStayTrue DEF DeployRequest
  <2> QED BY <2>4, <2>7, <2>8
<1>2. CASE ResumeRequest(h)
  <2>1. PICK j \in Jobs, p \in ResumeSecrets, copy \in JobRecord, at \in HandlerPCs :
          /\ Loadable(j) /\ copy = stored[j]
          /\ at = "resume_finish" => StartIndex(copy) >= N
          /\ HandlerGoes(h, [at |-> at, job |-> j, copy |-> copy, secret |-> p,
                             next |-> StartIndex(copy)])
    <3>1. PICK j \in Jobs, p \in ResumeSecrets :
            /\ Loadable(j)
            /\ HandlerGoes(h,
                 [at |-> IF StartIndex(stored[j]) >= N THEN "resume_finish"
                         ELSE IF \E a \in Accounts : p[a] = NoPassword THEN "resume_load_secret"
                         ELSE "resume_save_secret",
                  job |-> j, copy |-> stored[j], secret |-> p,
                  next |-> StartIndex(stored[j])])
      BY <1>2 DEF ResumeRequest
    <3>2. PICK at \in HandlerPCs :
                    at = IF StartIndex(stored[j]) >= N THEN "resume_finish"
                         ELSE IF \E a \in Accounts : p[a] = NoPassword THEN "resume_load_secret"
                         ELSE "resume_save_secret"
      BY DEF HandlerPCs
    <3>3. at = "resume_finish" => StartIndex(stored[j]) >= N
      BY <3>2
    <3>4. PICK copy \in JobRecord : copy = stored[j]
      BY DEF IInv, TypeInv, TypeOK
    <3> QED BY <3>1, <3>2, <3>3, <3>4
  <2>2. copy \in JobRecord /\ j \in issued /\ j \in issued' /\ TrueCopy(j, copy)
    BY <2>1 DEF Loadable, IInv, FilesTrue, TypeInv, TypeOK, HistoryKept
  <2>3. SettledBelow(j, StartIndex(copy))
    BY <2>2 DEF TrueCopy, StartIndex
  <2>4. StartIndex(copy) \in 0 .. N /\ N \in Nat
    BY <2>2, VerdictTypes, Constants
  <2>5. at = "resume_finish" => SettledBelow(j, N)
    BY <2>1, <2>3, <2>4 DEF SettledBelow
  <2> DEFINE state == [at |-> at, job |-> j, copy |-> copy, secret |-> p,
                       next |-> StartIndex(copy)]
  <2>6. TrueHandler(state)
    BY <2>2, <2>3, <2>5 DEF TrueHandler
  <2>7. HandlersTrue'
    BY <2>1, <2>6, TrueHandlerKept, HandlerGoesTrue
  <2>8. UNCHANGED <<disk, stored, executor>>
    BY <1>2 DEF ResumeRequest, files
  <2> QED BY <2>7, <2>8, FilesStayTrue, ExecutorsStayTrue
<1> QED BY <1>1, <1>2 DEF Request

(* A crash leaves the files as they are, or one of them unreadable: that   *)
(* of a job whose id is issued, if only for the write that is torn.        *)
LEMMA CrashLeaves ==
  ASSUME IInv, Crash
  PROVE  /\ UNCHANGED <<stored, ran, cluster>>
         /\ UNCHANGED disk \/ \E j \in Jobs \cap issued' : disk' = [disk EXCEPT ![j] = "corrupt"]
         /\ \A j \in Jobs : disk'[j] # "corrupt" => disk'[j] = disk[j] /\ spec'[j] = spec[j]
<1>1. UNCHANGED <<stored, ran, cluster>>
  BY DEF Crash, CrashTears, files, hosts
<1>2. disk \in [Jobs -> {"absent", "corrupt", "intact"}] /\ spec \in [Jobs -> Specs]
  BY DEF IInv, TypeInv, TypeOK
<1>3. CASE UNCHANGED <<issued, spec, disk>>
  BY <1>1, <1>3
<1>4. ASSUME NEW j \in Jobs, WritingJob(j), disk' = [disk EXCEPT ![j] = "corrupt"],
             UNCHANGED <<issued, spec>>
      PROVE  j \in issued'
  BY <1>4 DEF WritingJob, IInv, HandlersTrue, ExecutorsTrue, TrueHandler, TrueExecutor
<1>5. ASSUME NEW j \in Jobs, NEW s, disk' = [disk EXCEPT ![j] = "corrupt"],
             UNCHANGED spec \/ spec' = [spec EXCEPT ![j] = s], NEW k \in Jobs,
             disk'[k] # "corrupt"
      PROVE  disk'[k] = disk[k] /\ spec'[k] = spec[k]
  BY <1>2, <1>5
<1>6. ASSUME NEW j \in Jobs, WritingJob(j), disk' = [disk EXCEPT ![j] = "corrupt"],
             UNCHANGED <<issued, spec>>
      PROVE  /\ \E k \in Jobs \cap issued' : disk' = [disk EXCEPT ![k] = "corrupt"]
             /\ \A k \in Jobs : disk'[k] # "corrupt" => disk'[k] = disk[k] /\ spec'[k] = spec[k]
  BY <1>2, <1>4, <1>6
<1>7. ASSUME NEW j \in Jobs \ issued, NEW s \in Specs, issued' = issued \cup {j},
             spec' = [spec EXCEPT ![j] = s], disk' = [disk EXCEPT ![j] = "corrupt"]
      PROVE  /\ \E k \in Jobs \cap issued' : disk' = [disk EXCEPT ![k] = "corrupt"]
             /\ \A k \in Jobs : disk'[k] # "corrupt" => disk'[k] = disk[k] /\ spec'[k] = spec[k]
  BY <1>2, <1>7
<1> QED BY <1>1, <1>3, <1>6, <1>7 DEF Crash, CrashTears, files

LEMMA CrashTrue ==
  ASSUME IInv, HistoryKept, Crash
  PROVE  FilesTrue' /\ HandlersTrue' /\ ExecutorsTrue'
<1>1. HandlersTrue' /\ ExecutorsTrue'
  BY DEF Crash, HandlersTrue, ExecutorsTrue, TrueHandler, TrueExecutor,
         IdleHandler, IdleExecutor
<1>2. CASE UNCHANGED disk
  BY <1>1, <1>2, CrashLeaves, FilesStayTrue
<1>3. ASSUME NEW j \in Jobs \cap issued', disk' = [disk EXCEPT ![j] = "corrupt"]
      PROVE  FilesTrue'
  <2>1. disk \in [Jobs -> {"absent", "corrupt", "intact"}] /\ UNCHANGED stored
    BY CrashLeaves DEF IInv, TypeInv, TypeOK
  <2>2. SUFFICES ASSUME NEW k \in Jobs
                 PROVE  /\ disk'[k] # "absent" => k \in issued'
                        /\ disk'[k] = "intact" => TrueCopy(k, stored[k])'
    BY DEF FilesTrue
  <2>3. CASE k = j
    BY <1>3, <2>1, <2>3
  <2>4. CASE k # j
    <3>1. disk'[k] = disk[k]
      BY <1>3, <2>1, <2>4
    <3>2. disk[k] # "absent" => k \in issued /\ k \in issued'
      BY DEF IInv, FilesTrue, HistoryKept
    <3>3. ASSUME disk[k] = "intact"
          PROVE  TrueCopy(k, stored[k])'
      <4>1. k \in issued /\ TrueCopy(k, stored[k])
        BY <3>2, <3>3 DEF IInv, FilesTrue
      <4>2. \A copy : TrueCopy(k, copy) => TrueCopy(k, copy)'
        BY <4>1, TrueCopyKept
      <4> QED BY <2>1, <4>1, <4>2 DEF TrueCopy, SettledBelow
    <3> QED BY <3>1, <3>2, <3>3
  <2> QED BY <2>3, <2>4
<1> QED BY <1>1, <1>2, <1>3, CrashLeaves

LEMMA IInvStep ==
  ASSUME IInv, [Next]_vars
  PROVE  IInv'
<1>1. TypeInv' /\ HistoryKept
  BY TypeStep, HistoryIsKept DEF IInv
<1>2. CASE UNCHANGED vars
  BY <1>1, <1>2, FilesStayTrue, HandlersStayTrue, ExecutorsStayTrue DEF vars, files, IInv
<1> QED BY <1>1, <1>2, ExecuteTrue, HandleTrue, RequestTrue, CrashTrue DEF Next, IInv

LEMMA IInvInit ==
  ASSUME Init
  PROVE  IInv
BY TypeInit DEF Init, IInv, FilesTrue, HandlersTrue, ExecutorsTrue, TrueHandler,
                TrueExecutor, IdleHandler, IdleExecutor

LEMMA IInvHolds == Spec => []IInv
BY IInvInit, IInvStep, PTL DEF Spec

(* Whatever requests, executors, failed writes and crashes do to each      *)
(* other, the job file never counts a step that did not succeed once or is *)
(* skipped: a resume starts past settled steps only.                       *)
THEOREM ProgressIsReal == Spec => []PersistedProgressIsReal
<1>1. IInv => PersistedProgressIsReal
  <2>1. SUFFICES ASSUME IInv, NEW j \in Jobs, disk[j] = "intact",
                        NEW i \in 0 .. stored[j].last
                 PROVE  Settled(j, i)
    BY DEF PersistedProgressIsReal
  <2>2. SettledBelow(j, stored[j].last + 1) /\ stored[j].last \in Int
    BY <2>1, Constants DEF IInv, FilesTrue, TrueCopy, TypeInv, TypeOK, JobRecord
  <2> QED BY <2>1, <2>2 DEF SettledBelow
<1> QED BY <1>1, IInvHolds, PTL

(* A job is shown as completed only when each of its steps succeeded once  *)
(* or is skipped, also after Resume completed it without running anything. *)
THEOREM CompletionIsReal == Spec => []CompletedJobsSettledEveryStep
<1>1. IInv => CompletedJobsSettledEveryStep
  BY DEF IInv, FilesTrue, TrueCopy, CompletedJobsSettledEveryStep, Intact, SettledBelow
<1> QED BY <1>1, IInvHolds, PTL
=============================================================================
