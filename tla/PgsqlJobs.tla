------------------------------ MODULE PgsqlJobs ------------------------------
(***************************************************************************)
(* The PostgreSQL deployment service: HTTP handlers (Deploy, Resume), the   *)
(* goroutines that execute a job's steps, the two files the store keeps for *)
(* a job (internal/cluster/pgsql), and the nodes, which all jobs here have  *)
(* in common.  The service is cut into actions as in MySQLJobs: at each     *)
(* call of the store, and a run of a playbook at each of its tasks.  It     *)
(* differs in what it does with its three passwords, shows no progress and  *)
(* has no rollback.                                                        *)
(***************************************************************************)
EXTENDS PgsqlPlaybooks

CONSTANTS
  Table,            \* the step table of the service (Service.steps)
  Specs,            \* the deployment requests clients make
  DeploySecrets,    \* the passwords of a deployment, given or generated
  ResumeSecrets,    \* what resume requests carry: NoPassword where nothing
  Handlers, Executors,
  MaxResumes,       \* bound: accepted resumes
  MaxFaults,        \* bound: failed writes and reads of a job file
  MaxSecretFaults,  \* bound: failed writes and reads of a secret file
  MaxCrashes        \* bound

N == Len(Table)
NoStep == -1

ASSUME TableAssumption == Table \in Seq(StepNames)
ASSUME ParameterAssumption ==
  /\ Specs # {} /\ Specs \subseteq StoredSpec
  /\ DeploySecrets # {} /\ DeploySecrets \subseteq [Accounts -> Passwords]
  /\ ResumeSecrets \subseteq Secrets
ASSUME BoundAssumption ==
  /\ MaxResumes \in Nat /\ MaxFaults \in Nat
  /\ MaxSecretFaults \in Nat /\ MaxCrashes \in Nat

Skipped(i, s) == ShouldSkipStep(Table[i + 1], s)

Statuses == {"running", "failed", "completed"}
JobRecord == [status : Statuses, last : -1 .. N - 1, current : -1 .. N - 1]
NewJob == [status |-> "running", last |-> -1, current |-> NoStep]

AnyJob == CHOOSE j \in Jobs : TRUE
AnySpec == CHOOSE s \in Specs : TRUE

HandlerPCs == {"idle", "deploy_secret", "deploy_start", "resume_finish",
               "resume_load_secret", "resume_save_secret", "resume_save",
               "resume_start"}
HandlerState == [at : HandlerPCs, job : Jobs, copy : JobRecord,
                 secret : Secrets, next : 0 .. N]

ExecutorPCs == {"idle", "loop", "run", "succeeded", "failed"}
ExecutorState == [at : ExecutorPCs, job : Jobs, copy : JobRecord,
                  secret : Secrets, i : 0 .. N,
                  task : 0 .. MostTasks, due : BOOLEAN]

IdleHandler == [at |-> "idle", job |-> AnyJob, copy |-> NewJob,
                secret |-> NoSecret, next |-> 0]
IdleExecutor == [at |-> "idle", job |-> AnyJob, copy |-> NewJob,
                 secret |-> NoSecret, i |-> 0, task |-> 0, due |-> FALSE]

VARIABLES
  issued, spec,        \* job ids given out, and their requests
  disk, stored,        \* the job file, and its content while it is intact
  secretFile,          \* the stored passwords; NoSecret: missing or torn
  handler, executor,
  cluster,             \* the nodes
  ran,                 \* history: the steps the runner reported as completed
  used                 \* the bounds' counters

files == <<disk, stored, secretFile>>
hosts == <<cluster, ran>>
vars == <<issued, spec, files, handler, executor, hosts, used>>

TypeOK ==
  /\ issued \subseteq Jobs
  /\ spec \in [Jobs -> Specs]
  /\ disk \in [Jobs -> {"absent", "corrupt", "intact"}]
  /\ stored \in [Jobs -> JobRecord]
  /\ secretFile \in [Jobs -> Secrets]
  /\ handler \in [Handlers -> HandlerState]
  /\ executor \in [Executors -> ExecutorState]
  /\ cluster \in Cluster
  /\ ran \in [Jobs -> SUBSET (0 .. N - 1)]
  /\ used \in [resumes : Nat, faults : Nat, secretFaults : Nat, crashes : Nat]

Init ==
  /\ issued = {}
  /\ spec = [j \in Jobs |-> AnySpec]
  /\ disk = [j \in Jobs |-> "absent"]
  /\ stored = [j \in Jobs |-> NewJob]
  /\ secretFile = [j \in Jobs |-> NoSecret]
  /\ handler = [h \in Handlers |-> IdleHandler]
  /\ executor = [x \in Executors |-> IdleExecutor]
  /\ cluster = FreshNodes
  /\ ran = [j \in Jobs |-> {}]
  /\ used = [resumes |-> 0, faults |-> 0, secretFaults |-> 0, crashes |-> 0]

-----------------------------------------------------------------------------
(* The copy of a job, and the store.  Some definitions the properties guard *)
(* are preceded by the slips they tell from it, here and in PgsqlPlaybooks  *)
(* (the mutants of PROJECT.json; nothing else refers to them).             *)
StepSkippedTooFar(copy, i) == [copy EXCEPT !.last = i + 1, !.current = i]
StepSkipped(copy, i) == [copy EXCEPT !.last = i, !.current = i]
StepEnteredAsDone(copy, i) == [copy EXCEPT !.last = i, !.current = i]
StepEntered(copy, i) == [copy EXCEPT !.current = i]
StepRecorded(copy, i) == [copy EXCEPT !.last = i]
JobFailedAsDone(copy) == [copy EXCEPT !.status = "failed", !.last = copy.current]
JobFailedUnmarked(copy) == copy
JobFailed(copy) == [copy EXCEPT !.status = "failed"]
JobCompleted(copy) == [copy EXCEPT !.status = "completed", !.current = NoStep]

Resumable(job) == job.status \notin {"completed", "running"}
StartIndexPastFailure(job) == job.last + 2
StartIndex(job) == job.last + 1

SaveJob(j, record) ==
  /\ disk' = [disk EXCEPT ![j] = "intact"]
  /\ stored' = [stored EXCEPT ![j] = record]
  /\ UNCHANGED <<secretFile, used>>

Fault ==
  /\ used.faults < MaxFaults
  /\ used' = [used EXCEPT !.faults = @ + 1]

SaveJobFails(j) ==
  /\ Fault
  /\ disk' \in {disk, [disk EXCEPT ![j] = "corrupt"]}
  /\ UNCHANGED <<stored, secretFile>>

SaveSecret(j, secret) ==
  /\ secretFile' = [secretFile EXCEPT ![j] = secret]
  /\ UNCHANGED <<disk, stored, used>>

SecretFault ==
  /\ used.secretFaults < MaxSecretFaults
  /\ used' = [used EXCEPT !.secretFaults = @ + 1]

SaveSecretFails(j) ==
  /\ SecretFault
  /\ secretFile' \in {secretFile, [secretFile EXCEPT ![j] = NoSecret]}
  /\ UNCHANGED <<disk, stored>>

Loadable(j) == disk[j] = "intact"

-----------------------------------------------------------------------------
(* executeFrom. *)
ExecutorGoes(x, state) ==
  /\ executor' = [executor EXCEPT ![x] = state]
  /\ UNCHANGED <<issued, spec, handler>>

ExecutorSaves(x, copy, state) ==
  \/ SaveJob(executor[x].job, copy) /\ ExecutorGoes(x, state)
  \/ SaveJobFails(executor[x].job) /\ ExecutorGoes(x, IdleExecutor)

SkipStep(x) ==
  LET e == executor[x]
      copy == StepSkipped(e.copy, e.i)
  IN  /\ e.at = "loop" /\ e.i < N
      /\ Skipped(e.i, spec[e.job])
      /\ ExecutorSaves(x, copy, [e EXCEPT !.copy = copy, !.i = e.i + 1])
      /\ UNCHANGED hosts

BeginStep(x) ==
  LET e == executor[x]
      copy == StepEntered(e.copy, e.i)
  IN  /\ e.at = "loop" /\ e.i < N
      /\ ~Skipped(e.i, spec[e.job])
      /\ ExecutorSaves(x, copy, [e EXCEPT !.copy = copy, !.at = "run"])
      /\ UNCHANGED hosts

RunOf(e) == RunConfig(e.job, spec[e.job], e.secret)

NameAt(e) == Table[e.i + 1]

(* The playbook goes through the tasks of the step, on nodes that a second *)
(* run may be changing meanwhile.                                          *)
RunTask(x) ==
  LET e == executor[x]
      task == TasksOf(NameAt(e))[e.task + 1]
      d == DirectoryOf(NameAt(e))
  IN  /\ e.at = "run" /\ e.task < Len(TasksOf(NameAt(e)))
      /\ cluster' = TaskDone(task, d, e.due, cluster, RunOf(e))
      /\ ExecutorGoes(x, [e EXCEPT !.task = @ + 1,
                                   !.due = IF task = "look" THEN MustReset(d, cluster, RunOf(e))
                                                            ELSE @])
      /\ UNCHANGED <<files, used, ran>>

PlaybookEnds(x, outcome) ==
  ExecutorGoes(x, [executor[x] EXCEPT !.at = outcome, !.task = 0, !.due = FALSE])

StepSucceeds(x) ==
  LET e == executor[x]
  IN  /\ e.at = "run" /\ e.task = Len(TasksOf(NameAt(e)))
      /\ CanSucceed(NameAt(e), cluster, RunOf(e))
      /\ ran' = [ran EXCEPT ![e.job] = @ \cup {e.i}]
      /\ PlaybookEnds(x, "succeeded")
      /\ UNCHANGED <<files, used, cluster>>

(* A task fails, a wait runs out or the step's timeout kills the playbook. *)
StepFails(x) ==
  /\ executor[x].at = "run"
  /\ PlaybookEnds(x, "failed")
  /\ UNCHANGED <<files, used, hosts>>

RecordSuccess(x) ==
  LET e == executor[x]
      copy == StepRecorded(e.copy, e.i)
  IN  /\ e.at = "succeeded"
      /\ ExecutorSaves(x, copy, [e EXCEPT !.copy = copy, !.i = e.i + 1, !.at = "loop"])
      /\ UNCHANGED hosts

RecordFailureGoesOn(x) ==
  LET e == executor[x]
      copy == JobFailed(e.copy)
  IN  /\ e.at = "failed"
      /\ ExecutorSaves(x, copy, [e EXCEPT !.copy = copy, !.i = e.i + 1, !.at = "loop"])
      /\ UNCHANGED hosts
RecordFailure(x) ==
  /\ executor[x].at = "failed"
  /\ ExecutorSaves(x, JobFailed(executor[x].copy), IdleExecutor)
  /\ UNCHANGED hosts

CompleteJob(x) ==
  /\ executor[x].at = "loop" /\ executor[x].i = N
  /\ ExecutorSaves(x, JobCompleted(executor[x].copy), IdleExecutor)
  /\ UNCHANGED hosts

Execute(x) ==
  \/ SkipStep(x) \/ BeginStep(x) \/ RunTask(x) \/ StepSucceeds(x) \/ StepFails(x)
  \/ RecordSuccess(x) \/ RecordFailure(x) \/ CompleteJob(x)

-----------------------------------------------------------------------------
(* The handlers. *)
HandlerGoes(h, state) == handler' = [handler EXCEPT ![h] = state]

StartExecutor(j, from, secret) ==
  \E x \in Executors :
    /\ executor[x].at = "idle"
    /\ executor' = [executor EXCEPT ![x] =
         [at |-> "loop", job |-> j, copy |-> stored[j],
          secret |-> secret, i |-> from, task |-> 0, due |-> FALSE]]

(* Load returns an error: the file is torn, or it is intact and the read    *)
(* failed.                                                                 *)
JobNotRead(j) ==
  \/ ~Loadable(j) /\ UNCHANGED used
  \/ Loadable(j) /\ Fault

LoadAndStart(h, from) ==
  LET r == handler[h]
  IN  /\ \/ /\ Loadable(r.job)
            /\ StartExecutor(r.job, from, r.secret)
            /\ UNCHANGED used
         \/ JobNotRead(r.job) /\ UNCHANGED executor
      /\ HandlerGoes(h, IdleHandler)
      /\ UNCHANGED <<issued, spec, files, hosts>>

DeployRequest(h) ==
  /\ handler[h].at = "idle"
  /\ \E j \in Jobs \ issued, s \in Specs, secret \in DeploySecrets :
       /\ issued' = issued \cup {j}
       /\ spec' = [spec EXCEPT ![j] = s]
       /\ \/ /\ SaveJob(j, NewJob)
             /\ HandlerGoes(h, [IdleHandler EXCEPT !.at = "deploy_secret",
                                                   !.job = j, !.secret = secret])
          \/ SaveJobFails(j) /\ HandlerGoes(h, IdleHandler)
  /\ UNCHANGED <<executor, hosts>>

DeploySecret(h) ==
  LET r == handler[h]
  IN  /\ r.at = "deploy_secret"
      /\ \/ SaveSecret(r.job, r.secret) /\ HandlerGoes(h, [r EXCEPT !.at = "deploy_start"])
         \/ SaveSecretFails(r.job) /\ HandlerGoes(h, IdleHandler)
      /\ UNCHANGED <<issued, spec, executor, hosts>>

DeployStart(h) == handler[h].at = "deploy_start" /\ LoadAndStart(h, 0)

ResumeRequest(h) ==
  /\ handler[h].at = "idle"
  /\ used.resumes < MaxResumes
  /\ \E j \in Jobs, given \in ResumeSecrets :
       /\ Loadable(j)
       /\ Resumable(stored[j])
       /\ HandlerGoes(h,
            [at |-> IF StartIndex(stored[j]) >= N THEN "resume_finish"
                    ELSE IF \E a \in Accounts : given[a] = NoPassword
                         THEN "resume_load_secret" ELSE "resume_save_secret",
             job |-> j, copy |-> stored[j], secret |-> given,
             next |-> StartIndex(stored[j])])
  /\ used' = [used EXCEPT !.resumes = @ + 1]
  /\ UNCHANGED <<issued, spec, files, executor, hosts>>

ResumeFinish(h) ==
  LET r == handler[h]
  IN  /\ r.at = "resume_finish"
      /\ \/ SaveJob(r.job, [r.copy EXCEPT !.status = "completed"])
         \/ SaveJobFails(r.job)
      /\ HandlerGoes(h, IdleHandler)
      /\ UNCHANGED <<issued, spec, executor, hosts>>

(* LoadSecret found nothing: the file is missing or torn, or it is intact   *)
(* and the read failed.  Resume does not tell these apart.                 *)
SecretNotRead(j) ==
  \/ secretFile[j] = NoSecret /\ UNCHANGED used
  \/ secretFile[j] # NoSecret /\ SecretFault

(* The passwords a request brings, the others from somewhere else. *)
Filled(given, others) ==
  [a \in Accounts |-> IF given[a] = NoPassword THEN others[a] ELSE given[a]]

ResumeGeneratesUnsaved(h) ==
  /\ handler[h].at = "resume_load_secret"
  /\ \E generated \in [Accounts -> Passwords] :
       HandlerGoes(h, [handler[h] EXCEPT !.at = "resume_save",
                                         !.secret = Filled(@, generated)])
  /\ UNCHANGED <<issued, spec, files, executor, hosts, used>>
ResumeLoadSecret(h) ==
  LET r == handler[h]
      Goes(others) == HandlerGoes(h, [r EXCEPT !.at = "resume_save_secret",
                                               !.secret = Filled(@, others)])
  IN  /\ r.at = "resume_load_secret"
      /\ \/ /\ secretFile[r.job] # NoSecret
            /\ Goes(secretFile[r.job])
            /\ UNCHANGED used
         \/ /\ SecretNotRead(r.job)
            /\ \E generated \in [Accounts -> Passwords] : Goes(generated)
      /\ UNCHANGED <<issued, spec, files, executor, hosts>>

(* The passwords are written again, whether they changed or not. *)
ResumeSaveSecret(h) ==
  LET r == handler[h]
  IN  /\ r.at = "resume_save_secret"
      /\ \/ SaveSecret(r.job, r.secret) /\ HandlerGoes(h, [r EXCEPT !.at = "resume_save"])
         \/ SaveSecretFails(r.job) /\ HandlerGoes(h, IdleHandler)
      /\ UNCHANGED <<issued, spec, executor, hosts>>

ResumeSave(h) ==
  LET r == handler[h]
      copy == [r.copy EXCEPT !.status = "running"]
  IN  /\ r.at = "resume_save"
      /\ \/ SaveJob(r.job, copy) /\ HandlerGoes(h, [r EXCEPT !.at = "resume_start", !.copy = copy])
         \/ SaveJobFails(r.job) /\ HandlerGoes(h, IdleHandler)
      /\ UNCHANGED <<issued, spec, executor, hosts>>

ResumeStart(h) ==
  handler[h].at = "resume_start" /\ LoadAndStart(h, handler[h].next)

Handle(h) ==
  \/ DeploySecret(h) \/ DeployStart(h)
  \/ ResumeFinish(h) \/ ResumeLoadSecret(h) \/ ResumeSaveSecret(h)
  \/ ResumeSave(h) \/ ResumeStart(h)

Request(h) == DeployRequest(h) \/ ResumeRequest(h)

-----------------------------------------------------------------------------
(* The process dies; the write in flight may be torn, be it the first one   *)
(* of a Deploy, whose job id is then used.                                 *)
WritingJob(j) ==
  \/ \E x \in Executors :
       executor[x].job = j /\ executor[x].at \in {"loop", "succeeded", "failed"}
  \/ \E h \in Handlers :
       handler[h].job = j /\ handler[h].at \in {"resume_finish", "resume_save"}

WritingSecret(j) ==
  \E h \in Handlers :
    handler[h].job = j /\ handler[h].at \in {"deploy_secret", "resume_save_secret"}

CrashTears ==
  \/ UNCHANGED <<issued, spec, files>>
  \/ \E j \in Jobs : /\ WritingJob(j)
                     /\ disk' = [disk EXCEPT ![j] = "corrupt"]
                     /\ UNCHANGED <<issued, spec, stored, secretFile>>
  \/ \E j \in Jobs : /\ WritingSecret(j)
                     /\ secretFile' = [secretFile EXCEPT ![j] = NoSecret]
                     /\ UNCHANGED <<issued, spec, disk, stored>>
  \/ /\ \E h \in Handlers : handler[h].at = "idle"
     /\ \E j \in Jobs \ issued, s \in Specs :
          /\ issued' = issued \cup {j}
          /\ spec' = [spec EXCEPT ![j] = s]
          /\ disk' = [disk EXCEPT ![j] = "corrupt"]
     /\ UNCHANGED <<stored, secretFile>>

Crash ==
  /\ used.crashes < MaxCrashes
  /\ used' = [used EXCEPT !.crashes = @ + 1]
  /\ CrashTears
  /\ handler' = [h \in Handlers |-> IdleHandler]
  /\ executor' = [x \in Executors |-> IdleExecutor]
  /\ UNCHANGED hosts

Next ==
  \/ \E x \in Executors : Execute(x)
  \/ \E h \in Handlers : Handle(h) \/ Request(h)
  \/ Crash

Spec == Init /\ [][Next]_vars

(* The scheduler runs every goroutine.  That a playbook ends is not owed    *)
(* (PlaybookRunner): a task may hang for ever.  Clients and faults are free. *)
ExecutorProceeds(x) ==
  \/ SkipStep(x) \/ BeginStep(x)
  \/ RecordSuccess(x) \/ RecordFailure(x) \/ CompleteJob(x)

Fairness == /\ \A x \in Executors : WF_vars(ExecutorProceeds(x))
            /\ \A h \in Handlers : WF_vars(Handle(h))

FairSpec == Spec /\ Fairness

-----------------------------------------------------------------------------
Intact(j, status) == disk[j] = "intact" /\ stored[j].status = status

Settled(j, i) == i \in ran[j] \/ Skipped(i, spec[j])

(* A step the job file counts as behind the job was run to success once, or *)
(* is skipped: Resume starts behind it (service.go:138).                   *)
PersistedProgressIsReal ==
  \A j \in Jobs : disk[j] = "intact" =>
    \A i \in 0 .. stored[j].last : Settled(j, i)

(* A job is only ever shown as completed when every step of its table was  *)
(* settled, by whichever of its executors and handlers the verdict and the  *)
(* steps before it were written (service.go:139-143, 270).                 *)
CompletedJobsSettledEveryStep ==
  \A j \in Jobs : Intact(j, "completed") =>
    \A i \in 0 .. N - 1 : Settled(j, i)

(* "Resume retries for the same job do not wipe the PostgreSQL or etcd data *)
(* again" (doc/pgsql.md:141): a job resets each directory at most once,     *)
(* however often its steps fail and are run again.                         *)
ResetOncePerJob ==
  \A j \in Jobs, d \in Directories : cluster.resets[j][d] <= 1

(* When a job becomes completed its cluster runs on data its own run made,  *)
(* on every node, and the stored password of the superuser opens it: through *)
(* every partial run, stop and retry on the way, whatever passwords resumes  *)
(* brought and whichever the service generated anew because the secret file  *)
(* was torn or could not be read.  Of the other two accounts this is not so. *)
CompletedClusterIsUsable ==
  [][\A j \in Jobs :
       disk'[j] = "intact" /\ stored'[j].status = "completed" /\ ~Intact(j, "completed")
       => /\ Usable(cluster, RunConfig(j, spec[j], secretFile[j]))
          /\ cluster.data["primary"] = j]_vars

(* A node is configured only with passwords that the secret file of a job   *)
(* holds at that moment (service.go:99-105, 171-177), all three of them,   *)
(* however failed reads and writes of the file, crashes and the passwords   *)
(* of resumes follow each other: no step runs on a password whose only copy *)
(* is in memory.                                                           *)
NodesGetStoredPasswords ==
  [][\A n \in Nodes :
       cluster'.config[n] # cluster.config[n]
         => \E j \in issued : cluster'.config[n] = secretFile[j]]_vars

(* Served one request at a time, the service keeps the promise of           *)
(* JobLifecycle: Resume goes on at the step that failed, and a write never  *)
(* takes back what an earlier one recorded.                                *)
Phase == [j \in Jobs |-> CASE disk[j] = "absent" -> "none"
                           [] disk[j] = "corrupt" -> "lost"
                           [] OTHER -> stored[j].status]

StepsBehind == [j \in Jobs |-> stored[j].last + 1]

Lifecycle == INSTANCE JobLifecycle
  WITH StepCount <- N, phase <- Phase, settled <- StepsBehind

ImplementsLifecycle == Lifecycle!Spec

(* Unless a write or read fails, the process dies or a playbook never      *)
(* ends, a running job ends: no copy of a handler or an executor that       *)
(* overlaps another leaves it "running" with nothing at work on it, which   *)
(* Resume would refuse (service.go:134).                                   *)
PlaybookRuns(j) ==
  \E x \in Executors : executor[x].job = j /\ executor[x].at = "run"

RunningJobsEnd ==
  \A j \in Jobs :
    Intact(j, "running")
      ~> \/ ~Intact(j, "running")
         \/ used.faults + used.secretFaults + used.crashes > 0
         \/ []PlaybookRuns(j)
=============================================================================
