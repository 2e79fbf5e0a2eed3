------------------------------ MODULE MySQLJobs ------------------------------
(***************************************************************************)
(* The MySQL deployment service: HTTP handlers (Deploy, Resume, Rollback), *)
(* the goroutines that execute a job's steps, and the two files the store  *)
(* keeps for a job (internal/cluster/mysql/service.go and store.go).       *)
(*                                                                         *)
(* Store.mu protects one Save or Load, never a Load and the Save that      *)
(* follows it.  So a handler is a sequence of actions, cut at each call of *)
(* the store and at the run of a playbook, and every handler and every     *)
(* executor works on a copy of the job of its own.                         *)
(*                                                                         *)
(* Covered: every state change of the service, failed and torn writes and  *)
(* failed reads of both files, a crash of the API process                  *)
(* (systemd restarts it with the files it finds), steps that time out      *)
(* after they took effect.                                                 *)
(* Not covered: reads (Get, List), timestamps, error texts, and requests   *)
(* that validation rejects, none of which changes the state.               *)
(***************************************************************************)
EXTENDS MySQLPlaybooks

CONSTANTS
  Table,            \* the step table of the service (Service.steps)
  Jobs,             \* job ids newJobID can return
  Specs,            \* the deployment requests clients make
  Passwords,        \* cluster admin passwords, given or generated
  ResumePasswords,  \* what resume requests carry: passwords or NoPassword
  NoPassword,       \* the empty password
  Handlers,         \* HTTP requests the server works on at a time
  Executors,        \* goroutines that execute a job at a time
  MaxResumes, MaxRollbacks,  \* bound: accepted resumes and rollbacks
  MaxFaults, MaxCrashes      \* bound: failed writes and reads, crashes

N == Len(Table)
NoStep == -1

ASSUME TableAssumption == Table \in Seq(Step)
ASSUME ParameterAssumption ==
  /\ Jobs # {} /\ Specs # {} /\ Specs \subseteq StoredSpec
  /\ Passwords # {} /\ NoPassword \notin Passwords
  /\ ResumePasswords \subseteq Passwords \cup {NoPassword}
ASSUME BoundAssumption ==
  /\ MaxResumes \in Nat /\ MaxRollbacks \in Nat
  /\ MaxFaults \in Nat /\ MaxCrashes \in Nat

Skipped(i, s) == ShouldSkipStep(Table[i + 1], s)

(***************************************************************************)
(* State.                                                                  *)
(***************************************************************************)
Statuses == {"running", "failed", "completed", "rolled_back"}

(* Job, without the fields that never change after Deploy (they are in     *)
(* spec) and with its list of step results reduced to the number of those  *)
(* with status "completed": deploy steps in done, rollbacks in rollbacks.  *)
JobRecord == [status : Statuses, last : -1 .. N - 1, current : -1 .. N - 1,
              done : Nat, rollbacks : Nat]

NewJob == [status |-> "running", last |-> -1, current |-> NoStep,
           done |-> 0, rollbacks |-> 0]

AnyJob == CHOOSE j \in Jobs : TRUE
AnySpec == CHOOSE s \in Specs : TRUE

HandlerPCs == {"idle", "deploy_secret", "deploy_start", "resume_finish",
               "resume_load_secret", "resume_save_secret", "resume_save",
               "resume_start", "rollback_run", "rollback_save"}

HandlerState == [at : HandlerPCs, job : Jobs, copy : JobRecord,
                 password : Passwords \cup {NoPassword}, next : 0 .. N]

ExecutorPCs == {"idle", "loop", "run", "succeeded", "failed"}

ExecutorState == [at : ExecutorPCs, job : Jobs, copy : JobRecord,
                  password : Passwords \cup {NoPassword}, i : 0 .. N]

IdleHandler == [at |-> "idle", job |-> AnyJob, copy |-> NewJob,
                password |-> NoPassword, next |-> 0]

IdleExecutor == [at |-> "idle", job |-> AnyJob, copy |-> NewJob,
                 password |-> NoPassword, i |-> 0]

VARIABLES
  issued,      \* job ids given to a deployment
  spec,        \* the request of each issued job (Job.Request)
  disk,        \* the job file: "absent", "corrupt" or "intact"
  stored,      \* the content of the job file while it is intact
  secretFile,  \* the stored admin password, or NoPassword: missing or unreadable
  handler, executor,
  inPlace,     \* the steps whose effect is on the hosts of a job
  account,     \* the password of the cluster admin account on those hosts
  ran,         \* history: the steps the runner reported as completed
  used         \* the bounds' counters

files == <<disk, stored, secretFile>>
hosts == <<inPlace, account, ran>>
vars == <<issued, spec, files, handler, executor, hosts, used>>

TypeOK ==
  /\ issued \subseteq Jobs
  /\ spec \in [Jobs -> Specs]
  /\ disk \in [Jobs -> {"absent", "corrupt", "intact"}]
  /\ stored \in [Jobs -> JobRecord]
  /\ secretFile \in [Jobs -> Passwords \cup {NoPassword}]
  /\ handler \in [Handlers -> HandlerState]
  /\ executor \in [Executors -> ExecutorState]
  /\ inPlace \in [Jobs -> SUBSET StepNames]
  /\ account \in [Jobs -> Passwords \cup {NoPassword}]
  /\ ran \in [Jobs -> SUBSET (0 .. N - 1)]
  /\ used \in [resumes : Nat, rollbacks : Nat, faults : Nat, crashes : Nat]

Init ==
  /\ issued = {}
  /\ spec = [j \in Jobs |-> AnySpec]
  /\ disk = [j \in Jobs |-> "absent"]
  /\ stored = [j \in Jobs |-> NewJob]
  /\ secretFile = [j \in Jobs |-> NoPassword]
  /\ handler = [h \in Handlers |-> IdleHandler]
  /\ executor = [x \in Executors |-> IdleExecutor]
  /\ inPlace = [j \in Jobs |-> {}]
  /\ account = [j \in Jobs |-> NoPassword]
  /\ ran = [j \in Jobs |-> {}]
  /\ used = [resumes |-> 0, rollbacks |-> 0, faults |-> 0, crashes |-> 0]

(***************************************************************************)
(* What the service writes into its copy of a job.                         *)
(***************************************************************************)
(* Each definition the properties guard is preceded by the slips they tell  *)
(* from it (the mutants of PROJECT.json; nothing else refers to them).      *)
StepSkippedTooFar(copy, i) == [copy EXCEPT !.last = i + 1, !.current = i]
StepSkippedAsResult(copy, i) ==
  [copy EXCEPT !.last = i, !.current = i, !.done = @ + 1]
StepSkipped(copy, i) == [copy EXCEPT !.last = i, !.current = i]

StepEnteredUnnamed(copy, i) == copy
StepEnteredAsDone(copy, i) == [copy EXCEPT !.last = i, !.current = i]
StepEntered(copy, i) == [copy EXCEPT !.current = i]

StepRecorded(copy, i) == [copy EXCEPT !.last = i, !.done = @ + 1]

JobFailedAsDone(copy) == [copy EXCEPT !.status = "failed", !.last = copy.current]
JobFailedUnmarked(copy) == copy
JobFailed(copy) == [copy EXCEPT !.status = "failed"]

JobCompleted(copy) == [copy EXCEPT !.status = "completed", !.current = NoStep]
JobRolledBack(copy) ==
  [copy EXCEPT !.status = "rolled_back", !.rollbacks = @ + 1]

(* The checks of Resume and the step it starts with. *)
ResumableWhileRunning(job) == job.status \notin {"completed", "rolled_back"}
Resumable(job) == job.status \notin {"completed", "rolled_back", "running"}

StartIndexPastFailure(job) == job.last + 2
StartIndex(job) == job.last + 1

(***************************************************************************)
(* The store.                                                              *)
(***************************************************************************)
SaveJob(j, record) ==
  /\ disk' = [disk EXCEPT ![j] = "intact"]
  /\ stored' = [stored EXCEPT ![j] = record]
  /\ UNCHANGED <<secretFile, used>>

Fault ==
  /\ used.faults < MaxFaults
  /\ used' = [used EXCEPT !.faults = @ + 1]

(* os.WriteFile truncates before it writes: an error leaves the old content *)
(* or a file that does not decode.                                          *)
SaveJobFails(j) ==
  /\ Fault
  /\ disk' \in {disk, [disk EXCEPT ![j] = "corrupt"]}
  /\ UNCHANGED <<stored, secretFile>>

SaveSecret(j, password) ==
  /\ secretFile' = [secretFile EXCEPT ![j] = password]
  /\ UNCHANGED <<disk, stored, used>>

SaveSecretFails(j) ==
  /\ Fault
  /\ secretFile' \in {secretFile, [secretFile EXCEPT ![j] = NoPassword]}
  /\ UNCHANGED <<disk, stored>>

Loadable(j) == disk[j] = "intact"

(***************************************************************************)
(* The executor of a job: executeFrom.  Every Save that fails ends it.     *)
(***************************************************************************)
ExecutorGoes(x, state) ==
  /\ executor' = [executor EXCEPT ![x] = state]
  /\ UNCHANGED <<issued, spec, handler>>

ExecutorSaves(x, copy, state) ==
  \/ /\ SaveJob(executor[x].job, copy)
     /\ ExecutorGoes(x, state)
  \/ /\ SaveJobFails(executor[x].job)
     /\ ExecutorGoes(x, IdleExecutor)

(* The step is skipped: it counts as completed without a run. *)
SkipStep(x) ==
  LET e == executor[x]
      copy == StepSkipped(e.copy, e.i)
  IN  /\ e.at = "loop" /\ e.i < N
      /\ Skipped(e.i, spec[e.job])
      /\ ExecutorSaves(x, copy, [e EXCEPT !.copy = copy, !.i = e.i + 1])
      /\ UNCHANGED hosts

BeginStep(x) ==
  LET e == executor[x]
      copy == StepEntered(e.copy, e.i)
  IN  /\ e.at = "loop" /\ e.i < N
      /\ ~Skipped(e.i, spec[e.job])
      /\ ExecutorSaves(x, copy, [e EXCEPT !.copy = copy, !.at = "run"])
      /\ UNCHANGED hosts

(* The playbook of the step runs, outside every lock. *)
StepSucceeds(x) ==
  LET e == executor[x]
      name == Table[e.i + 1].name
  IN  /\ e.at = "run"
      /\ CanSucceed(name, spec[e.job], inPlace[e.job])
      /\ inPlace' = [inPlace EXCEPT ![e.job] = StepDone(name, spec[e.job], @)]
      /\ account' = [account EXCEPT
           ![e.job] = IF SetsAdminPassword(name, spec[e.job]) THEN e.password ELSE @]
      /\ ran' = [ran EXCEPT ![e.job] = @ \cup {e.i}]
      /\ ExecutorGoes(x, [e EXCEPT !.at = "succeeded"])
      /\ UNCHANGED <<files, used>>

(* The playbook fails, or is killed at the step timeout with its effect    *)
(* partly or wholly there.                                                 *)
StepFails(x) ==
  LET e == executor[x]
      name == Table[e.i + 1].name
  IN  /\ e.at = "run"
      /\ \E left \in StepOutcomesOnFailure(name, spec[e.job], inPlace[e.job]) :
           inPlace' = [inPlace EXCEPT ![e.job] = left]
      /\ \E p \in {account[e.job]} \cup
                  (IF SetsAdminPassword(name, spec[e.job]) THEN {e.password} ELSE {}) :
           account' = [account EXCEPT ![e.job] = p]
      /\ ran' = ran
      /\ ExecutorGoes(x, [e EXCEPT !.at = "failed"])
      /\ UNCHANGED <<files, used>>

RecordSuccess(x) ==
  LET e == executor[x]
      copy == StepRecorded(e.copy, e.i)
  IN  /\ e.at = "succeeded"
      /\ ExecutorSaves(x, copy, [e EXCEPT !.copy = copy, !.i = e.i + 1, !.at = "loop"])
      /\ UNCHANGED hosts

RecordFailure(x) ==
  LET e == executor[x]
  IN  /\ e.at = "failed"
      /\ ExecutorSaves(x, JobFailed(e.copy), IdleExecutor)
      /\ UNCHANGED hosts

CompleteJob(x) ==
  LET e == executor[x]
  IN  /\ e.at = "loop" /\ e.i = N
      /\ ExecutorSaves(x, JobCompleted(e.copy), IdleExecutor)
      /\ UNCHANGED hosts

Execute(x) ==
  \/ SkipStep(x) \/ BeginStep(x) \/ StepSucceeds(x) \/ StepFails(x)
  \/ RecordSuccess(x) \/ RecordFailure(x) \/ CompleteJob(x)

(***************************************************************************)
(* The handlers.                                                           *)
(***************************************************************************)
HandlerGoes(h, state) == handler' = [handler EXCEPT ![h] = state]

(* s.start: a goroutine on the copy of the job that is loaded here. *)
StartExecutor(j, from, password) ==
  \E x \in Executors :
    /\ executor[x].at = "idle"
    /\ executor' = [executor EXCEPT ![x] =
         [at |-> "loop", job |-> j, copy |-> stored[j],
          password |-> password, i |-> from]]

(* Load returns an error: the file is torn, or it is intact and the read    *)
(* failed.  Where a request starts with it, it then changes nothing.       *)
JobNotRead(j) ==
  \/ ~Loadable(j) /\ UNCHANGED used
  \/ Loadable(j) /\ Fault

(* Load and start, or the error of Load; the request ends here. *)
LoadAndStart(h, from) ==
  LET r == handler[h]
  IN  /\ \/ /\ Loadable(r.job)
            /\ StartExecutor(r.job, from, r.password)
            /\ UNCHANGED used
         \/ JobNotRead(r.job) /\ UNCHANGED executor
      /\ HandlerGoes(h, IdleHandler)
      /\ UNCHANGED <<issued, spec, files, hosts>>

DeployRequest(h) ==
  /\ handler[h].at = "idle"
  /\ \E j \in Jobs \ issued, s \in Specs, p \in Passwords :
       /\ issued' = issued \cup {j}
       /\ spec' = [spec EXCEPT ![j] = s]
       /\ \/ /\ SaveJob(j, NewJob)
             /\ HandlerGoes(h, [IdleHandler EXCEPT !.at = "deploy_secret",
                                                   !.job = j, !.password = p])
          \/ SaveJobFails(j) /\ HandlerGoes(h, IdleHandler)
  /\ UNCHANGED <<executor, hosts>>

DeploySecret(h) ==
  LET r == handler[h]
  IN  /\ r.at = "deploy_secret"
      /\ \/ /\ SaveSecret(r.job, r.password)
            /\ HandlerGoes(h, [r EXCEPT !.at = "deploy_start"])
         \/ SaveSecretFails(r.job) /\ HandlerGoes(h, IdleHandler)
      /\ UNCHANGED <<issued, spec, executor, hosts>>

DeployStart(h) == handler[h].at = "deploy_start" /\ LoadAndStart(h, 0)

(* The part of Resume up to its first write.  Only a failed job passes the *)
(* checks; new_user_password is given whenever the job needs one.          *)
ResumeRequest(h) ==
  /\ handler[h].at = "idle"
  /\ used.resumes < MaxResumes
  /\ \E j \in Jobs, p \in ResumePasswords :
       /\ Loadable(j)
       /\ Resumable(stored[j])
       /\ HandlerGoes(h,
            [at |-> IF StartIndex(stored[j]) >= N THEN "resume_finish"
                    ELSE IF p = NoPassword THEN "resume_load_secret"
                    ELSE "resume_save",
             job |-> j, copy |-> stored[j], password |-> p,
             next |-> StartIndex(stored[j])])
  /\ used' = [used EXCEPT !.resumes = @ + 1]
  /\ UNCHANGED <<issued, spec, files, executor, hosts>>

(* Nothing is left to run: the job becomes completed and the error of Save *)
(* is ignored.                                                             *)
ResumeFinish(h) ==
  LET r == handler[h]
  IN  /\ r.at = "resume_finish"
      /\ \/ SaveJob(r.job, [r.copy EXCEPT !.status = "completed"])
         \/ SaveJobFails(r.job)
      /\ HandlerGoes(h, IdleHandler)
      /\ UNCHANGED <<issued, spec, executor, hosts>>

ResumeGeneratesSecret(h) ==
  LET r == handler[h]
  IN  /\ r.at = "resume_load_secret"
      /\ \E generated \in Passwords :
           HandlerGoes(h, [r EXCEPT !.at = "resume_save", !.password = generated])
      /\ UNCHANGED <<issued, spec, files, executor, hosts, used>>

(* LoadSecret found no secret: the file is missing or torn, or it is intact *)
(* and the read failed.  Resume does not tell these apart.                  *)
SecretNotRead(j) ==
  \/ secretFile[j] = NoPassword /\ UNCHANGED used
  \/ secretFile[j] # NoPassword /\ Fault

ResumeLoadSecret(h) ==
  LET r == handler[h]
  IN  /\ r.at = "resume_load_secret"
      /\ \/ /\ secretFile[r.job] # NoPassword
            /\ HandlerGoes(h, [r EXCEPT !.at = "resume_save",
                                        !.password = secretFile[r.job]])
            /\ UNCHANGED used
         \/ /\ SecretNotRead(r.job)
            /\ \E generated \in Passwords :
                 HandlerGoes(h, [r EXCEPT !.at = "resume_save_secret",
                                          !.password = generated])
      /\ UNCHANGED <<issued, spec, files, executor, hosts>>

ResumeSaveSecret(h) ==
  LET r == handler[h]
  IN  /\ r.at = "resume_save_secret"
      /\ \/ /\ SaveSecret(r.job, r.password)
            /\ HandlerGoes(h, [r EXCEPT !.at = "resume_save"])
         \/ SaveSecretFails(r.job) /\ HandlerGoes(h, IdleHandler)
      /\ UNCHANGED <<issued, spec, executor, hosts>>

ResumeSave(h) ==
  LET r == handler[h]
      copy == [r.copy EXCEPT !.status = "running"]
  IN  /\ r.at = "resume_save"
      /\ \/ /\ SaveJob(r.job, copy)
            /\ HandlerGoes(h, [r EXCEPT !.at = "resume_start", !.copy = copy])
         \/ SaveJobFails(r.job) /\ HandlerGoes(h, IdleHandler)
      /\ UNCHANGED <<issued, spec, executor, hosts>>

(* The goroutine gets the job as it is loaded again, and the start index   *)
(* of the first load.                                                      *)
ResumeStart(h) ==
  handler[h].at = "resume_start" /\ LoadAndStart(h, handler[h].next)

(* Rollback accepts a job in any status.  The password it reads is not     *)
(* used by the rollback playbook, so LoadSecret is left out.               *)
RollbackRequest(h) ==
  /\ handler[h].at = "idle"
  /\ used.rollbacks < MaxRollbacks
  /\ \E j \in Jobs :
       /\ Loadable(j)
       /\ HandlerGoes(h, [IdleHandler EXCEPT !.at = "rollback_run",
                                             !.job = j, !.copy = stored[j]])
  /\ used' = [used EXCEPT !.rollbacks = @ + 1]
  /\ UNCHANGED <<issued, spec, files, executor, hosts>>

(* The playbook runs inside the request, outside every lock; it is killed  *)
(* when the client goes away.                                              *)
RollbackRun(h) ==
  LET r == handler[h]
  IN  /\ r.at = "rollback_run"
      /\ \/ /\ inPlace' = [inPlace EXCEPT ![r.job] = RollbackDone(@)]
            /\ HandlerGoes(h, [r EXCEPT !.at = "rollback_save",
                                        !.copy = JobRolledBack(@)])
         \/ /\ \E left \in RollbackOutcomesOnFailure(inPlace[r.job]) :
                 inPlace' = [inPlace EXCEPT ![r.job] = left]
            /\ HandlerGoes(h, [r EXCEPT !.at = "rollback_save",
                                        !.copy = JobFailed(@)])
      /\ UNCHANGED <<issued, spec, files, executor, account, ran, used>>

RollbackSave(h) ==
  LET r == handler[h]
  IN  /\ r.at = "rollback_save"
      /\ SaveJob(r.job, r.copy) \/ SaveJobFails(r.job)
      /\ HandlerGoes(h, IdleHandler)
      /\ UNCHANGED <<issued, spec, executor, hosts>>

Handle(h) ==
  \/ DeploySecret(h) \/ DeployStart(h)
  \/ ResumeFinish(h) \/ ResumeLoadSecret(h) \/ ResumeSaveSecret(h)
  \/ ResumeSave(h) \/ ResumeStart(h)
  \/ RollbackRun(h) \/ RollbackSave(h)

Request(h) == DeployRequest(h) \/ ResumeRequest(h) \/ RollbackRequest(h)

(***************************************************************************)
(* The API process dies: every request and goroutine is gone, the write in *)
(* flight, at most one because of Store.mu, may be torn.  It may be the    *)
(* first one of a Deploy, whose job id is then used.  At its restart the   *)
(* service looks at no job.                                                *)
(***************************************************************************)
WritingJob(j) ==
  \/ \E x \in Executors : executor[x].job = j /\ executor[x].at \in {"loop", "succeeded", "failed"}
  \/ \E h \in Handlers : /\ handler[h].job = j
                         /\ handler[h].at \in {"resume_finish", "resume_save", "rollback_save"}

WritingSecret(j) ==
  \E h \in Handlers : /\ handler[h].job = j
                      /\ handler[h].at \in {"deploy_secret", "resume_save_secret"}

Crash ==
  /\ used.crashes < MaxCrashes
  /\ used' = [used EXCEPT !.crashes = @ + 1]
  /\ handler' = [h \in Handlers |-> IdleHandler]
  /\ executor' = [x \in Executors |-> IdleExecutor]
  /\ \/ UNCHANGED <<issued, spec, files>>
     \/ \E j \in Jobs : /\ WritingJob(j)
                        /\ disk' = [disk EXCEPT ![j] = "corrupt"]
                        /\ UNCHANGED <<issued, spec, stored, secretFile>>
     \/ \E j \in Jobs : /\ WritingSecret(j)
                        /\ secretFile' = [secretFile EXCEPT ![j] = NoPassword]
                        /\ UNCHANGED <<issued, spec, disk, stored>>
     \/ /\ \E h \in Handlers : handler[h].at = "idle"
        /\ \E j \in Jobs \ issued, s \in Specs :
             /\ issued' = issued \cup {j}
             /\ spec' = [spec EXCEPT ![j] = s]
             /\ disk' = [disk EXCEPT ![j] = "corrupt"]
        /\ UNCHANGED <<stored, secretFile>>
  /\ UNCHANGED hosts

Next ==
  \/ \E x \in Executors : Execute(x)
  \/ \E h \in Handlers : Handle(h) \/ Request(h)
  \/ Crash

Spec == Init /\ [][Next]_vars

(* A goroutine that can go on does.  That a playbook ends is not owed: the *)
(* runner waits without a limit for what its kill leaves behind            *)
(* (PlaybookRunner).  Nor are requests and crashes.                        *)
ExecutorProceeds(x) ==
  \/ SkipStep(x) \/ BeginStep(x)
  \/ RecordSuccess(x) \/ RecordFailure(x) \/ CompleteJob(x)

HandlerProceeds(h) ==
  \/ DeploySecret(h) \/ DeployStart(h)
  \/ ResumeFinish(h) \/ ResumeLoadSecret(h) \/ ResumeSaveSecret(h)
  \/ ResumeSave(h) \/ ResumeStart(h) \/ RollbackSave(h)

Fairness ==
  /\ \A x \in Executors : WF_vars(ExecutorProceeds(x))
  /\ \A h \in Handlers : WF_vars(HandlerProceeds(h))

FairSpec == Spec /\ Fairness

(***************************************************************************)
(* Properties.                                                             *)
(***************************************************************************)
Intact(j, status) == disk[j] = "intact" /\ stored[j].status = status

Settled(j, i) == i \in ran[j] \/ Skipped(i, spec[j])

(* A step that the job file counts as behind the job was really run to     *)
(* success once, or is one its request skips.  Resume relies on it when it *)
(* starts at last_completed_step + 1 (service.go:142), whatever copies of  *)
(* the job raced, were lost in a crash or were written over each other.    *)
PersistedProgressIsReal ==
  \A j \in Jobs : disk[j] = "intact" =>
    \A i \in 0 .. stored[j].last : Settled(j, i)

(* A job is only ever shown as completed when every step of its table was  *)
(* settled, also when Resume completes it without running anything         *)
(* (service.go:143-149).                                                   *)
CompletedJobsSettledEveryStep ==
  \A j \in Jobs : Intact(j, "completed") =>
    \A i \in 0 .. N - 1 : Settled(j, i)

(* When a job becomes completed, the effects of all the steps it had to    *)
(* run are on the hosts: no later run of an earlier step, by a retry after *)
(* a time-out or by another executor, and no rollback has taken them down. *)
CompletedMeansInPlace ==
  [][\A j \in Jobs :
       disk'[j] = "intact" /\ stored'[j].status = "completed"
         /\ ~Intact(j, "completed")
       => \A i \in Applicable(Table, spec[j]) :
            Table[i + 1].name \in Lasting => Table[i + 1].name \in inPlace[j]]_vars

(* A resume goes on from the point of failure (index.html:334-335): what    *)
(* the steps before its start index leave on the hosts is still there.     *)
ResumeStandsOnItsSteps ==
  \A h \in Handlers :
    LET r == handler[h]
    IN  r.at \in {"resume_finish", "resume_load_secret", "resume_save_secret",
                 "resume_save", "resume_start"}
        => \A i \in Applicable(Table, spec[r.job]) :
             i < r.next /\ Table[i + 1].name \in Lasting
               => Table[i + 1].name \in inPlace[r.job]

(* No two goroutines execute steps of the same job: what Resume refuses    *)
(* with "job is already running" (service.go:138-139).                     *)
OneExecutorPerJob ==
  \A x, y \in Executors :
    /\ executor[x].at # "idle" /\ executor[y].at # "idle"
    /\ executor[x].job = executor[y].job
    => x = y

(* A failed job's file names in current_step the step that Resume starts   *)
(* with, last_completed_step + 1, also after several failures and after    *)
(* writes that failed.                                                     *)
FailureNamesTheNextStep ==
  \A j \in Jobs : Intact(j, "failed") => stored[j].current = stored[j].last + 1

(* completed_steps counts the applicable steps up to last_completed_step,  *)
(* once each: TestUpdateJobProgressCountsOnlyApplicableCompletedSteps      *)
(* (service_test.go:11), for every history of a job.                       *)
ProgressCountsApplicableSteps ==
  \A j \in Jobs : disk[j] = "intact" =>
    JobProgress(Table, spec[j], stored[j].status,
                stored[j].done + stored[j].rollbacks).completed =
      Cardinality({i \in Applicable(Table, spec[j]) : i <= stored[j].last})

(* A step gives the cluster admin account only a password that the secret  *)
(* file holds at that moment, or that a client supplied with a resume      *)
(* (service.go:103, 153-163): however failures, failed reads and writes of *)
(* the file, crashes and resumes follow each other, a generated password   *)
(* reaches the hosts only after it was stored.  That it stays stored is    *)
(* not so: a resume whose read of the file fails writes a new one over it. *)
AdminPasswordStoredFirst ==
  [][\A j \in Jobs :
       account'[j] # account[j]
         => account'[j] \in {secretFile[j]} \cup ResumePasswords]_vars

(* Served one request at a time, without rollbacks, the service keeps the   *)
(* promise of JobLifecycle: Resume goes on at the step that failed, no      *)
(* write takes back what an earlier one recorded, and completed is final.   *)
Phase ==
  [j \in Jobs |-> CASE disk[j] = "absent" -> "none"
                    [] disk[j] = "corrupt" -> "lost"
                    [] OTHER -> stored[j].status]

StepsBehind == [j \in Jobs |-> stored[j].last + 1]

Lifecycle == INSTANCE JobLifecycle
  WITH StepCount <- N, phase <- Phase, settled <- StepsBehind

ImplementsLifecycle == Lifecycle!Spec

(* Unless a write or read fails, the process dies or a playbook never      *)
(* ends, a job that is running ends as completed, failed or rolled back:   *)
(* whatever resumes and rollbacks overlap it, no copy leaves it "running"  *)
(* with nothing at work on it.                                             *)
PlaybookRuns(j) ==
  \E x \in Executors : executor[x].job = j /\ executor[x].at = "run"

RunningJobsEnd ==
  \A j \in Jobs :
    Intact(j, "running")
      ~> \/ ~Intact(j, "running")
         \/ used.faults + used.crashes > 0
         \/ []PlaybookRuns(j)
=============================================================================
