# Verification of erawan-cluster

erawan-cluster is a Go API server. It deploys MySQL InnoDB clusters and
PostgreSQL/Patroni clusters by running Ansible playbooks from background jobs,
and it writes HAProxy tenant files. This directory holds TLA+ modules of its
state, TLC configurations that check them on small instances, and proofs for
every instance. `PROJECT.json` relates every definition to source lines.

To run: `tlc -config mysql_serial.cfg MCMySQLJobs`, `tlapm MySQLJobs_proofs.tla`.

Sections: 1 inventory, 2 modules, 3 runs, 4 fairness, 5 proofs, 6 where the
properties stop holding, 7 what is not modelled, 8 plan.

## 1. Inventory of the system

| Component | State it keeps | Operations | What makes it correct |
|---|---|---|---|
| MySQL service `internal/cluster/mysql/service.go` | none of its own: each request and each goroutine works on its copy of a `Job` | Deploy, Resume, Rollback, Get, List; `executeFrom` in a goroutine | steps run in order, nothing is skipped that was not done, one executor per job, every job ends |
| MySQL store `store.go` | `<id>.json` and `<id>.secret.json` per job; a mutex around single calls | Save, SaveSecret, Load, LoadSecret, List | a file tells the truth about the hosts; a generated password is stored before it is used |
| MySQL runner `runner.go` | a temporary directory per run | run a playbook with one tag, kill it at the time-out | success is reported only when all tasks took effect; nothing takes effect after the verdict; no files stay behind; a run ends unless a task on a host never does |
| MySQL playbooks `cluster/mysql/playbooks` | the target hosts | one tag per step, and rollback | a step that is run again rebuilds what it promises |
| PostgreSQL service, store, runner `internal/cluster/pgsql` | as MySQL, with three passwords | Deploy, Resume, Get, List | as MySQL |
| PostgreSQL playbooks `cluster/pgsql/playbooks` | data directories, reset markers, etcd, Patroni | one tag per step | data is wiped once per job; the nodes get passwords that are stored |
| HAProxy service `internal/haproxy/service.go` | one `<port>.cfg` per tenant, a `.bak` while a request runs | CreateConfig, DeleteConfig, Reload, ListConfigs | what is on disk is valid and is what HAProxy serves; a failed change is undone |
| validation `validate.go` of both engines | none | trims, sets defaults, checks, writes back | what is stored is final: distinct addresses, numbers in range |
| HTTP API `cmd/api` | none | decoding, routes, API key | one call of a service per request |
| env, apikey | none | pure functions | |
| install scripts | the API host | one-time set-up | |

Interactions. An HTTP handler calls one service. `Deploy` and `Resume` save
the job and start a goroutine, which saves the job before and after each run of
a playbook; `Rollback` runs its playbook inside the request. Requests and
goroutines share only the files of the store. HAProxy and the API process share
the tenants directory; a reload is a command.

What is hard. Handlers and goroutines interleave between calls of the store;
the process may die anywhere and is restarted by systemd (`Restart=always`);
writes truncate before they write, and reads of an intact file may fail; playbooks fail, or are killed with their
effect partly there; everything is retried by the client. `PROJECT.json` lists
each of these hazards at its line.

## 2. Modules

| Module | Models | Relation |
|---|---|---|
| `JobLifecycle` | what a deployment service promises of a job: abstract | implemented by `MySQLJobs`, `PgsqlJobs` |
| `StepRun` | what the services take a run of a playbook for: abstract | implemented by `PlaybookRunner` |
| `TenantTable` | what the HAProxy service promises: abstract | implemented by `HAProxyTenants` |
| `MySQLSteps` | step table, skipping, counting of progress | extended by `MySQLPlaybooks` |
| `MySQLPlaybooks` | what each task file needs, takes down and leaves | extended by `MySQLJobs` |
| `MySQLJobs` | MySQL service and store | makes its steps of `StepRun` |
| `PgsqlPlaybooks` | steps, their tasks, resets and markers, passwords, bootstrap | extended by `PgsqlJobs` |
| `PgsqlJobs` | PostgreSQL service and store | makes its steps of `StepRun` |
| `PlaybookRunner` | `Runner.run` of both engines, os/exec, Ansible | |
| `ClusterRequests` | validation and deploy/resume handlers of both engines, what is stored of a request, the application account | |
| `HAProxyTenants` | HAProxy service, its files, the reload, HAProxy | |
| `MC...` | constants for TLC | |
| `..._proofs` | theorems, of the module of that name | `MySQLSerial_proofs` extends `MySQLJobs_proofs`, `PgsqlSerial_proofs` `PgsqlJobs_proofs`, `HAProxyTable_proofs` `HAProxyTenants_proofs` |

### State and actions of `MySQLJobs` and `PgsqlJobs`

`disk` and `stored` are `<id>.json`; `disk` tells a missing or undecodable file
from a good one. `secretFile` is `<id>.secret.json`. `spec` is `Job.Request`.
`handler[h]` is an HTTP request that is being served and `executor[x]` a
goroutine in `executeFrom`; each has its own `copy` of the job, as in the code,
where every `Load` decodes a new `Job`. `inPlace`, `account` (MySQL) and
`cluster` (PostgreSQL) are the hosts. `ran` is a history variable.

A lock of the store covers one `Save` or one `Load`. So an action ends where a
call of the store or a run of a playbook ends, and everything in between
belongs to it: `RecordSuccess` is the assignment of the results in `executeFrom`
together with its `Save` and the error return of that `Save`.

| Code | Actions |
|---|---|
| `Deploy` | `DeployRequest` (first `Save`), `DeploySecret`, `DeployStart` |
| `Resume` | `ResumeRequest` (`Load`, checks), `ResumeFinish` (nothing left), `ResumeLoadSecret`, `ResumeSaveSecret`, `ResumeSave`, `ResumeStart` (second `Load`, `go`) |
| `Rollback` | `RollbackRequest`, `RollbackRun`, `RollbackSave` |
| `executeFrom` | `SkipStep`, `BeginStep`, `StepSucceeds`/`StepFails`, `RecordSuccess`/`RecordFailure`, `CompleteJob` |
| failing `os.WriteFile` | `SaveJobFails`, `SaveSecretFails` in each action that writes |
| failing `os.ReadFile` | `JobNotRead` in `DeployStart` and `ResumeStart`, `SecretNotRead` in `ResumeLoadSecret`; where a request starts with the read, nothing changes |
| death of the process | `Crash`, which may tear the write in flight, of either file, the first one of `Deploy` included |

A MySQL playbook is described by the effects it needs, takes down and leaves
(`Task`); a failing run stops anywhere on that way. A PostgreSQL playbook is cut
at the tasks that look at or change a node (`TasksOf`, `RunTask`), because there
the resets, their markers and the configured password matter: `look` registers
whether the marker is missing, and the two halves of the reset script, `wipe` and
`mark`, go by what was registered, whatever another run has done meanwhile. A run
may fail between any two tasks. Nodes belong to one job in `MySQLJobs`; in
`PgsqlJobs` all jobs share them, since the markers are made to tell jobs apart.

### State and actions of `PlaybookRunner`

`at` is the position in `Runner.run`: one action per file it writes (`WriteInventory`,
`WriteVars`), `Start` and `Reap` for the two halves of `cmd.Run`, `Report` for what
follows it; `GiveUp` is each early return. `workspace` is the temporary directory,
emptied by the deferred `RemoveAll` in `Return`. `ctx` is `stepCtx`: it expires, or is
cancelled when the run is a rollback's, whose request may go away. `Kill` is the
watcher of os/exec. Ansible's main process has one worker per host do a task
(`NextTask`, `WorkerDone`). `Kill` and everything of Ansible are external; what
matters of them is that a kill hits the main process and not the workers, and
that `Cmd.Wait` waits for the output pipes, which the workers hold
(`WorkersHoldPipes`).

### State and actions of `ClusterRequests`

A text is told apart by its core (empty, matching the patterns, an address) and
by whether spaces surround it, which is what `TrimSpace` and the patterns see.
`Normalized` is what `ValidateDeployRequest` writes into the request, `Valid` what it
refuses. `Deploy` stores the request without its password, which `memory` keeps
for the goroutine; `Resume` is `ValidateResumeSecrets` and the check of service.go:150;
`StepSucceeds`, `StepFails` and `Complete` are `executeFrom` with all steps before
`init_app_db` counted as one. `account` is the application account's password.

### State and actions of `HAProxyTenants`

`file[p]` and `backup[p]` are `<port>.cfg` and `<port>.cfg.bak`. `served` is
what HAProxy's worker was started with and `reloading` that the master was
signalled. `handler[h].at` is the position in `CreateConfig`, `DeleteConfig` or
`Reload`. The code has no lock, so an action is one operation on a file
(`os.WriteFile` and `copyFile` are two each: they truncate, then write), the reload
command or the verification. Each write, rename and removal may fail. `HAProxyLoads` is a step of HAProxy's own: the reload command
returns before the files are read. Contents are only told apart by whether
HAProxy accepts them. `used` counts requests and faults against the bounds.

## 3. Runs

`CHECK_DEADLOCK FALSE` in all of them: when the bounded requests are served the
server waits for the next one, so it may stop. The bounds are constants named
`Max...`, compared in guards and counted in `used`; nothing else reads `used`.

| Run | Question | Bounds |
|---|---|---|
| `mysql_serial` | do retries, one at a time, keep the promise of `JobLifecycle`, resume at the right step, show the right progress; is every password a step gives the account stored first, or a client's | all 7 steps, 3 kinds of request, 2 passwords, 3 resumes with and without a password, 2 failed writes or reads, 1 crash |
| `mysql_races` | can any order of concurrent copies make a file claim an unsettled step; does every running job end | 4 steps, 2 requests at a time, 2 executors, 1 resume, 1 rollback, 1 failed write or read, 1 crash |
| `mysql_two_resumes` | (violated) is there one executor per job | 2 resumes, no fault |
| `mysql_resume_after_rollback` | (violated) does a resume find the effects it stands on | 2 resumes, 1 rollback |
| `pgsql_serial` | are directories reset once per job; is a completed cluster usable with the stored password of the superuser; do the nodes get only passwords that are stored; `JobLifecycle` | all 7 steps, 4 kinds of request, 2 passwords for each of 3 accounts, 3 resumes that bring none, the superuser's, the other two or all, 1 failed write or read of a job file, 1 of a secret file, 1 crash |
| `pgsql_races` | as `mysql_races` | steps 2 to 4, 2 requests at a time, 3 resumes (the third meets a failed job whose last step another executor recorded), each kind of fault once |
| `pgsql_two_jobs` | (violated) is a directory reset once per job when another job uses the nodes | 5 steps, 1 resume, no fault |
| `haproxy_tenants` | does each request take effect completely or not at all, and do torn writes, failed undos and crashes stay on the ports they hit (`TenantTable`); is every file acceptable when nothing runs and none of these came in between; does the undo restore the right content | 2 ports, a client each, a content HAProxy refuses, 4 requests, 2 faults of the reload or the verification, 1 failed rename or removal, 1 torn write, 1 crash |
| `haproxy_served` | does HAProxy serve what is on disk | 2 ports that both clients change, 2 good contents, 4 requests, no fault |
| `haproxy_same_port` | (violated) as `haproxy_tenants`, two clients on one port | 2 requests, no fault |
| `runner` | is a run what the services take it for (`StepRun`); are its files there as long as it lasts and no longer; does it end unless a task on a host never does | 2 hosts, 3 tasks, 2 runs; nothing bounds time-outs, kills and failures |
| `requests` | is what is stored of a request final; does the account get the password asked for, up to the spaces around it | 25 + 125 requests that differ in names and database fields, 2,883 in hosts, 150 in numbers; any number of resumes |

Why the bounds are enough. A race here is between two parties over one job or
one port, and a third adds no new pair: two handlers and two executors (two
goroutines of one job need two resumes). Three resumes allow a step to fail,
another to fail after it, and a third attempt to go on. The short tables keep
the steps that destroy each other's effects and one that can be skipped; the
serial runs have the whole table. With one failed write or read and one crash each can
hit any action, also one after the other; with two failures of the files a read can fail
where an earlier write has. Two hosts let one be ahead of the other
and two runs let the workers of the first meet the second. The requests take
every value around each check, and the checks of different fields do not depend
on each other. The theorems of section 5 hold for every value of the bounds,
unless a hypothesis named there sets one to 0.

`expect: violation` runs show where code and text disagree:

* `mysql_two_resumes`: the check "job is already running" (service.go:138) and
  the write of `running` (168) are under separate locks; two overlapping resumes
  start two goroutines that run the steps of one job.
* `mysql_resume_after_rollback`: a failed rollback removes effects but keeps
  `last_completed_step`; a resume starts behind steps whose effect is gone, or
  completes the job with nothing run.
* `pgsql_two_jobs`: the etcd marker lies in the directory that another job's
  reset empties; doc/pgsql.md:141 promises that a resume does not wipe again.
* `haproxy_same_port`: two creates of one port share the `.bak`; the second
  backs up, and then restores, what HAProxy refused from the first.

## 4. Fairness

Fairness is assumed in `mysql_races`, `pgsql_races` and `runner`, for their one
liveness property each; it is weak everywhere.

`RunningJobsEnd` needs it per goroutine, between the runs of playbooks:
`WF_vars(ExecutorProceeds(x))` and `WF_vars(HandlerProceeds(h))` (in `PgsqlJobs`, which
has no rollback, `Handle(h)`). The Go scheduler runs every goroutine that is ready, and
the store's mutex is held only during one file operation. That a playbook ends is
not assumed: nothing in the code makes it so. The property lets off a job whose
playbook runs for ever (`[]PlaybookRuns(j)`), and what happens after a failed write or
read or a crash: see section 6. Requests and crashes are owed by nobody.

`RunsEnd` needs it of the caller (`Call`), of the timer and of the watcher of os/exec
(`Expire`, `Kill`). Nothing is asked of Ansible: its main process may hang for ever, the
kill ends it. A worker may hang as well: the kill hits the main process alone
(runner.go:170), the shell tasks have no time-out, and `Cmd.Wait` then waits for the
worker's pipe without a limit (`WaitDelay` is 0). So `RunsEnd` says that a run ends
unless one worker stays busy for ever, and that nothing else can hold it.

Weak fairness is enough: no other action disables these for good.

## 5. Proofs

`MySQLJobs_proofs`, for every table, set of jobs, number of handlers and
executors and every bound, from the `ASSUME`s of `MySQLJobs` alone:

* `TypeCorrect`: `[]TypeOK`.
* `ProgressIsReal`: `[]PersistedProgressIsReal`.
* `CompletionIsReal`: `[]CompletedJobsSettledEveryStep`.

Neither property is inductive: a file is written from a copy, so the invariant
has to speak of the copies. `IInv` is `TypeInv` (the types, and an executor with a
step in hand has its index inside the table), `FilesTrue` (a file exists only
for an issued job, and an intact one is true), `HandlersTrue` and
`ExecutorsTrue` (each copy is true, and every step below a handler's start index
or an executor's index is settled). A copy
stays true because `ran` only grows and `spec` does not change once a job is
issued (`HistoryKept`). Then every `Save` writes a true copy, whichever wins:
that is why races, torn writes and crashes do no harm to this property.

`PgsqlJobs_proofs` has the same three theorems with the same argument; its
`TypeCorrect` covers the nodes at task level.

`MySQLSerial_proofs`, for requests served one at a time (`OneRequestAtATime`: there
is one handler; goroutines of earlier requests go on beside it) and never rolled
back (`NoRollbacks`), with any number of jobs, requests, resumes, failed and torn
writes, failed reads and crashes:

* `OneExecutor`, `FailureNamesTheStep`, `ProgressIsExact`: always `OneExecutorPerJob`,
  `FailureNamesTheNextStep`, `ProgressCountsApplicableSteps`.
* `ResumeStands`, `CompletedIsInPlace`: `[]ResumeStandsOnItsSteps` and
  `CompletedMeansInPlace`, if no step of the table takes down what an earlier one
  has left (`TableInOrder`; the lemma `StepsInOrder` shows it of the table of
  `NewService`).
* `LifecycleKept`: `Spec => ImplementsLifecycle`, the refinement of `JobLifecycle`.
* `AdminPasswordIsStored`: `AdminPasswordStoredFirst`.

Both hypotheses are needed: `mysql_two_resumes`,
`mysql_resume_after_rollback` and the rows on `MaxRollbacks` in section 6 are what
happens without them. None of these properties is inductive. `SerialInv`,
on top of `IInv`, says that of all the copies of a job at most one is in use
(`OwnedOnce`), and that it is equal to the file (`OnFile`, in `OrderlyExecutor` and
`OrderlyHandler`). Resume is then refused for a job whose executor runs, since
the file it reads says `running`, and whatever is written is the next state of the
file. `OrderlyFile` describes the file: a failed one names the next step, and counts
each applicable step behind it once. `EffectsInv` adds that what
lies behind the file's last step, or behind a success not yet recorded, is
on the hosts. In the refinement only a write of the job file changes the phase or the
steps behind a job; every step of `MySQLJobs` is one of `JobLifecycle` or a stutter.

`AdminPasswordIsStored` has an invariant of its own, `PasswordInv`, on top of `SerialInv`: the
password of an executor, and of a handler that is past its write of the secret
(`PastSecret`), is in the secret file of its job or is a client's. Nothing writes the
file of a job that somebody owns but its owner, since there is one owner. It does not say that
what the account has stays stored: a later resume whose read fails overwrites it, as
section 6 shows.

`PgsqlSerial_proofs`, for requests served one at a time, with failed and torn
writes and failed reads of both files, crashes, and whatever passwords resumes bring:

* `LifecycleKept`: `Spec => ImplementsLifecycle`, by the argument of
  `MySQLSerial_proofs`.
* `ResetOnce`: `[]ResetOncePerJob`, if there is one job (`OneJob`; `pgsql_two_jobs` is
  what happens with two). `ResetsInv` says that a directory was reset as often as its
  marker is there, and that a look that found no marker is still right when
  the task that wipes or marks runs. A reset is counted when it is marked: a run
  cut between the two tasks leaves an empty directory, which may be emptied again.
* `CompletedIsUsable`: `CompletedClusterIsUsable`, with one job, if the last step
  that a request does not skip is one that checks (`ChecksLast`; lemma
  `StepsCheckLast`). `UsableInv` carries the check from the last step to the verdict:
  nothing else changes the nodes in between, and `SerialInv` has the password the step
  was run with in the secret file. Both checking steps log in as the superuser
  (06_verify_cluster.yml:63-70), so the theorem is about that account alone; section 6 shows
  a completed job whose two other stored passwords open nothing.
* `StoredPasswordsReachNodes`: `NodesGetStoredPasswords`. `SerialInv` says that the three
  passwords of an executor are those in the secret file, from the write of the file before
  it starts to its end; a failed or torn write ends the request that made it, and no
  step runs on its passwords. That a database keeps the passwords its job has
  stored is false, with or without a fault: section 6.

`HAProxyTenants_proofs`, for every set of ports, contents and handlers:

* `TypeCorrect`: `[]TypeOK`, `BackupFound` included.
* `OldConfigKept`: if no two clients manage one port (`OneManagerPerPort`), then
  `[]OldConfigIsAtHand`.
* `ServedFollowsDisk`: if HAProxy accepts every content and no command, write or
  process fails (`NothingFails`), then `[]ServedIsOnDisk`, with any number of clients
  on the same ports.

`OldConfigIsAtHand` alone is not inductive: the copy is made one action after the
request noted the file. `IInv` adds that a handler only works on ports of its
client (`KeepsToItsPorts`) and that the file is unchanged until it is copied
(`CopyIsDue`). A step of one handler leaves another's port alone (`HandlerStep`);
a crash makes all handlers idle, so an old `.bak` is promised to nobody. The
assumption is needed: `haproxy_same_port` is what happens without it.

`ServedInv` says that as long as a handler is at a place from which it goes on to
a reload, or a reload is under way, nothing is claimed, and otherwise every port
is served as it is on disk. Every change of a file puts its handler at such a
place. `NothingFails` is strong because one failed reload is enough to break the property:
see the rows of `haproxy_served` in section 6.

`HAProxyTable_proofs`, if no two clients manage one port:

* `RestServable`: `[]RestIsServable`.
* `TablePromised`: `Spec => ImplementsTable`, the refinement of `TenantTable`.

The refinement needs to know, for each position of a handler, what its file holds
(`Kept(h)`: the old content until it is truncated, the new one after the write), and that a
request has a backup exactly when it found a file (`BackupFound`, part of `TypeOK`), on top of
`IInv`; then an undo that does not fail restores what the file was. Only `Accept`, the
answers, torn writes, undos and crashes change the table or what is asked of it; each
maps to an action of `TenantTable` (a failed undo to the same `Interrupt` as a torn write),
and every other step stutters. `RestServable`
follows from `Servable`, which says of every port no handler is at that its
content is one HAProxy has accepted.

`PlaybookRunner_proofs`, for every set of hosts and number of tasks:

* `TypeCorrect`, and `WorkspaceLasts`: `[]WorkspaceLastsAsLongAsTheRun`.
* `RunnerImplementsStepRun`: if the workers hold the pipes (`WorkersHoldPipes`),
  `Spec => ImplementsStepRun`.

`IInv` ties the place of the call to the files (`PlaceInv`), to the process and its
workers (`WorkInv`: a succeeded process means all tasks done and no worker busy)
and to the pipes (`PipeInv`: no worker is busy once the call has returned).

`ClusterRequests_proofs`, for every set of texts, patterns, addresses, requests and
resume passwords:

* `TypeCorrect`; `StoredIsFinalAlways`: `[]StoredRequestIsFinal`;
  `AccountAsAsked`: `[]AppAccountIsAsAsked`.

The work is in the lemma `StoredIsFinal`, about the operators alone: trimming and
defaults change a text once (`TrimOnce`, `DefaultOnce`, `TrimmedListOnce`), so a
second validation changes no field (`ValidatedFields`) and checks what the first
has checked. `AccountInv` relates the account, the password in memory and the one
last asked for while the job goes on.

Only model-checked: liveness under fairness, which is out of the prover's reach
(`RunningJobsEnd` in `mysql_races` and `pgsql_races`, `RunsEnd` in `runner`). Every
other property of a passing run is stated by a theorem, under hypotheses that its
run satisfies.

## 6. Where the properties stop holding

The passing runs are chosen so that a property is checked where the code can
keep it. These changes, of a constant or of what is asked, make TLC show a
counterexample; each says something about the code that a maintainer should know.

| Run, change | Property that breaks | Because |
|---|---|---|
| `mysql_races`, `pgsql_races`, any fault or crash | `RunningJobsEnd` without the part about `used` | after a restart nothing executes the job, its status stays `running` and Resume refuses it (mysql/service.go:138, pgsql/service.go:134); so it does when a `Save` fails in the executor, or the second `Load` of Deploy or Resume (mysql/service.go:108, 172; pgsql/service.go:107, 185) |
| `mysql_races`, `pgsql_races`, `runner`, no change | `RunningJobsEnd` without `[]PlaybookRuns(j)`, `RunsEnd` without the part about a busy worker | a task that hangs on a host outlives the kill and holds the pipe; `cmd.Run` waits for it without a limit (runner.go:166-170), the step's time-out notwithstanding, and the job is `running` for good |
| `mysql_serial`, `MaxRollbacks = 1` | `OneExecutorPerJob` | Rollback accepts a job that is running (service.go:187) and its failure saves the status `failed`; Resume then starts a second goroutine beside the first |
| `mysql_serial`, `MaxRollbacks = 1` | `FailureNamesTheNextStep` | the same save: the job is `failed` although none of its steps has failed |
| `mysql_serial`, `ResumePasswords <- NoneSupplied`, one failed read | `\A j \in Jobs : account[j] \in {secretFile[j], NoPassword}` | a step fails after it has given the account the stored password; the resume cannot read the secret file, takes that for no secret, generates another password and writes it over the stored one (mysql/service.go:153-163): what the hosts have is now nowhere |
| `mysql_serial`, `MaxRollbacks = 1` | `ProgressCountsApplicableSteps` | the result of a rollback is counted as a completed step (service.go:372) |
| `pgsql_races`, `ResetOncePerJob` added | `ResetOncePerJob` | two executors of one job look for the marker before either has set it, and both wipe |
| `pgsql_serial` with one of: a failed read of the secret file; a crash in `ResumeSaveSecret`; a resume that brings passwords. No other fault | `\A j \in Jobs : Intact(j, "failed") /\ cluster.data["primary"] = j => secretFile[j] = cluster.accounts` | once the primary is initialised its passwords are fixed, but Resume writes the secret file anew: with generated passwords when it cannot read the stored ones (pgsql/service.go:149-177), with the client's, or not to the end. doc/pgsql.md:91 says that the automation "generates and manages" them, index.html:260 that it "persists" them "for deploy and resume flows". After a change of the superuser's password no resume can complete the job, unless it brings the old one: the check logs in with the new |
| the same | `\A j \in Jobs : Intact(j, "completed") => secretFile[j] = cluster.accounts` | only the superuser's password is ever checked (06_verify_cluster.yml:63-70): with a generated or supplied password for one of the two other accounts, the job completes with a stored password that opens nothing |
| `haproxy_tenants`, no change | `RestIsServable` without `used.files = 0` | the undo ignores that its rename or removal failed (service.go:146-156, 190-194): a refused file stays, and every tenant's reload fails until somebody removes it |
| `haproxy_served`, `MaxFaults = 1` | `ServedIsOnDisk` | a reload killed after the signal counts as failed, and its undo does not reload (service.go:144-150) |
| `haproxy_served`, a refused content and `Manages <- OnePortEach` | `ServedIsOnDisk` | the second reload fails because of another tenant's file and its error is ignored (service.go:158) |
| `runner`, `WorkersHoldPipes = FALSE` | `ImplementsStepRun` | the kill leaves the workers alone; only the wait for their pipes keeps a task from taking effect after the step was recorded as failed, beside its retry |

Seen on the way, and no property of their own:

* The MySQL service does not store a password supplied with a resume
  (service.go:153), so a later resume without one gives the account back the
  stored one. `AdminPasswordStoredFirst` therefore lets a step use a client's.
* A torn write or a crash, too, may leave a file that HAProxy refuses;
  `RestIsServable` says so in its first line.
* `Deploy` keeps the spaces around `new_user_password`, Resume trims them
  (validate.go:102): a resumed job gives the account another password than the
  request had. `AppAccountIsAsAsked` compares cores.
* One host in two spellings of its address is not detected as a duplicate.
* A run that had ended when its watcher fired counts as failed although all tasks
  are done; its message is "step execution timed out" whenever `stepCtx` has expired.
* The branches of the handlers that answer 422 are never reached: no operation of
  the services returns a job together with an error.

## 7. What is not modelled

Reads (`Get`, `List`, `ListConfigs`), timestamps, routing, the API key, the
environment, the log of a playbook and the text of messages change no state. The
check of the SSH configuration runs once at start-up and asks the file system for
a file. The password that Rollback loads is not used by its playbook.
`ClusterRequests` does not compose with the job modules: the requests they take are
the parts of a stored request that their steps depend on (`StoredSpec`). In
`PlaybookRunner` the tasks of a play are alike and run on all hosts; `serial` plays
and the SSH connection are not told apart. Not told apart either: single MySQL
hosts, several standbys (so a partial run between nodes is one between the primary and
the standbys), the etcd directories of several nodes, contents that HAProxy
accepts although they are torn, and a port that HAProxy cannot bind. A crash of
the service is taken to end its playbooks, as systemd does with the processes of
a unit it stops (`KillMode` is not set in the units of the install scripts). An `os.Stat`
of CreateConfig that fails for another reason than a missing file, after which the
service takes no backup (haproxy/service.go:133), is not modelled.

## 8. Plan

1. Weaker hypotheses in `PgsqlSerial_proofs`: several jobs whose nodes are apart.
2. Consequences of the abstract modules, which their implementations inherit through
   the refinements: that a completed job stays
   completed until its file is lost, and that what a run left does not change after
   its verdict.
3. `MySQLPlaybooks` cut at tasks, as `PgsqlPlaybooks` is.
