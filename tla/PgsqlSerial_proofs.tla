-------------------------- MODULE PgsqlSerial_proofs --------------------------
(***************************************************************************)
(* Theorems about PgsqlJobs when requests are served one at a time: the    *)
(* service keeps the promise of JobLifecycle, configures nodes with stored  *)
(* passwords only, and one job on its nodes resets their directories once   *)
(* and completes on a cluster its superuser can use.  Writes and reads may  *)
(* fail, resumes may bring passwords and the process may die anywhere.      *)
(*                                                                         *)
(* The argument for the files is that of MySQLSerial_proofs: of all the    *)
(* copies of a job at most one is in use, and it is equal to the file.  So  *)
(* at most one playbook runs for a job at a time, and what its look at a   *)
(* reset marker found still holds when it wipes and marks (ResetsInv).     *)
(* Nothing changes the nodes between the last check that succeeds and the   *)
(* verdict (UsableInv).  And a run is given the passwords in the secret     *)
(* file, which stay there while it is at work (SerialInv).                 *)
(***************************************************************************)
EXTENDS PgsqlJobs_proofs

OneRequestAtATime == \A g, h \in Handlers : g = h

(* A handler or an executor in state p works on job j. *)
OnJob(p, j) == p.at # "idle" /\ p.job = j

OwnedOnce ==
  /\ \A x, y \in Executors, j \in Jobs :
       OnJob(executor[x], j) /\ OnJob(executor[y], j) => x = y
  /\ \A x \in Executors, h \in Handlers, j \in Jobs :
       ~(OnJob(executor[x], j) /\ OnJob(handler[h], j))

(* A failed job has failed in a step that Resume runs again. *)
OrderlyJob(j, job) ==
  job.status = "failed" => job.last + 1 < N /\ ~Skipped(job.last + 1, spec[j])

OrderlyFile(j) ==
  /\ disk[j] = "absent" => stored[j] = NewJob
  /\ disk[j] = "intact" => OrderlyJob(j, stored[j])

OnFile(j, copy) == disk[j] = "intact" /\ stored[j] = copy

OrderlyExecutor(e) ==
  /\ OnFile(e.job, e.copy)
  /\ e.copy.status = "running" /\ e.copy.last + 1 = e.i
  /\ e.at # "loop" => ~Skipped(e.i, spec[e.job])
  /\ secretFile[e.job] = e.secret

OrderlyHandler(r) ==
  /\ OnFile(r.job, r.copy)
  /\ r.next = r.copy.last + 1
  /\ \/ /\ r.at \in {"deploy_secret", "deploy_start"}
        /\ r.next = 0 /\ r.copy.status = "running"
     \/ /\ r.at \in {"resume_load_secret", "resume_save_secret", "resume_save"}
        /\ r.copy.status = "failed"
     \/ /\ r.at = "resume_start" /\ r.copy.status = "running"
        /\ r.next < N /\ ~Skipped(r.next, spec[r.job])
  /\ r.at \in {"deploy_start", "resume_save", "resume_start"}
       => secretFile[r.job] = r.secret

(* The inductive invariant, on top of IInv. *)
SerialInv ==
  /\ OwnedOnce
  /\ \A j \in Jobs : OrderlyFile(j)
  /\ \A x \in Executors : executor[x].at # "idle" => OrderlyExecutor(executor[x])
  /\ \A h \in Handlers : handler[h].at # "idle" => OrderlyHandler(handler[h])

-----------------------------------------------------------------------------
(* A step is about one job: what is known of the others does not change.   *)
Untouched(j) ==
  /\ disk'[j] = disk[j] /\ stored'[j] = stored[j]
  /\ secretFile'[j] = secretFile[j] /\ spec'[j] = spec[j]

LEMMA FileUntouched ==
  ASSUME NEW j \in Jobs, Untouched(j), OrderlyFile(j)
  PROVE  OrderlyFile(j)'
BY DEF Untouched, OrderlyFile, OrderlyJob, Skipped

LEMMA ExecutorUntouched ==
  ASSUME NEW e, Untouched(e.job), OrderlyExecutor(e)
  PROVE  OrderlyExecutor(e)'
BY DEF Untouched, OrderlyExecutor, OnFile, Skipped

LEMMA HandlerUntouched ==
  ASSUME NEW r, Untouched(r.job), OrderlyHandler(r)
  PROVE  OrderlyHandler(r)'
BY DEF Untouched, OrderlyHandler, OnFile, Skipped

(* The owner of job j moves on with it, or leaves it. *)
LEMMA ExecutorMoves ==
  ASSUME TypeInv, SerialInv, NEW x \in Executors, NEW j \in Jobs, NEW state,
         OnJob(executor[x], j),
         executor' = [executor EXCEPT ![x] = state], UNCHANGED handler,
         state.at = "idle" \/ (state.job = j /\ OrderlyExecutor(state)'),
         OrderlyFile(j)', \A k \in Jobs \ {j} : Untouched(k)
  PROVE  SerialInv'
<1>1. executor \in [Executors -> ExecutorState] /\ handler \in [Handlers -> HandlerState]
  BY DEF TypeInv, TypeOK
<1>2. executor'[x] = state /\ \A y \in Executors \ {x} : executor'[y] = executor[y]
  BY <1>1
<1>3. \A y \in Executors : \A k \in Jobs : OnJob(executor[y], k)' => OnJob(executor[y], k)
  BY <1>1, <1>2 DEF OnJob
<1>4. OwnedOnce'
  <2>1. OwnedOnce
    BY DEF SerialInv
  <2>2. ASSUME NEW y \in Executors, NEW z \in Executors, NEW k \in Jobs,
               OnJob(executor[y], k)', OnJob(executor[z], k)'
        PROVE  y = z
    BY <1>3, <2>1, <2>2 DEF OwnedOnce
  <2>3. ASSUME NEW y \in Executors, NEW h \in Handlers, NEW k \in Jobs,
               OnJob(executor[y], k)', OnJob(handler[h], k)'
        PROVE  FALSE
    <3>1. OnJob(handler[h], k)
      BY <2>3 DEF OnJob
    <3> QED BY <1>3, <2>1, <2>3, <3>1 DEF OwnedOnce
  <2> QED BY <2>2, <2>3 DEF OwnedOnce
<1>5. ASSUME NEW k \in Jobs
      PROVE  OrderlyFile(k)'
  <2>1. CASE k = j
    BY <2>1
  <2>2. CASE k # j
    BY <2>2, FileUntouched DEF SerialInv
  <2> QED BY <2>1, <2>2
<1>6. ASSUME NEW y \in Executors, executor'[y].at # "idle"
      PROVE  OrderlyExecutor(executor[y])'
  <2>1. CASE y = x
    <3>1. OrderlyExecutor(state)'
      BY <1>2, <1>6, <2>1
    <3> QED BY <1>2, <2>1, <3>1 DEF OrderlyExecutor, OnFile, Skipped
  <2>2. CASE y # x
    <3>1. PICK e : e = executor[y]
      OBVIOUS
    <3>2. e.at # "idle" /\ e.job \in Jobs /\ executor'[y] = e
      BY <1>1, <1>2, <1>6, <2>2, <3>1 DEF ExecutorState
    <3>3. e.job # j
      BY <2>2, <3>1, <3>2 DEF SerialInv, OwnedOnce, OnJob
    <3>4. OrderlyExecutor(e)
      BY <3>1, <3>2 DEF SerialInv
    <3>5. OrderlyExecutor(e)'
      BY <3>2, <3>3, <3>4, ExecutorUntouched
    <3> QED BY <3>2, <3>5 DEF OrderlyExecutor, OnFile, Skipped
  <2> QED BY <2>1, <2>2
<1>7. ASSUME NEW h \in Handlers, handler'[h].at # "idle"
      PROVE  OrderlyHandler(handler[h])'
  <2>1. PICK r : r = handler[h]
    OBVIOUS
  <2>2. r.at # "idle" /\ r.job \in Jobs
    BY <1>1, <1>7, <2>1 DEF HandlerState
  <2>3. r.job # j
    BY <2>1, <2>2 DEF SerialInv, OwnedOnce, OnJob
  <2>4. OrderlyHandler(r)
    BY <2>1, <2>2 DEF SerialInv
  <2>5. OrderlyHandler(r)'
    BY <2>2, <2>3, <2>4, HandlerUntouched
  <2> QED BY <2>1, <2>5 DEF OrderlyHandler, OnFile, Skipped
<1> QED BY <1>4, <1>5, <1>6, <1>7 DEF SerialInv

LEMMA HandlerMoves ==
  ASSUME OneRequestAtATime, TypeInv, SerialInv, NEW h \in Handlers, NEW j \in Jobs,
         NEW state,
         \A x \in Executors : ~OnJob(executor[x], j),
         HandlerGoes(h, state), UNCHANGED executor,
         state.at = "idle" \/ (state.job = j /\ OrderlyHandler(state)'),
         OrderlyFile(j)', \A k \in Jobs \ {j} : Untouched(k)
  PROVE  SerialInv'
<1>1. executor \in [Executors -> ExecutorState] /\ handler \in [Handlers -> HandlerState]
  BY DEF TypeInv, TypeOK
<1>2. \A g \in Handlers : g = h /\ handler'[g] = state
  BY <1>1 DEF OneRequestAtATime, HandlerGoes
<1>3. OwnedOnce'
  <2>1. ASSUME NEW y \in Executors, NEW z \in Executors, NEW k \in Jobs,
               OnJob(executor[y], k)', OnJob(executor[z], k)'
        PROVE  y = z
    BY <2>1 DEF OwnedOnce, OnJob, SerialInv
  <2>2. ASSUME NEW y \in Executors, NEW g \in Handlers, NEW k \in Jobs,
               OnJob(executor[y], k)', OnJob(handler[g], k)'
        PROVE  FALSE
    BY <1>2, <2>2 DEF OnJob
  <2> QED BY <2>1, <2>2 DEF OwnedOnce
<1>4. ASSUME NEW k \in Jobs
      PROVE  OrderlyFile(k)'
  <2>1. CASE k = j
    BY <2>1
  <2>2. CASE k # j
    BY <2>2, FileUntouched DEF SerialInv
  <2> QED BY <2>1, <2>2
<1>5. ASSUME NEW y \in Executors, executor'[y].at # "idle"
      PROVE  OrderlyExecutor(executor[y])'
  <2>1. PICK e : e = executor[y]
    OBVIOUS
  <2>2. e.at # "idle" /\ e.job \in Jobs /\ executor'[y] = e
    BY <1>1, <1>5, <2>1 DEF ExecutorState
  <2>3. e.job # j
    BY <2>1, <2>2 DEF OnJob
  <2>4. OrderlyExecutor(e)
    BY <2>1, <2>2 DEF SerialInv
  <2>5. OrderlyExecutor(e)'
    BY <2>2, <2>3, <2>4, ExecutorUntouched
  <2> QED BY <2>2, <2>5 DEF OrderlyExecutor, OnFile, Skipped
<1>6. ASSUME NEW g \in Handlers, handler'[g].at # "idle"
      PROVE  OrderlyHandler(handler[g])'
  <2>1. handler'[g] = state /\ OrderlyHandler(state)'
    BY <1>2, <1>6
  <2> QED BY <2>1 DEF OrderlyHandler, OnFile, Skipped
<1> QED BY <1>3, <1>4, <1>5, <1>6 DEF SerialInv

-----------------------------------------------------------------------------
(* What a Save leaves of the file, and what it leaves alone. *)
LEMMA JobSaved ==
  ASSUME TypeInv, NEW j \in Jobs, NEW copy, SaveJob(j, copy),
         UNCHANGED spec, OrderlyJob(j, copy)
  PROVE  /\ OrderlyFile(j)' /\ OnFile(j, copy)'
         /\ \A k \in Jobs \ {j} : Untouched(k)
<1>1. disk'[j] = "intact" /\ stored'[j] = copy
  BY DEF SaveJob, TypeInv, TypeOK
<1>2. OrderlyJob(j, stored[j])'
  BY <1>1 DEF OrderlyJob, Skipped
<1>3. \A k \in Jobs \ {j} : Untouched(k)
  BY DEF SaveJob, Untouched, TypeInv, TypeOK
<1> QED BY <1>1, <1>2, <1>3 DEF OnFile, OrderlyFile

LEMMA JobNotSaved ==
  ASSUME TypeInv, NEW j \in Jobs, SaveJobFails(j), UNCHANGED spec, OrderlyFile(j)
  PROVE  /\ OrderlyFile(j)'
         /\ \A k \in Jobs \ {j} : Untouched(k)
<1>1. (disk'[j] = disk[j] \/ disk'[j] = "corrupt") /\ stored' = stored
  BY DEF SaveJobFails, Fault, TypeInv, TypeOK
<1>2. OrderlyFile(j)'
  BY <1>1 DEF OrderlyFile, OrderlyJob, Skipped
<1>3. \A k \in Jobs \ {j} : Untouched(k)
  BY DEF SaveJobFails, Fault, Untouched, TypeInv, TypeOK
<1> QED BY <1>2, <1>3

LEMMA ExecutorSavesOrderly ==
  ASSUME TypeInv, SerialInv, NEW x \in Executors, NEW j \in Jobs, NEW copy, NEW state,
         OnJob(executor[x], j), ExecutorSaves(x, copy, state), OrderlyJob(j, copy),
         \/ state.at = "idle"
         \/ /\ state.job = j /\ state.copy = copy
            /\ state.secret = executor[x].secret
            /\ copy.status = "running" /\ copy.last + 1 = state.i
            /\ state.at # "loop" => ~Skipped(state.i, spec[j])
  PROVE  SerialInv'
<1>1. /\ executor[x].at # "idle" /\ executor[x].job = j
      /\ OrderlyExecutor(executor[x]) /\ OrderlyFile(j)
  BY DEF SerialInv, OnJob
<1>2. secretFile[j] = executor[x].secret
  BY <1>1 DEF OrderlyExecutor
<1>3. CASE SaveJob(j, copy) /\ ExecutorGoes(x, state)
  <2>1. UNCHANGED <<spec, handler, secretFile>>
    BY <1>3 DEF ExecutorGoes, SaveJob
  <2>2. OrderlyFile(j)' /\ OnFile(j, copy)' /\ \A k \in Jobs \ {j} : Untouched(k)
    BY <1>3, <2>1, JobSaved
  <2>3. state.at = "idle" \/ (state.job = j /\ OrderlyExecutor(state)')
    BY <1>2, <2>1, <2>2 DEF OrderlyExecutor, Skipped
  <2> QED BY <1>3, <2>1, <2>2, <2>3, ExecutorMoves DEF ExecutorGoes
<1>4. CASE SaveJobFails(j) /\ ExecutorGoes(x, IdleExecutor)
  <2>1. UNCHANGED <<spec, handler>>
    BY <1>4 DEF ExecutorGoes
  <2>2. OrderlyFile(j)' /\ \A k \in Jobs \ {j} : Untouched(k)
    BY <1>1, <1>4, <2>1, JobNotSaved
  <2>3. IdleExecutor.at = "idle"
    BY DEF IdleExecutor
  <2> QED BY <1>4, <2>1, <2>2, <2>3, ExecutorMoves DEF ExecutorGoes
<1> QED BY <1>1, <1>3, <1>4 DEF ExecutorSaves

(* The steps of an executor. *)
LEMMA ExecuteOrderly ==
  ASSUME TypeInv, SerialInv, NEW x \in Executors, Execute(x)
  PROVE  SerialInv'
<1>1. PICK e : e = executor[x]
  OBVIOUS
<1>2. PICK j : j = e.job
  OBVIOUS
<1>3. /\ e \in ExecutorState /\ e.copy \in JobRecord /\ e.i \in 0 .. N /\ N \in Nat
      /\ j \in Jobs /\ e.copy.last \in Int
  BY <1>1, <1>2, Constants DEF TypeInv, TypeOK, ExecutorState, JobRecord
<1>4. e.at # "idle"
  BY <1>1 DEF Execute, SkipStep, BeginStep, RunTask, StepSucceeds, StepFails, RecordSuccess,
              RecordFailure, CompleteJob
<1>5. OnJob(e, j) /\ OrderlyExecutor(e) /\ OrderlyFile(j)
  BY <1>1, <1>2, <1>3, <1>4 DEF OnJob, SerialInv
<1>6. e.copy.status = "running" /\ e.copy.last + 1 = e.i
  BY <1>5 DEF OrderlyExecutor
<1>7. CASE SkipStep(x)
  <2> DEFINE copy == StepSkipped(e.copy, e.i)
             state == [e EXCEPT !.copy = copy, !.i = e.i + 1]
  <2>1. copy.status = "running" /\ copy.last = e.i
    BY <1>3, <1>6 DEF StepSkipped, JobRecord
  <2>2. /\ state.at = "loop" /\ state.job = j /\ state.copy = copy
        /\ state.secret = e.secret /\ state.i = e.i + 1
    BY <1>1, <1>2, <1>3, <1>7 DEF ExecutorState, SkipStep
  <2>3. ExecutorSaves(x, copy, state)
    BY <1>1, <1>7 DEF SkipStep
  <2>4. OrderlyJob(j, copy)
    BY <2>1 DEF OrderlyJob
  <2> QED BY <1>1, <1>3, <1>5, <2>1, <2>2, <2>3, <2>4, ExecutorSavesOrderly
<1>8. CASE BeginStep(x)
  <2> DEFINE copy == StepEntered(e.copy, e.i)
             state == [e EXCEPT !.copy = copy, !.at = "run"]
  <2>1. ~Skipped(e.i, spec[j])
    BY <1>1, <1>2, <1>8 DEF BeginStep
  <2>2. copy.status = "running" /\ copy.last = e.copy.last
    BY <1>3, <1>6 DEF StepEntered, JobRecord
  <2>3. /\ state.at = "run" /\ state.job = j /\ state.copy = copy
        /\ state.secret = e.secret /\ state.i = e.i
    BY <1>2, <1>3 DEF ExecutorState
  <2>4. ExecutorSaves(x, copy, state)
    BY <1>1, <1>8 DEF BeginStep
  <2>5. OrderlyJob(j, copy)
    BY <2>2 DEF OrderlyJob
  <2> QED BY <1>1, <1>3, <1>5, <1>6, <2>1, <2>2, <2>3, <2>4, <2>5, ExecutorSavesOrderly
<1>9. ASSUME NEW state, ExecutorGoes(x, state), UNCHANGED files, e.at = "run",
             state.job = j, state.copy = e.copy, state.secret = e.secret,
             state.i = e.i
      PROVE  SerialInv'
  <2>1. UNCHANGED <<disk, stored, secretFile, spec, handler>>
    BY <1>9 DEF ExecutorGoes, files
  <2>2. \A k \in Jobs : Untouched(k)
    BY <2>1 DEF Untouched
  <2>3. OrderlyFile(j)'
    BY <1>3, <1>5, <2>2, FileUntouched
  <2>4. OrderlyExecutor(state)'
    BY <1>2, <1>5, <1>9, <2>1 DEF OrderlyExecutor, OnFile, Skipped
  <2> QED BY <1>1, <1>3, <1>5, <1>9, <2>1, <2>2, <2>3, <2>4, ExecutorMoves DEF ExecutorGoes
<1>10. CASE RunTask(x)
  <2>1. PICK due : ExecutorGoes(x, [e EXCEPT !.task = @ + 1, !.due = due])
    BY <1>1, <1>10 DEF RunTask
  <2> DEFINE state == [e EXCEPT !.task = @ + 1, !.due = due]
  <2>2. /\ state.job = j /\ state.copy = e.copy
        /\ state.secret = e.secret /\ state.i = e.i
    BY <1>2, <1>3 DEF ExecutorState
  <2> HIDE DEF state
  <2>3. ExecutorGoes(x, state) /\ UNCHANGED files /\ e.at = "run"
    BY <1>1, <1>10, <2>1 DEF RunTask, state
  <2> QED BY <1>9, <2>2, <2>3
<1>11. CASE StepSucceeds(x) \/ StepFails(x)
  <2>1. PICK outcome \in {"succeeded", "failed"} : PlaybookEnds(x, outcome)
    BY <1>11 DEF StepSucceeds, StepFails
  <2> DEFINE state == [e EXCEPT !.at = outcome, !.task = 0, !.due = FALSE]
  <2>2. /\ state.job = j /\ state.copy = e.copy
        /\ state.secret = e.secret /\ state.i = e.i
    BY <1>2, <1>3 DEF ExecutorState
  <2> HIDE DEF state
  <2>3. ExecutorGoes(x, state) /\ UNCHANGED files /\ e.at = "run"
    BY <1>1, <1>11, <2>1 DEF StepSucceeds, StepFails, PlaybookEnds, state
  <2> QED BY <1>9, <2>2, <2>3
<1>12. CASE RecordSuccess(x)
  <2> DEFINE copy == StepRecorded(e.copy, e.i)
             state == [e EXCEPT !.copy = copy, !.i = e.i + 1, !.at = "loop"]
  <2>1. copy.status = "running" /\ copy.last = e.i
    BY <1>3, <1>6 DEF StepRecorded, JobRecord
  <2>2. /\ state.at = "loop" /\ state.job = j /\ state.copy = copy
        /\ state.secret = e.secret /\ state.i = e.i + 1
    BY <1>2, <1>3 DEF ExecutorState
  <2>3. ExecutorSaves(x, copy, state)
    BY <1>1, <1>12 DEF RecordSuccess
  <2>4. OrderlyJob(j, copy)
    BY <2>1 DEF OrderlyJob
  <2> QED BY <1>1, <1>3, <1>5, <2>1, <2>2, <2>3, <2>4, ExecutorSavesOrderly
<1>13. CASE RecordFailure(x)
  <2> DEFINE copy == JobFailed(e.copy)
  <2>1. e.at = "failed" /\ e.i < N /\ ~Skipped(e.i, spec[j])
    BY <1>1, <1>2, <1>5, <1>13 DEF RecordFailure, OrderlyExecutor, TypeInv
  <2>2. copy.last = e.copy.last
    BY <1>3 DEF JobFailed, JobRecord
  <2>3. OrderlyJob(j, copy)
    BY <1>6, <2>1, <2>2 DEF OrderlyJob
  <2>4. ExecutorSaves(x, copy, IdleExecutor)
    BY <1>1, <1>13 DEF RecordFailure
  <2> QED BY <1>1, <1>3, <1>5, <2>3, <2>4, ExecutorSavesOrderly DEF IdleExecutor
<1>14. CASE CompleteJob(x)
  <2> DEFINE copy == JobCompleted(e.copy)
  <2>1. copy.status = "completed"
    BY <1>3 DEF JobCompleted, JobRecord
  <2>2. OrderlyJob(j, copy)
    BY <2>1 DEF OrderlyJob
  <2>3. ExecutorSaves(x, copy, IdleExecutor)
    BY <1>1, <1>14 DEF CompleteJob
  <2> QED BY <1>1, <1>3, <1>5, <2>2, <2>3, ExecutorSavesOrderly DEF IdleExecutor
<1> QED BY <1>7, <1>8, <1>10, <1>11, <1>12, <1>13, <1>14 DEF Execute

(* The goroutine gets the copy that is on file, and the job for its own;    *)
(* when the file could not be read, nobody has the job any more.            *)
LEMMA LoadAndStartOrderly ==
  ASSUME OneRequestAtATime, TypeInv, SerialInv, NEW h \in Handlers,
         handler[h].at \in {"deploy_start", "resume_start"},
         NEW from, from = handler[h].copy.last + 1, LoadAndStart(h, from)
  PROVE  SerialInv'
<1>1. PICK r, j, copy : r = handler[h] /\ j = r.job /\ copy = r.copy
  OBVIOUS
<1>2. /\ executor \in [Executors -> ExecutorState] /\ r \in HandlerState /\ j \in Jobs
      /\ handler \in [Handlers -> HandlerState]
  BY <1>1 DEF TypeInv, TypeOK, HandlerState
<1>3. /\ OnFile(j, copy) /\ copy.status = "running"
      /\ secretFile[j] = r.secret
  BY <1>1 DEF SerialInv, OrderlyHandler
<1>4. \A x \in Executors : ~OnJob(executor[x], j)
  BY <1>1, <1>2 DEF SerialInv, OwnedOnce, OnJob
<1>5. \A g \in Handlers : handler'[g].at = "idle"
  BY <1>2 DEF OneRequestAtATime, LoadAndStart, HandlerGoes, IdleHandler
<1>6. \A k \in Jobs : Untouched(k)
  BY DEF LoadAndStart, files, hosts, Untouched
<1>7. \A k \in Jobs : OrderlyFile(k)'
  BY <1>6, FileUntouched DEF SerialInv
<1>8. ASSUME NEW y \in Executors, executor[y].at # "idle", executor'[y] = executor[y]
      PROVE  OrderlyExecutor(executor[y])'
  <2>1. PICK e : e = executor[y]
    OBVIOUS
  <2>2. e.at # "idle" /\ e.job \in Jobs /\ executor'[y] = e
    BY <1>2, <1>8, <2>1 DEF ExecutorState
  <2>3. OrderlyExecutor(e)'
    BY <1>6, <2>1, <2>2, ExecutorUntouched DEF SerialInv
  <2> QED BY <2>2, <2>3 DEF OrderlyExecutor, OnFile, Skipped
<1>9. CASE UNCHANGED executor
  <2>1. OwnedOnce'
    BY <1>5, <1>9 DEF SerialInv, OwnedOnce, OnJob
  <2>2. \A y \in Executors : executor'[y] = executor[y]
    BY <1>9
  <2>3. ASSUME NEW y \in Executors, executor'[y].at # "idle"
        PROVE  OrderlyExecutor(executor[y])'
    BY <1>8, <2>2, <2>3
  <2> QED BY <1>5, <1>7, <2>1, <2>3 DEF SerialInv
<1>10. CASE StartExecutor(j, from, r.secret)
  <2> DEFINE state == [at |-> "loop", job |-> j, copy |-> copy, secret |-> r.secret,
                       i |-> from, task |-> 0, due |-> FALSE]
  <2>1. PICK x \in Executors : executor' = [executor EXCEPT ![x] = state]
    BY <1>1, <1>3, <1>10 DEF StartExecutor, OnFile
  <2>2. executor'[x] = state /\ \A y \in Executors \ {x} : executor'[y] = executor[y]
    BY <1>2, <2>1
  <2>3. OwnedOnce'
    <3>1. ASSUME NEW y \in Executors, NEW z \in Executors, NEW k \in Jobs,
                 OnJob(executor[y], k)', OnJob(executor[z], k)'
          PROVE  y = z
      <4>1. ASSUME NEW u \in Executors, u # x, OnJob(executor[u], k)'
            PROVE  OnJob(executor[u], k) /\ k # j
        BY <1>4, <2>2, <4>1 DEF OnJob
      <4>2. OnJob(executor[x], k)' => k = j
        BY <2>2 DEF OnJob
      <4> QED BY <3>1, <4>1, <4>2 DEF SerialInv, OwnedOnce
    <3> QED BY <1>5, <3>1 DEF OwnedOnce, OnJob
  <2>4. OrderlyExecutor(executor[x])'
    <3>1. OrderlyExecutor(state)
      BY <1>1, <1>3 DEF OrderlyExecutor
    <3>2. OrderlyExecutor(state)'
      BY <1>2, <1>6, <3>1, ExecutorUntouched
    <3> QED BY <2>2, <3>2 DEF OrderlyExecutor, OnFile, Skipped
  <2>5. ASSUME NEW y \in Executors, executor'[y].at # "idle"
        PROVE  OrderlyExecutor(executor[y])'
    BY <1>8, <2>2, <2>4, <2>5
  <2> QED BY <1>5, <1>7, <2>3, <2>5 DEF SerialInv
<1> QED BY <1>1, <1>9, <1>10 DEF LoadAndStart

(* Between the writes of a handler its job has no executor. *)
LEMMA HandleOrderly ==
  ASSUME OneRequestAtATime, TypeInv, SerialInv, NEW h \in Handlers, Handle(h)
  PROVE  SerialInv'
<1>1. PICK r, j : r = handler[h] /\ j = r.job
  OBVIOUS
<1>2. /\ r \in HandlerState /\ j \in Jobs /\ r.copy \in JobRecord
      /\ secretFile \in [Jobs -> Secrets]
  BY <1>1 DEF TypeInv, TypeOK, HandlerState
<1>3. r.at # "idle"
  BY <1>1 DEF Handle, DeploySecret, DeployStart, ResumeFinish, ResumeLoadSecret,
     ResumeSaveSecret, ResumeSave, ResumeStart
<1>4. OrderlyHandler(r) /\ OrderlyFile(j) /\ OnFile(j, r.copy) /\ r.next = r.copy.last + 1
  BY <1>1, <1>2, <1>3 DEF SerialInv, OrderlyHandler
<1>5. disk[j] = "intact" /\ stored[j] = r.copy /\ OrderlyJob(j, r.copy)
  BY <1>4 DEF OrderlyFile, OnFile
<1>6. \A x \in Executors : ~OnJob(executor[x], j)
  BY <1>1, <1>2, <1>3 DEF SerialInv, OwnedOnce, OnJob
<1>7. IdleHandler.at = "idle"
  BY DEF IdleHandler
<1>8. ASSUME NEW at,
             \/ r.at = "deploy_secret" /\ at = "deploy_start"
             \/ r.at = "resume_save_secret" /\ at = "resume_save",
             \/ SaveSecret(j, r.secret) /\ HandlerGoes(h, [r EXCEPT !.at = at])
             \/ SaveSecretFails(j) /\ HandlerGoes(h, IdleHandler),
             UNCHANGED <<spec, executor>>
      PROVE  SerialInv'
  <2> DEFINE state == [r EXCEPT !.at = at]
  <2>1. /\ state.at = at /\ state.job = j /\ state.copy = r.copy
        /\ state.next = r.next /\ state.secret = r.secret
    BY <1>1, <1>2 DEF HandlerState
  <2>2. UNCHANGED <<disk, stored, spec, executor>>
    BY <1>8 DEF SaveSecret, SaveSecretFails
  <2>3. \A k \in Jobs \ {j} : Untouched(k)
    BY <1>2, <1>8, <2>2 DEF SaveSecret, SaveSecretFails, Untouched
  <2>4. OrderlyFile(j)'
    BY <1>4, <2>2 DEF OrderlyFile, OrderlyJob, Skipped
  <2>5. CASE SaveSecret(j, r.secret) /\ HandlerGoes(h, state)
    <3>1. secretFile'[j] = r.secret
      BY <1>2, <2>5 DEF SaveSecret
    <3>2. OrderlyHandler(state)'
      BY <1>4, <1>8, <2>1, <2>2, <3>1 DEF OrderlyHandler, OnFile
    <3> QED BY <1>2, <1>6, <2>1, <2>2, <2>3, <2>4, <2>5, <3>2, HandlerMoves
  <2>6. CASE HandlerGoes(h, IdleHandler)
    BY <1>2, <1>6, <1>7, <2>2, <2>3, <2>4, <2>6, HandlerMoves
  <2> QED BY <1>8, <2>5, <2>6
<1>9. CASE DeploySecret(h)
  <2>1. /\ r.at = "deploy_secret" /\ UNCHANGED <<spec, executor>>
        /\ \/ /\ SaveSecret(j, r.secret)
              /\ HandlerGoes(h, [r EXCEPT !.at = "deploy_start"])
           \/ SaveSecretFails(j) /\ HandlerGoes(h, IdleHandler)
    BY <1>1, <1>9 DEF DeploySecret
  <2> QED BY <1>8, <2>1
<1>10. CASE DeployStart(h)
  <2>1. r.at = "deploy_start" /\ LoadAndStart(h, 0)
    BY <1>1, <1>10 DEF DeployStart
  <2>2. r.copy.last + 1 = 0
    BY <1>4, <2>1 DEF OrderlyHandler
  <2> QED BY <1>1, <2>1, <2>2, LoadAndStartOrderly
<1>11. CASE ResumeLoadSecret(h)
  <2>1. r.at = "resume_load_secret" /\ r.copy.status = "failed"
    BY <1>1, <1>4, <1>11 DEF ResumeLoadSecret, OrderlyHandler
  <2>2. PICK p : HandlerGoes(h, [r EXCEPT !.at = "resume_save_secret", !.secret = p])
    <3>1. PICK others : HandlerGoes(h, [r EXCEPT !.at = "resume_save_secret",
                                                 !.secret = Filled(r.secret, others)])
      BY <1>1, <1>11 DEF ResumeLoadSecret
    <3> QED BY <3>1
  <2> DEFINE state == [r EXCEPT !.at = "resume_save_secret", !.secret = p]
  <2>4. UNCHANGED executor /\ \A k \in Jobs : Untouched(k)
    BY <1>11 DEF ResumeLoadSecret, files, Untouched
  <2>5. /\ state.at = "resume_save_secret" /\ state.job = j /\ state.copy = r.copy
        /\ state.next = r.next /\ state.secret = p
    BY <1>1, <1>2 DEF HandlerState
  <2>6. OrderlyHandler(state)
    BY <1>4, <2>1, <2>5 DEF OrderlyHandler
  <2>7. PICK s : s = state
    OBVIOUS
  <2>8. OrderlyHandler(s)'
    BY <1>2, <2>4, <2>5, <2>6, <2>7, HandlerUntouched
  <2>9. OrderlyFile(j)'
    BY <1>2, <1>4, <2>4, FileUntouched
  <2> QED BY <1>2, <1>6, <2>2, <2>4, <2>5, <2>7, <2>8, <2>9, HandlerMoves
<1>12. CASE ResumeSaveSecret(h)
  BY <1>1, <1>8, <1>12 DEF ResumeSaveSecret
<1>13. CASE ResumeSave(h)
  <2>1. /\ r.at = "resume_save" /\ r.copy.status = "failed"
        /\ secretFile[j] = r.secret
    BY <1>1, <1>4, <1>13 DEF ResumeSave, OrderlyHandler
  <2>2. r.next < N /\ ~Skipped(r.next, spec[j])
    BY <1>4, <1>5, <2>1 DEF OrderlyJob
  <2> DEFINE copy == [r.copy EXCEPT !.status = "running"]
             state == [r EXCEPT !.at = "resume_start", !.copy = copy]
  <2>3. copy.status = "running" /\ copy.last = r.copy.last
    BY <1>2 DEF JobRecord
  <2>4. OrderlyJob(j, copy)
    BY <2>3 DEF OrderlyJob
  <2>5. /\ state.at = "resume_start" /\ state.job = j /\ state.copy = copy
        /\ state.next = r.next /\ state.secret = r.secret
    BY <1>1, <1>2 DEF HandlerState
  <2>6. UNCHANGED <<spec, executor>>
    BY <1>13 DEF ResumeSave
  <2>7. CASE SaveJob(j, copy) /\ HandlerGoes(h, state)
    <3>1. OrderlyFile(j)' /\ OnFile(j, copy)' /\ \A k \in Jobs \ {j} : Untouched(k)
      BY <1>2, <2>4, <2>6, <2>7, JobSaved
    <3>2. UNCHANGED secretFile
      BY <2>7 DEF SaveJob
    <3>3. OrderlyHandler(state)'
      BY <1>4, <2>1, <2>2, <2>3, <2>5, <2>6, <3>1, <3>2 DEF OrderlyHandler, Skipped
    <3> QED BY <1>2, <1>6, <2>5, <2>6, <2>7, <3>1, <3>3, HandlerMoves
  <2>8. CASE SaveJobFails(j) /\ HandlerGoes(h, IdleHandler)
    <3>1. OrderlyFile(j)' /\ \A k \in Jobs \ {j} : Untouched(k)
      BY <1>2, <1>4, <2>6, <2>8, JobNotSaved
    <3> QED BY <1>2, <1>6, <1>7, <2>6, <2>8, <3>1, HandlerMoves
  <2> QED BY <1>1, <1>13, <2>7, <2>8 DEF ResumeSave
<1>14. CASE ResumeStart(h)
  BY <1>1, <1>4, <1>14, LoadAndStartOrderly DEF ResumeStart
<1>15. ~ResumeFinish(h)
  BY <1>1, <1>4 DEF ResumeFinish, OrderlyHandler
<1> QED BY <1>9, <1>10, <1>11, <1>12, <1>13, <1>14, <1>15 DEF Handle

(* A new job, or one that its file shows as failed, has no executor.       *)
LEMMA RequestOrderly ==
  ASSUME OneRequestAtATime, IInv, SerialInv, NEW h \in Handlers, Request(h)
  PROVE  SerialInv'
<1>1. TypeInv
  BY DEF IInv
<1>2. IdleHandler.at = "idle"
  BY DEF IdleHandler
<1>3. CASE DeployRequest(h)
  <2>1. PICK j \in Jobs \ issued, s \in Specs, p \in DeploySecrets :
          /\ spec' = [spec EXCEPT ![j] = s]
          /\ \/ /\ SaveJob(j, NewJob)
                /\ HandlerGoes(h, [IdleHandler EXCEPT !.at = "deploy_secret",
                                                      !.job = j, !.secret = p])
             \/ SaveJobFails(j) /\ HandlerGoes(h, IdleHandler)
    BY <1>3 DEF DeployRequest
  <2>2. disk[j] = "absent" /\ \A x \in Executors : ~OnJob(executor[x], j)
    BY DEF IInv, FilesTrue, ExecutorsTrue, TrueExecutor, OnJob
  <2>3. stored[j] = NewJob
    BY <2>2 DEF SerialInv, OrderlyFile
  <2>4. UNCHANGED <<executor, secretFile>>
    BY <1>3, <2>1 DEF DeployRequest, SaveJob, SaveJobFails, Fault
  <2>5. \A k \in Jobs \ {j} : Untouched(k)
    BY <1>1, <2>1, <2>4 DEF SaveJob, SaveJobFails, Fault, Untouched, TypeInv, TypeOK
  <2>6. CASE /\ SaveJob(j, NewJob)
             /\ HandlerGoes(h, [IdleHandler EXCEPT !.at = "deploy_secret",
                                                   !.job = j, !.secret = p])
    <3> DEFINE state == [IdleHandler EXCEPT !.at = "deploy_secret", !.job = j,
                                            !.secret = p]
    <3>1. disk'[j] = "intact" /\ stored'[j] = NewJob
      BY <1>1, <2>6 DEF SaveJob, TypeInv, TypeOK
    <3>2. OrderlyFile(j)'
      BY <3>1 DEF OrderlyFile, OrderlyJob, NewJob
    <3>3. /\ state.at = "deploy_secret" /\ state.job = j /\ state.copy = NewJob
          /\ state.secret = p /\ state.next = 0
      BY DEF IdleHandler
    <3>4. NewJob.last + 1 = 0 /\ NewJob.status = "running"
      BY DEF NewJob
    <3>5. OrderlyHandler(state)'
      BY <3>1, <3>3, <3>4 DEF OrderlyHandler, OnFile
    <3> QED BY <1>1, <2>2, <2>4, <2>5, <2>6, <3>2, <3>3, <3>5, HandlerMoves
  <2>7. CASE SaveJobFails(j) /\ HandlerGoes(h, IdleHandler)
    <3>1. disk'[j] \in {"absent", "corrupt"} /\ stored'[j] = NewJob
      BY <1>1, <2>2, <2>3, <2>7 DEF SaveJobFails, Fault, TypeInv, TypeOK
    <3>2. OrderlyFile(j)'
      BY <3>1 DEF OrderlyFile
    <3> QED BY <1>1, <1>2, <2>2, <2>4, <2>5, <2>7, <3>2, HandlerMoves
  <2> QED BY <2>1, <2>6, <2>7
<1>4. CASE ResumeRequest(h)
  <2>1. PICK j \in Jobs, p \in ResumeSecrets :
          /\ Loadable(j) /\ Resumable(stored[j])
          /\ HandlerGoes(h,
               [at |-> IF StartIndex(stored[j]) >= N THEN "resume_finish"
                       ELSE IF \E a \in Accounts : p[a] = NoPassword
                            THEN "resume_load_secret"
                       ELSE "resume_save_secret",
                job |-> j, copy |-> stored[j], secret |-> p,
                next |-> StartIndex(stored[j])])
    BY <1>4 DEF ResumeRequest
  <2>2. PICK copy : copy = stored[j]
    OBVIOUS
  <2>3. OrderlyFile(j) /\ OrderlyJob(j, copy) /\ disk[j] = "intact" /\ copy \in JobRecord
    BY <1>1, <2>1, <2>2 DEF SerialInv, OrderlyFile, Loadable, TypeInv, TypeOK
  <2>4. copy.status = "failed"
    BY <2>1, <2>2, <2>3 DEF Resumable, JobRecord, Statuses
  <2>5. copy.last + 1 < N /\ copy.last \in Int /\ N \in Nat
    BY <2>3, <2>4, Constants DEF OrderlyJob, JobRecord
  <2>6. \A x \in Executors : ~OnJob(executor[x], j)
    BY <2>2, <2>4 DEF SerialInv, OrderlyExecutor, OnFile, OnJob
  <2> DEFINE at == IF \E a \in Accounts : p[a] = NoPassword
                   THEN "resume_load_secret" ELSE "resume_save_secret"
             state == [at |-> at, job |-> j, copy |-> copy, secret |-> p,
                       next |-> copy.last + 1]
  <2>7. HandlerGoes(h, state)
    BY <2>1, <2>2, <2>5 DEF StartIndex
  <2>8. UNCHANGED executor /\ \A k \in Jobs : Untouched(k)
    BY <1>4 DEF ResumeRequest, files, Untouched
  <2>9. OrderlyHandler(state)
    BY <2>2, <2>3, <2>4 DEF OrderlyHandler, OnFile
  <2>10. OrderlyHandler(state)'
    BY <2>8, <2>9, HandlerUntouched
  <2>11. OrderlyFile(j)' /\ state.job = j
    BY <2>3, <2>8, FileUntouched
  <2> QED BY <1>1, <2>6, <2>7, <2>8, <2>10, <2>11, HandlerMoves
<1> QED BY <1>3, <1>4 DEF Request

LEMMA CrashOrderly ==
  ASSUME IInv, SerialInv, Crash
  PROVE  SerialInv'
<1>1. /\ \A x \in Executors : executor'[x].at = "idle"
      /\ \A h \in Handlers : handler'[h].at = "idle"
  BY DEF Crash, IdleHandler, IdleExecutor
<1>2. ASSUME NEW j \in Jobs
      PROVE  OrderlyFile(j)'
  <2>1. OrderlyFile(j)
    BY DEF SerialInv
  <2>2. CASE disk'[j] = "corrupt"
    BY <2>2 DEF OrderlyFile
  <2>3. CASE disk'[j] # "corrupt"
    BY <2>1, <2>3, CrashLeaves DEF OrderlyFile, OrderlyJob, Skipped
  <2> QED BY <2>2, <2>3
<1> QED BY <1>1, <1>2 DEF SerialInv, OwnedOnce, OnJob

LEMMA SerialInvStep ==
  ASSUME OneRequestAtATime, IInv, SerialInv, [Next]_vars
  PROVE  SerialInv'
<1>1. TypeInv
  BY DEF IInv
<1>2. CASE UNCHANGED vars
  <2>1. UNCHANGED <<executor, handler>> /\ \A j : Untouched(j)
    BY <1>2 DEF vars, files, Untouched
  <2>2. OwnedOnce'
    BY <2>1 DEF SerialInv, OwnedOnce, OnJob
  <2>3. \A j \in Jobs : OrderlyFile(j)'
    BY <2>1, FileUntouched DEF SerialInv
  <2>4. ASSUME NEW x \in Executors, executor'[x].at # "idle"
        PROVE  OrderlyExecutor(executor[x])'
    <3>1. PICK e : e = executor[x]
      OBVIOUS
    <3>2. OrderlyExecutor(e)'
      BY <2>1, <2>4, <3>1, ExecutorUntouched DEF SerialInv
    <3> QED BY <2>1, <3>1, <3>2 DEF OrderlyExecutor, OnFile, Skipped
  <2>5. ASSUME NEW h \in Handlers, handler'[h].at # "idle"
        PROVE  OrderlyHandler(handler[h])'
    <3>1. PICK r : r = handler[h]
      OBVIOUS
    <3>2. OrderlyHandler(r)'
      BY <2>1, <2>5, <3>1, HandlerUntouched DEF SerialInv
    <3> QED BY <2>1, <3>1, <3>2 DEF OrderlyHandler, OnFile, Skipped
  <2> QED BY <2>2, <2>3, <2>4, <2>5 DEF SerialInv
<1> QED BY <1>1, <1>2, ExecuteOrderly, HandleOrderly, RequestOrderly, CrashOrderly DEF Next

LEMMA SerialInvInit ==
  ASSUME Init
  PROVE  SerialInv
BY DEF Init, SerialInv, OwnedOnce, OnJob, OrderlyFile, IdleHandler, IdleExecutor

LEMMA SerialInvHolds ==
  ASSUME OneRequestAtATime
  PROVE  Spec => [](IInv /\ SerialInv)
<1>1. Init => IInv /\ SerialInv
  BY IInvInit, SerialInvInit
<1>2. IInv /\ SerialInv /\ [Next]_vars => (IInv /\ SerialInv)'
  BY IInvStep, SerialInvStep
<1> QED BY <1>1, <1>2, PTL DEF Spec

-----------------------------------------------------------------------------
(* Every step is a step of JobLifecycle or leaves what it shows unchanged. *)
Promised == [Lifecycle!Next]_<<Phase, StepsBehind>>

LEMMA NothingShown ==
  ASSUME UNCHANGED <<disk, stored>>
  PROVE  Promised
BY DEF Promised, Phase, StepsBehind

(* Phase, without its CASE. *)
Visible(file, job) ==
  IF file = "absent" THEN "none" ELSE IF file = "corrupt" THEN "lost" ELSE job.status

LEMMA CaseVisible ==
  ASSUME NEW file, NEW job
  PROVE  (CASE file = "absent" -> "none" [] file = "corrupt" -> "lost"
            [] OTHER -> job.status) = Visible(file, job)
<1>1. CASE file = "absent"
  BY <1>1, Zenon DEF Visible
<1>2. CASE file = "corrupt"
  BY <1>2, Zenon DEF Visible
<1>3. CASE file # "absent" /\ file # "corrupt"
  BY <1>3, Zenon DEF Visible
<1> QED BY <1>1, <1>2, <1>3

LEMMA PhaseShows ==
  /\ Phase = [j \in Jobs |-> Visible(disk[j], stored[j])]
  /\ Phase' = [j \in Jobs |-> Visible(disk'[j], stored'[j])]
BY CaseVisible, Zenon DEF Phase

(* What is shown of a job, and of the others, when its file alone changes. *)
LEMMA Shown ==
  ASSUME TypeInv, NEW j \in Jobs, NEW file, NEW job,
         disk' = [disk EXCEPT ![j] = file], stored' = [stored EXCEPT ![j] = job]
  PROVE  /\ Phase' = [Phase EXCEPT ![j] = Visible(file, job)]
         /\ StepsBehind' = [StepsBehind EXCEPT ![j] = job.last + 1]
<1>1. /\ disk \in [Jobs -> {"absent", "corrupt", "intact"}]
      /\ stored \in [Jobs -> JobRecord]
  BY DEF TypeInv, TypeOK
<1>2. disk'[j] = file /\ stored'[j] = job
  BY <1>1
<1>3. \A k \in Jobs \ {j} : disk'[k] = disk[k] /\ stored'[k] = stored[k]
  BY <1>1
<1>4. Phase' = [k \in Jobs |-> Visible(disk'[k], stored'[k])]
  BY PhaseShows
<1>5. Phase' = [Phase EXCEPT ![j] = Visible(file, job)]
  <2>1. Phase' = [k \in Jobs |-> IF k = j THEN Visible(file, job)
                                         ELSE Visible(disk[k], stored[k])]
    BY <1>2, <1>3, <1>4 DEF Visible
  <2> QED BY <2>1, PhaseShows
<1>6. StepsBehind' = [StepsBehind EXCEPT ![j] = job.last + 1]
  <2>1. stored'[j].last + 1 = job.last + 1
        /\ \A k \in Jobs \ {j} : stored'[k].last + 1 = StepsBehind[k]
    <3>1. stored'[j].last + 1 = job.last + 1
      BY <1>2, Zenon
    <3>2. ASSUME NEW k \in Jobs \ {j}
          PROVE  stored'[k].last + 1 = StepsBehind[k]
      <4>1. StepsBehind[k] = stored[k].last + 1
        BY Zenon DEF StepsBehind
      <4>2. stored'[k] = stored[k]
        BY <1>3
      <4> QED BY <4>1, <4>2, Zenon
    <3> QED BY <3>1, <3>2
  <2>2. StepsBehind' = [k \in Jobs |-> stored'[k].last + 1] /\ DOMAIN StepsBehind = Jobs
    BY Zenon DEF StepsBehind
  <2> DEFINE behind(k) == stored'[k].last + 1
             n == job.last + 1
  <2>3. behind(j) = n /\ \A k \in Jobs \ {j} : behind(k) = StepsBehind[k]
    BY <2>1
  <2>4. StepsBehind' = [k \in Jobs |-> behind(k)]
    BY <2>2
  <2> HIDE DEF behind, n
  <2>5. [k \in Jobs |-> behind(k)] = [StepsBehind EXCEPT ![j] = n]
    BY <2>2, <2>3
  <2> QED BY <2>4, <2>5 DEF n
<1> QED BY <1>5, <1>6

LEMMA WriteFailsAsPromised ==
  ASSUME TypeInv, NEW j \in Jobs, SaveJobFails(j)
  PROVE  Promised
<1>1. CASE disk' = disk
  BY <1>1, NothingShown DEF SaveJobFails, Fault
<1>2. CASE disk' = [disk EXCEPT ![j] = "corrupt"]
  <2>1. stored' = [stored EXCEPT ![j] = stored[j]]
    BY DEF SaveJobFails, Fault, TypeInv, TypeOK
  <2>2. Phase' = [Phase EXCEPT ![j] = "lost"]
        /\ StepsBehind' = [StepsBehind EXCEPT ![j] = stored[j].last + 1]
    BY <1>2, <2>1, Shown DEF Visible
  <2>3. StepsBehind' = StepsBehind
    BY <2>2 DEF StepsBehind
  <2> QED BY <2>2, <2>3 DEF Promised, Lifecycle!Next, Lifecycle!Lose
<1> QED BY <1>1, <1>2 DEF SaveJobFails, Fault

(* A write of job's file that lands, by the owner of its latest copy. *)
LEMMA WriteLands ==
  ASSUME TypeInv, NEW j \in Jobs, NEW copy, SaveJob(j, copy), disk[j] = "intact"
  PROVE  /\ Phase[j] = stored[j].status /\ StepsBehind[j] = stored[j].last + 1
         /\ Phase' = [Phase EXCEPT ![j] = copy.status]
         /\ StepsBehind' = [StepsBehind EXCEPT ![j] = copy.last + 1]
         /\ copy.status = stored[j].status => Phase' = Phase
         /\ copy.last = stored[j].last => StepsBehind' = StepsBehind
<1>1. disk' = [disk EXCEPT ![j] = "intact"] /\ stored' = [stored EXCEPT ![j] = copy]
  BY DEF SaveJob
<1>2. Phase[j] = stored[j].status /\ StepsBehind[j] = stored[j].last + 1
  BY PhaseShows DEF Visible, StepsBehind
<1>3. /\ Phase' = [Phase EXCEPT ![j] = copy.status]
      /\ StepsBehind' = [StepsBehind EXCEPT ![j] = copy.last + 1]
  BY <1>1, Shown DEF Visible
<1>4. Phase = [Phase EXCEPT ![j] = Phase[j]]
      /\ StepsBehind = [StepsBehind EXCEPT ![j] = StepsBehind[j]]
  BY DEF Phase, StepsBehind
<1> QED BY <1>2, <1>3, <1>4

LEMMA ExecuteAsPromised ==
  ASSUME TypeInv, SerialInv, NEW x \in Executors, Execute(x)
  PROVE  Promised
<1>1. PICK e : e = executor[x]
  OBVIOUS
<1>2. PICK j : j = e.job
  OBVIOUS
<1>3. e \in ExecutorState /\ e.copy \in JobRecord /\ e.i \in 0 .. N /\ N \in Nat /\ j \in Jobs
  BY <1>1, <1>2, Constants DEF TypeInv, TypeOK, ExecutorState
<1>4. e.at # "idle"
  BY <1>1 DEF Execute, SkipStep, BeginStep, RunTask, StepSucceeds, StepFails, RecordSuccess,
              RecordFailure, CompleteJob
<1>5. disk[j] = "intact" /\ stored[j] = e.copy /\ e.copy.last + 1 = e.i
      /\ e.copy.status = "running"
  BY <1>1, <1>2, <1>4 DEF SerialInv, OrderlyExecutor, OnFile
<1>6. ASSUME NEW copy, NEW state, ExecutorSaves(x, copy, state), ~SaveJobFails(j)
      PROVE  /\ Phase[j] = "running" /\ StepsBehind[j] = e.i
             /\ Phase' = [Phase EXCEPT ![j] = copy.status]
             /\ StepsBehind' = [StepsBehind EXCEPT ![j] = copy.last + 1]
             /\ copy.status = "running" => Phase' = Phase
             /\ copy.last = e.copy.last => StepsBehind' = StepsBehind
  <2>1. SaveJob(j, copy)
    BY <1>1, <1>2, <1>6 DEF ExecutorSaves
  <2> QED BY <1>3, <1>5, <2>1, WriteLands
<1>7. CASE SaveJobFails(j)
  BY <1>3, <1>7, WriteFailsAsPromised
<1>8. CASE RunTask(x) \/ StepSucceeds(x) \/ StepFails(x)
  BY <1>8, NothingShown DEF RunTask, StepSucceeds, StepFails, files
<1>9. CASE SkipStep(x) /\ ~SaveJobFails(j)
  <2> DEFINE copy == StepSkipped(e.copy, e.i)
             state == [e EXCEPT !.copy = copy, !.i = e.i + 1]
  <2>1. e.i < N /\ ExecutorSaves(x, copy, state)
    BY <1>1, <1>9 DEF SkipStep
  <2>2. copy.last = e.i /\ copy.status = "running"
    BY <1>3, <1>5 DEF StepSkipped, JobRecord
  <2>3. Lifecycle!Settle(j)
    BY <1>6, <1>9, <2>1, <2>2 DEF Lifecycle!Settle
  <2> QED BY <1>3, <2>3 DEF Promised, Lifecycle!Next
<1>10. CASE BeginStep(x) /\ ~SaveJobFails(j)
  <2> DEFINE copy == StepEntered(e.copy, e.i)
             state == [e EXCEPT !.copy = copy, !.at = "run"]
  <2>1. ExecutorSaves(x, copy, state)
    BY <1>1, <1>10 DEF BeginStep
  <2>2. copy.last = e.copy.last /\ copy.status = "running"
    BY <1>3, <1>5 DEF StepEntered, JobRecord
  <2>3. UNCHANGED <<Phase, StepsBehind>>
    BY <1>6, <1>10, <2>1, <2>2
  <2> QED BY <2>3 DEF Promised
<1>11. CASE RecordSuccess(x) /\ ~SaveJobFails(j)
  <2> DEFINE copy == StepRecorded(e.copy, e.i)
             state == [e EXCEPT !.copy = copy, !.i = e.i + 1, !.at = "loop"]
  <2>1. e.i < N /\ ExecutorSaves(x, copy, state)
    BY <1>1, <1>11 DEF RecordSuccess, TypeInv
  <2>2. copy.last = e.i /\ copy.status = "running"
    BY <1>3, <1>5 DEF StepRecorded, JobRecord
  <2>3. Lifecycle!Settle(j)
    BY <1>6, <1>11, <2>1, <2>2 DEF Lifecycle!Settle
  <2> QED BY <1>3, <2>3 DEF Promised, Lifecycle!Next
<1>12. CASE RecordFailure(x) /\ ~SaveJobFails(j)
  <2> DEFINE copy == JobFailed(e.copy)
  <2>1. e.i < N /\ ExecutorSaves(x, copy, IdleExecutor)
    BY <1>1, <1>12 DEF RecordFailure, TypeInv
  <2>2. copy.last = e.copy.last /\ copy.status = "failed"
    BY <1>3 DEF JobFailed, JobRecord
  <2>3. Lifecycle!Fail(j)
    BY <1>6, <1>12, <2>1, <2>2 DEF Lifecycle!Fail, Lifecycle!Move
  <2> QED BY <1>3, <2>3 DEF Promised, Lifecycle!Next
<1>13. CASE CompleteJob(x) /\ ~SaveJobFails(j)
  <2> DEFINE copy == JobCompleted(e.copy)
  <2>1. e.i = N /\ ExecutorSaves(x, copy, IdleExecutor)
    BY <1>1, <1>13 DEF CompleteJob
  <2>2. copy.last = e.copy.last /\ copy.status = "completed"
    BY <1>3 DEF JobCompleted, JobRecord
  <2>3. Lifecycle!Complete(j)
    BY <1>6, <1>13, <2>1, <2>2 DEF Lifecycle!Complete, Lifecycle!Move
  <2> QED BY <1>3, <2>3 DEF Promised, Lifecycle!Next
<1> QED BY <1>7, <1>8, <1>9, <1>10, <1>11, <1>12, <1>13 DEF Execute

LEMMA HandleAsPromised ==
  ASSUME TypeInv, SerialInv, NEW h \in Handlers, Handle(h)
  PROVE  Promised
<1>1. PICK r : r = handler[h]
  OBVIOUS
<1>2. CASE DeploySecret(h) \/ DeployStart(h) \/ ResumeLoadSecret(h) \/ ResumeSaveSecret(h)
           \/ ResumeStart(h)
  BY <1>2, NothingShown DEF DeploySecret, DeployStart, ResumeLoadSecret, ResumeSaveSecret,
       ResumeStart, LoadAndStart, SaveSecret, SaveSecretFails, files
<1>3. CASE ResumeSave(h)
  <2> DEFINE copy == [r.copy EXCEPT !.status = "running"]
  <2>1. r.at = "resume_save" /\ (SaveJob(r.job, copy) \/ SaveJobFails(r.job))
    BY <1>1, <1>3 DEF ResumeSave
  <2>2. r.job \in Jobs /\ r.copy \in JobRecord
    BY <1>1 DEF TypeInv, TypeOK, HandlerState
  <2>3. disk[r.job] = "intact" /\ stored[r.job] = r.copy /\ r.copy.status = "failed"
    BY <1>1, <2>1 DEF SerialInv, OrderlyHandler, OnFile
  <2>4. copy.status = "running" /\ copy.last = r.copy.last
    BY <2>2 DEF JobRecord
  <2>5. CASE SaveJob(r.job, copy)
    <3> HIDE DEF copy
    <3>1. Lifecycle!Retry(r.job)
      BY <2>2, <2>3, <2>4, <2>5, WriteLands DEF Lifecycle!Retry, Lifecycle!Move
    <3> QED BY <2>2, <3>1 DEF Promised, Lifecycle!Next
  <2> QED BY <2>1, <2>2, <2>5, WriteFailsAsPromised
<1>4. ~ResumeFinish(h)
  BY <1>1 DEF SerialInv, OrderlyHandler, ResumeFinish
<1> QED BY <1>2, <1>3, <1>4 DEF Handle

LEMMA RequestAsPromised ==
  ASSUME IInv, SerialInv, NEW h \in Handlers, Request(h)
  PROVE  Promised
<1>1. CASE DeployRequest(h)
  <2>1. PICK j \in Jobs \ issued : SaveJob(j, NewJob) \/ SaveJobFails(j)
    BY <1>1 DEF DeployRequest
  <2>2. disk[j] = "absent" /\ stored[j] = NewJob /\ TypeInv
    BY DEF IInv, FilesTrue, SerialInv, OrderlyFile
  <2>3. CASE SaveJob(j, NewJob)
    <3>1. disk' = [disk EXCEPT ![j] = "intact"] /\ stored' = [stored EXCEPT ![j] = NewJob]
      BY <2>3 DEF SaveJob
    <3>2. Phase' = [Phase EXCEPT ![j] = "running"]
      <4>1. Phase' = [Phase EXCEPT ![j] = Visible("intact", NewJob)]
        BY <2>2, <3>1, Shown
      <4>2. Visible("intact", NewJob) = "running"
        BY DEF Visible, NewJob
      <4> QED BY <4>1, <4>2
    <3>3. UNCHANGED StepsBehind
      BY <2>2, <3>1 DEF StepsBehind, TypeInv, TypeOK
    <3>4. Phase[j] = "none"
      BY <2>2, PhaseShows DEF Visible
    <3>5. Lifecycle!Start(j)
      BY <3>2, <3>3, <3>4 DEF Lifecycle!Start, Lifecycle!Move
    <3> QED BY <3>5 DEF Promised, Lifecycle!Next
  <2> QED BY <2>1, <2>2, <2>3, WriteFailsAsPromised
<1>2. CASE ResumeRequest(h)
  BY <1>2, NothingShown DEF ResumeRequest, files
<1> QED BY <1>1, <1>2 DEF Request

LEMMA CrashAsPromised ==
  ASSUME IInv, Crash
  PROVE  Promised
<1>1. CASE UNCHANGED disk
  BY <1>1, CrashLeaves, NothingShown
<1>2. ASSUME NEW j \in Jobs, disk' = [disk EXCEPT ![j] = "corrupt"], UNCHANGED stored
      PROVE  Promised
  <2>1. stored' = [stored EXCEPT ![j] = stored[j]]
    BY <1>2 DEF IInv, TypeInv, TypeOK
  <2>2. Phase' = [Phase EXCEPT ![j] = "lost"]
        /\ StepsBehind' = [StepsBehind EXCEPT ![j] = stored[j].last + 1]
    BY <1>2, <2>1, Shown DEF Visible, IInv
  <2>3. StepsBehind' = StepsBehind
    BY <2>2 DEF StepsBehind
  <2> QED BY <2>2, <2>3 DEF Promised, Lifecycle!Next, Lifecycle!Lose
<1> QED BY <1>1, <1>2, CrashLeaves

LEMMA InitAsPromised ==
  ASSUME Init
  PROVE  Lifecycle!Init
BY DEF Init, NewJob, Lifecycle!Init, Phase, StepsBehind

(* Served one request at a time, the service keeps the promise of           *)
(* JobLifecycle whatever writes fail and wherever it dies.                 *)
THEOREM LifecycleKept ==
  ASSUME OneRequestAtATime
  PROVE  Spec => ImplementsLifecycle
<1>1. Init => Lifecycle!Init
  BY InitAsPromised
<1>2. IInv /\ SerialInv /\ [Next]_vars => [Lifecycle!Next]_<<Phase, StepsBehind>>
  <2>1. ASSUME IInv, SerialInv, [Next]_vars
        PROVE  Promised
    <3>1. TypeInv
      BY <2>1 DEF IInv
    <3>2. CASE UNCHANGED vars
      BY <3>2, NothingShown DEF vars, files
    <3> QED BY <2>1, <3>1, <3>2, ExecuteAsPromised, HandleAsPromised, RequestAsPromised,
               CrashAsPromised DEF Next
  <2> QED BY <2>1 DEF Promised
<1> QED BY <1>1, <1>2, SerialInvHolds, PTL DEF Spec, ImplementsLifecycle, Lifecycle!Spec,
                                              Lifecycle!vars

-----------------------------------------------------------------------------
(* The nodes.  From here on one job has them for itself.                   *)
OneJob == \A j, k \in Jobs : j = k

(* The tasks of a step, without the CASE of TasksOf.                       *)
LEMMA TaskLists ==
  /\ TasksOf("base_config") = <<"stop">>
  /\ TasksOf("primary_config") = <<"look", "wipe", "mark", "configure">>
  /\ TasksOf("standby_config") = <<"look", "wipe", "mark", "configure">>
  /\ TasksOf("cluster_bootstrap") =
       <<"look", "wipe", "mark", "start_etcd", "start_primary", "start_standby">>
  /\ \A name \in {"preflight", "verify_cluster", "init_app_db"} : TasksOf(name) = << >>
<1>1. /\ TasksOf("primary_config") = <<"look", "wipe", "mark", "configure">>
      /\ TasksOf("standby_config") = <<"look", "wipe", "mark", "configure">>
  BY Zenon DEF TasksOf
<1>2. TasksOf("base_config") = <<"stop">>
  BY Zenon DEF TasksOf
<1>3. TasksOf("cluster_bootstrap") =
        <<"look", "wipe", "mark", "start_etcd", "start_primary", "start_standby">>
  BY Zenon DEF TasksOf
<1>4. \A name \in {"preflight", "verify_cluster", "init_app_db"} : TasksOf(name) = << >>
  BY Zenon DEF TasksOf
<1> QED BY <1>1, <1>2, <1>3, <1>4

(* A reset is a look, a wipe and a mark, one after the other.              *)
LEMMA ResetInOrder ==
  ASSUME NEW name \in StepNames, NEW n \in 0 .. Len(TasksOf(name)) - 1
  PROVE  /\ n = 0 => TasksOf(name)[n + 1] \notin {"wipe", "mark"}
         /\ n > 0 /\ TasksOf(name)[n + 1] = "wipe" => TasksOf(name)[n] = "look"
         /\ n > 0 /\ TasksOf(name)[n + 1] = "mark" => TasksOf(name)[n] = "wipe"
<1>1. CASE name \in {"preflight", "verify_cluster", "init_app_db"}
  <2>1. Len(TasksOf(name)) = 0
    BY <1>1, TaskLists
  <2> QED BY <2>1
<1>2. CASE name = "base_config"
  BY <1>2, TaskLists
<1>3. CASE name \in {"primary_config", "standby_config"}
  <2>1. TasksOf(name) = <<"look", "wipe", "mark", "configure">>
    BY <1>3, TaskLists
  <2>2. n \in {0, 1, 2, 3}
    BY <2>1
  <2> QED BY <2>1, <2>2
<1>4. CASE name = "cluster_bootstrap"
  <2>1. TasksOf(name) =
          <<"look", "wipe", "mark", "start_etcd", "start_primary", "start_standby">>
    BY <1>4, TaskLists
  <2>2. n \in {0, 1, 2, 3, 4, 5}
    BY <2>1
  <2> QED BY <2>1, <2>2
<1> QED BY <1>1, <1>2, <1>3, <1>4 DEF StepNames

(* The tasks there are, and where two of them stand.                       *)
LEMMA TaskNames ==
  ASSUME NEW name \in StepNames, NEW n \in 0 .. Len(TasksOf(name)) - 1
  PROVE  /\ TasksOf(name)[n + 1] \in {"look", "stop", "wipe", "mark", "configure",
                                     "start_etcd", "start_primary", "start_standby"}
         /\ TasksOf(name)[n + 1] = "start_primary" => name = "cluster_bootstrap"
         /\ name = "primary_config" /\ n = 3 => TasksOf(name)[n + 1] = "configure"
<1>1. CASE name \in {"preflight", "verify_cluster", "init_app_db"}
  <2>1. Len(TasksOf(name)) = 0
    BY <1>1, TaskLists
  <2> QED BY <2>1
<1>2. CASE name = "base_config"
  BY <1>2, TaskLists
<1>3. CASE name \in {"primary_config", "standby_config"}
  <2>1. TasksOf(name) = <<"look", "wipe", "mark", "configure">>
    BY <1>3, TaskLists
  <2>2. n \in {0, 1, 2, 3}
    BY <2>1
  <2> QED BY <2>1, <2>2
<1>4. CASE name = "cluster_bootstrap"
  <2>1. TasksOf(name) =
          <<"look", "wipe", "mark", "start_etcd", "start_primary", "start_standby">>
    BY <1>4, TaskLists
  <2>2. n \in {0, 1, 2, 3, 4, 5}
    BY <2>1
  <2> QED BY <1>4, <2>1, <2>2
<1> QED BY <1>1, <1>2, <1>3, <1>4 DEF StepNames

(* What the tasks do, without the CASE of TaskDone.                        *)
LEMMA TaskEffects ==
  ASSUME NEW d, NEW due, NEW c, NEW run
  PROVE  /\ TaskDone("look", d, due, c, run) = c
         /\ TaskDone("stop", d, due, c, run) = [c EXCEPT !.running = FALSE]
         /\ TaskDone("configure", d, due, c, run) = Configured(d, c, run)
         /\ TaskDone("start_etcd", d, due, c, run) = [c EXCEPT !.running = TRUE]
         /\ TaskDone("start_primary", d, due, c, run) = PrimaryStarted(c, run)
         /\ TaskDone("start_standby", d, due, c, run) = StandbyStarted(c, run)
<1>1. TaskDone("look", d, due, c, run) = c
  BY Zenon DEF TaskDone
<1>2. TaskDone("stop", d, due, c, run) = [c EXCEPT !.running = FALSE]
  BY Zenon DEF TaskDone
<1>3. TaskDone("configure", d, due, c, run) = Configured(d, c, run)
  BY Zenon DEF TaskDone
<1>4. TaskDone("start_etcd", d, due, c, run) = [c EXCEPT !.running = TRUE]
  BY Zenon DEF TaskDone
<1>5. TaskDone("start_primary", d, due, c, run) = PrimaryStarted(c, run)
  BY Zenon DEF TaskDone
<1>6. TaskDone("start_standby", d, due, c, run) = StandbyStarted(c, run)
  BY Zenon DEF TaskDone
<1> QED BY <1>1, <1>2, <1>3, <1>4, <1>5, <1>6, Zenon

(* A reset that no look has found due does nothing.                        *)
LEMMA ResetEffects ==
  ASSUME NEW d, NEW c, NEW run
  PROVE  /\ TaskDone("wipe", d, TRUE, c, run) = Wiped(d, c)
         /\ TaskDone("mark", d, TRUE, c, run) = Marked(d, c, run)
         /\ TaskDone("wipe", d, FALSE, c, run) = c
         /\ TaskDone("mark", d, FALSE, c, run) = c
<1>1. TaskDone("wipe", d, TRUE, c, run) = Wiped(d, c)
  BY Zenon DEF TaskDone
<1>2. TaskDone("mark", d, TRUE, c, run) = Marked(d, c, run)
  BY Zenon DEF TaskDone
<1>3. TaskDone("wipe", d, FALSE, c, run) = c
  BY Zenon DEF TaskDone
<1>4. TaskDone("mark", d, FALSE, c, run) = c
  BY Zenon DEF TaskDone
<1> QED BY <1>1, <1>2, <1>3, <1>4, Zenon

LEMMA DirectoryCases ==
  /\ DirectoryOf("primary_config") = "primary"
  /\ DirectoryOf("standby_config") = "standby"
  /\ DirectoryOf("cluster_bootstrap") = "etcd"
  /\ \A name : DirectoryOf(name) \in Directories
<1>1. /\ DirectoryOf("primary_config") = "primary"
      /\ DirectoryOf("standby_config") = "standby"
      /\ DirectoryOf("cluster_bootstrap") = "etcd"
  BY Zenon DEF DirectoryOf
<1>2. ASSUME NEW name
      PROVE  DirectoryOf(name) \in Directories
  BY DEF DirectoryOf, Directories, Nodes
<1> QED BY <1>1, <1>2

-----------------------------------------------------------------------------
(* A job's resets of a directory are counted by its marker there: one if   *)
(* it is there, none if not.                                               *)
MarkedIn(j, d, c) == IF d = "etcd" THEN c.etcd = j ELSE j \in c.marked[d]

CountedByMarker(c) ==
  \A j \in Jobs, d \in Directories : c.resets[j][d] = IF MarkedIn(j, d, c) THEN 1 ELSE 0

NextTask(e) == TasksOf(NameAt(e))[e.task + 1]
Working(e) == e.at = "run" /\ e.task < Len(TasksOf(NameAt(e)))

(* What a look has found, no marker, still holds when the reset is done.   *)
LookHolds(e, c) ==
  /\ e.at # "run" => e.task = 0
  /\ Working(e) /\ e.due /\ NextTask(e) \in {"wipe", "mark"}
       => ~MarkedIn(e.job, DirectoryOf(NameAt(e)), c)

ResetsInv ==
  /\ CountedByMarker(cluster)
  /\ \A x \in Executors : LookHolds(executor[x], cluster)

LEMMA WipeKeepsMarkers ==
  ASSUME OneJob, NEW c \in Cluster, NEW j \in Jobs, NEW d \in Directories,
         ~MarkedIn(j, d, c), CountedByMarker(c)
  PROVE  CountedByMarker(Wiped(d, c)) /\ ~MarkedIn(j, d, Wiped(d, c))
<1>1. CASE d = "etcd"
  <2>1. /\ Wiped(d, c).etcd = NoJob /\ Wiped(d, c).marked = c.marked
        /\ Wiped(d, c).resets = c.resets
    BY <1>1 DEF Wiped, Cluster
  <2>2. c.etcd # j /\ NoJob # j
    BY <1>1, JobAssumption DEF MarkedIn
  <2>3. \A k \in Jobs, b \in Directories : MarkedIn(k, b, Wiped(d, c)) <=> MarkedIn(k, b, c)
    BY <1>1, <2>1, <2>2 DEF MarkedIn, OneJob
  <2> QED BY <2>1, <2>3 DEF CountedByMarker
<1>2. CASE d # "etcd"
  <2>1. /\ Wiped(d, c).etcd = c.etcd /\ Wiped(d, c).marked = c.marked
        /\ Wiped(d, c).resets = c.resets
    BY <1>2 DEF Wiped, Cluster
  <2>2. \A k \in Jobs, b \in Directories : MarkedIn(k, b, Wiped(d, c)) <=> MarkedIn(k, b, c)
    BY <2>1 DEF MarkedIn
  <2> QED BY <2>1, <2>2 DEF CountedByMarker
<1> QED BY <1>1, <1>2

LEMMA MarkCounts ==
  ASSUME OneJob, NEW c \in Cluster, NEW run, run.job \in Jobs, NEW d \in Directories,
         ~MarkedIn(run.job, d, c), CountedByMarker(c)
  PROVE  CountedByMarker(Marked(d, c, run))
<1> DEFINE j == run.job
           m == Marked(d, c, run)
<1>1. /\ c.resets \in [Jobs -> [Directories -> Nat]] /\ c.resets[j] \in [Directories -> Nat]
      /\ c.marked \in [Nodes -> SUBSET Jobs]
  BY DEF Cluster
<1>2. m.resets[j] = [c.resets[j] EXCEPT ![d] = @ + 1]
  <2> DEFINE counted == [c EXCEPT !.resets[j][d] = @ + 1]
             resets == [c.resets[j] EXCEPT ![d] = @ + 1]
  <2>1. counted = [c EXCEPT !.resets = [@ EXCEPT ![j] = resets]]
    OBVIOUS
  <2>2. m.resets = counted.resets
    BY DEF Marked, Cluster
  <2> HIDE DEF resets, counted
  <2> QED BY <1>1, <2>1, <2>2 DEF resets, Cluster
<1>3. m.resets[j][d] = 1 /\ \A b \in Directories \ {d} : m.resets[j][b] = c.resets[j][b]
  <2>1. c.resets[j][d] = 0
    BY DEF CountedByMarker
  <2> HIDE DEF j, m
  <2> QED BY <1>1, <1>2, <2>1
<1>4. MarkedIn(j, d, m) /\ \A b \in Directories \ {d} : MarkedIn(j, b, m) <=> MarkedIn(j, b, c)
  <2>1. CASE d = "etcd"
    BY <2>1 DEF Marked, MarkedIn, Cluster
  <2>2. CASE d # "etcd"
    <3>1. m.marked = [c.marked EXCEPT ![d] = @ \cup {j}] /\ m.etcd = c.etcd
      BY <2>2 DEF Marked, Cluster
    <3>2. d \in Nodes
      BY <2>2 DEF Directories
    <3> QED BY <1>1, <2>2, <3>1, <3>2 DEF MarkedIn, Directories
  <2> QED BY <2>1, <2>2
<1>5. \A k \in Jobs : k = j
  BY DEF OneJob
<1> HIDE DEF m
<1>6. \A b \in Directories : m.resets[j][b] = IF MarkedIn(j, b, m) THEN 1 ELSE 0
  BY <1>3, <1>4 DEF CountedByMarker
<1>7. CountedByMarker(m)
  BY <1>5, <1>6 DEF CountedByMarker
<1> QED BY <1>7 DEF m

(* The other tasks know nothing of markers.                                *)
LEMMA OthersKeepMarkers ==
  ASSUME NEW c \in Cluster, NEW e \in Cluster, e.etcd = c.etcd, e.marked = c.marked,
         e.resets = c.resets, CountedByMarker(c)
  PROVE  CountedByMarker(e)
BY DEF CountedByMarker, MarkedIn

LEMMA TaskKeepsMarkers ==
  ASSUME OneJob, NEW c \in Cluster, NEW name \in StepNames, NEW n \in 0 .. Len(TasksOf(name)) - 1,
         NEW due \in BOOLEAN, NEW run, run.job \in Jobs, run.secret \in Secrets,
         CountedByMarker(c),
         due /\ TasksOf(name)[n + 1] \in {"wipe", "mark"}
           => ~MarkedIn(run.job, DirectoryOf(name), c)
  PROVE  /\ CountedByMarker(TaskDone(TasksOf(name)[n + 1], DirectoryOf(name), due, c, run))
         /\ due /\ TasksOf(name)[n + 1] = "wipe"
              => ~MarkedIn(run.job, DirectoryOf(name),
                           TaskDone(TasksOf(name)[n + 1], DirectoryOf(name), due, c, run))
<1> DEFINE task == TasksOf(name)[n + 1]
           d == DirectoryOf(name)
           after == TaskDone(task, d, due, c, run)
<1>1. task \in {"look", "stop", "wipe", "mark", "configure", "start_etcd",
                "start_primary", "start_standby"}
  BY TaskNames
<1>2. d \in Directories /\ after \in Cluster
  BY DirectoryCases, TaskTypes
<1>3. SUFFICES /\ CountedByMarker(after)
               /\ due /\ task = "wipe" => ~MarkedIn(run.job, d, after)
  OBVIOUS
<1>4. due /\ task \in {"wipe", "mark"} => ~MarkedIn(run.job, d, c)
  OBVIOUS
<1> HIDE DEF task, d
<1>5. CASE task \in {"wipe", "mark"} /\ due = FALSE
  <2>1. TaskDone("wipe", d, FALSE, c, run) = c /\ TaskDone("mark", d, FALSE, c, run) = c
    BY Zenon DEF TaskDone
  <2>2. after = c
    BY <1>5, <2>1
  <2> QED BY <1>5, <2>2
<1>6. CASE task = "wipe" /\ due = TRUE
  <2>1. TaskDone("wipe", d, TRUE, c, run) = Wiped(d, c)
    BY Zenon DEF TaskDone
  <2>2. after = Wiped(d, c)
    BY <1>6, <2>1
  <2> QED BY <1>2, <1>4, <1>6, <2>2, WipeKeepsMarkers
<1>7. CASE task = "mark" /\ due = TRUE
  <2>1. TaskDone("mark", d, TRUE, c, run) = Marked(d, c, run)
    BY Zenon DEF TaskDone
  <2>2. after = Marked(d, c, run)
    BY <1>7, <2>1
  <2> QED BY <1>2, <1>4, <1>7, <2>2, MarkCounts
<1>8. CASE task \notin {"wipe", "mark"}
  <2>1. after \in {c, [c EXCEPT !.running = FALSE], [c EXCEPT !.running = TRUE],
                   Configured(d, c, run), PrimaryStarted(c, run), StandbyStarted(c, run)}
    <3>1. /\ TaskDone("look", d, due, c, run) = c
          /\ TaskDone("stop", d, due, c, run) = [c EXCEPT !.running = FALSE]
          /\ TaskDone("configure", d, due, c, run) = Configured(d, c, run)
          /\ TaskDone("start_etcd", d, due, c, run) = [c EXCEPT !.running = TRUE]
          /\ TaskDone("start_primary", d, due, c, run) = PrimaryStarted(c, run)
          /\ TaskDone("start_standby", d, due, c, run) = StandbyStarted(c, run)
      BY TaskEffects
    <3> QED BY <1>1, <1>8, <3>1
  <2> HIDE DEF after
  <2>2. after.etcd = c.etcd /\ after.marked = c.marked /\ after.resets = c.resets
    BY <2>1 DEF Cluster, Configured, PrimaryStarted, StandbyStarted
  <2>3. CountedByMarker(after)
    BY <1>2, <2>2, OthersKeepMarkers
  <2> QED BY <1>8, <2>3
<1> QED BY <1>5, <1>6, <1>7, <1>8

(* An executor that has not begun a playbook has nothing to rely on.       *)
LEMMA NameOfStep ==
  ASSUME NEW e \in ExecutorState, e.i < N
  PROVE  NameAt(e) \in StepNames
<1>1. e.i + 1 \in 1 .. Len(Table) /\ Table \in Seq(StepNames)
  BY TableAssumption, Constants DEF N, ExecutorState
<1> QED BY <1>1 DEF NameAt

LEMMA FreshLook ==
  ASSUME NEW e \in ExecutorState, e.task = 0, e.at = "run" => e.i < N, NEW c
  PROVE  LookHolds(e, c)
<1>1. SUFFICES ASSUME Working(e), NextTask(e) \in {"wipe", "mark"}
               PROVE  FALSE
  BY DEF LookHolds
<1>2. NameAt(e) \in StepNames
  BY <1>1, NameOfStep DEF Working
<1>3. Len(TasksOf(NameAt(e))) \in Nat
  BY TaskCount DEF MostTasks
<1>4. 0 \in 0 .. Len(TasksOf(NameAt(e))) - 1
  BY <1>1, <1>3 DEF Working
<1> QED BY <1>1, <1>2, <1>4, ResetInOrder DEF NextTask

LEMMA ResetsKept ==
  ASSUME TypeInv', ResetsInv, UNCHANGED cluster,
         \A x \in Executors : executor'[x] = executor[x] \/ executor'[x].task = 0
  PROVE  ResetsInv'
<1>1. ASSUME NEW x \in Executors
      PROVE  LookHolds(executor'[x], cluster)
  <2>1. CASE executor'[x] = executor[x]
    BY <2>1 DEF ResetsInv
  <2>2. CASE executor'[x].task = 0
    <3>1. /\ executor'[x] \in ExecutorState
          /\ executor'[x].at = "run" => executor'[x].i < N
      BY DEF TypeInv, TypeOK
    <3> QED BY <2>2, <3>1, FreshLook
  <2> QED BY <2>1, <2>2
<1> QED BY <1>1 DEF ResetsInv

LEMMA RunTaskKeepsResets ==
  ASSUME OneJob, TypeInv, TypeInv', SerialInv, ResetsInv, NEW x \in Executors, RunTask(x)
  PROVE  ResetsInv'
<1>1. PICK e, name, n, run :
        e = executor[x] /\ name = NameAt(e) /\ n = e.task /\ run = RunOf(e)
  OBVIOUS
<1>2. /\ executor \in [Executors -> ExecutorState] /\ e \in ExecutorState
      /\ cluster \in Cluster /\ e.at = "run" /\ n < Len(TasksOf(name)) /\ e.i < N
  BY <1>1 DEF TypeInv, TypeOK, RunTask
<1>3. /\ name \in StepNames /\ n \in 0 .. Len(TasksOf(name)) - 1 /\ n \in Nat
      /\ e.due \in BOOLEAN
  BY <1>1, <1>2, NameOfStep, TaskCount DEF ExecutorState
<1>4. run.job = e.job /\ run.job \in Jobs /\ run.secret \in Secrets
  BY <1>1, <1>2 DEF RunOf, RunConfig, ExecutorState
<1> DEFINE task == TasksOf(name)[n + 1]
           d == DirectoryOf(name)
           after == TaskDone(task, d, e.due, cluster, run)
           look == IF task = "look" THEN MustReset(d, cluster, run) ELSE e.due
           moved == [e EXCEPT !.task = n + 1, !.due = look]
<1>5. cluster' = after /\ executor' = [executor EXCEPT ![x] = moved]
  BY <1>1 DEF RunTask, ExecutorGoes
<1>6. /\ moved.at = "run" /\ moved.task = n + 1 /\ moved.due = look /\ moved.i = e.i
      /\ moved.job = e.job
  BY <1>2 DEF ExecutorState
<1>7. NameAt(moved) = name
  BY <1>1, <1>6 DEF NameAt
<1>8. e.due /\ task \in {"wipe", "mark"} => ~MarkedIn(run.job, d, cluster)
  BY <1>1, <1>2, <1>4 DEF ResetsInv, LookHolds, Working, NextTask
<1>9. CountedByMarker(cluster)
  BY DEF ResetsInv
<1>10. CountedByMarker(after) /\ (e.due /\ task = "wipe" => ~MarkedIn(run.job, d, after))
  BY <1>2, <1>3, <1>4, <1>8, <1>9, TaskKeepsMarkers
<1>11. LookHolds(moved, after)
  <2>1. SUFFICES ASSUME Working(moved), look, TasksOf(name)[n + 2] \in {"wipe", "mark"}
                 PROVE  ~MarkedIn(run.job, d, after)
    <3>1. moved.task + 1 = n + 2
      BY <1>3, <1>6
    <3>2. NextTask(moved) = TasksOf(name)[n + 2]
      BY <1>7, <3>1 DEF NextTask
    <3> HIDE DEF moved, look, after, d
    <3> QED BY <1>4, <1>6, <1>7, <2>1, <3>2 DEF LookHolds, d
  <2>2. n + 1 \in 0 .. Len(TasksOf(name)) - 1 /\ (n + 1) + 1 = n + 2 /\ n + 1 > 0
    BY <1>3, <1>6, <1>7, <2>1, TaskCount DEF Working
  <2>3. /\ TasksOf(name)[n + 2] = "wipe" => task = "look"
        /\ TasksOf(name)[n + 2] = "mark" => task = "wipe"
    BY <1>3, <2>2, ResetInOrder
  <2>4. CASE task = "look"
    <3>1. after = cluster
      BY <2>4, TaskEffects
    <3>2. MustReset(d, cluster, run)
      BY <2>1, <2>4
    <3> HIDE DEF after, d
    <3> QED BY <3>1, <3>2 DEF MustReset, MarkedIn
  <2>5. CASE task = "wipe"
    BY <1>10, <2>1, <2>5
  <2> QED BY <2>1, <2>3, <2>4, <2>5
<1>12. ASSUME NEW y \in Executors
       PROVE  LookHolds(executor'[y], after)
  <2>1. CASE y = x
    <3>1. executor'[y] = moved
      BY <1>2, <1>5, <2>1
    <3> QED BY <1>11, <3>1
  <2>2. CASE y # x
    <3>1. executor'[y] = executor[y]
      BY <1>2, <1>5, <2>2
    <3>2. executor[y].at = "idle"
      BY <1>1, <1>2, <2>2 DEF SerialInv, OwnedOnce, OnJob, OneJob, ExecutorState
    <3>3. executor'[y].task = 0 /\ executor'[y].at = "idle"
      BY <3>1, <3>2 DEF ResetsInv, LookHolds
    <3> QED BY <3>3 DEF LookHolds, Working
  <2> QED BY <2>1, <2>2
<1> HIDE DEF after
<1> QED BY <1>5, <1>10, <1>12 DEF ResetsInv

LEMMA ResetsInvStep ==
  ASSUME OneJob, TypeInv, TypeInv', SerialInv, ResetsInv, [Next]_vars
  PROVE  ResetsInv'
<1>1. executor \in [Executors -> ExecutorState]
  BY DEF TypeInv, TypeOK
<1>2. ASSUME NEW x \in Executors, NEW state, executor' = [executor EXCEPT ![x] = state],
             state.task = 0, UNCHANGED cluster
      PROVE  ResetsInv'
  BY <1>1, <1>2, ResetsKept
<1>3. ASSUME NEW x \in Executors, executor[x].at # "run", NEW copy, NEW state,
             ExecutorSaves(x, copy, state), state.task = executor[x].task,
             UNCHANGED cluster
      PROVE  ResetsInv'
  <2>1. state.task = 0 /\ IdleExecutor.task = 0
    BY <1>3 DEF ResetsInv, LookHolds, IdleExecutor
  <2> QED BY <1>2, <1>3, <2>1 DEF ExecutorSaves, ExecutorGoes
<1>4. ASSUME NEW x \in Executors, Execute(x)
      PROVE  ResetsInv'
  <2>1. PICK e : e = executor[x]
    OBVIOUS
  <2>2. e \in ExecutorState
    BY <1>1, <2>1
  <2>3. CASE SkipStep(x)
    <3> DEFINE copy == StepSkipped(e.copy, e.i)
               state == [e EXCEPT !.copy = copy, !.i = e.i + 1]
    <3>1. e.at = "loop" /\ ExecutorSaves(x, copy, state) /\ UNCHANGED cluster
      BY <2>1, <2>3 DEF SkipStep, hosts
    <3>2. state.task = e.task
      BY <2>2 DEF ExecutorState
    <3> HIDE DEF copy, state
    <3> QED BY <1>3, <2>1, <3>1, <3>2
  <2>4. CASE BeginStep(x)
    <3> DEFINE copy == StepEntered(e.copy, e.i)
               state == [e EXCEPT !.copy = copy, !.at = "run"]
    <3>1. e.at = "loop" /\ ExecutorSaves(x, copy, state) /\ UNCHANGED cluster
      BY <2>1, <2>4 DEF BeginStep, hosts
    <3>2. state.task = e.task
      BY <2>2 DEF ExecutorState
    <3> HIDE DEF copy, state
    <3> QED BY <1>3, <2>1, <3>1, <3>2
  <2>5. CASE RunTask(x)
    BY <2>5, RunTaskKeepsResets
  <2>6. CASE StepSucceeds(x) \/ StepFails(x)
    <3>1. PICK outcome : PlaybookEnds(x, outcome) /\ UNCHANGED cluster
      BY <2>6 DEF StepSucceeds, StepFails, hosts
    <3> DEFINE state == [e EXCEPT !.at = outcome, !.task = 0, !.due = FALSE]
    <3>2. executor' = [executor EXCEPT ![x] = state] /\ state.task = 0
      BY <2>1, <2>2, <3>1 DEF PlaybookEnds, ExecutorGoes, ExecutorState
    <3> HIDE DEF state
    <3> QED BY <1>2, <3>1, <3>2
  <2>7. CASE RecordSuccess(x)
    <3> DEFINE copy == StepRecorded(e.copy, e.i)
               state == [e EXCEPT !.copy = copy, !.i = e.i + 1, !.at = "loop"]
    <3>1. e.at = "succeeded" /\ ExecutorSaves(x, copy, state) /\ UNCHANGED cluster
      BY <2>1, <2>7 DEF RecordSuccess, hosts
    <3>2. state.task = e.task
      BY <2>2 DEF ExecutorState
    <3> HIDE DEF copy, state
    <3> QED BY <1>3, <2>1, <3>1, <3>2
  <2>8. CASE RecordFailure(x) \/ CompleteJob(x)
    <3>1. PICK copy : ExecutorSaves(x, copy, IdleExecutor) /\ UNCHANGED cluster
      BY <2>8 DEF RecordFailure, CompleteJob, hosts
    <3>2. IdleExecutor.task = 0
      BY DEF IdleExecutor
    <3> QED BY <1>2, <3>1, <3>2 DEF ExecutorSaves, ExecutorGoes
  <2> QED BY <1>4, <2>3, <2>4, <2>5, <2>6, <2>7, <2>8 DEF Execute
<1>5. ASSUME NEW h \in Handlers, Handle(h) \/ Request(h)
      PROVE  ResetsInv'
  <2>1. CASE UNCHANGED <<executor, cluster>>
    BY <2>1, ResetsKept
  <2>2. CASE DeployStart(h) \/ ResumeStart(h)
    <3>1. PICK from : LoadAndStart(h, from)
      BY <2>2 DEF DeployStart, ResumeStart
    <3>2. CASE ~UNCHANGED executor
      <4> DEFINE state == [at |-> "loop", job |-> handler[h].job,
                           copy |-> stored[handler[h].job], secret |-> handler[h].secret,
                           i |-> from, task |-> 0, due |-> FALSE]
      <4>1. /\ \E x \in Executors : executor' = [executor EXCEPT ![x] = state]
            /\ UNCHANGED cluster
        BY <3>1, <3>2 DEF LoadAndStart, StartExecutor, hosts
      <4>2. state.task = 0
        OBVIOUS
      <4> HIDE DEF state
      <4> QED BY <1>2, <4>1, <4>2
    <3> QED BY <2>1, <3>1, <3>2 DEF LoadAndStart, hosts
  <2>3. CASE DeploySecret(h) \/ ResumeFinish(h) \/ ResumeLoadSecret(h)
             \/ ResumeSaveSecret(h) \/ ResumeSave(h) \/ Request(h)
    BY <2>1, <2>3 DEF DeploySecret, ResumeFinish, ResumeLoadSecret, ResumeSaveSecret,
       ResumeSave, Request, DeployRequest, ResumeRequest, hosts
  <2> QED BY <1>5, <2>2, <2>3 DEF Handle
<1>6. CASE Crash
  BY <1>6, ResetsKept DEF Crash, hosts, IdleExecutor
<1>7. CASE UNCHANGED vars
  BY <1>7, ResetsKept DEF vars, hosts
<1> QED BY <1>4, <1>5, <1>6, <1>7 DEF Next

LEMMA ResetsInvInit ==
  ASSUME Init
  PROVE  ResetsInv
<1>1. cluster = FreshNodes /\ \A x \in Executors : executor[x] = IdleExecutor
  BY DEF Init
<1>2. CountedByMarker(FreshNodes)
  BY JobAssumption DEF CountedByMarker, FreshNodes, MarkedIn, Directories
<1>3. \A x \in Executors : LookHolds(executor[x], cluster)
  BY <1>1 DEF LookHolds, Working, IdleExecutor
<1> QED BY <1>1, <1>2, <1>3 DEF ResetsInv

LEMMA ResetsInvHolds ==
  ASSUME OneRequestAtATime, OneJob
  PROVE  Spec => []ResetsInv
<1>1. IInv /\ SerialInv /\ ResetsInv /\ [Next]_vars => ResetsInv'
  BY IInvStep, ResetsInvStep DEF IInv
<1> QED BY <1>1, ResetsInvInit, SerialInvHolds, PTL DEF Spec

(* A job alone on its nodes, served one request at a time, resets each      *)
(* directory at most once, however often its steps fail, its playbooks are *)
(* stopped half way, the process dies and Resume runs the steps again.     *)
THEOREM ResetOnce ==
  ASSUME OneRequestAtATime, OneJob
  PROVE  Spec => []ResetOncePerJob
<1>1. ResetsInv => ResetOncePerJob
  BY DEF ResetsInv, CountedByMarker, ResetOncePerJob
<1> QED BY <1>1, ResetsInvHolds, PTL

-----------------------------------------------------------------------------
(* The last step a request does not skip checks the whole cluster, as it   *)
(* does in the service's table (the lemma below).                          *)
ChecksLast ==
  \A request \in Specs :
    \E c \in 0 .. N - 1 :
      /\ ~Skipped(c, request)
      /\ Table[c + 1] \in {"verify_cluster", "init_app_db"}
      /\ \A k \in c + 1 .. N - 1 : Skipped(k, request)

(* The steps of NewService end with the two that check (service.go:31-39). *)
LEMMA StepsCheckLast ==
  ASSUME Table = steps
  PROVE  ChecksLast
<1>1. N = 7 /\ Table[6] = "verify_cluster" /\ Table[7] = "init_app_db"
  BY DEF N, steps
<1>2. ASSUME NEW request \in Specs
      PROVE  \E c \in 0 .. N - 1 :
               /\ ~Skipped(c, request)
               /\ Table[c + 1] \in {"verify_cluster", "init_app_db"}
               /\ \A k \in c + 1 .. N - 1 : Skipped(k, request)
  <2>1. CASE request.initDB
    <3>1. ~Skipped(6, request) /\ \A k \in 7 .. 6 : Skipped(k, request)
      BY <1>1, <2>1 DEF Skipped, ShouldSkipStep
    <3> QED BY <1>1, <3>1
  <2>2. CASE ~request.initDB
    <3>1. ~Skipped(5, request)
      BY <1>1 DEF Skipped, ShouldSkipStep
    <3>2. Skipped(6, request)
      BY <1>1, <2>2 DEF Skipped, ShouldSkipStep
    <3>3. \A k \in 6 .. 6 : Skipped(k, request)
      BY <3>2
    <3> QED BY <1>1, <3>1, <3>3
  <2> QED BY <2>1, <2>2
<1> QED BY <1>2 DEF ChecksLast

(* From step i on, request has nothing to run.                             *)
NothingLeft(request, i) == \A k \in i .. N - 1 : Skipped(k, request)

(* An executor that has only skipped steps before it has been through the  *)
(* last check, and nothing has changed since.                              *)
Checked(e) ==
  \/ e.at = "loop" /\ NothingLeft(spec[e.job], e.i)
  \/ e.at = "succeeded" /\ NothingLeft(spec[e.job], e.i + 1)
  => Usable(cluster, RunOf(e))

UsableInv == \A x \in Executors : Checked(executor[x])

LEMMA LastCheckSucceeds ==
  ASSUME ChecksLast, NEW request \in Specs, NEW i \in 0 .. N - 1, ~Skipped(i, request),
         NothingLeft(request, i + 1), NEW c, NEW run, CanSucceed(Table[i + 1], c, run)
  PROVE  Usable(c, run)
<1>1. PICK l \in 0 .. N - 1 :
        /\ ~Skipped(l, request)
        /\ Table[l + 1] \in {"verify_cluster", "init_app_db"}
        /\ \A k \in l + 1 .. N - 1 : Skipped(k, request)
  BY DEF ChecksLast
<1>2. N \in Nat
  BY Constants
<1>3. i = l
  <2>1. ~(i < l)
    BY <1>1, <1>2 DEF NothingLeft
  <2>2. ~(l < i)
    BY <1>1, <1>2
  <2> QED BY <2>1, <2>2
<1>4. Table[i + 1] \in {"verify_cluster", "init_app_db"}
  BY <1>1, <1>3
<1>5. \A name \in {"verify_cluster", "init_app_db"} : CanSucceed(name, c, run) = Usable(c, run)
  BY Zenon DEF CanSucceed
<1> QED BY <1>4, <1>5

(* An executor that is left alone, on nodes that are left alone.           *)
LEMMA CheckedKept ==
  ASSUME NEW e, spec'[e.job] = spec[e.job], UNCHANGED cluster, Checked(e)
  PROVE  Checked(e)'
BY DEF Checked, RunOf

LEMMA UsableKept ==
  ASSUME TypeInv, SerialInv, UsableInv, NEW x \in Executors, NEW state,
         executor' = [executor EXCEPT ![x] = state], UNCHANGED <<spec, cluster>>,
         state.at \in {"loop", "succeeded"} => Checked(state)
  PROVE  UsableInv'
<1>1. executor \in [Executors -> ExecutorState]
  BY DEF TypeInv, TypeOK
<1>2. ASSUME NEW y \in Executors
      PROVE  Checked(executor[y])'
  <2>1. PICK e : e = executor'[y]
    OBVIOUS
  <2>2. CASE e.at \in {"loop", "succeeded"}
    <3>1. Checked(e)
      <4>1. CASE y = x
        BY <1>1, <2>1, <2>2, <4>1
      <4>2. CASE y # x
        BY <1>1, <2>1, <4>2 DEF UsableInv
      <4> QED BY <4>1, <4>2
    <3>2. Checked(e)'
      BY <3>1, CheckedKept
    <3> QED BY <2>1, <3>2 DEF Checked, RunOf
  <2>3. CASE e.at \notin {"loop", "succeeded"}
    BY <2>1, <2>3 DEF Checked
  <2> QED BY <2>2, <2>3
<1> QED BY <1>2 DEF UsableInv

LEMMA ExecuteKeepsUsable ==
  ASSUME OneJob, ChecksLast, TypeInv, SerialInv, UsableInv, NEW x \in Executors, Execute(x)
  PROVE  UsableInv'
<1>1. PICK e : e = executor[x]
  OBVIOUS
<1>2. /\ executor \in [Executors -> ExecutorState] /\ e \in ExecutorState
      /\ spec \in [Jobs -> Specs] /\ e.job \in Jobs /\ e.i \in 0 .. N /\ N \in Nat
  BY <1>1, Constants DEF TypeInv, TypeOK, ExecutorState
<1>3. Checked(e)
  BY <1>1 DEF UsableInv
<1>4. ASSUME NEW copy, NEW state, ExecutorSaves(x, copy, state), UNCHANGED cluster,
             state.at \in {"loop", "succeeded"} => Checked(state)
      PROVE  UsableInv'
  <2>1. IdleExecutor.at = "idle"
    BY DEF IdleExecutor
  <2> QED BY <1>4, <2>1, UsableKept DEF ExecutorSaves, ExecutorGoes
<1>5. CASE SkipStep(x)
  <2> DEFINE copy == StepSkipped(e.copy, e.i)
             state == [e EXCEPT !.copy = copy, !.i = e.i + 1]
  <2>1. /\ ExecutorSaves(x, copy, state) /\ UNCHANGED cluster
        /\ e.at = "loop" /\ e.i < N /\ Skipped(e.i, spec[e.job])
    BY <1>1, <1>5 DEF SkipStep, hosts
  <2>2. /\ state.at = "loop" /\ state.job = e.job /\ state.i = e.i + 1
        /\ state.secret = e.secret
    BY <1>2, <2>1 DEF ExecutorState
  <2>3. NothingLeft(spec[e.job], e.i + 1) => NothingLeft(spec[e.job], e.i)
    BY <1>2, <2>1 DEF NothingLeft
  <2> HIDE DEF copy, state
  <2>4. Checked(state)
    BY <1>3, <2>1, <2>2, <2>3 DEF Checked, RunOf
  <2> QED BY <1>4, <2>1, <2>4
<1>6. CASE BeginStep(x)
  <2> DEFINE copy == StepEntered(e.copy, e.i)
             state == [e EXCEPT !.copy = copy, !.at = "run"]
  <2>1. ExecutorSaves(x, copy, state) /\ UNCHANGED cluster
    BY <1>1, <1>6 DEF BeginStep, hosts
  <2>2. state.at = "run"
    BY <1>2 DEF ExecutorState
  <2> HIDE DEF copy, state
  <2> QED BY <1>4, <2>1, <2>2
<1>7. CASE RunTask(x)
  <2>1. PICK state : executor' = [executor EXCEPT ![x] = state] /\ state.at = "run"
    <3>1. PICK due : executor' = [executor EXCEPT ![x] = [e EXCEPT !.task = @ + 1, !.due = due]]
      BY <1>1, <1>7 DEF RunTask, ExecutorGoes
    <3>2. [e EXCEPT !.task = @ + 1, !.due = due].at = "run"
      BY <1>1, <1>2, <1>7 DEF RunTask, ExecutorState
    <3> QED BY <3>1, <3>2
  <2>2. ASSUME NEW y \in Executors
        PROVE  executor'[y].at \in {"run", "idle"}
    <3>1. CASE y = x
      BY <1>2, <2>1, <3>1
    <3>2. CASE y # x
      <4>1. executor'[y] = executor[y]
        BY <1>2, <2>1, <3>2
      <4>2. e.at # "idle"
        BY <1>1, <1>7 DEF RunTask
      <4>3. executor[y].at = "idle"
        BY <1>1, <1>2, <3>2, <4>2 DEF SerialInv, OwnedOnce, OnJob, OneJob, ExecutorState
      <4> QED BY <4>1, <4>3
    <3> QED BY <3>1, <3>2
  <2> QED BY <2>2 DEF UsableInv, Checked
<1>8. CASE StepSucceeds(x)
  <2> DEFINE state == [e EXCEPT !.at = "succeeded", !.task = 0, !.due = FALSE]
  <2>1. /\ executor' = [executor EXCEPT ![x] = state] /\ UNCHANGED <<spec, cluster>>
        /\ e.at = "run" /\ CanSucceed(Table[e.i + 1], cluster, RunOf(e))
    BY <1>1, <1>8 DEF StepSucceeds, PlaybookEnds, ExecutorGoes, NameAt
  <2>2. /\ state.at = "succeeded" /\ state.job = e.job /\ state.i = e.i
        /\ state.secret = e.secret
    BY <1>2 DEF ExecutorState
  <2>3. e.i \in 0 .. N - 1 /\ ~Skipped(e.i, spec[e.job])
    BY <1>1, <1>2, <2>1 DEF TypeInv, SerialInv, OrderlyExecutor
  <2>4. NothingLeft(spec[e.job], e.i + 1) => Usable(cluster, RunOf(e))
    BY <1>2, <2>1, <2>3, LastCheckSucceeds
  <2> HIDE DEF state
  <2>5. Checked(state)
    BY <2>2, <2>4 DEF Checked, RunOf
  <2> QED BY <2>1, <2>5, UsableKept
<1>9. CASE StepFails(x)
  <2> DEFINE state == [e EXCEPT !.at = "failed", !.task = 0, !.due = FALSE]
  <2>1. executor' = [executor EXCEPT ![x] = state] /\ UNCHANGED <<spec, cluster>>
    BY <1>1, <1>9 DEF StepFails, PlaybookEnds, ExecutorGoes, hosts
  <2>2. state.at = "failed"
    BY <1>2 DEF ExecutorState
  <2> HIDE DEF state
  <2> QED BY <2>1, <2>2, UsableKept
<1>10. CASE RecordSuccess(x)
  <2> DEFINE copy == StepRecorded(e.copy, e.i)
             state == [e EXCEPT !.copy = copy, !.i = e.i + 1, !.at = "loop"]
  <2>1. ExecutorSaves(x, copy, state) /\ UNCHANGED cluster /\ e.at = "succeeded"
    BY <1>1, <1>10 DEF RecordSuccess, hosts
  <2>2. /\ state.at = "loop" /\ state.job = e.job /\ state.i = e.i + 1
        /\ state.secret = e.secret
    BY <1>2 DEF ExecutorState
  <2> HIDE DEF copy, state
  <2>3. Checked(state)
    BY <1>3, <2>1, <2>2 DEF Checked, RunOf
  <2> QED BY <1>4, <2>1, <2>3
<1>11. CASE RecordFailure(x) \/ CompleteJob(x)
  <2>1. PICK copy : ExecutorSaves(x, copy, IdleExecutor) /\ UNCHANGED cluster
    BY <1>11 DEF RecordFailure, CompleteJob, hosts
  <2>2. IdleExecutor.at = "idle"
    BY DEF IdleExecutor
  <2> QED BY <1>4, <2>1, <2>2
<1> QED BY <1>5, <1>6, <1>7, <1>8, <1>9, <1>10, <1>11 DEF Execute

(* No goroutine starts behind the last check: Deploy starts at the first   *)
(* step, Resume at the one that failed.                                    *)
LEMMA StartKeepsUsable ==
  ASSUME ChecksLast, TypeInv, SerialInv, UsableInv, NEW h \in Handlers,
         DeployStart(h) \/ ResumeStart(h)
  PROVE  UsableInv'
<1>1. PICK r : r = handler[h]
  OBVIOUS
<1>2. r \in HandlerState /\ r.job \in Jobs /\ spec[r.job] \in Specs /\ N \in Nat
  BY <1>1, Constants DEF TypeInv, TypeOK, HandlerState
<1>3. PICK from : /\ LoadAndStart(h, from)
                  /\ \/ r.at = "deploy_start" /\ from = 0
                     \/ r.at = "resume_start" /\ from = r.next
  BY <1>1 DEF DeployStart, ResumeStart
<1>4. ~NothingLeft(spec[r.job], from)
  <2>1. CASE r.at = "deploy_start"
    BY <1>2, <1>3, <2>1 DEF ChecksLast, NothingLeft
  <2>2. CASE r.at = "resume_start"
    <3>1. from < N /\ ~Skipped(from, spec[r.job]) /\ from \in 0 .. N
      BY <1>1, <1>2, <1>3, <2>2 DEF SerialInv, OrderlyHandler, HandlerState
    <3> QED BY <1>2, <3>1 DEF NothingLeft
  <2> QED BY <1>3, <2>1, <2>2
<1>5. UNCHANGED <<spec, cluster>>
  BY <1>3 DEF LoadAndStart, hosts
<1>6. CASE UNCHANGED executor
  BY <1>5, <1>6 DEF UsableInv, Checked, RunOf
<1>7. CASE ~UNCHANGED executor
  <2> DEFINE state == [at |-> "loop", job |-> r.job, copy |-> stored[r.job],
                       secret |-> r.secret, i |-> from, task |-> 0, due |-> FALSE]
  <2>1. PICK x \in Executors : executor' = [executor EXCEPT ![x] = state]
    BY <1>1, <1>3, <1>7 DEF LoadAndStart, StartExecutor
  <2>2. state.at = "loop" /\ state.job = r.job /\ state.i = from
    OBVIOUS
  <2> HIDE DEF state
  <2>3. Checked(state)
    BY <1>4, <2>2 DEF Checked
  <2> QED BY <1>5, <2>1, <2>3, UsableKept
<1> QED BY <1>6, <1>7

LEMMA UsableInvStep ==
  ASSUME OneJob, ChecksLast, IInv, SerialInv, UsableInv, [Next]_vars
  PROVE  UsableInv'
<1>1. TypeInv /\ executor \in [Executors -> ExecutorState]
  BY DEF IInv, TypeInv, TypeOK
<1>2. ASSUME UNCHANGED <<spec, cluster, executor>>
      PROVE  UsableInv'
  BY <1>2 DEF UsableInv, Checked, RunOf
<1>3. ASSUME NEW h \in Handlers, DeployRequest(h)
      PROVE  UsableInv'
  <2>1. UNCHANGED <<executor, cluster>>
    BY <1>3 DEF DeployRequest, hosts
  <2>2. \A k \in issued : spec'[k] = spec[k]
    BY <1>1, <1>3 DEF DeployRequest, TypeInv, TypeOK
  <2>3. ASSUME NEW x \in Executors
        PROVE  Checked(executor[x])'
    <3>1. PICK e : e = executor[x]
      OBVIOUS
    <3>2. CASE e.at = "idle"
      BY <2>1, <3>1, <3>2 DEF Checked
    <3>3. CASE e.at # "idle"
      <4>1. e.job \in issued /\ Checked(e)
        BY <3>1, <3>3 DEF IInv, ExecutorsTrue, TrueExecutor, UsableInv
      <4>2. Checked(e)'
        BY <2>1, <2>2, <4>1, CheckedKept
      <4> QED BY <2>1, <3>1, <4>2 DEF Checked, RunOf
    <3> QED BY <3>2, <3>3
  <2> QED BY <2>3 DEF UsableInv
<1>4. ASSUME NEW h \in Handlers, Handle(h) \/ Request(h)
      PROVE  UsableInv'
  <2>1. CASE DeploySecret(h) \/ ResumeFinish(h) \/ ResumeLoadSecret(h)
             \/ ResumeSaveSecret(h) \/ ResumeSave(h) \/ ResumeRequest(h)
    BY <1>2, <2>1 DEF DeploySecret, ResumeFinish, ResumeLoadSecret, ResumeSaveSecret,
       ResumeSave, ResumeRequest, hosts
  <2> QED BY <1>1, <1>3, <1>4, <2>1, StartKeepsUsable DEF Handle, Request
<1>5. CASE Crash
  BY <1>5 DEF Crash, IdleExecutor, UsableInv, Checked
<1>6. CASE UNCHANGED vars
  BY <1>2, <1>6 DEF vars, hosts
<1> QED BY <1>1, <1>4, <1>5, <1>6, ExecuteKeepsUsable DEF Next

LEMMA UsableInvHolds ==
  ASSUME OneRequestAtATime, OneJob, ChecksLast
  PROVE  Spec => []UsableInv
<1>1. Init => UsableInv
  BY DEF Init, IdleExecutor, UsableInv, Checked
<1>2. IInv /\ SerialInv /\ UsableInv /\ [Next]_vars => UsableInv'
  BY UsableInvStep
<1> QED BY <1>1, <1>2, SerialInvHolds, PTL DEF Spec

-----------------------------------------------------------------------------
(* The step that makes a job completed. *)
BecomesCompleted(j) ==
  disk'[j] = "intact" /\ stored'[j].status = "completed" /\ ~Intact(j, "completed")

LEMMA NothingCompletes ==
  ASSUME NEW j \in Jobs, UNCHANGED <<disk, stored>>
  PROVE  ~BecomesCompleted(j)
BY DEF BecomesCompleted, Intact

LEMMA WriteDoesNotComplete ==
  ASSUME TypeInv, NEW k \in Jobs, NEW copy, copy.status # "completed",
         SaveJob(k, copy) \/ SaveJobFails(k), NEW j \in Jobs
  PROVE  ~BecomesCompleted(j)
BY DEF SaveJob, SaveJobFails, Fault, BecomesCompleted, Intact, TypeInv, TypeOK

LEMMA OnlyCompleteJobCompletes ==
  ASSUME IInv, SerialInv, [Next]_vars, NEW j \in Jobs, BecomesCompleted(j)
  PROVE  \E x \in Executors : executor[x].job = j /\ CompleteJob(x)
<1>1. TypeInv
  BY DEF IInv
<1>2. ASSUME NEW x \in Executors, Execute(x)
      PROVE  executor[x].job = j /\ CompleteJob(x)
  <2>1. PICK e : e = executor[x]
    OBVIOUS
  <2>2. e \in ExecutorState /\ e.job \in Jobs /\ e.copy \in JobRecord
    BY <1>1, <2>1 DEF TypeInv, TypeOK, ExecutorState
  <2>3. e.at # "idle" => e.copy.status = "running"
    BY <2>1 DEF SerialInv, OrderlyExecutor
  <2>4. ASSUME NEW copy, NEW state, ExecutorSaves(x, copy, state), copy.status # "completed"
        PROVE  FALSE
    <3>1. SaveJob(e.job, copy) \/ SaveJobFails(e.job)
      BY <2>1, <2>4 DEF ExecutorSaves
    <3> QED BY <1>1, <2>2, <2>4, <3>1, WriteDoesNotComplete
  <2>5. CASE RunTask(x) \/ StepSucceeds(x) \/ StepFails(x)
    BY <2>5, NothingCompletes DEF RunTask, StepSucceeds, StepFails, files
  <2>6. CASE SkipStep(x)
    <3> DEFINE copy == StepSkipped(e.copy, e.i)
               state == [e EXCEPT !.copy = copy, !.i = e.i + 1]
    <3>1. ExecutorSaves(x, copy, state) /\ copy.status = "running"
      BY <2>1, <2>2, <2>3, <2>6 DEF SkipStep, StepSkipped, JobRecord
    <3> HIDE DEF copy, state
    <3> QED BY <2>4, <3>1
  <2>7. CASE BeginStep(x)
    <3> DEFINE copy == StepEntered(e.copy, e.i)
               state == [e EXCEPT !.copy = copy, !.at = "run"]
    <3>1. ExecutorSaves(x, copy, state) /\ copy.status = "running"
      BY <2>1, <2>2, <2>3, <2>7 DEF BeginStep, StepEntered, JobRecord
    <3> HIDE DEF copy, state
    <3> QED BY <2>4, <3>1
  <2>8. CASE RecordSuccess(x)
    <3> DEFINE copy == StepRecorded(e.copy, e.i)
               state == [e EXCEPT !.copy = copy, !.i = e.i + 1, !.at = "loop"]
    <3>1. ExecutorSaves(x, copy, state) /\ copy.status = "running"
      BY <2>1, <2>2, <2>3, <2>8 DEF RecordSuccess, StepRecorded, JobRecord
    <3> HIDE DEF copy, state
    <3> QED BY <2>4, <3>1
  <2>9. CASE RecordFailure(x)
    <3>1. ExecutorSaves(x, JobFailed(e.copy), IdleExecutor) /\ JobFailed(e.copy).status = "failed"
      BY <2>1, <2>2, <2>9 DEF RecordFailure, JobFailed, JobRecord
    <3> QED BY <2>4, <3>1
  <2>10. CASE CompleteJob(x)
    <3>1. SaveJob(e.job, JobCompleted(e.copy)) \/ SaveJobFails(e.job)
      BY <2>1, <2>10 DEF CompleteJob, ExecutorSaves
    <3>2. e.job = j
      BY <1>1, <2>2, <3>1 DEF SaveJob, SaveJobFails, Fault, BecomesCompleted, Intact, TypeInv, TypeOK
    <3> QED BY <2>1, <2>10, <3>2
  <2> QED BY <1>2, <2>5, <2>6, <2>7, <2>8, <2>9, <2>10 DEF Execute
<1>3. ASSUME NEW h \in Handlers, Handle(h) \/ Request(h)
      PROVE  FALSE
  <2>1. PICK r : r = handler[h]
    OBVIOUS
  <2>2. r \in HandlerState /\ r.job \in Jobs /\ r.copy \in JobRecord
    BY <1>1, <2>1 DEF TypeInv, TypeOK, HandlerState
  <2>3. ~ResumeFinish(h)
    BY DEF SerialInv, OrderlyHandler, ResumeFinish
  <2>4. CASE ResumeSave(h)
    <3> DEFINE copy == [r.copy EXCEPT !.status = "running"]
    <3>1. (SaveJob(r.job, copy) \/ SaveJobFails(r.job)) /\ copy.status = "running"
      BY <2>1, <2>2, <2>4 DEF ResumeSave, JobRecord
    <3> HIDE DEF copy
    <3> QED BY <1>1, <2>2, <3>1, WriteDoesNotComplete
  <2>5. CASE DeployRequest(h)
    <3>1. PICK k \in Jobs : SaveJob(k, NewJob) \/ SaveJobFails(k)
      BY <2>5 DEF DeployRequest
    <3>2. NewJob.status = "running"
      BY DEF NewJob
    <3> QED BY <1>1, <3>1, <3>2, WriteDoesNotComplete
  <2>6. CASE DeploySecret(h) \/ DeployStart(h) \/ ResumeLoadSecret(h)
             \/ ResumeSaveSecret(h) \/ ResumeStart(h) \/ ResumeRequest(h)
    BY <2>6, NothingCompletes DEF DeploySecret, DeployStart, ResumeLoadSecret,
       ResumeSaveSecret, ResumeStart, ResumeRequest, LoadAndStart, SaveSecret,
       SaveSecretFails, files
  <2> QED BY <1>3, <2>3, <2>4, <2>5, <2>6 DEF Handle, Request
<1>4. CASE Crash
  <2>1. stored' = stored /\ \A k \in Jobs : disk'[k] = "intact" => disk[k] = "intact"
    BY <1>1, <1>4, CrashLeaves
  <2> QED BY <2>1 DEF BecomesCompleted, Intact
<1>5. CASE UNCHANGED vars
  BY <1>5, NothingCompletes DEF vars, files
<1> QED BY <1>2, <1>3, <1>4, <1>5 DEF Next

(* When a job, alone on its nodes and served one request at a time, becomes *)
(* completed, every node holds the data of its run and the stored password *)
(* of the superuser opens them, whatever passwords resumes brought and      *)
(* whichever were lost or not read: the last check a request does not skip  *)
(* still holds when executeFrom writes the verdict.  The checks log in as   *)
(* the superuser only: nothing is claimed of the two other accounts.       *)
THEOREM CompletedIsUsable ==
  ASSUME OneRequestAtATime, OneJob, ChecksLast
  PROVE  Spec => CompletedClusterIsUsable
<1> DEFINE Promise(j) ==
      /\ Usable(cluster, RunConfig(j, spec[j], secretFile[j]))
      /\ cluster.data["primary"] = j
<1>1. ASSUME IInv, SerialInv, UsableInv, [Next]_vars, NEW j \in Jobs, BecomesCompleted(j)
      PROVE  Promise(j)
  <2>1. PICK x \in Executors : executor[x].job = j /\ CompleteJob(x)
    BY <1>1, OnlyCompleteJobCompletes
  <2>2. executor[x].at = "loop" /\ executor[x].i = N /\ N \in Nat
    BY <2>1, Constants DEF CompleteJob
  <2>3. NothingLeft(spec[j], N)
    BY <2>2 DEF NothingLeft
  <2>4. Usable(cluster, RunConfig(j, spec[j], executor[x].secret))
    BY <1>1, <2>1, <2>2, <2>3 DEF UsableInv, Checked, RunOf
  <2>5. executor[x].secret = secretFile[j]
    BY <1>1, <2>1, <2>2 DEF SerialInv, OrderlyExecutor
  <2>6. Usable(cluster, RunConfig(j, spec[j], secretFile[j]))
    BY <2>4, <2>5
  <2>7. cluster.data["primary"] # NoJob
    BY <2>6 DEF Usable, NodesOf, Nodes
  <2>8. cluster.data["primary"] \in MaybeJob
    BY <1>1 DEF IInv, TypeInv, TypeOK, Cluster, Nodes
  <2> QED BY <2>6, <2>7, <2>8 DEF MaybeJob, OneJob
<1>2. IInv /\ SerialInv /\ UsableInv /\ [Next]_vars
        => [\A j \in Jobs : BecomesCompleted(j) => Promise(j)]_vars
  BY <1>1
<1>3. Spec => [][\A j \in Jobs : BecomesCompleted(j) => Promise(j)]_vars
  <2> HIDE DEF Promise
  <2> QED BY <1>2, SerialInvHolds, UsableInvHolds, PTL DEF Spec
<1> QED BY <1>3 DEF CompletedClusterIsUsable, BecomesCompleted

-----------------------------------------------------------------------------
(* Only the configure task of a run changes what a node is configured with. *)
LEMMA OnlyConfigureConfigures ==
  ASSUME NEW task, NEW d, NEW due \in BOOLEAN, NEW c \in Cluster, NEW run,
         run.job \in Jobs, d \in Directories, NEW n \in Nodes,
         TaskDone(task, d, due, c, run).config[n] # c.config[n]
  PROVE  TaskDone(task, d, due, c, run).config[n] = run.secret
<1> DEFINE after == TaskDone(task, d, due, c, run)
<1>1. CASE after = Configured(d, c, run)
  BY <1>1 DEF Configured, Cluster
<1>2. Wiped(d, c).config = c.config
  BY DEF Wiped, Cluster
<1>3. Marked(d, c, run).config = c.config
  BY DEF Marked, Cluster
<1>4. PrimaryStarted(c, run).config = c.config
  BY DEF PrimaryStarted, Cluster
<1>5. StandbyStarted(c, run).config = c.config
  BY DEF StandbyStarted, Cluster
<1>6. /\ [c EXCEPT !.running = FALSE].config = c.config
      /\ [c EXCEPT !.running = TRUE].config = c.config
  BY DEF Cluster
<1>7. \/ after \in {c, Wiped(d, c), Marked(d, c, run), PrimaryStarted(c, run),
                   StandbyStarted(c, run), [c EXCEPT !.running = FALSE],
                   [c EXCEPT !.running = TRUE]}
      \/ after = Configured(d, c, run)
  BY Zenon DEF TaskDone
<1> QED BY <1>1, <1>2, <1>3, <1>4, <1>5, <1>6, <1>7

(* Served one request at a time, a node is only ever configured with what  *)
(* the secret file of the job holds at that moment: whatever writes and     *)
(* reads fail, whatever resumes bring and wherever the process dies, no     *)
(* node gets a password that is nowhere stored.                            *)
THEOREM StoredPasswordsReachNodes ==
  ASSUME OneRequestAtATime
  PROVE  Spec => NodesGetStoredPasswords
<1> DEFINE Promise == \A n \in Nodes :
      cluster'.config[n] # cluster.config[n]
        => \E j \in issued : cluster'.config[n] = secretFile[j]
<1>1. ASSUME IInv, SerialInv, [Next]_vars, NEW n \in Nodes,
             cluster'.config[n] # cluster.config[n]
      PROVE  \E j \in issued : cluster'.config[n] = secretFile[j]
  <2>1. PICK x \in Executors : RunTask(x)
    <3>1. UNCHANGED cluster \/ \E x \in Executors : RunTask(x)
      BY <1>1 DEF Next, Execute, SkipStep, BeginStep, StepSucceeds, StepFails,
         RecordSuccess, RecordFailure, CompleteJob, Handle, DeploySecret, DeployStart,
         ResumeFinish, ResumeLoadSecret, ResumeSaveSecret, ResumeSave, ResumeStart,
         LoadAndStart, Request, DeployRequest, ResumeRequest, Crash, hosts, vars
    <3> QED BY <1>1, <3>1
  <2>2. PICK e : e = executor[x]
    OBVIOUS
  <2>3. /\ e.at # "idle" /\ e.job \in issued /\ e.due \in BOOLEAN
        /\ e.job \in Jobs /\ secretFile[e.job] = e.secret
    <3>1. e.at = "run" /\ e \in ExecutorState
      BY <1>1, <2>1, <2>2 DEF RunTask, IInv, TypeInv, TypeOK
    <3> QED BY <1>1, <2>2, <3>1
            DEF IInv, ExecutorsTrue, TrueExecutor, SerialInv, OrderlyExecutor,
                ExecutorState
  <2>4. \E d \in Directories : \E task :
          cluster' = TaskDone(task, d, e.due, cluster, RunOf(e))
    <3>1. DirectoryOf(NameAt(e)) \in Directories
      BY DirectoryCases
    <3>2. \E task : cluster' = TaskDone(task, DirectoryOf(NameAt(executor[x])),
                                        executor[x].due, cluster, RunOf(executor[x]))
      BY <2>1, Zenon DEF RunTask
    <3> QED BY <2>2, <3>1, <3>2
  <2>5. RunOf(e).job = e.job /\ RunOf(e).secret = e.secret
    BY DEF RunOf, RunConfig
  <2>6. cluster'.config[n] = e.secret
    BY <1>1, <2>3, <2>4, <2>5, OnlyConfigureConfigures DEF IInv, TypeInv, TypeOK
  <2> QED BY <2>3, <2>6
<1>2. IInv /\ SerialInv /\ [Next]_vars => [Promise]_vars
  BY <1>1
<1>3. Spec => [][Promise]_vars
  <2> HIDE DEF Promise
  <2> QED BY <1>2, SerialInvHolds, PTL DEF Spec
<1> QED BY <1>3 DEF NodesGetStoredPasswords
=============================================================================
