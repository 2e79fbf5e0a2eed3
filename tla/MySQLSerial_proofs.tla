-------------------------- MODULE MySQLSerial_proofs --------------------------
(***************************************************************************)
(* Theorems about MySQLJobs when requests are served one at a time and no  *)
(* job is rolled back: the service then keeps the promise of JobLifecycle. *)
(* Writes may fail and the process may die anywhere.                       *)
(*                                                                         *)
(* The argument.  Of all the copies of a job at most one is in use, and it *)
(* is equal to the job's file: an executor only runs while the file says   *)
(* "running", and Resume then refuses the job.  What is written from this  *)
(* copy is the next state of the file, never an older one.                 *)
(* So no request writes the secret file of a job while an executor uses    *)
(* the password that is in it.                                             *)
(***************************************************************************)
EXTENDS MySQLJobs_proofs, FiniteSetTheorems

(* mysql_two_resumes shows what happens without the first, and             *)
(* mysql_resume_after_rollback without the second.                         *)
OneRequestAtATime == \A g, h \in Handlers : g = h
NoRollbacks == MaxRollbacks = 0

(* A handler or an executor in state p works on job j. *)
OnJob(p, j) == p.at # "idle" /\ p.job = j

OwnedOnce ==
  /\ \A x, y \in Executors, j \in Jobs :
       OnJob(executor[x], j) /\ OnJob(executor[y], j) => x = y
  /\ \A x \in Executors, h \in Handlers, j \in Jobs :
       ~(OnJob(executor[x], j) /\ OnJob(handler[h], j))

AppliedUpTo(j, last) == {i \in Applicable(Table, spec[j]) : i <= last}

OrderlyJob(j, job) ==
  /\ job.status \in {"running", "failed", "completed"}
  /\ job.status = "failed" =>
       job.current = job.last + 1 /\ job.current < N
  /\ job.status = "completed" => job.last = N - 1
  /\ job.rollbacks = 0 /\ job.done = Cardinality(AppliedUpTo(j, job.last))

OrderlyFile(j) ==
  /\ disk[j] = "absent" => stored[j] = NewJob
  /\ disk[j] = "intact" => OrderlyJob(j, stored[j])

OnFile(j, copy) == disk[j] = "intact" /\ stored[j] = copy

OrderlyExecutor(e) ==
  /\ OnFile(e.job, e.copy)
  /\ e.copy.status = "running" /\ e.copy.last + 1 = e.i
  /\ e.at # "loop" => e.copy.current = e.i /\ ~Skipped(e.i, spec[e.job])

OrderlyHandler(r) ==
  /\ OnFile(r.job, r.copy)
  /\ r.next = r.copy.last + 1
  /\ r.at \in {"deploy_secret", "deploy_start"} => r.next = 0
  /\ \/ r.at \in {"deploy_secret", "deploy_start", "resume_start"} /\ r.copy.status = "running"
     \/ /\ r.at \in {"resume_load_secret", "resume_save_secret", "resume_save"}
        /\ r.copy.status = "failed"

(* The inductive invariant, on top of IInv. *)
SerialInv ==
  /\ OwnedOnce
  /\ \A j \in Jobs : OrderlyFile(j)
  /\ \A x \in Executors : executor[x].at # "idle" => OrderlyExecutor(executor[x])
  /\ \A h \in Handlers : handler[h].at # "idle" => OrderlyHandler(handler[h])

-----------------------------------------------------------------------------
(* A step is about one job: what is known of the others does not change.   *)
Untouched(j) ==
  disk'[j] = disk[j] /\ stored'[j] = stored[j] /\ spec'[j] = spec[j]

LEMMA FileUntouched ==
  ASSUME NEW j \in Jobs, Untouched(j), OrderlyFile(j)
  PROVE  OrderlyFile(j)'
BY DEF Untouched, OrderlyFile, OrderlyJob, AppliedUpTo

LEMMA ExecutorUntouched ==
  ASSUME NEW e, Untouched(e.job), OrderlyExecutor(e)
  PROVE  OrderlyExecutor(e)'
BY DEF Untouched, OrderlyExecutor, OnFile, Skipped

LEMMA HandlerUntouched ==
  ASSUME NEW r, Untouched(r.job), OrderlyHandler(r)
  PROVE  OrderlyHandler(r)'
BY DEF Untouched, OrderlyHandler, OnFile

(* The owner of job j moves on with it, or leaves it. *)
LEMMA ExecutorMoves ==
  ASSUME TypeInv, SerialInv, NEW x \in Executors, NEW j \in Jobs, NEW state,
         OnJob(executor[x], j),
         executor' = [executor EXCEPT ![x] = state], UNCHANGED handler,
         state.at = "idle" \/ (state.job = j /\ OrderlyExecutor(state)'),
         OrderlyFile(j)', \A k \in Jobs \ {j} : Untouched(k)
  PROVE  SerialInv'
<1>1. executor \in [Executors -> ExecutorState] /\ handler \in [Handlers -> HandlerState]
  BY DEF TypeInv, TypeOK
<1>2. executor'[x] = state /\ \A y \in Executors \ {x} : executor'[y] = executor[y]
  BY <1>1
<1>3. \A y \in Executors : \A k \in Jobs : OnJob(executor[y], k)' => OnJob(executor[y], k)
  BY <1>1, <1>2 DEF OnJob
<1>4. OwnedOnce'
  <2>1. OwnedOnce
    BY DEF SerialInv
  <2>2. ASSUME NEW y \in Executors, NEW z \in Executors, NEW k \in Jobs,
               OnJob(executor[y], k)', OnJob(executor[z], k)'
        PROVE  y = z
    BY <1>3, <2>1, <2>2 DEF OwnedOnce
  <2>3. ASSUME NEW y \in Executors, NEW h \in Handlers, NEW k \in Jobs,
               OnJob(executor[y], k)', OnJob(handler[h], k)'
        PROVE  FALSE
    <3>1. OnJob(handler[h], k)
      BY <2>3 DEF OnJob
    <3> QED BY <1>3, <2>1, <2>3, <3>1 DEF OwnedOnce
  <2> QED BY <2>2, <2>3 DEF OwnedOnce
<1>5. ASSUME NEW k \in Jobs
      PROVE  OrderlyFile(k)'
  <2>1. CASE k = j
    BY <2>1
  <2>2. CASE k # j
    BY <2>2, FileUntouched DEF SerialInv
  <2> QED BY <2>1, <2>2
<1>6. ASSUME NEW y \in Executors, executor'[y].at # "idle"
      PROVE  OrderlyExecutor(executor[y])'
  <2>1. CASE y = x
    <3>1. OrderlyExecutor(state)'
      BY <1>2, <1>6, <2>1
    <3> QED BY <1>2, <2>1, <3>1 DEF OrderlyExecutor, OnFile, Skipped
  <2>2. CASE y # x
    <3>1. PICK e : e = executor[y]
      OBVIOUS
    <3>2. e.at # "idle" /\ e.job \in Jobs /\ executor'[y] = e
      BY <1>1, <1>2, <1>6, <2>2, <3>1 DEF ExecutorState
    <3>3. e.job # j
      BY <2>2, <3>1, <3>2 DEF SerialInv, OwnedOnce, OnJob
    <3>4. OrderlyExecutor(e)
      BY <3>1, <3>2 DEF SerialInv
    <3>5. OrderlyExecutor(e)'
      BY <3>2, <3>3, <3>4, ExecutorUntouched
    <3> QED BY <3>2, <3>5 DEF OrderlyExecutor, OnFile, Skipped
  <2> QED BY <2>1, <2>2
<1>7. ASSUME NEW h \in Handlers, handler'[h].at # "idle"
      PROVE  OrderlyHandler(handler[h])'
  <2>1. PICK r : r = handler[h]
    OBVIOUS
  <2>2. r.at # "idle" /\ r.job \in Jobs
    BY <1>1, <1>7, <2>1 DEF HandlerState
  <2>3. r.job # j
    BY <2>1, <2>2 DEF SerialInv, OwnedOnce, OnJob
  <2>4. OrderlyHandler(r)
    BY <2>1, <2>2 DEF SerialInv
  <2>5. OrderlyHandler(r)'
    BY <2>2, <2>3, <2>4, HandlerUntouched
  <2> QED BY <2>1, <2>5 DEF OrderlyHandler, OnFile
<1> QED BY <1>4, <1>5, <1>6, <1>7 DEF SerialInv

LEMMA HandlerMoves ==
  ASSUME OneRequestAtATime, TypeInv, SerialInv, NEW h \in Handlers, NEW j \in Jobs,
         NEW state,
         \A x \in Executors : ~OnJob(executor[x], j),
         HandlerGoes(h, state), UNCHANGED executor,
         state.at = "idle" \/ (state.job = j /\ OrderlyHandler(state)'),
         OrderlyFile(j)', \A k \in Jobs \ {j} : Untouched(k)
  PROVE  SerialInv'
<1>1. executor \in [Executors -> ExecutorState] /\ handler \in [Handlers -> HandlerState]
  BY DEF TypeInv, TypeOK
<1>2. \A g \in Handlers : g = h /\ handler'[g] = state
  BY <1>1 DEF OneRequestAtATime, HandlerGoes
<1>3. OwnedOnce'
  <2>1. ASSUME NEW y \in Executors, NEW z \in Executors, NEW k \in Jobs,
               OnJob(executor[y], k)', OnJob(executor[z], k)'
        PROVE  y = z
    BY <2>1 DEF OwnedOnce, OnJob, SerialInv
  <2>2. ASSUME NEW y \in Executors, NEW g \in Handlers, NEW k \in Jobs,
               OnJob(executor[y], k)', OnJob(handler[g], k)'
        PROVE  FALSE
    BY <1>2, <2>2 DEF OnJob
  <2> QED BY <2>1, <2>2 DEF OwnedOnce
<1>4. ASSUME NEW k \in Jobs
      PROVE  OrderlyFile(k)'
  <2>1. CASE k = j
    BY <2>1
  <2>2. CASE k # j
    BY <2>2, FileUntouched DEF SerialInv
  <2> QED BY <2>1, <2>2
<1>5. ASSUME NEW y \in Executors, executor'[y].at # "idle"
      PROVE  OrderlyExecutor(executor[y])'
  <2>1. PICK e : e = executor[y]
    OBVIOUS
  <2>2. e.at # "idle" /\ e.job \in Jobs /\ executor'[y] = e
    BY <1>1, <1>5, <2>1 DEF ExecutorState
  <2>3. e.job # j
    BY <2>1, <2>2 DEF OnJob
  <2>4. OrderlyExecutor(e)
    BY <2>1, <2>2 DEF SerialInv
  <2>5. OrderlyExecutor(e)'
    BY <2>2, <2>3, <2>4, ExecutorUntouched
  <2> QED BY <2>2, <2>5 DEF OrderlyExecutor, OnFile, Skipped
<1>6. ASSUME NEW g \in Handlers, handler'[g].at # "idle"
      PROVE  OrderlyHandler(handler[g])'
  <2>1. handler'[g] = state /\ OrderlyHandler(state)'
    BY <1>2, <1>6
  <2> QED BY <2>1 DEF OrderlyHandler, OnFile
<1> QED BY <1>3, <1>4, <1>5, <1>6 DEF SerialInv

-----------------------------------------------------------------------------
(* The count of completed steps goes with the last completed step. *)
LEMMA CountSkipped ==
  ASSUME NEW j \in Jobs, NEW i \in 0 .. N - 1, Skipped(i, spec[j])
  PROVE  AppliedUpTo(j, i) = AppliedUpTo(j, i - 1)
<1>1. \A k \in Applicable(Table, spec[j]) : k \in Int /\ k # i
  BY Constants DEF Applicable, Skipped, N
<1>2. \A k \in Applicable(Table, spec[j]) : k <= i <=> k <= i - 1
  BY <1>1
<1> QED BY <1>2 DEF AppliedUpTo

LEMMA CountRecorded ==
  ASSUME NEW j \in Jobs, NEW i \in 0 .. N - 1, ~Skipped(i, spec[j])
  PROVE  Cardinality(AppliedUpTo(j, i)) = Cardinality(AppliedUpTo(j, i - 1)) + 1
<1>1. N \in Nat /\ N = Len(Table)
  BY Constants DEF N
<1>2. Applicable(Table, spec[j]) \subseteq 0 .. N - 1 /\ i \in Applicable(Table, spec[j])
  BY <1>1 DEF Applicable, Skipped
<1>3. IsFiniteSet(AppliedUpTo(j, i - 1))
  <2>1. IsFiniteSet(0 .. N - 1)
    BY <1>1, FS_Interval
  <2>2. AppliedUpTo(j, i - 1) \in SUBSET (0 .. N - 1)
    BY <1>2 DEF AppliedUpTo
  <2> QED BY <2>1, <2>2, FS_Subset
<1>4. \A k \in 0 .. N - 1 : k <= i <=> k <= i - 1 \/ k = i
  OBVIOUS
<1>5. AppliedUpTo(j, i) = AppliedUpTo(j, i - 1) \cup {i}
  BY <1>2, <1>4 DEF AppliedUpTo
<1>6. i \notin AppliedUpTo(j, i - 1)
  BY DEF AppliedUpTo
<1> QED BY <1>3, <1>5, <1>6, FS_AddElement

LEMMA CountNone ==
  ASSUME NEW request
  PROVE  Cardinality({i \in Applicable(Table, request) : i <= -1}) = 0
<1>1. {i \in Applicable(Table, request) : i <= -1} = {}
  BY Constants DEF Applicable, N
<1> QED BY <1>1, FS_EmptySet

-----------------------------------------------------------------------------
(* What a Save leaves of the file, and what it leaves alone. *)
LEMMA JobSaved ==
  ASSUME TypeInv, NEW j \in Jobs, NEW copy, SaveJob(j, copy),
         UNCHANGED spec, OrderlyJob(j, copy)
  PROVE  /\ OrderlyFile(j)' /\ OnFile(j, copy)'
         /\ \A k \in Jobs \ {j} : Untouched(k)
<1>1. disk'[j] = "intact" /\ stored'[j] = copy
  BY DEF SaveJob, TypeInv, TypeOK
<1>2. OrderlyJob(j, copy)'
  BY <1>1 DEF OrderlyJob, AppliedUpTo
<1>3. OrderlyJob(j, stored[j])'
  BY <1>1, <1>2 DEF OrderlyJob, AppliedUpTo
<1>4. OrderlyFile(j)'
  BY <1>1, <1>3 DEF OrderlyFile
<1>5. \A k \in Jobs \ {j} : Untouched(k)
  BY DEF SaveJob, Untouched, TypeInv, TypeOK
<1> QED BY <1>1, <1>4, <1>5 DEF OnFile

LEMMA JobNotSaved ==
  ASSUME TypeInv, NEW j \in Jobs, SaveJobFails(j), UNCHANGED spec, OrderlyFile(j)
  PROVE  /\ OrderlyFile(j)'
         /\ \A k \in Jobs \ {j} : Untouched(k)
<1>1. (disk'[j] = disk[j] \/ disk'[j] = "corrupt") /\ stored' = stored
  BY DEF SaveJobFails, TypeInv, TypeOK
<1>2. OrderlyFile(j)'
  BY <1>1 DEF OrderlyFile, OrderlyJob, AppliedUpTo
<1>3. \A k \in Jobs \ {j} : Untouched(k)
  BY DEF SaveJobFails, Untouched, TypeInv, TypeOK
<1> QED BY <1>2, <1>3

LEMMA ExecutorSavesOrderly ==
  ASSUME TypeInv, SerialInv, NEW x \in Executors, NEW j \in Jobs, NEW copy, NEW state,
         OnJob(executor[x], j), ExecutorSaves(x, copy, state), OrderlyJob(j, copy),
         \/ state.at = "idle"
         \/ /\ state.job = j /\ state.copy = copy
            /\ copy.status = "running" /\ copy.last + 1 = state.i
            /\ state.at # "loop" => copy.current = state.i /\ ~Skipped(state.i, spec[j])
  PROVE  SerialInv'
<1>1. executor[x].job = j /\ OrderlyFile(j)
  BY DEF SerialInv, OnJob
<1>2. CASE SaveJob(j, copy) /\ ExecutorGoes(x, state)
  <2>1. UNCHANGED <<spec, handler>>
    BY <1>2 DEF ExecutorGoes
  <2>2. OrderlyFile(j)' /\ OnFile(j, copy)' /\ \A k \in Jobs \ {j} : Untouched(k)
    BY <1>2, <2>1, JobSaved
  <2>3. state.at = "idle" \/ (state.job = j /\ OrderlyExecutor(state)')
    BY <2>1, <2>2 DEF OrderlyExecutor, Skipped
  <2> QED BY <1>2, <2>1, <2>2, <2>3, ExecutorMoves DEF ExecutorGoes
<1>3. CASE SaveJobFails(j) /\ ExecutorGoes(x, IdleExecutor)
  <2>1. UNCHANGED <<spec, handler>>
    BY <1>3 DEF ExecutorGoes
  <2>2. OrderlyFile(j)' /\ \A k \in Jobs \ {j} : Untouched(k)
    BY <1>1, <1>3, <2>1, JobNotSaved
  <2>3. IdleExecutor.at = "idle"
    BY DEF IdleExecutor
  <2> QED BY <1>3, <2>1, <2>2, <2>3, ExecutorMoves DEF ExecutorGoes
<1> QED BY <1>1, <1>2, <1>3 DEF ExecutorSaves

(* The steps of an executor. *)
LEMMA ExecuteOrderly ==
  ASSUME TypeInv, SerialInv, NEW x \in Executors, Execute(x)
  PROVE  SerialInv'
<1>1. PICK e : e = executor[x]
  OBVIOUS
<1>2. PICK j : j = e.job
  OBVIOUS
<1>3. /\ e \in ExecutorState /\ e.copy \in JobRecord /\ e.i \in 0 .. N /\ N \in Nat
      /\ j \in Jobs /\ e.copy.last \in Int
  BY <1>1, <1>2, Constants DEF TypeInv, TypeOK, ExecutorState, JobRecord
<1>4. e.at # "idle"
  BY <1>1 DEF Execute, SkipStep, BeginStep, StepSucceeds, StepFails, RecordSuccess,
              RecordFailure, CompleteJob
<1>5. OnJob(e, j) /\ OrderlyExecutor(e) /\ OrderlyFile(j)
  BY <1>1, <1>2, <1>3, <1>4 DEF OnJob, SerialInv
<1>6. /\ disk[j] = "intact" /\ stored[j] = e.copy /\ OrderlyJob(j, e.copy)
      /\ e.copy.status = "running" /\ e.copy.last + 1 = e.i /\ e.copy.last = e.i - 1
  BY <1>2, <1>3, <1>5 DEF OrderlyExecutor, OrderlyFile, OnFile
<1>7. CASE SkipStep(x)
  <2> DEFINE copy == StepSkipped(e.copy, e.i)
             state == [e EXCEPT !.copy = copy, !.i = e.i + 1]
  <2>1. e.at = "loop" /\ e.i < N /\ Skipped(e.i, spec[j]) /\ e.i \in 0 .. N - 1
    BY <1>1, <1>2, <1>3, <1>7 DEF SkipStep
  <2>2. /\ copy.status = "running" /\ copy.last = e.i
        /\ copy.done = e.copy.done /\ copy.rollbacks = e.copy.rollbacks
    BY <1>3, <1>6 DEF StepSkipped, JobRecord
  <2>3. AppliedUpTo(j, copy.last) = AppliedUpTo(j, e.copy.last)
    BY <1>3, <1>6, <2>1, <2>2, CountSkipped
  <2>4. OrderlyJob(j, copy)
    BY <1>6, <2>2, <2>3 DEF OrderlyJob
  <2>5. /\ state.at = "loop" /\ state.job = j /\ state.copy = copy
        /\ state.i = e.i + 1
    BY <1>2, <1>3, <2>1 DEF ExecutorState
  <2>6. ExecutorSaves(x, copy, state)
    BY <1>1, <1>7 DEF SkipStep
  <2> QED BY <1>1, <1>3, <1>5, <2>2, <2>4, <2>5, <2>6, ExecutorSavesOrderly
<1>8. CASE BeginStep(x)
  <2> DEFINE copy == StepEntered(e.copy, e.i)
             state == [e EXCEPT !.copy = copy, !.at = "run"]
  <2>1. ~Skipped(e.i, spec[j])
    BY <1>1, <1>2, <1>8 DEF BeginStep
  <2>2. /\ copy.status = "running" /\ copy.last = e.copy.last /\ copy.current = e.i
        /\ copy.done = e.copy.done /\ copy.rollbacks = e.copy.rollbacks
    BY <1>3, <1>6 DEF StepEntered, JobRecord
  <2>3. OrderlyJob(j, copy)
    BY <1>6, <2>2 DEF OrderlyJob
  <2>4. /\ state.at = "run" /\ state.job = j /\ state.copy = copy
        /\ state.i = e.i
    BY <1>2, <1>3 DEF ExecutorState
  <2>5. ExecutorSaves(x, copy, state)
    BY <1>1, <1>8 DEF BeginStep
  <2> QED BY <1>1, <1>3, <1>5, <1>6, <2>1, <2>2, <2>3, <2>4, <2>5, ExecutorSavesOrderly
<1>9. ASSUME NEW at, at # "idle", e.at = "run",
             ExecutorGoes(x, [e EXCEPT !.at = at]), UNCHANGED <<files, used>>
      PROVE  SerialInv'
  <2> DEFINE state == [e EXCEPT !.at = at]
  <2>1. /\ state.at = at /\ state.job = j /\ state.copy = e.copy
        /\ state.i = e.i
    BY <1>2, <1>3 DEF ExecutorState
  <2>2. UNCHANGED <<disk, stored, spec, handler>>
    BY <1>9 DEF ExecutorGoes, files
  <2>3. \A k \in Jobs : Untouched(k)
    BY <2>2 DEF Untouched
  <2>4. OrderlyFile(j)'
    BY <1>3, <1>5, <2>3, FileUntouched
  <2>5. OrderlyExecutor(state)'
    BY <1>2, <1>5, <1>9, <2>1, <2>2 DEF OrderlyExecutor, OnFile, Skipped
  <2> QED BY <1>1, <1>3, <1>5, <1>9, <2>1, <2>2, <2>3, <2>4, <2>5, ExecutorMoves
          DEF ExecutorGoes
<1>10. CASE StepSucceeds(x)
  BY <1>1, <1>9, <1>10 DEF StepSucceeds
<1>11. CASE StepFails(x)
  BY <1>1, <1>9, <1>11 DEF StepFails
<1>12. CASE RecordSuccess(x)
  <2> DEFINE copy == StepRecorded(e.copy, e.i)
             state == [e EXCEPT !.copy = copy, !.i = e.i + 1, !.at = "loop"]
  <2>1. e.at = "succeeded" /\ e.i \in 0 .. N - 1
    BY <1>1, <1>3, <1>12 DEF RecordSuccess, TypeInv
  <2>2. ~Skipped(e.i, spec[j])
    BY <1>2, <1>5, <2>1 DEF OrderlyExecutor
  <2>3. /\ copy.status = "running" /\ copy.last = e.i
        /\ copy.done = e.copy.done + 1 /\ copy.rollbacks = e.copy.rollbacks
    BY <1>3, <1>6 DEF StepRecorded, JobRecord
  <2>4. OrderlyJob(j, copy)
    BY <1>3, <1>6, <2>1, <2>2, <2>3, CountRecorded DEF OrderlyJob
  <2>5. /\ state.at = "loop" /\ state.job = j /\ state.copy = copy
        /\ state.i = e.i + 1
    BY <1>2, <1>3 DEF ExecutorState
  <2>6. ExecutorSaves(x, copy, state)
    BY <1>1, <1>12 DEF RecordSuccess
  <2> QED BY <1>1, <1>3, <1>5, <2>3, <2>4, <2>5, <2>6, ExecutorSavesOrderly
<1>13. CASE RecordFailure(x)
  <2> DEFINE copy == JobFailed(e.copy)
  <2>1. e.at = "failed" /\ e.i < N /\ e.copy.current = e.i
    BY <1>1, <1>5, <1>13 DEF RecordFailure, OrderlyExecutor, TypeInv
  <2>2. /\ copy.status = "failed" /\ copy.last = e.copy.last /\ copy.current = e.i
        /\ copy.done = e.copy.done /\ copy.rollbacks = e.copy.rollbacks
    BY <1>3, <2>1 DEF JobFailed, JobRecord
  <2>3. OrderlyJob(j, copy)
    BY <1>6, <2>1, <2>2 DEF OrderlyJob
  <2>4. ExecutorSaves(x, copy, IdleExecutor)
    BY <1>1, <1>13 DEF RecordFailure
  <2> QED BY <1>1, <1>3, <1>5, <2>3, <2>4, ExecutorSavesOrderly DEF IdleExecutor
<1>14. CASE CompleteJob(x)
  <2> DEFINE copy == JobCompleted(e.copy)
  <2>1. e.i = N
    BY <1>1, <1>14 DEF CompleteJob
  <2>2. /\ copy.status = "completed" /\ copy.last = e.copy.last
        /\ copy.done = e.copy.done /\ copy.rollbacks = e.copy.rollbacks
    BY <1>3 DEF JobCompleted, JobRecord
  <2>3. OrderlyJob(j, copy)
    BY <1>6, <2>1, <2>2 DEF OrderlyJob
  <2>4. ExecutorSaves(x, copy, IdleExecutor)
    BY <1>1, <1>14 DEF CompleteJob
  <2> QED BY <1>1, <1>3, <1>5, <2>3, <2>4, ExecutorSavesOrderly DEF IdleExecutor
<1> QED BY <1>7, <1>8, <1>10, <1>11, <1>12, <1>13, <1>14 DEF Execute

(* The goroutine gets the copy that is on file, and the job for its own;    *)
(* when the file could not be read, nobody has the job any more.            *)
LEMMA LoadAndStartOrderly ==
  ASSUME OneRequestAtATime, TypeInv, SerialInv, NEW h \in Handlers,
         handler[h].at \in {"deploy_start", "resume_start"},
         NEW from, from = handler[h].copy.last + 1, LoadAndStart(h, from)
  PROVE  SerialInv'
<1>1. PICK r, j, copy : r = handler[h] /\ j = r.job /\ copy = r.copy
  OBVIOUS
<1>2. /\ executor \in [Executors -> ExecutorState] /\ r \in HandlerState /\ j \in Jobs
      /\ handler \in [Handlers -> HandlerState]
  BY <1>1 DEF TypeInv, TypeOK, HandlerState
<1>3. OnFile(j, copy) /\ copy.status = "running"
  BY <1>1 DEF SerialInv, OrderlyHandler
<1>4. \A x \in Executors : ~OnJob(executor[x], j)
  BY <1>1, <1>2 DEF SerialInv, OwnedOnce, OnJob
<1>5. \A g \in Handlers : handler'[g].at = "idle"
  BY <1>2 DEF OneRequestAtATime, LoadAndStart, HandlerGoes, IdleHandler
<1>6. \A k \in Jobs : Untouched(k)
  BY DEF LoadAndStart, files, hosts, Untouched
<1>7. \A k \in Jobs : OrderlyFile(k)'
  BY <1>6, FileUntouched DEF SerialInv
<1>8. ASSUME NEW y \in Executors, executor[y].at # "idle", executor'[y] = executor[y]
      PROVE  OrderlyExecutor(executor[y])'
  <2>1. PICK e : e = executor[y]
    OBVIOUS
  <2>2. e.at # "idle" /\ e.job \in Jobs /\ executor'[y] = e
    BY <1>2, <1>8, <2>1 DEF ExecutorState
  <2>3. OrderlyExecutor(e)'
    BY <1>6, <2>1, <2>2, ExecutorUntouched DEF SerialInv
  <2> QED BY <2>2, <2>3 DEF OrderlyExecutor, OnFile, Skipped
<1>9. CASE UNCHANGED executor
  <2>1. OwnedOnce'
    BY <1>5, <1>9 DEF SerialInv, OwnedOnce, OnJob
  <2>2. \A y \in Executors : executor'[y] = executor[y]
    BY <1>9
  <2>3. ASSUME NEW y \in Executors, executor'[y].at # "idle"
        PROVE  OrderlyExecutor(executor[y])'
    BY <1>8, <2>2, <2>3
  <2> QED BY <1>5, <1>7, <2>1, <2>3 DEF SerialInv
<1>10. CASE StartExecutor(j, from, r.password)
  <2> DEFINE state == [at |-> "loop", job |-> j, copy |-> copy,
                       password |-> r.password, i |-> from]
  <2>1. PICK x \in Executors : executor' = [executor EXCEPT ![x] = state]
    BY <1>1, <1>3, <1>10 DEF StartExecutor, OnFile
  <2>2. executor'[x] = state /\ \A y \in Executors \ {x} : executor'[y] = executor[y]
    BY <1>2, <2>1
  <2>3. OwnedOnce'
    <3>1. ASSUME NEW y \in Executors, NEW z \in Executors, NEW k \in Jobs,
                 OnJob(executor[y], k)', OnJob(executor[z], k)'
          PROVE  y = z
      <4>1. ASSUME NEW u \in Executors, u # x, OnJob(executor[u], k)'
            PROVE  OnJob(executor[u], k) /\ k # j
        BY <1>4, <2>2, <4>1 DEF OnJob
      <4>2. OnJob(executor[x], k)' => k = j
        BY <2>2 DEF OnJob
      <4> QED BY <3>1, <4>1, <4>2 DEF SerialInv, OwnedOnce
    <3> QED BY <1>5, <3>1 DEF OwnedOnce, OnJob
  <2>4. OrderlyExecutor(executor[x])'
    <3>1. OrderlyExecutor(state)
      BY <1>1, <1>3 DEF OrderlyExecutor
    <3>2. OrderlyExecutor(state)'
      BY <1>2, <1>6, <3>1, ExecutorUntouched
    <3> QED BY <2>2, <3>2 DEF OrderlyExecutor, OnFile, Skipped
  <2>5. ASSUME NEW y \in Executors, executor'[y].at # "idle"
        PROVE  OrderlyExecutor(executor[y])'
    BY <1>8, <2>2, <2>4, <2>5
  <2> QED BY <1>5, <1>7, <2>3, <2>5 DEF SerialInv
<1> QED BY <1>1, <1>9, <1>10 DEF LoadAndStart

(* Between the writes of a handler its job has no executor. *)
LEMMA HandleOrderly ==
  ASSUME OneRequestAtATime, TypeInv, SerialInv, NEW h \in Handlers, Handle(h)
  PROVE  SerialInv'
<1>1. PICK r, j : r = handler[h] /\ j = r.job
  OBVIOUS
<1>2. r \in HandlerState /\ j \in Jobs /\ r.copy \in JobRecord
  BY <1>1 DEF TypeInv, TypeOK, HandlerState
<1>3. r.at # "idle"
  BY <1>1 DEF Handle, DeploySecret, DeployStart, ResumeFinish, ResumeLoadSecret,
     ResumeSaveSecret, ResumeSave, ResumeStart, RollbackRun, RollbackSave
<1>4. OrderlyHandler(r) /\ OrderlyFile(j) /\ OnFile(j, r.copy) /\ r.next = r.copy.last + 1
  BY <1>1, <1>2, <1>3 DEF SerialInv, OrderlyHandler
<1>5. disk[j] = "intact" /\ stored[j] = r.copy /\ OrderlyJob(j, r.copy)
  BY <1>4 DEF OrderlyFile, OnFile
<1>6. \A x \in Executors : ~OnJob(executor[x], j)
  BY <1>1, <1>2, <1>3 DEF SerialInv, OwnedOnce, OnJob
<1>7. IdleHandler.at = "idle"
  BY DEF IdleHandler
(* The secret file is none of SerialInv's business. *)
<1>8. ASSUME NEW state, HandlerGoes(h, state), UNCHANGED <<disk, stored, spec, executor>>,
             \/ state.at = "idle"
             \/ /\ state.job = j /\ state.copy = r.copy /\ state.next = r.next
                /\ \/ state.at = "deploy_start" /\ r.at = "deploy_secret"
                   \/ /\ state.at \in {"resume_save_secret", "resume_save"}
                      /\ r.copy.status = "failed"
      PROVE  SerialInv'
  <2>1. \A k \in Jobs : Untouched(k)
    BY <1>8 DEF Untouched
  <2>2. OrderlyFile(j)'
    BY <1>2, <1>4, <2>1, FileUntouched
  <2>3. state.at = "idle" \/ (state.job = j /\ OrderlyHandler(state)')
    BY <1>4, <1>8 DEF OrderlyHandler, OnFile
  <2> QED BY <1>2, <1>6, <1>8, <2>1, <2>2, <2>3, HandlerMoves
<1>9. CASE DeploySecret(h) \/ ResumeSaveSecret(h)
  <2>1. /\ UNCHANGED <<disk, stored, spec, executor>>
        /\ \/ HandlerGoes(h, IdleHandler)
           \/ /\ r.at = "deploy_secret"
              /\ HandlerGoes(h, [r EXCEPT !.at = "deploy_start"])
           \/ /\ r.at = "resume_save_secret"
              /\ HandlerGoes(h, [r EXCEPT !.at = "resume_save"])
    BY <1>1, <1>9 DEF DeploySecret, ResumeSaveSecret, SaveSecret, SaveSecretFails
  <2>2. CASE HandlerGoes(h, IdleHandler)
    BY <1>7, <1>8, <2>1, <2>2
  <2>3. ASSUME NEW at, HandlerGoes(h, [r EXCEPT !.at = at]),
               \/ at = "deploy_start" /\ r.at = "deploy_secret"
               \/ at = "resume_save" /\ r.copy.status = "failed"
        PROVE  SerialInv'
    <3>1. PICK state : state = [r EXCEPT !.at = at]
      OBVIOUS
    <3>2. /\ state.at = at /\ state.job = j /\ state.copy = r.copy
          /\ state.next = r.next
      BY <1>1, <1>2, <3>1 DEF HandlerState
    <3> QED BY <1>8, <2>1, <2>3, <3>1, <3>2
  <2>4. r.at = "resume_save_secret" => r.copy.status = "failed"
    BY <1>4 DEF OrderlyHandler
  <2> QED BY <2>1, <2>2, <2>3, <2>4
<1>10. CASE ResumeLoadSecret(h)
  <2>1. /\ UNCHANGED <<disk, stored, spec, executor>> /\ r.copy.status = "failed"
        /\ \E at \in {"resume_save_secret", "resume_save"} :
             \E p : HandlerGoes(h, [r EXCEPT !.at = at, !.password = p])
    BY <1>1, <1>4, <1>10 DEF ResumeLoadSecret, OrderlyHandler, files
  <2>2. PICK at \in {"resume_save_secret", "resume_save"} :
          \E p : HandlerGoes(h, [r EXCEPT !.at = at, !.password = p])
    BY <2>1
  <2>3. PICK p : HandlerGoes(h, [r EXCEPT !.at = at, !.password = p])
    BY <2>2
  <2>4. PICK state : state = [r EXCEPT !.at = at, !.password = p]
    OBVIOUS
  <2>5. /\ state.at = at /\ state.job = j /\ state.copy = r.copy
        /\ state.next = r.next
    BY <1>1, <1>2, <2>4 DEF HandlerState
  <2> QED BY <1>8, <2>1, <2>3, <2>4, <2>5
<1>11. CASE DeployStart(h)
  <2>1. r.at = "deploy_start" /\ LoadAndStart(h, 0)
    BY <1>1, <1>11 DEF DeployStart
  <2>2. r.copy.last + 1 = 0
    BY <1>4, <2>1 DEF OrderlyHandler
  <2> QED BY <1>1, <2>1, <2>2, LoadAndStartOrderly
<1>12. CASE ResumeSave(h)
  <2>1. r.at = "resume_save" /\ r.copy.status = "failed"
    BY <1>1, <1>4, <1>12 DEF ResumeSave, OrderlyHandler
  <2> DEFINE copy == [r.copy EXCEPT !.status = "running"]
             state == [r EXCEPT !.at = "resume_start", !.copy = copy]
  <2>3. /\ copy.status = "running" /\ copy.last = r.copy.last
        /\ copy.done = r.copy.done /\ copy.rollbacks = r.copy.rollbacks
    BY <1>2 DEF JobRecord
  <2>4. OrderlyJob(j, copy)
    BY <1>5, <2>3 DEF OrderlyJob
  <2>5. /\ state.at = "resume_start" /\ state.job = j /\ state.copy = copy
        /\ state.next = r.next
    BY <1>1, <1>2 DEF HandlerState
  <2>6. UNCHANGED <<spec, executor>>
    BY <1>12 DEF ResumeSave
  <2>7. CASE SaveJob(j, copy) /\ HandlerGoes(h, state)
    <3>1. OrderlyFile(j)' /\ OnFile(j, copy)' /\ \A k \in Jobs \ {j} : Untouched(k)
      BY <1>2, <2>4, <2>6, <2>7, JobSaved
    <3>2. OrderlyHandler(state)'
      BY <1>4, <2>3, <2>5, <3>1 DEF OrderlyHandler
    <3> QED BY <1>2, <1>6, <2>5, <2>6, <2>7, <3>1, <3>2, HandlerMoves
  <2>8. CASE SaveJobFails(j) /\ HandlerGoes(h, IdleHandler)
    <3>1. OrderlyFile(j)' /\ \A k \in Jobs \ {j} : Untouched(k)
      BY <1>2, <1>4, <2>6, <2>8, JobNotSaved
    <3> QED BY <1>2, <1>6, <1>7, <2>6, <2>8, <3>1, HandlerMoves
  <2> QED BY <1>1, <1>12, <2>7, <2>8 DEF ResumeSave
<1>13. CASE ResumeStart(h)
  BY <1>1, <1>4, <1>13, LoadAndStartOrderly DEF ResumeStart
<1>14. ~(ResumeFinish(h) \/ RollbackRun(h) \/ RollbackSave(h))
  BY <1>1, <1>4 DEF ResumeFinish, RollbackRun, RollbackSave, OrderlyHandler
<1> QED BY <1>9, <1>11, <1>10, <1>12, <1>13, <1>14 DEF Handle

(* A new job, or one that its file shows as failed, has no executor.       *)
LEMMA RequestOrderly ==
  ASSUME OneRequestAtATime, NoRollbacks, IInv, SerialInv, NEW h \in Handlers, Request(h)
  PROVE  SerialInv'
<1>1. TypeInv
  BY DEF IInv
<1>2. IdleHandler.at = "idle"
  BY DEF IdleHandler
<1>3. CASE DeployRequest(h)
  <2>1. PICK j \in Jobs \ issued, s \in Specs, p \in Passwords :
          /\ spec' = [spec EXCEPT ![j] = s]
          /\ \/ /\ SaveJob(j, NewJob)
                /\ HandlerGoes(h, [IdleHandler EXCEPT !.at = "deploy_secret",
                                                      !.job = j, !.password = p])
             \/ SaveJobFails(j) /\ HandlerGoes(h, IdleHandler)
    BY <1>3 DEF DeployRequest
  <2>2. disk[j] = "absent" /\ \A x \in Executors : ~OnJob(executor[x], j)
    BY DEF IInv, FilesTrue, ExecutorsTrue, TrueExecutor, OnJob
  <2>3. stored[j] = NewJob
    BY <2>2 DEF SerialInv, OrderlyFile
  <2>4. UNCHANGED executor
    BY <1>3 DEF DeployRequest
  <2>5. \A k \in Jobs \ {j} : Untouched(k)
    BY <1>1, <2>1, <2>4 DEF SaveJob, SaveJobFails, Untouched, TypeInv, TypeOK
  <2>6. CASE /\ SaveJob(j, NewJob)
             /\ HandlerGoes(h, [IdleHandler EXCEPT !.at = "deploy_secret",
                                                   !.job = j, !.password = p])
    <3> DEFINE state == [IdleHandler EXCEPT !.at = "deploy_secret", !.job = j,
                                            !.password = p]
    <3>1. disk'[j] = "intact" /\ stored'[j] = NewJob
      BY <1>1, <2>6 DEF SaveJob, TypeInv, TypeOK
    <3>2. OrderlyJob(j, NewJob)'
      BY CountNone DEF OrderlyJob, NewJob, AppliedUpTo
    <3>3. OrderlyFile(j)'
      BY <3>1, <3>2 DEF OrderlyFile, OrderlyJob, AppliedUpTo
    <3>4. /\ state.at = "deploy_secret" /\ state.job = j /\ state.copy = NewJob
          /\ state.next = 0
      BY DEF IdleHandler
    <3>5. NewJob.last + 1 = 0 /\ NewJob.status = "running"
      BY DEF NewJob
    <3>6. OrderlyHandler(state)'
      BY <3>1, <3>4, <3>5 DEF OrderlyHandler, OnFile
    <3> QED BY <1>1, <2>2, <2>4, <2>5, <2>6, <3>3, <3>4, <3>6, HandlerMoves
  <2>7. CASE SaveJobFails(j) /\ HandlerGoes(h, IdleHandler)
    <3>1. disk'[j] \in {"absent", "corrupt"} /\ stored'[j] = NewJob
      BY <1>1, <2>2, <2>3, <2>7 DEF SaveJobFails, TypeInv, TypeOK
    <3>2. OrderlyFile(j)'
      BY <3>1 DEF OrderlyFile
    <3> QED BY <1>1, <1>2, <2>2, <2>4, <2>5, <2>7, <3>2, HandlerMoves
  <2> QED BY <2>1, <2>6, <2>7
<1>4. CASE ResumeRequest(h)
  <2>1. PICK j \in Jobs, p \in ResumePasswords :
          /\ Loadable(j) /\ Resumable(stored[j])
          /\ HandlerGoes(h,
               [at |-> IF StartIndex(stored[j]) >= N THEN "resume_finish"
                       ELSE IF p = NoPassword THEN "resume_load_secret"
                       ELSE "resume_save",
                job |-> j, copy |-> stored[j], password |-> p,
                next |-> StartIndex(stored[j])])
    BY <1>4 DEF ResumeRequest
  <2>2. PICK copy : copy = stored[j]
    OBVIOUS
  <2>3. OrderlyFile(j) /\ OrderlyJob(j, copy) /\ disk[j] = "intact" /\ copy \in JobRecord
    BY <1>1, <2>1, <2>2 DEF SerialInv, OrderlyFile, Loadable, TypeInv, TypeOK
  <2>4. copy.status = "failed"
    BY <2>1, <2>2, <2>3 DEF OrderlyJob, Resumable
  <2>5. copy.last + 1 < N /\ copy.last \in Int /\ N \in Nat
    BY <2>3, <2>4, Constants DEF OrderlyJob, JobRecord
  <2>6. \A x \in Executors : ~OnJob(executor[x], j)
    BY <2>2, <2>4 DEF SerialInv, OrderlyExecutor, OnFile, OnJob
  <2> DEFINE at == IF p = NoPassword THEN "resume_load_secret" ELSE "resume_save"
             state == [at |-> at, job |-> j, copy |-> copy, password |-> p,
                       next |-> copy.last + 1]
  <2>7. HandlerGoes(h, state)
    BY <2>1, <2>2, <2>5 DEF StartIndex
  <2>8. UNCHANGED executor /\ \A k \in Jobs : Untouched(k)
    BY <1>4 DEF ResumeRequest, files, hosts, Untouched
  <2>9. OrderlyHandler(state)
    BY <2>2, <2>3, <2>4 DEF OrderlyHandler, OnFile
  <2>10. OrderlyHandler(state)'
    BY <2>8, <2>9, HandlerUntouched
  <2>11. OrderlyFile(j)' /\ state.job = j
    BY <2>3, <2>8, FileUntouched
  <2> QED BY <1>1, <2>6, <2>7, <2>8, <2>10, <2>11, HandlerMoves
<1>5. ~RollbackRequest(h)
  <2>1. used.rollbacks \in Nat
    BY <1>1 DEF TypeInv, TypeOK
  <2>2. MaxRollbacks = 0 /\ (RollbackRequest(h) => used.rollbacks < MaxRollbacks)
    BY DEF RollbackRequest, NoRollbacks
  <2> QED BY <2>1, <2>2
<1> QED BY <1>3, <1>4, <1>5 DEF Request

LEMMA CrashOrderly ==
  ASSUME IInv, SerialInv, Crash
  PROVE  SerialInv'
<1>1. /\ \A x \in Executors : executor'[x].at = "idle"
      /\ \A h \in Handlers : handler'[h].at = "idle"
  BY DEF Crash, IdleHandler, IdleExecutor
<1>2. ASSUME NEW j \in Jobs
      PROVE  OrderlyFile(j)'
  <2>1. OrderlyFile(j)
    BY DEF SerialInv
  <2>2. CASE disk'[j] = "corrupt"
    BY <2>2 DEF OrderlyFile
  <2>3. CASE disk'[j] # "corrupt"
    BY <2>1, <2>3, CrashLeaves, FileUntouched DEF Untouched
  <2> QED BY <2>2, <2>3
<1> QED BY <1>1, <1>2 DEF SerialInv, OwnedOnce, OnJob

LEMMA SerialInvStep ==
  ASSUME OneRequestAtATime, NoRollbacks, IInv, SerialInv, [Next]_vars
  PROVE  SerialInv'
<1>1. TypeInv
  BY DEF IInv
<1>2. CASE UNCHANGED vars
  <2>1. UNCHANGED <<executor, handler>> /\ \A j : Untouched(j)
    BY <1>2 DEF vars, files, hosts, Untouched
  <2>2. OwnedOnce'
    BY <2>1 DEF SerialInv, OwnedOnce, OnJob
  <2>3. \A j \in Jobs : OrderlyFile(j)'
    BY <2>1, FileUntouched DEF SerialInv
  <2>4. ASSUME NEW x \in Executors, executor'[x].at # "idle"
        PROVE  OrderlyExecutor(executor[x])'
    <3>1. PICK e : e = executor[x]
      OBVIOUS
    <3>2. OrderlyExecutor(e)'
      BY <2>1, <2>4, <3>1, ExecutorUntouched DEF SerialInv
    <3> QED BY <2>1, <3>1, <3>2 DEF OrderlyExecutor, OnFile, Skipped
  <2>5. ASSUME NEW h \in Handlers, handler'[h].at # "idle"
        PROVE  OrderlyHandler(handler[h])'
    <3>1. PICK r : r = handler[h]
      OBVIOUS
    <3>2. OrderlyHandler(r)'
      BY <2>1, <2>5, <3>1, HandlerUntouched DEF SerialInv
    <3> QED BY <2>1, <3>1, <3>2 DEF OrderlyHandler, OnFile
  <2> QED BY <2>2, <2>3, <2>4, <2>5 DEF SerialInv
<1> QED BY <1>1, <1>2, ExecuteOrderly, HandleOrderly, RequestOrderly, CrashOrderly DEF Next

LEMMA SerialInvInit ==
  ASSUME Init
  PROVE  SerialInv
BY DEF Init, SerialInv, OwnedOnce, OnJob, OrderlyFile, IdleHandler, IdleExecutor

LEMMA SerialInvHolds ==
  ASSUME OneRequestAtATime, NoRollbacks
  PROVE  Spec => [](IInv /\ SerialInv)
<1>1. Init => IInv /\ SerialInv
  BY IInvInit, SerialInvInit
<1>2. IInv /\ SerialInv /\ [Next]_vars => (IInv /\ SerialInv)'
  BY IInvStep, SerialInvStep
<1> QED BY <1>1, <1>2, PTL DEF Spec

-----------------------------------------------------------------------------
(* Resume's refusal of a running job is enough to keep two goroutines from *)
(* running steps of one job, as long as requests do not overlap: through   *)
(* every retry, failed write and restart.                                  *)
THEOREM OneExecutor ==
  ASSUME OneRequestAtATime, NoRollbacks
  PROVE  Spec => []OneExecutorPerJob
<1>1. IInv /\ SerialInv => OneExecutorPerJob
  BY DEF IInv, TypeInv, TypeOK, ExecutorState, SerialInv, OwnedOnce, OnJob, OneExecutorPerJob
<1> QED BY <1>1, SerialInvHolds, PTL

(* The step a failed job's file names is the one Resume starts with.       *)
THEOREM FailureNamesTheStep ==
  ASSUME OneRequestAtATime, NoRollbacks
  PROVE  Spec => []FailureNamesTheNextStep
<1>1. SerialInv => FailureNamesTheNextStep
  BY DEF SerialInv, OrderlyFile, OrderlyJob, FailureNamesTheNextStep, Intact
<1> QED BY <1>1, SerialInvHolds, PTL

(* The progress shown for a job counts each applicable step that is behind *)
(* it once, whatever failed and was run again on the way.                  *)
THEOREM ProgressIsExact ==
  ASSUME OneRequestAtATime, NoRollbacks
  PROVE  Spec => []ProgressCountsApplicableSteps
<1>1. IInv /\ SerialInv => ProgressCountsApplicableSteps
  <2>1. SUFFICES ASSUME IInv, SerialInv, NEW j \in Jobs, disk[j] = "intact"
                 PROVE  JobProgress(Table, spec[j], stored[j].status,
                                    stored[j].done + stored[j].rollbacks).completed =
                          Cardinality(AppliedUpTo(j, stored[j].last))
    BY DEF ProgressCountsApplicableSteps, AppliedUpTo
  <2> DEFINE counted == Cardinality(AppliedUpTo(j, stored[j].last))
             total == TotalStepsFor(Table, spec[j])
  <2>2. /\ OrderlyJob(j, stored[j]) /\ stored[j].last \in -1 .. N - 1
        /\ N \in Nat /\ N = Len(Table)
    BY <2>1, Constants DEF SerialInv, OrderlyFile, IInv, TypeInv, TypeOK, JobRecord, N
  <2>3. stored[j].done + stored[j].rollbacks = counted /\ counted \in Nat /\ total \in Nat
        /\ counted <= total
    <3>1. IsFiniteSet(0 .. N - 1) /\ Applicable(Table, spec[j]) \in SUBSET (0 .. N - 1)
      BY <2>2, FS_Interval DEF Applicable
    <3>2. IsFiniteSet(Applicable(Table, spec[j]))
      BY <3>1, FS_Subset
    <3>3. AppliedUpTo(j, stored[j].last) \in SUBSET Applicable(Table, spec[j])
      BY DEF AppliedUpTo
    <3>4. counted <= total /\ IsFiniteSet(AppliedUpTo(j, stored[j].last))
      BY <3>2, <3>3, FS_Subset DEF TotalStepsFor
    <3>5. counted \in Nat /\ total \in Nat
      BY <3>2, <3>4, FS_CardinalityType DEF TotalStepsFor
    <3> QED BY <2>2, <3>4, <3>5 DEF OrderlyJob
  <2>4. stored[j].status = "completed" => counted = total
    <3>1. SUFFICES ASSUME stored[j].status = "completed"
                   PROVE  AppliedUpTo(j, stored[j].last) = Applicable(Table, spec[j])
      BY DEF TotalStepsFor
    <3>2. stored[j].last = N - 1
      BY <2>2, <3>1 DEF OrderlyJob
    <3> QED BY <2>2, <3>2 DEF AppliedUpTo, Applicable
  <2> QED BY <2>3, <2>4 DEF JobProgress
<1> QED BY <1>1, SerialInvHolds, PTL

-----------------------------------------------------------------------------
(* The secret file.  The password a run of steps uses is stored before it  *)
(* starts, and stays so until it ends.                                     *)
Recorded(j, p) == p \in {secretFile[j]} \cup ResumePasswords

(* The states of a handler in which its password is settled. *)
PastSecret(r) == r.at \in {"deploy_start", "resume_save", "resume_start"}

PasswordInv ==
  /\ \A x \in Executors :
       executor[x].at # "idle" => Recorded(executor[x].job, executor[x].password)
  /\ \A h \in Handlers :
       PastSecret(handler[h]) => Recorded(handler[h].job, handler[h].password)

(* The secrets of the jobs that have an executor, or a request past its    *)
(* secret, stay.                                                           *)
LEMMA ExecutePasswords ==
  ASSUME TypeInv, PasswordInv, NEW x \in Executors, Execute(x)
  PROVE  PasswordInv'
<1>1. executor \in [Executors -> ExecutorState]
  BY DEF TypeInv, TypeOK
<1>2. UNCHANGED <<secretFile, handler>>
  BY DEF Execute, SkipStep, BeginStep, StepSucceeds, StepFails, RecordSuccess, RecordFailure,
         CompleteJob, ExecutorSaves, ExecutorGoes, SaveJob, SaveJobFails, files
<1>3. PICK state : /\ executor' = [executor EXCEPT ![x] = state]
                   /\ \/ state.at = "idle"
                      \/ /\ executor[x].at # "idle" /\ state.job = executor[x].job
                         /\ state.password = executor[x].password
  <2> DEFINE e == executor[x]
             Reached(state) ==
               executor' = [executor EXCEPT ![x] = state]
                 /\ (state.at = "idle"
                       \/ (e.at # "idle" /\ state.job = e.job /\ state.password = e.password))
  <2>1. e \in ExecutorState
    BY <1>1
  <2>2. ASSUME NEW copy, NEW state, ExecutorSaves(x, copy, state), Reached(state) \/
               (state.at = "idle" \/ (e.at # "idle" /\ state.job = e.job
                                        /\ state.password = e.password))
        PROVE  \E any : Reached(any)
    BY <2>2 DEF ExecutorSaves, ExecutorGoes, IdleExecutor
  <2>3. CASE SkipStep(x)
    <3> DEFINE copy == StepSkipped(e.copy, e.i)
               state == [e EXCEPT !.copy = copy, !.i = e.i + 1]
    <3>1. e.at = "loop" /\ ExecutorSaves(x, copy, state)
      BY <2>3 DEF SkipStep
    <3>2. state.job = e.job /\ state.password = e.password
      BY <2>1 DEF ExecutorState
    <3> QED BY <2>2, <3>1, <3>2
  <2>4. CASE BeginStep(x)
    <3> DEFINE copy == StepEntered(e.copy, e.i)
               state == [e EXCEPT !.copy = copy, !.at = "run"]
    <3>1. e.at = "loop" /\ ExecutorSaves(x, copy, state)
      BY <2>4 DEF BeginStep
    <3>2. state.job = e.job /\ state.password = e.password
      BY <2>1 DEF ExecutorState
    <3> QED BY <2>2, <3>1, <3>2
  <2>5. CASE StepSucceeds(x)
    <3> DEFINE state == [e EXCEPT !.at = "succeeded"]
    <3>1. e.at = "run" /\ ExecutorGoes(x, state)
      BY <2>5 DEF StepSucceeds
    <3>2. state.job = e.job /\ state.password = e.password
      BY <2>1 DEF ExecutorState
    <3>3. Reached(state)
      BY <3>1, <3>2 DEF ExecutorGoes
    <3> QED BY <3>3
  <2>6. CASE StepFails(x)
    <3> DEFINE state == [e EXCEPT !.at = "failed"]
    <3>1. e.at = "run" /\ ExecutorGoes(x, state)
      BY <2>6 DEF StepFails
    <3>2. state.job = e.job /\ state.password = e.password
      BY <2>1 DEF ExecutorState
    <3>3. Reached(state)
      BY <3>1, <3>2 DEF ExecutorGoes
    <3> QED BY <3>3
  <2>7. CASE RecordSuccess(x)
    <3> DEFINE copy == StepRecorded(e.copy, e.i)
               state == [e EXCEPT !.copy = copy, !.i = e.i + 1, !.at = "loop"]
    <3>1. e.at = "succeeded" /\ ExecutorSaves(x, copy, state)
      BY <2>7 DEF RecordSuccess
    <3>2. state.job = e.job /\ state.password = e.password
      BY <2>1 DEF ExecutorState
    <3> QED BY <2>2, <3>1, <3>2
  <2>8. CASE RecordFailure(x) \/ CompleteJob(x)
    <3>1. PICK copy : ExecutorSaves(x, copy, IdleExecutor)
      BY <2>8 DEF RecordFailure, CompleteJob
    <3>2. IdleExecutor.at = "idle"
      BY DEF IdleExecutor
    <3> QED BY <2>2, <3>1, <3>2
  <2> QED BY <2>3, <2>4, <2>5, <2>6, <2>7, <2>8 DEF Execute
<1>4. \A y \in Executors : executor'[y].at # "idle" =>
        Recorded(executor'[y].job, executor'[y].password)
  BY <1>1, <1>3 DEF PasswordInv
<1> QED BY <1>2, <1>4 DEF PasswordInv, Recorded

(* A request that moves on: its own secret is settled if it is past it,     *)
(* and it changes no other.                                                *)
LEMMA RequestMovesPasswords ==
  ASSUME OneRequestAtATime, TypeInv, SerialInv, PasswordInv, NEW h \in Handlers, NEW state,
         HandlerGoes(h, state), UNCHANGED executor,
         UNCHANGED secretFile
           \/ \E p : handler[h].at # "idle"
                      /\ secretFile' = [secretFile EXCEPT ![handler[h].job] = p],
         PastSecret(state) => Recorded(state.job, state.password)'
  PROVE  PasswordInv'
<1>1. /\ handler \in [Handlers -> HandlerState] /\ executor \in [Executors -> ExecutorState]
      /\ secretFile \in [Jobs -> Passwords \cup {NoPassword}]
  BY DEF TypeInv, TypeOK
<1>2. ASSUME NEW x \in Executors, executor[x].at # "idle"
      PROVE  Recorded(executor[x].job, executor[x].password)'
  <2>1. executor[x].job \in Jobs /\ handler[h].job \in Jobs
    BY <1>1 DEF ExecutorState, HandlerState
  <2>2. handler[h].at # "idle" => handler[h].job # executor[x].job
    BY <1>2, <2>1 DEF SerialInv, OwnedOnce, OnJob
  <2>3. secretFile'[executor[x].job] = secretFile[executor[x].job]
    BY <1>1, <2>1, <2>2
  <2>4. Recorded(executor[x].job, executor[x].password)
    BY <1>2 DEF PasswordInv
  <2> QED BY <2>3, <2>4 DEF Recorded
<1>3. \A g \in Handlers : handler'[g] = state
  BY <1>1 DEF HandlerGoes, OneRequestAtATime
<1> QED BY <1>2, <1>3 DEF PasswordInv, Recorded

LEMMA HandlePasswords ==
  ASSUME OneRequestAtATime, TypeInv, SerialInv, PasswordInv, NEW h \in Handlers, Handle(h)
  PROVE  PasswordInv'
<1>1. PICK r : r = handler[h]
  OBVIOUS
<1>2. r \in HandlerState /\ r.job \in Jobs
  BY <1>1 DEF TypeInv, TypeOK, HandlerState
<1>3. secretFile \in [Jobs -> Passwords \cup {NoPassword}]
  BY DEF TypeInv, TypeOK
<1>4. ~PastSecret(IdleHandler)
  BY DEF PastSecret, IdleHandler
<1>5. CASE DeploySecret(h) \/ ResumeSaveSecret(h)
  <2>1. PICK at \in {"deploy_start", "resume_save"} :
          /\ r.at # "idle" /\ UNCHANGED executor
          /\ \/ /\ SaveSecret(r.job, r.password)
                /\ HandlerGoes(h, [r EXCEPT !.at = at])
             \/ SaveSecretFails(r.job) /\ HandlerGoes(h, IdleHandler)
    BY <1>1, <1>5 DEF DeploySecret, ResumeSaveSecret
  <2>2. CASE SaveSecret(r.job, r.password) /\ HandlerGoes(h, [r EXCEPT !.at = at])
    <3> DEFINE state == [r EXCEPT !.at = at]
    <3>1. state.job = r.job /\ state.password = r.password
      BY <1>2 DEF HandlerState
    <3>2. secretFile' = [secretFile EXCEPT ![r.job] = r.password]
      BY <2>2 DEF SaveSecret
    <3>3. Recorded(state.job, state.password)'
      BY <1>2, <1>3, <3>1, <3>2 DEF Recorded
    <3> QED BY <1>1, <2>1, <2>2, <3>2, <3>3, RequestMovesPasswords
  <2>3. CASE SaveSecretFails(r.job) /\ HandlerGoes(h, IdleHandler)
    BY <1>1, <1>4, <2>1, <2>3, RequestMovesPasswords DEF SaveSecretFails
  <2> QED BY <2>1, <2>2, <2>3
<1>6. CASE ResumeLoadSecret(h)
  <2>1. UNCHANGED <<executor, secretFile>>
    BY <1>6 DEF ResumeLoadSecret, files
  <2>2. CASE HandlerGoes(h, [r EXCEPT !.at = "resume_save", !.password = secretFile[r.job]])
    <3> DEFINE state == [r EXCEPT !.at = "resume_save", !.password = secretFile[r.job]]
    <3>1. state.job = r.job /\ state.password = secretFile[r.job]
      BY <1>2 DEF HandlerState
    <3>2. Recorded(state.job, state.password)'
      BY <2>1, <3>1 DEF Recorded
    <3> QED BY <2>1, <2>2, <3>2, RequestMovesPasswords
  <2>3. ASSUME NEW p, HandlerGoes(h, [r EXCEPT !.at = "resume_save_secret", !.password = p])
        PROVE  PasswordInv'
    <3>1. ~PastSecret([r EXCEPT !.at = "resume_save_secret", !.password = p])
      BY <1>2 DEF PastSecret, HandlerState
    <3> QED BY <2>1, <2>3, <3>1, RequestMovesPasswords
  <2> QED BY <1>1, <1>6, <2>2, <2>3 DEF ResumeLoadSecret
<1>7. CASE ResumeSave(h)
  <2> DEFINE state == [r EXCEPT !.at = "resume_start",
                                !.copy = [r.copy EXCEPT !.status = "running"]]
  <2>1. r.at = "resume_save" /\ (HandlerGoes(h, state) \/ HandlerGoes(h, IdleHandler))
    BY <1>1, <1>7 DEF ResumeSave
  <2>2. UNCHANGED <<executor, secretFile>>
    BY <1>7 DEF ResumeSave, SaveJob, SaveJobFails
  <2>3. state.job = r.job /\ state.password = r.password
    BY <1>2 DEF HandlerState
  <2>4. Recorded(r.job, r.password)
    BY <1>1, <2>1 DEF PasswordInv, PastSecret
  <2>5. Recorded(state.job, state.password)'
    BY <2>2, <2>3, <2>4 DEF Recorded
  <2> HIDE DEF state
  <2> QED BY <1>4, <2>1, <2>2, <2>5, RequestMovesPasswords
<1>8. ASSUME NEW from, LoadAndStart(h, from), PastSecret(r)
      PROVE  PasswordInv'
  <2>1. HandlerGoes(h, IdleHandler) /\ UNCHANGED secretFile
    BY <1>8 DEF LoadAndStart, files
  <2>2. CASE UNCHANGED executor
    BY <1>4, <2>1, <2>2, RequestMovesPasswords
  <2>3. CASE StartExecutor(r.job, from, r.password)
    <3>1. PICK x \in Executors : executor' = [executor EXCEPT ![x] =
            [at |-> "loop", job |-> r.job, copy |-> stored[r.job],
             password |-> r.password, i |-> from]]
      BY <2>3 DEF StartExecutor
    <3>2. Recorded(r.job, r.password)
      BY <1>1, <1>8 DEF PasswordInv
    <3>3. executor \in [Executors -> ExecutorState] /\ handler \in [Handlers -> HandlerState]
      BY DEF TypeInv, TypeOK
    <3>4. \A g \in Handlers : handler'[g] = IdleHandler
      BY <2>1, <3>3 DEF HandlerGoes, OneRequestAtATime
    <3>5. ASSUME NEW y \in Executors, executor'[y].at # "idle"
          PROVE  Recorded(executor'[y].job, executor'[y].password)
      BY <3>1, <3>2, <3>3, <3>5 DEF PasswordInv
    <3> QED BY <1>4, <2>1, <3>4, <3>5 DEF PasswordInv, Recorded
  <2> QED BY <1>1, <1>8, <2>2, <2>3 DEF LoadAndStart
<1>9. CASE DeployStart(h) \/ ResumeStart(h)
  BY <1>1, <1>8, <1>9 DEF DeployStart, ResumeStart, PastSecret
<1>10. CASE ResumeFinish(h) \/ RollbackSave(h)
  <2>1. HandlerGoes(h, IdleHandler) /\ UNCHANGED <<executor, secretFile>>
    BY <1>10 DEF ResumeFinish, RollbackSave, SaveJob, SaveJobFails
  <2> QED BY <1>4, <2>1, RequestMovesPasswords
<1>11. ~RollbackRun(h)
  BY <1>1 DEF RollbackRun, SerialInv, OrderlyHandler
<1> QED BY <1>5, <1>6, <1>7, <1>9, <1>10, <1>11 DEF Handle

LEMMA RequestPasswords ==
  ASSUME OneRequestAtATime, TypeInv, SerialInv, PasswordInv, NEW h \in Handlers, Request(h)
  PROVE  PasswordInv'
<1>1. UNCHANGED <<executor, secretFile>>
  BY DEF Request, DeployRequest, ResumeRequest, RollbackRequest, SaveJob, SaveJobFails, files
<1>2. PICK state : HandlerGoes(h, state) /\ (PastSecret(state) => state.password \in ResumePasswords)
  <2>1. CASE DeployRequest(h)
    <3>1. PICK j, p :
            HandlerGoes(h, IdleHandler)
              \/ HandlerGoes(h, [IdleHandler EXCEPT !.at = "deploy_secret", !.job = j,
                                                   !.password = p])
      BY <2>1 DEF DeployRequest
    <3>2. /\ IdleHandler.at = "idle"
          /\ [IdleHandler EXCEPT !.at = "deploy_secret", !.job = j,
                                 !.password = p].at = "deploy_secret"
      BY DEF IdleHandler
    <3> QED BY <3>1, <3>2 DEF PastSecret
  <2>2. CASE ResumeRequest(h)
    BY <2>2 DEF ResumeRequest, PastSecret
  <2>3. CASE RollbackRequest(h)
    <3>1. PICK j, copy : HandlerGoes(h, [IdleHandler EXCEPT !.at = "rollback_run", !.job = j,
                                                            !.copy = copy])
      BY <2>3 DEF RollbackRequest
    <3>2. [IdleHandler EXCEPT !.at = "rollback_run", !.job = j, !.copy = copy].at = "rollback_run"
      BY DEF IdleHandler
    <3> QED BY <3>1, <3>2 DEF PastSecret
  <2> QED BY <2>1, <2>2, <2>3 DEF Request
<1>3. PastSecret(state) => Recorded(state.job, state.password)'
  BY <1>2 DEF Recorded
<1> QED BY <1>1, <1>2, <1>3, RequestMovesPasswords

LEMMA PasswordInvStep ==
  ASSUME OneRequestAtATime, IInv, SerialInv, PasswordInv, [Next]_vars
  PROVE  PasswordInv'
<1>1. CASE UNCHANGED vars
  BY <1>1 DEF vars, files, PasswordInv, Recorded, PastSecret
<1>2. CASE Crash
  BY <1>2 DEF Crash, PasswordInv, PastSecret, IdleExecutor, IdleHandler
<1> QED BY <1>1, <1>2, ExecutePasswords, HandlePasswords, RequestPasswords DEF Next, IInv

(* Only a run of a step changes the password of the account.               *)
LEMMA StepsSetPasswords ==
  ASSUME IInv, PasswordInv, [Next]_vars, NEW j \in Jobs, account'[j] # account[j]
  PROVE  Recorded(j, account'[j])
<1>1. account \in [Jobs -> Passwords \cup {NoPassword}]
  BY DEF IInv, TypeInv, TypeOK
<1>2. ASSUME UNCHANGED account
      PROVE  FALSE
  BY <1>2
<1>3. ASSUME NEW x \in Executors, StepSucceeds(x) \/ StepFails(x)
      PROVE  Recorded(j, account'[j])
  <2>1. executor[x].at # "idle"
    BY <1>3 DEF StepSucceeds, StepFails
  <2>2. PICK p \in {account[executor[x].job], executor[x].password} :
          account' = [account EXCEPT ![executor[x].job] = p]
    BY <1>3 DEF StepSucceeds, StepFails
  <2>3. executor[x].job = j /\ account'[j] = executor[x].password
    BY <1>1, <2>2
  <2> QED BY <2>1, <2>3 DEF PasswordInv
<1>4. ASSUME NEW x \in Executors, Execute(x)
      PROVE  Recorded(j, account'[j])
  BY <1>2, <1>3, <1>4 DEF Execute, SkipStep, BeginStep, RecordSuccess, RecordFailure,
                          CompleteJob, hosts
<1>5. ASSUME NEW h \in Handlers, Handle(h) \/ Request(h)
      PROVE  UNCHANGED account
  BY <1>5 DEF Handle, DeploySecret, DeployStart, ResumeFinish, ResumeLoadSecret,
       ResumeSaveSecret, ResumeSave, ResumeStart, RollbackRun, RollbackSave, LoadAndStart,
       Request, DeployRequest, ResumeRequest, RollbackRequest, hosts
<1>6. Crash \/ UNCHANGED vars => UNCHANGED account
  BY DEF Crash, vars, hosts
<1> QED BY <1>2, <1>4, <1>5, <1>6 DEF Next

(* Whatever reads and writes fail and wherever the process dies, a step     *)
(* gives the cluster admin account only a password that is stored, or that  *)
(* a client supplied with a resume.  Both hypotheses are needed: beside a   *)
(* running job a rollback and a resume can store another password.          *)
THEOREM AdminPasswordIsStored ==
  ASSUME OneRequestAtATime, NoRollbacks
  PROVE  Spec => AdminPasswordStoredFirst
<1> DEFINE Inv == IInv /\ SerialInv /\ PasswordInv
           Given == \A j \in Jobs :
             account'[j] # account[j] => account'[j] \in {secretFile[j]} \cup ResumePasswords
<1>1. Init => Inv
  <2>1. Init => PasswordInv
    BY DEF Init, PasswordInv, PastSecret, IdleHandler, IdleExecutor
  <2> QED BY <2>1, IInvInit, SerialInvInit
<1>2. Inv /\ [Next]_vars => Inv'
  BY IInvStep, SerialInvStep, PasswordInvStep
<1>3. Inv /\ [Next]_vars => Given
  BY StepsSetPasswords DEF Recorded
<1>4. AdminPasswordStoredFirst <=> [][Given]_vars
  BY DEF AdminPasswordStoredFirst
<1> HIDE DEF Inv, Given
<1> QED BY <1>1, <1>2, <1>3, <1>4, PTL DEF Spec

-----------------------------------------------------------------------------
(* What the steps leave on the hosts.  The table has to be one in which no *)
(* step takes down what an earlier one has left, as NewService's is.       *)
TableInOrder ==
  \A request \in Specs : \A k, l \in Applicable(Table, request) :
    k < l /\ Table[k + 1].name \in Lasting
      => Table[k + 1].name \notin DeployPlaybook(request)[Table[l + 1].name].takesDown

EffectsBelow(j, n) ==
  \A i \in Applicable(Table, spec[j]) :
    i < n /\ Table[i + 1].name \in Lasting => Table[i + 1].name \in inPlace[j]

EffectsInv ==
  /\ \A j \in Jobs : disk[j] = "intact" => EffectsBelow(j, stored[j].last + 1)
  /\ \A x \in Executors : executor[x].at = "succeeded"
                            => EffectsBelow(executor[x].job, executor[x].i + 1)

(* The table of NewService (service.go:32-42) is in order. *)
LEMMA StepsInOrder ==
  ASSUME Table = steps
  PROVE  TableInOrder
<1>1. SUFFICES ASSUME NEW request \in Specs, NEW k \in 0 .. 6, NEW l \in 0 .. 6,
                      k < l, steps[k + 1].name \in Lasting
               PROVE  steps[k + 1].name
                        \notin DeployPlaybook(request)[steps[l + 1].name].takesDown
  BY DEF TableInOrder, Applicable, steps
<1>2. /\ steps[1].name = "preflight" /\ steps[2].name = "configure_instances"
      /\ steps[3].name = "create_cluster" /\ steps[4].name = "add_instances"
      /\ steps[5].name = "bootstrap_router" /\ steps[6].name = "verify_cluster"
      /\ steps[7].name = "init_app_db"
  BY DEF steps, Mandatory
<1>3. CASE l \in {2, 3, 5, 6} \/ l = 4
  <2>1. DeployPlaybook(request)[steps[l + 1].name].takesDown \subseteq
          (IF l = 2 THEN {"create_cluster", "add_instances", "bootstrap_router"}
           ELSE IF l = 4 THEN {"bootstrap_router"} ELSE {})
    BY <1>2, <1>3 DEF DeployPlaybook, Task, CreateCluster, AddInstances, BootstrapRouter,
                      VerifyCluster, InitAppDB
  <2> QED BY <1>1, <1>2, <1>3, <2>1
<1>4. CASE l = 1
  BY <1>1, <1>2, <1>4 DEF Lasting
<1>5. l # 0
  BY <1>1
<1> QED BY <1>3, <1>4, <1>5

LEMMA EffectsKept ==
  ASSUME EffectsInv, UNCHANGED inPlace,
         \A j \in Jobs : disk'[j] = "intact" =>
           \/ stored'[j].last = -1
           \/ disk[j] = "intact" /\ stored'[j].last = stored[j].last /\ spec'[j] = spec[j],
         \A x \in Executors : executor'[x].at = "succeeded" =>
           /\ executor[x].at = "succeeded" /\ executor'[x].job = executor[x].job
           /\ executor'[x].i = executor[x].i /\ spec'[executor[x].job] = spec[executor[x].job]
  PROVE  EffectsInv'
<1>1. ASSUME NEW j \in Jobs, disk'[j] = "intact"
      PROVE  EffectsBelow(j, stored[j].last + 1)'
  <2>1. CASE stored'[j].last = -1
    BY <2>1, Constants DEF EffectsBelow, Applicable, N
  <2>2. CASE disk[j] = "intact" /\ stored'[j].last = stored[j].last /\ spec'[j] = spec[j]
    BY <2>2 DEF EffectsInv, EffectsBelow
  <2> QED BY <1>1, <2>1, <2>2
<1>2. ASSUME NEW x \in Executors, executor'[x].at = "succeeded"
      PROVE  EffectsBelow(executor[x].job, executor[x].i + 1)'
  BY <1>2 DEF EffectsInv, EffectsBelow
<1> QED BY <1>1, <1>2 DEF EffectsInv

(* A run of step i, whatever its outcome, leaves the earlier effects alone. *)
LEMMA EarlierEffectsStay ==
  ASSUME TableInOrder, NEW request \in Specs, NEW i \in Applicable(Table, request),
         NEW k \in Applicable(Table, request), k < i, Table[k + 1].name \in Lasting,
         NEW effects, Table[k + 1].name \in effects
  PROVE  /\ Table[k + 1].name \in StepDone(Table[i + 1].name, request, effects)
         /\ \A left \in StepOutcomesOnFailure(Table[i + 1].name, request, effects) :
              Table[k + 1].name \in left
<1>1. Table[k + 1].name \notin DeployPlaybook(request)[Table[i + 1].name].takesDown
  BY DEF TableInOrder
<1>2. Table[k + 1].name \in TakenDown(Table[i + 1].name, request, effects)
  BY <1>1 DEF TakenDown
<1>3. Table[k + 1].name \in StepDone(Table[i + 1].name, request, effects)
  BY <1>2 DEF StepDone
<1> QED BY <1>2, <1>3 DEF StepOutcomesOnFailure

LEMMA ExecuteEffects ==
  ASSUME TableInOrder, TypeInv, SerialInv, EffectsInv, NEW x \in Executors, Execute(x)
  PROVE  EffectsInv'
<1>1. PICK e : e = executor[x]
  OBVIOUS
<1>2. PICK j : j = e.job
  OBVIOUS
<1>3. /\ e \in ExecutorState /\ e.copy \in JobRecord /\ e.i \in 0 .. N /\ N \in Nat
      /\ j \in Jobs /\ spec[j] \in Specs /\ N = Len(Table)
      /\ disk \in [Jobs -> {"absent", "corrupt", "intact"}]
      /\ executor \in [Executors -> ExecutorState]
      /\ stored \in [Jobs -> JobRecord] /\ inPlace \in [Jobs -> SUBSET StepNames]
  BY <1>1, <1>2, Constants DEF TypeInv, TypeOK, ExecutorState, N
<1>4. e.at # "idle"
  BY <1>1 DEF Execute, SkipStep, BeginStep, StepSucceeds, StepFails, RecordSuccess,
              RecordFailure, CompleteJob
<1>5. OrderlyExecutor(e) /\ disk[j] = "intact" /\ stored[j] = e.copy /\ e.copy.last + 1 = e.i
  BY <1>1, <1>2, <1>4 DEF SerialInv, OrderlyExecutor, OnFile
<1>6. EffectsBelow(j, e.i)
  BY <1>3, <1>5 DEF EffectsInv
<1>7. \A y \in Executors : OnJob(executor[y], j) => y = x
  BY <1>1, <1>2, <1>3, <1>4 DEF SerialInv, OwnedOnce, OnJob
<1>8. ASSUME NEW copy, NEW state, ExecutorSaves(x, copy, state), UNCHANGED hosts,
             state.at # "succeeded", EffectsBelow(j, copy.last + 1)
      PROVE  EffectsInv'
  <2>1. UNCHANGED <<spec, inPlace>>
    BY <1>8 DEF ExecutorSaves, ExecutorGoes, hosts
  <2>2. ASSUME NEW k \in Jobs, disk'[k] = "intact"
        PROVE  EffectsBelow(k, stored[k].last + 1)'
    <3>1. CASE k = j /\ SaveJob(j, copy)
      <4>1. stored'[k] = copy
        BY <1>3, <3>1 DEF SaveJob
      <4> QED BY <1>8, <2>1, <3>1, <4>1 DEF EffectsBelow
    <3>2. CASE k # j \/ ~SaveJob(j, copy)
      <4>1. disk[k] = "intact" /\ stored'[k] = stored[k]
        BY <1>1, <1>2, <1>3, <1>8, <2>2, <3>2 DEF ExecutorSaves, SaveJob, SaveJobFails
      <4> QED BY <2>1, <4>1 DEF EffectsInv, EffectsBelow
    <3> QED BY <3>1, <3>2
  <2>3. ASSUME NEW y \in Executors, executor'[y].at = "succeeded"
        PROVE  EffectsBelow(executor[y].job, executor[y].i + 1)'
    <3>1. y # x /\ executor'[y] = executor[y]
      BY <1>3, <1>8, <2>3 DEF ExecutorSaves, ExecutorGoes, IdleExecutor
    <3> QED BY <2>1, <2>3, <3>1 DEF EffectsInv, EffectsBelow
  <2> QED BY <2>2, <2>3 DEF EffectsInv
<1>9. CASE SkipStep(x)
  <2> DEFINE copy == StepSkipped(e.copy, e.i)
             state == [e EXCEPT !.copy = copy, !.i = e.i + 1]
  <2>1. e.at = "loop" /\ e.i \in 0 .. N - 1 /\ Skipped(e.i, spec[j])
    BY <1>1, <1>2, <1>3, <1>9 DEF SkipStep
  <2>2. copy.last = e.i /\ state.at = "loop"
    BY <1>3, <2>1 DEF StepSkipped, JobRecord, ExecutorState
  <2>3. \A k \in Applicable(Table, spec[j]) : k < e.i + 1 => k < e.i
    BY <1>3, <2>1 DEF Applicable, Skipped
  <2>4. EffectsBelow(j, copy.last + 1)
    BY <1>6, <2>2, <2>3 DEF EffectsBelow
  <2>5. ExecutorSaves(x, copy, state) /\ UNCHANGED hosts
    BY <1>1, <1>9 DEF SkipStep
  <2> QED BY <1>8, <2>2, <2>4, <2>5
<1>10. CASE BeginStep(x)
  <2> DEFINE copy == StepEntered(e.copy, e.i)
             state == [e EXCEPT !.copy = copy, !.at = "run"]
  <2>1. copy.last = e.copy.last /\ state.at = "run"
    BY <1>3 DEF StepEntered, JobRecord, ExecutorState
  <2>2. ExecutorSaves(x, copy, state) /\ UNCHANGED hosts
    BY <1>1, <1>10 DEF BeginStep
  <2>3. EffectsBelow(j, copy.last + 1)
    BY <1>5, <1>6, <2>1
  <2> QED BY <1>8, <2>1, <2>2, <2>3
<1>11. ASSUME e.at = "run", NEW at, ExecutorGoes(x, [e EXCEPT !.at = at]),
              UNCHANGED files, NEW left, inPlace' = [inPlace EXCEPT ![j] = left],
              \A k \in Applicable(Table, spec[j]) :
                k < e.i /\ Table[k + 1].name \in Lasting /\ Table[k + 1].name \in inPlace[j]
                  => Table[k + 1].name \in left,
              at = "succeeded" /\ Table[e.i + 1].name \in Lasting
                => Table[e.i + 1].name \in left
       PROVE  EffectsInv'
  <2>1. UNCHANGED <<spec, disk, stored>>
    BY <1>11 DEF ExecutorGoes, files
  <2>2. inPlace'[j] = left /\ \A k \in Jobs \ {j} : inPlace'[k] = inPlace[k]
    BY <1>3, <1>11
  <2>3. EffectsBelow(j, e.i)'
    BY <1>6, <1>11, <2>1, <2>2 DEF EffectsBelow
  <2>4. ASSUME NEW k \in Jobs, disk'[k] = "intact"
        PROVE  EffectsBelow(k, stored[k].last + 1)'
    <3>1. CASE k = j
      <4>1. stored'[k].last + 1 = e.i
        BY <1>5, <2>1, <3>1
      <4> QED BY <2>3, <3>1, <4>1 DEF EffectsBelow
    <3>2. CASE k # j
      BY <2>1, <2>2, <2>4, <3>2 DEF EffectsInv, EffectsBelow
    <3> QED BY <3>1, <3>2
  <2>5. ASSUME NEW y \in Executors, executor'[y].at = "succeeded"
        PROVE  EffectsBelow(executor[y].job, executor[y].i + 1)'
    <3>1. CASE y = x
      <4>1. executor'[y] = [e EXCEPT !.at = at]
        BY <1>3, <1>11, <3>1 DEF ExecutorGoes
      <4>2. executor'[y].job = j /\ executor'[y].i = e.i /\ at = "succeeded"
        BY <1>2, <1>3, <2>5, <4>1 DEF ExecutorState
      <4>3. \A k \in Applicable(Table, spec[j]) : k < e.i + 1 => k < e.i \/ k = e.i
        BY <1>3 DEF Applicable
      <4>4. EffectsBelow(j, e.i + 1)'
        BY <1>11, <2>1, <2>2, <2>3, <4>2, <4>3 DEF EffectsBelow
      <4> QED BY <4>2, <4>4 DEF EffectsBelow
    <3>2. CASE y # x
      <4>1. executor'[y] = executor[y]
        BY <1>3, <1>11, <3>2 DEF ExecutorGoes
      <4>2. executor[y].job \in Jobs \ {j}
        BY <1>3, <1>7, <2>5, <3>2, <4>1 DEF OnJob, ExecutorState
      <4> QED BY <2>1, <2>2, <2>5, <4>1, <4>2 DEF EffectsInv, EffectsBelow
    <3> QED BY <3>1, <3>2
  <2> QED BY <2>4, <2>5 DEF EffectsInv
<1>12. ASSUME e.at = "run", NEW k \in Applicable(Table, spec[j]), k < e.i,
              Table[k + 1].name \in Lasting, Table[k + 1].name \in inPlace[j]
       PROVE  /\ Table[k + 1].name \in StepDone(Table[e.i + 1].name, spec[j], inPlace[j])
              /\ \A left \in StepOutcomesOnFailure(Table[e.i + 1].name, spec[j], inPlace[j]) :
                   Table[k + 1].name \in left
  <2>1. e.i \in Applicable(Table, spec[j])
    <3>1. e.i < N
      BY <1>1, <1>12 DEF TypeInv
    <3>2. ~Skipped(e.i, spec[j])
      BY <1>2, <1>5, <1>12 DEF OrderlyExecutor
    <3> QED BY <1>3, <3>1, <3>2 DEF Applicable, Skipped
  <2> QED BY <1>3, <1>12, <2>1, EarlierEffectsStay
<1>13. CASE StepSucceeds(x)
  <2> DEFINE left == StepDone(Table[e.i + 1].name, spec[j], inPlace[j])
  <2>1. /\ e.at = "run" /\ ExecutorGoes(x, [e EXCEPT !.at = "succeeded"])
        /\ UNCHANGED files /\ inPlace' = [inPlace EXCEPT ![j] = left]
    BY <1>1, <1>2, <1>13 DEF StepSucceeds
  <2>2. Table[e.i + 1].name \in Lasting => Table[e.i + 1].name \in left
    BY DEF StepDone
  <2>3. \A k \in Applicable(Table, spec[j]) :
          k < e.i /\ Table[k + 1].name \in Lasting /\ Table[k + 1].name \in inPlace[j]
            => Table[k + 1].name \in left
    BY <1>12, <2>1
  <2> HIDE DEF left
  <2> QED BY <1>11, <2>1, <2>2, <2>3
<1>14. CASE StepFails(x)
  <2>1. PICK left \in StepOutcomesOnFailure(Table[e.i + 1].name, spec[j], inPlace[j]) :
          inPlace' = [inPlace EXCEPT ![j] = left]
    BY <1>1, <1>2, <1>14 DEF StepFails
  <2>2. e.at = "run" /\ ExecutorGoes(x, [e EXCEPT !.at = "failed"]) /\ UNCHANGED files
    BY <1>1, <1>14 DEF StepFails
  <2>3. \A k \in Applicable(Table, spec[j]) :
          k < e.i /\ Table[k + 1].name \in Lasting /\ Table[k + 1].name \in inPlace[j]
            => Table[k + 1].name \in left
    BY <1>12, <2>1, <2>2
  <2>4. "failed" = "succeeded" /\ Table[e.i + 1].name \in Lasting
          => Table[e.i + 1].name \in left
    OBVIOUS
  <2> QED BY <1>11, <2>1, <2>2, <2>3, <2>4
<1>15. CASE RecordSuccess(x)
  <2> DEFINE copy == StepRecorded(e.copy, e.i)
             state == [e EXCEPT !.copy = copy, !.i = e.i + 1, !.at = "loop"]
  <2>1. e.at = "succeeded"
    BY <1>1, <1>15 DEF RecordSuccess
  <2>2. copy.last = e.i /\ state.at = "loop"
    BY <1>3 DEF StepRecorded, JobRecord, ExecutorState
  <2>3. EffectsBelow(j, copy.last + 1)
    BY <1>1, <1>2, <2>1, <2>2 DEF EffectsInv
  <2>4. ExecutorSaves(x, copy, state) /\ UNCHANGED hosts
    BY <1>1, <1>15 DEF RecordSuccess
  <2> QED BY <1>8, <2>2, <2>3, <2>4
<1>16. CASE RecordFailure(x)
  <2>1. JobFailed(e.copy).last = e.copy.last
    BY <1>3 DEF JobFailed, JobRecord
  <2>2. ExecutorSaves(x, JobFailed(e.copy), IdleExecutor) /\ UNCHANGED hosts
    BY <1>1, <1>16 DEF RecordFailure
  <2>3. EffectsBelow(j, JobFailed(e.copy).last + 1)
    BY <1>5, <1>6, <2>1
  <2> QED BY <1>8, <2>2, <2>3 DEF IdleExecutor
<1>17. CASE CompleteJob(x)
  <2>1. JobCompleted(e.copy).last = e.copy.last
    BY <1>3 DEF JobCompleted, JobRecord
  <2>2. ExecutorSaves(x, JobCompleted(e.copy), IdleExecutor) /\ UNCHANGED hosts
    BY <1>1, <1>17 DEF CompleteJob
  <2>3. EffectsBelow(j, JobCompleted(e.copy).last + 1)
    BY <1>5, <1>6, <2>1
  <2> QED BY <1>8, <2>2, <2>3 DEF IdleExecutor
<1> QED BY <1>9, <1>10, <1>13, <1>14, <1>15, <1>16, <1>17 DEF Execute

(* A handler writes at most the status of a job, a new executor has run    *)
(* nothing yet.                                                            *)
LEMMA StartEffects ==
  ASSUME TypeInv, EffectsInv, NEW h \in Handlers, NEW from, LoadAndStart(h, from)
  PROVE  EffectsInv'
<1>1. UNCHANGED <<disk, stored, spec, inPlace>>
  BY DEF LoadAndStart, files, hosts
<1>2. ASSUME NEW y \in Executors, executor'[y].at = "succeeded"
      PROVE  executor'[y] = executor[y]
  <2>1. CASE UNCHANGED executor
    BY <2>1
  <2>2. CASE StartExecutor(handler[h].job, from, handler[h].password)
    <3>1. PICK x \in Executors :
            executor' = [executor EXCEPT ![x] =
              [at |-> "loop", job |-> handler[h].job, copy |-> stored[handler[h].job],
               password |-> handler[h].password, i |-> from]]
      BY <2>2 DEF StartExecutor
    <3>2. executor \in [Executors -> ExecutorState]
      BY DEF TypeInv, TypeOK
    <3> QED BY <1>2, <3>1, <3>2
  <2> QED BY <2>1, <2>2 DEF LoadAndStart
<1> QED BY <1>1, <1>2, EffectsKept

LEMMA HandleEffects ==
  ASSUME TypeInv, SerialInv, EffectsInv, NEW h \in Handlers, Handle(h)
  PROVE  EffectsInv'
<1>1. PICK r : r = handler[h]
  OBVIOUS
<1>2. ASSUME UNCHANGED <<executor, spec, inPlace>>,
             \A j \in Jobs : disk'[j] = "intact"
               => disk[j] = "intact" /\ stored'[j].last = stored[j].last
      PROVE  EffectsInv'
  BY <1>2, EffectsKept
<1>3. CASE DeploySecret(h) \/ ResumeLoadSecret(h) \/ ResumeSaveSecret(h)
  <2>1. UNCHANGED <<executor, spec, inPlace, disk, stored>>
    BY <1>3 DEF DeploySecret, ResumeLoadSecret, ResumeSaveSecret, SaveSecret,
                SaveSecretFails, files, hosts
  <2> QED BY <1>2, <2>1
<1>4. CASE DeployStart(h) \/ ResumeStart(h)
  BY <1>4, StartEffects DEF DeployStart, ResumeStart
<1>5. CASE ResumeSave(h)
  <2>1. r.at = "resume_save" /\ UNCHANGED <<executor, spec, inPlace>>
        /\ (SaveJob(r.job, [r.copy EXCEPT !.status = "running"]) \/ SaveJobFails(r.job))
    BY <1>1, <1>5 DEF ResumeSave, hosts
  <2>2. OnFile(r.job, r.copy) /\ r.job \in Jobs /\ r.copy \in JobRecord
    BY <1>1, <2>1 DEF SerialInv, OrderlyHandler, TypeInv, TypeOK, HandlerState
  <2>3. /\ disk \in [Jobs -> {"absent", "corrupt", "intact"}]
        /\ stored \in [Jobs -> JobRecord]
    BY DEF TypeInv, TypeOK
  <2>4. [r.copy EXCEPT !.status = "running"].last = r.copy.last
    BY <2>2 DEF JobRecord
  <2>5. ASSUME NEW j \in Jobs, disk'[j] = "intact"
        PROVE  disk[j] = "intact" /\ stored'[j].last = stored[j].last
    <3>1. CASE SaveJob(r.job, [r.copy EXCEPT !.status = "running"])
      BY <2>2, <2>3, <2>4, <2>5, <3>1 DEF SaveJob, OnFile
    <3>2. CASE SaveJobFails(r.job)
      BY <2>2, <2>3, <2>5, <3>2 DEF SaveJobFails
    <3> QED BY <2>1, <3>1, <3>2
  <2> QED BY <1>2, <2>1, <2>5
<1>6. ~ResumeFinish(h) /\ ~RollbackRun(h) /\ ~RollbackSave(h)
  <2>1. r.at \notin {"resume_finish", "rollback_run", "rollback_save"}
    BY <1>1 DEF SerialInv, OrderlyHandler
  <2> QED BY <1>1, <2>1 DEF ResumeFinish, RollbackRun, RollbackSave
<1> QED BY <1>3, <1>4, <1>5, <1>6 DEF Handle

LEMMA RequestEffects ==
  ASSUME NoRollbacks, IInv, EffectsInv, NEW h \in Handlers, Request(h)
  PROVE  EffectsInv'
<1>1. TypeInv
  BY DEF IInv
<1>2. CASE DeployRequest(h)
  <2>1. PICK j \in Jobs \ issued, s \in Specs :
          /\ spec' = [spec EXCEPT ![j] = s]
          /\ SaveJob(j, NewJob) \/ SaveJobFails(j)
          /\ UNCHANGED <<executor, inPlace>>
    BY <1>2 DEF DeployRequest, hosts
  <2>2. disk[j] = "absent"
    BY DEF IInv, FilesTrue
  <2>3. /\ disk \in [Jobs -> {"absent", "corrupt", "intact"}]
        /\ stored \in [Jobs -> JobRecord] /\ spec \in [Jobs -> Specs]
    BY <1>1 DEF TypeInv, TypeOK
  <2>4. ASSUME NEW k \in Jobs, disk'[k] = "intact"
        PROVE  \/ stored'[k].last = -1
               \/ disk[k] = "intact" /\ stored'[k].last = stored[k].last /\ spec'[k] = spec[k]
    <3>1. CASE SaveJob(j, NewJob)
      BY <2>1, <2>3, <2>4, <3>1 DEF SaveJob, NewJob
    <3>2. CASE SaveJobFails(j)
      BY <2>1, <2>2, <2>3, <2>4, <3>2 DEF SaveJobFails
    <3> QED BY <2>1, <3>1, <3>2
  <2>5. \A x \in Executors : executor'[x].at = "succeeded" =>
          /\ executor[x].at = "succeeded" /\ executor'[x].job = executor[x].job
          /\ executor'[x].i = executor[x].i /\ spec'[executor[x].job] = spec[executor[x].job]
    BY <2>1, <2>3 DEF IInv, ExecutorsTrue, TrueExecutor
  <2> QED BY <2>1, <2>4, <2>5, EffectsKept
<1>3. CASE ResumeRequest(h)
  BY <1>3, EffectsKept DEF ResumeRequest, files, hosts
<1>4. ~RollbackRequest(h)
  <2>1. used.rollbacks \in Nat
    BY <1>1 DEF TypeInv, TypeOK
  <2>2. MaxRollbacks = 0 /\ (RollbackRequest(h) => used.rollbacks < MaxRollbacks)
    BY DEF RollbackRequest, NoRollbacks
  <2> QED BY <2>1, <2>2
<1> QED BY <1>2, <1>3, <1>4 DEF Request

LEMMA EffectsInvStep ==
  ASSUME NoRollbacks, TableInOrder, IInv, SerialInv, EffectsInv, [Next]_vars
  PROVE  EffectsInv'
<1>1. TypeInv
  BY DEF IInv
<1>2. CASE Crash
  <2>1. \A x \in Executors : executor'[x].at = "idle"
    BY <1>2 DEF Crash, IdleExecutor
  <2>2. UNCHANGED <<inPlace, stored>>
    BY <1>2, CrashLeaves
  <2>3. \A j \in Jobs : disk'[j] = "intact" => disk[j] = "intact" /\ spec'[j] = spec[j]
    BY <1>2, CrashLeaves
  <2> QED BY <2>1, <2>2, <2>3, EffectsKept
<1>3. CASE UNCHANGED vars
  BY <1>3, EffectsKept DEF vars, files, hosts
<1> QED BY <1>1, <1>2, <1>3, ExecuteEffects, HandleEffects, RequestEffects DEF Next

LEMMA EffectsInvInit ==
  ASSUME Init
  PROVE  EffectsInv
BY DEF Init, EffectsInv, IdleExecutor

LEMMA EffectsInvHolds ==
  ASSUME OneRequestAtATime, NoRollbacks, TableInOrder
  PROVE  Spec => [](IInv /\ SerialInv /\ EffectsInv)
<1>1. Init => IInv /\ SerialInv /\ EffectsInv
  BY IInvInit, SerialInvInit, EffectsInvInit
<1>2. IInv /\ SerialInv /\ EffectsInv /\ [Next]_vars => (IInv /\ SerialInv /\ EffectsInv)'
  BY IInvStep, SerialInvStep, EffectsInvStep
<1> QED BY <1>1, <1>2, PTL DEF Spec

(* A resume stands on what the steps before its start index left.          *)
THEOREM ResumeStands ==
  ASSUME OneRequestAtATime, NoRollbacks, TableInOrder
  PROVE  Spec => []ResumeStandsOnItsSteps
<1>1. IInv /\ SerialInv /\ EffectsInv => ResumeStandsOnItsSteps
  <2> SUFFICES ASSUME IInv, SerialInv, EffectsInv, NEW h \in Handlers,
                      handler[h].at # "idle"
               PROVE  EffectsBelow(handler[h].job, handler[h].next)
    BY DEF ResumeStandsOnItsSteps, EffectsBelow
  <2>1. handler[h].job \in Jobs
    BY DEF IInv, TypeInv, TypeOK, HandlerState
  <2>2. OrderlyHandler(handler[h])
    BY DEF SerialInv
  <2>3. disk[handler[h].job] = "intact"
        /\ handler[h].next = stored[handler[h].job].last + 1
    BY <2>2 DEF OrderlyHandler, OnFile
  <2> QED BY <2>1, <2>3 DEF EffectsInv
<1> QED BY <1>1, EffectsInvHolds, PTL

(* A step that writes a job's file as completed runs no playbook.          *)
LEMMA CompletionRunsNothing ==
  ASSUME IInv, [Next]_vars, NEW j \in Jobs,
         disk'[j] = "intact", stored'[j].status = "completed", ~Intact(j, "completed")
  PROVE  spec'[j] = spec[j] /\ inPlace'[j] = inPlace[j]
<1>1. ~UNCHANGED <<disk, stored>>
  BY DEF Intact
<1>2. ASSUME NEW x \in Executors, Execute(x)
      PROVE  UNCHANGED <<spec, inPlace>>
  BY <1>1, <1>2 DEF Execute, SkipStep, BeginStep, StepSucceeds, StepFails, RecordSuccess,
       RecordFailure, CompleteJob, ExecutorSaves, ExecutorGoes, hosts, files
<1>3. ASSUME NEW h \in Handlers, Handle(h)
      PROVE  UNCHANGED <<spec, inPlace>>
  BY <1>1, <1>3 DEF Handle, DeploySecret, DeployStart, ResumeFinish, ResumeLoadSecret,
       ResumeSaveSecret, ResumeSave, ResumeStart, RollbackRun, RollbackSave, LoadAndStart,
       hosts, files
<1>4. ASSUME NEW h \in Handlers, DeployRequest(h)
      PROVE  spec'[j] = spec[j] /\ inPlace'[j] = inPlace[j]
  <2>1. PICK k \in Jobs, s \in Specs :
          /\ spec' = [spec EXCEPT ![k] = s]
          /\ SaveJob(k, NewJob) \/ SaveJobFails(k)
          /\ UNCHANGED inPlace
    BY <1>4 DEF DeployRequest, hosts
  <2>2. spec \in [Jobs -> Specs] /\ stored \in [Jobs -> JobRecord]
        /\ disk \in [Jobs -> {"absent", "corrupt", "intact"}]
    BY DEF IInv, TypeInv, TypeOK
  <2>3. k # j
    BY <2>1, <2>2 DEF SaveJob, SaveJobFails, NewJob, Intact
  <2> QED BY <2>1, <2>2, <2>3
<1>5. ASSUME NEW h \in Handlers, ResumeRequest(h) \/ RollbackRequest(h)
      PROVE  UNCHANGED <<disk, stored>>
  BY <1>5 DEF ResumeRequest, RollbackRequest, files
<1>6. CASE UNCHANGED vars
  BY <1>6 DEF vars, hosts
<1>7. CASE Crash
  BY <1>7, CrashLeaves
<1> QED BY <1>1, <1>2, <1>3, <1>4, <1>5, <1>6, <1>7 DEF Next, Request

(* When a job becomes completed, everything its steps were to leave on the *)
(* hosts is there.                                                         *)
THEOREM CompletedIsInPlace ==
  ASSUME OneRequestAtATime, NoRollbacks, TableInOrder
  PROVE  Spec => CompletedMeansInPlace
<1> DEFINE Inv == IInv /\ SerialInv /\ EffectsInv
           Kept == \A j \in Jobs :
             disk'[j] = "intact" /\ stored'[j].status = "completed"
               /\ ~Intact(j, "completed")
             => \A i \in Applicable(Table, spec[j]) :
                  Table[i + 1].name \in Lasting => Table[i + 1].name \in inPlace[j]
<1>1. Inv /\ Inv' /\ [Next]_vars => Kept
  <2> SUFFICES ASSUME Inv, Inv', [Next]_vars, NEW j \in Jobs,
                      disk'[j] = "intact", stored'[j].status = "completed",
                      ~Intact(j, "completed"),
                      NEW i \in Applicable(Table, spec[j]), Table[i + 1].name \in Lasting
               PROVE  Table[i + 1].name \in inPlace[j]
    OBVIOUS
  <2>1. spec'[j] = spec[j] /\ inPlace'[j] = inPlace[j]
    BY CompletionRunsNothing
  <2>2. stored'[j].last = N - 1
    BY DEF SerialInv, OrderlyFile, OrderlyJob
  <2>3. EffectsBelow(j, stored[j].last + 1)'
    BY DEF EffectsInv
  <2>4. i < N - 1 + 1
    BY Constants DEF Applicable, N
  <2> QED BY <2>1, <2>2, <2>3, <2>4 DEF EffectsBelow
<1>2. Spec => []Inv
  BY EffectsInvHolds
<1>3. CompletedMeansInPlace <=> [][Kept]_vars
  BY DEF CompletedMeansInPlace
<1> HIDE DEF Inv, Kept
<1> QED BY <1>1, <1>2, <1>3, PTL DEF Spec

-----------------------------------------------------------------------------
(* Every step is a step of JobLifecycle or leaves what it shows unchanged. *)
Promised == [Lifecycle!Next]_<<Phase, StepsBehind>>

LEMMA NothingShown ==
  ASSUME UNCHANGED <<disk, stored>>
  PROVE  Promised
BY DEF Promised, Phase, StepsBehind

(* Phase, without its CASE. *)
Visible(file, job) ==
  IF file = "absent" THEN "none" ELSE IF file = "corrupt" THEN "lost" ELSE job.status

LEMMA CaseVisible ==
  ASSUME NEW file, NEW job
  PROVE  (CASE file = "absent" -> "none" [] file = "corrupt" -> "lost"
            [] OTHER -> job.status) = Visible(file, job)
<1>1. CASE file = "absent"
  BY <1>1, Zenon DEF Visible
<1>2. CASE file = "corrupt"
  BY <1>2, Zenon DEF Visible
<1>3. CASE file # "absent" /\ file # "corrupt"
  BY <1>3, Zenon DEF Visible
<1> QED BY <1>1, <1>2, <1>3

LEMMA PhaseShows ==
  /\ Phase = [j \in Jobs |-> Visible(disk[j], stored[j])]
  /\ Phase' = [j \in Jobs |-> Visible(disk'[j], stored'[j])]
BY CaseVisible, Zenon DEF Phase

(* What is shown of a job, and of the others, when its file alone changes. *)
LEMMA Shown ==
  ASSUME TypeInv, NEW j \in Jobs, NEW file, NEW job,
         disk' = [disk EXCEPT ![j] = file], stored' = [stored EXCEPT ![j] = job]
  PROVE  /\ Phase' = [Phase EXCEPT ![j] = Visible(file, job)]
         /\ StepsBehind' = [StepsBehind EXCEPT ![j] = job.last + 1]
<1>1. /\ disk \in [Jobs -> {"absent", "corrupt", "intact"}]
      /\ stored \in [Jobs -> JobRecord]
  BY DEF TypeInv, TypeOK
<1>2. disk'[j] = file /\ stored'[j] = job
  BY <1>1
<1>3. \A k \in Jobs \ {j} : disk'[k] = disk[k] /\ stored'[k] = stored[k]
  BY <1>1
<1>4. Phase' = [k \in Jobs |-> Visible(disk'[k], stored'[k])]
  BY PhaseShows
<1>5. Phase' = [Phase EXCEPT ![j] = Visible(file, job)]
  <2>1. Phase' = [k \in Jobs |-> IF k = j THEN Visible(file, job)
                                         ELSE Visible(disk[k], stored[k])]
    BY <1>2, <1>3, <1>4 DEF Visible
  <2> QED BY <2>1, PhaseShows
<1>6. StepsBehind' = [StepsBehind EXCEPT ![j] = job.last + 1]
  <2>1. stored'[j].last + 1 = job.last + 1
        /\ \A k \in Jobs \ {j} : stored'[k].last + 1 = StepsBehind[k]
    <3>1. stored'[j].last + 1 = job.last + 1
      BY <1>2, Zenon
    <3>2. ASSUME NEW k \in Jobs \ {j}
          PROVE  stored'[k].last + 1 = StepsBehind[k]
      <4>1. StepsBehind[k] = stored[k].last + 1
        BY Zenon DEF StepsBehind
      <4>2. stored'[k] = stored[k]
        BY <1>3
      <4> QED BY <4>1, <4>2, Zenon
    <3> QED BY <3>1, <3>2
  <2>2. StepsBehind' = [k \in Jobs |-> stored'[k].last + 1] /\ DOMAIN StepsBehind = Jobs
    BY Zenon DEF StepsBehind
  <2> DEFINE behind(k) == stored'[k].last + 1
             n == job.last + 1
  <2>3. behind(j) = n /\ \A k \in Jobs \ {j} : behind(k) = StepsBehind[k]
    BY <2>1
  <2>4. StepsBehind' = [k \in Jobs |-> behind(k)]
    BY <2>2
  <2> HIDE DEF behind, n
  <2>5. [k \in Jobs |-> behind(k)] = [StepsBehind EXCEPT ![j] = n]
    BY <2>2, <2>3
  <2> QED BY <2>4, <2>5 DEF n
<1> QED BY <1>5, <1>6

LEMMA WriteFailsAsPromised ==
  ASSUME TypeInv, NEW j \in Jobs, SaveJobFails(j)
  PROVE  Promised
<1>1. CASE disk' = disk
  BY <1>1, NothingShown DEF SaveJobFails
<1>2. CASE disk' = [disk EXCEPT ![j] = "corrupt"]
  <2>1. stored' = [stored EXCEPT ![j] = stored[j]]
    BY DEF SaveJobFails, TypeInv, TypeOK
  <2>2. Phase' = [Phase EXCEPT ![j] = "lost"]
        /\ StepsBehind' = [StepsBehind EXCEPT ![j] = stored[j].last + 1]
    BY <1>2, <2>1, Shown DEF Visible
  <2>3. StepsBehind' = StepsBehind
    BY <2>2 DEF StepsBehind
  <2> QED BY <2>2, <2>3 DEF Promised, Lifecycle!Next, Lifecycle!Lose
<1> QED BY <1>1, <1>2 DEF SaveJobFails

(* A write of job's file that lands, by the owner of its latest copy. *)
LEMMA WriteLands ==
  ASSUME TypeInv, NEW j \in Jobs, NEW copy, SaveJob(j, copy), disk[j] = "intact"
  PROVE  /\ Phase[j] = stored[j].status /\ StepsBehind[j] = stored[j].last + 1
         /\ Phase' = [Phase EXCEPT ![j] = copy.status]
         /\ StepsBehind' = [StepsBehind EXCEPT ![j] = copy.last + 1]
         /\ copy.status = stored[j].status => Phase' = Phase
         /\ copy.last = stored[j].last => StepsBehind' = StepsBehind
<1>1. disk' = [disk EXCEPT ![j] = "intact"] /\ stored' = [stored EXCEPT ![j] = copy]
  BY DEF SaveJob
<1>2. Phase[j] = stored[j].status /\ StepsBehind[j] = stored[j].last + 1
  BY PhaseShows DEF Visible, StepsBehind
<1>3. /\ Phase' = [Phase EXCEPT ![j] = copy.status]
      /\ StepsBehind' = [StepsBehind EXCEPT ![j] = copy.last + 1]
  BY <1>1, Shown DEF Visible
<1>4. Phase = [Phase EXCEPT ![j] = Phase[j]]
      /\ StepsBehind = [StepsBehind EXCEPT ![j] = StepsBehind[j]]
  BY DEF Phase, StepsBehind
<1> QED BY <1>2, <1>3, <1>4

LEMMA ExecuteAsPromised ==
  ASSUME TypeInv, SerialInv, NEW x \in Executors, Execute(x)
  PROVE  Promised
<1>1. PICK e : e = executor[x]
  OBVIOUS
<1>2. PICK j : j = e.job
  OBVIOUS
<1>3. e \in ExecutorState /\ e.copy \in JobRecord /\ e.i \in 0 .. N /\ N \in Nat /\ j \in Jobs
  BY <1>1, <1>2, Constants DEF TypeInv, TypeOK, ExecutorState
<1>4. e.at # "idle"
  BY <1>1 DEF Execute, SkipStep, BeginStep, StepSucceeds, StepFails, RecordSuccess,
              RecordFailure, CompleteJob
<1>5. disk[j] = "intact" /\ stored[j] = e.copy /\ e.copy.last + 1 = e.i
      /\ e.copy.status = "running"
  BY <1>1, <1>2, <1>4 DEF SerialInv, OrderlyExecutor, OnFile
<1>6. ASSUME NEW copy, NEW state, ExecutorSaves(x, copy, state), ~SaveJobFails(j)
      PROVE  /\ Phase[j] = "running" /\ StepsBehind[j] = e.i
             /\ Phase' = [Phase EXCEPT ![j] = copy.status]
             /\ StepsBehind' = [StepsBehind EXCEPT ![j] = copy.last + 1]
             /\ copy.status = "running" => Phase' = Phase
             /\ copy.last = e.copy.last => StepsBehind' = StepsBehind
  <2>1. SaveJob(j, copy)
    BY <1>1, <1>2, <1>6 DEF ExecutorSaves
  <2> QED BY <1>3, <1>5, <2>1, WriteLands
<1>7. CASE SaveJobFails(j)
  BY <1>3, <1>7, WriteFailsAsPromised
<1>8. CASE StepSucceeds(x) \/ StepFails(x)
  BY <1>8, NothingShown DEF StepSucceeds, StepFails, files
<1>9. CASE SkipStep(x) /\ ~SaveJobFails(j)
  <2> DEFINE copy == StepSkipped(e.copy, e.i)
             state == [e EXCEPT !.copy = copy, !.i = e.i + 1]
  <2>1. e.i < N /\ ExecutorSaves(x, copy, state)
    BY <1>1, <1>9 DEF SkipStep
  <2>2. copy.last = e.i /\ copy.status = "running"
    BY <1>3, <1>5 DEF StepSkipped, JobRecord
  <2>3. Lifecycle!Settle(j)
    BY <1>6, <1>9, <2>1, <2>2 DEF Lifecycle!Settle
  <2> QED BY <1>3, <2>3 DEF Promised, Lifecycle!Next
<1>10. CASE BeginStep(x) /\ ~SaveJobFails(j)
  <2> DEFINE copy == StepEntered(e.copy, e.i)
             state == [e EXCEPT !.copy = copy, !.at = "run"]
  <2>1. ExecutorSaves(x, copy, state)
    BY <1>1, <1>10 DEF BeginStep
  <2>2. copy.last = e.copy.last /\ copy.status = "running"
    BY <1>3, <1>5 DEF StepEntered, JobRecord
  <2>3. UNCHANGED <<Phase, StepsBehind>>
    BY <1>6, <1>10, <2>1, <2>2
  <2> QED BY <2>3 DEF Promised
<1>11. CASE RecordSuccess(x) /\ ~SaveJobFails(j)
  <2> DEFINE copy == StepRecorded(e.copy, e.i)
             state == [e EXCEPT !.copy = copy, !.i = e.i + 1, !.at = "loop"]
  <2>1. e.i < N /\ ExecutorSaves(x, copy, state)
    BY <1>1, <1>11 DEF RecordSuccess, TypeInv
  <2>2. copy.last = e.i /\ copy.status = "running"
    BY <1>3, <1>5 DEF StepRecorded, JobRecord
  <2>3. Lifecycle!Settle(j)
    BY <1>6, <1>11, <2>1, <2>2 DEF Lifecycle!Settle
  <2> QED BY <1>3, <2>3 DEF Promised, Lifecycle!Next
<1>12. CASE RecordFailure(x) /\ ~SaveJobFails(j)
  <2> DEFINE copy == JobFailed(e.copy)
  <2>1. e.i < N /\ ExecutorSaves(x, copy, IdleExecutor)
    BY <1>1, <1>12 DEF RecordFailure, TypeInv
  <2>2. copy.last = e.copy.last /\ copy.status = "failed"
    BY <1>3 DEF JobFailed, JobRecord
  <2>3. Lifecycle!Fail(j)
    BY <1>6, <1>12, <2>1, <2>2 DEF Lifecycle!Fail, Lifecycle!Move
  <2> QED BY <1>3, <2>3 DEF Promised, Lifecycle!Next
<1>13. CASE CompleteJob(x) /\ ~SaveJobFails(j)
  <2> DEFINE copy == JobCompleted(e.copy)
  <2>1. e.i = N /\ ExecutorSaves(x, copy, IdleExecutor)
    BY <1>1, <1>13 DEF CompleteJob
  <2>2. copy.last = e.copy.last /\ copy.status = "completed"
    BY <1>3 DEF JobCompleted, JobRecord
  <2>3. Lifecycle!Complete(j)
    BY <1>6, <1>13, <2>1, <2>2 DEF Lifecycle!Complete, Lifecycle!Move
  <2> QED BY <1>3, <2>3 DEF Promised, Lifecycle!Next
<1> QED BY <1>7, <1>8, <1>9, <1>10, <1>11, <1>12, <1>13 DEF Execute

LEMMA HandleAsPromised ==
  ASSUME TypeInv, SerialInv, NEW h \in Handlers, Handle(h)
  PROVE  Promised
<1>1. PICK r : r = handler[h]
  OBVIOUS
<1>2. CASE DeploySecret(h) \/ DeployStart(h) \/ ResumeLoadSecret(h) \/ ResumeSaveSecret(h)
           \/ ResumeStart(h) \/ RollbackRun(h)
  BY <1>2, NothingShown DEF DeploySecret, DeployStart, ResumeLoadSecret, ResumeSaveSecret,
       ResumeStart, RollbackRun, LoadAndStart, SaveSecret, SaveSecretFails, files
<1>3. CASE ResumeSave(h)
  <2> DEFINE copy == [r.copy EXCEPT !.status = "running"]
  <2>1. r.at = "resume_save" /\ (SaveJob(r.job, copy) \/ SaveJobFails(r.job))
    BY <1>1, <1>3 DEF ResumeSave
  <2>2. r.job \in Jobs /\ r.copy \in JobRecord
    BY <1>1 DEF TypeInv, TypeOK, HandlerState
  <2>3. disk[r.job] = "intact" /\ stored[r.job] = r.copy /\ r.copy.status = "failed"
    BY <1>1, <2>1 DEF SerialInv, OrderlyHandler, OnFile
  <2>4. copy.status = "running" /\ copy.last = r.copy.last
    BY <2>2 DEF JobRecord
  <2>5. CASE SaveJob(r.job, copy)
    <3> HIDE DEF copy
    <3>1. Lifecycle!Retry(r.job)
      BY <2>2, <2>3, <2>4, <2>5, WriteLands DEF Lifecycle!Retry, Lifecycle!Move
    <3> QED BY <2>2, <3>1 DEF Promised, Lifecycle!Next
  <2> QED BY <2>1, <2>2, <2>5, WriteFailsAsPromised
<1>4. ~ResumeFinish(h) /\ ~RollbackSave(h)
  <2>1. r.at \notin {"resume_finish", "rollback_save"}
    BY <1>1 DEF SerialInv, OrderlyHandler
  <2> QED BY <1>1, <2>1 DEF ResumeFinish, RollbackSave
<1> QED BY <1>2, <1>3, <1>4 DEF Handle

LEMMA RequestAsPromised ==
  ASSUME IInv, SerialInv, NEW h \in Handlers, Request(h)
  PROVE  Promised
<1>1. CASE DeployRequest(h)
  <2>1. PICK j \in Jobs \ issued : SaveJob(j, NewJob) \/ SaveJobFails(j)
    BY <1>1 DEF DeployRequest
  <2>2. disk[j] = "absent" /\ stored[j] = NewJob /\ TypeInv
    BY DEF IInv, FilesTrue, SerialInv, OrderlyFile
  <2>3. CASE SaveJob(j, NewJob)
    <3>1. disk' = [disk EXCEPT ![j] = "intact"] /\ stored' = [stored EXCEPT ![j] = NewJob]
      BY <2>3 DEF SaveJob
    <3>2. Phase' = [Phase EXCEPT ![j] = "running"]
      <4>1. Phase' = [Phase EXCEPT ![j] = Visible("intact", NewJob)]
        BY <2>2, <3>1, Shown
      <4>2. Visible("intact", NewJob) = "running"
        BY DEF Visible, NewJob
      <4> QED BY <4>1, <4>2
    <3>3. UNCHANGED StepsBehind
      BY <2>2, <3>1 DEF StepsBehind, TypeInv, TypeOK
    <3>4. Phase[j] = "none"
      BY <2>2, PhaseShows DEF Visible
    <3>5. Lifecycle!Start(j)
      BY <3>2, <3>3, <3>4 DEF Lifecycle!Start, Lifecycle!Move
    <3> QED BY <3>5 DEF Promised, Lifecycle!Next
  <2> QED BY <2>1, <2>2, <2>3, WriteFailsAsPromised
<1>2. CASE ResumeRequest(h) \/ RollbackRequest(h)
  BY <1>2, NothingShown DEF ResumeRequest, RollbackRequest, files
<1> QED BY <1>1, <1>2 DEF Request

LEMMA CrashAsPromised ==
  ASSUME IInv, Crash
  PROVE  Promised
<1>1. CASE UNCHANGED disk
  BY <1>1, CrashLeaves, NothingShown
<1>2. ASSUME NEW j \in Jobs, disk' = [disk EXCEPT ![j] = "corrupt"], UNCHANGED stored
      PROVE  Promised
  <2>1. stored' = [stored EXCEPT ![j] = stored[j]]
    BY <1>2 DEF IInv, TypeInv, TypeOK
  <2>2. Phase' = [Phase EXCEPT ![j] = "lost"]
        /\ StepsBehind' = [StepsBehind EXCEPT ![j] = stored[j].last + 1]
    BY <1>2, <2>1, Shown DEF Visible, IInv
  <2>3. StepsBehind' = StepsBehind
    BY <2>2 DEF StepsBehind
  <2> QED BY <2>2, <2>3 DEF Promised, Lifecycle!Next, Lifecycle!Lose
<1> QED BY <1>1, <1>2, CrashLeaves

LEMMA InitAsPromised ==
  ASSUME Init
  PROVE  Lifecycle!Init
BY DEF Init, NewJob, Lifecycle!Init, Phase, StepsBehind

(* Served one request at a time and without rollbacks, the service keeps   *)
(* the promise of JobLifecycle whatever writes fail and wherever it dies.  *)
THEOREM LifecycleKept ==
  ASSUME OneRequestAtATime, NoRollbacks
  PROVE  Spec => ImplementsLifecycle
<1>1. Init => Lifecycle!Init
  BY InitAsPromised
<1>2. IInv /\ SerialInv /\ [Next]_vars => [Lifecycle!Next]_<<Phase, StepsBehind>>
  <2>1. ASSUME IInv, SerialInv, [Next]_vars
        PROVE  Promised
    <3>1. TypeInv
      BY <2>1 DEF IInv
    <3>2. CASE UNCHANGED vars
      BY <3>2, NothingShown DEF vars, files
    <3> QED BY <2>1, <3>1, <3>2, ExecuteAsPromised, HandleAsPromised, RequestAsPromised,
               CrashAsPromised DEF Next
  <2> QED BY <2>1 DEF Promised
<1> QED BY <1>1, <1>2, SerialInvHolds, PTL DEF Spec, ImplementsLifecycle, Lifecycle!Spec,
                                              Lifecycle!vars

=============================================================================
