--------------------------- MODULE PlaybookRunner ---------------------------
(***************************************************************************)
(* Runner.run, the same code in internal/cluster/mysql and in               *)
(* internal/cluster/pgsql, one run after the other on the same hosts, with  *)
(* what it hands the run to: the command of os/exec, whose watcher kills    *)
(* the Ansible process when the context ends and which waits for the output *)
(* pipes to be closed, and Ansible, whose main process has one worker per   *)
(* host do a task and goes on to the next when all are back.  Both are      *)
(* external.  A kill reaches the main process only: its workers finish      *)
(* what they are at.                                                        *)
(***************************************************************************)
EXTENDS Naturals

CONSTANTS
  Hosts, Tasks,
  WorkersHoldPipes,  \* whether workers keep the output pipes open
  MaxRuns            \* bound

ASSUME RunAssumption ==
  /\ Hosts # {} /\ Tasks \in Nat
  /\ WorkersHoldPipes \in BOOLEAN /\ MaxRuns \in Nat

Places == {"idle", "workspace", "inventory", "vars", "start", "wait", "drain"}
InputFiles == {"inventory.yml", "vars.json"}

VARIABLES
  at,           \* where the call of run is
  ctx,          \* the state of stepCtx
  cancellable,  \* whether the run hangs on a client (the rollback handler's)
  workspace,    \* the files in the temporary directory
  main,         \* the Ansible process
  interrupted,  \* whether the watcher's kill was taken by the process
  worker,       \* what each host's worker is at
  broken,       \* the hosts on which a task has failed
  done,         \* the tasks that took effect on each host
  verdict,      \* StepResult.Status of the latest run
  runs          \* the bound's counter

caller == <<at, cancellable, workspace, verdict, runs>>
ansible == <<main, worker, broken, done>>
vars == <<caller, ctx, interrupted, ansible>>

TypeOK ==
  /\ at \in Places
  /\ ctx \in {"live", "expired", "cancelled"}
  /\ cancellable \in BOOLEAN
  /\ workspace \subseteq InputFiles
  /\ main \in {"none", "running", "succeeded", "failed", "killed"}
  /\ interrupted \in BOOLEAN
  /\ worker \in [Hosts -> {"none", "busy"}]
  /\ broken \subseteq Hosts
  /\ done \in [Hosts -> 0 .. Tasks]
  /\ verdict \in {"none", "completed", "failed"}
  /\ runs \in Nat

Init ==
  /\ at = "idle" /\ ctx = "live" /\ cancellable = FALSE /\ workspace = {}
  /\ main = "none" /\ interrupted = FALSE
  /\ worker = [h \in Hosts |-> "none"] /\ broken = {}
  /\ done = [h \in Hosts |-> 0]
  /\ verdict = "none" /\ runs = 0

-----------------------------------------------------------------------------
(* Runner.run up to the start of the command.                              *)
Begin ==
  /\ at = "idle" /\ runs < MaxRuns
  /\ at' = "workspace" /\ runs' = runs + 1
  /\ cancellable' \in BOOLEAN
  /\ ctx' = "live" /\ interrupted' = FALSE
  /\ main' = "none" /\ broken' = {} /\ done' = [h \in Hosts |-> 0]
  /\ UNCHANGED <<workspace, verdict, worker>>

Prepare(from, to, files) ==
  /\ at = from /\ at' = to
  /\ workspace' = workspace \cup files
  /\ UNCHANGED <<ctx, interrupted, cancellable, verdict, runs, ansible>>

MakeWorkspace == Prepare("workspace", "inventory", {})
WriteInventory == Prepare("inventory", "vars", {"inventory.yml"})
WriteVars == Prepare("vars", "start", {"vars.json"})

(* The deferred RemoveAll.  Some definitions the properties guard are       *)
(* preceded by the slips they tell from it, here and below (the mutants of  *)
(* PROJECT.json; nothing else refers to them).                             *)
LeaveWorkspace == UNCHANGED workspace
RemoveWorkspace == workspace' = {}

Return(status) ==
  /\ at' = "idle" /\ verdict' = status
  /\ RemoveWorkspace
  /\ UNCHANGED <<ctx, interrupted, cancellable, runs, ansible>>

(* A file cannot be written, the program cannot be started, or the context *)
(* has ended before it was.                                                *)
GiveUp == at \in {"workspace", "inventory", "vars", "start"} /\ Return("failed")

Start ==
  /\ at = "start" /\ ctx = "live"
  /\ at' = "wait" /\ main' = "running"
  /\ UNCHANGED <<ctx, interrupted, cancellable, workspace, verdict, runs,
                 worker, broken, done>>

-----------------------------------------------------------------------------
(* The context: the step's timeout runs from when the files are written; a *)
(* rollback's is its request's besides, which has a time limit of its own   *)
(* and ends when the client goes away.                                     *)
EndContext(how) ==
  /\ at # "idle" /\ ctx = "live"
  /\ ctx' = how
  /\ UNCHANGED <<caller, interrupted, ansible>>

Expire ==
  /\ at \in {"start", "wait", "drain"} \/ cancellable
  /\ EndContext("expired")
Cancel == cancellable /\ EndContext("cancelled")

(* The watcher of os/exec.  It also hits a process that has ended and has  *)
(* not been waited for: that run counts as failed although it succeeded.   *)
NeverKill == FALSE
Kill ==
  /\ at = "wait" /\ ctx # "live" /\ ~interrupted
  /\ interrupted' = TRUE
  /\ main' = IF main = "running" THEN "killed" ELSE main
  /\ UNCHANGED <<caller, ctx, worker, broken, done>>

-----------------------------------------------------------------------------
(* Ansible. *)
Working == {h \in Hosts : worker[h] # "none"}

NextTask ==
  /\ main = "running" /\ Working = {}
  /\ \E h \in Hosts \ broken : done[h] < Tasks
  /\ worker' = [h \in Hosts |-> IF h \notin broken /\ done[h] < Tasks
                                THEN "busy" ELSE "none"]
  /\ UNCHANGED <<caller, ctx, interrupted, main, broken, done>>

WorkerDone(h) ==
  /\ worker[h] = "busy"
  /\ worker' = [worker EXCEPT ![h] = "none"]
  /\ \/ done' = [done EXCEPT ![h] = @ + 1] /\ UNCHANGED broken
     \/ broken' = broken \cup {h} /\ UNCHANGED done
  /\ UNCHANGED <<caller, ctx, interrupted, main>>

MainSucceeds ==
  /\ main = "running" /\ Working = {}
  /\ \A h \in Hosts : done[h] = Tasks
  /\ main' = "succeeded"
  /\ UNCHANGED <<caller, ctx, interrupted, worker, broken, done>>

(* With a failed host, on an error of its own, or killed from outside. *)
MainFails ==
  /\ main = "running"
  /\ main' = "failed"
  /\ UNCHANGED <<caller, ctx, interrupted, worker, broken, done>>

-----------------------------------------------------------------------------
(* The rest of cmd.Run: the process is reaped, which ends the watch, and   *)
(* the output is read to its end, which no timeout bounds (WaitDelay is 0).*)
Reap ==
  /\ at = "wait" /\ main \in {"succeeded", "failed", "killed"}
  /\ at' = "drain"
  /\ UNCHANGED <<ctx, interrupted, cancellable, workspace, verdict, runs, ansible>>

PipesAbandoned == TRUE
PipesClosed == WorkersHoldPipes => Working = {}

StatusLeftRunning ==
  IF main = "succeeded" /\ ~interrupted THEN "completed"
  ELSE IF main = "failed" THEN "failed" ELSE "running"
Status == IF main = "succeeded" /\ ~interrupted THEN "completed" ELSE "failed"

Report == at = "drain" /\ PipesClosed /\ Return(Status)

Call == MakeWorkspace \/ WriteInventory \/ WriteVars \/ GiveUp \/ Start \/ Reap \/ Report

Next ==
  \/ Begin \/ Call
  \/ Expire \/ Cancel \/ Kill
  \/ NextTask \/ MainSucceeds \/ MainFails
  \/ \E h \in Hosts : WorkerDone(h)

Spec == Init /\ [][Next]_vars

(* The Go scheduler runs the caller and the watcher, and the timer fires.   *)
(* Nothing is asked of Ansible: the main process and a task on a host may   *)
(* hang for ever, since neither the shell tasks nor ssh have a time limit.  *)
Fairness == WF_vars(Call) /\ WF_vars(Expire) /\ WF_vars(Kill)

FairSpec == Spec /\ Fairness

-----------------------------------------------------------------------------
(* The input files, the passwords among them, are there as long as the     *)
(* Ansible process may read them and no longer than the call (runner.go:96).*)
WorkspaceLastsAsLongAsTheRun ==
  /\ main = "running" => workspace = InputFiles
  /\ at = "idle" => workspace = {}

(* A run is what the services take it for: no task takes effect after the  *)
(* verdict, whatever ended the run, and none is missing from a completed   *)
(* one.  It holds because Run waits for the workers' pipes as well.        *)
Phase == IF at = "idle" THEN verdict ELSE "running"

Abstract == INSTANCE StepRun WITH phase <- Phase

ImplementsStepRun == Abstract!Spec

(* A run comes to an end, although the main process may never do: the       *)
(* timeout, or the client that leaves, ends it (runner.go:140).  Only a     *)
(* task that hangs on a host holds it up for ever: the kill does not reach  *)
(* its worker and Run waits for the worker's pipe without a limit.         *)
RunsEnd ==
  at # "idle" ~> at = "idle" \/ \E h \in Hosts : [](worker[h] = "busy")
=============================================================================
