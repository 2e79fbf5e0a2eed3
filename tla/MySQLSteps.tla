----------------------------- MODULE MySQLSteps -----------------------------
(***************************************************************************)
(* The pure part of the MySQL deployment service: the table of deployment  *)
(* steps, which of them a request skips, and the progress that is shown    *)
(* for a job (internal/cluster/mysql/service.go).                          *)
(*                                                                         *)
(* Steps are numbered from 0, as in the code: step i of a table is its     *)
(* element i + 1.  The step table is a parameter of the operators because  *)
(* it is a field of Service; steps is the one NewService installs.         *)
(***************************************************************************)
EXTENDS Integers, Sequences, FiniteSets

StepNames == {"preflight", "configure_instances", "create_cluster",
              "add_instances", "bootstrap_router", "verify_cluster",
              "init_app_db"}

Step == [name : StepNames, skippable : BOOLEAN]

(* The part of StoredSpec that decides control.  initDB stands for new_user *)
(* and new_db: ValidateDeployRequest accepts both or neither.               *)
StoredSpec == [standbys : BOOLEAN, initDB : BOOLEAN,
               bootstrapRouter : BOOLEAN, assumePrepared : BOOLEAN]

Mandatory(name) == [name |-> name, skippable |-> FALSE]

steps == << Mandatory("preflight"), Mandatory("configure_instances"),
            Mandatory("create_cluster"), Mandatory("add_instances"),
            [name |-> "bootstrap_router", skippable |-> TRUE],
            Mandatory("verify_cluster"), Mandatory("init_app_db") >>

ShouldSkipStep(st, spec) ==
  \/ st.name = "add_instances" /\ ~spec.standbys
  \/ st.name = "init_app_db" /\ ~spec.initDB
  \/ st.skippable /\ ~spec.bootstrapRouter
  \/ spec.assumePrepared /\ st.name \in {"preflight", "configure_instances"}

(* The indices of the steps a request runs. *)
Applicable(table, spec) ==
  {i \in 0 .. Len(table) - 1 : ~ShouldSkipStep(table[i + 1], spec)}

TotalStepsFor(table, spec) == Cardinality(Applicable(table, spec))

(* What updateJobProgress writes for a job with this status, of whose step *)
(* results completedResults have the status "completed".                   *)
JobProgress(table, spec, status, completedResults) ==
  LET total     == TotalStepsFor(table, spec)
      counted   == IF status = "completed" THEN total ELSE completedResults
      completed == IF counted > total THEN total ELSE counted
  IN  [total     |-> total,
       completed |-> completed,
       percent   |-> IF total = 0 THEN 0 ELSE (completed * 100) \div total]
=============================================================================
