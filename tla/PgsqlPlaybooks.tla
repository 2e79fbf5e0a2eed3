--------------------------- MODULE PgsqlPlaybooks ---------------------------
(***************************************************************************)
(* What the PostgreSQL playbooks leave on the nodes of a cluster            *)
(* (cluster/pgsql/playbooks).  All standby nodes are treated alike: one     *)
(* stands for them; so are the etcd directories of all nodes, which one     *)
(* task resets.  Patroni and etcd are external: Patroni initialises an      *)
(* empty data directory with the configured passwords, starts a filled one  *)
(* as it is, and clones the standby from a primary that admits it.         *)
(***************************************************************************)
EXTENDS Integers, Sequences, FiniteSets

CONSTANTS
  Jobs, NoJob,
  Passwords, NoPassword

ASSUME PasswordAssumption == Passwords # {} /\ NoPassword \notin Passwords
ASSUME JobAssumption == Jobs # {} /\ NoJob \notin Jobs

StepNames == {"preflight", "base_config", "primary_config", "standby_config",
              "cluster_bootstrap", "verify_cluster", "init_app_db"}

steps == <<"preflight", "base_config", "primary_config", "standby_config",
           "cluster_bootstrap", "verify_cluster", "init_app_db">>

StoredSpec == [standbys : BOOLEAN, initDB : BOOLEAN]

ShouldSkipStep(name, spec) ==
  \/ name = "standby_config" /\ ~spec.standbys
  \/ name = "init_app_db" /\ ~spec.initDB

Nodes == {"primary", "standby"}
Directories == Nodes \cup {"etcd"}
NodesOf(spec) == IF spec.standbys THEN Nodes ELSE {"primary"}

MaybeJob == Jobs \cup {NoJob}
MaybePassword == Passwords \cup {NoPassword}

(* The database accounts a job has passwords for, and what a request, a file *)
(* or a node holds of them (SecretInput, StoredSecret).  A password that is  *)
(* not there is NoPassword.                                                 *)
Accounts == {"postgres", "replicator", "admin"}
Secrets == [Accounts -> MaybePassword]
NoSecret == [a \in Accounts |-> NoPassword]

(* marked: the jobs whose reset marker lies beside a node's data directory.  *)
(* etcd: the job whose reset marker lies in /var/lib/etcd, where a reset    *)
(* removes all others.  data: whose run filled the data directory.  config: *)
(* the passwords in a node's Patroni configuration; accounts: those the     *)
(* database was initialised with.  resets counts, for the properties only,  *)
(* the resets that left a marker.                                          *)
Cluster == [marked   : [Nodes -> SUBSET Jobs],
            etcd     : MaybeJob,
            data     : [Nodes -> MaybeJob],
            config   : [Nodes -> Secrets],
            accounts : Secrets,
            running  : BOOLEAN,
            resets   : [Jobs -> [Directories -> Nat]]]

FreshNodes == [marked   |-> [n \in Nodes |-> {}],
               etcd     |-> NoJob,
               data     |-> [n \in Nodes |-> NoJob],
               config   |-> [n \in Nodes |-> NoSecret],
               accounts |-> NoSecret,
               running  |-> FALSE,
               resets   |-> [j \in Jobs |-> [d \in Directories |-> 0]]]

(* What a run of a step is given (runConfig). *)
RunConfig(job, spec, secret) ==
  [job |-> job, spec |-> spec, secret |-> secret]

-----------------------------------------------------------------------------
(* The tasks of a step that change a node, and the looks the changes depend *)
(* on, in the order of the playbook; the other tasks wait or check.         *)
TasksOf(name) ==
  CASE name = "base_config" -> <<"stop">>
    [] name \in {"primary_config", "standby_config"} ->
         <<"look", "wipe", "mark", "configure">>
    [] name = "cluster_bootstrap" ->
         <<"look", "wipe", "mark", "start_etcd", "start_primary", "start_standby">>
    [] OTHER -> <<>>

MostTasks == 6

(* The directory a step looks at and resets. *)
DirectoryOf(name) ==
  CASE name = "primary_config" -> "primary"
    [] name = "standby_config" -> "standby"
    [] OTHER -> "etcd"

(* Whether a look finds no marker of this job, and a reset is due. *)
MustResetAgain(d, c, run) == TRUE
MustReset(d, c, run) ==
  IF d = "etcd" THEN c.etcd # run.job ELSE run.job \notin c.marked[d]

(* The two halves of the reset script.  The wipe of /var/lib/etcd takes the *)
(* marker of any earlier job along; a data directory's lies beside it.      *)
Wiped(d, c) ==
  IF d = "etcd" THEN [c EXCEPT !.etcd = NoJob] ELSE [c EXCEPT !.data[d] = NoJob]

Marked(d, c, run) ==
  LET counted == [c EXCEPT !.resets[run.job][d] = @ + 1]
  IN  IF d = "etcd" THEN [counted EXCEPT !.etcd = run.job]
                    ELSE [counted EXCEPT !.marked[d] = @ \cup {run.job}]

Configured(n, c, run) == [c EXCEPT !.config[n] = run.secret]

(* Whether the database knows the password a node is configured with. *)
Admitted(n, account, c) ==
  /\ c.accounts # NoSecret
  /\ c.config[n][account] = c.accounts[account]

PrimaryStarted(c, run) ==
  IF c.data["primary"] # NoJob THEN c
  ELSE [c EXCEPT !.data["primary"] = run.job, !.accounts = c.config["primary"]]

StandbyStarted(c, run) ==
  IF run.spec.standbys /\ Admitted("standby", "replicator", c)
  THEN [c EXCEPT !.data["standby"] = c.data["primary"]] ELSE c

(* The nodes after a task; due is what the step's look has registered. *)
TaskDone(task, d, due, c, run) ==
  CASE task = "stop"          -> [c EXCEPT !.running = FALSE]
    [] task = "wipe" /\ due   -> Wiped(d, c)
    [] task = "mark" /\ due   -> Marked(d, c, run)
    [] task = "configure"     -> Configured(d, c, run)
    [] task = "start_etcd"    -> [c EXCEPT !.running = TRUE]
    [] task = "start_primary" -> PrimaryStarted(c, run)
    [] task = "start_standby" -> StandbyStarted(c, run)
    [] OTHER -> c

-----------------------------------------------------------------------------
(* What the last tasks of a step wait for or check, after all the others.   *)
(* verify_cluster and init_app_db log in as the superuser; no task uses the *)
(* admin account.                                                          *)
Usable(c, run) ==
  /\ c.running
  /\ c.accounts["postgres"] = run.secret["postgres"]
  /\ \A n \in NodesOf(run.spec) : c.data[n] # NoJob /\ c.data[n] = c.data["primary"]

CanSucceed(name, c, run) ==
  CASE name = "cluster_bootstrap" ->
         /\ \A n \in NodesOf(run.spec) : Admitted(n, "postgres", c)
         /\ run.spec.standbys => Admitted("standby", "replicator", c)
    [] name \in {"verify_cluster", "init_app_db"} -> Usable(c, run)
    [] OTHER -> TRUE
=============================================================================
