--------------------------- MODULE MySQLPlaybooks ---------------------------
(***************************************************************************)
(* What the MySQL playbooks leave on the target hosts, as the set of steps *)
(* whose effect is in place (cluster/mysql/playbooks).  A run of a step    *)
(* first takes down what it is about to rebuild, then puts its own effect  *)
(* in place; a run that is killed or fails stops anywhere on that way.     *)
(***************************************************************************)
EXTENDS MySQLSteps

(* The steps that leave something on the hosts; preflight and              *)
(* verify_cluster only look.                                               *)
Lasting == {"configure_instances", "create_cluster", "add_instances",
            "bootstrap_router", "init_app_db"}

(* A task file: the effects it finds or fails, those it removes before it  *)
(* puts its own in place, and whether it sets the password of the cluster  *)
(* admin account to the one it is given.                                   *)
Task(needs, takesDown, setsPassword) ==
  [needs |-> needs, takesDown |-> takesDown, setsPassword |-> setsPassword]

Preflight == Task({}, {}, FALSE)

(* Stops group replication and drops the metadata schema, where the router *)
(* is registered too.  assume_prepared is not among the extra variables of *)
(* Runner.run, so its default, false, always applies.                      *)
ConfigureInstances ==
  Task({}, {"create_cluster", "add_instances", "bootstrap_router"}, TRUE)

(* The same on the primary, then dba.create_cluster: a cluster that exists *)
(* is built anew, without its other members.                               *)
CreateCluster ==
  Task({}, {"create_cluster", "add_instances", "bootstrap_router"}, FALSE)

(* dba.get_cluster must find the cluster; a member is not added twice. *)
AddInstances == Task({"create_cluster"}, {}, TRUE)

(* Removes the registrations and directories of earlier routers first. *)
BootstrapRouter == Task({"create_cluster"}, {"bootstrap_router"}, TRUE)

(* The cluster's nodes are counted. *)
VerifyCluster(spec) ==
  Task({"create_cluster"} \cup (IF spec.standbys THEN {"add_instances"} ELSE {}),
       {}, FALSE)

InitAppDB == Task({}, {}, FALSE)

(* One play per tag, the name of the step. *)
DeployPlaybook(spec) ==
  [preflight           |-> Preflight,
   configure_instances |-> ConfigureInstances,
   create_cluster      |-> CreateCluster,
   add_instances       |-> AddInstances,
   bootstrap_router    |-> BootstrapRouter,
   verify_cluster      |-> VerifyCluster(spec),
   init_app_db         |-> InitAppDB]

CanSucceed(name, spec, inPlace) ==
  DeployPlaybook(spec)[name].needs \subseteq inPlace

TakenDown(name, spec, inPlace) ==
  inPlace \ DeployPlaybook(spec)[name].takesDown

StepDone(name, spec, inPlace) ==
  TakenDown(name, spec, inPlace) \cup ({name} \cap Lasting)

(* A step that reports failure may have done nothing, only the taking down, *)
(* or, when it was killed at its timeout, everything.                       *)
StepOutcomesOnFailure(name, spec, inPlace) ==
  {inPlace, TakenDown(name, spec, inPlace)}
    \cup (IF CanSucceed(name, spec, inPlace) THEN {StepDone(name, spec, inPlace)}
                                             ELSE {})

SetsAdminPassword(name, spec) == DeployPlaybook(spec)[name].setsPassword

RollbackDone(inPlace) ==
  inPlace \ {"bootstrap_router", "create_cluster", "add_instances"}

(* The play on all hosts removes the router before the play on the primary *)
(* dissolves the cluster.                                                  *)
RollbackOutcomesOnFailure(inPlace) ==
  {inPlace, inPlace \ {"bootstrap_router"}, RollbackDone(inPlace)}
=============================================================================
