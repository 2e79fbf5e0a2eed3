---------------------------- MODULE MCMySQLJobs ----------------------------
(***************************************************************************)
(* Small instances of MySQLJobs for TLC.                                   *)
(***************************************************************************)
EXTENDS MySQLJobs

CONSTANTS p1, p2

(* The table of NewService, and its middle: the steps that take down each   *)
(* other's effects, with one that can be skipped between two that cannot.   *)
FullTable == steps
ShortTable == SubSeq(steps, 3, 6)

Everything == [standbys |-> TRUE, initDB |-> TRUE, bootstrapRouter |-> TRUE,
               assumePrepared |-> FALSE]
Prepared == [standbys |-> FALSE, initDB |-> TRUE, bootstrapRouter |-> TRUE,
             assumePrepared |-> TRUE]
NoRouter == [standbys |-> TRUE, initDB |-> FALSE, bootstrapRouter |-> FALSE,
             assumePrepared |-> FALSE]

AllSpecs == {Everything, Prepared, NoRouter}
OneSpec == {NoRouter}

TwoPasswords == {p1, p2}
OnePassword == {p1}
NoneSupplied == {NoPassword}
Supplied == {NoPassword, p2}
=============================================================================
