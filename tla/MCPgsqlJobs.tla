----------------------------- MODULE MCPgsqlJobs -----------------------------
(***************************************************************************)
(* Small instances of PgsqlJobs for TLC.                                   *)
(***************************************************************************)
EXTENDS PgsqlJobs

CONSTANTS p1, p2

FullTable == steps
(* The steps that stop the services and reset the data directories. *)
ConfigTable == SubSeq(steps, 2, 4)
(* From the step that stops the services to the one that looks at them. *)
ShortTable == SubSeq(steps, 2, 6)

WithStandbys == [standbys |-> TRUE, initDB |-> FALSE]
AllSpecs == StoredSpec
OneSpec == {WithStandbys}

TwoPasswords == {p1, p2}
OnePassword == {p1}

(* A deployment's passwords; that they are equal to each other is of no      *)
(* account, no two of them are ever compared.                              *)
FirstSecret == {[a \in Accounts |-> p1]}

(* Resume requests: without a password, with a new one for the superuser    *)
(* alone, for the other two alone, or for all three.                       *)
Bringing(accounts) ==
  [a \in Accounts |-> IF a \in accounts THEN p2 ELSE NoPassword]
NoneSupplied == {Bringing({})}
SomeSupplied == {Bringing({}), Bringing({"postgres"}), Bringing({"replicator", "admin"}),
                 Bringing(Accounts)}
=============================================================================
