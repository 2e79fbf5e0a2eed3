-------------------------- MODULE ClusterRequests --------------------------
(***************************************************************************)
(* What the requests of a deployment carry and what becomes of it: the      *)
(* HTTP handlers (cmd/api), the validation of both engines                 *)
(* (internal/cluster/*/validate.go), what Deploy stores of a request, and   *)
(* the application account of the database, whose password is never stored: *)
(* Deploy and Resume hand it to the goroutine they start.                  *)
(*                                                                         *)
(* One job of one engine is followed.  Requests for it are served one after *)
(* the other and the store does not fail (MySQLJobs and PgsqlJobs are about *)
(* that).  init_app_db is the last step of both engines; all before it      *)
(* count as one.  A rollback carries nothing that is checked.              *)
(***************************************************************************)
EXTENDS Integers, Sequences

CONSTANTS
  Cores,        \* what texts are, spaces around them apart
  NoCore,       \* the empty text
  Matching,     \* the texts the field patterns match
  Addresses,    \* the texts that parse as an IP address
  DefaultName,  \* stands for the default of a name
  Requests,     \* the deploy requests clients make
  Given         \* the new-user passwords resume requests carry

Text == [core : Cores, padded : BOOLEAN]
Empty == [core |-> NoCore, padded |-> FALSE]

DeployRequest ==
  [adminUser : Text, clusterName : Text, primary : Text,
   standbys : Seq(Text), secondaries : Seq(Text),
   newUser : Text, newDB : Text, newUserPassword : Text,
   sshPort : Int, dbPort : Int, timeout : Int]

ASSUME CoreAssumption ==
  /\ NoCore \in Cores /\ Matching \subseteq Cores \ {NoCore}
  /\ Addresses \subseteq Cores \ {NoCore} /\ DefaultName \in Matching
ASSUME RequestAssumption == Requests \subseteq DeployRequest /\ Given \subseteq Text

VARIABLES
  engine,   \* "mysql" or "pgsql"
  status,   \* of the job; "none": not deployed yet
  request,  \* Job.Request
  behind,   \* how many of the two steps are behind the job
  memory,   \* SecretInput.NewUserPassword of the goroutine
  account,  \* the password of the application account on the hosts
  asked     \* history: the password of the request that last started the job

vars == <<engine, status, request, behind, memory, account, asked>>

-----------------------------------------------------------------------------
(* Validation. *)
TrimSpace(t) == [t EXCEPT !.padded = FALSE]
OrDefault(t) == IF t = Empty THEN [core |-> DefaultName, padded |-> FALSE] ELSE t
PortOr(n, default) == IF n = 0 THEN default ELSE n

(* Some definitions the properties guard are preceded by the slips they    *)
(* tell from it (the mutants of PROJECT.json; nothing else refers to them). *)
AllTrimmed(texts) == [i \in DOMAIN texts |-> TrimSpace(texts[i])]

(* The trimmed hosts are written back to the request they were checked in. *)
NotWrittenBack(texts) == texts
WrittenBack(texts) == AllTrimmed(texts)

(* What the validation makes of a request, in both engines. *)
Normalized(r) ==
  [r EXCEPT !.clusterName = OrDefault(TrimSpace(@)),
            !.primary = TrimSpace(@), !.standbys = WrittenBack(@),
            !.newUser = TrimSpace(@), !.newDB = TrimSpace(@),
            !.sshPort = PortOr(@, 22), !.timeout = PortOr(@, 900)]

MySQLNormalized(r) ==
  Normalized([r EXCEPT !.adminUser = OrDefault(TrimSpace(@)),
                       !.standbys = IF @ = <<>> THEN r.secondaries ELSE @,
                       !.dbPort = PortOr(@, 3306)])

PgsqlNormalized(r) == Normalized([r EXCEPT !.dbPort = PortOr(@, 5432)])

Matches(t) == t.core \in Matching /\ ~t.padded
IsAddress(t) == t.core \in Addresses /\ ~t.padded

(* All of the application database's fields, or none. *)
InitDBFieldsComplete(n) ==
  \/ n.newUser = Empty /\ n.newDB = Empty /\ n.newUserPassword.core = NoCore
  \/ n.newUser # Empty /\ n.newDB # Empty /\ n.newUserPassword.core # NoCore

AreAddresses(hosts) == \A i \in DOMAIN hosts : IsAddress(hosts[i])

HostsAreDistinct(primary, hosts) ==
  \A i \in DOMAIN hosts :
    /\ hosts[i] # primary
    /\ \A k \in 1 .. i - 1 : hosts[k] # hosts[i]

PortRange == 1 .. 65535
TimeoutRange == 30 .. 7200

PortPositive(p) == p >= 1
PortInRange(p) == p \in PortRange

Valid(n) ==
  /\ Matches(n.clusterName)
  /\ n.newUser = Empty \/ Matches(n.newUser)
  /\ n.newDB = Empty \/ Matches(n.newDB)
  /\ InitDBFieldsComplete(n)
  /\ IsAddress(n.primary)
  /\ AreAddresses(AllTrimmed(n.standbys))
  /\ HostsAreDistinct(n.primary, AllTrimmed(n.standbys))
  /\ PortInRange(n.sshPort) /\ PortInRange(n.dbPort)
  /\ n.timeout \in TimeoutRange

MySQLValid(n) == Matches(n.adminUser) /\ Valid(n)

(* The PostgreSQL request has no such fields, and an unknown one is refused.*)
PgsqlDecodable(r) == r.adminUser = Empty /\ r.secondaries = <<>>

Validated(e, r) == IF e = "mysql" THEN MySQLNormalized(r) ELSE PgsqlNormalized(r)

Accepted(e, r) ==
  IF e = "mysql" THEN MySQLValid(MySQLNormalized(r))
  ELSE PgsqlDecodable(r) /\ Valid(PgsqlNormalized(r))

(* The fields of a request that become Job.Request; the password does not. *)
Stored(n) == [n EXCEPT !.newUserPassword = Empty, !.secondaries = <<>>]

-----------------------------------------------------------------------------
Init ==
  /\ engine \in {"mysql", "pgsql"}
  /\ status = "none" /\ behind = 0
  /\ request = [adminUser |-> Empty, clusterName |-> Empty, primary |-> Empty,
                standbys |-> <<>>, secondaries |-> <<>>,
                newUser |-> Empty, newDB |-> Empty, newUserPassword |-> Empty,
                sshPort |-> 0, dbPort |-> 0, timeout |-> 0]
  /\ memory = Empty /\ account = Empty /\ asked = Empty

(* A refused request is answered with 400 and changes nothing. *)
Deploy ==
  /\ status = "none"
  /\ \E r \in Requests :
       /\ Accepted(engine, r)
       /\ request' = Stored(Validated(engine, r))
       /\ memory' = r.newUserPassword
       /\ asked' = r.newUserPassword
  /\ status' = "running"
  /\ UNCHANGED <<engine, behind, account>>

ResumedWithoutPassword(given) == TRUE
PasswordSuffices(given) == request.newUser # Empty => given # Empty

Resume ==
  /\ status = "failed"
  /\ \E p \in Given :
       LET given == TrimSpace(p)
       IN  /\ PasswordSuffices(given)
           /\ memory' = given
           /\ asked' = p
  /\ status' = "running"
  /\ UNCHANGED <<engine, request, behind, account>>

-----------------------------------------------------------------------------
(* executeFrom. *)
InitSkipped == request.newUser = Empty \/ request.newDB = Empty

StepSucceeds ==
  /\ status = "running" /\ behind < 2
  /\ behind' = behind + 1
  /\ account' = IF behind = 1 /\ ~InitSkipped THEN memory ELSE account
  /\ UNCHANGED <<engine, status, request, memory, asked>>

(* The step may have set the password before it fails. *)
StepFails ==
  /\ status = "running" /\ behind < 2
  /\ behind = 0 \/ ~InitSkipped
  /\ account' \in (IF behind = 1 THEN {account, memory} ELSE {account})
  /\ status' = "failed" /\ memory' = Empty
  /\ UNCHANGED <<engine, request, behind, asked>>

Complete ==
  /\ status = "running" /\ behind = 2
  /\ status' = "completed" /\ memory' = Empty
  /\ UNCHANGED <<engine, request, behind, account, asked>>

Next == Deploy \/ Resume \/ StepSucceeds \/ StepFails \/ Complete

Spec == Init /\ [][Next]_vars

-----------------------------------------------------------------------------
(* What is stored stays within the ranges the steps rely on: ports, and a  *)
(* timeout that Runner.run need not replace (runner.go:137).               *)
TypeOK ==
  /\ engine \in {"mysql", "pgsql"}
  /\ status \in {"none", "running", "failed", "completed"}
  /\ behind \in 0 .. 2
  /\ request \in DeployRequest
  /\ {memory, account, asked} \subseteq Text
  /\ status # "none" => /\ {request.sshPort, request.dbPort} \subseteq PortRange
                        /\ request.timeout \in TimeoutRange

(* The stored request, which every step builds its inventory and variables *)
(* from, names different hosts by their plain addresses, and is final:      *)
(* validated again (with a password where it names a user) it would be      *)
(* accepted as it stands, whatever spaces, defaults and aliases the         *)
(* client's request had.                                                   *)
WithPassword(s) ==
  [s EXCEPT !.newUserPassword =
     IF s.newUser = Empty THEN Empty ELSE [core |-> DefaultName, padded |-> FALSE]]

StoredRequestIsFinal ==
  status # "none" =>
    /\ AreAddresses(request.standbys)
    /\ HostsAreDistinct(request.primary, request.standbys)
    /\ Accepted(engine, WithPassword(request))
    /\ Stored(Validated(engine, WithPassword(request))) = request

(* When a job has completed, the application account exists exactly if the *)
(* deploy request asked for it, and its password is that of the request     *)
(* which last started the job, spaces around it apart: it is nowhere        *)
(* stored, and a resume has to bring it again (service.go:150).            *)
AppAccountIsAsAsked ==
  status = "completed" =>
    IF request.newUser = Empty THEN account = Empty
    ELSE account.core # NoCore /\ account.core = asked.core
=============================================================================
