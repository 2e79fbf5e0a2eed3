------------------------------ MODULE TenantTable ------------------------------
(***************************************************************************)
(* What the HAProxy tenant service promises its clients: a table of tenant  *)
(* configurations by port.  A request that is answered with success changed *)
(* the entry of its port, all at once, to what it asked for, which HAProxy  *)
(* accepts; a request that is answered with an error changed nothing.       *)
(* Requests that are interrupted, by a crash, a write that stops half way   *)
(* or an undo that fails, may leave their own ports, and no others, with    *)
(* what they asked for or with a damaged entry.                            *)
(***************************************************************************)
CONSTANTS
  Ports, Configs, BadConfigs, None,
  Damaged,   \* entries nobody asked for
  Clients

VARIABLES
  table,  \* what each port is configured with, or None
  asked   \* the requests that have no answer yet

Requests == [client : Clients, port : Ports, content : Configs \cup {None}]

Init == table = [p \in Ports |-> None] /\ asked = {}

Ask(r) ==
  /\ \A other \in asked : other.client # r.client
  /\ asked' = asked \cup {r}
  /\ UNCHANGED table

Grant(r) ==
  /\ r.content \notin BadConfigs
  /\ asked' = asked \ {r}
  /\ table' = [table EXCEPT ![r.port] = r.content]

Refuse(r) == asked' = asked \ {r} /\ UNCHANGED table

MayBeLeft(p, lost) ==
  {table[p]} \cup UNION {Damaged \cup {r.content} : r \in {r \in lost : r.port = p}}

Interrupt(lost) ==
  /\ asked' = asked \ lost
  /\ DOMAIN table' = Ports
  /\ \A p \in Ports : table'[p] \in MayBeLeft(p, lost)

Next ==
  \/ \E r \in Requests : Ask(r)
  \/ \E r \in asked : Grant(r) \/ Refuse(r)
  \/ \E lost \in SUBSET asked : Interrupt(lost)

Spec == Init /\ [][Next]_<<table, asked>>
=============================================================================
