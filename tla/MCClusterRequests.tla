------------------------- MODULE MCClusterRequests -------------------------
(***************************************************************************)
(* An instance of ClusterRequests for TLC: requests that differ from the    *)
(* smallest one in their names, in the application database's fields, in    *)
(* their hosts or in their numbers, each in every way the checks tell apart.*)
(***************************************************************************)
EXTENDS ClusterRequests

CONSTANTS none, word, other, junk, a, b

AllCores == {none, word, other, junk, a, b}
MatchingCores == {word, other}
AddressCores == {a, b}

Plain(core) == [core |-> core, padded |-> FALSE]
Padded(core) == [core |-> core, padded |-> TRUE]

Names == {Plain(none), Padded(none), Plain(word), Padded(word), Plain(junk)}
Passwords == {Plain(none), Padded(none), Plain(word), Padded(word), Plain(other)}
Addrs == {Plain(a), Padded(a), Plain(b), Padded(b), Plain(junk)}
HostLists == {<<>>} \cup {<<x>> : x \in Addrs} \cup {<<x, y>> : x, y \in Addrs}
Ports == {-1, 0, 1, 65535, 65536}
Timeouts == {-1, 0, 29, 30, 7200, 7201}

Smallest == [adminUser |-> Plain(none), clusterName |-> Plain(none),
             primary |-> Plain(a), standbys |-> <<>>, secondaries |-> <<>>,
             newUser |-> Plain(none), newDB |-> Plain(none),
             newUserPassword |-> Plain(none),
             sshPort |-> 0, dbPort |-> 0, timeout |-> 0]

AllRequests ==
  {[Smallest EXCEPT !.adminUser = x, !.clusterName = y] : x, y \in Names}
  \cup {[Smallest EXCEPT !.newUser = x, !.newDB = y, !.newUserPassword = z] :
          x, y \in Names, z \in Passwords}
  \cup {[Smallest EXCEPT !.primary = x, !.standbys = s, !.secondaries = t] :
          x \in {Plain(a), Padded(a), Plain(none)}, s, t \in HostLists}
  \cup {[Smallest EXCEPT !.sshPort = x, !.dbPort = y, !.timeout = z] :
          x, y \in Ports, z \in Timeouts}
=============================================================================
