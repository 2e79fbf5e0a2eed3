--------------------------- MODULE MCHAProxyTenants ---------------------------
(***************************************************************************)
(* Small instances of HAProxyTenants for TLC: who manages which port.       *)
(***************************************************************************)
EXTENDS HAProxyTenants, TLC

CONSTANTS p1, p2, h1, h2

OnePortEach == h1 :> {p1} @@ h2 :> {p2}
EveryPort == h1 :> {p1, p2} @@ h2 :> {p1, p2}
SamePort == h1 :> {p1} @@ h2 :> {p1}
=============================================================================
