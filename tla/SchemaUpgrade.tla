----------------------------- MODULE SchemaUpgrade -----------------------------
(***************************************************************************)
(* What the hosts that migrate the database promise together, and no more: *)
(* the database moves from each version of the schema to the next, as if   *)
(* one of them ran each file once, and a host serves only on the last      *)
(* version.  It says nothing of lists, transactions, records or failures.  *)
(* Migrations implements it.                                               *)
(***************************************************************************)
EXTENDS Naturals

CONSTANTS
    Hosts,      \* the hosts that start the control plane
    Last        \* the migration files are 1 .. Last, in the order of their names

VARIABLES
    effects,    \* how often each file took effect
    servers     \* the hosts whose API serves

\* The database after the first n files.
Version(n) == [f \in 1 .. Last |-> IF f <= n THEN 1 ELSE 0]

UpgradeInit == effects = Version(0) /\ servers = {}

Upgrade ==
    /\ \E n \in 1 .. Last : effects = Version(n - 1) /\ effects' = Version(n)
    /\ UNCHANGED servers

Serve(h) ==
    /\ effects = Version(Last)
    /\ servers' = servers \cup {h}
    /\ UNCHANGED effects

Stop(h) ==
    /\ servers' = servers \ {h}
    /\ UNCHANGED effects

UpgradeNext == Upgrade \/ \E h \in Hosts : Serve(h) \/ Stop(h)

UpgradeSpec == UpgradeInit /\ [][UpgradeNext]_<<effects, servers>>

=============================================================================
