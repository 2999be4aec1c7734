------------------------------ MODULE MCDaemons -------------------------------
(***************************************************************************)
(* Finite instances of the services of the daemons.                        *)
(***************************************************************************)
EXTENDS DaemonServices, TLC

\* Netlogon: two callers on one computer, one of which counts on.
MCComputerOf == "a" :> "w1" @@ "b" :> "w1"

\* DynamicDns: the domain controller's name in the domain's zone, a host in a
\* zone of its own.
MCZoneOf == "dc" :> "domain" @@ "host" :> "lab"
MCSeed == {[owner |-> "dc", type |-> "A", value |-> "v1"]}

\* Smb: old and new dialects.
MCDialectOffers == {<<202, 210, 300>>, <<311, 300>>}

\* Samr: two machines of one RID, and RIDs whose order as text is another.
MCRidOf == "administrator" :> 500 @@ "m1" :> 1001 @@ "m2" :> 1001 @@ "m3" :> 10000 @@ "m4" :> 1002

\* Kerberos: also types nobody has a key of.
MCEtypeOffers == {<<18>>, <<23, 17>>, <<23>>, <<>>}

\* LdapSearch: two groups and a user in one container.
MCParentOf == [d \in {"g1", "g2", "u1", "users", "base"} |->
                  IF d \in {"users", "base"} THEN "base" ELSE "users"]
===============================================================================
