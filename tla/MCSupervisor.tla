----------------------------- MODULE MCSupervisor -----------------------------
(***************************************************************************)
(* Finite instances of Supervisor: two of the managed services with the    *)
(* tables that gate them, and the processes of a small host.  Of network's *)
(* two tables one is kept: what matters is whether all of them have rows.  *)
(***************************************************************************)
EXTENDS Supervisor

Network == "network"
PkiRepo == "pki-repo"
Directory == "directory"

MCServices == {Network, Directory}
MCTables == {"dns_zones"}
MCRequires == [s \in MCServices |-> IF s = Network THEN MCTables ELSE {}]

\* pki-repo asks for one table; directory's binary is missing.
PkiServices == {PkiRepo, Directory}
PkiTables == {"pki_authorities"}
PkiRequires == [s \in PkiServices |-> IF s = PkiRepo THEN PkiTables ELSE {}]
PkiInstalled == {PkiRepo}

=============================================================================
