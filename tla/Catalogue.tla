------------------------------- MODULE Catalogue -------------------------------
(***************************************************************************)
(* What the API keeps of DNS zones, DHCP pools, certificate authorities    *)
(* and certificates (apps/api/platform_state.cpp): lists in memory, empty  *)
(* at every start, and rows of PostgreSQL that it writes and never reads   *)
(* back.  The supervisor counts the rows before it starts a daemon.        *)
(*                                                                         *)
(* Zones are kept in memory only.  A pool or an authority is written to    *)
(* its table before its name is looked up in the list; a failed write is   *)
(* ignored, also that of a pool whose subnet or range PostgreSQL does not  *)
(* take.  Each request is handled in one go by one thread; at is the       *)
(* statement its handler executes next, and each commits at once.          *)
(*                                                                         *)
(* What a pool holds and the key of an authority are the number of the     *)
(* request that made them, and so is the serial of a certificate.          *)
(***************************************************************************)
EXTENDS Naturals

CONSTANTS
    Zones, Pools, Authorities,   \* names
    MaxRequests,                 \* bound: requests that write to the database
    MaxFaults                    \* bound: lost or refused connections, failing statements

ASSUME CatalogueAssumption == MaxRequests \in Nat /\ MaxFaults \in Nat

VARIABLES
    zones, pools, authorities, certificates, revocations,   \* the API's lists
    zoneRows, poolRows, authorityRows, certificateRows, revocationRows,
    at, job,     \* the next statement and the request it belongs to
    requests, faults,
    lost,        \* whether a connection was lost, or a statement failed, since the API's start
    revoked,     \* the serials that a revocation with neither reported
    refused,     \* the pools PostgreSQL did not take, of names it has no row of
    unmarked     \* the serials whose certificate was not marked: that statement alone failed

lists == <<zones, pools, authorities, certificates, revocations>>
pkiRows == <<authorityRows, certificateRows, revocationRows>>
rows == <<zoneRows, poolRows, pkiRows>>
vars == <<lists, rows, at, job, requests, faults, lost, revoked, refused, unmarked>>

None == 0
Serials == 1 .. MaxRequests
Made == Serials \cup {None}

Certificate == [serial : Serials, authority : Authorities, key : Serials, revoked : BOOLEAN]

Job == [kind : {"createPool"}, name : Pools, made : Serials]
  \cup [kind : {"updatePool"}, old : Pools, name : Pools, made : Serials]
  \cup [kind : {"deletePool"}, name : Pools]
  \cup [kind : {"createAuthority"}, name : Authorities, made : Serials]
  \cup [kind : {"issue"}, certificate : Certificate]
  \cup [kind : {"revoke"}, serial : Serials, whole : BOOLEAN]
NoJob == [kind |-> "none"]

\* A certificate is revoked in a list or a table.
Revoked(set, serial) ==
    {IF c.serial = serial THEN [c EXCEPT !.revoked = TRUE] ELSE c : c \in set}

TypeOK ==
    /\ zones \subseteq Zones /\ zoneRows \subseteq Zones
    /\ pools \in [Pools -> Made] /\ poolRows \in [Pools -> Made]
    /\ authorities \in [Authorities -> Made] /\ authorityRows \in [Authorities -> Made]
    /\ certificates \subseteq Certificate /\ certificateRows \subseteq Certificate
    /\ revocations \subseteq Serials /\ revocationRows \subseteq Serials
    /\ at \in {"idle", "persist", "mark", "remember"}
    /\ job \in Job \cup {NoJob}
    /\ requests \in 0 .. MaxRequests /\ faults \in 0 .. MaxFaults
    /\ lost \in BOOLEAN
    /\ revoked \subseteq Serials
    /\ refused \subseteq Pools /\ unmarked \subseteq Serials

Init ==
    /\ zones = {} /\ zoneRows = {}
    /\ pools = [n \in Pools |-> None] /\ poolRows = [n \in Pools |-> None]
    /\ authorities = [n \in Authorities |-> None]
    /\ authorityRows = [n \in Authorities |-> None]
    /\ certificates = {} /\ certificateRows = {}
    /\ revocations = {} /\ revocationRows = {}
    /\ at = "idle" /\ job = NoJob
    /\ requests = 0 /\ faults = 0
    /\ lost = FALSE
    /\ revoked = {} /\ refused = {} /\ unmarked = {}

-----------------------------------------------------------------------------
(***************************************************************************)
(* Zones: memory only.                                                     *)
(***************************************************************************)
ChangeZones(new) ==
    /\ at = "idle"
    /\ zones' = new
    /\ UNCHANGED <<pools, authorities, certificates, revocations, rows, at, job, requests,
                   faults, lost, revoked, refused, unmarked>>

CreateZone(z) == z \notin zones /\ ChangeZones(zones \cup {z})
RenameZone(z, new) == z \in zones /\ new \notin zones /\ ChangeZones((zones \ {z}) \cup {new})
DeleteZone(z) == z \in zones /\ ChangeZones(zones \ {z})

\* The network daemon stores a dynamic update of a zone it serves (DynamicDns).
UpsertZone(z) ==
    /\ zoneRows' = zoneRows \cup {z}
    /\ UNCHANGED <<lists, poolRows, pkiRows, at, job, requests, faults, lost, revoked,
                   refused, unmarked>>

-----------------------------------------------------------------------------
(***************************************************************************)
(* The other requests begin with what their handlers check before the      *)
(* database.                                                               *)
(***************************************************************************)
Begin(j, phase) ==
    /\ at = "idle"
    /\ requests < MaxRequests
    /\ requests' = requests + 1
    /\ job' = j
    /\ at' = phase
    /\ UNCHANGED <<zones, pools, authorities, rows, faults, lost, revoked, refused, unmarked>>

\* The number of the request that begins.
Number == requests + 1

CreatePool(n) ==
    /\ Begin([kind |-> "createPool", name |-> n, made |-> Number], "persist")
    /\ UNCHANGED <<certificates, revocations>>

UpdatePool(n, new) ==
    /\ pools[n] # None
    /\ new = n \/ pools[new] = None
    /\ Begin([kind |-> "updatePool", old |-> n, name |-> new, made |-> Number], "persist")
    /\ UNCHANGED <<certificates, revocations>>

DeletePool(n) ==
    /\ pools[n] # None
    /\ Begin([kind |-> "deletePool", name |-> n], "persist")
    /\ UNCHANGED <<certificates, revocations>>

CreateAuthority(n) ==
    /\ Begin([kind |-> "createAuthority", name |-> n, made |-> Number], "persist")
    /\ UNCHANGED <<certificates, revocations>>

\* The certificate is signed with the key in the list.
\* Mutant: the authority is not looked up.
IssueUnchecked(n) ==
    /\ Begin([kind |-> "issue", certificate |->
               [serial |-> Number, authority |-> n, key |-> authorities[n], revoked |-> FALSE]],
             "persist")
    /\ UNCHANGED <<certificates, revocations>>
Issue(n) ==
    /\ authorities[n] # None
    /\ Begin([kind |-> "issue", certificate |->
               [serial |-> Number, authority |-> n, key |-> authorities[n], revoked |-> FALSE]],
             "persist")
    /\ UNCHANGED <<certificates, revocations>>

\* The list is marked first; a serial that was revoked since the API's start
\* is refused with nothing else done.
\* Mutant: what is not in the list is not looked for in the tables.
RevokeListed(serial) ==
    /\ serial <= requests
    /\ serial \notin revocations
    /\ certificates' = Revoked(certificates, serial)
    /\ UNCHANGED revocations
    /\ Begin([kind |-> "revoke", serial |-> serial, whole |-> TRUE],
             IF \E c \in certificates : c.serial = serial THEN "mark" ELSE "remember")
Revoke(serial) ==
    /\ serial <= requests
    /\ serial \notin revocations
    /\ certificates' = Revoked(certificates, serial)
    /\ UNCHANGED revocations
    /\ Begin([kind |-> "revoke", serial |-> serial, whole |-> TRUE], "mark")

-----------------------------------------------------------------------------
(***************************************************************************)
(* The statements.                                                         *)
(***************************************************************************)
Executed(phase) ==
    /\ at' = phase
    /\ UNCHANGED <<lists, zoneRows, job, requests, faults, lost, revoked>>

\* persist_dhcp_pool_to_database; a renamed pool keeps the row of its old name.
\* Mutant: an update replaces the row of the old name.
PersistPoolInPlace ==
    /\ at = "persist" /\ job.kind \in {"createPool", "updatePool"}
    /\ poolRows' = [poolRows EXCEPT ![IF job.kind = "updatePool" THEN job.old ELSE job.name] = job.made]
    /\ refused' = refused \ {job.name}
    /\ UNCHANGED <<pkiRows, unmarked>>
    /\ Executed("remember")
PersistPool ==
    /\ at = "persist" /\ job.kind \in {"createPool", "updatePool"}
    /\ poolRows' = [poolRows EXCEPT ![job.name] = job.made]
    /\ refused' = refused \ {job.name}
    /\ UNCHANGED <<pkiRows, unmarked>>
    /\ Executed("remember")

\* The subnet or the range is no cidr or inet: the API only looks whether they
\* are empty, PostgreSQL refuses the statement, and the handler goes on to the
\* list.  A row the name has stays as it was.
RefusePool ==
    /\ at = "persist" /\ job.kind \in {"createPool", "updatePool"}
    /\ refused' = IF poolRows[job.name] = None THEN refused \cup {job.name} ELSE refused
    /\ UNCHANGED <<poolRows, pkiRows, unmarked>>
    /\ Executed("remember")

ErasePool ==
    /\ at = "persist" /\ job.kind = "deletePool"
    /\ poolRows' = [poolRows EXCEPT ![job.name] = None]
    /\ UNCHANGED <<pkiRows, refused, unmarked>>
    /\ Executed("remember")

\* persist_pki_authority_to_database: insert, or replace key and certificate.
PersistAuthority ==
    /\ at = "persist" /\ job.kind = "createAuthority"
    /\ authorityRows' = [authorityRows EXCEPT ![job.name] = job.made]
    /\ UNCHANGED <<poolRows, certificateRows, revocationRows, refused, unmarked>>
    /\ Executed("remember")

\* persist_pki_certificate_to_database: nothing without the authority's row.
PersistCertificate ==
    /\ at = "persist" /\ job.kind = "issue"
    /\ certificateRows' = IF authorityRows[job.certificate.authority] = None THEN certificateRows
                          ELSE certificateRows \cup {job.certificate}
    /\ UNCHANGED <<poolRows, authorityRows, revocationRows, refused, unmarked>>
    /\ Executed("remember")

\* persist_pki_revocation_to_database: the certificate is marked, then the
\* revocation inserted, which fails without the certificate's row.
MarkCertificate ==
    /\ at = "mark"
    /\ certificateRows' = Revoked(certificateRows, job.serial)
    /\ unmarked' = unmarked \ {job.serial}
    /\ UNCHANGED <<poolRows, authorityRows, revocationRows, refused>>
    /\ Executed("persist")

PersistRevocation ==
    /\ at = "persist" /\ job.kind = "revoke"
    /\ revocationRows' = IF \E c \in certificateRows : c.serial = job.serial
                         THEN revocationRows \cup {job.serial} ELSE revocationRows
    /\ UNCHANGED <<poolRows, authorityRows, certificateRows, refused, unmarked>>
    /\ Executed("remember")

-----------------------------------------------------------------------------
(***************************************************************************)
(* What is lost.  The handlers look at no result and go on.                *)
(***************************************************************************)
Fail(phase) ==
    /\ faults < MaxFaults
    /\ faults' = faults + 1
    /\ lost' = TRUE
    /\ job' = IF job.kind = "revoke" THEN [job EXCEPT !.whole = FALSE] ELSE job
    /\ at' = phase
    /\ UNCHANGED <<lists, rows, requests, revoked, refused>>

\* The connection is refused or lost, or the request's last statement fails.
Skip ==
    /\ at \in {"persist", "mark"}
    /\ Fail("remember")
    /\ UNCHANGED unmarked

\* The certificate is not marked, the connection stands: the revocation is
\* inserted all the same.
MarkFails ==
    /\ at = "mark" /\ job.kind = "revoke"
    /\ unmarked' = unmarked \cup {job.serial}
    /\ Fail("persist")

-----------------------------------------------------------------------------
(***************************************************************************)
(* The list follows and the request is answered.                           *)
(***************************************************************************)
Answer ==
    /\ at = "remember"
    /\ at' = "idle"
    /\ job' = NoJob
    /\ UNCHANGED <<zones, rows, requests, faults, lost, refused, unmarked>>

\* A name that is in the list already is refused now, with its row replaced.
RememberPool ==
    /\ job.kind \in {"createPool", "updatePool", "deletePool"}
    /\ Answer
    /\ pools' = CASE job.kind = "createPool" ->
                       IF pools[job.name] = None THEN [pools EXCEPT ![job.name] = job.made] ELSE pools
                  [] job.kind = "updatePool" ->
                       [pools EXCEPT ![job.old] = None, ![job.name] = job.made]
                  [] job.kind = "deletePool" -> [pools EXCEPT ![job.name] = None]
    /\ UNCHANGED <<authorities, certificates, revocations, revoked>>

\* Mutant: the list too has the new key.
RememberNewKey ==
    /\ job.kind = "createAuthority"
    /\ Answer
    /\ authorities' = [authorities EXCEPT ![job.name] = job.made]
    /\ UNCHANGED <<pools, certificates, revocations, revoked>>
RememberAuthority ==
    /\ job.kind = "createAuthority"
    /\ Answer
    /\ authorities' = IF authorities[job.name] = None THEN [authorities EXCEPT ![job.name] = job.made]
                      ELSE authorities
    /\ UNCHANGED <<pools, certificates, revocations, revoked>>

RememberCertificate ==
    /\ job.kind = "issue"
    /\ Answer
    /\ certificates' = certificates \cup {job.certificate}
    /\ UNCHANGED <<pools, authorities, revocations, revoked>>

RememberRevocation ==
    /\ job.kind = "revoke"
    /\ Answer
    /\ revocations' = revocations \cup {job.serial}
    /\ revoked' = IF job.whole THEN revoked \cup {job.serial} ELSE revoked
    /\ UNCHANGED <<pools, authorities, certificates>>

\* The API dies wherever it is, and starts with empty lists.
Restart ==
    /\ zones' = {}
    /\ pools' = [n \in Pools |-> None]
    /\ authorities' = [n \in Authorities |-> None]
    /\ certificates' = {} /\ revocations' = {}
    /\ at' = "idle" /\ job' = NoJob
    /\ lost' = FALSE /\ refused' = {}
    /\ UNCHANGED <<rows, requests, faults, revoked, unmarked>>

Next ==
    \/ \E z \in Zones : CreateZone(z) \/ DeleteZone(z) \/ UpsertZone(z)
    \/ \E z, new \in Zones : RenameZone(z, new)
    \/ \E n \in Pools : CreatePool(n) \/ DeletePool(n)
    \/ \E n, new \in Pools : UpdatePool(n, new)
    \/ \E n \in Authorities : CreateAuthority(n) \/ Issue(n)
    \/ \E serial \in Serials : Revoke(serial)
    \/ PersistPool \/ RefusePool \/ ErasePool \/ PersistAuthority \/ PersistCertificate
    \/ MarkCertificate \/ PersistRevocation \/ Skip \/ MarkFails
    \/ RememberPool \/ RememberAuthority \/ RememberCertificate \/ RememberRevocation
    \/ Restart

Spec == Init /\ [][Next]_vars

-----------------------------------------------------------------------------
\* Between requests, a pool or an authority that the API lists has a row, so that the supervisor
\* counts it, unless PostgreSQL did not take the pool as it was sent: through refused
\* requests, renames, deletions of other pools, values that are not taken where
\* the name has a row already, and whatever an earlier life of the API left.
ListedIsCounted ==
    at = "idle" /\ ~lost =>
        /\ \A n \in Pools : pools[n] # None /\ n \notin refused => poolRows[n] # None
        /\ \A n \in Authorities : authorities[n] # None => authorityRows[n] # None

\* A revocation that is stored is also marked in the certificate, wherever the API
\* dies or loses the database on the way: both tables give the same answer to
\* whoever asks whether a certificate is good.  Only the marking itself can have
\* failed, and a later revocation of the certificate makes up for it.
RevocationMarks ==
    \A c \in certificateRows : c.serial \in revocationRows \ unmarked => c.revoked

\* A revocation that was reported stands in the database for good, also of a
\* certificate issued in an earlier life of the API, which it no longer lists.
RevokedForGood ==
    \A c \in certificateRows : c.serial \in revoked => c.revoked /\ c.serial \in revocationRows

\* Whoever asks of a certificate, in either table, gets one answer, and the last.
RevocationsStand == RevocationMarks /\ RevokedForGood

\* The certificates the API lists verify against the authority it lists under
\* their name, also after a second authority of that name was asked for.
ListedVerifies ==
    \A c \in certificates : c.key = authorities[c.authority]

\* docs/adr/0002-state-model.md:3: "The platform stores authoritative state in
\* PostgreSQL".  With no connection lost, what the API works with is what is
\* stored, between two requests.
PostgresIsAuthoritative ==
    at = "idle" /\ ~lost =>
        /\ \A n \in Pools : pools[n] # None => poolRows[n] = pools[n]
        /\ \A n \in Authorities : authorities[n] # None => authorityRows[n] = authorities[n]

=============================================================================
