------------------------------ MODULE Directory ------------------------------
(***************************************************************************)
(* The identity store and its two writers: nexus-api                       *)
(* (apps/api/platform_state.cpp) and the directory daemon                  *)
(* (apps/directory/main.cpp).                                              *)
(*                                                                         *)
(* An object is a row of ad_objects (canon) and a row of identity_objects  *)
(* (identity), with its keys in ad_account_secrets and its names in        *)
(* ad_service_principals.  Each is written by a statement of its own that  *)
(* commits at once; only the LDAP rename is a transaction.  The API keeps  *)
(* all objects in memory from its start on (view), writes through, and     *)
(* ignores what fails; the daemon keeps nothing, reads the database at     *)
(* every request, and first copies into ad_objects the rows that only      *)
(* identity_objects has (the mirror).                                      *)
(*                                                                         *)
(* Each process runs one operation at a time.  at[p] is the statement that *)
(* p executes next and job[p] what the operation is about.  An object is   *)
(* the number of the operation that wrote it and its SID, which ad_objects *)
(* holds at most once; keys are the number of the operation that made      *)
(* them.  Group memberships have tables of their own and are left out.     *)
(***************************************************************************)
EXTENDS Naturals

CONSTANTS
    Dns,        \* distinguished names
    Seeds,      \* those of krbtgt and of the domain controller's account
    Sids,       \* SIDs, each named for the account it was made for
    None,       \* "no row", and no SID
    Unknown,    \* nothing is promised
    Overlap,    \* whether the two writers may be at work at the same time
    MaxOps,     \* bound: operations that write
    MaxFaults   \* bound: crashes and lost connections

ASSUME DirectoryAssumption ==
    /\ Seeds \subseteq Dns /\ Seeds \subseteq Sids /\ None \notin Sids
    /\ None \notin [op : Nat, sid : Sids \cup {None}]
    /\ None \notin Nat /\ Unknown \notin Nat /\ None # Unknown
    /\ Overlap \in BOOLEAN
    /\ MaxOps \in Nat /\ MaxFaults \in Nat

VARIABLES
    canon, identity, secrets,   \* the tables: dn to what its row holds
    spns,       \* the dns with a row in ad_service_principals
    view,       \* the API's directory_
    at, job,    \* per process: its next step and its operation
    todo,       \* the dns the API's start has still to write
    ops,        \* operations that wrote so far
    acked,      \* per dn: what the last operation on it reported as done
    clashed,    \* the dns whose canonical row was refused in the last operation on them
    faults,
    lost        \* the processes that had a connection lost or refused

store == <<canon, identity, secrets, spns>>
history == <<acked, clashed>>
vars == <<canon, identity, secrets, spns, view, at, job, todo, ops, acked, clashed, faults, lost>>

Processes == {"api", "daemon"}

Content == [op : Nat, sid : Sids \cup {None}]
Row == Content \cup {None}
Keys == Nat \cup {None}

ApiKinds == {"start", "create", "update", "rename", "delete"}
DaemonKinds == {"read", "add", "modify", "remove", "modrdn"}

Job == [kind : ApiKinds \cup DaemonKinds, dn : Dns, old : Dns, val : Content, pw : BOOLEAN]
NoJob == [kind |-> "none"]

PutPhases == {"putIdentity", "putCanon", "putSpns"}
DropPhases == {"dropSecret", "dropSpns", "dropCanon", "dropIdentity"}
StartPhases == {"down", "start", "bootstrap"}
Phases == PutPhases \cup DropPhases \cup StartPhases
            \cup {"mirror", "decide", "txn", "move", "putSecret", "finish", "idle"}

TypeOK ==
    /\ canon \in [Dns -> Row]
    /\ identity \in [Dns -> Row]
    /\ secrets \in [Dns -> Keys]
    /\ spns \subseteq Dns
    /\ view \in [Dns -> Row]
    /\ at \in [Processes -> Phases]
    /\ job \in [Processes -> Job \cup {NoJob}]
    /\ todo \subseteq Dns
    /\ ops \in Nat
    /\ acked \in [Dns -> Nat \cup {None, Unknown}]
    /\ clashed \subseteq Dns
    /\ faults \in Nat
    /\ lost \subseteq Processes

Init ==
    /\ canon = [dn \in Dns |-> None]
    /\ identity = [dn \in Dns |-> None]
    /\ secrets = [dn \in Dns |-> None]
    /\ spns = {}
    /\ view = [dn \in Dns |-> None]
    /\ at = [p \in Processes |-> IF p = "api" THEN "down" ELSE "idle"]
    /\ job = [p \in Processes |-> NoJob]
    /\ todo = {}
    /\ ops = 0
    /\ acked = [dn \in Dns |-> None]
    /\ clashed = {}
    /\ faults = 0
    /\ lost = {}

-----------------------------------------------------------------------------
Go(p, phase) == at' = [at EXCEPT ![p] = phase]

\* Without Overlap a process starts work only when the other has none.
Alone(p) == Overlap \/ \A q \in Processes \ {p} : at[q] \in {"idle", "down"}

\* What follows the write of an object, and the deletion of one.
AfterPut(j) ==
    IF j.kind = "rename" THEN IF j.pw THEN "dropSecret" ELSE "move"
    ELSE IF j.pw THEN "putSecret" ELSE "finish"
AfterDrop(j) == IF j.kind = "rename" /\ j.pw THEN "putSecret" ELSE "finish"

\* The dn an operation deletes.
Dropped(j) == IF j.kind = "rename" THEN j.old ELSE j.dn

\* A process takes on an operation that writes, with a number of its own.
Take(p, kind, dn, old, sid, pw) ==
    /\ ops < MaxOps
    /\ ops' = ops + 1
    /\ job' = [job EXCEPT ![p] = [kind |-> kind, dn |-> dn, old |-> old,
                                  val |-> [op |-> ops + 1, sid |-> sid], pw |-> pw]]

\* What an operation touches is open until it reports.
Open(dns) ==
    /\ acked' = [d \in Dns |-> IF d \in dns THEN Unknown ELSE acked[d]]
    /\ clashed' = clashed \ dns

\* What a done operation makes of a map of the directory.
\* Mutant: the name that went is erased from the map.
OutcomeErased(f, j, v) ==
    [dn \in DOMAIN f \ {j.old} |-> IF dn = j.dn /\ j.kind \notin {"delete", "remove"} THEN v ELSE f[dn]]
Outcome(f, j, v) ==
    [dn \in Dns |->
        IF dn = j.dn /\ j.kind \notin {"delete", "remove"} THEN v
        ELSE IF dn \in {j.dn, j.old} THEN None
        ELSE f[dn]]

-----------------------------------------------------------------------------
(***************************************************************************)
(* The statements.                                                         *)
(***************************************************************************)

\* ad_objects.object_sid is unique, and an upsert settles a conflict on dn only.
Clash(table, dn, sid) ==
    sid # None /\ \E other \in Dns \ {dn} : table[other] # None /\ table[other].sid = sid

\* An LDAP add merges into the row that is there: without a SID of its own it
\* keeps that row's.  Everything else replaces the row.
Upserted(row, j) ==
    IF j.kind = "add" /\ j.val.sid = None /\ row # None THEN [j.val EXCEPT !.sid = row.sid] ELSE j.val

PutIdentity(p) ==
    /\ identity' = [identity EXCEPT ![job[p].dn] = Upserted(identity[job[p].dn], job[p])]
    /\ UNCHANGED <<canon, spns, job, clashed>>

PutCanon(p) ==
    /\ canon' = [canon EXCEPT ![job[p].dn] = Upserted(canon[job[p].dn], job[p])]
    /\ UNCHANGED <<identity, spns, job, clashed>>

\* The canonical row is refused: the API logs it and goes on, the daemon ends
\* its request there.
PutRefused(p) ==
    /\ clashed' = clashed \cup {job[p].dn}
    /\ IF p = "api"
         THEN Go(p, "putSpns") /\ UNCHANGED job
         ELSE Go(p, "idle") /\ job' = [job EXCEPT ![p] = NoJob]
    /\ UNCHANGED <<canon, identity, spns>>

CanonClashes(p) == Clash(canon, job[p].dn, Upserted(canon[job[p].dn], job[p]).sid)

PutSpns(p) ==
    /\ at[p] = "putSpns"
    /\ spns' \in {spns \ {job[p].dn}, spns \cup {job[p].dn}}
    /\ Go(p, AfterPut(job[p]))
    /\ UNCHANGED <<canon, identity, job, clashed>>

\* Mutant: the canonical row first.
PutBackwards(p) ==
    \/ at[p] = "putIdentity" /\ ~CanonClashes(p) /\ PutCanon(p) /\ Go(p, "putCanon")
    \/ at[p] = "putIdentity" /\ CanonClashes(p) /\ PutRefused(p)
    \/ at[p] = "putCanon" /\ PutIdentity(p) /\ Go(p, "putSpns")
    \/ PutSpns(p)

\* persist_directory_object_to_connection, persist_ldap_object_to_connection:
\* the projection, the canonical row, then the service principals, if any.
Put(p) ==
    \/ at[p] = "putIdentity" /\ PutIdentity(p) /\ Go(p, "putCanon")
    \/ at[p] = "putCanon" /\ ~CanonClashes(p) /\ PutCanon(p) /\ Go(p, "putSpns")
    \/ at[p] = "putCanon" /\ CanonClashes(p) /\ PutRefused(p)
    \/ PutSpns(p)

Persist(p) ==
    /\ Put(p)
    /\ UNCHANGED <<secrets, view, todo, ops, acked, faults, lost>>

\* Mutants: the rows of the object go before what belongs to them; the
\* projection stays.
DropRowsFirst(p) ==
    LET dn == Dropped(job[p]) IN
    \/ /\ at[p] = "dropSecret"
       /\ canon' = [canon EXCEPT ![dn] = None]
       /\ Go(p, "dropSpns")
       /\ UNCHANGED <<identity, secrets, spns>>
    \/ /\ at[p] = "dropSpns"
       /\ identity' = [identity EXCEPT ![dn] = None]
       /\ Go(p, "dropCanon")
       /\ UNCHANGED <<canon, secrets, spns>>
    \/ /\ at[p] = "dropCanon"
       /\ secrets' = [secrets EXCEPT ![dn] = None]
       /\ spns' = spns \ {dn}
       /\ Go(p, AfterDrop(job[p]))
       /\ UNCHANGED <<canon, identity>>
DropCanonOnly(p) ==
    LET dn == Dropped(job[p]) IN
    \/ /\ at[p] = "dropSecret"
       /\ secrets' = [secrets EXCEPT ![dn] = None]
       /\ Go(p, "dropSpns")
       /\ UNCHANGED <<canon, identity, spns>>
    \/ /\ at[p] = "dropSpns"
       /\ spns' = spns \ {dn}
       /\ Go(p, "dropCanon")
       /\ UNCHANGED <<canon, identity, secrets>>
    \/ /\ at[p] = "dropCanon"
       /\ canon' = [canon EXCEPT ![dn] = None]
       /\ Go(p, AfterDrop(job[p]))
       /\ UNCHANGED <<identity, secrets, spns>>

\* delete_directory_object_from_database, and the LDAP delete: the keys and
\* the names, then the canonical row, then the projection.
Drop(p) ==
    LET dn == Dropped(job[p]) IN
    \/ /\ at[p] = "dropSecret"
       /\ secrets' = [secrets EXCEPT ![dn] = None]
       /\ Go(p, "dropSpns")
       /\ UNCHANGED <<canon, identity, spns>>
    \/ /\ at[p] = "dropSpns"
       /\ spns' = spns \ {dn}
       /\ Go(p, "dropCanon")
       /\ UNCHANGED <<canon, identity, secrets>>
    \/ /\ at[p] = "dropCanon"
       /\ canon' = [canon EXCEPT ![dn] = None]
       /\ Go(p, "dropIdentity")
       /\ UNCHANGED <<identity, secrets, spns>>
    \/ /\ at[p] = "dropIdentity"
       /\ identity' = [identity EXCEPT ![dn] = None]
       /\ Go(p, AfterDrop(job[p]))
       /\ UNCHANGED <<canon, secrets, spns>>

Delete(p) ==
    /\ Drop(p)
    /\ UNCHANGED <<view, job, todo, ops, history, faults, lost>>

\* persist_ad_account_secret: the keys; then pwdLastSet, if the rows exist.
PutSecret(p) ==
    /\ at[p] = "putSecret"
    /\ secrets' = [secrets EXCEPT ![job[p].dn] = job[p].val.op]
    /\ Go(p, "finish")
    /\ UNCHANGED <<canon, identity, spns, view, job, todo, ops, history, faults, lost>>

\* move_ad_account_secret_dn: an update of the primary key, which fails, and
\* is only logged, when the new dn has keys already.
MoveSecret ==
    LET j == job["api"] IN
    /\ at["api"] = "move"
    /\ secrets' = IF secrets[j.old] # None /\ secrets[j.dn] = None
                    THEN [secrets EXCEPT ![j.dn] = secrets[j.old], ![j.old] = None]
                    ELSE secrets
    /\ Go("api", "dropSecret")
    /\ UNCHANGED <<canon, identity, spns, view, job, todo, ops, history, faults, lost>>

-----------------------------------------------------------------------------
(***************************************************************************)
(* nexus-api: its start, and the handlers of /api/v1/directory/objects.    *)
(***************************************************************************)

\* load_directory_objects_from_database and append_missing_ad_seed_objects.
Loaded == IF \A dn \in Dns : canon[dn] = None THEN identity ELSE canon

StartFrom(rows) ==
    /\ at["api"] = "down" /\ Alone("api")
    /\ view' = [dn \in Dns |-> IF rows[dn] = None /\ dn \in Seeds THEN [op |-> 0, sid |-> dn] ELSE rows[dn]]
    /\ acked' = [dn \in Dns |-> IF view'[dn] \notin {None, canon[dn]} THEN Unknown ELSE acked[dn]]
    /\ todo' = {dn \in Dns : view'[dn] # None}
    /\ Go("api", "start")
    /\ UNCHANGED <<store, job, ops, clashed>>

ApiStart == StartFrom(Loaded) /\ UNCHANGED <<faults, lost>>

\* The connection is refused: the API starts from the seeds alone.
ApiStartsBlind ==
    /\ faults < MaxFaults
    /\ StartFrom([dn \in Dns |-> None])
    /\ faults' = faults + 1
    /\ lost' = lost \cup {"api"}

\* initialize_runtime_state writes every object back.
\* Mutant: only those the database did not have.
RewriteMissing(dn) ==
    /\ at["api"] = "start"
    /\ dn \in todo
    /\ todo' = todo \ {dn}
    /\ IF canon[dn] = None
         THEN /\ job' = [job EXCEPT !["api"] = [kind |-> "start", dn |-> dn, old |-> dn, val |-> view[dn], pw |-> FALSE]]
              /\ Go("api", "putIdentity")
         ELSE UNCHANGED <<at, job>>
    /\ UNCHANGED <<store, view, ops, history, faults, lost>>
Rewrite(dn) ==
    /\ at["api"] = "start"
    /\ dn \in todo
    /\ todo' = todo \ {dn}
    /\ job' = [job EXCEPT !["api"] = [kind |-> "start", dn |-> dn, old |-> dn, val |-> view[dn], pw |-> FALSE]]
    /\ Go("api", "putIdentity")
    /\ UNCHANGED <<store, view, ops, history, faults, lost>>

Rewritten ==
    /\ at["api"] = "start"
    /\ todo = {}
    /\ todo' = Seeds
    /\ Go("api", "bootstrap")
    /\ UNCHANGED <<store, view, job, ops, history, faults, lost>>

\* ensure_system_ad_secret: a random password for an account without keys.
\* Mutant: for every system account.
BootstrapAll(dn) ==
    /\ at["api"] = "bootstrap"
    /\ dn \in todo
    /\ todo' = todo \ {dn}
    /\ secrets' = [secrets EXCEPT ![dn] = ops]
    /\ UNCHANGED <<canon, identity, spns, view, at, job, ops, history, faults, lost>>
Bootstrap(dn) ==
    /\ at["api"] = "bootstrap"
    /\ dn \in todo
    /\ todo' = todo \ {dn}
    /\ secrets' = IF secrets[dn] = None THEN [secrets EXCEPT ![dn] = ops] ELSE secrets
    /\ UNCHANGED <<canon, identity, spns, view, at, job, ops, history, faults, lost>>

Serve ==
    /\ at["api"] = "bootstrap"
    /\ todo = {}
    /\ Go("api", "idle")
    /\ UNCHANGED <<store, view, job, todo, ops, history, faults, lost>>

\* The handlers look a dn up in memory only.
CreateObject(dn, sid, pw) ==
    /\ at["api"] = "idle" /\ Alone("api")
    /\ view[dn] = None
    /\ Take("api", "create", dn, dn, sid, pw)
    /\ Open({dn})
    /\ Go("api", "putIdentity")
    /\ UNCHANGED <<store, view, todo, faults, lost>>

UpdateObject(old, dn, sid, pw) ==
    /\ at["api"] = "idle" /\ Alone("api")
    /\ view[old] # None
    /\ old # dn => view[dn] = None
    /\ Take("api", IF old = dn THEN "update" ELSE "rename", dn, old, sid, pw)
    /\ Open({old, dn})
    /\ Go("api", "putIdentity")
    /\ UNCHANGED <<store, view, todo, faults, lost>>

DeleteObject(dn) ==
    /\ at["api"] = "idle" /\ Alone("api")
    /\ view[dn] # None
    /\ Take("api", "delete", dn, dn, None, FALSE)
    /\ Open({dn})
    /\ Go("api", "dropSecret")
    /\ UNCHANGED <<store, view, todo, faults, lost>>

\* The statements are done: memory follows and the handler reports success.
ApiFinish ==
    LET j == job["api"] IN
    /\ at["api"] = "finish"
    /\ job' = [job EXCEPT !["api"] = NoJob]
    /\ IF j.kind = "start"
         THEN Go("api", "start") /\ UNCHANGED <<view, acked>>
         ELSE Go("api", "idle") /\ view' = Outcome(view, j, j.val) /\ acked' = Outcome(acked, j, j.val.op)
    /\ UNCHANGED <<store, todo, ops, clashed, faults, lost>>

-----------------------------------------------------------------------------
(***************************************************************************)
(* The directory daemon.                                                   *)
(***************************************************************************)

\* A search, a bind or a ticket: it starts with the mirror, like every request.
Read(dn) ==
    /\ at["daemon"] = "idle" /\ Alone("daemon")
    /\ job' = [job EXCEPT !["daemon"] = [kind |-> "read", dn |-> dn, old |-> dn,
                                      val |-> [op |-> 0, sid |-> None], pw |-> FALSE]]
    /\ Go("daemon", "mirror")
    /\ UNCHANGED <<store, view, todo, ops, history, faults, lost>>

\* A request that writes: over LDAP, kpasswd, Netlogon or SAMR.
Write(kind, dn, old, sid, pw) ==
    /\ at["daemon"] = "idle" /\ Alone("daemon")
    /\ Take("daemon", kind, dn, old, sid, pw)
    /\ Go("daemon", "mirror")
    /\ UNCHANGED <<store, view, todo, history, faults, lost>>

\* mirror_identity_objects_into_ad_objects: one statement, so one row whose SID
\* is taken keeps them all out, and the request goes on.
Mirrored == [dn \in Dns |-> IF canon[dn] = None THEN identity[dn] ELSE canon[dn]]

Mirror ==
    /\ at["daemon"] = "mirror"
    /\ canon' = IF \E dn \in Dns : Mirrored[dn] # None /\ Clash(Mirrored, dn, Mirrored[dn].sid)
                  THEN canon ELSE Mirrored
    /\ Go("daemon", "decide")
    /\ UNCHANGED <<identity, secrets, spns, view, job, todo, ops, history, faults, lost>>

\* The object is looked up: a modification, a password change and a rename
\* need it, a rename needs its target free and keeps the SID; an add and a
\* delete do not look.
Refused(j) ==
    \/ j.kind \in {"modify", "modrdn"} /\ canon[j.old] = None
    \/ j.kind = "modrdn" /\ j.dn # j.old /\ canon[j.dn] # None

FirstStatement(j) ==
    IF j.kind = "remove" THEN "dropSecret" ELSE IF j.kind = "modrdn" THEN "txn" ELSE "putIdentity"

Decide ==
    LET j == job["daemon"] IN
    /\ at["daemon"] = "decide"
    /\ IF j.kind = "read" \/ Refused(j)
         THEN /\ Go("daemon", "idle")
              /\ job' = [job EXCEPT !["daemon"] = NoJob]
              /\ UNCHANGED history
         ELSE /\ Go("daemon", FirstStatement(j))
              /\ Open({j.dn, j.old})
              /\ job' = IF j.kind = "modrdn"
                          THEN [job EXCEPT !["daemon"] = [j EXCEPT !.val = [op |-> @.op, sid |-> canon[j.old].sid]]]
                          ELSE job
    /\ UNCHANGED <<store, view, todo, ops, faults, lost>>

\* The LDAP rename is one transaction; keys left behind at the new dn, or a SID
\* that a third object has, make it fail as a whole.
RenameTransaction ==
    LET j == job["daemon"]
        Moved(f, v) == [f EXCEPT ![j.old] = None, ![j.dn] = v]
    IN
    /\ at["daemon"] = "txn"
    /\ IF \/ j.dn # j.old /\ secrets[j.old] # None /\ secrets[j.dn] # None
          \/ Clash([canon EXCEPT ![j.old] = None], j.dn, j.val.sid)
         THEN /\ Go("daemon", "idle")
              /\ job' = [job EXCEPT !["daemon"] = NoJob]
              /\ UNCHANGED store
         ELSE /\ canon' = Moved(canon, j.val)
              /\ identity' = Moved(identity, j.val)
              /\ secrets' = IF secrets[j.old] # None THEN Moved(secrets, secrets[j.old]) ELSE secrets
              /\ spns' \in {spns \ {j.old, j.dn}, (spns \ {j.old}) \cup {j.dn}}
              /\ Go("daemon", "finish")
              /\ UNCHANGED job
    /\ UNCHANGED <<view, todo, ops, history, faults, lost>>

DaemonFinish ==
    LET j == job["daemon"] IN
    /\ at["daemon"] = "finish"
    /\ acked' = Outcome(acked, j, j.val.op)
    /\ UNCHANGED clashed
    /\ job' = [job EXCEPT !["daemon"] = NoJob]
    /\ Go("daemon", "idle")
    /\ UNCHANGED <<store, view, todo, ops, faults, lost>>

-----------------------------------------------------------------------------
(***************************************************************************)
(* Faults.                                                                 *)
(***************************************************************************)

\* A process dies between two statements.  The daemon serves again at once;
\* the API has its start to do.
Crash(p) ==
    /\ faults < MaxFaults
    /\ at[p] # "down"
    /\ faults' = faults + 1
    /\ Go(p, IF p = "api" THEN "down" ELSE "idle")
    /\ job' = [job EXCEPT ![p] = NoJob]
    /\ todo' = IF p = "api" THEN {} ELSE todo
    /\ view' = IF p = "api" THEN [dn \in Dns |-> None] ELSE view
    /\ UNCHANGED <<store, ops, history, lost>>

\* The API's connection for one group of statements is refused, or is lost
\* on the way: the rest of that group is skipped and the handler goes on.
ApiSkips ==
    LET j == job["api"] IN
    /\ faults < MaxFaults
    /\ at["api"] \in PutPhases \cup DropPhases \cup {"move", "putSecret", "bootstrap"}
    /\ Go("api", CASE at["api"] \in PutPhases -> AfterPut(j)
                   [] at["api"] \in DropPhases -> AfterDrop(j)
                   [] at["api"] = "move" -> "dropSecret"
                   [] at["api"] = "putSecret" -> "finish"
                   [] at["api"] = "bootstrap" -> "idle")
    /\ todo' = IF at["api"] = "bootstrap" THEN {} ELSE todo
    /\ faults' = faults + 1
    /\ lost' = lost \cup {"api"}
    /\ UNCHANGED <<store, view, job, ops, history>>

\* The daemon's: the request ends there.
DaemonStops ==
    /\ faults < MaxFaults
    /\ at["daemon"] \notin {"idle", "finish"}
    /\ Go("daemon", "idle")
    /\ job' = [job EXCEPT !["daemon"] = NoJob]
    /\ faults' = faults + 1
    /\ lost' = lost \cup {"daemon"}
    /\ UNCHANGED <<store, view, todo, ops, history>>

-----------------------------------------------------------------------------
Api ==
    \/ ApiStart \/ Rewritten \/ Serve \/ MoveSecret \/ ApiFinish
    \/ \E dn \in Dns : Rewrite(dn) \/ Bootstrap(dn) \/ DeleteObject(dn)
    \/ \E dn \in Dns, sid \in Sids \cup {None}, pw \in BOOLEAN : CreateObject(dn, sid, pw)
    \/ \E old, dn \in Dns, sid \in Sids \cup {None}, pw \in BOOLEAN : UpdateObject(old, dn, sid, pw)

Daemon ==
    \/ Mirror \/ Decide \/ RenameTransaction \/ DaemonFinish
    \/ \E dn \in Dns : Read(dn) \/ Write("remove", dn, dn, None, FALSE)
    \/ \E dn \in Dns, kind \in {"add", "modify"}, sid \in Sids \cup {None}, pw \in BOOLEAN :
         Write(kind, dn, dn, sid, pw)
    \/ \E old, dn \in Dns : Write("modrdn", dn, old, None, FALSE)

Fault == ApiStartsBlind \/ ApiSkips \/ DaemonStops \/ \E p \in Processes : Crash(p)

Next == Api \/ Daemon \/ Fault \/ \E p \in Processes : Persist(p) \/ Delete(p) \/ PutSecret(p)

Spec == Init /\ [][Next]_vars

-----------------------------------------------------------------------------
(***************************************************************************)
(* Who is at work on what.                                                 *)
(***************************************************************************)
Working == PutPhases \cup DropPhases \cup {"mirror", "decide", "txn", "move", "putSecret", "finish"}

\* A start of the API, from what it loads to the keys of the seeds.
Starting == at["api"] = "start" \/ job["api"].kind = "start"

\* The names of the operation in hand; a start of the API is on all names, a
\* request that only reads on none.
Touched(p) ==
    {dn \in Dns :
        \/ p = "api" /\ (Starting \/ at["api"] = "bootstrap")
        \/ at[p] \in Working /\ job[p].kind # "read" /\ dn \in {job[p].dn, job[p].old}}

\* The writers are on different names, and the daemon's mirror, which is on all
\* names, waits while the API has deleted a canonical row and not yet its
\* projection, and while it starts.
Apart ==
    /\ Touched("api") \cap Touched("daemon") = {}
    /\ ~(at["daemon"] = "mirror" /\ (at["api"] = "dropIdentity" \/ Starting))

-----------------------------------------------------------------------------
\* "API and directory protocols persist AD objects into canonical ad_objects
\* and maintain identity_objects as the compatibility projection": every
\* canonical object has a row in the projection, at every statement, after
\* every crash and every lost connection.
CanonProjected ==
    \A dn \in Dns : canon[dn] # None => identity[dn] # None

\* Keys and service principal names belong to an object the directory has, so
\* none is left for whoever takes the name next.  It needs the API not to lose
\* a connection: it stores a password after failing to store the object.
NothingDangles ==
    "api" \notin lost =>
        \A dn \in Dns : secrets[dn] # None \/ dn \in spns => identity[dn] # None

\* What was reported as done stays done: through the other process's writes,
\* the mirror, crashes in other operations, and the API writing everything
\* back when it starts.  With a connection lost, both writers report what they
\* did not do, and so does the API when the canonical row is refused.
HasOp(row, n) == row # None /\ row.op = n

AckedStored ==
    lost = {} =>
        \A dn \in Dns :
            /\ acked[dn] \in Nat /\ dn \notin clashed =>
                 HasOp(canon[dn], acked[dn]) /\ HasOp(identity[dn], acked[dn])
            /\ acked[dn] = None => canon[dn] = None /\ identity[dn] = None /\ secrets[dn] = None

\* "API and directory protocols persist AD objects into canonical ad_objects":
\* what was reported stored has a canonical row, when no connection was lost
\* and no two objects of the directory were given one SID.
ReportedIsCanonical ==
    lost = {} /\ (\A dn \in Dns : view[dn] # None => ~Clash(view, dn, view[dn].sid)) =>
        \A dn \in Dns : acked[dn] \in Nat => canon[dn] # None

\* When the API serves, what a crash left half written is settled in favour of
\* the canonical row.
RestartReconciles ==
    [][at["api"] = "bootstrap" /\ at'["api"] = "idle" /\ "api" \notin lost =>
         \A dn \in Dns : canon[dn] # None => identity[dn] = canon[dn]]_vars

\* A start of the API changes no key that exists: the tickets and the machine
\* passwords they protect stay good.
StartKeepsKeys ==
    [][at["daemon"] = "idle" /\ (at["api"] \in StartPhases \/ job["api"].kind = "start") =>
         \A dn \in Dns : secrets[dn] # None => secrets'[dn] = secrets[dn]]_vars

=============================================================================
