---------------------------- MODULE DirectoryProofs ----------------------------
(***************************************************************************)
(* What Directory keeps when its two writers are at work at once but not   *)
(* on the same names (Apart), for any names, operations and faults: the    *)
(* projection covers the canonical table, no keys or names dangle, what    *)
(* was reported is stored, and a start of the API settles what was cut.    *)
(* Writers that take turns (~Overlap) are one way to be apart.             *)
(*                                                                         *)
(* What carries it is what each writer at work has done so far, which      *)
(* nobody undoes while it works: PutSound and DropSound say it of its      *)
(* statements, HeldSound of an operation that goes on after them, and      *)
(* SeedsSound of a start of the API, before it makes keys for the seeds.   *)
(***************************************************************************)
EXTENDS Directory, TLAPS

\* Whose operation is which, and where it may be.
JobSound ==
    \A p \in Processes :
        /\ at[p] \in Working <=> job[p] # NoJob
        /\ job[p].kind = "rename" => job[p].dn # job[p].old
        /\ job[p].kind = "start" => p = "api" /\ ~job[p].pw /\ at[p] \in PutPhases \cup {"finish"}
        /\ at[p] = "move" => job[p].kind = "rename"

\* What the API's start has still to write is in its list; only seeds are given keys.
TodoSound ==
    /\ at["api"] = "start" \/ job["api"].kind = "start" => \A dn \in todo : view[dn] # None
    /\ at["api"] = "bootstrap" => todo \subseteq Seeds

\* Which operations have which statements.
PhaseSound ==
    \A p \in Processes :
        /\ at[p] \in PutPhases \cup {"putSecret"} =>
             job[p].kind \in {"start", "create", "update", "rename", "add", "modify"}
        /\ at[p] \in DropPhases => job[p].kind \in {"delete", "rename", "remove"}
        /\ at[p] = "txn" => job[p].kind = "modrdn"
        /\ at[p] \in {"mirror", "decide"} => job[p].kind \in DaemonKinds
        /\ at[p] = "finish" => job[p].kind # "read"
        /\ at[p] \in Working /\ job[p].kind \notin {"rename", "modrdn"} => job[p].old = job[p].dn

Orderly == TypeOK /\ JobSound /\ TodoSound /\ PhaseSound

\* An object's statements, one after the other.
PutSound ==
    \A p \in Processes :
        /\ at[p] \in {"putCanon", "putSpns"} => identity[job[p].dn] # None
        /\ at[p] = "dropIdentity" => canon[Dropped(job[p])] = None

DropSound ==
    \A p \in Processes :
        /\ at[p] \in {"dropSpns", "dropCanon", "dropIdentity"} => secrets[Dropped(job[p])] = None
        /\ at[p] \in {"dropCanon", "dropIdentity"} => Dropped(job[p]) \notin spns

\* An operation that is past its object, unless that was skipped.
HeldSound ==
    "api" \notin lost =>
        \A p \in Processes :
            at[p] \in {"putSecret", "move"} \/ (at[p] \in DropPhases /\ job[p].kind = "rename") =>
                identity[job[p].dn] # None

\* The seeds, before they are given keys.
SeedsSound ==
    "api" \notin lost =>
        /\ Starting =>
             \A dn \in Seeds :
                \/ dn \in todo \/ identity[dn] # None
                \/ at["api"] = "putIdentity" /\ job["api"].dn = dn
        /\ at["api"] = "bootstrap" => \A dn \in Seeds : identity[dn] # None

IInv ==
    /\ Orderly
    /\ PutSound
    /\ DropSound
    /\ HeldSound
    /\ SeedsSound
    /\ CanonProjected
    /\ NothingDangles

-----------------------------------------------------------------------------
\* The initial states satisfy the invariant.
LEMMA InitIInv == Init => IInv
<1> SUFFICES ASSUME Init PROVE IInv
    OBVIOUS
<1> USE DirectoryAssumption DEF Init
<1>1. at["api"] = "down" /\ at["daemon"] = "idle" /\ \A p \in Processes : job[p] = NoJob
    BY DEF Processes
<1>2. TypeOK
    BY DEF TypeOK, Row, Keys, Phases, StartPhases, Processes
<1>3. NoJob.kind = "none"
    BY DEF NoJob
<1>4. JobSound /\ TodoSound /\ PhaseSound
    BY <1>1, <1>3 DEF JobSound, TodoSound, PhaseSound, Working, PutPhases, DropPhases, Processes
<1>5. PutSound /\ DropSound /\ HeldSound /\ SeedsSound
    BY <1>1, <1>3 DEF PutSound, DropSound, HeldSound, SeedsSound, Starting, Processes, DropPhases
<1>6. CanonProjected /\ NothingDangles
    BY DEF CanonProjected, NothingDangles
<1>7. QED
    BY <1>2, <1>4, <1>5, <1>6 DEF IInv, Orderly

\* An operation in hand has the fields of a job.
LEMMA JobFields ==
    ASSUME TypeOK, JobSound, NEW p \in Processes, at[p] \in Working
    PROVE  /\ job[p] \in Job
           /\ job[p].kind \in ApiKinds \cup DaemonKinds
           /\ job[p].dn \in Dns /\ job[p].old \in Dns /\ Dropped(job[p]) \in Dns
           /\ job[p].val \in Content /\ job[p].val \in Row /\ job[p].val.op \in Nat /\ job[p].pw \in BOOLEAN
<1>1. job[p] \in Job
    BY DEF TypeOK, JobSound
<1>2. QED
    BY <1>1 DEF Job, Dropped, Content, Row

\* No job is of kind none.
LEMMA NoJobKind == NoJob.kind = "none" /\ NoJob \notin Job
BY DEF NoJob, Job, ApiKinds, DaemonKinds

\* A writer at rest has no operation.
LEMMA RestsJob ==
    ASSUME JobSound, NEW p \in Processes, at[p] \notin Working
    PROVE  job[p] = NoJob /\ job[p].kind = "none"
BY NoJobKind DEF JobSound

-----------------------------------------------------------------------------
(***************************************************************************)
(* The steps, grouped by whose they are.                                   *)
(***************************************************************************)
ApiBegins ==
    \/ \E dn \in Dns : DeleteObject(dn)
    \/ \E dn \in Dns, sid \in Sids \cup {None}, pw \in BOOLEAN : CreateObject(dn, sid, pw)
    \/ \E old, dn \in Dns, sid \in Sids \cup {None}, pw \in BOOLEAN : UpdateObject(old, dn, sid, pw)

DaemonBegins ==
    \/ \E dn \in Dns : Read(dn) \/ Write("remove", dn, dn, None, FALSE)
    \/ \E dn \in Dns, kind \in {"add", "modify"}, sid \in Sids \cup {None}, pw \in BOOLEAN :
         Write(kind, dn, dn, sid, pw)
    \/ \E old, dn \in Dns : Write("modrdn", dn, old, None, FALSE)

\* A step of the specification, in these groups.
LEMMA NextCases ==
    ASSUME [Next]_vars
    PROVE  \/ ApiStart \/ ApiStartsBlind \/ (\E dn \in Dns : Rewrite(dn)) \/ Rewritten
           \/ (\E dn \in Dns : Bootstrap(dn)) \/ Serve \/ ApiBegins \/ MoveSecret \/ ApiFinish
           \/ DaemonBegins \/ Mirror \/ Decide \/ RenameTransaction \/ DaemonFinish
           \/ (\E p \in Processes : Persist(p) \/ Delete(p) \/ PutSecret(p) \/ Crash(p))
           \/ ApiSkips \/ DaemonStops \/ UNCHANGED vars
BY DEF Next, Api, Daemon, Fault, ApiBegins, DaemonBegins

\* The number of an operation makes it a job.
LEMMA TakesJob ==
    ASSUME TypeOK, NEW kind \in ApiKinds \cup DaemonKinds, NEW dn \in Dns, NEW old \in Dns,
           NEW sid \in Sids \cup {None}, NEW pw \in BOOLEAN
    PROVE  /\ [kind |-> kind, dn |-> dn, old |-> old,
               val |-> [op |-> ops + 1, sid |-> sid], pw |-> pw] \in Job
           /\ ops + 1 \in Nat
BY DEF TypeOK, Job, Content

\* What is known of a request that one of the writers begins.
Fresh(p, j) ==
    /\ at[p] = "idle" /\ Alone(p)
    /\ job' = [job EXCEPT ![p] = j]
    /\ \E phase \in {"putIdentity", "dropSecret", "mirror"} :
         /\ Go(p, phase)
         /\ phase = "mirror" <=> p = "daemon"
         /\ phase = "dropSecret" => j.kind = "delete"
         /\ phase = "putIdentity" => j.kind \in {"create", "update", "rename"}
         /\ IF phase = "mirror" THEN j.kind \in DaemonKinds /\ UNCHANGED history
            ELSE Open({j.old, j.dn})
    /\ j.kind # "start"
    /\ j.kind = "rename" => j.dn # j.old
    /\ j.kind \notin {"rename", "modrdn"} => j.old = j.dn
    /\ ops' \in Nat /\ acked' \in [Dns -> Nat \cup {None, Unknown}] /\ clashed' \subseteq clashed
    /\ UNCHANGED <<store, view, todo, faults, lost>>

\* What begins is a job of the writer that rested.
LEMMA BeginsJob ==
    ASSUME TypeOK, ApiBegins \/ DaemonBegins
    PROVE  \E p \in Processes, j \in Job : Fresh(p, j)
<1> USE TakesJob DEF Fresh, ApiKinds, DaemonKinds, Take, Open, history
<1>1. ops \in Nat /\ acked \in [Dns -> Nat \cup {None, Unknown}]
    BY DEF TypeOK
<1>2. "api" \in Processes /\ "daemon" \in Processes /\ None \in Sids \cup {None}
    BY DEF Processes
<1>3. ASSUME NEW dn \in Dns, DeleteObject(dn) PROVE \E p \in Processes, j \in Job : Fresh(p, j)
    <2>1. [kind |-> "delete", dn |-> dn, old |-> dn, val |-> [op |-> ops + 1, sid |-> None],
           pw |-> FALSE] \in Job
        BY <1>2
    <2>2. QED
        BY <1>1, <1>2, <1>3, <2>1 DEF DeleteObject
<1>4. ASSUME NEW dn \in Dns, NEW sid \in Sids \cup {None}, NEW pw \in BOOLEAN,
             CreateObject(dn, sid, pw)
      PROVE  \E p \in Processes, j \in Job : Fresh(p, j)
    <2>1. [kind |-> "create", dn |-> dn, old |-> dn, val |-> [op |-> ops + 1, sid |-> sid],
           pw |-> pw] \in Job
        OBVIOUS
    <2>2. QED
        BY <1>1, <1>2, <1>4, <2>1 DEF CreateObject
<1>5. ASSUME NEW old \in Dns, NEW dn \in Dns, NEW sid \in Sids \cup {None},
             NEW pw \in BOOLEAN, UpdateObject(old, dn, sid, pw)
      PROVE  \E p \in Processes, j \in Job : Fresh(p, j)
    <2>1. CASE old = dn
        <3>1. [kind |-> "update", dn |-> dn, old |-> old, val |-> [op |-> ops + 1, sid |-> sid],
               pw |-> pw] \in Job
            OBVIOUS
        <3>2. QED
            BY <1>1, <1>2, <1>5, <2>1, <3>1 DEF UpdateObject
    <2>2. CASE old # dn
        <3>1. [kind |-> "rename", dn |-> dn, old |-> old, val |-> [op |-> ops + 1, sid |-> sid],
               pw |-> pw] \in Job
            OBVIOUS
        <3>2. QED
            BY <1>1, <1>2, <1>5, <2>2, <3>1 DEF UpdateObject
    <2>3. QED
        BY <2>1, <2>2
<1>6. ASSUME NEW dn \in Dns, Read(dn) PROVE \E p \in Processes, j \in Job : Fresh(p, j)
    <2>1. [kind |-> "read", dn |-> dn, old |-> dn, val |-> [op |-> 0, sid |-> None], pw |-> FALSE]
            \in Job
        BY DEF Job, Content
    <2>2. QED
        BY <1>1, <1>2, <1>6, <2>1 DEF Read
<1>7. ASSUME NEW kind \in {"remove", "add", "modify", "modrdn"}, NEW dn \in Dns, NEW old \in Dns,
             NEW sid \in Sids \cup {None}, NEW pw \in BOOLEAN, kind # "modrdn" => old = dn,
             Write(kind, dn, old, sid, pw)
      PROVE  \E p \in Processes, j \in Job : Fresh(p, j)
    <2>1. [kind |-> kind, dn |-> dn, old |-> old, val |-> [op |-> ops + 1, sid |-> sid],
           pw |-> pw] \in Job
        OBVIOUS
    <2>2. QED
        BY <1>1, <1>2, <1>7, <2>1 DEF Write
<1>8. QED
    BY <1>2, <1>3, <1>4, <1>5, <1>6, <1>7 DEF ApiBegins, DaemonBegins

\* The row that a statement of an operation leaves: the operation's, with the
\* SID that was there when an add brings none.
Written(p, row) ==
    /\ row \in Content /\ row.op = job[p].val.op
    /\ job[p].kind # "add" => row = job[p].val

\* A statement that stores an object, or that the API is refused and ignores.
Stores(p) ==
    /\ \/ /\ at[p] = "putIdentity" /\ Go(p, "putCanon")
          /\ \E row \in Content : Written(p, row) /\ identity' = [identity EXCEPT ![job[p].dn] = row]
          /\ UNCHANGED <<canon, spns, clashed>>
       \/ /\ at[p] = "putCanon" /\ Go(p, "putSpns")
          /\ \E row \in Content : Written(p, row) /\ canon' = [canon EXCEPT ![job[p].dn] = row]
          /\ ~CanonClashes(p)
          /\ UNCHANGED <<identity, spns, clashed>>
       \/ /\ at[p] = "putCanon" /\ Go(p, "putSpns")
          /\ p = "api" /\ CanonClashes(p) /\ clashed' = clashed \cup {job[p].dn}
          /\ UNCHANGED <<canon, identity, spns>>
       \/ /\ PutSpns(p)
    /\ UNCHANGED <<secrets, view, job, todo, ops, acked, faults, lost>>

\* The daemon's canonical row is refused and its request ends.
GivesUp ==
    /\ at["daemon"] = "putCanon" /\ Go("daemon", "idle")
    /\ job' = [job EXCEPT !["daemon"] = NoJob]
    /\ clashed' = clashed \cup {job["daemon"].dn}
    /\ UNCHANGED <<store, view, todo, ops, acked, faults, lost>>

LEMMA Persists ==
    ASSUME TypeOK, JobSound, NEW p \in Processes, Persist(p)
    PROVE  /\ at[p] \in PutPhases /\ job[p] \in Job /\ job[p].dn \in Dns /\ job[p].val \in Content
           /\ Stores(p) \/ (p = "daemon" /\ GivesUp)
<1>1. at[p] \in PutPhases /\ UNCHANGED <<secrets, view, todo, ops, acked, faults, lost>>
    BY DEF Persist, Put, PutPhases, PutSpns
<1>2. /\ job[p] \in Job /\ job[p].dn \in Dns /\ job[p].val \in Content
      /\ canon[job[p].dn] \in Row /\ identity[job[p].dn] \in Row
    BY <1>1, JobFields DEF Working, TypeOK
<1>3. ASSUME NEW row \in Row
      PROVE  Upserted(row, job[p]) \in Content /\ Written(p, Upserted(row, job[p]))
    BY <1>2 DEF Upserted, Written, Content, Row
<1>4. Stores(p) \/ (p = "daemon" /\ GivesUp)
    <2>1. CASE at[p] = "putIdentity" /\ PutIdentity(p) /\ Go(p, "putCanon")
        BY <1>1, <1>2, <1>3, <2>1 DEF PutIdentity, Stores
    <2>2. CASE at[p] = "putCanon" /\ ~CanonClashes(p) /\ PutCanon(p) /\ Go(p, "putSpns")
        BY <1>1, <1>2, <1>3, <2>2 DEF PutCanon, Stores
    <2>3. CASE at[p] = "putCanon" /\ CanonClashes(p) /\ PutRefused(p)
        BY <1>1, <2>3 DEF PutRefused, Stores, GivesUp, store, Processes
    <2>4. CASE PutSpns(p)
        BY <1>1, <2>4 DEF PutSpns, Stores
    <2>5. QED
        BY <2>1, <2>2, <2>3, <2>4 DEF Persist, Put
<1>5. QED
    BY <1>1, <1>2, <1>4

\* Once decided, a rename knows the SID it keeps.
LEMMA Decides ==
    ASSUME TypeOK, JobSound, Decide
    PROVE  \/ /\ at' = [at EXCEPT !["daemon"] = "idle"]
              /\ job' = [job EXCEPT !["daemon"] = NoJob]
              /\ UNCHANGED history
           \/ /\ at' = [at EXCEPT !["daemon"] = FirstStatement(job["daemon"])]
              /\ job["daemon"].kind # "read"
              /\ ~Refused(job["daemon"])
              /\ Open({job["daemon"].dn, job["daemon"].old})
              /\ \E row \in Content :
                    /\ job' = [job EXCEPT !["daemon"] =
                                 [kind |-> job["daemon"].kind, dn |-> job["daemon"].dn,
                                  old |-> job["daemon"].old, val |-> row, pw |-> job["daemon"].pw]]
                    /\ row.op = job["daemon"].val.op
<1> DEFINE j == job["daemon"]
<1>1. j \in Job /\ j.val \in Content /\ j.old \in Dns
    BY JobFields DEF Decide, Working, Processes
<1>2. j = [kind |-> j.kind, dn |-> j.dn, old |-> j.old, val |-> j.val, pw |-> j.pw]
    BY <1>1 DEF Job
<1>3. ASSUME ~Refused(j), j.kind = "modrdn"
      PROVE  [op |-> j.val.op, sid |-> canon[j.old].sid] \in Content
    BY <1>1, <1>3 DEF Refused, TypeOK, Row, Content
<1>4. ASSUME NEW row
      PROVE  [j EXCEPT !.val = row]
               = [kind |-> j.kind, dn |-> j.dn, old |-> j.old, val |-> row, pw |-> j.pw]
    BY <1>1 DEF Job
<1>5. job = [job EXCEPT !["daemon"] = j]
    BY DEF TypeOK, Processes
<1>6. CASE j.kind = "read" \/ Refused(j)
    BY <1>6 DEF Decide, Go
<1>7. CASE ~(j.kind = "read" \/ Refused(j))
    <2>1. CASE j.kind = "modrdn"
        BY <1>1, <1>3, <1>4, <1>7, <2>1 DEF Decide, Go
    <2>2. CASE j.kind # "modrdn"
        BY <1>1, <1>2, <1>5, <1>7, <2>2 DEF Decide, Go
    <2>3. QED
        BY <2>1, <2>2
<1>8. QED
    BY <1>6, <1>7

\* A request that writes goes on to its first statement.
LEMMA DecidesOn ==
    ASSUME TypeOK, JobSound, Decide, ~(job["daemon"].kind = "read" \/ Refused(job["daemon"]))
    PROVE  /\ at' = [at EXCEPT !["daemon"] = FirstStatement(job["daemon"])]
           /\ Open({job["daemon"].dn, job["daemon"].old})
           /\ \E row \in Content :
                job' = [job EXCEPT !["daemon"] =
                         [kind |-> job["daemon"].kind, dn |-> job["daemon"].dn,
                          old |-> job["daemon"].old, val |-> row, pw |-> job["daemon"].pw]]
<1>1. job["daemon"] # NoJob
    BY NoJobKind DEF Decide, JobSound, Working, Processes
<1>2. ASSUME job' = [job EXCEPT !["daemon"] = NoJob], at' = [at EXCEPT !["daemon"] = "idle"] PROVE FALSE
    <2>1. at'["daemon"] = FirstStatement(job["daemon"]) /\ at'["daemon"] = "idle"
        BY <1>2 DEF Decide, Go, TypeOK, Processes
    <2>2. QED
        BY <2>1 DEF FirstStatement
<1>3. QED
    BY <1>2, Decides

-----------------------------------------------------------------------------
\* Every step keeps the types.
LEMMA NextTypeOK == TypeOK /\ JobSound /\ TodoSound /\ [Next]_vars => TypeOK'
<1> SUFFICES ASSUME TypeOK, JobSound, TodoSound, [Next]_vars PROVE TypeOK'
    OBVIOUS
<1> USE DirectoryAssumption DEF TypeOK, store, history, Go
<1>0. /\ "api" \in Processes /\ "daemon" \in Processes
      /\ Phases = {"putIdentity", "putCanon", "putSpns", "dropSecret", "dropSpns", "dropCanon",
                   "dropIdentity", "down", "start", "bootstrap", "mirror", "decide", "txn",
                   "move", "putSecret", "finish", "idle"}
    BY DEF Processes, Phases, PutPhases, DropPhases, StartPhases
<1>1. ASSUME NEW f \in [Dns -> Row], StartFrom(f), faults' \in Nat, lost' \subseteq Processes
      PROVE  TypeOK'
    <2>1. view' \in [Dns -> Row]
        BY <1>1 DEF StartFrom, Row, Content
    <2>2. acked' \in [Dns -> Nat \cup {None, Unknown}]
        BY <1>1 DEF StartFrom
    <2>3. QED
        BY <1>0, <1>1, <2>1, <2>2 DEF StartFrom
<1>2. CASE ApiStart
    <2>1. Loaded \in [Dns -> Row]
        BY DEF Loaded
    <2>2. QED
        BY <1>1, <1>2, <2>1 DEF ApiStart
<1>3. CASE ApiStartsBlind
    <2>1. [dn \in Dns |-> None] \in [Dns -> Row]
        BY DEF Row
    <2>2. StartFrom([dn \in Dns |-> None]) /\ faults' \in Nat /\ lost' \subseteq Processes
        BY <1>0, <1>3 DEF ApiStartsBlind
    <2>3. QED
        BY <1>1, <2>1, <2>2
<1>4. ASSUME NEW dn \in Dns, Rewrite(dn) PROVE TypeOK'
    <2>1. view[dn] \in Content
        BY <1>4 DEF Rewrite, TodoSound, Row
    <2>2. [kind |-> "start", dn |-> dn, old |-> dn, val |-> view[dn], pw |-> FALSE] \in Job
        BY <2>1 DEF Job, ApiKinds
    <2>3. QED
        BY <1>0, <1>4, <2>2 DEF Rewrite
<1>5. CASE Rewritten
    BY <1>0, <1>5 DEF Rewritten
<1>6. ASSUME NEW dn \in Dns, Bootstrap(dn) PROVE TypeOK'
    BY <1>6 DEF Bootstrap, Keys
<1>7. CASE Serve
    BY <1>0, <1>7 DEF Serve
<1>8. CASE ApiBegins \/ DaemonBegins
    <2>1. PICK p \in Processes, j \in Job : Fresh(p, j)
        BY <1>8, BeginsJob
    <2>2. QED
        BY <1>0, <2>1 DEF Fresh
<1>9. CASE MoveSecret
    <2>1. secrets' \in [Dns -> Keys]
        BY <1>0, <1>9, JobFields DEF MoveSecret, Working, Keys
    <2>2. QED
        BY <1>0, <1>9, <2>1 DEF MoveSecret
<1>10. ASSUME NEW f \in [Dns -> Row], NEW p \in Processes, at[p] = "finish"
       PROVE  Outcome(f, job[p], job[p].val) \in [Dns -> Row]
    <2>1. job[p].val \in Content
        BY <1>10, JobFields DEF Working
    <2>2. QED
        BY <2>1 DEF Outcome, Row
<1>11. ASSUME NEW p \in Processes, at[p] = "finish"
       PROVE  Outcome(acked, job[p], job[p].val.op) \in [Dns -> Nat \cup {None, Unknown}]
    <2>1. job[p].val.op \in Nat
        BY <1>11, JobFields DEF Working
    <2>2. QED
        BY <2>1 DEF Outcome, Row
<1>12. CASE ApiFinish
    BY <1>0, <1>10, <1>11, <1>12 DEF ApiFinish
<1>13. CASE Mirror
    BY <1>0, <1>13 DEF Mirror, Mirrored
<1>14. CASE Decide
    <2>1. job["daemon"].kind \in DaemonKinds \cup ApiKinds /\ job["daemon"] \in Job
        BY <1>0, <1>14, JobFields DEF Decide, Working
    <2>2. \A row \in Content :
            [kind |-> job["daemon"].kind, dn |-> job["daemon"].dn, old |-> job["daemon"].old,
             val |-> row, pw |-> job["daemon"].pw] \in Job
        BY <2>1 DEF Job
    <2>3. UNCHANGED <<store, view, todo, ops, faults, lost>>
        BY <1>14 DEF Decide
    <2>4. job' \in [Processes -> Job \cup {NoJob}] /\ at' \in [Processes -> Phases]
        BY <1>0, <1>14, <2>2, Decides DEF FirstStatement
    <2>5. acked' \in [Dns -> Nat \cup {None, Unknown}] /\ clashed' \subseteq Dns
        BY <1>14, Decides DEF Open
    <2>6. QED
        BY <2>3, <2>4, <2>5
<1>15. CASE RenameTransaction
    <2>1. job["daemon"].dn \in Dns /\ job["daemon"].old \in Dns /\ job["daemon"].val \in Row
        BY <1>0, <1>15, JobFields DEF RenameTransaction, Working, Row
    <2>2. /\ \A f \in [Dns -> Row], v \in Row, a, b \in Dns :
               [f EXCEPT ![a] = None, ![b] = v] \in [Dns -> Row]
          /\ \A f \in [Dns -> Keys], v \in Keys, a, b \in Dns :
               [f EXCEPT ![a] = None, ![b] = v] \in [Dns -> Keys]
        BY DEF Row, Keys
    <2> DEFINE Moved(f, v) == [f EXCEPT ![job["daemon"].old] = None, ![job["daemon"].dn] = v]
    <2>3. /\ Moved(canon, job["daemon"].val) \in [Dns -> Row]
          /\ Moved(identity, job["daemon"].val) \in [Dns -> Row]
          /\ Moved(secrets, secrets[job["daemon"].old]) \in [Dns -> Keys]
        BY <2>1, <2>2
    <2>4. /\ canon' \in {canon, Moved(canon, job["daemon"].val)}
          /\ identity' \in {identity, Moved(identity, job["daemon"].val)}
          /\ secrets' \in {secrets, Moved(secrets, secrets[job["daemon"].old])}
          /\ spns' \subseteq Dns
          /\ \E phase \in {"idle", "finish"} : Go("daemon", phase)
          /\ job' \in {job, [job EXCEPT !["daemon"] = NoJob]}
          /\ UNCHANGED <<view, todo, ops, acked, clashed, faults, lost>>
        BY <1>15, <2>1 DEF RenameTransaction
    <2> HIDE DEF Moved
    <2>5. QED
        BY <1>0, <2>3, <2>4
<1>16. CASE DaemonFinish
    BY <1>0, <1>11, <1>16 DEF DaemonFinish
<1>17. ASSUME NEW p \in Processes, Persist(p) PROVE TypeOK'
    <2>1. job[p].dn \in Dns /\ (Stores(p) \/ (p = "daemon" /\ GivesUp))
        BY <1>17, Persists
    <2>2. canon' \in [Dns -> Row] /\ identity' \in [Dns -> Row] /\ spns' \subseteq Dns
        BY <2>1 DEF Stores, GivesUp, PutSpns, Row
    <2>3. at' \in [Processes -> Phases]
        BY <1>0, <2>1 DEF Stores, GivesUp, PutSpns, AfterPut
    <2>4. job' \in [Processes -> Job \cup {NoJob}] /\ clashed' \subseteq Dns
        BY <2>1 DEF Stores, GivesUp, PutSpns
    <2>5. UNCHANGED <<secrets, view, todo, ops, acked, faults, lost>>
        BY <2>1 DEF Stores, GivesUp
    <2>6. QED
        BY <2>2, <2>3, <2>4, <2>5
<1>18. ASSUME NEW p \in Processes, Delete(p) PROVE TypeOK'
    <2>1. Dropped(job[p]) \in Dns
        BY <1>18, JobFields DEF Delete, Drop, Working, DropPhases
    <2>2. QED
        BY <1>0, <1>18, <2>1 DEF Delete, Drop, AfterDrop, Row, Keys
<1>19. ASSUME NEW p \in Processes, PutSecret(p) PROVE TypeOK'
    <2>1. job[p].val.op \in Keys
        BY <1>19, JobFields DEF PutSecret, Working, Keys
    <2>2. QED
        BY <1>0, <1>19, <2>1 DEF PutSecret
<1>20. ASSUME NEW p \in Processes, Crash(p) PROVE TypeOK'
    BY <1>0, <1>20 DEF Crash, Row
<1>21. CASE ApiSkips
    <2>1. at'["api"] \in Phases /\ at' = [at EXCEPT !["api"] = at'["api"]]
        BY <1>0, <1>21 DEF ApiSkips, AfterPut, AfterDrop, PutPhases, DropPhases
    <2>2. QED
        BY <1>0, <1>21, <2>1 DEF ApiSkips
<1>22. CASE DaemonStops
    BY <1>0, <1>22 DEF DaemonStops
<1>23. CASE UNCHANGED vars
    BY <1>23 DEF vars
<1>24. QED
    BY NextCases, <1>2, <1>3, <1>4, <1>5, <1>6, <1>7, <1>8, <1>9, <1>12, <1>13, <1>14, <1>15,
       <1>16, <1>17, <1>18, <1>19, <1>20, <1>21, <1>22, <1>23

-----------------------------------------------------------------------------
\* Operations and their places; the API's list at its start.
LEMMA NextJobs ==
    ASSUME TypeOK, JobSound, TodoSound, [Next]_vars
    PROVE  JobSound' /\ TodoSound'
<1> USE DirectoryAssumption, NoJobKind DEF TypeOK, JobSound, TodoSound, Go
<1>0. /\ Processes = {"api", "daemon"}
      /\ Working = {"putIdentity", "putCanon", "putSpns", "dropSecret", "dropSpns", "dropCanon",
                    "dropIdentity", "mirror", "decide", "txn", "move", "putSecret", "finish"}
      /\ PutPhases = {"putIdentity", "putCanon", "putSpns"}
      /\ DropPhases = {"dropSecret", "dropSpns", "dropCanon", "dropIdentity"}
    BY DEF Processes, Working, PutPhases, DropPhases
<1>1. ASSUME NEW f, StartFrom(f) PROVE JobSound' /\ TodoSound'
    BY <1>0, <1>1 DEF StartFrom
<1>2. CASE ApiStart \/ ApiStartsBlind
    BY <1>1, <1>2 DEF ApiStart, ApiStartsBlind
<1>3. ASSUME NEW dn \in Dns, Rewrite(dn) PROVE JobSound' /\ TodoSound'
    <2>1. job'["api"] = [kind |-> "start", dn |-> dn, old |-> dn, val |-> view[dn], pw |-> FALSE]
          /\ job'["daemon"] = job["daemon"]
          /\ at'["api"] = "putIdentity" /\ at'["daemon"] = at["daemon"]
          /\ view' = view /\ todo' \subseteq todo /\ at["api"] = "start"
        BY <1>0, <1>3 DEF Rewrite
    <2>2. job'["api"] # NoJob
        BY <2>1
    <2>3. QED
        BY <1>0, <2>1, <2>2
<1>4. CASE Rewritten \/ Serve
    BY <1>0, <1>4 DEF Rewritten, Serve
<1>5. ASSUME NEW dn \in Dns, Bootstrap(dn) PROVE JobSound' /\ TodoSound'
    BY <1>0, <1>5 DEF Bootstrap
<1>6. CASE ApiBegins \/ DaemonBegins
    <2>1. PICK p \in Processes, j \in Job : Fresh(p, j)
        BY <1>6, BeginsJob
    <2>2. j # NoJob
        OBVIOUS
    <2>3. QED
        BY <1>0, <2>1, <2>2 DEF Fresh
<1>7. CASE MoveSecret
    BY <1>0, <1>7 DEF MoveSecret
<1>8. CASE ApiFinish
    BY <1>0, <1>8 DEF ApiFinish
<1>9. CASE Mirror
    BY <1>0, <1>9 DEF Mirror
<1>9a. CASE Decide
    <2>1. ASSUME NEW row \in Content
          PROVE  [kind |-> job["daemon"].kind, dn |-> job["daemon"].dn, old |-> job["daemon"].old,
                  val |-> row, pw |-> job["daemon"].pw] # NoJob
        BY DEF NoJob
    <2>2. job["daemon"] # NoJob /\ job["daemon"].kind # "start"
        BY <1>0, <1>9a DEF Decide
    <2>3. UNCHANGED <<view, todo>> /\ at["daemon"] = "decide"
        BY <1>9a DEF Decide
    <2>4. FirstStatement(job["daemon"]) \in {"dropSecret", "txn", "putIdentity"}
        BY DEF FirstStatement
    <2>5. QED
        BY <1>0, <1>9a, <2>1, <2>2, <2>3, <2>4, Decides
<1>10. CASE RenameTransaction
    BY <1>0, <1>10 DEF RenameTransaction
<1>11. CASE DaemonFinish \/ DaemonStops
    BY <1>0, <1>11 DEF DaemonFinish, DaemonStops
<1>12. ASSUME NEW p \in Processes, Persist(p) PROVE JobSound' /\ TodoSound'
    <2>1. /\ at[p] \in PutPhases /\ UNCHANGED <<view, todo>>
          /\ \/ /\ \E phase \in {"putCanon", "putSpns", AfterPut(job[p])} : Go(p, phase)
                /\ UNCHANGED job
             \/ p = "daemon" /\ Go(p, "idle") /\ job' = [job EXCEPT ![p] = NoJob]
        BY <1>0, <1>12, Persists DEF Stores, GivesUp, PutSpns
    <2>2. /\ AfterPut(job[p]) \in {"dropSecret", "move", "putSecret", "finish"}
          /\ AfterPut(job[p]) = "move" => job[p].kind = "rename"
          /\ job[p].kind = "start" => AfterPut(job[p]) = "finish"
        BY DEF AfterPut
    <2>3. QED
        BY <1>0, <2>1, <2>2
<1>13. ASSUME NEW p \in Processes, Delete(p) PROVE JobSound' /\ TodoSound'
    <2>1. /\ at[p] \in DropPhases /\ UNCHANGED <<job, view, todo>>
          /\ \E phase \in {"dropSpns", "dropCanon", "dropIdentity", "putSecret", "finish"} : Go(p, phase)
        BY <1>0, <1>13 DEF Delete, Drop, AfterDrop
    <2>2. QED
        BY <1>0, <2>1
<1>14. ASSUME NEW p \in Processes, PutSecret(p) \/ Crash(p) PROVE JobSound' /\ TodoSound'
    BY <1>0, <1>14 DEF PutSecret, Crash
<1>15. CASE ApiSkips
    <2>1. /\ UNCHANGED <<job, view>> /\ todo' \subseteq todo
          /\ \/ at["api"] = "bootstrap" /\ Go("api", "idle")
             \/ at["api"] \in Working /\ Go("api", at'["api"])
                /\ at'["api"] \in {AfterPut(job["api"]), "dropSecret", "putSecret", "finish"}
                /\ (job["api"].kind = "start" => at'["api"] = "finish")
        BY <1>0, <1>15 DEF ApiSkips, AfterPut, AfterDrop
    <2>2. /\ AfterPut(job["api"]) \in {"dropSecret", "move", "putSecret", "finish"}
          /\ AfterPut(job["api"]) = "move" => job["api"].kind = "rename"
        BY DEF AfterPut
    <2>3. QED
        BY <1>0, <2>1, <2>2
<1>16. CASE UNCHANGED vars
    BY <1>16 DEF vars
<1>17. QED
    BY NextCases, <1>2, <1>3, <1>4, <1>5, <1>6, <1>7, <1>8, <1>9, <1>9a, <1>10, <1>11, <1>12, <1>13,
       <1>14, <1>15, <1>16

-----------------------------------------------------------------------------
\* Every operation goes through its own statements.
LEMMA NextPhases ==
    ASSUME TypeOK, JobSound, PhaseSound, [Next]_vars
    PROVE  PhaseSound'
<1> USE DirectoryAssumption, NoJobKind DEF TypeOK, PhaseSound, Go
<1>0. /\ Processes = {"api", "daemon"}
      /\ Working = {"putIdentity", "putCanon", "putSpns", "dropSecret", "dropSpns", "dropCanon",
                    "dropIdentity", "mirror", "decide", "txn", "move", "putSecret", "finish"}
      /\ PutPhases = {"putIdentity", "putCanon", "putSpns"}
      /\ DropPhases = {"dropSecret", "dropSpns", "dropCanon", "dropIdentity"}
      /\ DaemonKinds = {"read", "add", "modify", "remove", "modrdn"}
    BY DEF Processes, Working, PutPhases, DropPhases, DaemonKinds
<1>1. CASE ApiStart \/ ApiStartsBlind
    BY <1>0, <1>1 DEF ApiStart, ApiStartsBlind, StartFrom
<1>2. ASSUME NEW dn \in Dns, Rewrite(dn) PROVE PhaseSound'
    <2>1. job'["api"] = [kind |-> "start", dn |-> dn, old |-> dn, val |-> view[dn], pw |-> FALSE]
          /\ job'["daemon"] = job["daemon"]
          /\ at'["api"] = "putIdentity" /\ at'["daemon"] = at["daemon"]
        BY <1>0, <1>2 DEF Rewrite
    <2>2. QED
        BY <1>0, <2>1
<1>3. CASE Rewritten \/ Serve \/ (\E dn \in Dns : Bootstrap(dn))
    BY <1>0, <1>3 DEF Rewritten, Serve, Bootstrap
<1>4. CASE ApiBegins \/ DaemonBegins
    <2>1. PICK p \in Processes, j \in Job : Fresh(p, j)
        BY <1>4, BeginsJob
    <2>2. QED
        BY <1>0, <2>1 DEF Fresh
<1>5. CASE MoveSecret
    BY <1>0, <1>5 DEF MoveSecret, JobSound
<1>6. CASE ApiFinish
    BY <1>0, <1>6 DEF ApiFinish
<1>7. CASE Mirror \/ RenameTransaction \/ DaemonFinish \/ DaemonStops
    BY <1>0, <1>7 DEF Mirror, RenameTransaction, DaemonFinish, DaemonStops
<1>8. CASE Decide
    <2>1. at["daemon"] = "decide" /\ job["daemon"].kind \in DaemonKinds
        BY <1>0, <1>8 DEF Decide
    <2>2. FirstStatement(job["daemon"]) =
            IF job["daemon"].kind = "remove" THEN "dropSecret"
            ELSE IF job["daemon"].kind = "modrdn" THEN "txn" ELSE "putIdentity"
        BY DEF FirstStatement
    <2>3. QED
        BY <1>0, <1>8, <2>1, <2>2, Decides
<1>9. ASSUME NEW p \in Processes, Persist(p) PROVE PhaseSound'
    <2>1. /\ at[p] \in PutPhases
          /\ \/ /\ \E phase \in {"putCanon", "putSpns", AfterPut(job[p])} : Go(p, phase)
                /\ UNCHANGED job
             \/ p = "daemon" /\ Go(p, "idle") /\ job' = [job EXCEPT ![p] = NoJob]
        BY <1>0, <1>9, Persists DEF Stores, GivesUp, PutSpns
    <2>2. /\ AfterPut(job[p]) \in {"dropSecret", "move", "putSecret", "finish"}
          /\ AfterPut(job[p]) = "dropSecret" => job[p].kind = "rename"
        BY DEF AfterPut
    <2>3. QED
        BY <1>0, <2>1, <2>2
<1>10. ASSUME NEW p \in Processes, Delete(p) PROVE PhaseSound'
    <2>1. /\ at[p] \in DropPhases /\ UNCHANGED job
          /\ \E phase \in {"dropSpns", "dropCanon", "dropIdentity", AfterDrop(job[p])} : Go(p, phase)
        BY <1>0, <1>10 DEF Delete, Drop
    <2>2. /\ AfterDrop(job[p]) \in {"putSecret", "finish"}
          /\ AfterDrop(job[p]) = "putSecret" => job[p].kind = "rename"
        BY DEF AfterDrop
    <2>3. QED
        BY <1>0, <2>1, <2>2
<1>11. ASSUME NEW p \in Processes, PutSecret(p) \/ Crash(p) PROVE PhaseSound'
    BY <1>0, <1>11 DEF PutSecret, Crash
<1>12. CASE ApiSkips
    <2>1. /\ UNCHANGED job
          /\ \/ at["api"] = "bootstrap" /\ Go("api", "idle")
             \/ at["api"] \in PutPhases /\ Go("api", AfterPut(job["api"]))
             \/ at["api"] \in DropPhases /\ Go("api", AfterDrop(job["api"]))
             \/ at["api"] = "move" /\ Go("api", "dropSecret")
             \/ at["api"] = "putSecret" /\ Go("api", "finish")
        BY <1>0, <1>12 DEF ApiSkips
    <2>2. /\ AfterPut(job["api"]) \in {"dropSecret", "move", "putSecret", "finish"}
          /\ AfterPut(job["api"]) = "dropSecret" => job["api"].kind = "rename"
          /\ AfterDrop(job["api"]) \in {"putSecret", "finish"}
          /\ AfterDrop(job["api"]) = "putSecret" => job["api"].kind = "rename"
        BY DEF AfterPut, AfterDrop
    <2>3. QED
        BY <1>0, <2>1, <2>2 DEF JobSound
<1>13. CASE UNCHANGED vars
    BY <1>13 DEF vars
<1>14. QED
    BY NextCases, <1>1, <1>2, <1>3, <1>4, <1>5, <1>6, <1>7, <1>8, <1>9, <1>10, <1>11, <1>12, <1>13

\* A step keeps the operations in order.
LEMMA NextOrderly == Orderly /\ [Next]_vars => Orderly'
BY NextTypeOK, NextJobs, NextPhases DEF Orderly

-----------------------------------------------------------------------------
(***************************************************************************)
(* Who is apart from whom.                                                 *)
(***************************************************************************)
\* A writer that has decided to write.
Writing(p) == at[p] \in Working \ {"mirror", "decide"}

\* Only a request that has written nothing can be a read.
LEMMA WritesNoRead ==
    ASSUME JobSound, PhaseSound, NEW p \in Processes, Writing(p)
    PROVE  job[p].kind # "read"
BY DEF Writing, JobSound, PhaseSound, Working, PutPhases, DropPhases

\* Two that write are on different names, and none of them starts.
LEMMA WritersApart ==
    ASSUME Orderly, Apart, NEW p \in Processes, NEW q \in Processes \ {p}, Writing(p), Writing(q)
    PROVE  /\ job[q].dn \in Dns \ {job[p].dn, job[p].old}
           /\ job[q].old \in Dns \ {job[p].dn, job[p].old}
           /\ Dropped(job[q]) \in Dns \ {job[p].dn, job[p].old}
<1>1. /\ job[p].kind # "read" /\ job[q].kind # "read" /\ at[p] \in Working /\ at[q] \in Working
      /\ job[p].dn \in Dns /\ job[p].old \in Dns /\ job[q].dn \in Dns /\ job[q].old \in Dns
    BY WritesNoRead, JobFields DEF Writing, Orderly
<1>2. /\ job[p].dn \in Touched(p) /\ job[p].old \in Touched(p)
      /\ job[q].dn \in Touched(q) /\ job[q].old \in Touched(q)
    BY <1>1 DEF Touched
<1>3. Touched(p) \cap Touched(q) = {}
    BY DEF Apart, Processes
<1>4. QED
    BY <1>1, <1>2, <1>3 DEF Dropped

\* While the API starts the daemon writes nothing.
LEMMA StartsApart ==
    ASSUME Orderly, Apart, Starting \/ at["api"] = "bootstrap"
    PROVE  ~Writing("daemon") /\ (at["daemon"] = "decide" => job["daemon"].kind = "read")
<1>1. ASSUME at["daemon"] \in Working, job["daemon"].kind # "read" PROVE FALSE
    <2>1. "daemon" \in Processes
        BY DEF Processes
    <2>2. job["daemon"].dn \in Dns
        BY <1>1, <2>1, JobFields DEF Orderly
    <2>3. job["daemon"].dn \in Touched("daemon") /\ job["daemon"].dn \in Touched("api")
        BY <1>1, <2>2 DEF Touched
    <2>4. QED
        BY <2>3 DEF Apart
<1>2. "daemon" \in Processes /\ "decide" \in Working
    BY DEF Processes, Working
<1>3. QED
    BY <1>1, <1>2, WritesNoRead DEF Writing, Orderly

\* What the daemon decides to write is not what the API is writing.
LEMMA DecidesApart ==
    ASSUME Orderly, Apart, at["daemon"] = "decide", job["daemon"].kind # "read", Writing("api")
    PROVE  job["api"].dn \in Dns \ {job["daemon"].dn, job["daemon"].old}
<1>1. "api" \in Processes /\ "daemon" \in Processes /\ "decide" \in Working
    BY DEF Processes, Working
<1>2. /\ job["api"].kind # "read" /\ at["api"] \in Working
      /\ job["api"].dn \in Dns /\ job["daemon"].dn \in Dns /\ job["daemon"].old \in Dns
    BY <1>1, WritesNoRead, JobFields DEF Writing, Orderly
<1>3. /\ job["api"].dn \in Touched("api")
      /\ job["daemon"].dn \in Touched("daemon") /\ job["daemon"].old \in Touched("daemon")
    BY <1>1, <1>2 DEF Touched
<1>4. QED
    BY <1>2, <1>3 DEF Apart

-----------------------------------------------------------------------------
(***************************************************************************)
(* The projection.                                                         *)
(***************************************************************************)
\* The projection is written first and deleted last.
LEMMA NextProjected ==
    ASSUME Orderly, Apart, PutSound, CanonProjected, [Next]_vars
    PROVE  PutSound' /\ CanonProjected'
<1>a. TypeOK /\ JobSound
    BY DEF Orderly
<1> USE DirectoryAssumption, <1>a DEF TypeOK, Go, store
<1>0. /\ "api" \in Processes /\ "daemon" \in Processes
      /\ None \notin Nat
    BY DEF Processes
\* Neither table changes, and no operation is past its first statement.
<1>1. ASSUME UNCHANGED <<canon, identity>>, NEW p \in Processes,
             at'[p] \notin {"putCanon", "putSpns", "dropIdentity"} \/ at'[p] = at[p],
             job'[p] = job[p] \/ at'[p] \notin {"putCanon", "putSpns", "dropIdentity"},
             \A q \in Processes \ {p} : at'[q] = at[q] /\ job'[q] = job[q]
      PROVE  PutSound' /\ CanonProjected'
    BY <1>1 DEF PutSound, CanonProjected
\* A writer changes rows of its own names only, so not those of the other.
<1>b. ASSUME NEW p \in Processes, Writing(p), job' = job \/ at'[p] = "idle",
             \A q \in Processes \ {p} : at'[q] = at[q] /\ job'[q] = job[q],
             \A dn \in Dns \ {job[p].dn, job[p].old} :
                canon'[dn] = canon[dn] /\ identity'[dn] = identity[dn],
             at'[p] \in {"putCanon", "putSpns"} => identity'[job[p].dn] # None,
             at'[p] = "dropIdentity" => canon'[Dropped(job[p])] = None
      PROVE  PutSound'
    <2>1. ASSUME NEW q \in Processes \ {p}, at[q] \in {"putCanon", "putSpns", "dropIdentity"}
          PROVE  /\ at[q] \in {"putCanon", "putSpns"} => identity'[job[q].dn] # None
                 /\ at[q] = "dropIdentity" => canon'[Dropped(job[q])] = None
        <3>1. Writing(q)
            BY <2>1 DEF Writing, Working, PutPhases, DropPhases
        <3>2. job[q].dn \in Dns \ {job[p].dn, job[p].old}
              /\ Dropped(job[q]) \in Dns \ {job[p].dn, job[p].old}
            BY <1>b, <3>1, WritersApart
        <3>3. QED
            BY <1>b, <2>1, <3>2 DEF PutSound
    <2>2. QED
        BY <1>b, <2>1 DEF PutSound
<1>2. CASE ApiStart \/ ApiStartsBlind
    BY <1>0, <1>1, <1>2 DEF ApiStart, ApiStartsBlind, StartFrom
<1>3. CASE ApiBegins \/ DaemonBegins
    <2>1. PICK p \in Processes, j \in Job : Fresh(p, j)
        BY <1>3, BeginsJob
    <2>2. QED
        BY <1>1, <2>1 DEF Fresh
<1>4. CASE (\E dn \in Dns : Rewrite(dn)) \/ Rewritten \/ Serve
    BY <1>0, <1>1, <1>4 DEF Rewrite, Rewritten, Serve
<1>5. CASE MoveSecret \/ ApiFinish
    BY <1>0, <1>1, <1>5 DEF MoveSecret, ApiFinish
<1>6. CASE (\E dn \in Dns : Bootstrap(dn)) \/ UNCHANGED vars
    BY <1>0, <1>1, <1>6 DEF Bootstrap, vars
<1>7. CASE Decide \/ DaemonFinish \/ DaemonStops
    BY <1>0, <1>1, <1>7 DEF Decide, FirstStatement, DaemonFinish, DaemonStops
<1>8. ASSUME NEW p \in Processes, PutSecret(p) \/ Crash(p) PROVE PutSound' /\ CanonProjected'
    BY <1>1, <1>8 DEF PutSecret, Crash
<1>9. CASE ApiSkips
    BY <1>0, <1>1, <1>9 DEF ApiSkips, AfterPut, AfterDrop, PutPhases, DropPhases
<1>10. CASE Mirror
    <2>1. at["api"] # "dropIdentity"
        BY <1>10 DEF Mirror, Apart
    <2>2. QED
        BY <1>0, <1>10, <2>1 DEF Mirror, Mirrored, PutSound, CanonProjected, Processes
<1>11. CASE RenameTransaction
    <2>1. /\ Writing("daemon") /\ (job' = job \/ at'["daemon"] = "idle")
          /\ \A q \in Processes \ {"daemon"} : at'[q] = at[q] /\ job'[q] = job[q]
          /\ at'["daemon"] \in {"idle", "finish"}
        BY <1>0, <1>11 DEF RenameTransaction, Writing, Working
    <2>2. job["daemon"].dn \in Dns /\ job["daemon"].old \in Dns /\ job["daemon"].val # None
        BY <1>0, <1>11, JobFields DEF RenameTransaction, Working, Content
    <2>3. PutSound'
        <3>1. \A dn \in Dns \ {job["daemon"].dn, job["daemon"].old} :
                canon'[dn] = canon[dn] /\ identity'[dn] = identity[dn]
            BY <1>11 DEF RenameTransaction
        <3>2. QED
            BY <1>0, <1>b, <2>1, <3>1
    <2>4. CanonProjected'
        BY <1>11, <2>2 DEF RenameTransaction, CanonProjected
    <2>5. QED
        BY <2>3, <2>4
<1>12. ASSUME NEW p \in Processes, Persist(p) PROVE PutSound' /\ CanonProjected'
    <2>1. /\ Writing(p) /\ job[p].dn \in Dns /\ None \notin Content
          /\ Stores(p) \/ (p = "daemon" /\ GivesUp)
        BY <1>12, Persists DEF Writing, Working, PutPhases, Content
    <2>2. CASE Stores(p)
        <3>1. /\ job' = job /\ \A q \in Processes \ {p} : at'[q] = at[q]
              /\ \A dn \in Dns \ {job[p].dn, job[p].old} :
                    canon'[dn] = canon[dn] /\ identity'[dn] = identity[dn]
            BY <2>1, <2>2 DEF Stores, PutSpns
        <3>2. at[p] \in {"putIdentity", "putCanon"} => identity'[job[p].dn] # None
            BY <2>1, <2>2 DEF Stores, PutSpns, PutSound
        <3>3. at[p] = "putSpns" => at'[p] \notin {"putCanon", "putSpns", "dropIdentity"}
            BY <2>2 DEF Stores, PutSpns, AfterPut
        <3>4. at[p] # "putSpns" => at'[p] \in {"putCanon", "putSpns"} /\ at[p] \in {"putIdentity", "putCanon"}
            BY <2>2 DEF Stores, PutSpns
        <3>5. CanonProjected'
            <4>1. \A dn \in Dns : identity[dn] # None => identity'[dn] # None
                BY <2>1, <2>2 DEF Stores, PutSpns
            <4>2. \A dn \in Dns : canon'[dn] # None => canon[dn] # None \/ (at[p] = "putCanon" /\ dn = job[p].dn)
                BY <2>1, <2>2 DEF Stores, PutSpns
            <4>3. QED
                BY <3>2, <4>1, <4>2 DEF CanonProjected
        <3>6. QED
            BY <1>b, <2>1, <3>1, <3>2, <3>3, <3>4, <3>5
    <2>3. CASE p = "daemon" /\ GivesUp
        <3>1. UNCHANGED <<canon, identity>> /\ at'["daemon"] = "idle"
              /\ at'["api"] = at["api"] /\ job'["api"] = job["api"]
            BY <1>0, <2>3 DEF GivesUp
        <3>2. QED
            BY <3>1 DEF PutSound, CanonProjected, Processes
    <2>4. QED
        BY <2>1, <2>2, <2>3
<1>13. ASSUME NEW p \in Processes, Delete(p) PROVE PutSound' /\ CanonProjected'
    <2>1. /\ Writing(p) /\ \A q \in Processes \ {p} : at'[q] = at[q]
          /\ \A dn \in Dns \ {job[p].dn, job[p].old} :
                canon'[dn] = canon[dn] /\ identity'[dn] = identity[dn]
        BY <1>13 DEF Delete, Drop, Dropped, Writing, Working, DropPhases
    <2>2. Dropped(job[p]) \in Dns /\ job' = job
        BY <1>13, JobFields DEF Delete, Drop, Working, DropPhases
    <2>3. CASE at[p] \in {"dropSecret", "dropSpns"}
        <3>1. at'[p] \notin {"putCanon", "putSpns", "dropIdentity"} /\ UNCHANGED <<canon, identity>>
            BY <1>13, <2>3 DEF Delete, Drop
        <3>2. QED
            BY <1>b, <2>1, <2>2, <3>1 DEF CanonProjected
    <2>4. CASE at[p] = "dropCanon"
        <3>1. at'[p] = "dropIdentity" /\ canon'[Dropped(job[p])] = None
            BY <1>13, <2>2, <2>4 DEF Delete, Drop
        <3>2. CanonProjected'
            BY <1>13, <2>2, <2>4 DEF Delete, Drop, CanonProjected
        <3>3. QED
            BY <1>b, <2>1, <2>2, <3>1, <3>2
    <2>5. CASE at[p] = "dropIdentity"
        <3>1. at'[p] \notin {"putCanon", "putSpns", "dropIdentity"}
            BY <1>13, <2>5 DEF Delete, Drop, AfterDrop
        <3>2. CanonProjected'
            BY <1>13, <2>2, <2>5 DEF Delete, Drop, PutSound, CanonProjected
        <3>3. QED
            BY <1>b, <2>1, <2>2, <3>1, <3>2
    <2>6. QED
        BY <1>13, <2>3, <2>4, <2>5 DEF Delete, Drop
<1>14. QED
    BY NextCases, <1>2, <1>3, <1>4, <1>5, <1>6, <1>7, <1>8, <1>9, <1>10, <1>11, <1>12, <1>13

-----------------------------------------------------------------------------
(***************************************************************************)
(* Keys and names.                                                         *)
(***************************************************************************)
\* What a deletion has deleted stays so while it goes on.
LEMMA NextDropped ==
    ASSUME Orderly, Apart, DropSound, [Next]_vars
    PROVE  DropSound'
<1>a. TypeOK /\ JobSound
    BY DEF Orderly
<1> USE DirectoryAssumption, <1>a DEF TypeOK, Go, store
<1>0. "api" \in Processes /\ "daemon" \in Processes
    BY DEF Processes
\* Neither keys nor names change, and no operation is past its first statement.
<1>1. ASSUME UNCHANGED <<secrets, spns>>, NEW p \in Processes,
             at'[p] \notin {"dropSpns", "dropCanon", "dropIdentity"},
             \A q \in Processes \ {p} : at'[q] = at[q] /\ job'[q] = job[q]
      PROVE  DropSound'
    BY <1>1 DEF DropSound
\* A writer changes keys and names of its own objects only.
<1>2. ASSUME NEW p \in Processes, Writing(p), job' = job \/ at'[p] = "idle",
             \A q \in Processes \ {p} : at'[q] = at[q] /\ job'[q] = job[q],
             \A dn \in Dns \ {job[p].dn, job[p].old} :
                secrets'[dn] = secrets[dn] /\ (dn \in spns' => dn \in spns),
             at'[p] \in {"dropSpns", "dropCanon", "dropIdentity"} => secrets'[Dropped(job[p])] = None,
             at'[p] \in {"dropCanon", "dropIdentity"} => Dropped(job[p]) \notin spns'
      PROVE  DropSound'
    <2>1. ASSUME NEW q \in Processes \ {p}, at[q] \in {"dropSpns", "dropCanon", "dropIdentity"}
          PROVE  /\ secrets'[Dropped(job[q])] = None
                 /\ at[q] \in {"dropCanon", "dropIdentity"} => Dropped(job[q]) \notin spns'
        <3>1. Writing(q)
            BY <2>1 DEF Writing, Working, DropPhases
        <3>2. Dropped(job[q]) \in Dns \ {job[p].dn, job[p].old}
            BY <1>2, <3>1, WritersApart
        <3>3. QED
            BY <1>2, <2>1, <3>2 DEF DropSound
    <2>2. QED
        BY <1>2, <2>1 DEF DropSound
<1>3. CASE ApiStart \/ ApiStartsBlind
    BY <1>0, <1>1, <1>3 DEF ApiStart, ApiStartsBlind, StartFrom
<1>4. CASE ApiBegins \/ DaemonBegins
    <2>1. PICK p \in Processes, j \in Job : Fresh(p, j)
        BY <1>4, BeginsJob
    <2>2. QED
        BY <1>1, <2>1 DEF Fresh
<1>5. CASE (\E dn \in Dns : Rewrite(dn)) \/ Rewritten \/ Serve
    BY <1>0, <1>1, <1>5 DEF Rewrite, Rewritten, Serve
<1>6. ASSUME NEW dn \in Dns, Bootstrap(dn) PROVE DropSound'
    <2>1. at["api"] = "bootstrap" /\ UNCHANGED <<at, job>>
        BY <1>6 DEF Bootstrap
    <2>2. ~Writing("daemon")
        BY <2>1, StartsApart
    <2>3. \A p \in Processes : at[p] \notin {"dropSpns", "dropCanon", "dropIdentity"}
        BY <2>1, <2>2 DEF Processes, Writing, Working, DropPhases
    <2>4. QED
        BY <2>1, <2>3 DEF DropSound
<1>7. CASE MoveSecret
    <2>1. /\ at["api"] = "move" /\ at'["api"] = "dropSecret" /\ job' = job /\ spns' = spns
          /\ \A q \in Processes \ {"api"} : at'[q] = at[q]
          /\ \A dn \in Dns \ {job["api"].dn, job["api"].old} : secrets'[dn] = secrets[dn]
        BY <1>0, <1>7 DEF MoveSecret
    <2>2. Writing("api")
        BY <2>1 DEF Writing, Working
    <2>3. QED
        BY <1>0, <1>2, <2>1, <2>2
<1>8. CASE Mirror \/ Decide \/ ApiFinish \/ DaemonFinish \/ DaemonStops
    BY <1>0, <1>1, <1>8 DEF Mirror, Decide, FirstStatement, ApiFinish, DaemonFinish, DaemonStops
<1>9. CASE RenameTransaction
    <2>1. /\ at["daemon"] = "txn" /\ at'["daemon"] \in {"idle", "finish"}
          /\ job' = job \/ at'["daemon"] = "idle"
          /\ \A q \in Processes \ {"daemon"} : at'[q] = at[q] /\ job'[q] = job[q]
        BY <1>0, <1>9 DEF RenameTransaction
    <2>2. \A dn \in Dns \ {job["daemon"].dn, job["daemon"].old} :
            secrets'[dn] = secrets[dn] /\ (dn \in spns' => dn \in spns)
        BY <1>9 DEF RenameTransaction
    <2>3. Writing("daemon")
        BY <2>1 DEF Writing, Working
    <2>4. QED
        BY <1>0, <1>2, <2>1, <2>2, <2>3
<1>10. ASSUME NEW p \in Processes, PutSecret(p) \/ Crash(p) PROVE DropSound'
    <2>1. CASE PutSecret(p)
        <3>1. /\ at[p] = "putSecret" /\ at'[p] = "finish" /\ job' = job /\ spns' = spns
              /\ \A q \in Processes \ {p} : at'[q] = at[q]
              /\ \A dn \in Dns \ {job[p].dn, job[p].old} : secrets'[dn] = secrets[dn]
            BY <2>1 DEF PutSecret
        <3>2. Writing(p)
            BY <3>1 DEF Writing, Working
        <3>3. QED
            BY <1>2, <3>1, <3>2
    <2>2. CASE Crash(p)
        BY <1>1, <2>2 DEF Crash
    <2>3. QED
        BY <1>10, <2>1, <2>2
<1>11. CASE ApiSkips
    <2>1. at'["api"] \notin {"dropSpns", "dropCanon", "dropIdentity"}
        BY <1>0, <1>11 DEF ApiSkips, AfterPut, AfterDrop, PutPhases, DropPhases
    <2>2. QED
        BY <1>0, <1>1, <1>11, <2>1 DEF ApiSkips
<1>12. ASSUME NEW p \in Processes, Persist(p) PROVE DropSound'
    <2>1. /\ Writing(p) /\ job[p].dn \in Dns
          /\ Stores(p) \/ (p = "daemon" /\ GivesUp)
        BY <1>12, Persists DEF Writing, Working, PutPhases
    <2>2. CASE Stores(p)
        <3>1. /\ at'[p] \notin {"dropSpns", "dropCanon", "dropIdentity"} /\ job' = job /\ secrets' = secrets
              /\ \A q \in Processes \ {p} : at'[q] = at[q]
              /\ \A dn \in Dns \ {job[p].dn, job[p].old} : dn \in spns' => dn \in spns
            BY <2>2 DEF Stores, PutSpns, AfterPut
        <3>2. QED
            BY <1>2, <2>1, <3>1
    <2>3. CASE p = "daemon" /\ GivesUp
        <3>1. UNCHANGED <<secrets, spns>> /\ at'["daemon"] = "idle"
              /\ at'["api"] = at["api"] /\ job'["api"] = job["api"]
            BY <1>0, <2>3 DEF GivesUp
        <3>2. QED
            BY <3>1 DEF DropSound, Processes
    <2>4. QED
        BY <2>1, <2>2, <2>3
<1>13. ASSUME NEW p \in Processes, Delete(p) PROVE DropSound'
    <2>1. /\ \A q \in Processes \ {p} : at'[q] = at[q]
          /\ \A dn \in Dns \ {job[p].dn, job[p].old} :
                secrets'[dn] = secrets[dn] /\ (dn \in spns' => dn \in spns)
        BY <1>13 DEF Delete, Drop, Dropped
    <2>2. Dropped(job[p]) \in Dns /\ job' = job /\ Writing(p)
        BY <1>13, JobFields DEF Delete, Drop, Writing, Working, DropPhases
    <2>3. CASE at[p] = "dropSecret"
        <3>1. at'[p] = "dropSpns" /\ secrets'[Dropped(job[p])] = None
            BY <1>13, <2>2, <2>3 DEF Delete, Drop
        <3>2. QED
            BY <1>2, <2>1, <2>2, <3>1
    <2>4. CASE at[p] = "dropSpns"
        <3>1. at'[p] = "dropCanon" /\ secrets' = secrets /\ Dropped(job[p]) \notin spns'
            BY <1>13, <2>4 DEF Delete, Drop
        <3>2. secrets[Dropped(job[p])] = None
            BY <2>4 DEF DropSound
        <3>3. QED
            BY <1>2, <2>1, <2>2, <3>1, <3>2
    <2>5. CASE at[p] = "dropCanon"
        <3>1. at'[p] = "dropIdentity" /\ secrets' = secrets /\ spns' = spns
            BY <1>13, <2>5 DEF Delete, Drop
        <3>2. secrets[Dropped(job[p])] = None /\ Dropped(job[p]) \notin spns
            BY <2>5 DEF DropSound
        <3>3. QED
            BY <1>2, <2>1, <2>2, <3>1, <3>2
    <2>6. CASE at[p] = "dropIdentity"
        <3>1. at'[p] \notin {"dropSpns", "dropCanon", "dropIdentity"}
            BY <1>13, <2>6 DEF Delete, Drop, AfterDrop
        <3>2. QED
            BY <1>2, <2>1, <2>2, <3>1
    <2>7. QED
        BY <1>13, <2>3, <2>4, <2>5, <2>6 DEF Delete, Drop
<1>14. CASE UNCHANGED vars
    BY <1>14 DEF vars, DropSound
<1>15. QED
    BY NextCases, <1>3, <1>4, <1>5, <1>6, <1>7, <1>8, <1>9, <1>10, <1>11, <1>12, <1>13, <1>14

\* The object an operation goes on with is in the projection, unless it was skipped.
LEMMA NextHeld ==
    ASSUME Orderly, Apart, PutSound, HeldSound, [Next]_vars
    PROVE  HeldSound'
<1>a. TypeOK /\ JobSound
    BY DEF Orderly
<1> USE DirectoryAssumption, <1>a DEF TypeOK, Go, store
<1>0. "api" \in Processes /\ "daemon" \in Processes /\ None \notin Nat
    BY DEF Processes
<1> DEFINE Holds(p) == at[p] \in {"putSecret", "move"}
                         \/ (at[p] \in DropPhases /\ job[p].kind = "rename")
\* Nothing is forgotten of a connection lost.
<1>1. lost \subseteq lost'
    <2>1. CASE ApiBegins \/ DaemonBegins
        BY <2>1, BeginsJob DEF Fresh
    <2>2. QED
        BY NextCases, <2>1
        DEF ApiStart, ApiStartsBlind, StartFrom, Rewrite, Rewritten, Bootstrap, Serve, MoveSecret,
            ApiFinish, Mirror, Decide, RenameTransaction, DaemonFinish, Persist, Delete, PutSecret,
            Crash, ApiSkips, DaemonStops, vars
<1>2. ASSUME "api" \notin lost', NEW p \in Processes,
             at'[p] \notin {"putSecret", "move"} \cup DropPhases \/ job'[p].kind = "delete",
             at'[p] \notin {"putSecret", "move"},
             \A q \in Processes \ {p} : at'[q] = at[q] /\ job'[q] = job[q],
             UNCHANGED identity
      PROVE  HeldSound'
    BY <1>1, <1>2 DEF HeldSound
\* A writer changes rows of its own names only.
<1>3. ASSUME NEW p \in Processes,
             \A q \in Processes \ {p} : at'[q] = at[q] /\ job'[q] = job[q],
             \/ identity' = identity
             \/ Writing(p) /\ \A dn \in Dns \ {job[p].dn, job[p].old} : identity'[dn] = identity[dn],
             "api" \notin lost' /\ Holds(p)' => identity'[job'[p].dn] # None
      PROVE  HeldSound'
    <2>1. ASSUME "api" \notin lost', NEW q \in Processes \ {p}, Holds(q)
          PROVE  identity'[job[q].dn] # None
        <3>1. identity[job[q].dn] # None
            BY <1>1, <2>1 DEF HeldSound
        <3>2. Writing(q)
            BY <2>1 DEF Writing, Working, DropPhases
        <3>3. Writing(p) => job[q].dn \in Dns \ {job[p].dn, job[p].old}
            BY <3>2, WritersApart
        <3>4. QED
            BY <1>3, <3>1, <3>3
    <2>2. QED
        BY <1>3, <2>1 DEF HeldSound
<1>4. CASE ApiStart \/ ApiStartsBlind
    BY <1>0, <1>2, <1>4 DEF ApiStart, ApiStartsBlind, StartFrom, DropPhases, HeldSound
<1>5. CASE ApiBegins \/ DaemonBegins
    <2>1. PICK p \in Processes, j \in Job : Fresh(p, j)
        BY <1>5, BeginsJob
    <2>2. QED
        BY <1>2, <2>1 DEF Fresh, DropPhases, HeldSound
<1>6. CASE (\E dn \in Dns : Rewrite(dn)) \/ Rewritten \/ Serve \/ (\E dn \in Dns : Bootstrap(dn))
    BY <1>0, <1>3, <1>6 DEF Rewrite, Rewritten, Serve, Bootstrap, DropPhases
<1>7. CASE MoveSecret
    BY <1>0, <1>1, <1>3, <1>7 DEF MoveSecret, HeldSound
<1>8. CASE ApiFinish
    BY <1>0, <1>3, <1>8 DEF ApiFinish, DropPhases
<1>9. CASE Mirror \/ RenameTransaction \/ DaemonFinish \/ DaemonStops
    <2>1. CASE Mirror \/ RenameTransaction \/ DaemonFinish
        <3>1. /\ at'["api"] = at["api"] /\ job'["api"] = job["api"]
              /\ at'["daemon"] \in {"decide", "idle", "finish"}
            BY <1>0, <2>1 DEF Mirror, RenameTransaction, DaemonFinish
        <3>2. \/ identity' = identity
              \/ /\ Writing("daemon")
                 /\ \A dn \in Dns \ {job["daemon"].dn, job["daemon"].old} : identity'[dn] = identity[dn]
            BY <2>1 DEF Mirror, RenameTransaction, DaemonFinish, Writing, Working
        <3>3. QED
            BY <1>0, <1>3, <3>1, <3>2 DEF Processes, DropPhases
    <2>2. CASE DaemonStops
        BY <1>0, <1>2, <2>2 DEF DaemonStops, DropPhases, HeldSound
    <2>3. QED
        BY <1>9, <2>1, <2>2
<1>10. CASE Decide
    <2>1. CASE job["daemon"].kind = "read" \/ Refused(job["daemon"])
        BY <1>0, <1>3, <1>10, <2>1 DEF Decide, DropPhases
    <2>2. CASE ~(job["daemon"].kind = "read" \/ Refused(job["daemon"]))
        <3>1. /\ at'["daemon"] = FirstStatement(job["daemon"]) /\ at'["api"] = at["api"]
              /\ job'["api"] = job["api"] /\ job'["daemon"].kind = job["daemon"].kind
              /\ identity' = identity
            <4>1. at["daemon"] = "decide" /\ identity' = identity
                BY <1>10 DEF Decide
            <4>2. at' = [at EXCEPT !["daemon"] = FirstStatement(job["daemon"])]
                BY <1>10, <2>2 DEF Decide
            <4>3. PICK row \in Content :
                    job' = [job EXCEPT !["daemon"] =
                             [kind |-> job["daemon"].kind, dn |-> job["daemon"].dn,
                              old |-> job["daemon"].old, val |-> row, pw |-> job["daemon"].pw]]
                BY <1>0, <1>10, <2>2, <4>2, DecidesOn
            <4>4. QED
                BY <1>0, <4>1, <4>2, <4>3
        <3>2. FirstStatement(job["daemon"]) \in {"putIdentity", "txn"}
              \/ (FirstStatement(job["daemon"]) = "dropSecret" /\ job["daemon"].kind = "remove")
            BY DEF FirstStatement
        <3>3. QED
            BY <1>0, <1>3, <3>1, <3>2 DEF Processes, DropPhases
    <2>3. QED
        BY <2>1, <2>2
<1>11. ASSUME NEW p \in Processes, PutSecret(p) \/ Crash(p) PROVE HeldSound'
    BY <1>1, <1>3, <1>11 DEF PutSecret, Crash, DropPhases, HeldSound
<1>12. CASE ApiSkips
    BY <1>0, <1>12 DEF ApiSkips, HeldSound
<1>13. ASSUME NEW p \in Processes, Persist(p) PROVE HeldSound'
    <2>1. /\ Writing(p) /\ job[p].dn \in Dns
          /\ Stores(p) \/ (p = "daemon" /\ GivesUp)
        BY <1>13, Persists DEF Writing, Working, PutPhases
    <2>2. CASE Stores(p)
        <3>1. at[p] # "putSpns" => at'[p] \in {"putCanon", "putSpns"}
            BY <2>2 DEF Stores, PutSpns
        <3>2. at[p] = "putSpns" => identity'[job'[p].dn] # None
            BY <2>2 DEF Stores, PutSpns, PutSound
        <3>3. /\ job' = job /\ lost' = lost /\ \A q \in Processes \ {p} : at'[q] = at[q]
              /\ \A dn \in Dns \ {job[p].dn, job[p].old} : identity'[dn] = identity[dn]
            BY <2>2 DEF Stores, PutSpns
        <3>4. QED
            BY <1>3, <2>1, <3>1, <3>2, <3>3 DEF DropPhases
    <2>3. CASE p = "daemon" /\ GivesUp
        <3>1. identity' = identity /\ lost' = lost /\ at'["daemon"] = "idle"
              /\ at'["api"] = at["api"] /\ job'["api"] = job["api"]
            BY <1>0, <2>3 DEF GivesUp
        <3>2. QED
            BY <3>1 DEF HeldSound, Processes, DropPhases
    <2>4. QED
        BY <2>1, <2>2, <2>3
<1>14. ASSUME NEW p \in Processes, Delete(p) PROVE HeldSound'
    <2>1. at[p] \in DropPhases /\ job' = job /\ lost' = lost
          /\ \A q \in Processes \ {p} : at'[q] = at[q]
        BY <1>14 DEF Delete, Drop, DropPhases
    <2>2. job[p].kind = "rename" => job[p].dn # Dropped(job[p])
        BY DEF JobSound, Dropped
    <2>3. at'[p] = "putSecret" => job[p].kind = "rename"
        BY <1>14 DEF Delete, Drop, AfterDrop
    <2>4. job[p].dn \in Dns /\ (identity' = identity
                                \/ identity' = [identity EXCEPT ![Dropped(job[p])] = None])
        BY <1>14, <2>1, JobFields DEF Delete, Drop, Working
    <2>5. at'[p] # "move"
        BY <1>14 DEF Delete, Drop, AfterDrop
    <2>6. ASSUME "api" \notin lost', Holds(p)' PROVE identity'[job'[p].dn] # None
        BY <2>1, <2>2, <2>3, <2>4, <2>5, <2>6 DEF HeldSound
    <2>7. /\ Writing(p)
          /\ \A dn \in Dns \ {job[p].dn, job[p].old} : identity'[dn] = identity[dn]
        BY <2>1, <2>4 DEF Dropped, Writing, Working, DropPhases
    <2>8. QED
        BY <1>3, <2>1, <2>6, <2>7
<1>15. CASE UNCHANGED vars
    BY <1>15 DEF vars, HeldSound
<1>16. QED
    BY NextCases, <1>4, <1>5, <1>6, <1>7, <1>8, <1>9, <1>10, <1>11, <1>12, <1>13, <1>14, <1>15

-----------------------------------------------------------------------------
\* A start of the API has the seeds in the projection before it makes keys for them.
LEMMA NextSeeds ==
    ASSUME Orderly, Apart, PutSound, SeedsSound, [Next]_vars
    PROVE  SeedsSound'
<1>a. TypeOK /\ JobSound
    BY DEF Orderly
<1> USE DirectoryAssumption, NoJobKind, <1>a DEF TypeOK, Go, store, Starting
<1>0. "api" \in Processes /\ "daemon" \in Processes /\ None \notin Nat
    BY DEF Processes
\* A step that is not of a start.
<1>1. ASSUME at'["api"] \notin {"start", "bootstrap"}, job'["api"].kind # "start" PROVE SeedsSound'
    BY <1>1 DEF SeedsSound
\* The daemon, while the API starts.
<1>2. ASSUME UNCHANGED <<identity, todo>>, at'["api"] = at["api"], job'["api"] = job["api"],
             lost \subseteq lost'
      PROVE  SeedsSound'
    BY <1>2 DEF SeedsSound
<1>3. ASSUME Writing("daemon"), at'["api"] = at["api"], job'["api"] = job["api"]
      PROVE  SeedsSound'
    BY <1>1, <1>3, StartsApart
<1>4. CASE ApiStart \/ ApiStartsBlind
    <2>1. PICK f : StartFrom(f)
        BY <1>4 DEF ApiStart, ApiStartsBlind
    <2>2. at'["api"] = "start" /\ \A dn \in Seeds : view'[dn] # None
        BY <1>0, <2>1 DEF StartFrom
    <2>3. \A dn \in Seeds : dn \in todo'
        BY <2>1, <2>2 DEF StartFrom
    <2>4. QED
        BY <2>2, <2>3 DEF SeedsSound
<1>5. CASE ApiBegins \/ DaemonBegins
    <2>1. PICK p \in Processes, j \in Job : Fresh(p, j)
        BY <1>5, BeginsJob
    <2>2. CASE p = "api"
        BY <1>0, <1>1, <2>1, <2>2 DEF Fresh
    <2>3. CASE p = "daemon"
        BY <1>0, <1>2, <2>1, <2>3 DEF Fresh
    <2>4. QED
        BY <2>2, <2>3 DEF Processes
<1>6. ASSUME NEW dn \in Dns, Rewrite(dn) PROVE SeedsSound'
    <2>1. at["api"] = "start" /\ at'["api"] = "putIdentity" /\ job'["api"].dn = dn
        BY <1>0, <1>6 DEF Rewrite
    <2>2. todo' = todo \ {dn} /\ identity' = identity /\ lost' = lost
        BY <1>6 DEF Rewrite
    <2>3. QED
        BY <2>1, <2>2 DEF SeedsSound
<1>7. CASE Rewritten
    <2>1. at["api"] = "start" /\ at'["api"] = "bootstrap" /\ todo = {} /\ job' = job
          /\ identity' = identity /\ lost' = lost
        BY <1>0, <1>7 DEF Rewritten
    <2>2. job["api"] = NoJob
        BY <1>0, <2>1 DEF JobSound, Working, PutPhases, DropPhases
    <2>3. QED
        BY <2>1, <2>2 DEF SeedsSound
<1>8. ASSUME NEW dn \in Dns, Bootstrap(dn) PROVE SeedsSound'
    <2>1. job["api"] = NoJob
        BY <1>0, <1>8 DEF Bootstrap, JobSound, Working, PutPhases, DropPhases
    <2>2. QED
        BY <1>8, <2>1 DEF Bootstrap, SeedsSound
<1>9. CASE Serve \/ MoveSecret
    <2>1. job' = job /\ at'["api"] \notin {"start", "bootstrap"} /\ job["api"].kind # "start"
        BY <1>0, <1>9 DEF Serve, MoveSecret, JobSound, Working, PutPhases, DropPhases
    <2>2. QED
        BY <1>1, <2>1
<1>10. CASE ApiFinish
    <2>1. CASE job["api"].kind = "start"
        BY <1>0, <1>10, <2>1 DEF ApiFinish, SeedsSound
    <2>2. CASE job["api"].kind # "start"
        BY <1>0, <1>1, <1>10, <2>2 DEF ApiFinish
    <2>3. QED
        BY <2>1, <2>2
<1>11. CASE Mirror \/ Decide \/ DaemonFinish \/ DaemonStops
    BY <1>0, <1>2, <1>11 DEF Mirror, Decide, DaemonFinish, DaemonStops
<1>12. CASE RenameTransaction
    BY <1>0, <1>3, <1>12 DEF RenameTransaction, Writing, Working
<1>13. ASSUME Persist("daemon") \/ Delete("daemon") \/ PutSecret("daemon") PROVE SeedsSound'
    <2>1. Writing("daemon") /\ at'["api"] = at["api"] /\ job'["api"] = job["api"]
        <3>1. CASE Persist("daemon")
            BY <1>0, <3>1, Persists DEF Stores, GivesUp, PutSpns, Writing, Working
        <3>2. CASE Delete("daemon") \/ PutSecret("daemon")
            BY <1>0, <3>2 DEF Delete, Drop, PutSecret, Writing, Working, DropPhases
        <3>3. QED
            BY <1>13, <3>1, <3>2
    <2>2. QED
        BY <1>3, <2>1
<1>14. ASSUME Delete("api") \/ PutSecret("api") PROVE SeedsSound'
    <2>1. /\ at["api"] \in DropPhases \cup {"putSecret"} /\ job' = job
          /\ at'["api"] \notin {"start", "bootstrap"}
        BY <1>0, <1>14 DEF Delete, Drop, AfterDrop, PutSecret, DropPhases
    <2>2. job["api"].kind # "start"
        BY <1>0, <2>1 DEF JobSound, PutPhases, DropPhases
    <2>3. QED
        BY <1>1, <2>1, <2>2
<1>15. CASE Persist("api")
    <2>1. job["api"].dn \in Dns /\ None \notin Content /\ Stores("api")
        BY <1>0, <1>15, Persists DEF Content
    <2>2. at'["api"] \notin {"start", "bootstrap"} /\ UNCHANGED <<job, todo, lost>>
        BY <1>0, <2>1 DEF Stores, PutSpns, AfterPut
    <2>3. \A dn \in Dns : identity[dn] # None => identity'[dn] # None
        BY <2>1 DEF Stores, PutSpns
    <2>4. at["api"] = "putIdentity" => identity'[job["api"].dn] # None
        BY <2>1 DEF Stores, PutSpns
    <2>5. QED
        BY <2>1, <2>2, <2>3, <2>4 DEF SeedsSound
<1>16. ASSUME NEW p \in Processes, Crash(p) PROVE SeedsSound'
    <2>1. CASE p = "api"
        BY <1>0, <1>1, <1>16, <2>1 DEF Crash
    <2>2. CASE p = "daemon"
        BY <1>0, <1>2, <1>16, <2>2 DEF Crash
    <2>3. QED
        BY <2>1, <2>2 DEF Processes
<1>17. CASE ApiSkips
    BY <1>0, <1>17 DEF ApiSkips, SeedsSound
<1>18. CASE UNCHANGED vars
    BY <1>18 DEF vars, SeedsSound
<1>19. QED
    BY NextCases, <1>4, <1>5, <1>6, <1>7, <1>8, <1>9, <1>10, <1>11, <1>12, <1>13, <1>14, <1>15,
       <1>16, <1>17, <1>18 DEF Processes

\* Keys and names belong to objects of the projection.
LEMMA NextNothingDangles ==
    ASSUME TypeOK, JobSound, TodoSound, PutSound, DropSound, HeldSound, SeedsSound,
           NothingDangles, [Next]_vars
    PROVE  NothingDangles'
<1> USE DirectoryAssumption DEF TypeOK, Go, store
<1>0. "api" \in Processes /\ "daemon" \in Processes /\ None \notin Nat
    BY DEF Processes
<1>1. CASE UNCHANGED vars
    BY <1>1 DEF vars, NothingDangles
<1>2. CASE ApiStart \/ ApiStartsBlind
    BY <1>2 DEF ApiStart, ApiStartsBlind, StartFrom, NothingDangles
<1>3. CASE ApiBegins \/ DaemonBegins
    <2>1. PICK p \in Processes, j \in Job : Fresh(p, j)
        BY <1>3, BeginsJob
    <2>2. QED
        BY <2>1 DEF Fresh, NothingDangles
<1>4. CASE (\E dn \in Dns : Rewrite(dn)) \/ Rewritten \/ Serve \/ ApiFinish
    BY <1>4 DEF Rewrite, Rewritten, Serve, ApiFinish, NothingDangles
<1>5. ASSUME NEW dn \in Dns, Bootstrap(dn) PROVE NothingDangles'
    BY <1>5 DEF Bootstrap, TodoSound, SeedsSound, NothingDangles
<1>6. CASE MoveSecret
    <2>1. "api" \notin lost => identity[job["api"].dn] # None
        BY <1>0, <1>6 DEF MoveSecret, HeldSound
    <2>2. job["api"].dn \in Dns /\ job["api"].old \in Dns
        BY <1>0, <1>6, JobFields DEF MoveSecret, Working
    <2>3. QED
        BY <1>6, <2>1, <2>2 DEF MoveSecret, NothingDangles
<1>7. CASE Mirror \/ Decide \/ DaemonFinish \/ DaemonStops \/ ApiSkips
    BY <1>0, <1>7 DEF Mirror, Decide, DaemonFinish, DaemonStops, ApiSkips, NothingDangles
<1>8. CASE RenameTransaction
    <2>1. job["daemon"].dn \in Dns /\ job["daemon"].old \in Dns /\ job["daemon"].val # None
        BY <1>0, <1>8, JobFields DEF RenameTransaction, Working, Content
    <2>2. QED
        BY <1>8, <2>1 DEF RenameTransaction, NothingDangles
<1>9. ASSUME NEW p \in Processes, Persist(p) PROVE NothingDangles'
    <2>1. /\ job[p].dn \in Dns /\ None \notin Content
          /\ Stores(p) \/ (p = "daemon" /\ GivesUp)
        BY <1>9, Persists DEF Content
    <2>2. at[p] = "putSpns" => identity[job[p].dn] # None
        BY DEF PutSound
    <2>3. UNCHANGED <<secrets, lost>>
        BY <2>1 DEF Stores, GivesUp
    <2>4. \A dn \in Dns : identity[dn] # None => identity'[dn] # None
        BY <2>1 DEF Stores, GivesUp, PutSpns
    <2>5. \A dn \in Dns : dn \in spns' => dn \in spns \/ (at[p] = "putSpns" /\ dn = job[p].dn)
        BY <2>1 DEF Stores, GivesUp, PutSpns
    <2>6. QED
        BY <2>2, <2>3, <2>4, <2>5 DEF NothingDangles
<1>10. ASSUME NEW p \in Processes, Delete(p) PROVE NothingDangles'
    <2>1. Dropped(job[p]) \in Dns
        BY <1>10, JobFields DEF Delete, Drop, Working, DropPhases
    <2>2. at[p] = "dropIdentity" => secrets[Dropped(job[p])] = None /\ Dropped(job[p]) \notin spns
        BY DEF DropSound
    <2>3. QED
        BY <1>10, <2>1, <2>2 DEF Delete, Drop, NothingDangles
<1>11. ASSUME NEW p \in Processes, PutSecret(p) PROVE NothingDangles'
    <2>1. job[p].dn \in Dns /\ ("api" \notin lost => identity[job[p].dn] # None)
        BY <1>11, JobFields DEF PutSecret, Working, HeldSound
    <2>2. QED
        BY <1>11, <2>1 DEF PutSecret, NothingDangles
<1>12. ASSUME NEW p \in Processes, Crash(p) PROVE NothingDangles'
    BY <1>12 DEF Crash, NothingDangles
<1>13. QED
    BY NextCases, <1>1, <1>2, <1>3, <1>4, <1>5, <1>6, <1>7, <1>8, <1>9, <1>10, <1>11, <1>12

-----------------------------------------------------------------------------
\* The operations go through their own statements, and the tables, the API's list
\* and the operations in hand keep their types, also where the writers meet.
THEOREM AlwaysOrderly == Spec => []Orderly
<1>1. Init => Orderly
    BY InitIInv DEF IInv
<1>2. QED
    BY <1>1, NextOrderly, PTL DEF Spec

\* The tables, the API's list and the operations in hand keep their types.
THEOREM TypeCorrect == Spec => []TypeOK
<1>1. Orderly => TypeOK
    BY DEF Orderly
<1>2. QED
    BY AlwaysOrderly, <1>1, PTL

\* The inductive invariant, for writers that are apart.
THEOREM Invariant == Spec /\ []Apart => []IInv
<1>1. IInv /\ Apart /\ [Next]_vars => IInv'
    <2> SUFFICES ASSUME IInv, Apart, [Next]_vars PROVE IInv'
        OBVIOUS
    <2>1. Orderly' /\ PutSound' /\ CanonProjected' /\ DropSound'
        BY NextOrderly, NextProjected, NextDropped DEF IInv
    <2>2. HeldSound' /\ SeedsSound'
        BY NextHeld, NextSeeds DEF IInv
    <2>3. NothingDangles'
        BY NextNothingDangles DEF IInv, Orderly
    <2>4. QED
        BY <2>1, <2>2, <2>3 DEF IInv
<1>2. QED
    BY InitIInv, <1>1, PTL DEF Spec

\* The projection covers the canonical table at every statement of either
\* writer, after every crash and every lost connection, while they are apart.
THEOREM AlwaysProjected == Spec /\ []Apart => []CanonProjected
<1>1. IInv => CanonProjected
    BY DEF IInv
<1>2. QED
    BY Invariant, <1>1, PTL

\* No keys and no service principal names outlive their object, unless the API
\* lost a connection, while the writers are apart.
THEOREM NothingEverDangles == Spec /\ []Apart => []NothingDangles
<1>1. IInv => NothingDangles
    BY DEF IInv
<1>2. QED
    BY Invariant, <1>1, PTL

-----------------------------------------------------------------------------
(***************************************************************************)
(* What is reported.  An operation that writes has made what it touches    *)
(* Unknown (OpenedSound), and at every statement the ones before it are    *)
(* done (DoneSound); a start of the API writes back what was reported      *)
(* (StartSound), and ends with the two tables agreeing (SettledSound).     *)
(***************************************************************************)
Opened(p) == at[p] \in Working \ {"mirror", "decide"} /\ job[p].kind # "start"

OpenedSound ==
    \A p \in Processes : Opened(p) => acked[job[p].dn] = Unknown /\ acked[job[p].old] = Unknown

\* The object is stored, and the one that goes is gone.
Stored(p) ==
    \/ at[p] \in {"putSpns", "move", "putSecret"}
    \/ at[p] \in DropPhases /\ job[p].kind = "rename"
    \/ at[p] = "finish" /\ job[p].kind \notin {"delete", "remove"}

Gone(p) ==
    \/ at[p] = "finish" /\ job[p].kind \in {"delete", "remove", "rename"}
    \/ at[p] = "putSecret" /\ job[p].kind = "rename"
    \/ at[p] = "finish" /\ job[p].kind = "modrdn" /\ job[p].dn # job[p].old

DoneSound ==
    lost = {} =>
        \A p \in Processes :
            /\ at[p] = "putCanon" => HasOp(identity[job[p].dn], job[p].val.op)
            /\ Stored(p) => /\ HasOp(identity[job[p].dn], job[p].val.op)
                            /\ \/ HasOp(canon[job[p].dn], job[p].val.op)
                               \/ p = "api" /\ job[p].dn \in clashed
            /\ Gone(p) => /\ canon[job[p].old] = None /\ identity[job[p].old] = None
                          /\ secrets[job[p].old] = None

StartSound ==
    /\ Starting \/ at["api"] = "bootstrap" =>
         /\ \A dn \in Dns :
              lost = {} =>
                /\ acked[dn] = None => view[dn] = None
                /\ acked[dn] \in Nat /\ dn \notin clashed => HasOp(view[dn], acked[dn])
         /\ \A dn \in Seeds : view[dn] # None
    /\ job["api"].kind = "start" => job["api"].val = view[job["api"].dn]

SettledSound ==
    "api" \notin lost =>
        /\ Starting => \A dn \in Dns : canon[dn] # None =>
             /\ canon[dn] = view[dn]
             /\ \/ dn \in todo \/ identity[dn] = canon[dn]
                \/ at["api"] \in {"putIdentity", "putCanon"} /\ job["api"].dn = dn
        /\ job["api"].kind = "start" /\ at["api"] = "putCanon" =>
             identity[job["api"].dn] = job["api"].val
        /\ at["api"] = "bootstrap" => \A dn \in Dns : canon[dn] # None => identity[dn] = canon[dn]

\* An operation has what it touches open from its first statement to its report.
LEMMA NextOpened ==
    ASSUME Orderly, Apart, OpenedSound, [Next]_vars
    PROVE  OpenedSound'
<1>a. TypeOK /\ JobSound
    BY DEF Orderly
<1> USE DirectoryAssumption, NoJobKind, <1>a DEF TypeOK, Go, Opened, history
<1>0. /\ Processes = {"api", "daemon"}
      /\ Working = {"putIdentity", "putCanon", "putSpns", "dropSecret", "dropSpns", "dropCanon",
                    "dropIdentity", "mirror", "decide", "txn", "move", "putSecret", "finish"}
      /\ PutPhases = {"putIdentity", "putCanon", "putSpns"}
      /\ DropPhases = {"dropSecret", "dropSpns", "dropCanon", "dropIdentity"}
    BY DEF Processes, Working, PutPhases, DropPhases
\* Nothing that was open is reported, and nothing has its first statement next.
<1>1. ASSUME \A dn \in Dns : acked[dn] = Unknown => acked'[dn] = Unknown,
             \A p \in Processes : Opened(p)' => Opened(p) /\ job'[p] = job[p]
      PROVE  OpenedSound'
    BY <1>1, JobFields DEF OpenedSound
<1>2. CASE ApiStart \/ ApiStartsBlind
    BY <1>0, <1>1, <1>2 DEF ApiStart, ApiStartsBlind, StartFrom
<1>3. ASSUME NEW dn \in Dns, Rewrite(dn) PROVE OpenedSound'
    <2>1. job'["api"].kind = "start" /\ job'["daemon"] = job["daemon"]
          /\ at'["daemon"] = at["daemon"] /\ acked' = acked
        BY <1>0, <1>3 DEF Rewrite
    <2>2. QED
        BY <1>0, <1>1, <2>1
<1>4. CASE Rewritten \/ Serve \/ (\E dn \in Dns : Bootstrap(dn))
    BY <1>0, <1>1, <1>4 DEF Rewritten, Serve, Bootstrap
<1>5. CASE ApiBegins \/ DaemonBegins
    <2>1. PICK p \in Processes, j \in Job : Fresh(p, j)
        BY <1>5, BeginsJob
    <2>2. \A q \in Processes \ {p} : at'[q] = at[q] /\ job'[q] = job[q]
        BY <2>1 DEF Fresh
    <2>3. job'[p] = j /\ j.dn \in Dns /\ j.old \in Dns
        BY <2>1 DEF Fresh, Job
    <2>4. CASE at'[p] = "mirror" /\ acked' = acked
        BY <1>1, <2>2, <2>4
    <2>5. CASE Open({j.old, j.dn})
        <3>1. /\ \A dn \in Dns : acked[dn] = Unknown => acked'[dn] = Unknown
              /\ acked'[j.dn] = Unknown /\ acked'[j.old] = Unknown
            BY <2>3, <2>5 DEF Open
        <3>2. QED
            BY <2>2, <2>3, <3>1, JobFields DEF OpenedSound
    <2>6. QED
        BY <2>1, <2>4, <2>5 DEF Fresh
<1>6. CASE MoveSecret \/ Mirror \/ DaemonStops \/ GivesUp
    BY <1>0, <1>1, <1>6 DEF MoveSecret, Mirror, DaemonStops, GivesUp, JobSound
\* What one reports is not what the other has open.
<1>7. ASSUME NEW p \in Processes, at[p] = "finish", at'[p] \in {"idle", "start"},
             acked' \in {acked, Outcome(acked, job[p], job[p].val.op)},
             \A q \in Processes \ {p} : at'[q] = at[q] /\ job'[q] = job[q]
      PROVE  OpenedSound'
    <2>1. \A dn \in Dns \ {job[p].dn, job[p].old} : acked'[dn] = acked[dn]
        BY <1>7 DEF Outcome
    <2>2. ASSUME NEW q \in Processes \ {p}, Opened(q)
          PROVE  acked'[job[q].dn] = Unknown /\ acked'[job[q].old] = Unknown
        <3>1. Writing(p) /\ Writing(q)
            BY <1>0, <1>7, <2>2 DEF Writing
        <3>2. QED
            BY <2>1, <2>2, <3>1, WritersApart DEF OpenedSound
    <2>3. QED
        BY <1>0, <1>7, <2>2 DEF OpenedSound
<1>8. CASE ApiFinish \/ DaemonFinish
    <2>1. CASE ApiFinish
        BY <1>0, <1>7, <2>1 DEF ApiFinish
    <2>2. CASE DaemonFinish
        BY <1>0, <1>7, <2>2 DEF DaemonFinish
    <2>3. QED
        BY <1>8, <2>1, <2>2
<1>9. CASE Decide
    <2>1. CASE job["daemon"].kind = "read" \/ Refused(job["daemon"])
        BY <1>0, <1>1, <1>9, <2>1 DEF Decide, history
    <2>2. CASE ~(job["daemon"].kind = "read" \/ Refused(job["daemon"]))
        <3>1. /\ Open({job["daemon"].dn, job["daemon"].old})
              /\ at'["api"] = at["api"] /\ job'["api"] = job["api"]
              /\ job'["daemon"].dn = job["daemon"].dn /\ job'["daemon"].old = job["daemon"].old
            BY <1>0, <1>9, <2>2, DecidesOn
        <3>2. job["daemon"].dn \in Dns /\ job["daemon"].old \in Dns
            BY <1>0, <1>9, JobFields DEF Decide
        <3>3. /\ acked'[job["daemon"].dn] = Unknown /\ acked'[job["daemon"].old] = Unknown
              /\ \A dn \in Dns : acked[dn] = Unknown => acked'[dn] = Unknown
            BY <3>1, <3>2 DEF Open
        <3>4. QED
            BY <1>0, <3>1, <3>3, JobFields DEF OpenedSound
    <2>3. QED
        BY <2>1, <2>2
<1>10. CASE RenameTransaction
    <2>1. CASE at'["daemon"] = "idle"
        BY <1>0, <1>1, <1>10, <2>1 DEF RenameTransaction
    <2>2. CASE at'["daemon"] = "finish" /\ job' = job
        BY <1>0, <1>1, <1>10, <2>2 DEF RenameTransaction
    <2>3. QED
        BY <1>0, <1>10, <2>1, <2>2 DEF RenameTransaction
<1>11. ASSUME NEW p \in Processes, Persist(p) \/ Delete(p) PROVE OpenedSound'
    <2>1. CASE Stores(p) \/ Delete(p)
        <3>1. /\ at[p] \in PutPhases \cup DropPhases /\ UNCHANGED <<job, acked>>
              /\ \A q \in Processes \ {p} : at'[q] = at[q]
            BY <1>0, <2>1 DEF Stores, PutSpns, Delete, Drop, history
        <3>2. QED
            BY <1>0, <1>1, <3>1
    <2>2. QED
        BY <1>6, <1>11, <2>1, Persists
<1>12. ASSUME NEW p \in Processes, PutSecret(p) \/ Crash(p) PROVE OpenedSound'
    BY <1>0, <1>1, <1>12 DEF PutSecret, Crash, history
<1>13. CASE ApiSkips
    <2>1. /\ UNCHANGED <<job, acked>> /\ at'["daemon"] = at["daemon"]
          /\ \/ at["api"] = "bootstrap" /\ at'["api"] = "idle"
             \/ at["api"] \in Working \ {"mirror", "decide"}
        BY <1>0, <1>13 DEF ApiSkips
    <2>2. QED
        BY <1>0, <1>1, <2>1
<1>14. CASE UNCHANGED vars
    BY <1>14 DEF vars, OpenedSound
<1>15. QED
    BY NextCases, <1>2, <1>3, <1>4, <1>5, <1>6, <1>8, <1>9, <1>10, <1>11, <1>12, <1>13, <1>14

\* The statements of an operation are done in their order, unless a connection is lost.
LEMMA NextDone ==
    ASSUME Orderly, Apart, PutSound, DropSound, DoneSound, [Next]_vars
    PROVE  DoneSound'
<1>a. TypeOK /\ JobSound /\ PhaseSound
    BY DEF Orderly
<1> USE DirectoryAssumption, NoJobKind, <1>a DEF TypeOK, Go, Stored, Gone, store, history
<1>0. /\ Processes = {"api", "daemon"}
      /\ Working = {"putIdentity", "putCanon", "putSpns", "dropSecret", "dropSpns", "dropCanon",
                    "dropIdentity", "mirror", "decide", "txn", "move", "putSecret", "finish"}
      /\ PutPhases = {"putIdentity", "putCanon", "putSpns"}
      /\ DropPhases = {"dropSecret", "dropSpns", "dropCanon", "dropIdentity"}
      /\ None \notin Nat
    BY DEF Processes, Working, PutPhases, DropPhases
\* No table changes, and no operation is past its first statement.
<1>1. ASSUME UNCHANGED <<canon, identity, secrets, lost>>, NEW p \in Processes,
             at'[p] \in {"start", "bootstrap", "down", "idle", "mirror", "decide", "txn", "putIdentity"}
               \/ (at'[p] = "dropSecret" /\ job'[p].kind # "rename"),
             \A q \in Processes \ {p} :
                /\ at'[q] = at[q] /\ job'[q] = job[q]
                /\ q = "api" /\ Writing(q) /\ job[q].dn \in clashed => job[q].dn \in clashed'
      PROVE  DoneSound'
    BY <1>0, <1>1 DEF DoneSound, Writing
\* What a writer must have done, which changes rows of its own names only.
<1>2. ASSUME NEW p \in Processes, Writing(p), UNCHANGED lost, UNCHANGED job, clashed \subseteq clashed',
             \A q \in Processes \ {p} : at'[q] = at[q],
             \A dn \in Dns \ {job[p].dn, job[p].old} :
                canon'[dn] = canon[dn] /\ identity'[dn] = identity[dn] /\ secrets'[dn] = secrets[dn],
             lost = {} =>
                /\ at'[p] = "putCanon" => HasOp(identity'[job[p].dn], job[p].val.op)
                /\ Stored(p)' => /\ HasOp(identity'[job[p].dn], job[p].val.op)
                                 /\ \/ HasOp(canon'[job[p].dn], job[p].val.op)
                                    \/ p = "api" /\ job[p].dn \in clashed'
                /\ Gone(p)' => /\ canon'[job[p].old] = None /\ identity'[job[p].old] = None
                               /\ secrets'[job[p].old] = None
      PROVE  DoneSound'
    <2>1. ASSUME NEW q \in Processes \ {p}, at[q] = "putCanon" \/ Stored(q) \/ Gone(q)
          PROVE  /\ canon'[job[q].dn] = canon[job[q].dn] /\ identity'[job[q].dn] = identity[job[q].dn]
                 /\ canon'[job[q].old] = canon[job[q].old] /\ identity'[job[q].old] = identity[job[q].old]
                 /\ secrets'[job[q].old] = secrets[job[q].old]
        <3>1. Writing(q)
            BY <1>0, <2>1 DEF Writing
        <3>2. QED
            BY <1>2, <3>1, WritersApart
    <2>2. QED
        BY <1>0, <1>2, <2>1 DEF DoneSound
<1>3. CASE ApiStart \/ ApiSkips \/ ApiStartsBlind \/ DaemonStops
    <2>1. CASE ApiStart
        BY <1>0, <1>1, <2>1 DEF ApiStart, StartFrom
    <2>2. CASE ApiSkips \/ ApiStartsBlind \/ DaemonStops
        <3>1. lost' # {}
            BY <2>2 DEF ApiStartsBlind, ApiSkips, DaemonStops
        <3>2. QED
            BY <3>1 DEF DoneSound
    <2>3. QED
        BY <1>3, <2>1, <2>2
<1>4. CASE (\E dn \in Dns : Rewrite(dn)) \/ Rewritten \/ Serve
    BY <1>0, <1>1, <1>4 DEF Rewrite, Rewritten, Serve
<1>5. ASSUME NEW dn \in Dns, Bootstrap(dn) PROVE DoneSound'
    <2>1. at["api"] = "bootstrap" /\ at' = at /\ job' = job
        BY <1>0, <1>5 DEF Bootstrap
    <2>2. ~Writing("daemon")
        BY <2>1, StartsApart
    <2>3. QED
        BY <1>0, <2>1, <2>2 DEF DoneSound, Writing
<1>6. CASE ApiBegins \/ DaemonBegins
    <2>1. PICK p \in Processes, j \in Job : Fresh(p, j)
        BY <1>6, BeginsJob
    <2>2. p = "daemon" => UNCHANGED history
        BY <2>1 DEF Fresh
    <2>3. \A q \in Processes \ {p} : at'[q] = at[q] /\ job'[q] = job[q]
        BY <2>1 DEF Fresh
    <2>4. QED
        BY <1>0, <1>1, <2>1, <2>2, <2>3 DEF Fresh
<1>7. CASE MoveSecret
    <2>1. /\ at["api"] = "move" /\ at'["api"] = "dropSecret" /\ at'["daemon"] = at["daemon"]
          /\ UNCHANGED <<canon, identity, job, lost, clashed>>
          /\ \A dn \in Dns \ {job["api"].dn, job["api"].old} : secrets'[dn] = secrets[dn]
        BY <1>0, <1>7 DEF MoveSecret
    <2>2. Writing("api")
        BY <1>0, <2>1 DEF Writing
    <2>3. QED
        BY <1>0, <1>2, <2>1, <2>2 DEF DoneSound
<1>8. CASE ApiFinish
    BY <1>0, <1>1, <1>8 DEF ApiFinish
<1>9. CASE DaemonFinish
    BY <1>0, <1>1, <1>9 DEF DaemonFinish
<1>10. CASE Mirror
    <2>1. at["daemon"] = "mirror" /\ at'["daemon"] = "decide" /\ at'["api"] = at["api"]
          /\ UNCHANGED <<identity, secrets, job, lost>>
        BY <1>0, <1>10 DEF Mirror
    <2>2. \A dn \in Dns : /\ canon[dn] # None => canon'[dn] = canon[dn]
                          /\ canon[dn] = None /\ identity[dn] = None => canon'[dn] = None
        BY <1>10 DEF Mirror, Mirrored
    <2>3. at["api"] \in Working => job["api"].dn \in Dns /\ job["api"].old \in Dns
        BY <1>0, JobFields
    <2>4. ASSUME lost = {}
          PROVE  /\ at["api"] = "putCanon" => HasOp(identity[job["api"].dn], job["api"].val.op)
                 /\ Stored("api") => /\ HasOp(identity[job["api"].dn], job["api"].val.op)
                                     /\ \/ HasOp(canon'[job["api"].dn], job["api"].val.op)
                                        \/ job["api"].dn \in clashed
                 /\ Gone("api") => /\ canon'[job["api"].old] = None /\ identity[job["api"].old] = None
                                   /\ secrets[job["api"].old] = None
        <3>1. at["api"] = "putCanon" => HasOp(identity[job["api"].dn], job["api"].val.op)
            BY <1>0, <2>4 DEF DoneSound
        <3>2. ASSUME Stored("api")
              PROVE  /\ HasOp(identity[job["api"].dn], job["api"].val.op)
                     /\ \/ HasOp(canon'[job["api"].dn], job["api"].val.op)
                        \/ job["api"].dn \in clashed
            <4>1. /\ HasOp(identity[job["api"].dn], job["api"].val.op)
                  /\ \/ HasOp(canon[job["api"].dn], job["api"].val.op)
                     \/ job["api"].dn \in clashed
                BY <1>0, <2>4, <3>2 DEF DoneSound
            <4>2. job["api"].dn \in Dns
                BY <1>0, <2>3, <3>2
            <4>3. QED
                BY <2>2, <4>1, <4>2 DEF HasOp
        <3>3. ASSUME Gone("api")
              PROVE  /\ canon'[job["api"].old] = None /\ identity[job["api"].old] = None
                     /\ secrets[job["api"].old] = None
            <4>1. /\ canon[job["api"].old] = None /\ identity[job["api"].old] = None
                  /\ secrets[job["api"].old] = None
                BY <1>0, <2>4, <3>3 DEF DoneSound
            <4>2. job["api"].old \in Dns
                BY <1>0, <2>3, <3>3
            <4>3. QED
                BY <2>2, <4>1, <4>2
        <3>4. QED
            BY <3>1, <3>2, <3>3
    <2>5. job'["api"] = job["api"] /\ identity' = identity /\ secrets' = secrets /\ clashed' = clashed
          /\ lost' = lost
        BY <1>10 DEF Mirror
    <2>6. QED
        BY <1>0, <2>1, <2>4, <2>5 DEF DoneSound
<1>11. CASE Decide
    <2>1. CASE job["daemon"].kind = "read" \/ Refused(job["daemon"])
        BY <1>0, <1>1, <1>11, <2>1 DEF Decide
    <2>2. CASE ~(job["daemon"].kind = "read" \/ Refused(job["daemon"]))
        <3>1. /\ at["daemon"] = "decide" /\ job["daemon"].kind # "read"
              /\ UNCHANGED <<canon, identity, secrets, lost>>
              /\ at'["api"] = at["api"] /\ job'["api"] = job["api"]
              /\ at'["daemon"] = FirstStatement(job["daemon"])
              /\ job'["daemon"].kind = job["daemon"].kind
              /\ clashed' = clashed \ {job["daemon"].dn, job["daemon"].old}
            BY <1>0, <1>11, <2>2, DecidesOn DEF Decide, Open
        <3>2. FirstStatement(job["daemon"]) \in {"putIdentity", "txn"}
              \/ (FirstStatement(job["daemon"]) = "dropSecret" /\ job["daemon"].kind = "remove")
            BY DEF FirstStatement
        <3>3. Writing("api") /\ job["api"].dn \in clashed => job["api"].dn \in clashed'
            BY <3>1, DecidesApart
        <3>4. QED
            BY <1>0, <1>1, <3>1, <3>2, <3>3
    <2>3. QED
        BY <2>1, <2>2
<1>12. CASE RenameTransaction
    <2> DEFINE j == job["daemon"]
               Moved(f, v) == [f EXCEPT ![j.old] = None, ![j.dn] = v]
    <2>1. CASE UNCHANGED <<canon, identity, secrets>> /\ at'["daemon"] = "idle"
        BY <1>0, <1>1, <1>12, <2>1 DEF RenameTransaction
    <2>2. CASE /\ canon' = Moved(canon, j.val) /\ identity' = Moved(identity, j.val)
               /\ secrets' = IF secrets[j.old] # None THEN Moved(secrets, secrets[j.old]) ELSE secrets
               /\ at'["daemon"] = "finish" /\ job' = job
        <3>1. j.dn \in Dns /\ j.old \in Dns /\ j.kind = "modrdn"
            BY <1>0, <1>12, JobFields DEF RenameTransaction, PhaseSound
        <3>2. HasOp(canon'[j.dn], j.val.op) /\ HasOp(identity'[j.dn], j.val.op)
            <4>1. j.val \in Content
                BY <1>0, <1>12, JobFields DEF RenameTransaction
            <4>2. canon'[j.dn] = j.val /\ identity'[j.dn] = j.val
                BY <2>2, <3>1
            <4>3. QED
                BY <4>1, <4>2 DEF HasOp, Content
        <3>3. j.dn # j.old =>
                canon'[j.old] = None /\ identity'[j.old] = None /\ secrets'[j.old] = None
            BY <2>2, <3>1
        <3>4. at["daemon"] = "txn" /\ at'["api"] = at["api"] /\ lost' = lost /\ clashed' = clashed
            BY <1>0, <1>12 DEF RenameTransaction
        <3>5. \A dn \in Dns \ {j.dn, j.old} :
                canon'[dn] = canon[dn] /\ identity'[dn] = identity[dn] /\ secrets'[dn] = secrets[dn]
            BY <2>2
        <3>6. Writing("daemon")
            BY <1>0, <3>4 DEF Writing
        <3> HIDE DEF Moved
        <3>7. QED
            BY <1>0, <1>2, <2>2, <3>1, <3>2, <3>3, <3>4, <3>5, <3>6
    <2>3. QED
        BY <1>0, <1>12, <2>1, <2>2 DEF RenameTransaction
<1>13. ASSUME NEW p \in Processes, Stores(p) PROVE DoneSound'
    <2>1. /\ at[p] \in PutPhases /\ UNCHANGED <<job, lost, secrets>> /\ clashed \subseteq clashed'
          /\ \A q \in Processes \ {p} : at'[q] = at[q]
          /\ \A dn \in Dns \ {job[p].dn, job[p].old} : canon'[dn] = canon[dn] /\ identity'[dn] = identity[dn]
          /\ Writing(p)
        BY <1>0, <1>13 DEF Stores, PutSpns, Writing
    <2>2. job[p].dn \in Dns /\ job[p].kind \notin {"delete", "remove", "modrdn"}
          /\ \A row \in Content : Written(p, row) => HasOp(row, job[p].val.op)
        BY <1>0, <2>1, JobFields DEF PhaseSound, Written, HasOp, Content
    <2>3. CASE at[p] = "putIdentity"
        <3>1. at'[p] = "putCanon" /\ HasOp(identity'[job[p].dn], job[p].val.op)
            BY <1>13, <2>2, <2>3 DEF Stores, PutSpns
        <3>2. QED
            BY <1>0, <1>2, <2>1, <3>1
    <2>4. CASE at[p] = "putCanon"
        <3>1. /\ at'[p] = "putSpns" /\ identity' = identity
              /\ HasOp(canon'[job[p].dn], job[p].val.op) \/ (p = "api" /\ job[p].dn \in clashed')
            BY <1>13, <2>2, <2>4 DEF Stores, PutSpns
        <3>2. QED
            BY <1>0, <1>2, <2>1, <2>4, <3>1 DEF DoneSound
    <2>5. CASE at[p] = "putSpns"
        <3>1. at'[p] = AfterPut(job[p]) /\ identity' = identity /\ canon' = canon /\ clashed' = clashed
            BY <1>13, <2>5 DEF Stores, PutSpns
        <3>2. /\ job[p].kind = "rename" => AfterPut(job[p]) \in {"dropSecret", "move"}
              /\ job[p].kind # "rename" => AfterPut(job[p]) \in {"putSecret", "finish"}
            BY DEF AfterPut
        <3>3. QED
            BY <1>0, <1>2, <2>1, <2>2, <2>5, <3>1, <3>2 DEF DoneSound
    <2>6. QED
        BY <1>0, <2>1, <2>3, <2>4, <2>5
<1>13a. CASE GivesUp
    BY <1>0, <1>1, <1>13a DEF GivesUp
<1>14. ASSUME NEW p \in Processes, Delete(p) PROVE DoneSound'
    <2>1. /\ at[p] \in DropPhases /\ UNCHANGED <<job, lost, clashed>>
          /\ \A q \in Processes \ {p} : at'[q] = at[q]
          /\ \A dn \in Dns \ {job[p].dn, job[p].old} :
                canon'[dn] = canon[dn] /\ identity'[dn] = identity[dn] /\ secrets'[dn] = secrets[dn]
          /\ Writing(p)
        BY <1>0, <1>14 DEF Delete, Drop, Dropped, Writing
    <2>2. /\ job[p].dn \in Dns /\ job[p].old \in Dns /\ Dropped(job[p]) = job[p].old
          /\ job[p].kind \in {"delete", "remove", "rename"}
          /\ job[p].kind = "rename" => job[p].dn # job[p].old
        BY <1>0, <2>1, JobFields DEF PhaseSound, JobSound, Dropped
    <2>3. CASE at[p] # "dropIdentity"
        <3>1. at'[p] \in DropPhases /\ identity' = identity
              /\ canon' \in {canon, [canon EXCEPT ![job[p].old] = None]}
            BY <1>0, <1>14, <2>1, <2>2, <2>3 DEF Delete, Drop
        <3>2. job[p].kind = "rename" => canon'[job[p].dn] = canon[job[p].dn]
            BY <2>2, <3>1
        <3>3. QED
            BY <1>0, <1>2, <2>1, <3>1, <3>2 DEF DoneSound
    <2>4. CASE at[p] = "dropIdentity"
        <3>1. /\ at'[p] = AfterDrop(job[p]) /\ identity' = [identity EXCEPT ![job[p].old] = None]
              /\ canon' = canon /\ secrets' = secrets
            BY <1>14, <2>2, <2>4 DEF Delete, Drop
        <3>2. canon[job[p].old] = None /\ secrets[job[p].old] = None
            BY <2>2, <2>4 DEF PutSound, DropSound
        <3>3. identity'[job[p].old] = None
              /\ (job[p].kind = "rename" => identity'[job[p].dn] = identity[job[p].dn])
            BY <2>2, <3>1
        <3>4. AfterDrop(job[p]) \in {"putSecret", "finish"}
              /\ (AfterDrop(job[p]) = "putSecret" => job[p].kind = "rename")
            BY DEF AfterDrop
        <3>5. QED
            BY <1>0, <1>2, <2>1, <2>2, <2>4, <3>1, <3>2, <3>3, <3>4 DEF DoneSound
    <2>5. QED
        BY <2>3, <2>4
<1>15. ASSUME NEW p \in Processes, PutSecret(p) PROVE DoneSound'
    <2>1. /\ at[p] = "putSecret" /\ at'[p] = "finish" /\ UNCHANGED <<canon, identity, job, lost, clashed>>
          /\ \A q \in Processes \ {p} : at'[q] = at[q]
          /\ secrets' = [secrets EXCEPT ![job[p].dn] = job[p].val.op]
          /\ \A dn \in Dns \ {job[p].dn, job[p].old} : secrets'[dn] = secrets[dn]
          /\ Writing(p)
        BY <1>0, <1>15 DEF PutSecret, Writing
    <2>2. job[p].dn \in Dns /\ (job[p].kind = "rename" => job[p].dn # job[p].old)
          /\ job[p].kind \notin {"delete", "remove", "modrdn"}
        BY <1>0, <2>1, JobFields DEF PhaseSound, JobSound
    <2>3. job[p].kind = "rename" => secrets'[job[p].old] = secrets[job[p].old]
        BY <1>0, <2>1, <2>2, JobFields
    <2>4. QED
        BY <1>0, <1>2, <2>1, <2>2, <2>3 DEF DoneSound
<1>16. ASSUME NEW p \in Processes, Crash(p) PROVE DoneSound'
    BY <1>0, <1>1, <1>16 DEF Crash
<1>17. CASE UNCHANGED vars
    BY <1>17 DEF vars, DoneSound
<1>18. QED
    BY NextCases, Persists, <1>3, <1>4, <1>5, <1>6, <1>7, <1>8, <1>9, <1>10, <1>11, <1>12, <1>13, <1>13a, <1>14,
       <1>15, <1>16, <1>17

\* A start of the API writes back what was reported, and has all seeds.
LEMMA NextStart ==
    ASSUME Orderly, Apart, AckedStored, StartSound, [Next]_vars
    PROVE  StartSound'
<1>a. TypeOK /\ JobSound
    BY DEF Orderly
<1> USE DirectoryAssumption, NoJobKind, <1>a DEF TypeOK, Go, Starting, store, history
<1>0. /\ Processes = {"api", "daemon"}
      /\ Working = {"putIdentity", "putCanon", "putSpns", "dropSecret", "dropSpns", "dropCanon",
                    "dropIdentity", "mirror", "decide", "txn", "move", "putSecret", "finish"}
      /\ PutPhases = {"putIdentity", "putCanon", "putSpns"}
      /\ DropPhases = {"dropSecret", "dropSpns", "dropCanon", "dropIdentity"}
      /\ None \notin Nat
    BY DEF Processes, Working, PutPhases, DropPhases
\* A step that is not of a start.
<1>1. ASSUME at'["api"] \notin {"start", "bootstrap"}, job'["api"].kind # "start" PROVE StartSound'
    BY <1>1 DEF StartSound
\* A step of a start, which reports nothing.
<1>2. ASSUME UNCHANGED <<view, acked>>, lost \subseteq lost', clashed \subseteq clashed',
             Starting' \/ at'["api"] = "bootstrap", Starting \/ at["api"] = "bootstrap",
             job'["api"].kind = "start" => job'["api"].val = view[job'["api"].dn]
      PROVE  StartSound'
    BY <1>2 DEF StartSound
\* A step of the daemon, which may open what it touches.
<1>2a. ASSUME UNCHANGED view, lost \subseteq lost', at'["api"] = at["api"], job'["api"] = job["api"],
              \A dn \in Dns : acked'[dn] # Unknown =>
                                acked'[dn] = acked[dn] /\ (dn \in clashed => dn \in clashed')
       PROVE  StartSound'
    BY <1>0, <1>2a DEF StartSound
<1>2b. ASSUME NEW dns, Open(dns), NEW dn \in Dns, acked'[dn] # Unknown
       PROVE  acked'[dn] = acked[dn] /\ (dn \in clashed => dn \in clashed')
    BY <1>2b DEF Open
<1>3. ASSUME Writing("daemon"), at'["api"] = at["api"], job'["api"] = job["api"]
      PROVE  StartSound'
    BY <1>1, <1>3, StartsApart
<1>4. ASSUME NEW f \in [Dns -> Row], StartFrom(f),
             lost' = {} => f = Loaded /\ lost = {}
      PROVE  StartSound'
    <2>1. at["api"] = "down" /\ at'["api"] = "start" /\ job' = job
        BY <1>0, <1>4 DEF StartFrom
    <2>2. job["api"] = NoJob
        BY <1>0, <2>1 DEF JobSound
    <2>3. ASSUME NEW dn \in Seeds PROVE view'[dn] # None
        BY <1>0, <1>4, <2>3 DEF StartFrom
    <2>4. ASSUME NEW dn \in Dns, lost' = {}, acked'[dn] # Unknown
          PROVE  /\ acked'[dn] = None => view'[dn] = None
                 /\ acked'[dn] \in Nat /\ dn \notin clashed' => HasOp(view'[dn], acked'[dn])
        <3>1. /\ acked'[dn] = acked[dn] /\ view'[dn] \in {None, canon[dn]} /\ clashed' = clashed
              /\ Loaded[dn] # None => view'[dn] = Loaded[dn]
            BY <1>4, <2>4 DEF StartFrom
        <3>2. /\ acked[dn] \in Nat /\ dn \notin clashed => HasOp(canon[dn], acked[dn])
              /\ acked[dn] = None => canon[dn] = None
            BY <1>4, <2>4, <3>1 DEF AckedStored
        <3>3. canon[dn] # None => Loaded[dn] = canon[dn]
            BY DEF Loaded
        <3>4. QED
            BY <1>0, <3>1, <3>2, <3>3 DEF HasOp
    <2>5. QED
        BY <1>0, <2>1, <2>2, <2>3, <2>4 DEF StartSound
<1>5. CASE ApiStart \/ ApiStartsBlind
    <2>1. CASE ApiStart
        <3>1. Loaded \in [Dns -> Row]
            BY DEF Loaded
        <3>2. QED
            BY <1>4, <2>1, <3>1 DEF ApiStart
    <2>2. CASE ApiStartsBlind
        <3>1. [dn \in Dns |-> None] \in [Dns -> Row]
            BY DEF Row
        <3>2. lost' # {} /\ StartFrom([dn \in Dns |-> None])
            BY <2>2 DEF ApiStartsBlind
        <3>3. QED
            BY <1>4, <3>1, <3>2
    <2>3. QED
        BY <1>5, <2>1, <2>2
<1>6. ASSUME NEW dn \in Dns, Rewrite(dn) PROVE StartSound'
    <2>1. job'["api"] = [kind |-> "start", dn |-> dn, old |-> dn, val |-> view[dn], pw |-> FALSE]
          /\ at["api"] = "start" /\ UNCHANGED <<view, acked, clashed, lost>>
        BY <1>0, <1>6 DEF Rewrite
    <2>2. QED
        BY <1>2, <2>1
<1>7. CASE Rewritten \/ (\E dn \in Dns : Bootstrap(dn))
    <2>1. at["api"] \in {"start", "bootstrap"} /\ at'["api"] = "bootstrap" /\ job' = job
          /\ UNCHANGED <<view, acked, clashed, lost>>
        BY <1>0, <1>7 DEF Rewritten, Bootstrap
    <2>2. job["api"].kind # "start"
        BY <1>0, <2>1 DEF JobSound
    <2>3. QED
        BY <1>2, <2>1, <2>2
<1>8. CASE Serve \/ MoveSecret
    <2>1. job' = job /\ at'["api"] \in {"idle", "dropSecret"} /\ job["api"].kind # "start"
        BY <1>0, <1>8 DEF Serve, MoveSecret, JobSound
    <2>2. QED
        BY <1>1, <2>1
<1>9. CASE ApiFinish
    <2>1. CASE job["api"].kind = "start"
        <3>1. at'["api"] = "start" /\ job'["api"] = NoJob /\ UNCHANGED <<view, acked, clashed, lost>>
            BY <1>0, <1>9, <2>1 DEF ApiFinish
        <3>2. QED
            BY <1>2, <2>1, <3>1
    <2>2. CASE job["api"].kind # "start"
        BY <1>0, <1>1, <1>9, <2>2 DEF ApiFinish
    <2>3. QED
        BY <2>1, <2>2
<1>10. CASE ApiBegins \/ DaemonBegins
    <2>1. PICK p \in Processes, j \in Job : Fresh(p, j)
        BY <1>10, BeginsJob
    <2>2. CASE p = "api"
        BY <1>0, <1>1, <2>1, <2>2 DEF Fresh
    <2>3. CASE p = "daemon"
        <3>1. at'["api"] = at["api"] /\ job'["api"] = job["api"] /\ view' = view /\ lost' = lost
            BY <1>0, <2>1, <2>3 DEF Fresh
        <3>2. UNCHANGED history \/ Open({j.old, j.dn})
            BY <2>1 DEF Fresh
        <3>3. QED
            BY <1>2a, <1>2b, <3>1, <3>2
    <2>4. QED
        BY <1>0, <2>2, <2>3
<1>11. CASE Mirror \/ Decide \/ RenameTransaction \/ DaemonFinish \/ DaemonStops \/ GivesUp
    <2>1. CASE RenameTransaction \/ DaemonFinish
        BY <1>0, <1>3, <2>1 DEF RenameTransaction, DaemonFinish, Writing
    <2>2. CASE Mirror \/ DaemonStops \/ GivesUp
        BY <1>0, <1>2a, <2>2 DEF Mirror, DaemonStops, GivesUp
    <2>3. CASE Decide
        <3>1. view' = view /\ lost' = lost /\ at'["api"] = at["api"] /\ job'["api"] = job["api"]
              /\ (UNCHANGED history \/ Open({job["daemon"].dn, job["daemon"].old}))
            BY <1>0, <2>3 DEF Decide
        <3>2. QED
            BY <1>2a, <1>2b, <3>1
    <2>4. QED
        BY <1>11, <2>1, <2>2, <2>3
<1>12. ASSUME Persist("daemon") \/ Delete("daemon") \/ PutSecret("daemon") PROVE StartSound'
    <2>1. CASE Stores("daemon") \/ Delete("daemon") \/ PutSecret("daemon")
        <3>1. Writing("daemon") /\ at'["api"] = at["api"] /\ job' = job
            BY <1>0, <2>1 DEF Stores, PutSpns, Delete, Drop, PutSecret, Writing
        <3>2. QED
            BY <1>3, <3>1
    <2>2. QED
        BY <1>0, <1>11, <1>12, <2>1, Persists
<1>13. ASSUME Delete("api") \/ PutSecret("api") PROVE StartSound'
    <2>1. /\ at["api"] \in DropPhases \cup {"putSecret"} /\ job' = job
          /\ at'["api"] \notin {"start", "bootstrap"}
        BY <1>0, <1>13 DEF Delete, Drop, AfterDrop, PutSecret
    <2>2. job["api"].kind # "start"
        BY <1>0, <2>1 DEF JobSound
    <2>3. QED
        BY <1>1, <2>1, <2>2
<1>14. CASE Persist("api")
    <2>0. Stores("api")
        BY <1>0, <1>14, Persists
    <2>1. /\ at'["api"] \notin {"start", "bootstrap"} /\ UNCHANGED <<view, acked, lost, job>>
          /\ at["api"] \in PutPhases /\ clashed \subseteq clashed'
        BY <1>0, <2>0 DEF Stores, PutSpns, AfterPut
    <2>2. QED
        BY <1>0, <2>1 DEF StartSound
<1>15. ASSUME NEW p \in Processes, Crash(p) PROVE StartSound'
    <2>1. CASE p = "api"
        BY <1>0, <1>1, <1>15, <2>1 DEF Crash
    <2>2. CASE p = "daemon"
        BY <1>0, <1>2a, <1>15, <2>2 DEF Crash
    <2>3. QED
        BY <1>0, <2>1, <2>2
<1>16. CASE ApiSkips
    <2>1. lost' # {} /\ lost \subseteq lost' /\ UNCHANGED <<view, acked, job>>
          /\ at'["api"] \notin {"start", "bootstrap"}
        BY <1>0, <1>16 DEF ApiSkips, AfterPut, AfterDrop
    <2>2. QED
        BY <2>1 DEF StartSound
<1>17. CASE UNCHANGED vars
    BY <1>17 DEF vars, StartSound
<1>18. QED
    BY <1>0, NextCases, <1>5, <1>6, <1>7, <1>8, <1>9, <1>10, <1>11, <1>12, <1>13, <1>14, <1>15,
       <1>16, <1>17

\* Object by object, a start of the API makes the two tables agree.
LEMMA NextSettled ==
    ASSUME Orderly, Apart, StartSound, SettledSound, [Next]_vars
    PROVE  SettledSound'
<1>a. TypeOK /\ JobSound
    BY DEF Orderly
<1> USE DirectoryAssumption, NoJobKind, <1>a DEF TypeOK, Go, Starting, store, history
<1>0. /\ Processes = {"api", "daemon"}
      /\ Working = {"putIdentity", "putCanon", "putSpns", "dropSecret", "dropSpns", "dropCanon",
                    "dropIdentity", "mirror", "decide", "txn", "move", "putSecret", "finish"}
      /\ PutPhases = {"putIdentity", "putCanon", "putSpns"}
      /\ DropPhases = {"dropSecret", "dropSpns", "dropCanon", "dropIdentity"}
      /\ None \notin Nat
    BY DEF Processes, Working, PutPhases, DropPhases
<1>1. ASSUME at'["api"] \notin {"start", "bootstrap"}, job'["api"].kind # "start" PROVE SettledSound'
    BY <1>1 DEF SettledSound
<1>2. ASSUME UNCHANGED <<canon, identity, todo>>, lost \subseteq lost', at'["api"] = at["api"],
             job'["api"] = job["api"], UNCHANGED view
      PROVE  SettledSound'
    BY <1>2 DEF SettledSound
<1>3. ASSUME Writing("daemon"), at'["api"] = at["api"], job'["api"] = job["api"]
      PROVE  SettledSound'
    BY <1>1, <1>3, StartsApart
<1>4. CASE ApiStart \/ ApiStartsBlind
    <2>1. CASE ApiStart
        <3>1. /\ at'["api"] = "start" /\ job'["api"] = NoJob /\ canon' = canon
              /\ \A dn \in Dns : canon[dn] # None => view'[dn] = canon[dn]
              /\ todo' = {dn \in Dns : view'[dn] # None}
            BY <1>0, <2>1 DEF ApiStart, StartFrom, JobSound, Loaded
        <3>2. QED
            BY <3>1 DEF SettledSound
    <2>2. CASE ApiStartsBlind
        BY <2>2 DEF ApiStartsBlind, SettledSound
    <2>3. QED
        BY <1>4, <2>1, <2>2
<1>5. ASSUME NEW dn \in Dns, Rewrite(dn) PROVE SettledSound'
    <2>1. job'["api"] = [kind |-> "start", dn |-> dn, old |-> dn, val |-> view[dn], pw |-> FALSE]
          /\ at["api"] = "start" /\ at'["api"] = "putIdentity" /\ todo' = todo \ {dn}
          /\ UNCHANGED <<canon, identity, view, lost>>
        BY <1>0, <1>5 DEF Rewrite
    <2>2. job["api"] = NoJob
        BY <1>0, <2>1 DEF JobSound
    <2>3. QED
        BY <2>1, <2>2 DEF SettledSound
<1>6. CASE Rewritten
    <2>1. at["api"] = "start" /\ at'["api"] = "bootstrap" /\ todo = {} /\ job' = job
          /\ UNCHANGED <<canon, identity, lost>>
        BY <1>0, <1>6 DEF Rewritten
    <2>2. job["api"] = NoJob
        BY <1>0, <2>1 DEF JobSound
    <2>3. QED
        BY <2>1, <2>2 DEF SettledSound
<1>7. ASSUME NEW dn \in Dns, Bootstrap(dn) PROVE SettledSound'
    <2>1. at["api"] = "bootstrap" /\ at' = at /\ job' = job /\ UNCHANGED <<canon, identity, lost>>
        BY <1>0, <1>7 DEF Bootstrap
    <2>2. job["api"] = NoJob
        BY <1>0, <2>1 DEF JobSound
    <2>3. QED
        BY <2>1, <2>2 DEF SettledSound
<1>8. CASE Serve \/ MoveSecret
    <2>1. job' = job /\ at'["api"] \in {"idle", "dropSecret"} /\ job["api"].kind # "start"
        BY <1>0, <1>8 DEF Serve, MoveSecret, JobSound
    <2>2. QED
        BY <1>1, <2>1
<1>9. CASE ApiFinish
    <2>1. CASE job["api"].kind = "start"
        <3>1. at["api"] = "finish" /\ at'["api"] = "start" /\ job'["api"] = NoJob
              /\ UNCHANGED <<canon, identity, view, todo, lost>>
            BY <1>0, <1>9, <2>1 DEF ApiFinish
        <3>2. QED
            BY <2>1, <3>1 DEF SettledSound
    <2>2. CASE job["api"].kind # "start"
        BY <1>0, <1>1, <1>9, <2>2 DEF ApiFinish
    <2>3. QED
        BY <2>1, <2>2
<1>10. CASE ApiBegins \/ DaemonBegins
    <2>1. PICK p \in Processes, j \in Job : Fresh(p, j)
        BY <1>10, BeginsJob
    <2>2. CASE p = "api"
        BY <1>0, <1>1, <2>1, <2>2 DEF Fresh
    <2>3. CASE p = "daemon"
        BY <1>0, <1>2, <2>1, <2>3 DEF Fresh
    <2>4. QED
        BY <1>0, <2>2, <2>3
<1>11. CASE Mirror \/ RenameTransaction \/ DaemonFinish
    <2>1. CASE Mirror
        <3>1. /\ UNCHANGED <<identity, todo, lost>> /\ at'["api"] = at["api"] /\ job'["api"] = job["api"]
              /\ \A dn \in Dns : canon'[dn] \in {canon[dn], identity[dn]}
              /\ \A dn \in Dns : canon[dn] # None => canon'[dn] = canon[dn]
            BY <1>0, <2>1 DEF Mirror, Mirrored
        <3>2. ~Starting
            BY <2>1 DEF Mirror, Apart
        <3>3. QED
            BY <3>1, <3>2 DEF SettledSound
    <2>2. CASE RenameTransaction \/ DaemonFinish
        BY <1>0, <1>3, <2>2 DEF RenameTransaction, DaemonFinish, Writing
    <2>3. QED
        BY <1>11, <2>1, <2>2
<1>12. CASE Decide \/ DaemonStops \/ GivesUp
    BY <1>0, <1>2, <1>12 DEF Decide, DaemonStops, GivesUp
<1>13. ASSUME Persist("daemon") \/ Delete("daemon") \/ PutSecret("daemon") PROVE SettledSound'
    <2>1. CASE Stores("daemon") \/ Delete("daemon") \/ PutSecret("daemon")
        <3>1. Writing("daemon") /\ at'["api"] = at["api"] /\ job' = job
            BY <1>0, <2>1 DEF Stores, PutSpns, Delete, Drop, PutSecret, Writing
        <3>2. QED
            BY <1>3, <3>1
    <2>2. QED
        BY <1>0, <1>12, <1>13, <2>1, Persists
<1>14. ASSUME Delete("api") \/ PutSecret("api") PROVE SettledSound'
    <2>1. /\ at["api"] \in DropPhases \cup {"putSecret"} /\ job' = job
          /\ at'["api"] \notin {"start", "bootstrap"}
        BY <1>0, <1>14 DEF Delete, Drop, AfterDrop, PutSecret
    <2>2. job["api"].kind # "start"
        BY <1>0, <2>1 DEF JobSound
    <2>3. QED
        BY <1>1, <2>1, <2>2
<1>15. CASE Persist("api")
    <2> DEFINE j == job["api"]
    <2>0. Stores("api") /\ j.dn \in Dns
        BY <1>0, <1>15, Persists
    <2>1. /\ at'["api"] \notin {"start", "bootstrap"} /\ UNCHANGED <<todo, lost, job, view>>
          /\ at["api"] \in PutPhases
        BY <1>0, <2>0 DEF Stores, PutSpns, AfterPut
    <2>2. SUFFICES ASSUME j.kind = "start", "api" \notin lost PROVE SettledSound'
        BY <1>1, <2>1 DEF SettledSound
    <2>2a. j.val = view[j.dn] /\ \A row \in Content : Written("api", row) => row = j.val
        BY <2>2 DEF StartSound, Written
    <2>3. CASE at["api"] = "putIdentity"
        <3>1. /\ at'["api"] = "putCanon" /\ identity' = [identity EXCEPT ![j.dn] = j.val]
              /\ canon' = canon
            BY <1>0, <2>0, <2>2a, <2>3 DEF Stores, PutSpns
        <3>2. QED
            BY <2>0, <2>1, <2>2, <2>3, <3>1 DEF SettledSound
    <2>4. CASE at["api"] = "putCanon"
        <3>1. /\ at'["api"] = "putSpns" /\ canon' \in {canon, [canon EXCEPT ![j.dn] = j.val]}
              /\ identity' = identity
            BY <1>0, <2>0, <2>2a, <2>4 DEF Stores, PutSpns
        <3>2. identity[j.dn] = j.val
            BY <2>2, <2>4 DEF SettledSound
        <3>3. QED
            BY <2>0, <2>1, <2>2, <2>2a, <2>4, <3>1, <3>2 DEF SettledSound
    <2>5. CASE at["api"] = "putSpns"
        <3>1. at'["api"] \notin {"putIdentity", "putCanon"} /\ canon' = canon /\ identity' = identity
            BY <1>0, <2>0, <2>5 DEF Stores, PutSpns, AfterPut
        <3>2. QED
            BY <2>1, <2>2, <2>5, <3>1 DEF SettledSound
    <2>6. QED
        BY <1>0, <2>1, <2>3, <2>4, <2>5
<1>16. ASSUME NEW p \in Processes, Crash(p) PROVE SettledSound'
    <2>1. CASE p = "api"
        BY <1>0, <1>1, <1>16, <2>1 DEF Crash
    <2>2. CASE p = "daemon"
        BY <1>0, <1>2, <1>16, <2>2 DEF Crash
    <2>3. QED
        BY <1>0, <2>1, <2>2
<1>17. CASE ApiSkips
    BY <1>17 DEF ApiSkips, SettledSound
<1>18. CASE UNCHANGED vars
    BY <1>18 DEF vars, SettledSound
<1>19. QED
    BY <1>0, NextCases, <1>4, <1>5, <1>6, <1>7, <1>8, <1>9, <1>10, <1>11, <1>12, <1>13, <1>14, <1>15,
       <1>16, <1>17, <1>18

\* What was reported is stored: only what is open changes.
LEMMA NextAcked ==
    ASSUME TypeOK, JobSound, TodoSound, PhaseSound, OpenedSound, DoneSound, StartSound,
           AckedStored, [Next]_vars
    PROVE  AckedStored'
<1> USE DirectoryAssumption, NoJobKind DEF TypeOK, Go, store, history
<1>0. /\ Processes = {"api", "daemon"}
      /\ Working = {"putIdentity", "putCanon", "putSpns", "dropSecret", "dropSpns", "dropCanon",
                    "dropIdentity", "mirror", "decide", "txn", "move", "putSecret", "finish"}
      /\ PutPhases = {"putIdentity", "putCanon", "putSpns"}
      /\ DropPhases = {"dropSecret", "dropSpns", "dropCanon", "dropIdentity"}
      /\ None \notin Nat /\ Unknown \notin Nat /\ None # Unknown
    BY DEF Processes, Working, PutPhases, DropPhases
<1>1. ASSUME UNCHANGED <<canon, identity, secrets>>, lost \subseteq lost',
             \A dn \in Dns : acked'[dn] # Unknown =>
                                acked'[dn] = acked[dn] /\ (dn \in clashed => dn \in clashed')
      PROVE  AckedStored'
    BY <1>0, <1>1 DEF AckedStored
<1>1a. ASSUME NEW dns, Open(dns), NEW dn \in Dns, acked'[dn] # Unknown
       PROVE  acked'[dn] = acked[dn] /\ (dn \in clashed => dn \in clashed')
    BY <1>1a DEF Open
\* The tables change at names that are open.
<1>2. ASSUME NEW p \in Processes, Opened(p), UNCHANGED <<acked, lost>>, clashed \subseteq clashed',
             \A dn \in Dns \ {job[p].dn, job[p].old} :
                canon'[dn] = canon[dn] /\ identity'[dn] = identity[dn] /\ secrets'[dn] = secrets[dn]
      PROVE  AckedStored'
    <2>1. acked[job[p].dn] = Unknown /\ acked[job[p].old] = Unknown
        BY <1>2 DEF OpenedSound
    <2>2. QED
        BY <1>0, <1>2, <2>1 DEF AckedStored
<1>3. CASE ApiStart \/ ApiStartsBlind
    BY <1>1, <1>3 DEF ApiStart, ApiStartsBlind, StartFrom
<1>4. CASE (\E dn \in Dns : Rewrite(dn)) \/ Rewritten \/ Serve
    BY <1>1, <1>4 DEF Rewrite, Rewritten, Serve
<1>5. ASSUME NEW dn \in Dns, Bootstrap(dn) PROVE AckedStored'
    <2>1. /\ at["api"] = "bootstrap" /\ dn \in Seeds /\ UNCHANGED <<canon, identity, acked, clashed, lost>>
          /\ \A d \in Dns \ {dn} : secrets'[d] = secrets[d]
        BY <1>5 DEF Bootstrap, TodoSound
    <2>2. lost = {} => acked[dn] # None
        BY <2>1 DEF StartSound
    <2>3. QED
        BY <1>0, <2>1, <2>2 DEF AckedStored
<1>6. CASE ApiBegins \/ DaemonBegins
    <2>1. PICK p \in Processes, j \in Job : Fresh(p, j)
        BY <1>6, BeginsJob
    <2>2. UNCHANGED history \/ Open({j.old, j.dn})
        BY <2>1 DEF Fresh
    <2>3. QED
        BY <1>1, <1>1a, <2>1, <2>2 DEF Fresh
<1>7. CASE MoveSecret
    <2>1. Opened("api")
        BY <1>0, <1>7 DEF MoveSecret, Opened, JobSound
    <2>2. \A dn \in Dns \ {job["api"].dn, job["api"].old} : secrets'[dn] = secrets[dn]
        BY <1>7 DEF MoveSecret
    <2>3. QED
        BY <1>0, <1>2, <1>7, <2>1, <2>2 DEF MoveSecret
<1>8. ASSUME NEW p \in Processes, at[p] = "finish", acked' = Outcome(acked, job[p], job[p].val.op),
             UNCHANGED <<canon, identity, secrets, clashed, lost>>
      PROVE  AckedStored'
    <2> DEFINE j == job[p]
    <2>1. /\ j \in Job /\ j.dn \in Dns /\ j.old \in Dns /\ j.val.op \in Nat
          /\ j.kind \notin {"rename", "modrdn"} => j.old = j.dn
        BY <1>0, <1>8, JobFields DEF PhaseSound
    <2>2. ASSUME lost = {}
          PROVE  /\ j.kind \notin {"delete", "remove"} =>
                        /\ HasOp(identity[j.dn], j.val.op)
                        /\ HasOp(canon[j.dn], j.val.op) \/ j.dn \in clashed
                 /\ j.old # j.dn \/ j.kind \in {"delete", "remove"} =>
                        canon[j.old] = None /\ identity[j.old] = None /\ secrets[j.old] = None
        BY <1>8, <2>1, <2>2 DEF DoneSound, Stored, Gone
    <2>3. SUFFICES ASSUME lost = {}, NEW dn \in Dns
                   PROVE  /\ acked'[dn] \in Nat /\ dn \notin clashed =>
                                HasOp(canon[dn], acked'[dn]) /\ HasOp(identity[dn], acked'[dn])
                          /\ acked'[dn] = None =>
                                canon[dn] = None /\ identity[dn] = None /\ secrets[dn] = None
        BY <1>8 DEF AckedStored
    <2>4. CASE dn \notin {j.dn, j.old}
        <3>1. acked'[dn] = acked[dn]
            BY <1>8, <2>4 DEF Outcome
        <3>2. QED
            BY <2>3, <3>1 DEF AckedStored
    <2>5. CASE dn \in {j.dn, j.old}
        <3>1. acked'[dn] = IF dn = j.dn /\ j.kind \notin {"delete", "remove"} THEN j.val.op ELSE None
            BY <1>8, <2>5 DEF Outcome
        <3> HIDE DEF j
        <3>2. QED
            BY <1>0, <2>1, <2>2, <2>3, <2>5, <3>1
    <2>6. QED
        BY <2>4, <2>5
<1>9. CASE ApiFinish
    <2>1. CASE job["api"].kind = "start"
        BY <1>1, <1>9, <2>1 DEF ApiFinish
    <2>2. CASE job["api"].kind # "start"
        BY <1>0, <1>8, <1>9, <2>2 DEF ApiFinish
    <2>3. QED
        BY <2>1, <2>2
<1>10. CASE DaemonFinish
    BY <1>0, <1>8, <1>10 DEF DaemonFinish
<1>11. CASE Mirror
    <2>1. UNCHANGED <<identity, secrets, acked, clashed, lost>>
          /\ \A dn \in Dns : /\ canon[dn] # None => canon'[dn] = canon[dn]
                             /\ canon[dn] = None /\ identity[dn] = None => canon'[dn] = None
        BY <1>11 DEF Mirror, Mirrored
    <2>2. QED
        BY <1>0, <2>1 DEF AckedStored, HasOp
<1>12. CASE Decide
    <2>1. UNCHANGED history \/ Open({job["daemon"].dn, job["daemon"].old})
        BY <1>12 DEF Decide
    <2>2. QED
        BY <1>1, <1>1a, <1>12, <2>1 DEF Decide
<1>13. CASE RenameTransaction
    <2>1. Opened("daemon")
        BY <1>0, <1>13 DEF RenameTransaction, Opened, PhaseSound
    <2>2. \A dn \in Dns \ {job["daemon"].dn, job["daemon"].old} :
            canon'[dn] = canon[dn] /\ identity'[dn] = identity[dn] /\ secrets'[dn] = secrets[dn]
        BY <1>13 DEF RenameTransaction
    <2>3. QED
        BY <1>0, <1>2, <1>13, <2>1, <2>2 DEF RenameTransaction
<1>14. ASSUME NEW p \in Processes, Stores(p) PROVE AckedStored'
    <2>1. at[p] \in PutPhases /\ UNCHANGED <<acked, lost, secrets>> /\ clashed \subseteq clashed'
          /\ \A dn \in Dns \ {job[p].dn} : canon'[dn] = canon[dn] /\ identity'[dn] = identity[dn]
        BY <1>0, <1>14 DEF Stores, PutSpns
    <2>2. CASE job[p].kind # "start"
        <3>1. Opened(p)
            BY <1>0, <2>1, <2>2 DEF Opened
        <3>2. QED
            BY <1>2, <2>1, <3>1
    <2>3. CASE job[p].kind = "start"
        <3>1. /\ p = "api" /\ job[p].dn \in Dns /\ job[p].val = view[job[p].dn] /\ job[p].val \in Content
              /\ lost = {} /\ acked[job[p].dn] \in Nat /\ job[p].dn \notin clashed =>
                    HasOp(view[job[p].dn], acked[job[p].dn])
              /\ lost = {} => acked[job[p].dn] # None
            BY <1>0, <2>1, <2>3, JobFields DEF JobSound, StartSound, Starting, Content
        <3>2. /\ canon'[job[p].dn] \in {canon[job[p].dn], job[p].val}
              /\ identity'[job[p].dn] \in {identity[job[p].dn], job[p].val}
            BY <1>14, <2>3, <3>1 DEF Stores, PutSpns, Written
        <3>3. QED
            BY <1>0, <2>1, <3>1, <3>2 DEF AckedStored
    <2>4. QED
        BY <2>2, <2>3
<1>14a. CASE GivesUp
    BY <1>0, <1>1, <1>14a DEF GivesUp
<1>15. ASSUME NEW p \in Processes, Delete(p) PROVE AckedStored'
    <2>1. at[p] \in DropPhases /\ UNCHANGED <<acked, clashed, lost>>
          /\ \A dn \in Dns \ {Dropped(job[p])} : canon'[dn] = canon[dn] /\ identity'[dn] = identity[dn]
                                                 /\ secrets'[dn] = secrets[dn]
        BY <1>0, <1>15 DEF Delete, Drop
    <2>2. Opened(p) /\ Dropped(job[p]) \in {job[p].dn, job[p].old}
        BY <1>0, <2>1 DEF Opened, PhaseSound, Dropped
    <2>3. QED
        BY <1>2, <2>1, <2>2
<1>16. ASSUME NEW p \in Processes, PutSecret(p) PROVE AckedStored'
    <2>1. at[p] = "putSecret" /\ UNCHANGED <<canon, identity, acked, clashed, lost>>
          /\ \A dn \in Dns \ {job[p].dn} : secrets'[dn] = secrets[dn]
        BY <1>16 DEF PutSecret
    <2>2. Opened(p)
        BY <1>0, <2>1 DEF JobSound, Opened
    <2>3. QED
        BY <1>2, <2>1, <2>2
<1>17. ASSUME NEW p \in Processes, Crash(p) PROVE AckedStored'
    BY <1>1, <1>17 DEF Crash
<1>18. CASE ApiSkips \/ DaemonStops
    BY <1>1, <1>18 DEF ApiSkips, DaemonStops
<1>19. CASE UNCHANGED vars
    BY <1>19 DEF vars, AckedStored
<1>20. QED
    BY NextCases, Persists, <1>3, <1>4, <1>5, <1>6, <1>7, <1>9, <1>10, <1>11, <1>12, <1>13, <1>14, <1>14a, <1>15,
       <1>16, <1>17, <1>18, <1>19

\* The two inductive invariants together.
RInv ==
    /\ IInv
    /\ OpenedSound /\ DoneSound /\ StartSound /\ SettledSound
    /\ AckedStored

\* The initial states satisfy both.
LEMMA InitRInv == Init => RInv
<1> SUFFICES ASSUME Init PROVE RInv
    OBVIOUS
<1> USE DirectoryAssumption, NoJobKind DEF Init
<1>1. at["api"] = "down" /\ at["daemon"] = "idle" /\ \A p \in Processes : job[p] = NoJob
    BY DEF Processes
<1>2. OpenedSound /\ DoneSound
    BY <1>1 DEF OpenedSound, DoneSound, Opened, Stored, Gone, Processes, Working,
                PutPhases, DropPhases
<1>3. StartSound /\ SettledSound
    BY <1>1 DEF StartSound, SettledSound, Starting, Processes
<1>4. AckedStored
    BY DEF AckedStored
<1>5. QED
    BY <1>2, <1>3, <1>4, InitIInv DEF RInv

\* The inductive invariant of what was reported: how far each operation is on
\* the rows it reports of, and what a start has settled so far.
THEOREM ReportsInvariant == Spec /\ []Apart => []RInv
<1>1. RInv /\ IInv' /\ Apart /\ [Next]_vars => RInv'
    <2> SUFFICES ASSUME RInv, IInv', Apart, [Next]_vars PROVE RInv'
        OBVIOUS
    <2>1. OpenedSound' /\ DoneSound' /\ StartSound' /\ SettledSound'
        BY NextOpened, NextDone, NextStart, NextSettled DEF RInv, IInv
    <2>2. AckedStored'
        BY NextAcked DEF RInv, IInv, Orderly
    <2>3. QED
        BY <2>1, <2>2 DEF RInv
<1>2. QED
    BY InitRInv, Invariant, <1>1, PTL DEF Spec

\* What was reported as done stays done, until something else is reported of
\* it: through the other writer's work, the mirror, crashes and starts, while
\* the writers are apart.
THEOREM ReportedStaysStored == Spec /\ []Apart => []AckedStored
<1>1. RInv => AckedStored
    BY DEF RInv
<1>2. QED
    BY ReportsInvariant, <1>1, PTL

\* When the API begins to serve, every canonical row is what the projection
\* says, however the operations before a crash were cut, while the writers are apart.
THEOREM AlwaysReconciles == Spec /\ []Apart => RestartReconciles
<1>1. RInv /\ [Next]_vars =>
        [at["api"] = "bootstrap" /\ at'["api"] = "idle" /\ "api" \notin lost =>
             \A dn \in Dns : canon[dn] # None => identity[dn] = canon[dn]]_vars
    BY DEF RInv, SettledSound
<1>2. QED
    BY ReportsInvariant, <1>1, PTL DEF Spec, RestartReconciles

\* While the API starts, and no one else is at work, no key that exists changes.
LEMMA StartsKeepKeys ==
    ASSUME TypeOK, JobSound, [Next]_vars, at["daemon"] = "idle",
           at["api"] \in StartPhases \/ job["api"].kind = "start"
    PROVE  \A dn \in Dns : secrets[dn] # None => secrets'[dn] = secrets[dn]
<1> USE DirectoryAssumption, NoJobKind DEF TypeOK, Go, store, history
<1>0. /\ Processes = {"api", "daemon"}
      /\ PutPhases = {"putIdentity", "putCanon", "putSpns"}
      /\ DropPhases = {"dropSecret", "dropSpns", "dropCanon", "dropIdentity"}
      /\ at["api"] \in {"down", "start", "bootstrap", "putIdentity", "putCanon", "putSpns", "finish"}
    BY DEF Processes, PutPhases, DropPhases, StartPhases, JobSound
<1>1. CASE ApiStart \/ ApiStartsBlind
    BY <1>1 DEF ApiStart, ApiStartsBlind, StartFrom
<1>2. CASE (\E dn \in Dns : Rewrite(dn)) \/ Rewritten \/ Serve \/ ApiFinish
    BY <1>2 DEF Rewrite, Rewritten, Serve, ApiFinish
<1>3. ASSUME NEW dn \in Dns, Bootstrap(dn)
      PROVE  \A d \in Dns : secrets[d] # None => secrets'[d] = secrets[d]
    BY <1>3 DEF Bootstrap
<1>4. CASE ApiBegins \/ DaemonBegins
    BY <1>4, BeginsJob DEF Fresh
<1>5. CASE MoveSecret \/ RenameTransaction
    BY <1>0, <1>5 DEF MoveSecret, RenameTransaction
<1>6. CASE Mirror \/ Decide \/ DaemonFinish \/ DaemonStops \/ ApiSkips
    BY <1>6 DEF Mirror, Decide, DaemonFinish, DaemonStops, ApiSkips
<1>7. ASSUME NEW p \in Processes, Persist(p) \/ Delete(p) \/ PutSecret(p) \/ Crash(p)
      PROVE  secrets' = secrets
    BY <1>0, <1>7 DEF Persist, Delete, Drop, PutSecret, Crash
<1>8. CASE UNCHANGED vars
    BY <1>8 DEF vars
<1>9. QED
    BY NextCases, <1>1, <1>2, <1>3, <1>4, <1>5, <1>6, <1>7, <1>8

\* A start of the API, cut and repeated as it may be, changes no key that exists,
\* whenever the daemon rests.
THEOREM StartsAlwaysKeepKeys == Spec => StartKeepsKeys
<1>1. Orderly /\ [Next]_vars =>
        [at["daemon"] = "idle" /\ (at["api"] \in StartPhases \/ job["api"].kind = "start") =>
             \A dn \in Dns : secrets[dn] # None => secrets'[dn] = secrets[dn]]_vars
    BY StartsKeepKeys DEF Orderly
<1>2. QED
    BY AlwaysOrderly, <1>1, PTL DEF Spec, StartKeepsKeys

-----------------------------------------------------------------------------
(***************************************************************************)
(* Writers that take turns.                                                *)
(***************************************************************************)
Turns == \E p \in Processes : at[p] \in {"idle", "down"}

\* Without Overlap one starts when the other has nothing in hand.
LEMMA NextTurns ==
    ASSUME ~Overlap, TypeOK, Turns, [Next]_vars
    PROVE  Turns'
<1> USE DEF TypeOK, Turns, Go, Processes
<1>1. ASSUME NEW p \in Processes, NEW phase,
             at[p] \notin {"idle", "down"} \/ phase \in {"idle", "down"} \/ Alone(p), Go(p, phase)
      PROVE  Turns'
    BY <1>1 DEF Alone
<1>2. CASE ApiStart \/ ApiStartsBlind
    BY <1>1, <1>2 DEF ApiStart, ApiStartsBlind, StartFrom
<1>3. CASE ApiBegins \/ DaemonBegins
    BY ZenonT(30), <1>1, <1>3, BeginsJob DEF Fresh
<1>4. CASE (\E dn \in Dns : Rewrite(dn)) \/ Rewritten \/ Serve \/ MoveSecret \/ ApiFinish
    BY <1>1, <1>4 DEF Rewrite, Rewritten, Serve, MoveSecret, ApiFinish
<1>5. CASE (\E dn \in Dns : Bootstrap(dn)) \/ UNCHANGED vars
    BY <1>5 DEF Bootstrap, vars
<1>6. CASE Mirror \/ Decide \/ RenameTransaction \/ DaemonFinish \/ DaemonStops
    BY <1>1, <1>6 DEF Mirror, Decide, RenameTransaction, DaemonFinish, DaemonStops
<1>7. ASSUME NEW p \in Processes, Persist(p) \/ Delete(p) \/ PutSecret(p) PROVE Turns'
    BY <1>1, <1>7 DEF Persist, Put, PutRefused, PutSpns, Delete, Drop, PutSecret
<1>8. ASSUME NEW p \in Processes, Crash(p) PROVE Turns'
    BY <1>1, <1>8 DEF Crash
<1>9. CASE ApiSkips
    BY <1>1, <1>9 DEF ApiSkips, PutPhases, DropPhases
<1>10. QED
    BY NextCases, <1>2, <1>3, <1>4, <1>5, <1>6, <1>7, <1>8, <1>9

\* Writers that take turns are apart: one of them has no operation.
LEMMA TurnsApart == Orderly /\ Turns => Apart
<1> SUFFICES ASSUME Orderly, Turns PROVE Apart
    OBVIOUS
<1>1. PICK p \in Processes : at[p] \in {"idle", "down"}
    BY DEF Turns
<1>2. at[p] \notin Working /\ job[p].kind = "none"
    BY <1>1, RestsJob DEF Orderly, Working, PutPhases, DropPhases
<1>3. Touched(p) = {}
    BY <1>1, <1>2 DEF Touched, Starting
<1>4. QED
    BY <1>1, <1>2, <1>3 DEF Apart, Starting, Processes

\* Without Overlap the writers are always apart, so that what holds of writers
\* that are apart holds of them.
THEOREM SerialApart == ASSUME ~Overlap PROVE Spec => []Apart
<1>1. Init => Turns
    BY DEF Init, Turns, Processes
<1>2. Orderly /\ Turns /\ [Next]_vars => Turns'
    BY NextTurns DEF Orderly
<1>3. QED
    BY AlwaysOrderly, <1>1, <1>2, TurnsApart, PTL DEF Spec

\* Writers that take turns keep the tables together, leave nothing to dangle, keep
\* what they reported, and reconcile at a start.
THEOREM SerialSound ==
    ASSUME ~Overlap
    PROVE  Spec => /\ [](CanonProjected /\ NothingDangles /\ AckedStored)
                   /\ RestartReconciles
BY SerialApart, AlwaysProjected, NothingEverDangles, ReportedStaysStored, AlwaysReconciles, PTL

=============================================================================
