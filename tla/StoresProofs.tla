----------------------------- MODULE StoresProofs -----------------------------
(***************************************************************************)
(* What the stores of the API keep, for any names, threads, requests and   *)
(* faults.  The theorems about the catalogues are of their own             *)
(* specification; each of the other stores has an inductive invariant in   *)
(* terms of its module, and the last part puts them together: a store of   *)
(* the instance keeps its own, and the others leave its state alone.       *)
(***************************************************************************)
EXTENDS ApiStores, Lemmas

-----------------------------------------------------------------------------
(***************************************************************************)
(* The catalogues.  What carries their properties is that serials are the  *)
(* numbers of requests, so that a certificate being issued is younger than *)
(* anything revoked (Numbered), and what a request in hand has done so     *)
(* far: a revocation has marked the certificate before it inserts its row  *)
(* (RevocationSound), a certificate in hand was signed with the listed key *)
(* (IssueSound), a pool or an authority about to be listed has its row     *)
(* (Counted).                                                              *)
(***************************************************************************)

\* Which requests execute which statements.
JobSound ==
    /\ at = "idle" => job = NoJob
    /\ at = "mark" => job.kind = "revoke"

\* Every serial is the number of a request that has begun.
Numbered ==
    /\ \A c \in certificates \cup certificateRows : c.serial <= requests
    /\ \A s \in revocationRows \cup revoked : s < requests
    /\ job.kind = "issue" => job.certificate.serial = requests
    /\ job.kind = "revoke" => job.serial < requests

\* The certificate of a revocation in hand.
RevocationSound ==
    job.kind = "revoke" =>
        \A c \in certificateRows : c.serial = job.serial =>
            /\ at = "persist" => c.revoked \/ c.serial \in unmarked
            /\ at = "persist" /\ job.whole => c.revoked
            /\ at = "remember" /\ job.whole => c.revoked /\ c.serial \in revocationRows

\* A certificate in hand was signed with the key that is listed.
IssueSound ==
    job.kind = "issue" =>
        /\ job.certificate.key = authorities[job.certificate.authority]
        /\ ~job.certificate.revoked

\* Without a lost connection what is listed, or about to be, has a row, but for
\* a pool whose deletion is in hand and one that PostgreSQL did not take.
Counted ==
    ~lost =>
        /\ \A n \in Pools : pools[n] # None /\ n \notin refused =>
             poolRows[n] # None \/ (job.kind = "deletePool" /\ job.name = n)
        /\ \A n \in Authorities : authorities[n] # None => authorityRows[n] # None
        /\ at = "remember" /\ job.kind \in {"createPool", "updatePool"} =>
             poolRows[job.name] # None \/ job.name \in refused
        /\ at = "remember" /\ job.kind = "createAuthority" => authorityRows[job.name] # None

IInv ==
    /\ TypeOK
    /\ JobSound
    /\ Numbered
    /\ RevocationSound
    /\ IssueSound
    /\ Counted
    /\ RevocationMarks
    /\ RevokedForGood
    /\ ListedVerifies

-----------------------------------------------------------------------------
\* The initial states satisfy the invariant.
LEMMA InitIInv == Init => IInv
<1> SUFFICES ASSUME Init PROVE IInv
    OBVIOUS
<1> USE CatalogueAssumption DEF Init
<1>1. TypeOK
    <2>1. pools \in [Pools -> Made] /\ poolRows \in [Pools -> Made]
        BY DEF Made
    <2>2. authorities \in [Authorities -> Made] /\ authorityRows \in [Authorities -> Made]
        BY DEF Made
    <2>3. requests \in 0 .. MaxRequests /\ faults \in 0 .. MaxFaults
        OBVIOUS
    <2>4. job \in Job \cup {NoJob}
        OBVIOUS
    <2>5. QED
        BY <2>1, <2>2, <2>3, <2>4 DEF TypeOK
<1>2. job.kind = "none"
    BY DEF NoJob
<1>3. JobSound /\ Numbered /\ RevocationSound /\ IssueSound /\ Counted
    BY <1>2 DEF JobSound, Numbered, RevocationSound, IssueSound, Counted
<1>4. RevocationMarks /\ RevokedForGood /\ ListedVerifies
    BY DEF RevocationMarks, RevokedForGood, ListedVerifies
<1>5. QED
    BY <1>1, <1>3, <1>4 DEF IInv

\* A request has what its kind says.
LEMMA JobFields ==
    ASSUME job \in Job \cup {NoJob}
    PROVE  /\ job.kind \in {"none", "createPool", "updatePool", "deletePool", "createAuthority",
                            "issue", "revoke"}
           /\ job.kind \in {"createPool", "updatePool", "deletePool"} => job.name \in Pools
           /\ job.kind = "createAuthority" => job.name \in Authorities
           /\ job.kind \in {"createPool", "updatePool", "createAuthority"} => job.made \in Serials
           /\ job.kind = "updatePool" => job.old \in Pools
           /\ job.kind = "issue" => job.certificate \in Certificate
           /\ job.kind = "revoke" => job.serial \in Serials /\ job.whole \in BOOLEAN
BY DEF Job, NoJob

\* A request that lost a statement is the one it was, but for whole.
LEMMA FailFields ==
    ASSUME job \in Job \cup {NoJob}, NEW phase, Fail(phase)
    PROVE  /\ job'.kind = job.kind
           /\ job.kind # "revoke" => job' = job
           /\ job.kind = "revoke" => job'.serial = job.serial /\ job'.whole = FALSE
<1>1. CASE job.kind = "revoke"
    <2>1. job \in [kind : {"revoke"}, serial : Serials, whole : BOOLEAN]
        BY <1>1 DEF Job, NoJob
    <2>2. QED
        BY <1>1, <2>1 DEF Fail
<1>2. QED
    BY <1>1 DEF Fail

\* Marking a certificate keeps the certificates and changes nothing else of them.
LEMMA RevokedFields ==
    ASSUME NEW set \in SUBSET Certificate, NEW s
    PROVE  /\ Revoked(set, s) \subseteq Certificate
           /\ \A c \in Revoked(set, s) : \E d \in set :
                /\ c.serial = d.serial /\ c.authority = d.authority /\ c.key = d.key
                /\ c.revoked = (d.revoked \/ d.serial = s)
<1>1. ASSUME NEW d \in set
      PROVE  LET c == IF d.serial = s THEN [d EXCEPT !.revoked = TRUE] ELSE d IN
             /\ c \in Certificate
             /\ c.serial = d.serial /\ c.authority = d.authority /\ c.key = d.key
             /\ c.revoked = (d.revoked \/ d.serial = s)
    <2>1. d \in Certificate
        OBVIOUS
    <2>2. CASE d.serial = s
        BY <2>1, <2>2 DEF Certificate
    <2>3. CASE d.serial # s
        BY <2>1, <2>3 DEF Certificate
    <2>4. QED
        BY <2>2, <2>3
<1>2. QED
    BY <1>1 DEF Revoked

-----------------------------------------------------------------------------
\* The requests that begin.
BeginSome ==
    \/ \E n \in Pools : CreatePool(n) \/ DeletePool(n)
    \/ \E n, new \in Pools : UpdatePool(n, new)
    \/ \E n \in Authorities : CreateAuthority(n) \/ Issue(n)

\* Zones do not concern the rest.
ZoneStep ==
    \E z \in Zones : CreateZone(z) \/ DeleteZone(z) \/ UpsertZone(z)
                     \/ \E new \in Zones : RenameZone(z, new)

\* A step of the specification, with the zones and the requests together.
LEMMA NextCases ==
    ASSUME [Next]_vars
    PROVE  \/ ZoneStep \/ BeginSome \/ (\E serial \in Serials : Revoke(serial))
           \/ PersistPool \/ RefusePool \/ ErasePool \/ PersistAuthority \/ PersistCertificate
           \/ MarkCertificate \/ PersistRevocation \/ Skip \/ MarkFails
           \/ RememberPool \/ RememberAuthority \/ RememberCertificate \/ RememberRevocation
           \/ Restart \/ UNCHANGED vars
BY DEF Next, ZoneStep, BeginSome

\* What is known of a request that begins and is no revocation.
Fresh(j) ==
    /\ Begin(j, "persist")
    /\ UNCHANGED <<certificates, revocations>>
    /\ j.kind # "revoke"
    /\ j.kind = "issue" =>
         /\ j.certificate.serial = Number
         /\ j.certificate.key = authorities[j.certificate.authority]
         /\ ~j.certificate.revoked

\* What begins is a request of one of the kinds.
LEMMA BeginsJob ==
    ASSUME TypeOK, BeginSome
    PROVE  \E j \in Job : Fresh(j)
<1> USE CatalogueAssumption
<1>1. requests < MaxRequests => Number \in Serials
    BY DEF TypeOK, Number, Serials
<1>2. ASSUME NEW n \in Pools, CreatePool(n) PROVE \E j \in Job : Fresh(j)
    <2>1. [kind |-> "createPool", name |-> n, made |-> Number] \in Job
        BY <1>1, <1>2 DEF CreatePool, Begin, Job
    <2>2. QED
        BY <1>2, <2>1 DEF CreatePool, Fresh
<1>3. ASSUME NEW n \in Pools, NEW new \in Pools, UpdatePool(n, new)
      PROVE  \E j \in Job : Fresh(j)
    <2>1. [kind |-> "updatePool", old |-> n, name |-> new, made |-> Number] \in Job
        BY <1>1, <1>3 DEF UpdatePool, Begin, Job
    <2>2. QED
        BY <1>3, <2>1 DEF UpdatePool, Fresh
<1>4. ASSUME NEW n \in Pools, DeletePool(n) PROVE \E j \in Job : Fresh(j)
    <2>1. [kind |-> "deletePool", name |-> n] \in Job
        BY DEF Job
    <2>2. QED
        BY <1>4, <2>1 DEF DeletePool, Fresh
<1>5. ASSUME NEW n \in Authorities, CreateAuthority(n) PROVE \E j \in Job : Fresh(j)
    <2>1. [kind |-> "createAuthority", name |-> n, made |-> Number] \in Job
        BY <1>1, <1>5 DEF CreateAuthority, Begin, Job
    <2>2. QED
        BY <1>5, <2>1 DEF CreateAuthority, Fresh
<1>6. ASSUME NEW n \in Authorities, Issue(n) PROVE \E j \in Job : Fresh(j)
    <2>1. Number \in Serials /\ authorities[n] \in Serials
        BY <1>1, <1>6 DEF Issue, Begin, Made, TypeOK
    <2>2. [kind |-> "issue", certificate |->
             [serial |-> Number, authority |-> n, key |-> authorities[n], revoked |-> FALSE]] \in Job
        BY <2>1 DEF Job, Certificate
    <2>3. QED
        BY <1>6, <2>2 DEF Issue, Fresh
<1>7. QED
    BY <1>2, <1>3, <1>4, <1>5, <1>6 DEF BeginSome

\* Every step keeps the types.
LEMMA NextTypeOK == TypeOK /\ [Next]_vars => TypeOK'
<1> SUFFICES ASSUME TypeOK, [Next]_vars PROVE TypeOK'
    OBVIOUS
<1> USE CatalogueAssumption DEF TypeOK, lists, pkiRows, rows
<1>1. CASE ZoneStep
    BY <1>1 DEF ZoneStep, CreateZone, RenameZone, DeleteZone, ChangeZones, UpsertZone
<1>2. Number \in Nat /\ (requests < MaxRequests => Number \in Serials /\ Number \in 0 .. MaxRequests)
    BY DEF Number, Serials
<1>3. CASE BeginSome
    <2>1. PICK j \in Job : Fresh(j)
        BY <1>3, BeginsJob
    <2>2. QED
        BY <1>2, <2>1 DEF Fresh, Begin
<1>4. ASSUME NEW serial \in Serials, Revoke(serial) PROVE TypeOK'
    <2>1. certificates' \subseteq Certificate
        BY <1>4, RevokedFields DEF Revoke
    <2>2. [kind |-> "revoke", serial |-> serial, whole |-> TRUE] \in Job
        BY DEF Job
    <2>3. QED
        BY <1>2, <1>4, <2>1, <2>2 DEF Revoke, Begin
<1> USE JobFields DEF Executed, Answer, Made
<1>5. CASE PersistPool
    BY <1>5 DEF PersistPool
<1>5a. CASE RefusePool
    BY <1>5a DEF RefusePool
<1>6. CASE ErasePool
    BY <1>6 DEF ErasePool
<1>7. CASE PersistAuthority
    BY <1>7 DEF PersistAuthority
<1>8. CASE PersistCertificate
    BY <1>8 DEF PersistCertificate
<1>9. CASE MarkCertificate
    BY <1>9, RevokedFields DEF MarkCertificate
<1>10. CASE PersistRevocation
    BY <1>10 DEF PersistRevocation
<1>11. CASE Skip \/ MarkFails
    <2>1. job' \in Job \cup {NoJob}
        BY <1>11 DEF Skip, MarkFails, Fail, Job, NoJob
    <2>2. faults' \in 0 .. MaxFaults
        BY <1>11 DEF Skip, MarkFails, Fail
    <2>3. unmarked' \subseteq Serials
        BY <1>11 DEF Skip, MarkFails
    <2>4. QED
        BY <1>11, <2>1, <2>2, <2>3 DEF Skip, MarkFails, Fail
<1>12. CASE RememberPool
    BY <1>12 DEF RememberPool
<1>13. CASE RememberAuthority
    BY <1>13 DEF RememberAuthority
<1>14. CASE RememberCertificate
    BY <1>14 DEF RememberCertificate
<1>15. CASE RememberRevocation
    BY <1>15 DEF RememberRevocation
<1>16. CASE Restart
    BY <1>16 DEF Restart
<1>17. CASE UNCHANGED vars
    BY <1>17 DEF vars
<1>18. QED
    BY NextCases, <1>1, <1>3, <1>4, <1>5, <1>5a, <1>6, <1>7, <1>8, <1>9, <1>10, <1>11, <1>12,
       <1>13, <1>14, <1>15, <1>16, <1>17

-----------------------------------------------------------------------------
\* Serials, and what each kind of request may be doing.
LEMMA NextNumbered ==
    ASSUME TypeOK, JobSound, Numbered, [Next]_vars
    PROVE  JobSound' /\ Numbered'
<1> USE CatalogueAssumption, JobFields DEF TypeOK, JobSound, Numbered, lists, pkiRows, rows
<1>0. NoJob.kind = "none"
    BY DEF NoJob
<1>1. CASE ZoneStep
    BY <1>1 DEF ZoneStep, CreateZone, RenameZone, DeleteZone, ChangeZones, UpsertZone
<1>2. CASE BeginSome
    <2>1. PICK j \in Job : Fresh(j)
        BY <1>2, BeginsJob
    <2>2. QED
        BY <2>1 DEF Fresh, Begin, Number, Serials, Certificate
<1>3. ASSUME NEW serial \in Serials, Revoke(serial) PROVE JobSound' /\ Numbered'
    <2>1. \A c \in certificates' : c.serial \in Serials /\ c.serial <= requests
        BY <1>3, RevokedFields DEF Revoke, Certificate
    <2>2. /\ requests' = requests + 1 /\ at' = "mark"
          /\ job' = [kind |-> "revoke", serial |-> serial, whole |-> TRUE]
          /\ serial <= requests
          /\ UNCHANGED <<certificateRows, revocationRows, revoked>>
        BY <1>3 DEF Revoke, Begin
    <2>3. QED
        BY <2>1, <2>2 DEF Serials, Certificate
<1> USE <1>0 DEF Executed, Answer
<1>4. CASE PersistPool \/ RefusePool \/ ErasePool \/ PersistAuthority
    BY <1>4 DEF PersistPool, RefusePool, ErasePool, PersistAuthority
<1>5. CASE PersistCertificate
    BY <1>5 DEF PersistCertificate, Certificate, Serials
<1>6. CASE MarkCertificate
    <2>1. \A c \in certificateRows' : c.serial <= requests
        BY <1>6, RevokedFields DEF MarkCertificate
    <2>2. QED
        BY <1>6, <2>1 DEF MarkCertificate
<1>7. CASE PersistRevocation
    BY <1>7 DEF PersistRevocation
<1>8. CASE Skip \/ MarkFails
    <2>1. PICK phase \in {"remember", "persist"} : Fail(phase)
        BY <1>8 DEF Skip, MarkFails
    <2>2. at' # "idle" /\ at' # "mark"
          /\ UNCHANGED <<lists, rows, requests, revoked>>
        BY <2>1 DEF Fail
    <2>3. QED
        BY <2>1, <2>2, FailFields
<1>9. CASE RememberPool \/ RememberAuthority
    BY <1>9 DEF RememberPool, RememberAuthority
<1>10. CASE RememberCertificate
    BY <1>10 DEF RememberCertificate, Certificate, Serials
<1>11. CASE RememberRevocation
    BY <1>11 DEF RememberRevocation
<1>12. CASE Restart
    BY <1>12 DEF Restart
<1>13. CASE UNCHANGED vars
    BY <1>13 DEF vars
<1>14. QED
    BY NextCases, <1>1, <1>2, <1>3, <1>4, <1>5, <1>6, <1>7, <1>8, <1>9, <1>10, <1>11, <1>12, <1>13

-----------------------------------------------------------------------------
\* A revocation in hand; what is stored of those before.
LEMMA NextRevocation ==
    ASSUME TypeOK, JobSound, Numbered, RevocationSound, IssueSound, RevocationMarks, RevokedForGood,
           [Next]_vars
    PROVE  RevocationSound' /\ RevocationMarks' /\ RevokedForGood'
<1> USE CatalogueAssumption, JobFields
    DEF TypeOK, JobSound, RevocationSound, RevocationMarks, RevokedForGood, lists, pkiRows, rows
<1>0. NoJob.kind = "none"
    BY DEF NoJob
<1>1. CASE ZoneStep
    BY <1>1 DEF ZoneStep, CreateZone, RenameZone, DeleteZone, ChangeZones, UpsertZone
<1>2. CASE BeginSome
    <2>1. PICK j \in Job : Fresh(j)
        BY <1>2, BeginsJob
    <2>2. QED
        BY <2>1 DEF Fresh, Begin
<1>3. ASSUME NEW serial \in Serials, Revoke(serial)
      PROVE  RevocationSound' /\ RevocationMarks' /\ RevokedForGood'
    BY <1>3 DEF Revoke, Begin
<1> USE <1>0 DEF Executed, Answer
<1>4. CASE PersistPool \/ RefusePool \/ ErasePool \/ PersistAuthority
    BY <1>4 DEF PersistPool, RefusePool, ErasePool, PersistAuthority
<1>5. CASE PersistCertificate
    <2>1. job.certificate.serial \notin revocationRows \cup revoked
        BY <1>5 DEF PersistCertificate, Numbered, Certificate, Serials
    <2>2. QED
        BY <1>5, <2>1 DEF PersistCertificate
<1>6. CASE MarkCertificate
    <2>1. \A c \in certificateRows' : \E d \in certificateRows :
             c.serial = d.serial /\ c.revoked = (d.revoked \/ d.serial = job.serial)
        BY <1>6, RevokedFields DEF MarkCertificate
    <2>2. /\ at = "mark" /\ at' = "persist"
          /\ UNCHANGED <<job, revocationRows, revoked>>
          /\ unmarked' = unmarked \ {job.serial}
        BY <1>6 DEF MarkCertificate
    <2>3. RevocationSound'
        <3>1. \A c \in certificateRows' : c.serial = job.serial => c.revoked
            BY <2>1
        <3>2. QED
            BY <2>2, <3>1
    <2>4. RevocationMarks'
        BY <2>1, <2>2
    <2>4a. ASSUME NEW c \in certificateRows', c.serial \in revoked'
           PROVE  c.revoked /\ c.serial \in revocationRows'
        <3>1. PICK d \in certificateRows :
                 c.serial = d.serial /\ c.revoked = (d.revoked \/ d.serial = job.serial)
            BY <2>1
        <3>2. d.serial \in revoked /\ UNCHANGED revocationRows
            BY <2>2, <2>4a, <3>1
        <3>3. d.revoked /\ d.serial \in revocationRows
            BY <3>2
        <3>4. QED
            BY <3>1, <3>2, <3>3
    <2>5. QED
        BY <2>3, <2>4, <2>4a
<1>7. CASE PersistRevocation
    BY <1>7 DEF PersistRevocation
<1>8. CASE Skip \/ MarkFails
    <2>1. PICK phase \in {"remember", "persist"} : Fail(phase)
        BY <1>8 DEF Skip, MarkFails
    <2>2. /\ at' = phase /\ UNCHANGED <<certificateRows, revocationRows, revoked>>
          /\ job'.kind = job.kind
          /\ job.kind = "revoke" => job'.serial = job.serial /\ job'.whole = FALSE
        BY <2>1, FailFields DEF Fail
    <2>3. CASE Skip
        <3>1. at' = "remember" /\ UNCHANGED unmarked
            BY <2>3 DEF Skip, Fail
        <3>2. QED
            BY <2>2, <3>1
    <2>4. CASE MarkFails
        <3>1. at' = "persist" /\ unmarked' = unmarked \cup {job.serial}
            BY <2>4 DEF MarkFails, Fail
        <3>2. QED
            BY <2>2, <3>1
    <2>5. QED
        BY <1>8, <2>3, <2>4
<1>9. CASE RememberPool \/ RememberAuthority \/ RememberCertificate
    BY <1>9 DEF RememberPool, RememberAuthority, RememberCertificate
<1>10. CASE RememberRevocation
    BY <1>10 DEF RememberRevocation
<1>11. CASE Restart
    BY <1>11 DEF Restart
<1>12. CASE UNCHANGED vars
    BY <1>12 DEF vars
<1>13. QED
    BY NextCases, <1>1, <1>2, <1>3, <1>4, <1>5, <1>6, <1>7, <1>8, <1>9, <1>10, <1>11, <1>12

\* Listed certificates and the keys they were signed with.
LEMMA NextIssue ==
    ASSUME TypeOK, JobSound, IssueSound, ListedVerifies, [Next]_vars
    PROVE  IssueSound' /\ ListedVerifies'
<1> USE CatalogueAssumption, JobFields
    DEF TypeOK, JobSound, IssueSound, ListedVerifies, lists, pkiRows, rows
<1>0. NoJob.kind = "none"
    BY DEF NoJob
<1>1. CASE ZoneStep
    BY <1>1 DEF ZoneStep, CreateZone, RenameZone, DeleteZone, ChangeZones, UpsertZone
<1>2. CASE BeginSome
    <2>1. PICK j \in Job : Fresh(j)
        BY <1>2, BeginsJob
    <2>2. QED
        BY <2>1 DEF Fresh, Begin
<1>3. ASSUME NEW serial \in Serials, Revoke(serial) PROVE IssueSound' /\ ListedVerifies'
    BY <1>3, RevokedFields DEF Revoke, Begin
<1> USE <1>0 DEF Executed, Answer
<1>4. CASE PersistPool \/ RefusePool \/ ErasePool \/ PersistAuthority \/ PersistCertificate
    BY <1>4 DEF PersistPool, RefusePool, ErasePool, PersistAuthority, PersistCertificate
<1>5. CASE MarkCertificate \/ PersistRevocation
    BY <1>5 DEF MarkCertificate, PersistRevocation
<1>6. CASE Skip \/ MarkFails
    <2>1. PICK phase \in {"remember", "persist"} : Fail(phase)
        BY <1>6 DEF Skip, MarkFails
    <2>2. UNCHANGED lists
        BY <2>1 DEF Fail
    <2>3. QED
        BY <2>1, <2>2, FailFields
<1>7. CASE RememberPool
    BY <1>7 DEF RememberPool
<1>8. CASE RememberAuthority
    BY <1>8 DEF RememberAuthority, Certificate, Serials, None
<1>9. CASE RememberCertificate
    BY <1>9 DEF RememberCertificate
<1>10. CASE RememberRevocation
    BY <1>10 DEF RememberRevocation
<1>11. CASE Restart
    BY <1>11 DEF Restart
<1>12. CASE UNCHANGED vars
    BY <1>12 DEF vars
<1>13. QED
    BY NextCases, <1>1, <1>2, <1>3, <1>4, <1>5, <1>6, <1>7, <1>8, <1>9, <1>10, <1>11, <1>12

\* Rows of what is listed.
LEMMA NextCounted ==
    ASSUME TypeOK, JobSound, Counted, [Next]_vars
    PROVE  Counted'
<1> USE CatalogueAssumption, JobFields DEF TypeOK, JobSound, Counted, lists, pkiRows, rows
<1>0. NoJob.kind = "none"
    BY DEF NoJob
<1>1. CASE ZoneStep
    BY <1>1 DEF ZoneStep, CreateZone, RenameZone, DeleteZone, ChangeZones, UpsertZone
<1>2. CASE BeginSome
    <2>1. PICK j \in Job : Fresh(j)
        BY <1>2, BeginsJob
    <2>2. at = "idle"
        BY <2>1 DEF Fresh, Begin
    <2>3. QED
        BY <1>0, <2>1, <2>2 DEF Fresh, Begin
<1>3. ASSUME NEW serial \in Serials, Revoke(serial) PROVE Counted'
    BY <1>0, <1>3 DEF Revoke, Begin
<1> USE <1>0 DEF Executed, Answer
<1>4. CASE PersistPool
    BY <1>4 DEF PersistPool, Serials, None
<1>4a. CASE RefusePool
    BY <1>4a DEF RefusePool
<1>5. CASE ErasePool
    BY <1>5 DEF ErasePool
<1>6. CASE PersistAuthority
    BY <1>6 DEF PersistAuthority, Serials, None
<1>7. CASE PersistCertificate \/ MarkCertificate \/ PersistRevocation
    BY <1>7 DEF PersistCertificate, MarkCertificate, PersistRevocation
<1>8. CASE Skip \/ MarkFails
    BY <1>8 DEF Skip, MarkFails, Fail
<1>9. CASE RememberPool
    BY <1>9 DEF RememberPool
<1>10. CASE RememberAuthority
    BY <1>10 DEF RememberAuthority
<1>11. CASE RememberCertificate \/ RememberRevocation
    BY <1>11 DEF RememberCertificate, RememberRevocation
<1>12. CASE Restart
    BY <1>12 DEF Restart
<1>13. CASE UNCHANGED vars
    BY <1>13 DEF vars
<1>14. QED
    BY NextCases, <1>1, <1>2, <1>3, <1>4, <1>4a, <1>5, <1>6, <1>7, <1>8, <1>9, <1>10, <1>11, <1>12, <1>13

-----------------------------------------------------------------------------
\* The inductive invariant: what the request in hand has done so far.
THEOREM Invariant == Spec => []IInv
<1>1. IInv /\ [Next]_vars => IInv'
    BY NextTypeOK, NextNumbered, NextRevocation, NextIssue, NextCounted DEF IInv
<1>2. QED
    BY InitIInv, <1>1, PTL DEF Spec

\* The API's lists and their rows keep their types.
THEOREM TypeCorrect == Spec => []TypeOK
<1>1. IInv => TypeOK
    BY DEF IInv
<1>2. QED
    BY Invariant, <1>1, PTL

\* Without a lost connection, what the API lists has a row that the supervisor
\* counts, but for a pool that PostgreSQL did not take.
THEOREM ListedAlwaysCounted == Spec => []ListedIsCounted
<1>1. IInv => ListedIsCounted
    <2>1. NoJob.kind = "none"
        BY DEF NoJob
    <2>2. QED
        BY <2>1 DEF IInv, ListedIsCounted, Counted, JobSound
<1>2. QED
    BY Invariant, <1>1, PTL

\* A stored revocation is marked in its certificate, unless the marking failed
\* alone, and a reported one stands in both tables for good.
THEOREM RevocationsLast == Spec => []RevocationsStand
<1>1. IInv => RevocationsStand
    BY DEF IInv, RevocationsStand
<1>2. QED
    BY Invariant, <1>1, PTL

\* Listed certificates verify against the listed authority.
THEOREM ListedAlwaysVerify == Spec => []ListedVerifies
<1>1. IInv => ListedVerifies
    BY DEF IInv
<1>2. QED
    BY Invariant, <1>1, PTL

-----------------------------------------------------------------------------
LEMMA StoreBounds ==
    /\ AptRequests \in Nat /\ AptFaults \in Nat
    /\ MaxIds \in Nat /\ MaxPushes \in Nat /\ VcsFaults \in Nat
    /\ MaxPackages \in Nat /\ ProxyFaults \in Nat /\ Parts \in Nat \ {0}
    /\ "api" \notin Threads
BY StoresAssumption DEF StoresAssumption

-----------------------------------------------------------------------------
(***************************************************************************)
(* Git repositories.  Only the API's thread gives ids to rows, takes rows  *)
(* away and removes storage: in a removal that began, or to undo a         *)
(* creation that is not acknowledged.  An id whose creation stands, or may *)
(* still succeed, keeps its row, and who pushed to it pushed there.        *)
(***************************************************************************)
\* The ids of rows are given once.
VcsNumbered ==
    /\ \A m, n \in Names : vcsRows[m] = vcsRows[n] /\ vcsRows[m] # 0 => m = n
    /\ \A n \in Names : vcsRows[n] <= vcsIds
    /\ \A d \in created \cup doomed : d <= vcsIds
    /\ \A a \in acked : a.id <= vcsIds
    /\ \A t \in Vcs!All : vcsAt[t] # "idle" => vcsJob[t].id <= vcsIds

\* What the API's thread has done of its request.
VcsApi ==
    LET j == vcsJob["api"]
        n == j.name
    IN  vcsAt["api"] # "idle" =>
          /\ j.op \in {"create", "repair", "remove"}
          /\ j.op = "create" =>
               /\ vcsAt["api"] \in {"insert", "check", "init", "finish", "configure", "deleteRow", "removeAll"}
               /\ vcsAt["api"] = "insert" <=> j.id = 0
               /\ vcsAt["api"] = "insert" => vcsIds < MaxIds
               /\ vcsAt["api"] # "insert" => j.id \notin created \cup doomed
               /\ vcsAt["api"] \notin {"insert", "removeAll"} => vcsRows[n] = j.id
               /\ vcsAt["api"] = "removeAll" => vcsRows[n] \in {0, j.id}
          /\ j.op = "repair" => vcsAt["api"] \in {"repair", "check", "init", "finish", "configure"}
          /\ j.op = "remove" =>
               /\ vcsAt["api"] \in {"removeAll", "deleteRow"}
               /\ vcsRows[n] = j.id /\ j.id \in doomed

\* A thread of a Git request takes nothing away.
VcsThreads ==
    \A t \in Threads : vcsAt[t] # "idle" =>
        /\ vcsJob[t].op = "push" /\ vcsJob[t].id # 0
        /\ vcsAt[t] \in {"repair", "check", "init", "finish", "configure", "confirm", "push"}

\* Ids whose creation stands, or may still be acknowledged.
VcsLive ==
    Vcs!Standing \cup
        (IF vcsAt["api"] \in {"check", "init", "finish", "configure"} /\ vcsJob["api"].op = "create"
         THEN {vcsJob["api"].id} ELSE {})

\* Requests and pushes to them were for the name they have.
VcsPlaced ==
    /\ \A t \in Threads : vcsAt[t] # "idle" /\ vcsJob[t].id \in VcsLive => vcsRows[vcsJob[t].name] = vcsJob[t].id
    /\ \A a \in acked : a.id \in VcsLive =>
         vcsRows[a.name] = a.id /\ a.push \in storage[a.name].pushes

VcsIInv == Vcs!TypeOK /\ VcsNumbered /\ VcsApi /\ VcsThreads /\ VcsPlaced /\ Vcs!CreatedStands

LEMMA VcsStarts == Vcs!Init => VcsIInv
<1> SUFFICES ASSUME Vcs!Init
             PROVE  VcsIInv
  OBVIOUS
<1>1. Vcs!TypeOK
  BY StoreBounds DEF Vcs!Init, Vcs!TypeOK, Vcs!Storage, Vcs!NoStorage, Vcs!None, Vcs!All, Vcs!Api
<1>2. VcsNumbered /\ VcsApi /\ VcsThreads
  BY StoreBounds DEF Vcs!Init, VcsNumbered, VcsApi, VcsThreads, Vcs!None, Vcs!All, Vcs!Api
<1>3. VcsPlaced /\ Vcs!CreatedStands
  BY DEF Vcs!Init, VcsPlaced, Vcs!CreatedStands, Vcs!Standing, Vcs!All, Vcs!Api
<1> QED BY <1>1, <1>2, <1>3 DEF VcsIInv

LEMMA VcsFields ==
    ASSUME Vcs!TypeOK
    PROVE  /\ vcsRows \in [Names -> Vcs!Ids \cup {0}] /\ Vcs!Ids \subseteq Nat /\ 0 \notin Vcs!Ids
           /\ vcsIds \in Nat /\ pushes \in Nat /\ vcsFaults \in Nat
           /\ Vcs!All = Threads \cup {"api"} /\ "api" \notin Threads
           /\ \A t \in Vcs!All : /\ vcsAt[t] = "idle" <=> vcsJob[t] = Vcs!NoJob
                                 /\ vcsAt[t] # "idle" => vcsJob[t] \in Vcs!Job
           /\ \A j \in Vcs!Job : j # Vcs!NoJob /\ j.name \in Names /\ j.id \in Vcs!Ids \cup {0}
<1>1. Vcs!Ids \subseteq Nat /\ 0 \notin Vcs!Ids /\ vcsIds \in Nat /\ pushes \in Nat /\ vcsFaults \in Nat
  BY StoreBounds DEF Vcs!TypeOK, Vcs!Ids
<1>2. Vcs!All = Threads \cup {"api"} /\ "api" \notin Threads
  BY StoreBounds DEF Vcs!All, Vcs!Api
<1>3. \A j \in Vcs!Job : j # Vcs!NoJob /\ j.name \in Names /\ j.id \in Vcs!Ids \cup {0}
  <2>1. \A j \in Vcs!Job : j.op # "none"
    BY DEF Vcs!Job
  <2> QED BY <2>1 DEF Vcs!Job, Vcs!NoJob, Vcs!None
<1>4. \A t \in Vcs!All : /\ vcsAt[t] = "idle" <=> vcsJob[t] = Vcs!NoJob
                         /\ vcsAt[t] # "idle" => vcsJob[t] \in Vcs!Job
  BY DEF Vcs!TypeOK
<1> QED BY <1>1, <1>2, <1>3, <1>4 DEF Vcs!TypeOK, Vcs!None

\* A thread goes on, or rests, and nothing but storage changes, which loses no
\* push and no repository.
LEMMA VcsMoves ==
    ASSUME VcsIInv, Vcs!TypeOK', NEW t \in Vcs!All, vcsAt[t] # "idle",
           UNCHANGED <<vcsRows, vcsIds, created, doomed, acked>>,
           \A n \in Names : /\ storage'[n].pushes = storage[n].pushes
                            /\ Vcs!StorageExists(n) => Vcs!StorageExists(n)',
           NEW phase,
           Vcs!Rest(t) \/ Vcs!Go(t, phase),
           vcsAt[t] \in {"repair", "check", "init", "finish", "configure", "confirm", "push"} =>
               \/ phase \in {"check", "init", "finish", "configure"}
               \/ t # "api" /\ phase \in {"confirm", "push"}
               \/ vcsJob[t].op = "create" /\ phase = "deleteRow",
           vcsAt[t] = "insert" \/ (vcsAt[t] \in {"removeAll", "deleteRow"} /\ vcsJob[t].op # "create") => Vcs!Rest(t),
           vcsAt[t] \in {"removeAll", "deleteRow"} /\ vcsJob[t].op = "create" =>
               phase = "removeAll"
    PROVE  VcsIInv'
<1>0. /\ DOMAIN vcsAt = Vcs!All /\ DOMAIN vcsJob = Vcs!All /\ "api" \in Vcs!All
      /\ Vcs!NoJob.op = "none"
  BY DEF VcsIInv, Vcs!TypeOK, Vcs!All, Vcs!Api, Vcs!NoJob
<1>1. /\ \A u \in Vcs!All : u # t => vcsAt'[u] = vcsAt[u] /\ vcsJob'[u] = vcsJob[u]
      /\ vcsAt'[t] = "idle" \/ (vcsAt'[t] = phase /\ vcsJob' = vcsJob /\ ~Vcs!Rest(t))
      /\ vcsAt'[t] # "idle" => vcsJob'[t] = vcsJob[t]
  BY <1>0 DEF Vcs!Rest, Vcs!Go
<1>2. VcsNumbered'
  BY <1>1 DEF VcsIInv, VcsNumbered, Vcs!All
<1>3. VcsApi'
  BY <1>0, <1>1 DEF VcsIInv, VcsApi
<1>4. VcsThreads'
  BY <1>0, <1>1, VcsFields DEF VcsIInv, VcsThreads
<1>5. VcsLive' \subseteq VcsLive
  BY <1>0, <1>1 DEF VcsIInv, VcsApi, VcsLive, Vcs!Standing
<1>6. VcsPlaced'
  <2>1. ASSUME NEW u \in Threads, vcsAt'[u] # "idle", vcsJob'[u].id \in VcsLive'
        PROVE  vcsRows'[vcsJob'[u].name] = vcsJob'[u].id
    <3>1. u \in Vcs!All /\ vcsAt[u] # "idle" /\ vcsJob'[u] = vcsJob[u]
      BY <1>1, <2>1 DEF Vcs!All
    <3> QED BY <1>5, <2>1, <3>1 DEF VcsIInv, VcsPlaced
  <2>2. ASSUME NEW a \in acked', a.id \in VcsLive'
        PROVE  vcsRows'[a.name] = a.id /\ a.push \in storage'[a.name].pushes
    <3>1. a \in acked /\ a.id \in VcsLive /\ a.name \in Names
      BY <1>5, <2>2 DEF VcsIInv, Vcs!TypeOK
    <3> QED BY <3>1 DEF VcsIInv, VcsPlaced
  <2> QED BY <2>1, <2>2 DEF VcsPlaced
<1>7. Vcs!CreatedStands'
  BY DEF VcsIInv, Vcs!CreatedStands, Vcs!Standing
<1> QED BY <1>2, <1>3, <1>4, <1>6, <1>7 DEF VcsIInv

\* The storage of a name changed to a state and with pushes that are there.
LEMMA VcsTypes ==
    ASSUME Vcs!TypeOK, NEW t \in Vcs!All, NEW j, NEW p,
           vcsAt' = [vcsAt EXCEPT ![t] = p], vcsJob' = [vcsJob EXCEPT ![t] = j],
           \/ p = "idle" /\ j = Vcs!NoJob
           \/ /\ p \in {"insert", "repair", "check", "init", "finish", "configure", "confirm", "push",
                        "deleteRow", "removeAll"}
              /\ j \in Vcs!Job,
           vcsRows' \in [Names -> Vcs!Ids \cup {0}], storage' \in [Names -> Vcs!Storage],
           vcsIds' \in 0 .. MaxIds, pushes' \in 0 .. MaxPushes, vcsFaults' \in 0 .. VcsFaults,
           created' \subseteq Vcs!Ids, doomed' \subseteq Vcs!Ids,
           acked' \subseteq [id : Vcs!Ids, name : Names, push : Vcs!Pushes]
    PROVE  Vcs!TypeOK'
<1>1. \A u \in Vcs!All : IF u = t THEN vcsAt'[u] = p /\ vcsJob'[u] = j
                         ELSE vcsAt'[u] = vcsAt[u] /\ vcsJob'[u] = vcsJob[u]
  BY DEF Vcs!TypeOK
<1>2. \A u \in Vcs!All : vcsAt'[u] = "idle" <=> vcsJob'[u] = Vcs!NoJob
  BY <1>1, VcsFields DEF Vcs!TypeOK
<1>3. vcsAt' \in [Vcs!All -> {"idle", "insert", "repair", "check", "init", "finish", "configure",
                       "confirm", "push", "deleteRow", "removeAll"}]
  BY DEF Vcs!TypeOK
<1>4. vcsJob' \in [Vcs!All -> Vcs!Job \cup {Vcs!NoJob}]
  BY DEF Vcs!TypeOK
<1> QED BY <1>2, <1>3, <1>4 DEF Vcs!TypeOK, Vcs!None

\* What a thread that goes on or rests leaves of the types.
LEMMA VcsGoes ==
    ASSUME Vcs!TypeOK, NEW t \in Vcs!All, vcsAt[t] # "idle", NEW phase,
           phase \in {"check", "init", "finish", "configure", "confirm", "push", "deleteRow", "removeAll"},
           Vcs!Rest(t) \/ Vcs!Go(t, phase),
           vcsRows' \in [Names -> Vcs!Ids \cup {0}], storage' \in [Names -> Vcs!Storage],
           vcsIds' \in 0 .. MaxIds, pushes' \in 0 .. MaxPushes, vcsFaults' \in 0 .. VcsFaults,
           created' \subseteq Vcs!Ids, doomed' \subseteq Vcs!Ids,
           acked' \subseteq [id : Vcs!Ids, name : Names, push : Vcs!Pushes]
    PROVE  Vcs!TypeOK'
<1>1. CASE Vcs!Rest(t)
  BY <1>1, VcsTypes DEF Vcs!Rest
<1>2. CASE Vcs!Go(t, phase)
  <2>1. vcsJob' = [vcsJob EXCEPT ![t] = vcsJob[t]] /\ vcsAt' = [vcsAt EXCEPT ![t] = phase]
    BY <1>2 DEF Vcs!Go, Vcs!TypeOK
  <2>2. vcsJob[t] \in Vcs!Job
    BY VcsFields
  <2> QED BY <2>1, <2>2, VcsTypes
<1> QED BY <1>1, <1>2

\* The operations in which a thread goes on, or rests.
LEMMA VcsWorks ==
    ASSUME VcsIInv, NEW t \in Vcs!All,
           \/ Vcs!ReadRow(t) \/ Vcs!Check(t) \/ Vcs!InitBegins(t) \/ Vcs!InitEnds(t) \/ Vcs!Confirm(t)
           \/ Vcs!Fails(t)
    PROVE  VcsIInv'
<1> DEFINE n == vcsJob[t].name
<1>0. /\ Vcs!TypeOK /\ vcsAt[t] # "idle" /\ vcsJob[t] \in Vcs!Job /\ n \in Names
      /\ vcsAt[t] \in {"repair", "check", "init", "finish", "configure", "confirm", "push", "insert", "deleteRow"}
      /\ UNCHANGED <<vcsRows, vcsIds, pushes, created, doomed, acked>>
      /\ vcsFaults' \in 0 .. VcsFaults
  <2>1. Vcs!TypeOK /\ vcsAt[t] # "idle"
    BY DEF VcsIInv, Vcs!ReadRow, Vcs!Check, Vcs!InitBegins, Vcs!InitEnds, Vcs!Confirm, Vcs!Fails
  <2>2. vcsAt[t] \in {"repair", "check", "init", "finish", "configure", "confirm", "push", "insert", "deleteRow"}
    BY DEF Vcs!ReadRow, Vcs!Check, Vcs!InitBegins, Vcs!InitEnds, Vcs!Confirm, Vcs!Fails
  <2>3. UNCHANGED <<vcsRows, vcsIds, pushes, created, doomed, acked>>
    BY DEF Vcs!ReadRow, Vcs!Check, Vcs!InitBegins, Vcs!InitEnds, Vcs!Confirm, Vcs!Fails,
           Vcs!Fault, Vcs!counts, Vcs!ghosts
  <2>4. vcsFaults' = vcsFaults \/ (vcsFaults < VcsFaults /\ vcsFaults' = vcsFaults + 1)
    BY DEF Vcs!ReadRow, Vcs!Check, Vcs!InitBegins, Vcs!InitEnds, Vcs!Confirm, Vcs!Fails,
           Vcs!Fault, Vcs!counts
  <2>5. vcsFaults' \in 0 .. VcsFaults
    BY <2>1, <2>4, StoreBounds DEF Vcs!TypeOK
  <2> QED BY <2>1, <2>2, <2>3, <2>5, VcsFields
<1>1. /\ storage' \in [Names -> Vcs!Storage]
      /\ \A m \in Names : /\ storage'[m].pushes = storage[m].pushes
                          /\ Vcs!StorageExists(m) => Vcs!StorageExists(m)'
  <2> DEFINE With(state) == [storage EXCEPT ![n].state = state]
  <2>1. \/ storage' = storage
        \/ storage' = With("part") /\ ~Vcs!StorageExists(n)
        \/ storage' = With("ready")
    BY DEF Vcs!ReadRow, Vcs!Check, Vcs!InitBegins, Vcs!InitEnds, Vcs!Confirm, Vcs!Fails,
           Vcs!Exists, Vcs!StorageExists
  <2>2. storage \in [Names -> Vcs!Storage]
    BY <1>0 DEF Vcs!TypeOK
  <2>3. \A state \in {"part", "ready"} :
           /\ With(state) \in [Names -> Vcs!Storage]
           /\ \A m \in Names : /\ With(state)[m].pushes = storage[m].pushes
                               /\ With(state)[m].state = IF m = n THEN state ELSE storage[m].state
    BY <1>0, <2>2 DEF Vcs!Storage
  <2> HIDE DEF With
  <2> QED BY <2>1, <2>2, <2>3 DEF Vcs!StorageExists
<1>2. \E phase \in {"check", "init", "finish", "configure", "confirm", "push", "deleteRow", "removeAll"} :
         /\ Vcs!Rest(t) \/ Vcs!Go(t, phase)
         /\ vcsAt[t] \in {"repair", "check", "init", "finish", "configure", "confirm", "push"} =>
               \/ phase \in {"check", "init", "finish", "configure"}
               \/ t # "api" /\ phase \in {"confirm", "push"}
               \/ vcsJob[t].op = "create" /\ phase = "deleteRow"
         /\ vcsAt[t] = "insert" \/ (vcsAt[t] \in {"removeAll", "deleteRow"} /\ vcsJob[t].op # "create") => Vcs!Rest(t)
         /\ vcsAt[t] \in {"removeAll", "deleteRow"} /\ vcsJob[t].op = "create" => phase = "removeAll"
  <2>1. CASE Vcs!ReadRow(t)
    BY <2>1 DEF Vcs!ReadRow
  <2>2. CASE Vcs!Check(t)
    BY <2>2 DEF Vcs!Check, Vcs!Throws
  <2>3. CASE Vcs!InitBegins(t)
    BY <2>3 DEF Vcs!InitBegins
  <2>4. CASE Vcs!InitEnds(t)
    BY <2>4 DEF Vcs!InitEnds, Vcs!Throws
  <2>5. CASE Vcs!Confirm(t)
    <3>1. t # "api"
      BY <2>5 DEF Vcs!Confirm, VcsIInv, VcsApi
    <3> QED BY <2>5, <3>1 DEF Vcs!Confirm
  <2>6. CASE Vcs!Fails(t)
    BY <2>6 DEF Vcs!Fails, Vcs!Throws
  <2> QED BY <2>1, <2>2, <2>3, <2>4, <2>5, <2>6
<1>3. Vcs!TypeOK'
  <2>1. /\ vcsRows' \in [Names -> Vcs!Ids \cup {0}] /\ vcsIds' \in 0 .. MaxIds /\ pushes' \in 0 .. MaxPushes
        /\ created' \subseteq Vcs!Ids /\ doomed' \subseteq Vcs!Ids
        /\ acked' \subseteq [id : Vcs!Ids, name : Names, push : Vcs!Pushes]
    BY <1>0 DEF Vcs!TypeOK, Vcs!None
  <2> QED BY <1>0, <1>1, <1>2, <2>1, VcsGoes
<1> QED BY <1>0, <1>1, <1>2, <1>3, VcsMoves

\* The API's thread begins a request, of a name that has a row or to create one.
LEMMA VcsBegins ==
    ASSUME VcsIInv, NEW n \in Names, Vcs!Create(n) \/ Vcs!RepairStorage(n) \/ Vcs!Remove(n)
    PROVE  VcsIInv'
<1>0. /\ vcsAt["api"] = "idle" /\ "api" \in Vcs!All
      /\ UNCHANGED <<vcsRows, storage, vcsIds, pushes, vcsFaults, created, acked>>
      /\ vcsIds \in Nat /\ Vcs!TypeOK
  BY VcsFields DEF VcsIInv, Vcs!Create, Vcs!RepairStorage, Vcs!Remove, Vcs!Begin, Vcs!Api, Vcs!counts, Vcs!ghosts
<1> DEFINE Created == [op |-> "create", name |-> n, id |-> 0]
           Repaired == [op |-> "repair", name |-> n, id |-> vcsRows[n]]
           Removed == [op |-> "remove", name |-> n, id |-> vcsRows[n]]
<1>1. PICK j \in {Created, Repaired, Removed}, p \in {"insert", "repair", "removeAll"} :
        /\ vcsAt' = [vcsAt EXCEPT !["api"] = p] /\ vcsJob' = [vcsJob EXCEPT !["api"] = j]
        /\ \/ j = Created /\ p = "insert" /\ vcsIds < MaxIds /\ doomed' = doomed
           \/ j = Repaired /\ p = "repair" /\ doomed' = doomed
           \/ j = Removed /\ p = "removeAll" /\ doomed' = doomed \cup {vcsRows[n]} /\ vcsRows[n] # 0
  BY DEF Vcs!Create, Vcs!RepairStorage, Vcs!Remove, Vcs!Begin, Vcs!Api, Vcs!ghosts, Vcs!None
<1>2. vcsRows[n] \in Vcs!Ids \cup {0} /\ j \in Vcs!Job
  BY <1>0, VcsFields DEF Vcs!Job, Vcs!None
<1>3. Vcs!TypeOK'
  <2>1. doomed' \subseteq Vcs!Ids
    BY <1>0, <1>1, <1>2 DEF Vcs!TypeOK
  <2> QED BY <1>0, <1>1, <1>2, <2>1, VcsTypes DEF Vcs!TypeOK, Vcs!None
<1>4. /\ \A u \in Threads : vcsAt'[u] = vcsAt[u] /\ vcsJob'[u] = vcsJob[u]
      /\ vcsAt'["api"] = p /\ vcsJob'["api"] = j
  BY <1>0, <1>1, VcsFields DEF Vcs!TypeOK
<1>5. VcsNumbered'
  BY <1>0, <1>1, <1>4, VcsFields DEF VcsIInv, VcsNumbered
<1>6. VcsApi'
  BY <1>0, <1>1, <1>4 DEF VcsApi
<1>7. VcsThreads'
  BY <1>4 DEF VcsIInv, VcsThreads
<1>8. VcsLive' \subseteq VcsLive /\ Vcs!Standing' \subseteq Vcs!Standing
  BY <1>0, <1>1, <1>4 DEF VcsLive, Vcs!Standing
<1>9. VcsPlaced' /\ Vcs!CreatedStands'
  BY <1>0, <1>4, <1>8 DEF VcsIInv, VcsPlaced, Vcs!CreatedStands, Vcs!StorageExists
<1> QED BY <1>3, <1>5, <1>6, <1>7, <1>9 DEF VcsIInv

LEMMA VcsHandles ==
    ASSUME VcsIInv, NEW t \in Threads, NEW n \in Names, Vcs!Handle(t, n)
    PROVE  VcsIInv'
<1> DEFINE j == [op |-> "push", name |-> n, id |-> vcsRows[n]]
<1>0. /\ vcsAt[t] = "idle" /\ t \in Vcs!All /\ t # "api" /\ vcsRows[n] # 0
      /\ UNCHANGED <<vcsRows, storage, vcsIds, pushes, vcsFaults, created, doomed, acked>>
      /\ Vcs!TypeOK
  BY VcsFields DEF VcsIInv, Vcs!Handle, Vcs!Begin, Vcs!counts, Vcs!ghosts, Vcs!None
<1>1. PICK p \in {"push", "repair"} :
        vcsAt' = [vcsAt EXCEPT ![t] = p] /\ vcsJob' = [vcsJob EXCEPT ![t] = j]
  BY DEF Vcs!Handle, Vcs!Begin
<1>2. vcsRows[n] \in Vcs!Ids \cup {0} /\ j \in Vcs!Job
  BY <1>0, VcsFields DEF Vcs!Job, Vcs!None
<1>3. Vcs!TypeOK'
  BY <1>0, <1>1, <1>2, VcsTypes DEF Vcs!TypeOK, Vcs!None
<1>4. /\ \A u \in Vcs!All : IF u = t THEN vcsAt'[u] = p /\ vcsJob'[u] = j
                            ELSE vcsAt'[u] = vcsAt[u] /\ vcsJob'[u] = vcsJob[u]
      /\ vcsAt'["api"] = vcsAt["api"] /\ vcsJob'["api"] = vcsJob["api"]
      /\ Threads \subseteq Vcs!All
  BY <1>0, <1>1, VcsFields DEF Vcs!TypeOK
<1>5. VcsNumbered'
  BY <1>0, <1>4 DEF VcsIInv, VcsNumbered, Vcs!All
<1>6. VcsApi' /\ VcsThreads'
  BY <1>0, <1>4 DEF VcsIInv, VcsApi, VcsThreads
<1>7. VcsLive' = VcsLive
  BY <1>0, <1>4 DEF VcsLive, Vcs!Standing
<1>8. VcsPlaced' /\ Vcs!CreatedStands'
  BY <1>0, <1>4, <1>7 DEF VcsIInv, VcsPlaced, Vcs!CreatedStands, Vcs!Standing, Vcs!StorageExists
<1> QED BY <1>3, <1>5, <1>6, <1>8 DEF VcsIInv

\* A row has the next id, which is nobody's yet.
LEMMA VcsInserts == VcsIInv /\ Vcs!Insert => VcsIInv'
<1> SUFFICES ASSUME VcsIInv, Vcs!Insert
             PROVE  VcsIInv'
  OBVIOUS
<1> DEFINE n == vcsJob["api"].name
           j == [vcsJob["api"] EXCEPT !.id = vcsIds + 1]
<1>0. /\ vcsAt["api"] = "insert" /\ "api" \in Vcs!All /\ Vcs!TypeOK
      /\ vcsJob["api"] \in Vcs!Job /\ n \in Names /\ vcsIds \in Nat
      /\ UNCHANGED <<storage, pushes, vcsFaults, created, doomed, acked>>
  BY VcsFields DEF VcsIInv, Vcs!Insert, Vcs!Api, Vcs!ghosts
<1>1. CASE vcsRows[n] # 0
  <2>1. Vcs!Rest("api") /\ UNCHANGED <<vcsRows, vcsIds>>
    BY <1>1 DEF Vcs!Insert, Vcs!Api, Vcs!None
  <2>2. Vcs!TypeOK'
    BY <1>0, <2>1, VcsTypes DEF Vcs!TypeOK, Vcs!None, Vcs!Rest
  <2> QED BY <1>0, <2>1, <2>2, VcsMoves DEF Vcs!StorageExists
<1>2. CASE vcsRows[n] = 0
  <2>1. /\ vcsIds' = vcsIds + 1
        /\ vcsRows' = [vcsRows EXCEPT ![n] = vcsIds + 1]
        /\ vcsJob' = [vcsJob EXCEPT !["api"] = j]
        /\ vcsAt' = [vcsAt EXCEPT !["api"] = "check"]
    <3>1. vcsJob' = [vcsJob EXCEPT !["api"].id = vcsIds + 1]
      BY <1>2 DEF Vcs!Insert, Vcs!Api, Vcs!None
    <3> QED BY <1>2, <3>1 DEF Vcs!Insert, Vcs!Api, Vcs!None
  <2>2. vcsJob["api"].op = "create" /\ vcsIds < MaxIds
    BY <1>0 DEF VcsIInv, VcsApi
  <2>3. /\ vcsIds + 1 \in Vcs!Ids /\ j \in Vcs!Job /\ j.op = "create" /\ j.name = n /\ j.id = vcsIds + 1
    BY <1>0, <2>2, StoreBounds DEF Vcs!Ids, Vcs!Job
  <2>4. /\ \A m \in Names : vcsRows'[m] = IF m = n THEN vcsIds + 1 ELSE vcsRows[m]
        /\ vcsRows' \in [Names -> Vcs!Ids \cup {0}]
    BY <1>0, <2>1, <2>3 DEF Vcs!TypeOK, Vcs!None
  <2>5. vcsIds' \in 0 .. MaxIds
    BY <1>0, <2>1, <2>2, StoreBounds
  <2>6. Vcs!TypeOK'
    BY <1>0, <2>1, <2>3, <2>4, <2>5, VcsTypes DEF Vcs!TypeOK
  <2>7. /\ \A u \in Threads : vcsAt'[u] = vcsAt[u] /\ vcsJob'[u] = vcsJob[u]
        /\ vcsAt'["api"] = "check" /\ vcsJob'["api"] = j
    BY <1>0, <2>1, VcsFields DEF Vcs!TypeOK
  <2>8. VcsNumbered'
    <3>0. \A x \in Nat : x <= vcsIds => x <= vcsIds + 1 /\ x # vcsIds + 1
      BY <1>0
    <3>1. \A m, k \in Names : vcsRows'[m] = vcsRows'[k] /\ vcsRows'[m] # 0 => m = k
      BY <1>0, <2>4, <3>0, VcsFields DEF VcsIInv, VcsNumbered
    <3>2. \A m \in Names : vcsRows'[m] <= vcsIds'
      BY <1>0, <2>1, <2>4, <3>0, VcsFields DEF VcsIInv, VcsNumbered
    <3>3. /\ \A d \in created \cup doomed : d <= vcsIds + 1
          /\ \A a \in acked : a.id <= vcsIds + 1
      BY <1>0, <3>0, VcsFields DEF VcsIInv, VcsNumbered, Vcs!TypeOK
    <3>4. \A t \in Vcs!All : vcsAt'[t] # "idle" => vcsJob'[t].id <= vcsIds + 1
      <4> SUFFICES ASSUME NEW t \in Vcs!All, vcsAt'[t] # "idle"
                   PROVE  vcsJob'[t].id <= vcsIds + 1
        OBVIOUS
      <4>1. CASE t = "api"
        <5>1. vcsIds + 1 <= vcsIds + 1
          BY <1>0
        <5> QED BY <2>3, <2>7, <4>1, <5>1
      <4>2. CASE t \in Threads
        <5>1. vcsAt[t] # "idle" /\ vcsJob'[t] = vcsJob[t] /\ vcsJob[t].id \in Nat
          BY <1>0, <2>7, <4>2, VcsFields
        <5> QED BY <3>0, <5>1 DEF VcsIInv, VcsNumbered
      <4> QED BY <1>0, <4>1, <4>2, VcsFields
    <3> QED BY <1>0, <2>1, <3>1, <3>2, <3>3, <3>4 DEF VcsNumbered
  <2>9. vcsIds + 1 \notin created \cup doomed
    <3>1. ~(vcsIds + 1 <= vcsIds)
      BY <1>0
    <3> QED BY <3>1 DEF VcsIInv, VcsNumbered
  <2>10. VcsApi'
    BY <1>0, <2>3, <2>4, <2>7, <2>9, VcsFields DEF VcsApi
  <2>11. VcsThreads'
    BY <2>7 DEF VcsIInv, VcsThreads
  <2>12. VcsLive' \subseteq VcsLive \cup {vcsIds + 1} /\ Vcs!Standing' = Vcs!Standing
    BY <1>0, <2>3, <2>7 DEF VcsLive, Vcs!Standing
  <2>13. VcsPlaced'
    <3>1. ASSUME NEW u \in Threads, vcsAt'[u] # "idle", vcsJob'[u].id \in VcsLive'
          PROVE  vcsRows'[vcsJob'[u].name] = vcsJob'[u].id
      <4>1. /\ u \in Vcs!All /\ vcsAt[u] # "idle" /\ vcsJob[u].name \in Names
            /\ vcsJob[u].id <= vcsIds /\ vcsJob[u].id \in Nat /\ vcsJob[u].id # 0
        BY <1>0, <2>7, <3>1, VcsFields DEF VcsIInv, VcsNumbered, VcsThreads
      <4>2. vcsJob[u].id \in VcsLive
        BY <1>0, <2>7, <2>12, <3>1, <4>1
      <4>3. vcsRows[vcsJob[u].name] = vcsJob[u].id
        BY <4>1, <4>2 DEF VcsIInv, VcsPlaced
      <4> QED BY <1>2, <2>4, <2>7, <4>1, <4>3
    <3>2. ASSUME NEW a \in acked, a.id \in VcsLive'
          PROVE  vcsRows'[a.name] = a.id /\ a.push \in storage'[a.name].pushes
      <4>1. a.id \in Nat \ {0} /\ a.name \in Names /\ a.id <= vcsIds
        BY <1>0, VcsFields DEF VcsIInv, VcsNumbered, Vcs!TypeOK
      <4>2. a.id \in VcsLive
        BY <1>0, <2>12, <3>2, <4>1
      <4> QED BY <1>0, <1>2, <2>4, <4>1, <4>2 DEF VcsIInv, VcsPlaced
    <3> QED BY <1>0, <3>1, <3>2 DEF VcsPlaced
  <2>14. Vcs!CreatedStands'
    <3>1. \A id \in Vcs!Standing : id # 0
      BY <1>0, VcsFields DEF Vcs!Standing, Vcs!TypeOK
    <3> QED BY <1>0, <1>2, <2>4, <2>12, <3>1 DEF VcsIInv, Vcs!CreatedStands, Vcs!StorageExists
  <2> QED BY <2>6, <2>8, <2>10, <2>11, <2>13, <2>14 DEF VcsIInv
<1> QED BY <1>1, <1>2

\* A creation that succeeds is acknowledged; else a thread goes on, or rests.
LEMMA VcsConfigures ==
    ASSUME VcsIInv, NEW t \in Vcs!All, Vcs!Configure(t)
    PROVE  VcsIInv'
<1> DEFINE j == vcsJob[t]
<1>0. /\ vcsAt[t] = "configure" /\ Vcs!TypeOK /\ j \in Vcs!Job /\ j.name \in Names
      /\ UNCHANGED <<vcsRows, storage, vcsIds, pushes, vcsFaults, doomed, acked>>
  BY VcsFields DEF VcsIInv, Vcs!Configure, Vcs!counts
<1>1. CASE j.op = "create" /\ Vcs!StorageExists(j.name)
  <2>1. Vcs!Rest(t) /\ created' = created \cup {j.id}
    BY <1>1 DEF Vcs!Configure
  <2>2. t = "api"
    BY <1>0, <1>1, VcsFields DEF VcsIInv, VcsThreads
  <2>3. vcsRows[j.name] = j.id /\ j.id \in Vcs!Ids /\ j.id <= vcsIds /\ j.id \notin created \cup doomed
    BY <1>0, <1>1, <2>2, VcsFields DEF VcsIInv, VcsApi, VcsNumbered
  <2>4. Vcs!TypeOK'
    <3>1. created' \subseteq Vcs!Ids
      BY <1>0, <2>1, <2>3 DEF Vcs!TypeOK
    <3> QED BY <1>0, <2>1, <3>1, VcsTypes DEF Vcs!TypeOK, Vcs!None, Vcs!Rest
  <2>5. /\ \A u \in Vcs!All : u # t => vcsAt'[u] = vcsAt[u] /\ vcsJob'[u] = vcsJob[u]
        /\ vcsAt'[t] = "idle"
    BY <2>1 DEF VcsIInv, Vcs!TypeOK, Vcs!Rest
  <2>6. VcsNumbered'
    BY <1>0, <2>1, <2>3, <2>5 DEF VcsIInv, VcsNumbered, Vcs!All
  <2>7. VcsApi' /\ VcsThreads'
    <3>1. VcsApi'
      BY <2>2, <2>5 DEF VcsApi
    <3>2. ASSUME NEW u \in Threads
          PROVE  vcsAt'[u] = vcsAt[u] /\ vcsJob'[u] = vcsJob[u]
      BY <1>0, <2>2, <2>5, VcsFields
    <3> QED BY <3>1, <3>2 DEF VcsIInv, VcsThreads
  <2>8. VcsLive' \subseteq VcsLive
    BY <1>0, <1>1, <2>1, <2>2, <2>5 DEF VcsLive, Vcs!Standing
  <2>9. VcsPlaced'
    BY ZenonT(30), <1>0, <2>2, <2>5, <2>8, VcsFields DEF VcsIInv, VcsPlaced
  <2>10. Vcs!CreatedStands'
    BY <1>0, <1>1, <2>1, <2>3 DEF VcsIInv, Vcs!CreatedStands, Vcs!Standing, Vcs!StorageExists
  <2> QED BY <2>4, <2>6, <2>7, <2>9, <2>10 DEF VcsIInv
<1>2. CASE ~(j.op = "create" /\ Vcs!StorageExists(j.name))
  <2>1. PICK phase \in {"confirm", "deleteRow", "check"} :
          /\ Vcs!Rest(t) \/ Vcs!Go(t, phase)
          /\ phase = "deleteRow" => j.op = "create"
          /\ phase = "confirm" => j.op = "push"
          /\ created' = created
    BY <1>2 DEF Vcs!Configure, Vcs!Throws
  <2>2. j.op = "push" => t # "api"
    BY <1>0 DEF VcsIInv, VcsApi
  <2>3. Vcs!TypeOK'
    BY <1>0, <2>1, VcsGoes DEF Vcs!TypeOK, Vcs!None
  <2> QED BY <1>0, <2>1, <2>2, <2>3, VcsMoves DEF Vcs!StorageExists
<1> QED BY <1>1, <1>2

\* A push goes to the storage of the name it was for.
LEMMA VcsPushes ==
    ASSUME VcsIInv, NEW t \in Vcs!All, Vcs!Push(t)
    PROVE  VcsIInv'
<1> DEFINE n == vcsJob[t].name
           a == [id |-> vcsJob[t].id, name |-> n, push |-> pushes + 1]
<1>0. /\ vcsAt[t] = "push" /\ Vcs!TypeOK /\ vcsJob[t] \in Vcs!Job /\ n \in Names
      /\ Vcs!Rest(t)
      /\ UNCHANGED <<vcsRows, vcsIds, vcsFaults, created, doomed>>
  BY VcsFields DEF VcsIInv, Vcs!Push
<1>1. t # "api" /\ t \in Threads /\ vcsJob[t].id \in Vcs!Ids /\ vcsJob[t].id <= vcsIds
  BY <1>0, VcsFields DEF VcsIInv, VcsApi, VcsThreads, VcsNumbered
<1>2. CASE ~Vcs!StorageExists(n)
  <2>1. UNCHANGED <<pushes, storage, acked>>
    BY <1>2 DEF Vcs!Push
  <2>2. Vcs!TypeOK'
    BY <1>0, <2>1, VcsTypes DEF Vcs!TypeOK, Vcs!None, Vcs!Rest
  <2> QED BY <1>0, <1>1, <2>1, <2>2, VcsMoves DEF Vcs!StorageExists
<1>3. CASE Vcs!StorageExists(n)
  <2>1. /\ pushes < MaxPushes /\ pushes' = pushes + 1
        /\ storage' = [storage EXCEPT ![n].pushes = @ \cup {pushes + 1}]
        /\ acked' = acked \cup {a}
    BY <1>3 DEF Vcs!Push
  <2>2. pushes + 1 \in Vcs!Pushes /\ pushes' \in 0 .. MaxPushes
    BY <1>0, <2>1, StoreBounds DEF Vcs!TypeOK, Vcs!Pushes
  <2>3. /\ storage' \in [Names -> Vcs!Storage]
        /\ \A m \in Names : /\ storage[m].pushes \subseteq storage'[m].pushes
                            /\ storage'[m].state = storage[m].state
        /\ pushes + 1 \in storage'[n].pushes
    BY <1>0, <2>1, <2>2 DEF Vcs!TypeOK, Vcs!Storage
  <2>4. acked' \subseteq [id : Vcs!Ids, name : Names, push : Vcs!Pushes]
    BY <1>0, <1>1, <2>1, <2>2 DEF Vcs!TypeOK
  <2>5. Vcs!TypeOK'
    BY <1>0, <2>2, <2>3, <2>4, VcsTypes DEF Vcs!TypeOK, Vcs!None, Vcs!Rest
  <2>6. /\ \A u \in Vcs!All : u # t => vcsAt'[u] = vcsAt[u] /\ vcsJob'[u] = vcsJob[u]
        /\ vcsAt'[t] = "idle"
        /\ vcsAt'["api"] = vcsAt["api"] /\ vcsJob'["api"] = vcsJob["api"]
    BY <1>0, <1>1, VcsFields DEF Vcs!TypeOK, Vcs!Rest
  <2>7. VcsNumbered'
    BY <1>0, <1>1, <2>1, <2>6 DEF VcsIInv, VcsNumbered, Vcs!All
  <2>8. VcsApi' /\ VcsThreads'
    BY <1>0, <2>6, VcsFields DEF VcsIInv, VcsApi, VcsThreads
  <2>9. VcsLive' = VcsLive
    BY <1>0, <2>6 DEF VcsLive, Vcs!Standing
  <2>10. VcsPlaced'
    <3>1. ASSUME NEW u \in Threads, vcsAt'[u] # "idle", vcsJob'[u].id \in VcsLive
          PROVE  vcsRows'[vcsJob'[u].name] = vcsJob'[u].id
      BY <1>0, <2>6, <3>1, VcsFields DEF VcsIInv, VcsPlaced
    <3>2. ASSUME NEW b \in acked, b.id \in VcsLive
          PROVE  vcsRows'[b.name] = b.id /\ b.push \in storage'[b.name].pushes
      BY <1>0, <2>3, <3>2 DEF VcsIInv, VcsPlaced, Vcs!TypeOK
    <3>3. a.id \in VcsLive => vcsRows'[a.name] = a.id /\ a.push \in storage'[a.name].pushes
      BY <1>0, <1>1, <2>3 DEF VcsIInv, VcsPlaced
    <3> QED BY <2>1, <2>9, <3>1, <3>2, <3>3 DEF VcsPlaced
  <2>11. Vcs!CreatedStands'
    BY <1>0, <2>3 DEF VcsIInv, Vcs!CreatedStands, Vcs!Standing, Vcs!StorageExists
  <2> QED BY <2>5, <2>7, <2>8, <2>10, <2>11 DEF VcsIInv
<1> QED BY <1>2, <1>3

\* What is removed, and whose row goes, is not live.
LEMMA VcsRemovable ==
    ASSUME VcsIInv, NEW t \in Vcs!All, vcsAt[t] \in {"removeAll", "deleteRow"}
    PROVE  /\ t = "api" /\ vcsJob[t].op \in {"create", "remove"} /\ vcsJob[t].name \in Names
           /\ vcsJob[t].id \notin VcsLive
           /\ vcsRows[vcsJob[t].name] \in {0, vcsJob[t].id}
           /\ vcsRows[vcsJob[t].name] \notin VcsLive
<1>1. t = "api"
  BY VcsFields DEF VcsIInv, VcsThreads
<1>2. 0 \notin VcsLive
  BY VcsFields, <1>1 DEF VcsIInv, VcsLive, Vcs!Standing, Vcs!TypeOK
<1>3. vcsJob[t].op \in {"create", "remove"} /\ vcsRows[vcsJob[t].name] \in {0, vcsJob[t].id}
  BY <1>1 DEF VcsIInv, VcsApi
<1>4. vcsJob[t].id \notin VcsLive
  BY <1>1 DEF VcsIInv, VcsApi, VcsLive, Vcs!Standing
<1> QED BY <1>1, <1>2, <1>3, <1>4, VcsFields DEF VcsIInv

LEMMA VcsRemoves ==
    ASSUME VcsIInv, NEW t \in Vcs!All, Vcs!RemoveAll(t) \/ Vcs!RemovalFails(t)
    PROVE  VcsIInv'
<1> DEFINE n == vcsJob[t].name
<1>0. /\ vcsAt[t] = "removeAll" /\ Vcs!TypeOK /\ vcsJob[t] \in Vcs!Job
      /\ Vcs!Rest(t) \/ (vcsJob[t].op = "remove" /\ Vcs!Go(t, "deleteRow"))
      /\ UNCHANGED <<vcsRows, vcsIds, pushes, created, doomed, acked>>
  BY VcsFields DEF VcsIInv, Vcs!RemoveAll, Vcs!RemovalFails, Vcs!counts, Vcs!ghosts, Vcs!Fault
<1>1. /\ t = "api" /\ vcsJob[t].op \in {"create", "remove"} /\ n \in Names
      /\ vcsJob[t].id \notin VcsLive
      /\ vcsRows[n] \in {0, vcsJob[t].id} /\ vcsRows[n] \notin VcsLive
  BY <1>0, VcsRemovable
<1>2. /\ storage' \in [Names -> Vcs!Storage]
      /\ \A m \in Names \ {n} : storage'[m] = storage[m]
  <2>1. CASE Vcs!RemoveAll(t)
    BY <1>0, <1>1, <2>1 DEF Vcs!RemoveAll, Vcs!TypeOK, Vcs!NoStorage, Vcs!Storage
  <2>2. CASE Vcs!RemovalFails(t)
    BY <1>0, <1>1, <2>2 DEF Vcs!RemovalFails, Vcs!TypeOK, Vcs!Storage
  <2> QED BY <2>1, <2>2
<1>3. vcsFaults' \in 0 .. VcsFaults
  <2>1. vcsFaults' = vcsFaults \/ (vcsFaults < VcsFaults /\ vcsFaults' = vcsFaults + 1)
    BY DEF Vcs!RemoveAll, Vcs!RemovalFails, Vcs!counts, Vcs!Fault
  <2> QED BY <1>0, <2>1, StoreBounds DEF Vcs!TypeOK
<1>4. Vcs!TypeOK'
  BY <1>0, <1>2, <1>3, VcsGoes DEF Vcs!TypeOK, Vcs!None
<1>5. /\ \A u \in Threads : vcsAt'[u] = vcsAt[u] /\ vcsJob'[u] = vcsJob[u]
      /\ vcsAt'["api"] = "idle" \/ (vcsAt'["api"] = "deleteRow" /\ vcsJob' = vcsJob /\ vcsJob[t].op = "remove")
  BY <1>0, <1>1, VcsFields DEF Vcs!TypeOK, Vcs!Rest, Vcs!Go
<1>6. VcsNumbered'
  BY <1>0, <1>1, <1>5, VcsFields DEF VcsIInv, VcsNumbered
<1>7. VcsApi' /\ VcsThreads'
  BY <1>0, <1>1, <1>5 DEF VcsIInv, VcsApi, VcsThreads
<1>8. VcsLive' \subseteq VcsLive /\ Vcs!Standing' = Vcs!Standing /\ Vcs!Standing \subseteq VcsLive
  BY <1>0, <1>5 DEF VcsLive, Vcs!Standing
<1>9. VcsPlaced'
  <2>1. ASSUME NEW u \in Threads, vcsAt'[u] # "idle", vcsJob'[u].id \in VcsLive
        PROVE  vcsRows'[vcsJob'[u].name] = vcsJob'[u].id
    BY <1>0, <1>5, <2>1 DEF VcsIInv, VcsPlaced
  <2>2. ASSUME NEW a \in acked, a.id \in VcsLive
        PROVE  vcsRows'[a.name] = a.id /\ a.push \in storage'[a.name].pushes
    BY <1>0, <1>1, <1>2, <2>2 DEF VcsIInv, VcsPlaced, Vcs!TypeOK
  <2> QED BY <1>0, <1>8, <2>1, <2>2 DEF VcsPlaced
<1>10. Vcs!CreatedStands'
  BY <1>0, <1>1, <1>2, <1>8 DEF VcsIInv, Vcs!CreatedStands, Vcs!StorageExists
<1> QED BY <1>4, <1>6, <1>7, <1>9, <1>10 DEF VcsIInv

LEMMA VcsDeletesRow == VcsIInv /\ Vcs!DeleteRow => VcsIInv'
<1> SUFFICES ASSUME VcsIInv, Vcs!DeleteRow
             PROVE  VcsIInv'
  OBVIOUS
<1> DEFINE j == vcsJob["api"]
           n == j.name
<1>0. /\ vcsAt["api"] = "deleteRow" /\ Vcs!TypeOK /\ j \in Vcs!Job /\ "api" \in Vcs!All
      /\ IF j.op = "create" THEN Vcs!Go("api", "removeAll") ELSE Vcs!Rest("api")
      /\ UNCHANGED <<storage, vcsIds, pushes, vcsFaults, created, doomed, acked>>
  BY VcsFields DEF VcsIInv, Vcs!DeleteRow, Vcs!counts, Vcs!ghosts, Vcs!Api
<1>1. j.op \in {"create", "remove"} /\ n \in Names /\ vcsRows[n] \notin VcsLive
  BY <1>0, VcsRemovable
<1>2. /\ vcsRows' \in [Names -> Vcs!Ids \cup {0}]
      /\ \A m \in Names \ {n} : vcsRows'[m] = vcsRows[m]
      /\ vcsRows'[n] = 0
  <2>1. vcsRows[n] = j.id
    BY <1>0, <1>1 DEF VcsIInv, VcsApi
  <2>2. vcsRows' = [vcsRows EXCEPT ![n] = 0]
    BY <2>1 DEF Vcs!DeleteRow, Vcs!Api, Vcs!None
  <2> QED BY <1>0, <1>1, <2>2, VcsFields
<1>3. Vcs!TypeOK'
  BY <1>0, <1>2, VcsGoes DEF Vcs!TypeOK
<1>4. /\ \A u \in Threads : vcsAt'[u] = vcsAt[u] /\ vcsJob'[u] = vcsJob[u]
      /\ vcsAt'["api"] = "idle" \/ (vcsAt'["api"] = "removeAll" /\ vcsJob' = vcsJob /\ j.op = "create")
  BY <1>0, VcsFields DEF Vcs!TypeOK, Vcs!Rest, Vcs!Go
<1>5. VcsNumbered'
  <2>1. 0 <= vcsIds
    BY <1>0, VcsFields
  <2> QED BY <1>0, <1>1, <1>2, <1>4, <2>1, VcsFields DEF VcsIInv, VcsNumbered
<1>6. VcsApi' /\ VcsThreads'
  BY <1>0, <1>1, <1>2, <1>4 DEF VcsIInv, VcsApi, VcsThreads
<1>7. VcsLive' \subseteq VcsLive /\ Vcs!Standing' = Vcs!Standing /\ Vcs!Standing \subseteq VcsLive
  BY <1>0, <1>4 DEF VcsLive, Vcs!Standing
<1>8. VcsPlaced'
  <2>1. ASSUME NEW u \in Threads, vcsAt'[u] # "idle", vcsJob'[u].id \in VcsLive
        PROVE  vcsRows'[vcsJob'[u].name] = vcsJob'[u].id
    <3>1. u \in Vcs!All /\ vcsAt[u] # "idle" /\ vcsJob[u].name \in Names /\ vcsJob'[u] = vcsJob[u]
      BY <1>0, <1>4, <2>1, VcsFields
    <3> QED BY <1>1, <1>2, <2>1, <3>1 DEF VcsIInv, VcsPlaced
  <2>2. ASSUME NEW a \in acked, a.id \in VcsLive
        PROVE  vcsRows'[a.name] = a.id /\ a.push \in storage'[a.name].pushes
    BY <1>0, <1>1, <1>2, <2>2 DEF VcsIInv, VcsPlaced, Vcs!TypeOK
  <2> QED BY <1>0, <1>7, <2>1, <2>2 DEF VcsPlaced
<1>9. Vcs!CreatedStands'
  BY <1>0, <1>1, <1>2, <1>7 DEF VcsIInv, Vcs!CreatedStands, Vcs!StorageExists
<1> QED BY <1>3, <1>5, <1>6, <1>8, <1>9 DEF VcsIInv

LEMMA VcsDies == VcsIInv /\ Vcs!Dies => VcsIInv'
<1> SUFFICES ASSUME VcsIInv, Vcs!Dies
             PROVE  VcsIInv'
  OBVIOUS
<1>0. /\ Vcs!TypeOK
      /\ vcsAt' = [t \in Vcs!All |-> "idle"] /\ vcsJob' = [t \in Vcs!All |-> Vcs!NoJob]
      /\ UNCHANGED <<vcsRows, storage, vcsIds, pushes, created, doomed, acked>>
      /\ vcsFaults < VcsFaults /\ vcsFaults' = vcsFaults + 1
  BY DEF VcsIInv, Vcs!Dies, Vcs!Fault, Vcs!ghosts
<1>1. vcsFaults' \in 0 .. VcsFaults
  BY <1>0, StoreBounds DEF Vcs!TypeOK
<1>2. Vcs!TypeOK'
  BY <1>0, <1>1 DEF Vcs!TypeOK
<1>3. VcsLive' \subseteq VcsLive /\ Vcs!Standing' = Vcs!Standing
  BY <1>0, VcsFields DEF VcsLive, Vcs!Standing
<1>4. VcsNumbered' /\ VcsApi' /\ VcsThreads'
  BY <1>0, VcsFields DEF VcsIInv, VcsNumbered, VcsApi, VcsThreads
<1>5. VcsPlaced' /\ Vcs!CreatedStands'
  BY <1>0, <1>3, VcsFields DEF VcsIInv, VcsPlaced, Vcs!CreatedStands, Vcs!StorageExists
<1> QED BY <1>2, <1>4, <1>5 DEF VcsIInv

LEMMA VcsStep == VcsIInv /\ (Vcs!Next \/ UNCHANGED vcsVars) => VcsIInv'
<1> SUFFICES ASSUME VcsIInv, Vcs!Next \/ UNCHANGED vcsVars
             PROVE  VcsIInv'
  OBVIOUS
<1>1. CASE UNCHANGED vcsVars
  BY <1>1 DEF vcsVars, VcsIInv, Vcs!TypeOK, VcsNumbered, VcsApi, VcsThreads, VcsPlaced, VcsLive,
              Vcs!CreatedStands, Vcs!Standing, Vcs!StorageExists
<1>2. ASSUME NEW n \in Names, Vcs!RefuseCreate(n)
      PROVE  UNCHANGED vcsVars
  BY <1>2 DEF Vcs!RefuseCreate, Vcs!vars, Vcs!counts, Vcs!ghosts, vcsVars
<1> QED BY <1>1, <1>2, VcsBegins, VcsHandles, VcsInserts, VcsDeletesRow, VcsWorks, VcsConfigures,
           VcsPushes, VcsRemoves, VcsDies DEF Vcs!Next

\* An acknowledged push is in the storage of a repository that stands.
LEMMA VcsKept == VcsIInv => Vcs!CreatedStands /\ Vcs!PushesKept
BY DEF VcsIInv, VcsPlaced, VcsLive, Vcs!PushesKept

-----------------------------------------------------------------------------
(***************************************************************************)
(* The file of the proxy.  The thread that emptied it last wrote what is   *)
(* at the places it has passed, and whoever else writes there writes the   *)
(* same; local blocks go behind, so that its own is past the file's end.   *)
(***************************************************************************)
\* A block of the local packages, with at least n of them, past the file itself.
ProxyBlock(n) ==
    \E i \in Parts + 1 .. Len(cells) - 1 :
        /\ cells[i].kind = "head" /\ cells[i + 1].kind = "body"
        /\ cells[i].number = cells[i + 1].number /\ cells[i].number >= n

\* What the file owes thread t, which emptied it last and was not cut short.
ProxyWritten(t) ==
    /\ got[t] >= 1 /\ got[t] <= Len(cells)
    /\ \A n \in 1 .. got[t] : cells[n] = Proxy!Part(n)
    /\ proxyAt[t] # "fetch" => got[t] = Parts
    /\ proxyAt[t] = "idle" /\ proxyIndex => ProxyBlock(due)

ProxyIInv ==
    /\ Proxy!TypeOK
    /\ due <= proxyPackages
    /\ proxyExists <=> last # {}
    /\ \A t, u \in last : t = u
    /\ \A t \in Fetchers : proxyAt[t] = "append" => proxyIndex /\ got[t] = Parts
    /\ ~proxyIndex => Len(cells) <= Parts
    /\ \A t \in Fetchers : proxyAt[t] # "idle" /\ got[t] > 0 => proxyExists
    /\ ~cut => \A t \in last : ProxyWritten(t)

LEMMA ProxyStarts == Proxy!Init => ProxyIInv
<1> SUFFICES ASSUME Proxy!Init
             PROVE  ProxyIInv
  OBVIOUS
<1>1. 0 \in 0 .. Parts /\ 0 \in 0 .. MaxPackages /\ 0 \in 0 .. ProxyFaults /\ <<>> \in Seq(Proxy!Cell)
  BY StoreBounds
<1>2. Len(<<>>) = 0 /\ 0 <= Parts /\ 0 <= 0
  BY StoreBounds
<1> QED BY <1>1, <1>2 DEF Proxy!Init, Proxy!TypeOK, ProxyIInv

LEMMA ProxyTypes ==
    ASSUME Proxy!TypeOK
    PROVE  /\ cells \in Seq(Proxy!Cell) /\ Len(cells) \in Nat /\ DOMAIN cells = 1 .. Len(cells)
           /\ Parts \in Nat /\ Parts >= 1 /\ MaxPackages \in Nat /\ ProxyFaults \in Nat
           /\ got \in [Fetchers -> 0 .. Parts] /\ \A t \in Fetchers : got[t] \in Nat
           /\ proxyPackages \in Nat /\ due \in Nat /\ last \subseteq Fetchers
BY StoreBounds, LenProperties DEF Proxy!TypeOK

\* A cell is written, with holes before it if need be, and the others stay.
LEMMA ProxyWrites ==
    ASSUME Proxy!TypeOK, NEW n \in 1 .. Parts, NEW c \in Proxy!Cell
    PROVE  LET f == Proxy!WrittenAt(n, c)
               top == IF n > Len(cells) THEN n ELSE Len(cells)
           IN  /\ f \in Seq(Proxy!Cell) /\ Len(f) = top /\ f[n] = c
               /\ \A m \in 1 .. Len(cells) : m # n => f[m] = cells[m]
<1> DEFINE top == IF n > Len(cells) THEN n ELSE Len(cells)
           f == Proxy!WrittenAt(n, c)
<1>1. top \in Nat /\ n \in 1 .. top /\ n \in Nat /\ \A m \in 1 .. Len(cells) : m \in 1 .. top
  BY ProxyTypes
<1>2. f = [m \in 1 .. top |-> IF m = n THEN c ELSE IF m <= Len(cells) THEN cells[m] ELSE Proxy!Hole]
  BY DEF Proxy!WrittenAt
<1>3. \A m \in 1 .. top : m <= Len(cells) => cells[m] \in Proxy!Cell
  BY <1>1, ProxyTypes
<1>4. f \in [1 .. top -> Proxy!Cell]
  BY <1>2, <1>3 DEF Proxy!Cell
<1>5. \A m \in 1 .. Len(cells) : m <= Len(cells)
  BY ProxyTypes
<1>6. f[n] = c /\ \A m \in 1 .. Len(cells) : m # n => f[m] = cells[m]
  BY <1>1, <1>2, <1>5
<1>7. f \in Seq(Proxy!Cell) /\ Len(f) = top
  <2> HIDE DEF f, top
  <2> QED BY <1>1, <1>4, FunctionOfSeq
<1> QED BY <1>6, <1>7

\* A block is written behind what is there.
LEMMA ProxyAppends ==
    ASSUME Proxy!TypeOK
    PROVE  LET f == Proxy!Appended
           IN  /\ f \in Seq(Proxy!Cell) /\ Len(f) = Len(cells) + 2
               /\ \A m \in 1 .. Len(cells) : f[m] = cells[m]
               /\ f[Len(cells) + 1] = [kind |-> "head", number |-> proxyPackages]
               /\ f[Len(cells) + 2] = [kind |-> "body", number |-> proxyPackages]
<1> DEFINE b == Proxy!LocalBlock
<1>1. /\ [kind |-> "head", number |-> proxyPackages] \in Proxy!Cell
      /\ [kind |-> "body", number |-> proxyPackages] \in Proxy!Cell
  BY DEF Proxy!TypeOK, Proxy!Cell
<1>2. /\ b \in Seq(Proxy!Cell) /\ Len(b) = 2
      /\ b[1] = [kind |-> "head", number |-> proxyPackages]
      /\ b[2] = [kind |-> "body", number |-> proxyPackages]
  BY <1>1 DEF Proxy!LocalBlock
<1>3. Proxy!Appended = cells \o b
  BY DEF Proxy!Appended
<1> HIDE DEF b
<1>4. cells \in Seq(Proxy!Cell) /\ Len(cells) \in Nat
  BY ProxyTypes
<1>5. (cells \o b) \in Seq(Proxy!Cell) /\ Len(cells \o b) = Len(cells) + Len(b)
  BY <1>2, <1>4, ConcatProperties
<1>6. \A m \in 1 .. Len(cells) + Len(b) :
         (cells \o b)[m] = IF m <= Len(cells) THEN cells[m] ELSE b[m - Len(cells)]
  BY <1>2, <1>4, ConcatProperties
<1> QED BY <1>2, <1>3, <1>4, <1>5, <1>6

\* What is past a place up to which the cells of another file are the same.
LEMMA ProxyBlockStays ==
    ASSUME Proxy!TypeOK, NEW k, ProxyBlock(k), Len(cells') \in Nat, Len(cells) <= Len(cells'),
           \A m \in Parts + 1 .. Len(cells) : cells'[m] = cells[m]
    PROVE  \E i \in Parts + 1 .. Len(cells') - 1 :
              /\ cells'[i].kind = "head" /\ cells'[i + 1].kind = "body"
              /\ cells'[i].number = cells'[i + 1].number /\ cells'[i].number >= k
<1>1. PICK i \in Parts + 1 .. Len(cells) - 1 :
        /\ cells[i].kind = "head" /\ cells[i + 1].kind = "body"
        /\ cells[i].number = cells[i + 1].number /\ cells[i].number >= k
  BY DEF ProxyBlock
<1>2. /\ i \in Parts + 1 .. Len(cells) /\ i + 1 \in Parts + 1 .. Len(cells)
      /\ i \in Parts + 1 .. Len(cells') - 1
  BY ProxyTypes
<1> QED BY <1>1, <1>2

LEMMA ProxyFetches ==
    ASSUME ProxyIInv, NEW t \in Fetchers, Proxy!Fetch(t)
    PROVE  ProxyIInv'
<1> DEFINE n == got[t] + 1
<1>0. /\ Proxy!TypeOK /\ proxyAt[t] = "fetch" /\ got[t] < Parts
      /\ n \in 1 .. Parts /\ n \in Nat
      /\ got' = [got EXCEPT ![t] = n] /\ proxyExists' = TRUE
      /\ UNCHANGED <<proxyIndex, proxyAt, proxyPackages, proxyFaults>>
  <2>1. Proxy!TypeOK /\ proxyAt[t] = "fetch" /\ got[t] < Parts
    BY DEF ProxyIInv, Proxy!Fetch
  <2> QED BY <2>1, ProxyTypes DEF Proxy!Fetch
<1>1. got' \in [Fetchers -> 0 .. Parts] /\ \A u \in Fetchers : got'[u] = IF u = t THEN n ELSE got[u]
  BY <1>0, ProxyTypes
<1>2. Proxy!Part(n) \in Proxy!Cell
  BY <1>0 DEF Proxy!Cell
<1>3. CASE n = 1
  <2>1. /\ cells' = <<Proxy!Part(1)>> /\ last' = {t} /\ cut' = FALSE /\ due' = proxyPackages
    BY <1>3 DEF Proxy!Fetch
  <2>2. cells' \in Seq(Proxy!Cell) /\ Len(cells') = 1 /\ cells'[1] = Proxy!Part(1)
    BY <1>2, <1>3, <2>1
  <2>3. Proxy!TypeOK'
    BY <1>0, <1>1, <2>1, <2>2 DEF Proxy!TypeOK
  <2>4. ProxyWritten(t)'
    <3>1. got'[t] = 1 /\ proxyAt'[t] = "fetch" /\ 1 .. 1 = {1}
      BY <1>0, <1>1, <1>3
    <3>2. 1 <= 1 /\ \A m \in 1 .. 1 : m = 1
      OBVIOUS
    <3> QED BY <2>2, <3>1, <3>2 DEF ProxyWritten
  <2>5. due' <= proxyPackages' /\ Len(cells') <= Parts
    BY <1>0, <2>1, <2>2, ProxyTypes
  <2>6. \A u \in Fetchers : proxyAt'[u] = "append" => proxyIndex' /\ got'[u] = Parts
    BY <1>0, <1>1 DEF ProxyIInv
  <2> QED BY <1>0, <2>1, <2>3, <2>4, <2>5, <2>6 DEF ProxyIInv
<1>4. CASE n # 1
  <2> DEFINE f == Proxy!WrittenAt(n, Proxy!Part(n))
             top == IF n > Len(cells) THEN n ELSE Len(cells)
  <2>1. cells' = f /\ UNCHANGED <<last, cut, due>>
    BY <1>4 DEF Proxy!Fetch, Proxy!ghosts
  <2>2. /\ cells' \in Seq(Proxy!Cell) /\ Len(cells') = top /\ cells'[n] = Proxy!Part(n)
        /\ \A m \in 1 .. Len(cells) : m # n => cells'[m] = cells[m]
    BY <1>0, <1>2, <2>1, ProxyWrites
  <2>3. Len(cells') \in Nat /\ Len(cells) <= Len(cells') /\ n <= Len(cells')
        /\ (Len(cells) <= Parts => Len(cells') <= Parts)
    BY <1>0, <2>2, ProxyTypes
  <2>4. got[t] > 0 /\ proxyExists
    BY <1>0, <1>4, ProxyTypes DEF ProxyIInv
  <2>5. Proxy!TypeOK'
    BY <1>0, <1>1, <2>1, <2>2 DEF Proxy!TypeOK
  <2>6. ASSUME ~cut, NEW u \in last
        PROVE  ProxyWritten(u)'
    <3>1. ProxyWritten(u) /\ u \in Fetchers
      BY <2>6, ProxyTypes, <1>0 DEF ProxyIInv
    <3>2. got'[u] >= 1 /\ got'[u] <= Len(cells')
      BY <1>0, <1>1, <2>3, <3>1, ProxyTypes DEF ProxyWritten
    <3>3. \A m \in 1 .. got'[u] : cells'[m] = Proxy!Part(m)
      <4> SUFFICES ASSUME NEW m \in 1 .. got'[u]
                   PROVE  cells'[m] = Proxy!Part(m)
        OBVIOUS
      <4>1. CASE m = n
        BY <2>2, <4>1
      <4>2. CASE m # n
        <5>1. m \in 1 .. got[u] /\ m \in 1 .. Len(cells)
          BY <1>0, <1>1, <3>1, <4>2, ProxyTypes DEF ProxyWritten
        <5> QED BY <2>2, <3>1, <4>2, <5>1 DEF ProxyWritten
      <4> QED BY <4>1, <4>2
    <3>4. proxyAt'[u] # "fetch" => got'[u] = Parts
      BY <1>0, <1>1, <3>1 DEF ProxyWritten
    <3>5. proxyAt'[u] = "idle" /\ proxyIndex' => ProxyBlock(due)'
      <4> SUFFICES ASSUME proxyAt[u] = "idle", proxyIndex
                   PROVE  ProxyBlock(due)'
        BY <1>0
      <4>1. ProxyBlock(due)
        BY <3>1 DEF ProxyWritten
      <4>2. \A m \in Parts + 1 .. Len(cells) : m \in 1 .. Len(cells) /\ m # n
        BY <1>0, ProxyTypes
      <4>3. \A m \in Parts + 1 .. Len(cells) : cells'[m] = cells[m]
        BY <2>2, <4>2
      <4>4. \E i \in Parts + 1 .. Len(cells') - 1 :
              /\ cells'[i].kind = "head" /\ cells'[i + 1].kind = "body"
              /\ cells'[i].number = cells'[i + 1].number /\ cells'[i].number >= due
        BY <1>0, <2>3, <4>1, <4>3, ProxyBlockStays
      <4> QED BY <2>1, <4>4 DEF ProxyBlock
    <3> QED BY <3>2, <3>3, <3>4, <3>5 DEF ProxyWritten
  <2>7. \A u \in Fetchers : proxyAt'[u] = "append" => proxyIndex' /\ got'[u] = Parts
    BY <1>0, <1>1 DEF ProxyIInv
  <2> QED BY <1>0, <2>1, <2>3, <2>4, <2>5, <2>6, <2>7 DEF ProxyIInv
<1> QED BY <1>3, <1>4

LEMMA ProxyOverlays ==
    ASSUME ProxyIInv, NEW t \in Fetchers, Proxy!AppendOverlay(t)
    PROVE  ProxyIInv'
<1>0. /\ Proxy!TypeOK /\ proxyAt[t] = "append" /\ proxyAt' = [proxyAt EXCEPT ![t] = "idle"]
      /\ UNCHANGED <<proxyIndex, proxyExists, got, proxyPackages, proxyFaults, last, cut, due>>
      /\ proxyIndex /\ got[t] = Parts
  BY DEF ProxyIInv, Proxy!AppendOverlay, Proxy!ghosts
<1>1. /\ cells' \in Seq(Proxy!Cell) /\ Len(cells') = Len(cells) + 2
      /\ \A m \in 1 .. Len(cells) : cells'[m] = cells[m]
      /\ cells'[Len(cells) + 1] = [kind |-> "head", number |-> proxyPackages]
      /\ cells'[Len(cells) + 2] = [kind |-> "body", number |-> proxyPackages]
  BY <1>0, ProxyAppends DEF Proxy!AppendOverlay
<1>2. Len(cells') \in Nat /\ Len(cells) <= Len(cells')
  BY <1>0, <1>1, ProxyTypes
<1>3. \A u \in Fetchers : proxyAt'[u] = IF u = t THEN "idle" ELSE proxyAt[u]
  BY <1>0 DEF Proxy!TypeOK
<1>4. proxyExists
  <2>1. got[t] > 0
    BY <1>0, ProxyTypes
  <2> QED BY <1>0, <2>1 DEF ProxyIInv
<1>5. Proxy!TypeOK'
  BY <1>0, <1>1, <1>4 DEF Proxy!TypeOK
<1>6. ASSUME ~cut, NEW u \in last
      PROVE  ProxyWritten(u)'
  <2>1. ProxyWritten(u) /\ u \in Fetchers
    BY <1>0, <1>6, ProxyTypes DEF ProxyIInv
  <2>2. got[u] \in Nat /\ \A m \in 1 .. got[u] : m \in 1 .. Len(cells)
    BY <1>0, <2>1, ProxyTypes DEF ProxyWritten
  <2>3. got'[u] >= 1 /\ got'[u] <= Len(cells') /\ \A m \in 1 .. got'[u] : cells'[m] = Proxy!Part(m)
    <3>1. got[u] <= Len(cells')
      BY <1>0, <1>2, <2>1, <2>2, ProxyTypes DEF ProxyWritten
    <3> QED BY <1>0, <1>1, <2>1, <2>2, <3>1 DEF ProxyWritten
  <2>4. proxyAt'[u] # "fetch" => got'[u] = Parts
    BY <1>0, <1>3, <2>1 DEF ProxyWritten
  <2>5. CASE u # t /\ proxyAt[u] = "idle"
    <3>1. ProxyBlock(due)
      BY <1>0, <2>1, <2>5 DEF ProxyWritten
    <3>2. \A m \in Parts + 1 .. Len(cells) : m \in 1 .. Len(cells)
      BY <1>0, ProxyTypes
    <3>3. \E i \in Parts + 1 .. Len(cells') - 1 :
            /\ cells'[i].kind = "head" /\ cells'[i + 1].kind = "body"
            /\ cells'[i].number = cells'[i + 1].number /\ cells'[i].number >= due
      BY <1>0, <1>1, <1>2, <3>1, <3>2, ProxyBlockStays
    <3>4. ProxyBlock(due)'
      BY <1>0, <3>3 DEF ProxyBlock
    <3> QED BY <2>3, <2>4, <3>4 DEF ProxyWritten
  <2>6. CASE u = t
    <3>1. Parts <= Len(cells)
      BY <1>0, <2>1, <2>6 DEF ProxyWritten
    <3>2. Len(cells) + 1 \in Parts + 1 .. Len(cells') - 1 /\ (Len(cells) + 1) + 1 = Len(cells) + 2
      BY <1>0, <1>1, <3>1, ProxyTypes
    <3>3. proxyPackages >= due
      BY <1>0, ProxyTypes DEF ProxyIInv
    <3>4. ProxyBlock(due)'
      BY <1>0, <1>1, <3>2, <3>3 DEF ProxyBlock
    <3> QED BY <2>3, <2>4, <3>4 DEF ProxyWritten
  <2>7. CASE u # t /\ proxyAt[u] # "idle"
    BY <1>3, <2>1, <2>3, <2>4, <2>7 DEF ProxyWritten
  <2> QED BY <2>5, <2>6, <2>7
<1> QED BY <1>0, <1>3, <1>4, <1>5, <1>6 DEF ProxyIInv

\* What leaves the file as it is.
LEMMA ProxyElse ==
    ASSUME ProxyIInv,
           \/ \E t \in Fetchers : Proxy!Miss(t) \/ Proxy!Fetched(t) \/ Proxy!FetchFails(t)
           \/ Proxy!Restart \/ Proxy!Upload \/ UNCHANGED proxyVars
    PROVE  ProxyIInv'
<1>0. Proxy!TypeOK /\ 0 \in 0 .. Parts
  BY ProxyTypes DEF ProxyIInv
<1>1. ASSUME NEW t \in Fetchers, Proxy!Miss(t)
      PROVE  ProxyIInv'
  <2>1. /\ ~proxyExists /\ last = {} /\ proxyAt[t] = "idle"
        /\ proxyAt' = [proxyAt EXCEPT ![t] = "fetch"] /\ got' = [got EXCEPT ![t] = 0]
        /\ UNCHANGED <<proxyIndex, proxyExists, cells, proxyPackages, proxyFaults, last, cut, due>>
    BY <1>1 DEF ProxyIInv, Proxy!Miss, Proxy!ghosts
  <2>2. Proxy!TypeOK'
    BY <1>0, <2>1 DEF Proxy!TypeOK
  <2>3. \A u \in Fetchers : IF u = t THEN proxyAt'[u] = "fetch" /\ got'[u] = 0
                            ELSE proxyAt'[u] = proxyAt[u] /\ got'[u] = got[u]
    BY <1>0, <2>1 DEF Proxy!TypeOK
  <2> QED BY <2>1, <2>2, <2>3 DEF ProxyIInv
<1>2. ASSUME NEW t \in Fetchers, Proxy!Fetched(t)
      PROVE  ProxyIInv'
  <2>1. /\ proxyAt[t] = "fetch" /\ got[t] = Parts
        /\ proxyAt' = [proxyAt EXCEPT ![t] = IF proxyIndex THEN "append" ELSE "idle"]
        /\ UNCHANGED <<proxyIndex, proxyExists, cells, got, proxyPackages, proxyFaults, last, cut, due>>
    BY <1>2 DEF Proxy!Fetched, Proxy!ghosts
  <2>2. Proxy!TypeOK'
    BY <1>0, <2>1 DEF Proxy!TypeOK
  <2>3. \A u \in Fetchers : proxyAt'[u] = IF u = t THEN IF proxyIndex THEN "append" ELSE "idle" ELSE proxyAt[u]
    BY <1>0, <2>1 DEF Proxy!TypeOK
  <2>4. \A u \in Fetchers : ProxyWritten(u) => ProxyWritten(u)'
    BY <2>1, <2>3 DEF ProxyWritten, ProxyBlock
  <2>5. last \subseteq Fetchers
    BY <1>0 DEF Proxy!TypeOK
  <2> QED BY <2>1, <2>2, <2>3, <2>4, <2>5 DEF ProxyIInv
<1>3. ASSUME NEW t \in Fetchers, Proxy!FetchFails(t)
      PROVE  ProxyIInv'
  <2>1. /\ proxyAt[t] = "fetch" /\ cut' = (cut \/ Proxy!CutShort({t}))
        /\ proxyAt' = [proxyAt EXCEPT ![t] = "idle"]
        /\ proxyFaults < ProxyFaults /\ proxyFaults' = proxyFaults + 1
        /\ UNCHANGED <<proxyIndex, proxyExists, cells, got, proxyPackages, last, due>>
    BY <1>3 DEF Proxy!FetchFails
  <2>2. proxyFaults' \in 0 .. ProxyFaults /\ cut' \in BOOLEAN
    BY <1>0, <2>1, ProxyTypes DEF Proxy!TypeOK
  <2>3. Proxy!TypeOK'
    BY <1>0, <2>1, <2>2 DEF Proxy!TypeOK
  <2>4. \A u \in Fetchers : proxyAt'[u] = IF u = t THEN "idle" ELSE proxyAt[u]
    BY <1>0, <2>1 DEF Proxy!TypeOK
  <2>5. ASSUME ~cut', NEW u \in last
        PROVE  ProxyWritten(u)'
    <3>1. ~cut /\ ~Proxy!CutShort({t}) /\ u \in Fetchers
      BY <1>0, <2>1, <2>5 DEF Proxy!TypeOK
    <3>2. ProxyWritten(u)
      BY <3>1, <2>5 DEF ProxyIInv
    <3>3. got[t] > 0 => u # t
      BY <2>1, <2>5, <3>1 DEF Proxy!CutShort
    <3>4. got[t] \in Nat /\ (got[t] >= 1 => got[t] > 0)
      BY <1>0, ProxyTypes
    <3>5. u # t
      BY <3>2, <3>3, <3>4 DEF ProxyWritten
    <3> QED BY <2>1, <2>4, <3>1, <3>2, <3>5 DEF ProxyWritten, ProxyBlock
  <2> QED BY <2>1, <2>3, <2>4, <2>5 DEF ProxyIInv
<1>4. CASE Proxy!Restart
  <2>1. /\ cut' = (cut \/ Proxy!CutShort(Fetchers)) /\ proxyAt' = [t \in Fetchers |-> "idle"]
        /\ proxyFaults < ProxyFaults /\ proxyFaults' = proxyFaults + 1
        /\ UNCHANGED <<proxyIndex, proxyExists, cells, got, proxyPackages, last, due>>
    BY <1>4 DEF Proxy!Restart
  <2>2. proxyFaults' \in 0 .. ProxyFaults /\ cut' \in BOOLEAN
    BY <1>0, <2>1, ProxyTypes DEF Proxy!TypeOK
  <2>3. Proxy!TypeOK'
    BY <1>0, <2>1, <2>2 DEF Proxy!TypeOK
  <2>4. ASSUME ~cut', NEW u \in last
        PROVE  ProxyWritten(u)'
    <3>1. ~cut /\ ~Proxy!CutShort(Fetchers) /\ u \in Fetchers
      BY <1>0, <2>1, <2>4 DEF Proxy!TypeOK
    <3>2. ProxyWritten(u)
      BY <3>1, <2>4 DEF ProxyIInv
    <3>3. got[u] \in Nat /\ (got[u] >= 1 => got[u] > 0)
      BY <1>0, <3>1, ProxyTypes
    <3>4. proxyAt[u] = "idle"
      BY <2>4, <3>1, <3>2, <3>3 DEF Proxy!CutShort, ProxyWritten
    <3> QED BY <2>1, <3>1, <3>2, <3>4 DEF ProxyWritten, ProxyBlock
  <2> QED BY <2>1, <2>3, <2>4 DEF ProxyIInv
<1>5. CASE Proxy!Upload
  <2>1. /\ proxyPackages < MaxPackages /\ proxyPackages' = proxyPackages + 1
        /\ UNCHANGED <<proxyIndex, proxyExists, cells, proxyAt, got, proxyFaults, last, cut, due>>
    BY <1>5 DEF Proxy!Upload, Proxy!ghosts
  <2>2. proxyPackages' \in 0 .. MaxPackages /\ (due <= proxyPackages => due <= proxyPackages')
    BY <1>0, <2>1, ProxyTypes DEF Proxy!TypeOK
  <2>3. Proxy!TypeOK'
    BY <1>0, <2>1, <2>2 DEF Proxy!TypeOK
  <2>4. \A u : ProxyWritten(u) => ProxyWritten(u)'
    BY <2>1 DEF ProxyWritten, ProxyBlock
  <2> QED BY <2>1, <2>2, <2>3, <2>4 DEF ProxyIInv
<1>6. CASE UNCHANGED proxyVars
  BY <1>6 DEF proxyVars, ProxyIInv, Proxy!TypeOK, ProxyWritten, ProxyBlock
<1> QED BY <1>1, <1>2, <1>3, <1>4, <1>5, <1>6

LEMMA ProxyStep == ProxyIInv /\ (Proxy!Next \/ UNCHANGED proxyVars) => ProxyIInv'
<1>1. Proxy!Hit => UNCHANGED proxyVars
  BY DEF Proxy!Hit, Proxy!vars, Proxy!ghosts, proxyVars
<1> QED BY <1>1, ProxyFetches, ProxyOverlays, ProxyElse DEF Proxy!Next

LEMMA ProxyWhole == ProxyIInv => Proxy!FilledWhole
<1> SUFFICES ASSUME ProxyIInv, \A t \in Fetchers : proxyAt[t] = "idle", proxyExists, ~cut
             PROVE  /\ Len(cells) >= Parts
                    /\ \A n \in 1 .. Parts : cells[n] = Proxy!Part(n)
                    /\ ~proxyIndex => Len(cells) = Parts
                    /\ proxyIndex => ProxyBlock(due)
  BY DEF Proxy!FilledWhole, ProxyBlock
<1>1. PICK t \in last : ProxyWritten(t)
  BY DEF ProxyIInv
<1>2. Proxy!TypeOK /\ t \in Fetchers
  BY ProxyTypes DEF ProxyIInv
<1>3. got[t] = Parts /\ Parts <= Len(cells)
  BY <1>1, <1>2 DEF ProxyWritten
<1>4. ~proxyIndex => Len(cells) = Parts
  <2>1. ~proxyIndex => Len(cells) <= Parts
    BY DEF ProxyIInv
  <2> QED BY <1>2, <1>3, <2>1, ProxyTypes
<1> QED BY <1>1, <1>2, <1>3, <1>4, ProxyTypes DEF ProxyWritten

-----------------------------------------------------------------------------
(***************************************************************************)
(* APT repositories.  An artifact is of one package where components are   *)
(* not shared (AptApart), and metadata may name it only by claiming it.    *)
(* So every row and entry names the artifact of its own package or claimed *)
(* ones (Tame), an id leads to one row, and a request disturbs a row and   *)
(* its artifact in an order that AptRows and AptHand follow: an upload     *)
(* moves its artifact before it writes the row, and a deletion takes the   *)
(* row before the file.  Without faults rows and list differ only in the   *)
(* package or repository of the request in hand (Doubted), unless what a   *)
(* client sent parted them (diverged).                                     *)
(***************************************************************************)
\* The repositories have components of their own.
AptApart == \A r, s \in Repositories : ComponentOf[r] = ComponentOf[s] => r = s

EntryKinds == {"upload", "add", "edit", "deletePackage"}
Target == <<aptJob.repository, aptJob.entry.package>>

\* Which requests execute which statements.
AptPhases ==
    /\ aptAt = "insertRepository" => aptJob.kind = "create"
    /\ aptAt \in {"deletePackages", "deleteRepository", "removeFiles"} => aptJob.kind = "deleteRepository"
    /\ aptAt \in {"removeOld", "rename"} => aptJob.kind = "upload"
    /\ aptAt = "upsert" => aptJob.kind \in {"upload", "add", "edit"}
    /\ aptAt \in {"deleteRow", "removeFile"} => aptJob.kind = "deletePackage"

\* A row or an entry names the artifact of its own package, or else every artifact it
\* names is claimed.
Own(r, p, x) == x.file = Apt!PathOf(r, p) /\ x.path = Apt!PathOf(r, p)
Tame(r, p, x) ==
    \/ Own(r, p, x)
    \/ /\ x.file \in Apt!Paths => x.file \in claimed
       /\ x.path \in Apt!Paths => x.path \in claimed

\* The packages whose row is an upload's.
Uploaded == Apt!indexed \ declared

\* The rows: what they name, and what there is of it.
AptRows ==
    /\ \A k \in Apt!indexed : /\ Tame(k[1], k[2], packageRows[k])
                              /\ packageRows[k].id # 0 /\ packageRows[k].id <= ids
    /\ \A k, l \in Apt!indexed : packageRows[k].id = packageRows[l].id => k = l
    /\ \A k \in Uploaded : Own(k[1], k[2], packageRows[k])
    /\ \A k \in Uploaded : Apt!PathOf(k[1], k[2]) \notin torn \cup claimed => pool[Apt!PathOf(k[1], k[2])] # 0
    /\ \A k \in served : /\ k \notin declared
                         /\ Apt!PathOf(k[1], k[2]) \notin claimed =>
                              k \in Apt!indexed /\ pool[Apt!PathOf(k[1], k[2])] = packageRows[k].sum

\* An entry of a list or of a request names what a row of its package may, and its id
\* leads to no other row.
Good(r, x) ==
    /\ Tame(r, x.package, x)
    /\ x.id <= ids
    /\ \A k \in Apt!indexed : packageRows[k].id = x.id => k = <<r, x.package>>

AptEntries == \A r \in Repositories : \A i \in DOMAIN packages[r] : Good(r, packages[r][i])

\* How far an upload has come.
AptUpload ==
    /\ Own(aptJob.repository, aptJob.entry.package, aptJob.entry) /\ aptJob.entry.sum # 0
    /\ aptAt # "removeOld" => Target \notin served
    /\ aptAt = "rename" => aptJob.entry.path \in torn
    /\ aptAt \in {"upsert", "remember"} =>
         aptJob.entry.path \notin torn /\ pool[aptJob.entry.path] = aptJob.entry.sum
    /\ aptAt = "remember" => Target \in Uploaded /\ packageRows[Target].sum = aptJob.entry.sum

\* What a request is about to write or to remove.
AptHand ==
    /\ aptJob.kind \in EntryKinds => Good(aptJob.repository, aptJob.entry)
    /\ aptJob.kind \in {"add", "edit"} => aptJob.entry.id = 0
    /\ aptJob.kind = "upload" => AptUpload
    /\ aptJob.kind = "deletePackage" /\ aptAt = "removeFile"
         /\ Own(aptJob.repository, aptJob.entry.package, aptJob.entry) => Target \notin Uploaded
    /\ aptJob.kind = "deleteRepository" =>
         \A path \in aptJob.paths :
            path \in Apt!Paths /\ path \notin claimed => \E p \in Packages : path = Apt!PathOf(aptJob.repository, p)
    /\ aptJob.kind = "deleteRepository" /\ aptAt \in {"deleteRepository", "removeFiles"} =>
         \A k \in Apt!indexed : k[1] # aptJob.repository

\* No two entries of a list are of one package.
Once(s) == \A i, j \in DOMAIN s : s[i].package = s[j].package => i = j

\* A row and an entry say the same.
Same(k, x) ==
    packageRows[k].file = x.file /\ packageRows[k].path = x.path /\ packageRows[k].sum = x.sum

\* The packages of which rows and list may differ while the request is in hand.
Doubted(r, p) ==
    /\ aptJob.kind # "none" /\ r = aptJob.repository
    /\ \/ aptJob.kind \in {"upload", "add"} /\ aptAt = "remember" /\ p = aptJob.entry.package
       \/ aptJob.kind = "edit" /\ aptAt = "upsert" /\ p = aptJob.entry.package
       \/ aptJob.kind = "deletePackage" /\ aptAt \in {"removeFile", "remember"} /\ p = aptJob.entry.package
       \/ aptJob.kind = "deleteRepository" /\ aptAt # "deletePackages"

\* The packages of a list and those of its repository with a row.
AptAgrees(r) ==
    /\ Once(packages[r])
    /\ \A p \in Packages : <<r, p>> \in Apt!indexed /\ ~Doubted(r, p) =>
          \E i \in DOMAIN packages[r] : packages[r][i].package = p /\ Same(<<r, p>>, packages[r][i])
    /\ \A i \in DOMAIN packages[r] :
          ~Doubted(r, packages[r][i].package) => <<r, packages[r][i].package>> \in Apt!indexed

\* What the request in hand will do to the list.
AptTold ==
    /\ aptJob.kind = "deletePackage" => packages[aptJob.repository][aptJob.index] = aptJob.entry
    /\ aptJob.kind # "none" /\ aptJob.repository \notin diverged =>
         /\ aptJob.kind = "deletePackage" /\ aptAt \in {"removeFile", "remember"} => Target \notin Apt!indexed
         /\ aptJob.kind = "edit" =>
              \E i \in DOMAIN packages[aptJob.repository] : packages[aptJob.repository][i] = aptJob.entry
         /\ aptJob.kind \in {"upload", "add"} /\ aptAt = "remember" =>
              Target \in Apt!indexed /\ Same(Target, aptJob.entry)

\* The repositories of the list and those with a row.
AptRepositories ==
    /\ \A k \in Apt!indexed : k[1] \in repositoryRows
    /\ aptJob.kind \in EntryKinds => aptJob.repository \in repositoryRows
    /\ aptAt \in {"deletePackages", "deleteRepository"} => aptJob.repository \in repositoryRows
    /\ repositoryRows =
         IF aptJob.kind = "deleteRepository" /\ aptAt \in {"removeFiles", "remember"}
         THEN repositories \ {aptJob.repository}
         ELSE IF aptJob.kind = "create" /\ aptAt = "remember"
         THEN repositories \cup {aptJob.repository}
         ELSE repositories

AptEmptied ==
    aptAt \in {"deleteRepository", "removeFiles", "remember"} /\ aptJob.kind = "deleteRepository" =>
        \A k \in Apt!indexed : k[1] # aptJob.repository

AptHomes == aptFaults = 0 => AptRepositories /\ AptEmptied
AptListed == aptFaults = 0 => AptTold /\ \A r \in Repositories : r \notin diverged => AptAgrees(r)

\* What keeps requests and lists of their types.
AptTyped ==
    /\ Apt!TypeOK /\ AptPhases
    /\ aptJob.kind = "upload" => aptJob.entry.path = Apt!PathOf(aptJob.repository, aptJob.entry.package)
    /\ aptJob.kind = "deletePackage" => aptJob.index \in DOMAIN packages[aptJob.repository]

AptStored == AptTyped /\ AptRows /\ AptEntries /\ AptHand

-----------------------------------------------------------------------------
LEMMA PathTypes ==
    \A r \in Repositories, p \in Packages :
        Apt!PathOf(r, p) \in Apt!Paths /\ Apt!PathOf(r, p) \in Apt!FileNames
BY StoresAssumption DEF StoresAssumption, Apt!PathOf, Apt!Paths, Apt!FileNames

\* Paths tell packages apart.
LEMMA PathFacts ==
    ASSUME AptApart
    PROVE  \A r, s \in Repositories, p, q \in Packages :
               Apt!PathOf(r, p) = Apt!PathOf(s, q) => r = s /\ p = q
BY DEF AptApart, Apt!PathOf

-----------------------------------------------------------------------------
\* What the types say of rows, requests and entries.
LEMMA AptFields ==
    ASSUME Apt!TypeOK
    PROVE  /\ Apt!indexed \subseteq Repositories \X Packages
           /\ \A k \in Apt!indexed : /\ packageRows[k].id \in Nat /\ packageRows[k].path \in Apt!FileNames
                                     /\ packageRows[k].file \in Apt!FileNames
                                     /\ packageRows[k].sum \in 0 .. AptRequests
           /\ \A r \in Repositories : packages[r] \in Seq(Apt!Entry)
           /\ \A r \in Repositories : \A i \in DOMAIN packages[r] : packages[r][i] \in Apt!Entry
           /\ \A e \in Apt!Entry : /\ e.package \in Packages /\ e.id \in Nat
                                   /\ e.path \in Apt!FileNames /\ e.file \in Apt!FileNames
                                   /\ e.sum \in 0 .. AptRequests
           /\ ids \in Nat /\ aptFaults \in Nat /\ aptRequests \in Nat
           /\ aptAt = "idle" <=> aptJob.kind = "none"
           /\ aptAt # "idle" => aptJob.repository \in Repositories /\ aptJob \in Apt!Job
           /\ aptJob.kind \in {"none", "create", "deleteRepository"} \cup EntryKinds
           /\ aptJob.kind \in EntryKinds => aptJob.entry \in Apt!Entry
           /\ aptJob.kind = "deleteRepository" => aptJob.paths \subseteq Apt!FileNames
           /\ aptJob.kind = "deletePackage" => aptJob.index \in Nat
<1>1. /\ Apt!indexed \subseteq Repositories \X Packages
      /\ \A k \in Apt!indexed : /\ packageRows[k].id \in Nat /\ packageRows[k].path \in Apt!FileNames
                                /\ packageRows[k].file \in Apt!FileNames
                                /\ packageRows[k].sum \in 0 .. AptRequests
  BY DEF Apt!TypeOK, Apt!Keys, Apt!Row, Apt!Sums
<1>2. /\ \A r \in Repositories : packages[r] \in Seq(Apt!Entry)
      /\ \A r \in Repositories : \A i \in DOMAIN packages[r] : packages[r][i] \in Apt!Entry
      /\ \A e \in Apt!Entry : /\ e.package \in Packages /\ e.id \in Nat
                              /\ e.path \in Apt!FileNames /\ e.file \in Apt!FileNames
                                   /\ e.sum \in 0 .. AptRequests
  <2>1. \A r \in Repositories : packages[r] \in Seq(Apt!Entry)
    BY DEF Apt!TypeOK
  <2>2. \A r \in Repositories : \A i \in DOMAIN packages[r] : packages[r][i] \in Apt!Entry
    BY <2>1, ElementOfSeq
  <2>3. \A e \in Apt!Entry : /\ e.package \in Packages /\ e.id \in Nat
                              /\ e.path \in Apt!FileNames /\ e.file \in Apt!FileNames
                                   /\ e.sum \in 0 .. AptRequests
    BY DEF Apt!Entry, Apt!Sums
  <2> QED BY <2>1, <2>2, <2>3
<1>3. ids \in Nat /\ aptFaults \in Nat /\ aptRequests \in Nat
  BY StoreBounds DEF Apt!TypeOK
<1>4. \A j \in Apt!Job : /\ j.kind \in {"create", "deleteRepository"} \cup EntryKinds
                         /\ j.repository \in Repositories
                         /\ j.kind \in EntryKinds => j.entry \in Apt!Entry
                         /\ j.kind = "deleteRepository" => j.paths \subseteq Apt!FileNames
                         /\ j.kind = "deletePackage" => j.index \in Nat
  BY DEF Apt!Job, EntryKinds
<1>5. Apt!NoJob.kind = "none"
  BY DEF Apt!NoJob
<1>6. aptJob = Apt!NoJob \/ aptJob \in Apt!Job
  BY DEF Apt!TypeOK
<1>7. aptAt = "idle" <=> aptJob = Apt!NoJob
  BY DEF Apt!TypeOK
<1>8. CASE aptJob = Apt!NoJob
  BY <1>1, <1>2, <1>3, <1>5, <1>7, <1>8 DEF EntryKinds
<1>9. CASE aptJob \in Apt!Job
  <2>1. aptJob.kind # "none" /\ aptAt # "idle"
    BY <1>4, <1>5, <1>7, <1>9 DEF EntryKinds
  <2> QED BY <1>1, <1>2, <1>3, <1>4, <1>9, <2>1
<1> QED BY <1>6, <1>8, <1>9

LEMMA AptStarts == Apt!Init => AptStored /\ AptListed
<1> SUFFICES ASSUME Apt!Init
             PROVE  AptStored /\ AptListed
  OBVIOUS
<1>1. packageRows = <<>> /\ DOMAIN packageRows = {} /\ \A r \in Repositories : packages[r] = <<>> /\ DOMAIN packages[r] = {}
  BY DEF Apt!Init
<1>2. aptAt = "idle" /\ aptJob = Apt!NoJob /\ aptJob.kind = "none"
  BY DEF Apt!Init, Apt!NoJob
<1>3. Apt!TypeOK
  BY <1>1, <1>2, StoreBounds DEF Apt!Init, Apt!TypeOK, Apt!indexed, Apt!Sums, Apt!None, Apt!Phases
<1>4. AptTyped
  BY <1>2, <1>3 DEF AptTyped, AptPhases
<1>5. AptRows /\ AptEntries /\ AptHand
  BY <1>1, <1>2 DEF Apt!Init, AptRows, Uploaded, AptEntries, AptHand, EntryKinds, Apt!indexed
<1>6. AptListed
  BY <1>1, <1>2 DEF AptListed, AptTold, AptAgrees, Once, Apt!indexed
<1> QED BY <1>4, <1>5, <1>6 DEF AptStored

-----------------------------------------------------------------------------
\* A request is begun, goes on to a phase, or ends.
LEMMA AptBeginsTyped ==
    ASSUME Apt!TypeOK, NEW j \in Apt!Job, NEW phase \in Apt!Phases, phase # "idle", Apt!Begin(j, phase),
           packages' \in [Repositories -> Seq(Apt!Entry)], aptRequests' \in 0 .. AptRequests,
           claimed' \subseteq Apt!Paths, diverged' \subseteq Repositories
    PROVE  Apt!TypeOK'
<1>1. j # Apt!NoJob
  <2>1. j.kind # "none"
    BY DEF Apt!Job
  <2> QED BY <2>1 DEF Apt!NoJob
<1> QED BY <1>1 DEF Apt!TypeOK, Apt!Begin, Apt!table, Apt!indexed

LEMMA AptGoesTyped ==
    ASSUME Apt!TypeOK,
           \/ Apt!Rest
           \/ /\ aptAt # "idle" /\ aptAt' # "idle" /\ aptAt' \in Apt!Phases /\ aptJob' \in Apt!Job,
           repositoryRows' \subseteq Repositories,
           Apt!indexed' \subseteq Apt!Keys, \A k \in Apt!indexed' : packageRows'[k] \in Apt!Row,
           ids' \in Nat, pool' \in [Apt!Paths -> Apt!Sums],
           repositories' \subseteq Repositories, packages' \in [Repositories -> Seq(Apt!Entry)],
           aptRequests' = aptRequests, aptFaults' \in 0 .. AptFaults,
           served' \subseteq Apt!Keys, torn' \subseteq Apt!Paths,
           declared' \subseteq Apt!Keys, claimed' = claimed, diverged' \subseteq Repositories
    PROVE  Apt!TypeOK'
<1>1. CASE Apt!Rest
  BY <1>1 DEF Apt!TypeOK, Apt!Rest, Apt!Phases
<1>2. CASE aptAt # "idle" /\ aptAt' # "idle" /\ aptAt' \in Apt!Phases /\ aptJob' \in Apt!Job
  <2>1. aptJob' # Apt!NoJob
    <3>1. aptJob'.kind # "none"
      BY <1>2 DEF Apt!Job
    <3> QED BY <3>1 DEF Apt!NoJob
  <2> QED BY <1>2, <2>1 DEF Apt!TypeOK
<1> QED BY <1>1, <1>2

\* What metadata says is an entry without an id, and names artifacts.
LEMMA SaidFacts ==
    ASSUME NEW p \in Packages, NEW file \in Apt!FileNames, NEW path \in Apt!FileNames, NEW sum \in Apt!Sums
    PROVE  Apt!Said(p, file, path, sum) \in Apt!Entry /\ Apt!Said(p, file, path, sum).id = 0
BY DEF Apt!Said, Apt!Entry

LEMMA ClaimsTyped == \A r, e : Apt!Claims(r, e) \subseteq Apt!Paths
BY DEF Apt!Claims

\* A request for the metadata of a package.
Metadata(r, e) ==
    Apt!AddPackage(r, e) \/ \E i \in Apt!Positions(packages[r]) : Apt!UpdatePackage(r, i, e)

\* Requests as they begin.
LEMMA AptBegun ==
    ASSUME Apt!TypeOK, NEW r \in Repositories,
           \/ Apt!CreateRepository(r) \/ Apt!DeleteRepository(r)
           \/ \E p \in Packages : Apt!Upload(r, p)
           \/ \E i \in Apt!Positions(packages[r]) : Apt!DeletePackage(r, i)
           \/ \E e \in Apt!Entry : Metadata(r, e)
    PROVE  Apt!TypeOK'
<1>0. Apt!TypeOK
  OBVIOUS
<1>a. /\ packages \in [Repositories -> Seq(Apt!Entry)] /\ aptRequests \in 0 .. AptRequests
      /\ claimed \subseteq Apt!Paths /\ diverged \subseteq Repositories
      /\ \A e : claimed \cup Apt!Claims(r, e) \subseteq Apt!Paths
  BY <1>0, ClaimsTyped DEF Apt!TypeOK
<1>1. CASE Apt!CreateRepository(r)
  <2>1. [kind |-> "create", repository |-> r] \in Apt!Job
    BY DEF Apt!Job
  <2>2. "insertRepository" \in Apt!Phases
    BY DEF Apt!Phases
  <2> QED BY <1>0, <1>a, <1>1, <2>1, <2>2, AptBeginsTyped DEF Apt!CreateRepository
<1>2. CASE Apt!DeleteRepository(r)
  <2> DEFINE gone == {packageRows[k].path : k \in {l \in Apt!indexed : l[1] = r}}
  <2>1. gone \subseteq Apt!FileNames
    BY <1>0, AptFields
  <2>2. [kind |-> "deleteRepository", repository |-> r, paths |-> gone] \in Apt!Job
    BY <2>1 DEF Apt!Job
  <2>3. "deletePackages" \in Apt!Phases
    BY DEF Apt!Phases
  <2> QED BY <1>0, <1>a, <1>2, <2>2, <2>3, AptBeginsTyped DEF Apt!DeleteRepository
<1>3. ASSUME NEW kind \in {"upload", "add", "edit"}, NEW e \in Apt!Entry,
             NEW phase \in {"removeOld", "upsert"}, Apt!Write(kind, r, e, phase),
             packages' \in [Repositories -> Seq(Apt!Entry)],
             claimed' \subseteq Apt!Paths, diverged' \subseteq Repositories
      PROVE  Apt!TypeOK'
  <2>0. aptRequests < AptRequests /\ aptRequests' = aptRequests + 1 /\ aptRequests' \in 0 .. AptRequests
    BY <1>a, <1>3, StoreBounds DEF Apt!Write
  <2>1. [kind |-> kind, repository |-> r, entry |-> e] \in Apt!Job
    BY DEF Apt!Job
  <2>2. {"removeOld", "upsert"} \subseteq Apt!Phases /\ phase # "idle"
    BY DEF Apt!Phases
  <2> QED BY <1>0, <1>3, <2>0, <2>1, <2>2, AptBeginsTyped DEF Apt!Write
<1>4. ASSUME NEW i \in Apt!Positions(packages[r]), Apt!DeletePackage(r, i)
      PROVE  Apt!TypeOK'
  <2>1. packages[r][i] \in Apt!Entry /\ i \in Nat
    BY <1>0, AptFields DEF Apt!Positions
  <2>2. [kind |-> "deletePackage", repository |-> r, entry |-> packages[r][i], index |-> i] \in Apt!Job
    BY <2>1 DEF Apt!Job
  <2>3. "deleteRow" \in Apt!Phases
    BY DEF Apt!Phases
  <2> QED BY <1>0, <1>a, <1>4, <2>2, <2>3, AptBeginsTyped DEF Apt!DeletePackage
<1>5. ASSUME NEW p \in Packages, Apt!Upload(r, p)
      PROVE  Apt!TypeOK'
  <2> DEFINE e == [package |-> p, id |-> 0, file |-> Apt!PathOf(r, p), path |-> Apt!PathOf(r, p),
                   sum |-> aptRequests + 1]
  <2>1. Apt!Write("upload", r, e, "removeOld") /\ UNCHANGED <<packages, claimed, diverged>>
    BY <1>5 DEF Apt!Upload
  <2>2. aptRequests < AptRequests
    BY <2>1 DEF Apt!Write
  <2>3. e \in Apt!Entry
    BY <1>a, <2>2, StoreBounds, PathTypes DEF Apt!Entry, Apt!Sums
  <2> HIDE DEF e
  <2> QED BY <1>a, <1>3, <2>1, <2>3
<1>6. ASSUME NEW e \in Apt!Entry, Apt!AddPackage(r, e)
      PROVE  Apt!TypeOK'
  BY <1>a, <1>3, <1>6 DEF Apt!AddPackage
<1>7. ASSUME NEW e \in Apt!Entry, NEW i \in Apt!Positions(packages[r]), Apt!UpdatePackage(r, i, e)
      PROVE  Apt!TypeOK'
  <2>1. packages[r] \in Seq(Apt!Entry) /\ i \in 1 .. Len(packages[r])
    BY <1>0, AptFields DEF Apt!Positions
  <2>2. [packages[r] EXCEPT ![i] = e] \in Seq(Apt!Entry)
    BY <2>1, ExceptSeq
  <2>3. [packages EXCEPT ![r][i] = e] \in [Repositories -> Seq(Apt!Entry)]
    BY <1>a, <2>2
  <2>4. diverged' \subseteq Repositories
    BY <1>a, <1>7 DEF Apt!UpdatePackage
  <2> QED BY <1>a, <1>3, <1>7, <2>3, <2>4 DEF Apt!UpdatePackage
<1> QED BY <1>1, <1>2, <1>4, <1>5, <1>6, <1>7 DEF Metadata

-----------------------------------------------------------------------------
LEMMA AptCardinality == \A S : Apt!Cardinality(S) = Cardinality(S)
BY DEF Apt!Cardinality, Cardinality

\* The n-th of a finite set of numbers is in it, each of it is one, and only once.
LEMMA NthFacts ==
    ASSUME NEW S, S \subseteq Nat, IsFiniteSet(S)
    PROVE  /\ Cardinality(S) \in Nat
           /\ \A n \in 1 .. Cardinality(S) : Apt!Nth(S, n) \in S /\ Rank(S, Apt!Nth(S, n)) = n - 1
           /\ \A p \in S : \E n \in 1 .. Cardinality(S) : Apt!Nth(S, n) = p
<1>1. Cardinality(S) \in Nat /\ \A p \in S : p \in Nat /\ Rank(S, p) \in Nat
  BY FS_CardinalityType, RankType
<1>2. \A n \in 1 .. Cardinality(S) : \E p \in S : Rank(S, p) = n - 1
  <2> SUFFICES ASSUME NEW n \in 1 .. Cardinality(S), \A p \in S : Rank(S, p) # n - 1
               PROVE  FALSE
    OBVIOUS
  <2>0. n \in Nat /\ n - 1 \in Nat /\ 0 \in Nat /\ 0 <= n - 1 /\ n <= Cardinality(S)
    BY <1>1
  <2>1. \A p \in S : Rank(S, p) < n - 1
    <3> SUFFICES ASSUME NEW p \in S, ~(Rank(S, p) < n - 1)
                 PROVE  FALSE
      OBVIOUS
    <3>1. Rank(S, p) >= n - 1
      BY <1>1, <2>0
    <3> QED BY <2>0, <3>1, RankFilled
  <2>2. \A p \in S : Rank(S, p) >= 0 /\ Rank(S, p) < n - 1
    BY <1>1, <2>1
  <2>3. Cardinality(S) <= (n - 1) - 0
    BY <2>0, <2>2, RankRange
  <2> QED BY <1>1, <2>0, <2>3
<1>3. \A n \in 1 .. Cardinality(S) : Apt!Nth(S, n) \in S /\ Rank(S, Apt!Nth(S, n)) = n - 1
  <2> SUFFICES ASSUME NEW n \in 1 .. Cardinality(S)
               PROVE  Apt!Nth(S, n) \in S /\ Rank(S, Apt!Nth(S, n)) = n - 1
    OBVIOUS
  <2>1. \E p \in S : Rank(S, p) = n - 1
    BY <1>2
  <2>2. Apt!Nth(S, n) = CHOOSE p \in S : Rank(S, p) = n - 1
    BY AptCardinality DEF Apt!Nth, Rank
  <2> QED BY <2>1, <2>2
<1>4. ASSUME NEW p \in S
      PROVE  \E n \in 1 .. Cardinality(S) : Apt!Nth(S, n) = p
  <2> DEFINE n == Rank(S, p) + 1
  <2>1. Rank(S, p) < Cardinality(S)
    <3> DEFINE B == {q \in S : q < p}
    <3>1. B \in SUBSET S /\ p \notin B /\ p \in S
      <4>1. ~(p < p)
        BY <1>1
      <4> QED BY <4>1
    <3>2. Cardinality(B) <= Cardinality(S) /\ Cardinality(B) # Cardinality(S)
      <4> HIDE DEF B
      <4> QED BY <3>1, FS_Subset
    <3> QED BY <1>1, <3>2 DEF Rank
  <2>2. n \in 1 .. Cardinality(S) /\ n - 1 = Rank(S, p)
    BY <1>1, <2>1
  <2> HIDE DEF n
  <2>3. Apt!Nth(S, n) \in S /\ Rank(S, Apt!Nth(S, n)) = Rank(S, p)
    BY <1>3, <2>2
  <2>4. Apt!Nth(S, n) = p
    <3> DEFINE m == Apt!Nth(S, n)
    <3>1. m < p => Rank(S, m) < Rank(S, p)
      BY <2>3, RankGrows
    <3>2. p < m => Rank(S, p) < Rank(S, m)
      BY <2>3, RankGrows
    <3>3. m \in Nat /\ p \in Nat
      BY <1>1, <2>3
    <3>4. Rank(S, m) = Rank(S, p) /\ Rank(S, p) \in Nat
      BY <1>1, <2>3
    <3> HIDE DEF m
    <3>5. ~(m < p) /\ ~(p < m)
      BY <3>1, <3>2, <3>4
    <3>6. m = p
      BY <3>3, <3>5
    <3> QED BY <3>6 DEF m
  <2> QED BY <2>2, <2>4
<1> QED BY <1>1, <1>3, <1>4

\* What a start reads of a repository: its rows, each once.
LEMMA LoadedFacts ==
    ASSUME Apt!TypeOK, NEW r \in Repositories
    PROVE  /\ Apt!Loaded(r) \in Seq(Apt!Entry)
           /\ r \notin repositoryRows => Apt!Loaded(r) = <<>>
           /\ r \in repositoryRows => \A p \in Packages : <<r, p>> \in Apt!indexed =>
                 \E i \in DOMAIN Apt!Loaded(r) : Apt!Loaded(r)[i].package = p
           /\ \A i \in DOMAIN Apt!Loaded(r) :
                 LET e == Apt!Loaded(r)[i]
                     row == packageRows[<<r, e.package>>]
                 IN  /\ <<r, e.package>> \in Apt!indexed
                     /\ e.id = row.id /\ e.file = row.file /\ e.path = row.path /\ e.sum = row.sum
           /\ \A i, j \in DOMAIN Apt!Loaded(r) :
                 Apt!Loaded(r)[i].package = Apt!Loaded(r)[j].package => i = j
<1> DEFINE P == {p \in Packages : <<r, p>> \in Apt!indexed}
           E(p) == [package |-> p, id |-> packageRows[<<r, p>>].id,
                    file |-> packageRows[<<r, p>>].file,
                    path |-> packageRows[<<r, p>>].path, sum |-> packageRows[<<r, p>>].sum]
           f == [i \in 1 .. Cardinality(P) |-> E(Apt!Nth(P, i))]
<1>1. P \subseteq Nat /\ IsFiniteSet(P) /\ P \subseteq Packages
  <2>1. P \in SUBSET Packages
    OBVIOUS
  <2>2. IsFiniteSet(P)
    <3> HIDE DEF P
    <3> QED BY <2>1, FS_Subset, StoresAssumption DEF StoresAssumption
  <2> QED BY <2>1, <2>2, StoresAssumption DEF StoresAssumption
<1>2. \A p \in P : /\ E(p) \in Apt!Entry /\ <<r, p>> \in Apt!indexed /\ E(p).package = p
                   /\ E(p).id = packageRows[<<r, p>>].id
                   /\ E(p).file = packageRows[<<r, p>>].file
                   /\ E(p).path = packageRows[<<r, p>>].path
                   /\ E(p).sum = packageRows[<<r, p>>].sum
  <2>1. \A p \in P : packageRows[<<r, p>>] \in Apt!Row
    BY DEF Apt!TypeOK
  <2> QED BY <2>1 DEF Apt!Row, Apt!Entry
<1>3. Apt!Loaded(r) = IF r \notin repositoryRows THEN <<>> ELSE f
  BY AptCardinality DEF Apt!Loaded
<1> HIDE DEF f
<1>4. /\ r \notin repositoryRows => Apt!Loaded(r) = <<>>
      /\ r \in repositoryRows => Apt!Loaded(r) = f
  BY <1>3
<1> USE DEF f
<1> HIDE DEF P, E
<1>5. /\ Cardinality(P) \in Nat
      /\ \A n \in 1 .. Cardinality(P) : Apt!Nth(P, n) \in P /\ Rank(P, Apt!Nth(P, n)) = n - 1
      /\ \A p \in P : \E n \in 1 .. Cardinality(P) : Apt!Nth(P, n) = p
  BY <1>1, NthFacts
<1>6. f \in [1 .. Cardinality(P) -> Apt!Entry]
  BY <1>2, <1>5
<1>7. f \in Seq(Apt!Entry) /\ DOMAIN f = 1 .. Cardinality(P)
  BY <1>5, <1>6, FunctionOfSeq
<1>8. CASE r \notin repositoryRows
  BY <1>4, <1>8
<1>9. CASE r \in repositoryRows
  <2>1. Apt!Loaded(r) = f
    BY <1>4, <1>9
  <2>2. \A i \in DOMAIN f : Apt!Nth(P, i) \in P /\ f[i] = E(Apt!Nth(P, i)) /\ f[i].package = Apt!Nth(P, i)
    BY <1>2, <1>5, <1>7
  <2>3. \A i, j \in DOMAIN f : f[i].package = f[j].package => i = j
    <3> SUFFICES ASSUME NEW i \in DOMAIN f, NEW j \in DOMAIN f, f[i].package = f[j].package
                 PROVE  i = j
      OBVIOUS
    <3>1. i \in 1 .. Cardinality(P) /\ j \in 1 .. Cardinality(P)
      BY <1>7
    <3>2. i - 1 = j - 1
      BY <1>5, <2>2, <3>1
    <3> QED BY <1>5, <3>1, <3>2
  <2>4. \A p \in Packages : <<r, p>> \in Apt!indexed => p \in P
    BY DEF P
  <2>5. \A p \in P : \E i \in DOMAIN f : f[i].package = p
    BY <1>5, <1>7, <2>2
  <2> HIDE DEF f
  <2> QED BY <1>2, <1>7, <1>9, <2>1, <2>2, <2>3, <2>4, <2>5
<1> QED BY <1>8, <1>9

-----------------------------------------------------------------------------
LEMMA ListsTyped ==
    ASSUME NEW s \in Seq(Apt!Entry)
    PROVE  /\ \A e \in Apt!Entry : Apt!Stored(s, e) \in Seq(Apt!Entry)
           /\ \A i \in DOMAIN s : Apt!Erased(s, i) \in Seq(Apt!Entry)
<1>1. ASSUME NEW e \in Apt!Entry
      PROVE  Apt!Stored(s, e) \in Seq(Apt!Entry)
  <2> DEFINE same == {i \in Apt!Positions(s) : s[i].package = e.package}
             least == CHOOSE i \in same : \A j \in same : i <= j
  <2>1. Apt!Stored(s, e) = IF same = {} THEN Append(s, e) ELSE [s EXCEPT ![least] = e]
    BY DEF Apt!Stored
  <2>2. same # {} => least \in 1 .. Len(s)
    <3>1. same \subseteq Nat /\ same \subseteq 1 .. Len(s)
      BY DEF Apt!Positions
    <3> HIDE DEF same
    <3>2. same # {} => \E i \in same : \A j \in same : i <= j
      BY <3>1, LeastNatural
    <3> QED BY <3>1, <3>2
  <2> HIDE DEF same, least
  <2>3. Append(s, e) \in Seq(Apt!Entry)
    BY AppendProperties
  <2>4. same # {} => [s EXCEPT ![least] = e] \in Seq(Apt!Entry)
    BY <2>2, ExceptSeq
  <2> QED BY <2>1, <2>3, <2>4
<1>2. ASSUME NEW i \in DOMAIN s
      PROVE  Apt!Erased(s, i) \in Seq(Apt!Entry)
  <2>1. DOMAIN s = 1 .. Len(s) /\ Len(s) \in Nat /\ i \in Nat /\ 1 <= i /\ i <= Len(s)
    OBVIOUS
  <2>2. SubSeq(s, 1, i - 1) \in Seq(Apt!Entry)
    BY <2>1, SubSeqProperties
  <2>3. SubSeq(s, i + 1, Len(s)) \in Seq(Apt!Entry)
    BY <2>1, SubSeqProperties
  <2> QED BY <2>2, <2>3, ConcatProperties DEF Apt!Erased
<1> QED BY <1>1, <1>2

\* Storing an entry replaces the one of its package, and no other.
LEMMA StoredFacts ==
    ASSUME NEW s \in Seq(Apt!Entry), NEW e \in Apt!Entry, Once(s)
    PROVE  /\ Apt!Stored(s, e) \in Seq(Apt!Entry) /\ Once(Apt!Stored(s, e))
           /\ \A i \in DOMAIN Apt!Stored(s, e) :
                \/ Apt!Stored(s, e)[i] = e
                \/ \E j \in DOMAIN s : s[j] = Apt!Stored(s, e)[i] /\ s[j].package # e.package
           /\ \E i \in DOMAIN Apt!Stored(s, e) : Apt!Stored(s, e)[i] = e
           /\ \A j \in DOMAIN s : s[j].package # e.package =>
                \E i \in DOMAIN Apt!Stored(s, e) : Apt!Stored(s, e)[i] = s[j]
<1> DEFINE same == {i \in Apt!Positions(s) : s[i].package = e.package}
           least == CHOOSE i \in same : \A j \in same : i <= j
           t == Apt!Stored(s, e)
<1>1. DOMAIN s = 1 .. Len(s) /\ Len(s) \in Nat /\ Apt!Positions(s) = 1 .. Len(s)
  BY DEF Apt!Positions
<1>2. t = IF same = {} THEN Append(s, e) ELSE [s EXCEPT ![least] = e]
  BY DEF Apt!Stored
<1>3. same # {} => least \in same
  <2> HIDE DEF same
  <2>1. same \subseteq Nat
    BY <1>1 DEF same
  <2>2. same # {} => \E i \in same : \A j \in same : i <= j
    BY <2>1, LeastNatural
  <2> QED BY <2>2
<1> HIDE DEF t, least
<1>4. CASE same = {}
  <2>1. t = Append(s, e)
    BY <1>2, <1>4
  <2>2. /\ t \in Seq(Apt!Entry) /\ Len(t) = Len(s) + 1
        /\ \A i \in 1 .. Len(s) : t[i] = s[i]
        /\ t[Len(s) + 1] = e
    BY <2>1, AppendProperties
  <2>3. DOMAIN t = 1 .. Len(s) + 1
    BY <2>2
  <2>4. \A j \in DOMAIN s : s[j].package # e.package
    BY <1>1, <1>4
  <2>5. \A i \in DOMAIN t : i \in DOMAIN s \/ i = Len(s) + 1
    BY <1>1, <2>3
  <2>6. \A i \in DOMAIN s : i \in DOMAIN t /\ t[i] = s[i]
    BY <1>1, <2>2, <2>3
  <2>7. Len(s) + 1 \in DOMAIN t
    BY <1>1, <2>3
  <2>8. Once(t)
    BY <2>2, <2>4, <2>5, <2>6 DEF Once
  <2> QED BY <2>2, <2>4, <2>5, <2>6, <2>7, <2>8 DEF t
<1>5. CASE same # {}
  <2>1. t = [s EXCEPT ![least] = e] /\ least \in DOMAIN s /\ s[least].package = e.package
    BY <1>1, <1>2, <1>3, <1>5
  <2>2. t \in Seq(Apt!Entry)
    BY <1>1, <2>1, ExceptSeq
  <2>3. DOMAIN t = DOMAIN s /\ \A i \in DOMAIN s : t[i] = IF i = least THEN e ELSE s[i]
    BY <2>1
  <2>4. \A i \in DOMAIN s : i # least => s[i].package # e.package
    BY <2>1 DEF Once
  <2>5. Once(t)
    BY <2>3, <2>4 DEF Once
  <2> QED BY <2>1, <2>2, <2>3, <2>4, <2>5 DEF t
<1> QED BY <1>4, <1>5

\* Erasing moves what comes after one place to the front.
LEMMA ErasedElements ==
    ASSUME NEW s \in Seq(Apt!Entry), NEW i \in DOMAIN s
    PROVE  /\ Apt!Erased(s, i) \in Seq(Apt!Entry) /\ Len(Apt!Erased(s, i)) = Len(s) - 1
           /\ \A k \in 1 .. Len(s) - 1 : Apt!Erased(s, i)[k] = IF k < i THEN s[k] ELSE s[k + 1]
<1> DEFINE a == SubSeq(s, 1, i - 1)
           b == SubSeq(s, i + 1, Len(s))
           t == Apt!Erased(s, i)
<1>1. DOMAIN s = 1 .. Len(s) /\ Len(s) \in Nat /\ i \in Nat /\ 1 <= i /\ i <= Len(s)
  OBVIOUS
<1>2. /\ a \in Seq(Apt!Entry) /\ Len(a) = i - 1 /\ \A k \in 1 .. i - 1 : a[k] = s[k]
  <2>1. 1 \in 1 .. Len(s) + 1 /\ i - 1 \in 1 - 1 .. Len(s)
    BY <1>1
  <2>2. /\ a \in Seq(Apt!Entry) /\ Len(a) = (i - 1) - 1 + 1
        /\ \A k \in 1 .. (i - 1) - 1 + 1 : a[k] = s[1 + k - 1]
    BY <1>1, <2>1, SubSeqProperties
  <2> HIDE DEF a
  <2> QED BY <1>1, <2>2
<1>3. /\ b \in Seq(Apt!Entry) /\ Len(b) = Len(s) - i /\ \A k \in 1 .. Len(s) - i : b[k] = s[i + k]
  <2>1. i + 1 \in 1 .. Len(s) + 1 /\ Len(s) \in (i + 1) - 1 .. Len(s)
    BY <1>1
  <2>2. /\ b \in Seq(Apt!Entry) /\ Len(b) = Len(s) - (i + 1) + 1
        /\ \A k \in 1 .. Len(s) - (i + 1) + 1 : b[k] = s[(i + 1) + k - 1]
    BY <1>1, <2>1, SubSeqProperties
  <2>3. /\ Len(s) - (i + 1) + 1 = Len(s) - i
        /\ \A k \in 1 .. Len(s) - i : (i + 1) + k - 1 = i + k
    BY <1>1
  <2> HIDE DEF b
  <2> QED BY <2>2, <2>3
<1>4. t = a \o b
  BY DEF Apt!Erased
<1> HIDE DEF a, b, t
<1>5. /\ t \in Seq(Apt!Entry) /\ Len(t) = Len(s) - 1
      /\ \A k \in 1 .. Len(s) - 1 : t[k] = IF k < i THEN s[k] ELSE s[k + 1]
  <2>1. /\ t \in Seq(Apt!Entry) /\ Len(t) = Len(a) + Len(b)
        /\ \A k \in 1 .. Len(a) + Len(b) : t[k] = IF k <= Len(a) THEN a[k] ELSE b[k - Len(a)]
    BY <1>2, <1>3, <1>4, ConcatProperties
  <2>2. \A k \in 1 .. Len(s) - 1 : t[k] = IF k < i THEN s[k] ELSE s[k + 1]
    <3> SUFFICES ASSUME NEW k \in 1 .. Len(s) - 1
                 PROVE  t[k] = IF k < i THEN s[k] ELSE s[k + 1]
      OBVIOUS
    <3>1. CASE k < i
      BY <1>1, <1>2, <1>3, <2>1, <3>1
    <3>2. CASE ~(k < i)
      <4>1. k - (i - 1) \in 1 .. Len(s) - i /\ i + (k - (i - 1)) = k + 1
        BY <1>1, <3>2
      <4>2. t[k] = b[k - (i - 1)]
        BY <1>1, <1>2, <1>3, <2>1, <3>2
      <4> QED BY <1>3, <3>2, <4>1, <4>2
    <3> QED BY <3>1, <3>2
  <2> QED BY <1>1, <1>2, <1>3, <2>1, <2>2
<1> QED BY <1>5 DEF t

\* Erasing an entry leaves the others.
LEMMA ErasedFacts ==
    ASSUME NEW s \in Seq(Apt!Entry), NEW i \in DOMAIN s, Once(s)
    PROVE  /\ Apt!Erased(s, i) \in Seq(Apt!Entry) /\ Once(Apt!Erased(s, i))
           /\ \A k \in DOMAIN Apt!Erased(s, i) :
                \E j \in DOMAIN s : s[j] = Apt!Erased(s, i)[k] /\ j # i /\ s[j].package # s[i].package
           /\ \A j \in DOMAIN s : s[j].package # s[i].package =>
                \E k \in DOMAIN Apt!Erased(s, i) : Apt!Erased(s, i)[k] = s[j]
<1> DEFINE t == Apt!Erased(s, i)
<1>1. DOMAIN s = 1 .. Len(s) /\ Len(s) \in Nat /\ i \in Nat /\ 1 <= i /\ i <= Len(s)
  OBVIOUS
<1> HIDE DEF t
<1>2. /\ t \in Seq(Apt!Entry) /\ Len(t) = Len(s) - 1
      /\ \A k \in 1 .. Len(s) - 1 : t[k] = IF k < i THEN s[k] ELSE s[k + 1]
  BY ErasedElements DEF t
<1>3. DOMAIN t = 1 .. Len(s) - 1
  BY <1>2
<1> DEFINE From(k) == IF k < i THEN k ELSE k + 1
<1>4. \A k \in DOMAIN t : From(k) \in DOMAIN s /\ From(k) # i /\ t[k] = s[From(k)]
  BY <1>1, <1>2, <1>3
<1>5. \A k, l \in DOMAIN t : From(k) = From(l) => k = l
  BY <1>1, <1>3
<1>6. \A j \in DOMAIN s : j # i => \E k \in DOMAIN t : From(k) = j
  <2> SUFFICES ASSUME NEW j \in DOMAIN s, j # i
               PROVE  \E k \in DOMAIN t : From(k) = j
    OBVIOUS
  <2>1. CASE j < i
    <3>1. j \in DOMAIN t
      BY <1>1, <1>3, <2>1
    <3> QED BY <2>1, <3>1
  <2>2. CASE ~(j < i)
    <3>1. j - 1 \in DOMAIN t /\ From(j - 1) = j
      BY <1>1, <1>3, <2>2
    <3> QED BY <3>1
  <2> QED BY <2>1, <2>2
<1> HIDE DEF From
<1>7. Once(t)
  BY <1>4, <1>5 DEF Once
<1>8. \A k \in DOMAIN t : \E j \in DOMAIN s : s[j] = t[k] /\ j # i /\ s[j].package # s[i].package
  BY <1>4 DEF Once
<1>9. \A j \in DOMAIN s : s[j].package # s[i].package => \E k \in DOMAIN t : t[k] = s[j]
  BY <1>4, <1>6
<1> QED BY <1>2, <1>7, <1>8, <1>9 DEF t

-----------------------------------------------------------------------------
\* What a statement or a file operation leaves of the types.
LEMMA AptWorkTyped ==
    ASSUME AptTyped,
           \/ Apt!InsertRepository \/ Apt!DeletePackages \/ Apt!DeleteRepositoryRow
           \/ Apt!Upsert \/ Apt!RefuseMetadata \/ Apt!DeleteRow
           \/ Apt!RemoveOld \/ Apt!Rename \/ Apt!RemoveFile \/ Apt!FilesRemoved
           \/ \E path \in Apt!FileNames : Apt!RemoveFiles(path)
    PROVE  Apt!TypeOK'
<1> DEFINE r == aptJob.repository
           e == aptJob.entry
<1>0. /\ Apt!TypeOK /\ AptPhases
      /\ {"idle", "remember", "deleteRepository", "removeFiles", "rename", "upsert", "removeFile"} \subseteq Apt!Phases
  BY DEF AptTyped, Apt!Phases
<1>1. /\ repositoryRows \subseteq Repositories
      /\ Apt!indexed \subseteq Apt!Keys /\ \A k \in Apt!indexed : packageRows[k] \in Apt!Row
      /\ ids \in Nat /\ pool \in [Apt!Paths -> Apt!Sums]
      /\ repositories \subseteq Repositories /\ packages \in [Repositories -> Seq(Apt!Entry)]
      /\ aptFaults \in 0 .. AptFaults /\ served \subseteq Apt!Keys /\ torn \subseteq Apt!Paths
      /\ declared \subseteq Apt!Keys /\ claimed \subseteq Apt!Paths /\ diverged \subseteq Repositories
      /\ 0 \in Apt!Sums
  BY <1>0, StoreBounds DEF Apt!TypeOK, Apt!Sums
<1>2. aptAt # "idle" => r \in Repositories /\ aptJob \in Apt!Job
  BY <1>0, AptFields
<1>3. aptJob.kind \in EntryKinds => e \in Apt!Entry
  BY <1>0, AptFields
<1>a. \A S : /\ DOMAIN Apt!Restrict(packageRows, S) = S
             /\ \A k \in S : Apt!Restrict(packageRows, S)[k] = packageRows[k]
  BY DEF Apt!Restrict
<1> HIDE DEF r, e
<1>4. CASE Apt!InsertRepository
  BY <1>0, <1>1, <1>2, <1>4, AptGoesTyped
     DEF Apt!InsertRepository, Apt!Go, Apt!list, Apt!history, Apt!indexed, r
<1>5. CASE Apt!DeletePackages
  <2>1. Apt!indexed' \subseteq Apt!indexed /\ \A k \in Apt!indexed' : packageRows'[k] = packageRows[k]
    BY <1>5, <1>a DEF Apt!DeletePackages, Apt!indexed
  <2>2. /\ aptAt # "idle" /\ aptAt' = "deleteRepository" /\ aptJob' = aptJob
        /\ served' \subseteq served
        /\ UNCHANGED <<repositoryRows, ids, pool, repositories, packages, aptRequests, aptFaults,
                       torn, declared, claimed, diverged>>
    BY <1>5 DEF Apt!DeletePackages, Apt!Go, Apt!list
  <2> QED BY <1>0, <1>1, <1>2, <2>1, <2>2, AptGoesTyped
<1>6. CASE Apt!DeleteRepositoryRow
  <2>1. /\ aptAt # "idle"
        /\ Apt!Rest \/ (aptAt' = "removeFiles" /\ aptJob' = aptJob)
        /\ repositoryRows' \subseteq repositoryRows
        /\ UNCHANGED <<packageRows, ids, pool, repositories, packages, aptRequests, aptFaults,
                       served, torn, declared, claimed, diverged>>
    BY <1>6 DEF Apt!DeleteRepositoryRow, Apt!Go, Apt!list, Apt!history
  <2> QED BY <1>0, <1>1, <1>2, <2>1, AptGoesTyped DEF Apt!indexed
<1>7. CASE Apt!Upsert
  <2> DEFINE k == <<r, e.package>>
             row == Apt!RowOf(k, e)
  <2>1. aptJob.kind \in {"upload", "add", "edit"} /\ aptAt # "idle"
    BY <1>0, <1>7 DEF AptPhases, Apt!Upsert
  <2>2. r \in Repositories /\ e \in Apt!Entry /\ e.package \in Packages /\ k \in Apt!Keys
    BY <1>2, <1>3, <2>1 DEF EntryKinds, Apt!Entry, Apt!Keys
  <2>3. row \in Apt!Row /\ row.id \in Nat
    BY <1>1, <2>2 DEF Apt!RowOf, Apt!Row, Apt!Entry
  <2>4. /\ packageRows' = [l \in Apt!indexed \cup {k} |-> IF l = k THEN row ELSE packageRows[l]]
        /\ ids' = IF k \in Apt!indexed THEN ids ELSE ids + 1
        /\ aptJob' = [aptJob EXCEPT !.entry.id = IF aptJob.kind = "upload" THEN row.id ELSE 0]
        /\ aptAt' = "remember"
        /\ served' \subseteq served /\ declared' \subseteq declared \cup {k}
        /\ UNCHANGED <<repositoryRows, pool, repositories, packages, aptRequests, aptFaults,
                       torn, claimed, diverged>>
    BY <1>7 DEF Apt!Upsert, Apt!list, r, e
  <2> HIDE DEF row
  <2>5. Apt!indexed' \subseteq Apt!Keys /\ \A l \in Apt!indexed' : packageRows'[l] \in Apt!Row
    BY <1>1, <2>2, <2>3, <2>4 DEF Apt!indexed
  <2>6. ids' \in Nat
    BY <1>1, <2>4
  <2>7. aptJob' \in Apt!Job
    <3>1. aptJob \in [kind : {"upload", "add", "edit"}, repository : Repositories, entry : Apt!Entry]
      BY <1>2, <2>1 DEF Apt!Job
    <3>2. \A id \in Nat : [aptJob EXCEPT !.entry.id = id] \in Apt!Job
      BY <3>1 DEF Apt!Job, Apt!Entry
    <3> QED BY <2>3, <2>4, <3>2
  <2>8. served' \subseteq Apt!Keys /\ declared' \subseteq Apt!Keys
    BY <1>1, <2>2, <2>4
  <2> HIDE DEF k
  <2> QED BY <1>0, <1>1, <2>1, <2>4, <2>5, <2>6, <2>7, <2>8, AptGoesTyped
<1>8. CASE Apt!DeleteRow
  <2>1. Apt!indexed' \subseteq Apt!indexed /\ \A k \in Apt!indexed' : packageRows'[k] = packageRows[k]
    BY <1>8, <1>a DEF Apt!DeleteRow, Apt!indexed
  <2>2. /\ aptAt # "idle"
        /\ Apt!Rest \/ (aptAt' = "removeFile" /\ aptJob' = aptJob)
        /\ served' \subseteq served /\ diverged' \subseteq diverged \cup {r}
        /\ UNCHANGED <<repositoryRows, ids, pool, repositories, packages, aptRequests, aptFaults,
                       torn, declared, claimed>>
    BY <1>8 DEF Apt!DeleteRow, Apt!Go, Apt!list, r
  <2> QED BY <1>0, <1>1, <1>2, <2>1, <2>2, AptGoesTyped
<1>8a. CASE Apt!RefuseMetadata
  <2>1. /\ aptAt # "idle" /\ aptAt' = "remember" /\ aptJob' = aptJob
        /\ diverged' = diverged \cup {r}
        /\ UNCHANGED <<repositoryRows, packageRows, ids, pool, repositories, packages, aptRequests, aptFaults,
                       served, torn, declared, claimed>>
    BY <1>8a DEF Apt!RefuseMetadata, Apt!Go, Apt!list, Apt!table, r
  <2> QED BY <1>0, <1>1, <1>2, <2>1, AptGoesTyped DEF Apt!indexed
<1>9. CASE Apt!RemoveOld \/ Apt!Rename
  <2>1. aptJob.kind = "upload" /\ aptAt # "idle"
    BY <1>0, <1>9 DEF AptPhases, Apt!RemoveOld, Apt!Rename
  <2>2. r \in Repositories /\ e \in Apt!Entry /\ e.path \in Apt!Paths /\ e.sum \in Apt!Sums
    <3>1. r \in Repositories /\ e \in Apt!Entry
      BY <1>2, <1>3, <2>1 DEF EntryKinds
    <3>2. e.path = Apt!PathOf(r, e.package) /\ e.package \in Packages /\ e.sum \in Apt!Sums
      BY <1>0, <2>1, <3>1 DEF AptTyped, r, e, Apt!Entry
    <3> QED BY <1>0, <3>1, <3>2, PathTypes
  <2>3. /\ pool' = [pool EXCEPT ![e.path] = 0] \/ pool' = [pool EXCEPT ![e.path] = e.sum]
        /\ torn' = torn \cup {e.path} \/ torn' = torn \ {e.path}
        /\ aptAt' \in {"rename", "upsert"} /\ aptJob' = aptJob
        /\ served' \subseteq served
        /\ UNCHANGED <<repositoryRows, packageRows, ids, repositories, packages, aptRequests, aptFaults,
                       declared, claimed, diverged>>
    BY <1>9 DEF Apt!RemoveOld, Apt!Rename, Apt!Go, Apt!list, Apt!table, Apt!None, e
  <2>4. pool' \in [Apt!Paths -> Apt!Sums] /\ torn' \subseteq Apt!Paths
    BY <1>1, <2>2, <2>3
  <2> QED BY <1>0, <1>1, <1>2, <2>1, <2>3, <2>4, AptGoesTyped DEF Apt!indexed
<1>10. CASE Apt!RemoveFile \/ Apt!FilesRemoved
  <2>1. /\ aptAt # "idle" /\ aptAt' = "remember" /\ aptJob' = aptJob
        /\ pool' = [path \in Apt!Paths |-> IF path = e.path THEN 0 ELSE pool[path]] \/ pool' = pool
        /\ UNCHANGED <<repositoryRows, packageRows, ids, repositories, packages, aptRequests, aptFaults,
                       served, torn, declared, claimed, diverged>>
    BY <1>10 DEF Apt!RemoveFile, Apt!FilesRemoved, Apt!Go, Apt!list, Apt!history, Apt!table, Apt!None, e
  <2>2. pool' \in [Apt!Paths -> Apt!Sums]
    BY <1>1, <2>1
  <2> QED BY <1>0, <1>1, <1>2, <2>1, <2>2, AptGoesTyped DEF Apt!indexed
<1>11. ASSUME NEW path \in Apt!FileNames, Apt!RemoveFiles(path)
       PROVE  Apt!TypeOK'
  <2>1. /\ aptAt = "removeFiles" /\ aptAt' = aptAt
        /\ pool' = [q \in Apt!Paths |-> IF q = path THEN 0 ELSE pool[q]]
        /\ aptJob' = [aptJob EXCEPT !.paths = @ \ {path}]
        /\ UNCHANGED <<repositoryRows, packageRows, ids, repositories, packages, aptRequests, aptFaults,
                       served, torn, declared, claimed, diverged>>
    BY <1>11 DEF Apt!RemoveFiles, Apt!list, Apt!history, Apt!table, Apt!None
  <2>2. pool' \in [Apt!Paths -> Apt!Sums]
    BY <1>1, <2>1
  <2>3. aptJob' \in Apt!Job
    <3>1. aptJob.kind = "deleteRepository" /\ aptJob \in Apt!Job
      BY <1>0, <1>2, <2>1 DEF AptPhases
    <3>2. aptJob \in [kind : {"deleteRepository"}, repository : Repositories, paths : SUBSET Apt!FileNames]
      BY <3>1 DEF Apt!Job
    <3>3. aptJob' \in [kind : {"deleteRepository"}, repository : Repositories, paths : SUBSET Apt!FileNames]
      BY <2>1, <3>2
    <3> QED BY <3>3 DEF Apt!Job
  <2> QED BY <1>0, <1>1, <2>1, <2>2, <2>3, AptGoesTyped DEF Apt!indexed
<1> QED BY <1>4, <1>5, <1>6, <1>7, <1>8, <1>8a, <1>9, <1>10, <1>11

\* What the end of a request, a failure or a start leaves of the types.
LEMMA AptEndTyped ==
    ASSUME AptTyped, Apt!Remember \/ Apt!Skip \/ Apt!Fail \/ Apt!Restart \/ Apt!RestartBlind
    PROVE  Apt!TypeOK'
<1> DEFINE r == aptJob.repository
           e == aptJob.entry
<1>0. /\ Apt!TypeOK /\ AptPhases /\ "remember" \in Apt!Phases
  BY DEF AptTyped, Apt!Phases
<1>1. /\ repositoryRows \subseteq Repositories
      /\ Apt!indexed \subseteq Apt!Keys /\ \A k \in Apt!indexed : packageRows[k] \in Apt!Row
      /\ ids \in Nat /\ pool \in [Apt!Paths -> Apt!Sums]
      /\ repositories \subseteq Repositories /\ packages \in [Repositories -> Seq(Apt!Entry)]
      /\ aptFaults \in 0 .. AptFaults /\ served \subseteq Apt!Keys /\ torn \subseteq Apt!Paths
      /\ declared \subseteq Apt!Keys /\ claimed \subseteq Apt!Paths /\ diverged \subseteq Repositories
  BY <1>0 DEF Apt!TypeOK
<1>2. aptAt # "idle" => r \in Repositories /\ aptJob \in Apt!Job
  BY <1>0, AptFields
<1>3. aptJob.kind \in EntryKinds => e \in Apt!Entry
  BY <1>0, AptFields
<1>4. Apt!Fault => aptFaults' \in 0 .. AptFaults
  BY <1>1, StoreBounds DEF Apt!Fault
<1>a. <<>> \in Seq(Apt!Entry)
  BY EmptySeq
<1>5. CASE Apt!Remember
  <2> HIDE DEF r, e
  <2>1. /\ aptAt # "idle" /\ Apt!Rest
        /\ UNCHANGED <<repositoryRows, packageRows, ids, pool, aptRequests, aptFaults,
                       torn, declared, claimed, diverged>>
    BY <1>5 DEF Apt!Remember, Apt!table
  <2>2. repositories' \subseteq Repositories
    BY <1>1, <1>2, <1>5, <2>1 DEF Apt!Remember, Apt!list, r
  <2>3. packages' \in [Repositories -> Seq(Apt!Entry)]
    <3>1. CASE packages' = packages
      BY <1>1, <3>1
    <3>2. CASE packages' = [packages EXCEPT ![r] = <<>>]
      BY <1>1, <1>a, <3>2
    <3>3. CASE aptJob.kind \in {"upload", "add"} /\ packages' = [packages EXCEPT ![r] = Apt!Stored(@, e)]
      <4>1. packages[r] \in Seq(Apt!Entry) /\ e \in Apt!Entry
        BY <1>1, <1>2, <1>3, <2>1, <3>3 DEF EntryKinds
      <4>2. Apt!Stored(packages[r], e) \in Seq(Apt!Entry)
        BY <4>1, ListsTyped
      <4> QED BY <1>1, <3>3, <4>2
    <3>4. CASE aptJob.kind = "deletePackage" /\ packages' = [packages EXCEPT ![r] = Apt!Erased(@, aptJob.index)]
      <4>1. packages[r] \in Seq(Apt!Entry) /\ aptJob.index \in DOMAIN packages[r]
        BY <1>1, <1>2, <2>1, <3>4 DEF AptTyped, r
      <4>2. Apt!Erased(packages[r], aptJob.index) \in Seq(Apt!Entry)
        BY <4>1, ListsTyped
      <4> QED BY <1>1, <3>4, <4>2
    <3> QED BY <1>5, <3>1, <3>2, <3>3, <3>4 DEF Apt!Remember, Apt!list, r, e
  <2>4. served' \subseteq Apt!Keys
    <3>1. served' = served \/ (aptJob.kind = "upload" /\ served' = served \cup {<<r, e.package>>})
      BY <1>5 DEF Apt!Remember, r, e
    <3>2. aptJob.kind = "upload" => <<r, e.package>> \in Apt!Keys
      BY <1>2, <1>3, <2>1 DEF EntryKinds, Apt!Entry, Apt!Keys
    <3> QED BY <1>1, <3>1, <3>2
  <2> QED BY <1>0, <1>1, <2>1, <2>2, <2>3, <2>4, AptGoesTyped DEF Apt!indexed
<1>6. CASE Apt!Skip
  <2>1. /\ aptAt # "idle" /\ aptAt' = "remember" /\ aptJob' = aptJob /\ Apt!Fault
        /\ UNCHANGED <<repositoryRows, packageRows, ids, pool, repositories, packages, aptRequests,
                       served, torn, declared, claimed, diverged>>
    BY <1>6 DEF Apt!Skip, Apt!Go, Apt!list, Apt!history, Apt!table
  <2> QED BY <1>0, <1>1, <1>2, <1>4, <2>1, AptGoesTyped DEF Apt!indexed
<1>7. CASE Apt!Fail
  <2>1. /\ Apt!Rest /\ Apt!Fault
        /\ UNCHANGED <<repositoryRows, packageRows, ids, pool, repositories, packages, aptRequests,
                       served, torn, declared, claimed, diverged>>
    BY <1>7 DEF Apt!Fail, Apt!list, Apt!history, Apt!table
  <2> QED BY <1>0, <1>1, <1>4, <2>1, AptGoesTyped DEF Apt!indexed
<1>8. CASE Apt!Restart \/ Apt!RestartBlind
  <2>1. /\ Apt!Rest /\ aptFaults' \in 0 .. AptFaults
        /\ repositories' = repositoryRows \/ repositories' = {}
        /\ \/ packages' = [s \in Repositories |-> Apt!Loaded(s)]
           \/ packages' = [s \in Repositories |-> <<>>]
        /\ UNCHANGED <<repositoryRows, packageRows, ids, pool, aptRequests, served, torn, declared, claimed>>
        /\ diverged' \subseteq diverged
    BY <1>1, <1>4, <1>8 DEF Apt!Restart, Apt!RestartBlind, Apt!table, Apt!history
  <2>2. \A s \in Repositories : Apt!Loaded(s) \in Seq(Apt!Entry)
    BY <1>0, LoadedFacts
  <2>3. packages' \in [Repositories -> Seq(Apt!Entry)]
    <3>1. CASE packages' = [s \in Repositories |-> Apt!Loaded(s)]
      <4> DEFINE L(s) == Apt!Loaded(s)
      <4>1. \A s \in Repositories : L(s) \in Seq(Apt!Entry)
        BY <2>2
      <4>2. packages' = [s \in Repositories |-> L(s)]
        BY <3>1
      <4> HIDE DEF L
      <4> QED BY <4>1, <4>2
    <3>2. CASE packages' = [s \in Repositories |-> <<>>]
      BY <1>a, <3>2
    <3> QED BY <2>1, <3>1, <3>2
  <2> QED BY <1>0, <1>1, <2>1, <2>3, AptGoesTyped DEF Apt!indexed
<1> QED BY <1>5, <1>6, <1>7, <1>8

\* The steps, one group after the other.
LEMMA AptNext ==
    ASSUME Apt!Next
    PROVE  \/ \E r \in Repositories :
                \/ Apt!CreateRepository(r) \/ Apt!DeleteRepository(r)
                \/ \E p \in Packages : Apt!Upload(r, p)
                \/ \E i \in Apt!Positions(packages[r]) : Apt!DeletePackage(r, i)
                \/ \E x \in Apt!Entry : x.id = 0 /\ Metadata(r, x)
           \/ Apt!InsertRepository \/ Apt!DeletePackages \/ Apt!DeleteRepositoryRow
           \/ Apt!Upsert \/ Apt!RefuseMetadata \/ Apt!DeleteRow
           \/ Apt!RemoveOld \/ Apt!Rename \/ Apt!RemoveFile \/ Apt!FilesRemoved
           \/ \E path \in Apt!FileNames : Apt!RemoveFiles(path)
           \/ Apt!Remember \/ Apt!Skip \/ Apt!Fail \/ Apt!Restart \/ Apt!RestartBlind
<1>1. ASSUME NEW r \in Repositories, NEW p \in Packages, NEW file \in Apt!FileNames, NEW path \in Apt!FileNames,
             NEW sum \in Apt!Sums,
             \/ Apt!AddPackage(r, Apt!Said(p, file, path, sum))
             \/ \E i \in Apt!Positions(packages[r]) : Apt!UpdatePackage(r, i, Apt!Said(p, file, path, sum))
      PROVE  \E x \in Apt!Entry : x.id = 0 /\ Metadata(r, x)
  BY <1>1, SaidFacts DEF Metadata
<1> QED BY <1>1 DEF Apt!Next

\* All of them keep what keeps the types.
LEMMA AptTypesStep == AptTyped /\ (Apt!Next \/ UNCHANGED aptVars) => AptTyped'
<1> SUFFICES ASSUME AptTyped, Apt!Next \/ UNCHANGED aptVars
             PROVE  AptTyped'
  OBVIOUS
<1>0. Apt!TypeOK /\ AptPhases
  BY DEF AptTyped
<1>1. CASE UNCHANGED aptVars
  BY <1>1 DEF aptVars, AptTyped, Apt!TypeOK, AptPhases, Apt!indexed
<1>2. ASSUME NEW r \in Repositories,
             \/ Apt!CreateRepository(r) \/ Apt!DeleteRepository(r)
             \/ \E p \in Packages : Apt!Upload(r, p)
             \/ \E i \in Apt!Positions(packages[r]) : Apt!DeletePackage(r, i)
             \/ \E x \in Apt!Entry : Metadata(r, x)
      PROVE  AptTyped'
  <2>1. Apt!TypeOK'
    BY <1>0, <1>2, AptBegun
  <2>2. CASE \/ Apt!CreateRepository(r) \/ Apt!DeleteRepository(r)
             \/ \E p \in Packages : Apt!Upload(r, p)
    BY <2>1, <2>2 DEF AptTyped, AptPhases, Apt!CreateRepository, Apt!DeleteRepository, Apt!Upload,
                      Apt!Write, Apt!Begin
  <2>3. ASSUME NEW i \in Apt!Positions(packages[r]), Apt!DeletePackage(r, i)
        PROVE  AptTyped'
    <3>1. i \in DOMAIN packages[r]
      BY <1>0, AptFields DEF Apt!Positions
    <3> QED BY <2>1, <2>3, <3>1 DEF AptTyped, AptPhases, Apt!DeletePackage, Apt!Begin
  <2>4. ASSUME NEW x \in Apt!Entry, Metadata(r, x)
        PROVE  AptTyped'
    <3>1. aptAt' = "upsert" /\ aptJob'.kind \in {"add", "edit"}
      BY <2>4 DEF Metadata, Apt!AddPackage, Apt!UpdatePackage, Apt!Write, Apt!Begin
    <3> QED BY <2>1, <3>1 DEF AptTyped, AptPhases
  <2> QED BY <1>2, <2>2, <2>3, <2>4
<1>3. CASE \/ Apt!InsertRepository \/ Apt!DeletePackages \/ Apt!DeleteRepositoryRow
           \/ Apt!Upsert \/ Apt!RefuseMetadata \/ Apt!DeleteRow
           \/ Apt!RemoveOld \/ Apt!Rename \/ Apt!RemoveFile \/ Apt!FilesRemoved
           \/ \E path \in Apt!FileNames : Apt!RemoveFiles(path)
  <2>1. Apt!TypeOK' /\ packages' = packages
    BY <1>3, AptWorkTyped DEF Apt!InsertRepository, Apt!DeletePackages, Apt!DeleteRepositoryRow, Apt!Upsert,
       Apt!RefuseMetadata, Apt!DeleteRow, Apt!RemoveOld, Apt!Rename, Apt!RemoveFile, Apt!FilesRemoved, Apt!RemoveFiles, Apt!list
  <2>2. CASE Apt!Upsert
    <3>1. aptJob.kind \in {"upload", "add", "edit"} /\ aptAt # "idle"
      BY <1>0, <2>2 DEF AptPhases, Apt!Upsert
    <3>2. aptJob \in [kind : {"upload", "add", "edit"}, repository : Repositories, entry : Apt!Entry]
      BY <1>0, <3>1, AptFields DEF Apt!Job, EntryKinds
    <3>3. \A id : LET j == [aptJob EXCEPT !.entry.id = id] IN
            /\ j.kind = aptJob.kind /\ j.repository = aptJob.repository
            /\ j.entry.package = aptJob.entry.package /\ j.entry.path = aptJob.entry.path
      BY <3>2 DEF Apt!Entry
    <3>4. aptAt' = "remember" /\ \E id : aptJob' = [aptJob EXCEPT !.entry.id = id]
      BY <2>2 DEF Apt!Upsert
    <3>5. /\ aptJob'.kind = aptJob.kind /\ aptJob'.repository = aptJob.repository
          /\ aptJob'.entry.package = aptJob.entry.package /\ aptJob'.entry.path = aptJob.entry.path
      BY <3>3, <3>4
    <3> QED BY <2>1, <3>1, <3>4, <3>5 DEF AptTyped, AptPhases
  <2>3. CASE \E path \in Apt!FileNames : Apt!RemoveFiles(path)
    <3>1. aptAt' = "removeFiles" /\ aptJob.kind = "deleteRepository" /\ \E S : aptJob' = [aptJob EXCEPT !.paths = S]
      BY <1>0, <2>3 DEF Apt!RemoveFiles, AptPhases
    <3>2. aptJob \in [kind : {"deleteRepository"}, repository : Repositories, paths : SUBSET Apt!FileNames]
      BY <1>0, <3>1, AptFields DEF Apt!Job, EntryKinds
    <3>3. aptJob'.kind = "deleteRepository"
      BY <3>1, <3>2
    <3> QED BY <2>1, <3>1, <3>3 DEF AptTyped, AptPhases
  <2>4. CASE \/ Apt!InsertRepository \/ Apt!DeletePackages \/ Apt!DeleteRepositoryRow
             \/ Apt!RefuseMetadata \/ Apt!DeleteRow
             \/ Apt!RemoveOld \/ Apt!Rename \/ Apt!RemoveFile \/ Apt!FilesRemoved
    <3>1. \/ Apt!Rest
          \/ aptJob' = aptJob /\ AptPhases'
      BY <1>0, <2>4 DEF Apt!InsertRepository, Apt!DeletePackages, Apt!DeleteRepositoryRow, Apt!RefuseMetadata,
         Apt!DeleteRow, Apt!RemoveOld, Apt!Rename, Apt!RemoveFile, Apt!FilesRemoved, Apt!Go, AptPhases
    <3>2. CASE Apt!Rest
      BY <2>1, <3>2 DEF AptTyped, AptPhases, Apt!Rest, Apt!NoJob
    <3>3. CASE aptJob' = aptJob /\ AptPhases'
      BY <2>1, <3>3 DEF AptTyped
    <3> QED BY <3>1, <3>2, <3>3
  <2> QED BY <1>3, <2>2, <2>3, <2>4
<1>4. CASE Apt!Remember \/ Apt!Skip \/ Apt!Fail \/ Apt!Restart \/ Apt!RestartBlind
  <2>1. Apt!TypeOK'
    BY <1>4, AptEndTyped
  <2>2. \/ Apt!Rest
        \/ aptAt' = "remember" /\ aptJob' = aptJob /\ packages' = packages
    BY <1>4 DEF Apt!Remember, Apt!Skip, Apt!Fail, Apt!Restart, Apt!RestartBlind, Apt!Go, Apt!list
  <2>3. CASE Apt!Rest
    BY <2>1, <2>3 DEF AptTyped, AptPhases, Apt!Rest, Apt!NoJob
  <2>4. CASE aptAt' = "remember" /\ aptJob' = aptJob /\ packages' = packages
    BY <2>1, <2>4 DEF AptTyped, AptPhases
  <2> QED BY <2>2, <2>3, <2>4
<1> QED BY <1>1, <1>2, <1>3, <1>4, AptNext

-----------------------------------------------------------------------------
(***************************************************************************)
(* What is stored: rows, artifacts and what requests and lists say of them.*)
(***************************************************************************)
\* An entry stays what it is while claims grow, rows go, and new rows take new ids.
LEMMA GoodStays ==
    ASSUME ids \in Nat, ids' \in Nat, ids <= ids', claimed \subseteq claimed',
           \A k \in Apt!indexed' : /\ packageRows'[k].id \in Nat
                                   /\ \/ k \in Apt!indexed /\ packageRows'[k].id = packageRows[k].id
                                      \/ packageRows'[k].id > ids
    PROVE  \A r, x : x.id \in Nat /\ Good(r, x) => Good(r, x)'
<1> SUFFICES ASSUME NEW r, NEW x, x.id \in Nat, Good(r, x)
             PROVE  Good(r, x)'
  OBVIOUS
<1>1. Tame(r, x.package, x)'
  BY DEF Good, Tame, Own, Apt!Paths, Apt!PathOf
<1>2. x.id <= ids'
  BY DEF Good
<1>3. ASSUME NEW k \in Apt!indexed', packageRows'[k].id = x.id
      PROVE  k = <<r, x.package>>
  BY <1>3 DEF Good
<1> QED BY <1>1, <1>2, <1>3 DEF Good

\* Rows and entries of steps that change neither rows nor artifacts.
LEMMA RowsStay ==
    ASSUME AptStored, claimed \subseteq claimed', served' \subseteq served,
           UNCHANGED <<packageRows, ids, pool, torn, declared>>
    PROVE  /\ AptRows'
           /\ \A r, x : x.id \in Nat /\ Good(r, x) => Good(r, x)'
           /\ packages' = packages => AptEntries'
<1>0. Apt!TypeOK /\ Apt!indexed' = Apt!indexed /\ ids \in Nat
  BY AptFields DEF AptStored, AptTyped, Apt!indexed
<1>1. \A r, p, x : Tame(r, p, x) => Tame(r, p, x)'
  BY DEF Tame, Own, Apt!Paths, Apt!PathOf
<1>2. \A k : Apt!PathOf(k[1], k[2])' = Apt!PathOf(k[1], k[2])
  BY DEF Apt!PathOf
<1>3. AptRows'
  <2>1. Uploaded' = Uploaded
    BY <1>0 DEF Uploaded
  <2>2. \A k \in Uploaded : Own(k[1], k[2], packageRows[k])'
    BY DEF AptStored, AptRows, Own, Apt!PathOf
  <2> QED BY <1>0, <1>1, <1>2, <2>1, <2>2 DEF AptStored, AptRows
<1>4. \A r, x : x.id \in Nat /\ Good(r, x) => Good(r, x)'
  BY <1>0, AptFields, GoodStays
<1>5. ASSUME packages' = packages
      PROVE  AptEntries'
  BY <1>0, <1>4, <1>5, AptFields DEF AptStored, AptEntries
<1> QED BY <1>3, <1>4, <1>5

\* A request as it begins.
LEMMA StoredBegins ==
    ASSUME AptStored, AptTyped', NEW r \in Repositories,
           \/ Apt!CreateRepository(r) \/ Apt!DeleteRepository(r)
           \/ \E p \in Packages : Apt!Upload(r, p)
           \/ \E i \in Apt!Positions(packages[r]) : Apt!DeletePackage(r, i)
           \/ \E x \in Apt!Entry : x.id = 0 /\ Metadata(r, x)
    PROVE  AptStored'
<1>0. Apt!TypeOK /\ ids \in Nat /\ AptRows /\ AptEntries
  BY AptFields DEF AptStored, AptTyped
<1>1. /\ UNCHANGED <<packageRows, ids, pool, torn, declared, served>>
      /\ claimed \subseteq claimed'
  BY DEF Apt!CreateRepository, Apt!DeleteRepository, Apt!Upload, Apt!DeletePackage, Metadata,
         Apt!AddPackage, Apt!UpdatePackage, Apt!Write, Apt!Begin, Apt!table
<1>2. /\ AptRows' /\ Apt!indexed' = Apt!indexed
      /\ \A s, x : x.id \in Nat /\ Good(s, x) => Good(s, x)'
      /\ packages' = packages => AptEntries'
  BY <1>1, RowsStay DEF Apt!indexed
\* What has no id leads to no row.
<1>3. \A x : x.id = 0 /\ Tame(r, x.package, x)' => Good(r, x)'
  BY <1>0, <1>1, <1>2 DEF Good, AptRows
<1>4. CASE Apt!CreateRepository(r)
  <2>1. aptJob'.kind = "create" /\ packages' = packages
    BY <1>4 DEF Apt!CreateRepository, Apt!Begin
  <2> QED BY <1>2, <2>1 DEF AptStored, AptHand, EntryKinds
<1>5. CASE Apt!DeleteRepository(r)
  <2>1. /\ aptJob' = [kind |-> "deleteRepository", repository |-> r,
                      paths |-> {packageRows[k].path : k \in {l \in Apt!indexed : l[1] = r}}]
        /\ aptAt' = "deletePackages" /\ packages' = packages
    BY <1>5 DEF Apt!DeleteRepository, Apt!Begin
  <2>2. /\ aptJob'.kind = "deleteRepository" /\ aptJob'.repository = r
        /\ \A path \in aptJob'.paths : \E k \in Apt!indexed : k[1] = r /\ path = packageRows[k].path
    BY <2>1
  <2>3. ASSUME NEW path \in aptJob'.paths, path \in Apt!Paths, path \notin claimed'
        PROVE  \E p \in Packages : path = Apt!PathOf(r, p)
    <3>1. PICK k \in Apt!indexed : k[1] = r /\ path = packageRows[k].path
      BY <2>2
    <3>2. Tame(r, k[2], packageRows[k]) /\ k[2] \in Packages
      BY <1>0, <3>1, AptFields DEF AptRows
    <3> QED BY <1>1, <2>3, <3>1, <3>2 DEF Tame, Own
  <2>4. AptHand'
    BY <2>1, <2>2, <2>3 DEF AptHand, EntryKinds, Apt!Paths, Apt!PathOf
  <2> QED BY <1>2, <2>1, <2>4 DEF AptStored
<1>6. ASSUME NEW p \in Packages, Apt!Upload(r, p)
      PROVE  AptStored'
  <2>1. PICK x : /\ x.id = 0 /\ Own(r, x.package, x) /\ x.sum # 0
                 /\ aptJob' = [kind |-> "upload", repository |-> r, entry |-> x]
                 /\ aptAt' = "removeOld" /\ packages' = packages
    <3> DEFINE y == [package |-> p, id |-> 0, file |-> Apt!PathOf(r, p), path |-> Apt!PathOf(r, p),
                     sum |-> aptRequests + 1]
    <3>1. y.id = 0 /\ Own(r, y.package, y) /\ y.sum # 0
      BY <1>0, AptFields DEF Own
    <3>2. /\ aptJob' = [kind |-> "upload", repository |-> r, entry |-> y]
          /\ aptAt' = "removeOld" /\ packages' = packages
      BY <1>6 DEF Apt!Upload, Apt!Write, Apt!Begin
    <3> HIDE DEF y
    <3> QED BY <3>1, <3>2
  <2>3. Own(r, x.package, x)'
    BY <2>1 DEF Own, Apt!PathOf
  <2>4. aptJob'.kind = "upload" /\ aptJob'.repository = r /\ aptJob'.entry = x
    BY <2>1
  <2>5. Good(r, x)'
    BY <1>3, <2>1, <2>3 DEF Tame
  <2>6. AptHand'
    BY <2>1, <2>3, <2>4, <2>5 DEF AptHand, AptUpload, EntryKinds
  <2> QED BY <1>2, <2>1, <2>6 DEF AptStored
<1>7. ASSUME NEW i \in Apt!Positions(packages[r]), Apt!DeletePackage(r, i)
      PROVE  AptStored'
  <2>1. /\ aptJob' = [kind |-> "deletePackage", repository |-> r, entry |-> packages[r][i], index |-> i]
        /\ aptAt' = "deleteRow" /\ packages' = packages
    BY <1>7 DEF Apt!DeletePackage, Apt!Begin
  <2>2. aptJob'.kind = "deletePackage" /\ aptJob'.repository = r /\ aptJob'.entry = packages[r][i]
    BY <2>1
  <2>3. i \in DOMAIN packages[r] /\ packages[r][i].id \in Nat
    BY <1>0, AptFields DEF Apt!Positions
  <2>4. Good(r, packages[r][i])
    BY <1>0, <2>3 DEF AptEntries
  <2>5. Good(aptJob.repository, aptJob.entry)'
    BY <1>2, <2>1, <2>2, <2>3, <2>4
  <2>6. AptHand'
    BY <2>1, <2>2, <2>5 DEF AptHand, EntryKinds
  <2> QED BY <1>2, <2>1, <2>6 DEF AptStored
<1>8. ASSUME NEW x \in Apt!Entry, x.id = 0, Metadata(r, x)
      PROVE  AptStored'
  <2>1. /\ \/ aptJob' = [kind |-> "add", repository |-> r, entry |-> x]
           \/ aptJob' = [kind |-> "edit", repository |-> r, entry |-> x]
        /\ aptAt' = "upsert" /\ claimed' = claimed \cup Apt!Claims(r, x)
        /\ packages' = packages \/ \E i : packages' = [packages EXCEPT ![r][i] = x]
    BY <1>8 DEF Metadata, Apt!AddPackage, Apt!UpdatePackage, Apt!Write, Apt!Begin
  <2>2. aptJob'.kind \in {"add", "edit"} /\ aptJob'.repository = r /\ aptJob'.entry = x
    BY <2>1
  <2>3. Tame(r, x.package, x)'
    <3>1. CASE Own(r, x.package, x)
      BY <3>1 DEF Tame, Own, Apt!PathOf
    <3>2. CASE ~Own(r, x.package, x)
      <4>1. {x.file, x.path} \cap Apt!Paths \subseteq claimed'
        BY <2>1, <3>2 DEF Own, Apt!Claims
      <4> QED BY <4>1 DEF Tame, Apt!Paths
    <3> QED BY <3>1, <3>2
  <2>4. Good(r, x)'
    BY <1>3, <1>8, <2>3
  <2>5. AptEntries'
    <3>1. CASE packages' = packages
      BY <1>2, <3>1
    <3>2. ASSUME NEW i, packages' = [packages EXCEPT ![r][i] = x]
          PROVE  AptEntries'
      <4>1. /\ \A s \in Repositories : DOMAIN packages'[s] = DOMAIN packages[s]
            /\ \A s \in Repositories : \A j \in DOMAIN packages[s] :
                  packages'[s][j] = packages[s][j] \/ (s = r /\ packages'[s][j] = x)
        BY <1>0, <3>2 DEF Apt!TypeOK
      <4>2. \A s \in Repositories : \A j \in DOMAIN packages[s] : Good(s, packages[s][j]) /\ packages[s][j].id \in Nat
        BY <1>0, AptFields DEF AptEntries
      <4>3. ASSUME NEW s \in Repositories, NEW j \in DOMAIN packages'[s]
            PROVE  Good(s, packages[s][j])'
        BY <1>2, <2>4, <4>1, <4>2
      <4> QED BY <4>3 DEF AptEntries
    <3> QED BY <2>1, <3>1, <3>2
  <2>6. AptHand'
    BY <1>8, <2>1, <2>2, <2>4 DEF AptHand
  <2> QED BY <1>2, <2>5, <2>6 DEF AptStored
<1> QED BY <1>4, <1>5, <1>6, <1>7, <1>8

\* Steps that change neither rows of packages nor artifacts nor entries.
LEMMA StoredElse ==
    ASSUME AptStored, AptTyped',
           \/ Apt!InsertRepository \/ Apt!DeleteRepositoryRow \/ Apt!RefuseMetadata \/ Apt!FilesRemoved
           \/ Apt!Skip \/ Apt!Fail
    PROVE  AptStored'
<1>1. /\ AptPhases /\ Apt!TypeOK
      /\ UNCHANGED <<packageRows, ids, pool, packages, served, torn, declared, claimed>>
  BY DEF AptStored, AptTyped, Apt!InsertRepository, Apt!DeleteRepositoryRow, Apt!RefuseMetadata, Apt!FilesRemoved,
         Apt!Skip, Apt!Fail, Apt!list, Apt!table, Apt!history
<1>2. /\ AptRows' /\ AptEntries' /\ Apt!indexed' = Apt!indexed
      /\ \A s, x : x.id \in Nat /\ Good(s, x) => Good(s, x)'
  BY <1>1, RowsStay DEF Apt!indexed
<1>3. \/ Apt!Rest
      \/ /\ aptJob' = aptJob /\ aptJob.kind \in {"create", "add", "edit", "deleteRepository"}
         /\ aptAt' \in {"remember", "removeFiles"}
         /\ aptJob.kind = "deleteRepository" => aptAt \in {"deleteRepository", "removeFiles"}
  BY <1>1 DEF AptPhases, Apt!InsertRepository, Apt!DeleteRepositoryRow, Apt!RefuseMetadata, Apt!FilesRemoved,
         Apt!Skip, Apt!Fail, Apt!Go
<1>4. CASE Apt!Rest
  BY <1>2, <1>4 DEF AptStored, AptHand, EntryKinds, Apt!Rest, Apt!NoJob
<1>5. CASE ~Apt!Rest
  <2>1. aptJob.kind \in EntryKinds => Good(aptJob.repository, aptJob.entry)' /\ aptJob.entry.id \in Nat
    <3>1. aptJob.kind \in EntryKinds => Good(aptJob.repository, aptJob.entry) /\ aptJob.entry.id \in Nat
      BY <1>1, AptFields DEF AptStored, AptHand
    <3> QED BY <1>2, <1>3, <1>5, <3>1
  <2>2. AptHand'
    BY <1>1, <1>2, <1>3, <1>5, <2>1 DEF AptStored, AptHand, EntryKinds, Apt!Paths, Apt!PathOf
  <2> QED BY <1>2, <2>2 DEF AptStored
<1> QED BY <1>4, <1>5

\* The rows of a repository go, and what was served from it with them.
LEMMA StoredDeletesPackages == AptStored /\ AptTyped' /\ Apt!DeletePackages => AptStored'
<1> SUFFICES ASSUME AptStored, AptTyped', Apt!DeletePackages
             PROVE  AptStored'
  OBVIOUS
<1>0. Apt!TypeOK /\ ids \in Nat
  BY AptFields DEF AptStored, AptTyped
<1>1. /\ aptJob' = aptJob /\ aptJob.kind = "deleteRepository" /\ aptAt' = "deleteRepository"
      /\ served' = {k \in served : k[1] # aptJob.repository}
      /\ UNCHANGED <<ids, pool, packages, torn, declared, claimed>>
  BY DEF AptStored, AptTyped, AptPhases, Apt!DeletePackages, Apt!Go, Apt!list
<1>2. /\ Apt!indexed' = {k \in Apt!indexed : k[1] # aptJob.repository}
      /\ \A k \in Apt!indexed' : packageRows'[k] = packageRows[k]
  BY DEF Apt!DeletePackages, Apt!Restrict, Apt!indexed
<1>3. AptRows'
  BY <1>0, <1>1, <1>2 DEF AptStored, AptRows, Uploaded, Tame, Own, Apt!Paths, Apt!PathOf
<1>4. \A s, x : x.id \in Nat /\ Good(s, x) => Good(s, x)'
  BY <1>0, <1>1, <1>2, AptFields, GoodStays
<1>5. AptEntries'
  BY <1>0, <1>1, <1>4, AptFields DEF AptStored, AptEntries
<1>6. AptHand'
  BY <1>1, <1>2 DEF AptStored, AptHand, EntryKinds, Apt!Paths, Apt!PathOf
<1> QED BY <1>3, <1>5, <1>6 DEF AptStored

\* What a deletion takes by file name is its package's own row, or rows whose files are
\* claimed, or that no upload wrote.
LEMMA StoredDeletesRow == AptStored /\ AptTyped' /\ Apt!DeleteRow => AptStored'
<1> SUFFICES ASSUME AptStored, AptTyped', Apt!DeleteRow
             PROVE  AptStored'
  OBVIOUS
<1> DEFINE x == aptJob.entry
           gone == {l \in Apt!indexed :
                      IF x.id # 0
                      THEN packageRows[l].id = x.id
                      ELSE l[1] = aptJob.repository /\ packageRows[l].file = x.file}
<1>0. Apt!TypeOK /\ ids \in Nat
  BY AptFields DEF AptStored, AptTyped
<1>1. /\ aptJob.kind = "deletePackage"
      /\ \/ gone # {} /\ aptAt' = "removeFile" /\ aptJob' = aptJob
         \/ gone = {} /\ Apt!Rest
      /\ served' = IF gone = {} THEN served ELSE served \ {Target}
      /\ UNCHANGED <<ids, pool, packages, torn, declared, claimed>>
  BY DEF AptStored, AptTyped, AptPhases, Apt!DeleteRow, Apt!Go, Apt!list, Target
<1>2. /\ Apt!indexed' = Apt!indexed \ gone
      /\ \A k \in Apt!indexed' : packageRows'[k] = packageRows[k]
  BY DEF Apt!DeleteRow, Apt!Restrict, Apt!indexed
<1>3. /\ aptJob.repository \in Repositories /\ x.package \in Packages /\ x.id \in Nat
      /\ Good(aptJob.repository, x) /\ Target = <<aptJob.repository, x.package>>
      /\ \A k \in Apt!indexed : k[1] \in Repositories /\ k[2] \in Packages /\ k = <<k[1], k[2]>>
  <2>1. aptJob.kind \in EntryKinds /\ aptJob.kind # "none"
    BY <1>1 DEF EntryKinds
  <2> QED BY <1>0, <2>1, AptFields DEF AptStored, AptHand, Target
<1>4. ASSUME NEW k \in gone, k \in Uploaded, Apt!PathOf(k[1], k[2]) \notin claimed
      PROVE  k = Target
  <2>1. CASE x.id # 0
    BY <1>3, <1>4, <2>1 DEF Good
  <2>2. CASE x.id = 0
    <3>1. k[1] = aptJob.repository /\ x.file = Apt!PathOf(k[1], k[2])
      BY <1>4, <2>2 DEF AptStored, AptRows, Own
    <3>2. x.file \in Apt!Paths
      BY <1>3, <1>4, <3>1, PathTypes
    <3>3. Own(aptJob.repository, x.package, x)
      BY <1>3, <1>4, <3>1, <3>2 DEF Good, Tame
    <3>4. k[2] = x.package
      BY <3>1, <3>3 DEF Own, Apt!PathOf
    <3> QED BY <1>3, <1>4, <3>1, <3>4
  <2> QED BY <2>1, <2>2
<1>5. aptAt' = "removeFile" /\ Own(aptJob.repository, x.package, x) => Target \notin Uploaded'
  <2> SUFFICES ASSUME Target \in Uploaded, Target \notin gone, gone # {}, Own(aptJob.repository, x.package, x)
               PROVE  FALSE
    BY <1>1, <1>2 DEF Uploaded, Apt!Rest
  <2>1. packageRows[Target].file = x.file /\ Target \in Apt!indexed
    BY <1>3 DEF AptStored, AptRows, Own, Uploaded
  <2>2. x.id # 0
    BY <1>3, <2>1
  <2>3. \A k \in gone : k = Target
    BY <1>3, <2>2 DEF Good
  <2> QED BY <2>3
<1> HIDE DEF gone
<1>6. AptRows'
  <2>1. Uploaded' = Uploaded \ gone
    BY <1>1, <1>2 DEF Uploaded
  <2>2. ASSUME NEW k \in served', Apt!PathOf(k[1], k[2]) \notin claimed
        PROVE  k \in Apt!indexed' /\ pool[Apt!PathOf(k[1], k[2])] = packageRows[k].sum
    <3>1. k \in Uploaded /\ pool[Apt!PathOf(k[1], k[2])] = packageRows[k].sum
      BY <1>1, <2>2 DEF AptStored, AptRows, Uploaded
    <3>2. k \notin gone
      BY <1>1, <1>4, <2>2, <3>1
    <3> QED BY <1>2, <3>1, <3>2 DEF Uploaded
  <2>3. \A k \in served' : k \notin declared
    BY <1>1 DEF AptStored, AptRows
  <2>4. \A k \in Apt!indexed' : Tame(k[1], k[2], packageRows[k])'
    BY <1>1, <1>2 DEF AptStored, AptRows, Tame, Own, Apt!Paths, Apt!PathOf
  <2>5. \A k \in Uploaded' : Own(k[1], k[2], packageRows[k])'
    BY <1>2, <2>1 DEF AptStored, AptRows, Uploaded, Own, Apt!PathOf
  <2>6. \A k \in Uploaded : Apt!PathOf(k[1], k[2]) \notin torn \cup claimed => pool[Apt!PathOf(k[1], k[2])] # 0
    BY DEF AptStored, AptRows
  <2>7. /\ \A k \in Apt!indexed' : packageRows'[k].id # 0 /\ packageRows'[k].id <= ids
        /\ \A k, l \in Apt!indexed' : packageRows'[k].id = packageRows'[l].id => k = l
    BY <1>2 DEF AptStored, AptRows
  <2> QED BY <1>1, <1>2, <2>1, <2>2, <2>3, <2>4, <2>5, <2>6, <2>7 DEF AptRows, Apt!PathOf
<1>7. \A s, y : y.id \in Nat /\ Good(s, y) => Good(s, y)'
  BY <1>0, <1>1, <1>2, AptFields, GoodStays
<1>8. AptEntries'
  BY <1>0, <1>1, <1>7, AptFields DEF AptStored, AptEntries
<1>9. AptHand'
  <2>1. CASE Apt!Rest
    BY <2>1 DEF AptHand, EntryKinds, Apt!Rest, Apt!NoJob
  <2>2. CASE aptJob' = aptJob
    <3>1. Good(aptJob.repository, aptJob.entry)'
      BY <1>3, <1>7, <2>2
    <3>2. aptAt' = "removeFile"
             /\ Own(aptJob.repository, aptJob.entry.package, aptJob.entry)' => Target' \notin Uploaded'
      BY <1>5, <2>2 DEF Own, Apt!PathOf, Target
    <3> QED BY <1>1, <2>2, <3>1, <3>2 DEF AptHand
  <2> QED BY <1>1, <2>1, <2>2
<1> QED BY <1>6, <1>8, <1>9 DEF AptStored

\* The row of an upload or of metadata.
LEMMA StoredUpserts == AptStored /\ AptTyped' /\ Apt!Upsert => AptStored'
<1> SUFFICES ASSUME AptStored, AptTyped', Apt!Upsert
             PROVE  AptStored'
  OBVIOUS
<1>a. PICK r \in {aptJob.repository}, x \in {aptJob.entry} : r = aptJob.repository /\ x = aptJob.entry
  OBVIOUS
<1>b. PICK k \in {<<r, x.package>>} : k = <<r, x.package>>
  OBVIOUS
<1>0. Apt!TypeOK /\ Apt!TypeOK' /\ AptRows /\ ids \in Nat /\ ids' \in Nat
  BY AptFields DEF AptStored, AptTyped, Apt!TypeOK
<1>1. /\ aptJob.kind \in {"upload", "add", "edit"} /\ aptJob.kind \in EntryKinds
      /\ aptAt = "upsert" /\ aptAt' = "remember"
      /\ UNCHANGED <<pool, packages, torn, claimed>>
      /\ aptJob.kind = "upload" => served' = served /\ declared' = declared \ {k}
      /\ aptJob.kind # "upload" => \/ Apt!Says(k, x) /\ served' = served /\ declared' = declared
                                   \/ served' = served \ {k} /\ declared' = declared \cup {k}
  BY <1>a, <1>b DEF AptStored, AptTyped, AptPhases, Apt!Upsert, Apt!list, EntryKinds
<1>2. /\ r \in Repositories /\ x \in Apt!Entry /\ x.package \in Packages /\ k \in Apt!Keys /\ k = Target
      /\ x.id \in Nat
  BY <1>0, <1>a, <1>b, <1>1, AptFields DEF EntryKinds, Apt!Keys, Target
<1>3. /\ Apt!indexed' = Apt!indexed \cup {k}
      /\ \A l \in Apt!indexed : l # k => packageRows'[l] = packageRows[l]
      /\ packageRows'[k].file = x.file /\ packageRows'[k].path = x.path /\ packageRows'[k].sum = x.sum
      /\ packageRows'[k].id = IF k \in Apt!indexed THEN packageRows[k].id ELSE ids + 1
      /\ ids' = IF k \in Apt!indexed THEN ids ELSE ids + 1
  BY <1>a, <1>b DEF Apt!Upsert, Apt!RowOf, Apt!indexed
<1>4. /\ aptJob'.kind = aptJob.kind /\ aptJob'.repository = r
      /\ aptJob'.entry.package = x.package /\ aptJob'.entry.file = x.file /\ aptJob'.entry.path = x.path
      /\ aptJob'.entry.sum = x.sum
      /\ aptJob'.entry.id = IF aptJob.kind = "upload" THEN packageRows'[k].id ELSE 0
      /\ Target' = k
  <2>1. aptJob \in [kind : {"upload", "add", "edit"}, repository : Repositories, entry : Apt!Entry]
    BY <1>0, <1>1, AptFields DEF Apt!Job
  <2>2. aptJob' = [aptJob EXCEPT !.entry.id = IF aptJob.kind = "upload" THEN packageRows'[k].id ELSE 0]
    BY <1>a, <1>b DEF Apt!Upsert, Apt!RowOf
  <2>3. /\ aptJob'.kind = aptJob.kind /\ aptJob'.repository = r
        /\ aptJob'.entry = [x EXCEPT !.id = IF aptJob.kind = "upload" THEN packageRows'[k].id ELSE 0]
    BY <1>a, <2>1, <2>2
  <2>4. x \in [package : Packages, id : Nat, file : Apt!FileNames, path : Apt!FileNames, sum : Apt!Sums]
    BY <1>2 DEF Apt!Entry
  <2> QED BY <1>b, <2>3, <2>4 DEF Target
<1>5. /\ Good(r, x) /\ Tame(r, x.package, x)
      /\ aptJob.kind # "upload" => x.id = 0
      /\ aptJob.kind = "upload" => /\ Own(r, x.package, x) /\ x.sum # 0 /\ k \notin served
                                   /\ x.path \notin torn /\ pool[x.path] = x.sum
  BY <1>a, <1>1, <1>2 DEF AptStored, AptHand, AptUpload, Good
<1>6. k[1] = r /\ k[2] = x.package /\ k = <<r, x.package>>
  BY <1>b
<1>7. Tame(r, x.package, packageRows[k])' /\ Tame(r, x.package, aptJob.entry)'
  <2>1. \A y : y.file = x.file /\ y.path = x.path => Tame(r, x.package, y)'
    BY <1>1, <1>5 DEF Tame, Own, Apt!Paths, Apt!PathOf
  <2> QED BY <1>3, <1>4, <2>1
\* The row has an id of its own.
<1>8. /\ \A l \in Apt!indexed' : packageRows'[l].id \in Nat /\ packageRows'[l].id # 0 /\ packageRows'[l].id <= ids'
      /\ \A l \in Apt!indexed' : \/ l \in Apt!indexed /\ packageRows'[l].id = packageRows[l].id
                                 \/ packageRows'[l].id > ids
      /\ \A l, m \in Apt!indexed' : packageRows'[l].id = packageRows'[m].id => l = m
      /\ ids <= ids'
  <2>1. /\ \A l \in Apt!indexed : packageRows[l].id \in Nat /\ packageRows[l].id # 0 /\ packageRows[l].id <= ids
        /\ \A l, m \in Apt!indexed : packageRows[l].id = packageRows[m].id => l = m
    BY <1>0, AptFields DEF AptRows
  <2>2. ids <= ids' /\ ids + 1 \in Nat /\ ids + 1 > ids /\ ids + 1 # 0
    BY <1>0, <1>3
  <2>3. \A l \in Apt!indexed' : \/ l \in Apt!indexed /\ packageRows'[l].id = packageRows[l].id
                                \/ l = k /\ l \notin Apt!indexed /\ packageRows'[l].id = ids + 1 /\ ids' = ids + 1
    BY <1>3
  <2>4. \A l \in Apt!indexed' : packageRows'[l].id \in Nat /\ packageRows'[l].id # 0 /\ packageRows'[l].id <= ids'
    BY <1>0, <2>1, <2>2, <2>3
  <2>5. \A l, m \in Apt!indexed' : packageRows'[l].id = packageRows'[m].id => l = m
    BY <1>0, <2>1, <2>2, <2>3
  <2> QED BY <2>2, <2>3, <2>4, <2>5
<1>9. \A s, y : y.id \in Nat /\ Good(s, y) => Good(s, y)'
  BY <1>0, <1>1, <1>8, GoodStays
<1>10. AptEntries'
  BY <1>0, <1>1, <1>9, AptFields DEF AptStored, AptEntries
<1>11. \A l \in Uploaded' :
          \/ l \in Uploaded /\ packageRows'[l].file = packageRows[l].file /\ packageRows'[l].path = packageRows[l].path
          \/ l = k /\ aptJob.kind = "upload"
  BY <1>1, <1>3 DEF Uploaded, Apt!Says
<1>12. AptRows'
  <2>1. \A l \in Apt!indexed' : Tame(l[1], l[2], packageRows[l])'
    <3>1. ASSUME NEW l \in Apt!indexed', l # k
          PROVE  Tame(l[1], l[2], packageRows[l])'
      <4>1. l \in Apt!indexed /\ Tame(l[1], l[2], packageRows[l]) /\ packageRows'[l] = packageRows[l]
        BY <1>0, <1>3, <3>1 DEF AptRows
      <4> QED BY <1>1, <4>1 DEF Tame, Own, Apt!Paths, Apt!PathOf
    <3>2. Tame(k[1], k[2], packageRows[k])'
      BY <1>6, <1>7 DEF Tame, Own, Apt!Paths, Apt!PathOf
    <3> QED BY <3>1, <3>2
  <2>2. \A l \in Uploaded' : Own(l[1], l[2], packageRows[l])'
    BY <1>0, <1>3, <1>5, <1>6, <1>11 DEF AptRows, Own, Apt!PathOf
  <2>3. ASSUME NEW l \in Uploaded', Apt!PathOf(l[1], l[2]) \notin torn \cup claimed
        PROVE  pool[Apt!PathOf(l[1], l[2])] # 0
    BY <1>0, <1>5, <1>6, <1>11, <2>3 DEF AptRows, Own
  <2>4. ASSUME NEW l \in served'
        PROVE  /\ l \notin declared'
               /\ Apt!PathOf(l[1], l[2]) \notin claimed =>
                    l \in Apt!indexed' /\ pool[Apt!PathOf(l[1], l[2])] = packageRows'[l].sum
    <3>0. served' \subseteq served /\ declared' \subseteq declared \cup {k}
          /\ (aptJob.kind # "upload" /\ k \in served' => Apt!Says(k, x) /\ declared' = declared)
      <4>1. k \in served' => k \in served /\ k \notin declared
        BY <1>0, <1>1 DEF AptRows
      <4> QED BY <1>1, <4>1
    <3>1. /\ l \in served /\ l \notin declared
          /\ Apt!PathOf(l[1], l[2]) \notin claimed =>
                    l \in Apt!indexed /\ pool[Apt!PathOf(l[1], l[2])] = packageRows[l].sum
      <4>1. l \in served
        BY <2>4, <3>0
      <4> QED BY <1>0, <4>1 DEF AptRows
    <3>2. CASE l # k
      <4>1. l \notin declared'
        BY <3>0, <3>1, <3>2
      <4>2. l \in Apt!indexed => l \in Apt!indexed' /\ packageRows'[l] = packageRows[l]
        BY <1>3, <3>2
      <4> QED BY <3>1, <4>1, <4>2
    <3>3. CASE l = k
      <4>1. aptJob.kind # "upload" /\ Apt!Says(k, x) /\ declared' = declared
        BY <1>5, <2>4, <3>0, <3>1, <3>3
      <4> QED BY <1>3, <3>1, <3>3, <4>1 DEF Apt!Says
    <3> QED BY <3>2, <3>3
  <2> QED BY <1>1, <1>8, <2>1, <2>2, <2>3, <2>4 DEF AptRows, Apt!PathOf
<1>13. AptHand'
  <2>1. Good(r, aptJob.entry)'
    <3>1. aptJob'.entry.id <= ids' /\ \A l \in Apt!indexed' : packageRows'[l].id = aptJob'.entry.id => l = k
      <4>1. CASE aptJob.kind = "upload"
        BY <1>3, <1>4, <1>8, <4>1
      <4>2. CASE aptJob.kind # "upload"
        BY <1>0, <1>4, <1>8, <4>2
      <4> QED BY <4>1, <4>2
    <3> QED BY <1>4, <1>7, <3>1 DEF Good, Tame, Own, Apt!Paths, Apt!PathOf
  <2>2. Good(aptJob.repository, aptJob.entry)'
    BY <1>4, <2>1 DEF Good, Tame, Own, Apt!Paths, Apt!PathOf
  <2>3. aptJob.kind = "upload" => AptUpload'
    <3> SUFFICES ASSUME aptJob.kind = "upload"
                 PROVE  AptUpload'
      OBVIOUS
    <3>1. Own(aptJob.repository, aptJob.entry.package, aptJob.entry)' /\ aptJob'.entry.sum # 0
      BY <1>4, <1>5 DEF Own, Apt!PathOf
    <3>2. Target' \notin served' /\ aptJob'.entry.path \notin torn' /\ pool'[aptJob'.entry.path] = aptJob'.entry.sum
      BY <1>1, <1>4, <1>5
    <3>3. Target' \in Uploaded' /\ packageRows'[Target'].sum = aptJob'.entry.sum
      BY <1>1, <1>3, <1>4 DEF Uploaded
    <3> QED BY <1>1, <3>1, <3>2, <3>3 DEF AptUpload
  <2> QED BY <1>1, <1>4, <2>2, <2>3 DEF AptHand
<1> QED BY <1>10, <1>12, <1>13 DEF AptStored

\* The artifact of an upload is no other package's.
LEMMA StoredReplaces ==
    ASSUME AptApart, AptStored, AptTyped', Apt!RemoveOld \/ Apt!Rename
    PROVE  AptStored'
<1>a. PICK r \in {aptJob.repository}, x \in {aptJob.entry} : r = aptJob.repository /\ x = aptJob.entry
  OBVIOUS
<1>0. Apt!TypeOK /\ ids \in Nat /\ AptRows
  BY AptFields DEF AptStored, AptTyped
<1>1. /\ aptJob.kind = "upload" /\ aptJob.kind \in EntryKinds /\ aptJob' = aptJob
      /\ UNCHANGED <<packageRows, ids, packages, declared, claimed>>
  BY DEF AptStored, AptTyped, AptPhases, Apt!RemoveOld, Apt!Rename, Apt!Go, Apt!list, Apt!table, EntryKinds
<1>2. /\ r \in Repositories /\ x.package \in Packages /\ x.id \in Nat /\ Target = <<r, x.package>> /\ Target' = Target
      /\ Good(r, x) /\ Own(r, x.package, x) /\ x.sum # 0
      /\ x.path = Apt!PathOf(r, x.package) /\ x.path \in Apt!Paths
  <2>1. r \in Repositories /\ x \in Apt!Entry
    BY <1>0, <1>a, <1>1, AptFields DEF EntryKinds
  <2>2. Good(r, x) /\ AptUpload
    BY <1>a, <1>1 DEF AptStored, AptHand
  <2> QED BY <1>0, <1>a, <1>1, <2>1, <2>2, AptFields, PathTypes DEF AptUpload, Own, Target
<1>3. /\ pool \in [Apt!Paths -> Apt!Sums] /\ served \subseteq Repositories \X Packages
      /\ Apt!indexed' = Apt!indexed /\ Uploaded' = Uploaded
      /\ \A k \in Apt!indexed : k[1] \in Repositories /\ k[2] \in Packages /\ k = <<k[1], k[2]>>
  BY <1>0, <1>1, AptFields DEF Apt!TypeOK, Apt!Keys, Apt!indexed, Uploaded
\* The artifacts of other packages have other paths.
<1>4. \A k \in Repositories \X Packages : k # Target => Apt!PathOf(k[1], k[2]) # x.path
  BY <1>2, PathFacts
<1>5. /\ \/ aptAt = "removeOld" /\ aptAt' = "rename"
            /\ pool' = [pool EXCEPT ![x.path] = 0] /\ torn' = torn \cup {x.path} /\ served' = served \ {Target}
         \/ aptAt = "rename" /\ aptAt' = "upsert"
            /\ pool' = [pool EXCEPT ![x.path] = x.sum] /\ torn' = torn \ {x.path} /\ served' = served
      /\ Target \notin served'
  <2>1. \/ aptAt = "removeOld" /\ aptAt' = "rename"
            /\ pool' = [pool EXCEPT ![x.path] = 0] /\ torn' = torn \cup {x.path} /\ served' = served \ {Target}
        \/ aptAt = "rename" /\ aptAt' = "upsert"
            /\ pool' = [pool EXCEPT ![x.path] = x.sum] /\ torn' = torn \ {x.path} /\ served' = served
    BY <1>a DEF Apt!RemoveOld, Apt!Rename, Apt!Go, Apt!None, Target
  <2>2. aptAt = "rename" => Target \notin served
    BY <1>1 DEF AptStored, AptHand, AptUpload
  <2> QED BY <2>1, <2>2
<1>6. /\ \A path \in Apt!Paths : path # x.path => pool'[path] = pool[path] /\ (path \in torn' => path \in torn)
      /\ \A path \in Apt!Paths : path # x.path => (path \in torn => path \in torn')
      /\ x.path \notin torn' => aptAt = "rename" /\ pool'[x.path] = x.sum
      /\ aptAt = "removeOld" => x.path \in torn'
      /\ aptAt = "rename" => x.path \notin torn'
  BY <1>2, <1>3, <1>5
<1>7. AptRows'
  <2>1. ASSUME NEW k \in Uploaded, Apt!PathOf(k[1], k[2]) \notin torn' \cup claimed
        PROVE  pool'[Apt!PathOf(k[1], k[2])] # 0
    <3>1. Apt!PathOf(k[1], k[2]) \in Apt!Paths
      BY <1>3, PathTypes DEF Uploaded
    <3>2. CASE Apt!PathOf(k[1], k[2]) = x.path
      BY <1>2, <1>6, <2>1, <3>2
    <3>3. CASE Apt!PathOf(k[1], k[2]) # x.path
      <4>1. Apt!PathOf(k[1], k[2]) \notin torn \cup claimed
        BY <1>6, <2>1, <3>1, <3>3
      <4> QED BY <1>0, <1>6, <3>1, <3>3, <4>1 DEF AptRows
    <3> QED BY <3>2, <3>3
  <2>2. ASSUME NEW k \in served', Apt!PathOf(k[1], k[2]) \notin claimed
        PROVE  k \in Apt!indexed /\ pool'[Apt!PathOf(k[1], k[2])] = packageRows[k].sum
    <3>1. k \in served /\ k # Target /\ k[1] \in Repositories /\ k[2] \in Packages
      BY <1>3, <1>5
    <3>2. Apt!PathOf(k[1], k[2]) \in Apt!Paths /\ Apt!PathOf(k[1], k[2]) # x.path
      BY <1>3, <1>4, <3>1, PathTypes
    <3> QED BY <1>0, <1>6, <2>2, <3>1, <3>2 DEF AptRows
  <2>3. \A k \in served' : k \notin declared
    BY <1>0, <1>5 DEF AptRows
  <2>4. \A k \in Apt!indexed : Tame(k[1], k[2], packageRows[k])'
    BY <1>0, <1>1 DEF AptRows, Tame, Own, Apt!Paths, Apt!PathOf
  <2>5. \A k \in Uploaded : Own(k[1], k[2], packageRows[k])'
    BY <1>0, <1>1 DEF AptRows, Own, Apt!PathOf
  <2>6. /\ \A k \in Apt!indexed : packageRows'[k].id # 0 /\ packageRows'[k].id <= ids'
        /\ \A k, l \in Apt!indexed : packageRows'[k].id = packageRows'[l].id => k = l
    BY <1>0, <1>1 DEF AptRows
  <2> QED BY <1>1, <1>3, <2>1, <2>2, <2>3, <2>4, <2>5, <2>6 DEF AptRows, Apt!PathOf
<1>8. \A s, y : y.id \in Nat /\ Good(s, y) => Good(s, y)'
  BY <1>0, <1>1, <1>3, AptFields, GoodStays
<1>9. AptEntries'
  BY <1>0, <1>1, <1>8, AptFields DEF AptStored, AptEntries
<1>10. AptHand'
  <2>1. Good(r, x)' /\ Own(r, x.package, x)'
    BY <1>2, <1>8 DEF Own, Apt!PathOf
  <2>2. aptJob'.repository = r /\ aptJob'.entry = x
    BY <1>a, <1>1
  <2>3. Good(aptJob.repository, aptJob.entry)' /\ Own(aptJob.repository, aptJob.entry.package, aptJob.entry)'
    BY <2>1, <2>2
  <2>4. AptUpload'
    BY <1>2, <1>5, <1>6, <2>2, <2>3 DEF AptUpload
  <2> QED BY <1>1, <2>3, <2>4 DEF AptHand
<1> QED BY <1>7, <1>9, <1>10 DEF AptStored

\* The file of a deletion is of no package whose row is an upload's.
LEMMA StoredRemovesFile == AptApart /\ AptStored /\ AptTyped' /\ Apt!RemoveFile => AptStored'
<1> SUFFICES ASSUME AptApart, AptStored, AptTyped', Apt!RemoveFile
             PROVE  AptStored'
  OBVIOUS
<1>a. PICK r \in {aptJob.repository}, x \in {aptJob.entry} : r = aptJob.repository /\ x = aptJob.entry
  OBVIOUS
<1>0. Apt!TypeOK /\ ids \in Nat /\ AptRows
  BY AptFields DEF AptStored, AptTyped
<1>1. /\ aptJob.kind = "deletePackage" /\ aptJob.kind \in EntryKinds /\ aptJob' = aptJob
      /\ aptAt = "removeFile" /\ aptAt' = "remember"
      /\ pool' = [path \in Apt!Paths |-> IF path = x.path THEN 0 ELSE pool[path]]
      /\ UNCHANGED <<packageRows, ids, packages, declared, claimed, served, torn>>
  BY <1>a DEF AptStored, AptTyped, AptPhases, Apt!RemoveFile, Apt!Go, Apt!list, Apt!table, Apt!history, Apt!None,
     EntryKinds
<1>2. /\ r \in Repositories /\ x.package \in Packages /\ x.id \in Nat /\ Target = <<r, x.package>> /\ Good(r, x)
      /\ Own(r, x.package, x) => Target \notin Uploaded
  <2>1. r \in Repositories /\ x \in Apt!Entry
    BY <1>0, <1>a, <1>1, AptFields DEF EntryKinds
  <2> QED BY <1>0, <1>a, <1>1, <2>1, AptFields DEF AptStored, AptHand, Target
<1>3. /\ served \subseteq Repositories \X Packages
      /\ Apt!indexed' = Apt!indexed /\ Uploaded' = Uploaded
      /\ \A k \in Apt!indexed : k[1] \in Repositories /\ k[2] \in Packages /\ k = <<k[1], k[2]>>
  BY <1>0, <1>1, AptFields DEF Apt!TypeOK, Apt!Keys, Apt!indexed, Uploaded
<1>4. \A k \in Uploaded : Apt!PathOf(k[1], k[2]) \notin claimed => pool'[Apt!PathOf(k[1], k[2])] = pool[Apt!PathOf(k[1], k[2])]
  <2> SUFFICES ASSUME NEW k \in Uploaded, Apt!PathOf(k[1], k[2]) \notin claimed
               PROVE  pool'[Apt!PathOf(k[1], k[2])] = pool[Apt!PathOf(k[1], k[2])]
    OBVIOUS
  <2>1. k[1] \in Repositories /\ k[2] \in Packages /\ k = <<k[1], k[2]>> /\ Apt!PathOf(k[1], k[2]) \in Apt!Paths
    BY <1>3, PathTypes DEF Uploaded
  <2>2. Apt!PathOf(k[1], k[2]) # x.path
    <3> SUFFICES ASSUME Apt!PathOf(k[1], k[2]) = x.path
                 PROVE  FALSE
      OBVIOUS
    <3>1. Own(r, x.package, x)
      BY <1>2, <2>1 DEF Good, Tame
    <3>2. k = Target
      BY <1>2, <2>1, <3>1, PathFacts DEF Own
    <3> QED BY <1>2, <3>1, <3>2
  <2> QED BY <1>1, <2>1, <2>2
<1>5. AptRows'
  <2>1. \A k \in Uploaded : Apt!PathOf(k[1], k[2]) \notin torn \cup claimed => pool'[Apt!PathOf(k[1], k[2])] # 0
    BY <1>0, <1>4 DEF AptRows
  <2>2. \A k \in served : Apt!PathOf(k[1], k[2]) \notin claimed =>
            k \in Apt!indexed /\ pool'[Apt!PathOf(k[1], k[2])] = packageRows[k].sum
    BY <1>0, <1>4 DEF AptRows, Uploaded
  <2>3. \A k \in served : k \notin declared
    BY <1>0 DEF AptRows
  <2>4. \A k \in Apt!indexed : Tame(k[1], k[2], packageRows[k])'
    BY <1>0, <1>1 DEF AptRows, Tame, Own, Apt!Paths, Apt!PathOf
  <2>5. \A k \in Uploaded : Own(k[1], k[2], packageRows[k])'
    BY <1>0, <1>1 DEF AptRows, Own, Apt!PathOf
  <2>6. /\ \A k \in Apt!indexed : packageRows'[k].id # 0 /\ packageRows'[k].id <= ids'
        /\ \A k, l \in Apt!indexed : packageRows'[k].id = packageRows'[l].id => k = l
    BY <1>0, <1>1 DEF AptRows
  <2> QED BY <1>1, <1>3, <2>1, <2>2, <2>3, <2>4, <2>5, <2>6 DEF AptRows, Apt!PathOf
<1>6. \A s, y : y.id \in Nat /\ Good(s, y) => Good(s, y)'
  BY <1>0, <1>1, <1>3, AptFields, GoodStays
<1>7. AptEntries'
  BY <1>0, <1>1, <1>6, AptFields DEF AptStored, AptEntries
<1>8. AptHand'
  <2>1. Good(r, x)'
    BY <1>2, <1>6
  <2>2. Good(aptJob.repository, aptJob.entry)'
    BY <1>a, <1>1, <2>1
  <2> QED BY <1>1, <2>2 DEF AptHand
<1> QED BY <1>5, <1>7, <1>8 DEF AptStored

\* The files of a repository are of no other, and its rows are gone.
LEMMA StoredRemovesFiles ==
    ASSUME AptApart, AptStored, AptTyped', NEW gone \in Apt!FileNames, Apt!RemoveFiles(gone)
    PROVE  AptStored'
<1>a. PICK r \in {aptJob.repository} : r = aptJob.repository
  OBVIOUS
<1>0. Apt!TypeOK /\ ids \in Nat /\ AptRows
  BY AptFields DEF AptStored, AptTyped
<1>1. /\ aptJob.kind = "deleteRepository" /\ aptAt = "removeFiles" /\ aptAt' = aptAt /\ gone \in aptJob.paths
      /\ pool' = [path \in Apt!Paths |-> IF path = gone THEN 0 ELSE pool[path]]
      /\ aptJob' = [aptJob EXCEPT !.paths = @ \ {gone}]
      /\ UNCHANGED <<packageRows, ids, packages, declared, claimed, served, torn>>
  BY DEF AptStored, AptTyped, AptPhases, Apt!RemoveFiles, Apt!list, Apt!table, Apt!history, Apt!None
<1>2. /\ r \in Repositories
      /\ aptJob'.kind = "deleteRepository" /\ aptJob'.repository = r /\ aptJob'.paths = aptJob.paths \ {gone}
  <2>1. aptJob \in Apt!Job /\ r \in Repositories
    BY <1>0, <1>a, <1>1, AptFields
  <2>2. aptJob \in [kind : {"deleteRepository"}, repository : Repositories, paths : SUBSET Apt!FileNames]
    BY <1>1, <2>1 DEF Apt!Job
  <2> QED BY <1>a, <1>1, <2>1, <2>2
<1>3. /\ Apt!indexed' = Apt!indexed /\ Uploaded' = Uploaded
      /\ \A k \in Apt!indexed : k[1] \in Repositories /\ k[2] \in Packages /\ k = <<k[1], k[2]>>
      /\ \A k \in Apt!indexed : k[1] # r
      /\ \A path \in aptJob.paths :
            path \in Apt!Paths /\ path \notin claimed => \E p \in Packages : path = Apt!PathOf(r, p)
  BY <1>0, <1>a, <1>1, AptFields DEF Apt!indexed, Uploaded, AptStored, AptHand
<1>4. \A k \in Apt!indexed : Apt!PathOf(k[1], k[2]) \notin claimed =>
          pool'[Apt!PathOf(k[1], k[2])] = pool[Apt!PathOf(k[1], k[2])]
  <2> SUFFICES ASSUME NEW k \in Apt!indexed, Apt!PathOf(k[1], k[2]) \notin claimed
               PROVE  pool'[Apt!PathOf(k[1], k[2])] = pool[Apt!PathOf(k[1], k[2])]
    OBVIOUS
  <2>1. k[1] \in Repositories /\ k[2] \in Packages /\ k[1] # r /\ Apt!PathOf(k[1], k[2]) \in Apt!Paths
    BY <1>3, PathTypes
  <2>2. Apt!PathOf(k[1], k[2]) # gone
    BY <1>1, <1>2, <1>3, <2>1, PathFacts
  <2> QED BY <1>1, <2>1, <2>2
<1>5. AptRows'
  <2>1. \A k \in Uploaded : Apt!PathOf(k[1], k[2]) \notin torn \cup claimed => pool'[Apt!PathOf(k[1], k[2])] # 0
    BY <1>0, <1>4 DEF AptRows, Uploaded
  <2>2. \A k \in served : Apt!PathOf(k[1], k[2]) \notin claimed =>
            k \in Apt!indexed /\ pool'[Apt!PathOf(k[1], k[2])] = packageRows[k].sum
    BY <1>0, <1>4 DEF AptRows
  <2>3. \A k \in served : k \notin declared
    BY <1>0 DEF AptRows
  <2>4. \A k \in Apt!indexed : Tame(k[1], k[2], packageRows[k])'
    BY <1>0, <1>1 DEF AptRows, Tame, Own, Apt!Paths, Apt!PathOf
  <2>5. \A k \in Uploaded : Own(k[1], k[2], packageRows[k])'
    BY <1>0, <1>1 DEF AptRows, Own, Apt!PathOf
  <2>6. /\ \A k \in Apt!indexed : packageRows'[k].id # 0 /\ packageRows'[k].id <= ids'
        /\ \A k, l \in Apt!indexed : packageRows'[k].id = packageRows'[l].id => k = l
    BY <1>0, <1>1 DEF AptRows
  <2> QED BY <1>1, <1>3, <2>1, <2>2, <2>3, <2>4, <2>5, <2>6 DEF AptRows, Apt!PathOf
<1>6. \A s, y : y.id \in Nat /\ Good(s, y) => Good(s, y)'
  BY <1>0, <1>1, <1>3, AptFields, GoodStays
<1>7. AptEntries'
  BY <1>0, <1>1, <1>6, AptFields DEF AptStored, AptEntries
<1>8. AptHand'
  BY <1>1, <1>2, <1>3 DEF AptHand, EntryKinds, Apt!Paths, Apt!PathOf
<1> QED BY <1>5, <1>7, <1>8 DEF AptStored

\* A list as storing or erasing an entry leaves it has that entry and its own.
LEMMA ListElements ==
    ASSUME NEW s \in Seq(Apt!Entry)
    PROVE  /\ \A e \in Apt!Entry : \A i \in DOMAIN Apt!Stored(s, e) :
                 \/ Apt!Stored(s, e)[i] = e
                 \/ \E j \in DOMAIN s : s[j] = Apt!Stored(s, e)[i]
           /\ \A i \in DOMAIN s : \A k \in DOMAIN Apt!Erased(s, i) : \E j \in DOMAIN s : s[j] = Apt!Erased(s, i)[k]
<1>1. DOMAIN s = 1 .. Len(s) /\ Len(s) \in Nat
  OBVIOUS
<1>2. ASSUME NEW e \in Apt!Entry, NEW i \in DOMAIN Apt!Stored(s, e), Apt!Stored(s, e)[i] # e
      PROVE  \E j \in DOMAIN s : s[j] = Apt!Stored(s, e)[i]
  <2>1. Apt!Stored(s, e) = Append(s, e) \/ \E j : Apt!Stored(s, e) = [s EXCEPT ![j] = e]
    <3> DEFINE same == {j \in Apt!Positions(s) : s[j].package = e.package}
               least == CHOOSE j \in same : \A k \in same : j <= k
    <3>1. Apt!Stored(s, e) = IF same = {} THEN Append(s, e) ELSE [s EXCEPT ![least] = e]
      BY DEF Apt!Stored
    <3> HIDE DEF same, least
    <3> QED BY <3>1
  <2>2. CASE Apt!Stored(s, e) = Append(s, e)
    <3>1. /\ Len(Append(s, e)) = Len(s) + 1 /\ Append(s, e) \in Seq(Apt!Entry)
          /\ \A k \in 1 .. Len(s) : Append(s, e)[k] = s[k]
          /\ Append(s, e)[Len(s) + 1] = e
      BY AppendProperties
    <3>2. i \in 1 .. Len(s) + 1 /\ i # Len(s) + 1
      BY <1>2, <2>2, <3>1
    <3> QED BY <1>1, <2>2, <3>1, <3>2
  <2>3. ASSUME NEW j, Apt!Stored(s, e) = [s EXCEPT ![j] = e]
        PROVE  \E k \in DOMAIN s : s[k] = Apt!Stored(s, e)[i]
    BY <1>2, <2>3
  <2> QED BY <2>1, <2>2, <2>3
<1>3. ASSUME NEW i \in DOMAIN s, NEW k \in DOMAIN Apt!Erased(s, i)
      PROVE  \E j \in DOMAIN s : s[j] = Apt!Erased(s, i)[k]
  <2> DEFINE t == Apt!Erased(s, i)
  <2>1. /\ t \in Seq(Apt!Entry) /\ Len(t) = Len(s) - 1
        /\ \A j \in 1 .. Len(s) - 1 : t[j] = IF j < i THEN s[j] ELSE s[j + 1]
    BY ErasedElements
  <2>2. k \in DOMAIN t
    OBVIOUS
  <2> HIDE DEF t
  <2>3. k \in 1 .. Len(s) - 1
    BY <2>1, <2>2
  <2>4. k \in DOMAIN s /\ k + 1 \in DOMAIN s /\ t[k] \in {s[k], s[k + 1]}
    <3>1. k \in DOMAIN s /\ k + 1 \in DOMAIN s
      BY <1>1, <2>3
    <3>2. t[k] = IF k < i THEN s[k] ELSE s[k + 1]
      BY <2>1, <2>3
    <3> QED BY <3>1, <3>2
  <2> QED BY <2>4 DEF t
<1> QED BY <1>2, <1>3

\* The end of a request, and a start.
LEMMA StoredEnds ==
    ASSUME AptStored, AptTyped', Apt!Remember \/ Apt!Restart \/ Apt!RestartBlind
    PROVE  AptStored'
<1>a. PICK r \in {aptJob.repository}, x \in {aptJob.entry} : r = aptJob.repository /\ x = aptJob.entry
  OBVIOUS
<1>0. Apt!TypeOK /\ ids \in Nat /\ AptRows /\ AptEntries
  BY AptFields DEF AptStored, AptTyped
<1>1. /\ Apt!Rest /\ UNCHANGED <<packageRows, ids, pool, declared, claimed, torn>>
      /\ \/ served' = served
         \/ aptAt = "remember" /\ aptJob.kind = "upload" /\ served' = served \cup {Target}
  BY DEF Apt!Remember, Apt!Restart, Apt!RestartBlind, Apt!table, Apt!history, Target
<1>2. AptHand'
  BY <1>1 DEF AptHand, EntryKinds, Apt!Rest, Apt!NoJob
<1>3. Apt!indexed' = Apt!indexed /\ Uploaded' = Uploaded
  BY <1>1 DEF Apt!indexed, Uploaded
<1>4. \A s, y : y.id \in Nat /\ Good(s, y) => Good(s, y)'
  BY <1>0, <1>1, <1>3, AptFields, GoodStays
<1>5. AptRows'
  <2>1. \A k \in served' : /\ k \notin declared
                           /\ Apt!PathOf(k[1], k[2]) \notin claimed =>
                                k \in Apt!indexed /\ pool[Apt!PathOf(k[1], k[2])] = packageRows[k].sum
    <3>1. ASSUME aptAt = "remember", aptJob.kind = "upload"
          PROVE  /\ Target \in Uploaded
                 /\ pool[Apt!PathOf(Target[1], Target[2])] = packageRows[Target].sum
      <4>1. AptUpload
        BY <3>1 DEF AptStored, AptHand
      <4> QED BY <3>1, <4>1 DEF AptUpload, Own, Target
    <3>2. \A k \in served : /\ k \notin declared
                            /\ Apt!PathOf(k[1], k[2]) \notin claimed =>
                                k \in Apt!indexed /\ pool[Apt!PathOf(k[1], k[2])] = packageRows[k].sum
      BY <1>0 DEF AptRows
    <3> QED BY <1>1, <3>1, <3>2 DEF Uploaded
  <2>2. \A k \in Apt!indexed : Tame(k[1], k[2], packageRows[k])'
    BY <1>0, <1>1 DEF AptRows, Tame, Own, Apt!Paths, Apt!PathOf
  <2>3. \A k \in Uploaded : Own(k[1], k[2], packageRows[k])'
    BY <1>0, <1>1 DEF AptRows, Own, Apt!PathOf
  <2>4. /\ \A k \in Apt!indexed : packageRows'[k].id # 0 /\ packageRows'[k].id <= ids'
        /\ \A k, l \in Apt!indexed : packageRows'[k].id = packageRows'[l].id => k = l
        /\ \A k \in Uploaded : Apt!PathOf(k[1], k[2]) \notin torn \cup claimed => pool[Apt!PathOf(k[1], k[2])] # 0
    BY <1>0, <1>1 DEF AptRows
  <2> QED BY <1>1, <1>3, <2>1, <2>2, <2>3, <2>4 DEF AptRows, Apt!PathOf
<1>6. \A s \in Repositories : \A i \in DOMAIN packages[s] : Good(s, packages[s][i]) /\ packages[s][i].id \in Nat
  BY <1>0, AptFields DEF AptEntries
\* What a start reads of a row is what the row says.
<1>7. ASSUME NEW s \in Repositories, NEW i \in DOMAIN Apt!Loaded(s)
      PROVE  Good(s, Apt!Loaded(s)[i]) /\ Apt!Loaded(s)[i].id \in Nat
  <2>1. PICK y \in {Apt!Loaded(s)[i]} : y = Apt!Loaded(s)[i]
    OBVIOUS
  <2>2. PICK k \in {<<s, y.package>>} : k = <<s, y.package>>
    OBVIOUS
  <2>3. /\ k \in Apt!indexed /\ k[1] = s /\ k[2] = y.package
        /\ y.id = packageRows[k].id /\ y.file = packageRows[k].file /\ y.path = packageRows[k].path
    BY <1>0, <2>1, <2>2, LoadedFacts
  <2>4. Tame(s, y.package, packageRows[k]) /\ packageRows[k].id <= ids /\ packageRows[k].id \in Nat
        /\ \A l \in Apt!indexed : packageRows[l].id = packageRows[k].id => l = k
    BY <1>0, <2>3, AptFields DEF AptRows
  <2>5. Good(s, y) /\ y.id \in Nat
    BY <2>2, <2>3, <2>4 DEF Good, Tame, Own
  <2> QED BY <2>1, <2>5
<1>8. CASE Apt!Restart \/ Apt!RestartBlind
  <2> DEFINE L(s) == Apt!Loaded(s)
  <2>1. \A s \in Repositories : \A i \in DOMAIN L(s) : Good(s, L(s)[i]) /\ L(s)[i].id \in Nat
    BY <1>7
  <2>2. \/ packages' = [s \in Repositories |-> L(s)]
        \/ packages' = [s \in Repositories |-> <<>>]
    BY <1>8 DEF Apt!Restart, Apt!RestartBlind
  <2> HIDE DEF L
  <2>3. ASSUME NEW s \in Repositories, NEW i \in DOMAIN packages'[s]
        PROVE  Good(s, packages[s][i])'
    <3>1. PICK y \in {packages'[s][i]} : y = packages'[s][i]
      OBVIOUS
    <3>2. i \in DOMAIN L(s) /\ y = L(s)[i]
      BY <2>2, <2>3, <3>1
    <3>3. Good(s, y)'
      BY <1>4, <2>1, <3>2
    <3> QED BY <3>1, <3>3
  <2>4. AptEntries'
    BY <2>3 DEF AptEntries
  <2> QED BY <1>2, <1>5, <2>4 DEF AptStored
<1>9. CASE Apt!Remember
  <2>1. aptAt = "remember" /\ r \in Repositories /\ packages \in [Repositories -> Seq(Apt!Entry)]
        /\ packages[r] \in Seq(Apt!Entry)
    BY <1>0, <1>a, <1>9, AptFields DEF Apt!Remember, Apt!TypeOK
  <2>2. aptJob.kind \in EntryKinds => x \in Apt!Entry /\ x.id \in Nat /\ Good(r, x)
    BY <1>0, <1>a, AptFields DEF AptStored, AptHand
  <2>3. \A s \in Repositories : s # r => packages'[s] = packages[s]
    BY <1>a, <1>9, <2>1 DEF Apt!Remember, Apt!list
  <2>4. \/ packages'[r] = packages[r]
        \/ packages'[r] = <<>>
        \/ aptJob.kind \in EntryKinds /\ packages'[r] = Apt!Stored(packages[r], x)
        \/ aptJob.index \in DOMAIN packages[r] /\ packages'[r] = Apt!Erased(packages[r], aptJob.index)
    BY <1>a, <1>9, <2>1 DEF AptStored, AptTyped, Apt!Remember, Apt!list, EntryKinds
  <2>5. \A i \in DOMAIN packages'[r] :
            \/ \E j \in DOMAIN packages[r] : packages[r][j] = packages'[r][i]
            \/ aptJob.kind \in EntryKinds /\ packages'[r][i] = x
    <3>1. CASE packages'[r] = packages[r] \/ packages'[r] = <<>>
      BY <3>1
    <3>2. CASE aptJob.kind \in EntryKinds /\ packages'[r] = Apt!Stored(packages[r], x)
      BY <2>1, <2>2, <3>2, ListElements
    <3>3. CASE aptJob.index \in DOMAIN packages[r] /\ packages'[r] = Apt!Erased(packages[r], aptJob.index)
      BY <2>1, <3>3, ListElements
    <3> QED BY <2>4, <3>1, <3>2, <3>3
  <2>6. ASSUME NEW s \in Repositories, NEW i \in DOMAIN packages'[s]
        PROVE  Good(s, packages[s][i])'
    <3>1. PICK y \in {packages'[s][i]} : y = packages'[s][i]
      OBVIOUS
    <3>2. Good(s, y) /\ y.id \in Nat
      <4>1. CASE s = r
        BY <1>6, <2>1, <2>2, <2>5, <2>6, <3>1, <4>1
      <4>2. CASE s # r
        BY <1>6, <2>3, <2>6, <3>1, <4>2
      <4> QED BY <4>1, <4>2
    <3>3. Good(s, y)'
      BY <1>4, <3>2
    <3> QED BY <3>1, <3>3
  <2>7. AptEntries'
    BY <2>6 DEF AptEntries
  <2> QED BY <1>2, <1>5, <2>7 DEF AptStored
<1> QED BY <1>8, <1>9

\* Every step keeps what rows, artifacts and entries are.
LEMMA StoredStep ==
    ASSUME AptApart, AptStored, Apt!Next \/ UNCHANGED aptVars
    PROVE  AptStored'
<1>0. AptTyped'
  BY AptTypesStep DEF AptStored
<1>1. CASE UNCHANGED aptVars
  <2>1. /\ UNCHANGED <<packageRows, ids, pool, torn, declared, claimed, served, packages, aptJob, aptAt>>
    BY <1>1 DEF aptVars
  <2>2. AptRows' /\ AptEntries' /\ \A r, x : x.id \in Nat /\ Good(r, x) => Good(r, x)'
    BY <2>1, RowsStay
  <2>3. AptHand'
    <3>1. aptJob.kind \in EntryKinds => Good(aptJob.repository, aptJob.entry) /\ aptJob.entry.id \in Nat
      BY AptFields DEF AptStored, AptTyped, AptHand
    <3>2. aptJob.kind \in EntryKinds => Good(aptJob.repository, aptJob.entry)'
      BY <2>1, <2>2, <3>1
    <3> QED BY <2>1, <3>2 DEF AptStored, AptHand, AptUpload, Own, Target, Uploaded, Apt!indexed, Apt!Paths, Apt!PathOf
  <2> QED BY <1>0, <2>2, <2>3 DEF AptStored
<1>2. CASE Apt!Next
  BY <1>0, <1>2, AptNext, StoredBegins, StoredElse, StoredDeletesPackages, StoredDeletesRow, StoredUpserts,
     StoredReplaces, StoredRemovesFile, StoredRemovesFiles, StoredEnds
<1> QED BY <1>1, <1>2

-----------------------------------------------------------------------------
(***************************************************************************)
(* The list and the rows, while nothing fails.                             *)
(***************************************************************************)
\* What a fault would end holds otherwise.
Agreement == AptTold /\ \A r \in Repositories : r \notin diverged => AptAgrees(r)

\* A repository whose list and rows change only where the request in hand puts them
\* in doubt agrees as before.
LEMMA AgreesStay ==
    ASSUME Apt!TypeOK, NEW r \in Repositories, AptAgrees(r), packages'[r] = packages[r],
           \A p \in Packages : ~Doubted(r, p)' =>
               /\ ~Doubted(r, p)
               /\ <<r, p>> \in Apt!indexed' <=> <<r, p>> \in Apt!indexed
               /\ <<r, p>> \in Apt!indexed => /\ packageRows'[<<r, p>>].file = packageRows[<<r, p>>].file
                                              /\ packageRows'[<<r, p>>].path = packageRows[<<r, p>>].path
                                              /\ packageRows'[<<r, p>>].sum = packageRows[<<r, p>>].sum
    PROVE  AptAgrees(r)'
<1>1. \A i \in DOMAIN packages[r] : packages[r][i].package \in Packages
  BY AptFields
<1>2. Once(packages[r])'
  BY DEF AptAgrees, Once
<1>3. ASSUME NEW p \in Packages, <<r, p>> \in Apt!indexed', ~Doubted(r, p)'
      PROVE  \E i \in DOMAIN packages'[r] : packages'[r][i].package = p /\ Same(<<r, p>>, packages[r][i])'
  <2>1. PICK i \in DOMAIN packages[r] : packages[r][i].package = p /\ Same(<<r, p>>, packages[r][i])
    BY <1>3 DEF AptAgrees
  <2> QED BY <1>3, <2>1 DEF Same
<1>4. ASSUME NEW i \in DOMAIN packages'[r], ~Doubted(r, packages[r][i].package)'
      PROVE  <<r, packages'[r][i].package>> \in Apt!indexed'
  <2>1. PICK p \in Packages : p = packages[r][i].package
    BY <1>1, <1>4
  <2>2. ~Doubted(r, p)'
    BY <1>4, <2>1
  <2> QED BY <1>4, <2>1, <2>2 DEF AptAgrees
<1> QED BY <1>2, <1>3, <1>4 DEF AptAgrees

\* Without a request nothing is in doubt.
LEMMA RestTells == aptJob.kind = "none" => AptTold /\ \A r, p : ~Doubted(r, p)
BY DEF AptTold, Doubted

\* A request as it begins.
LEMMA ListedBegins ==
    ASSUME AptStored, Agreement, NEW r \in Repositories,
           \/ Apt!CreateRepository(r) \/ Apt!DeleteRepository(r)
           \/ \E p \in Packages : Apt!Upload(r, p)
           \/ \E i \in Apt!Positions(packages[r]) : Apt!DeletePackage(r, i)
           \/ \E x \in Apt!Entry : x.id = 0 /\ Metadata(r, x)
    PROVE  Agreement'
<1>0. Apt!TypeOK /\ \A s \in Repositories : packages[s] \in Seq(Apt!Entry)
  BY AptFields DEF AptStored, AptTyped
<1>1. aptJob.kind = "none" /\ UNCHANGED packageRows /\ Apt!indexed' = Apt!indexed
  <2>1. aptAt = "idle" /\ UNCHANGED packageRows
    BY DEF Apt!CreateRepository, Apt!DeleteRepository, Apt!Upload, Apt!DeletePackage, Metadata,
           Apt!AddPackage, Apt!UpdatePackage, Apt!Write, Apt!Begin, Apt!table
  <2> QED BY <1>0, <2>1, AptFields DEF Apt!indexed
<1>2. \A s, p : ~Doubted(s, p)
  BY <1>1, RestTells
\* Most requests begin without doubt.
<1>3. ASSUME UNCHANGED <<packages, diverged>>, \A s, p : ~Doubted(s, p)', AptTold'
      PROVE  Agreement'
  <2>1. ASSUME NEW s \in Repositories, s \notin diverged
        PROVE  AptAgrees(s)'
    BY <1>0, <1>1, <1>2, <1>3, <2>1, AgreesStay DEF Agreement
  <2> QED BY <1>3, <2>1 DEF Agreement
<1>4. CASE Apt!CreateRepository(r) \/ Apt!DeleteRepository(r) \/ \E p \in Packages : Apt!Upload(r, p)
  <2>1. /\ aptJob'.kind \in {"create", "deleteRepository", "upload"} /\ aptAt' # "remember"
        /\ aptJob'.kind = "deleteRepository" => aptAt' = "deletePackages"
        /\ UNCHANGED <<packages, diverged>>
    BY <1>4 DEF Apt!CreateRepository, Apt!DeleteRepository, Apt!Upload, Apt!Write, Apt!Begin
  <2> QED BY <1>3, <2>1 DEF AptTold, Doubted
<1>5. ASSUME NEW i \in Apt!Positions(packages[r]), Apt!DeletePackage(r, i)
      PROVE  Agreement'
  <2>1. /\ aptJob'.kind = "deletePackage" /\ aptAt' = "deleteRow" /\ UNCHANGED <<packages, diverged>>
        /\ aptJob'.repository = r /\ aptJob'.index = i /\ aptJob'.entry = packages[r][i]
    BY <1>5 DEF Apt!DeletePackage, Apt!Begin
  <2> QED BY <1>3, <2>1 DEF AptTold, Doubted
<1>6. ASSUME NEW x \in Apt!Entry, Apt!AddPackage(r, x)
      PROVE  Agreement'
  <2>1. aptJob'.kind = "add" /\ aptAt' = "upsert" /\ UNCHANGED <<packages, diverged>>
    BY <1>6 DEF Apt!AddPackage, Apt!Write, Apt!Begin
  <2> QED BY <1>3, <2>1 DEF AptTold, Doubted
\* An edit changes the list before the row, at its position.
<1>7. ASSUME NEW x \in Apt!Entry, NEW i \in Apt!Positions(packages[r]), Apt!UpdatePackage(r, i, x)
      PROVE  Agreement'
  <2>1. /\ aptJob'.kind = "edit" /\ aptAt' = "upsert" /\ aptJob'.repository = r /\ aptJob'.entry = x
        /\ packages' = [packages EXCEPT ![r][i] = x]
        /\ diverged' = IF x.package = packages[r][i].package THEN diverged ELSE diverged \cup {r}
    BY <1>7 DEF Apt!UpdatePackage, Apt!Write, Apt!Begin
  <2>2. i \in DOMAIN packages[r] /\ packages \in [Repositories -> Seq(Apt!Entry)]
    BY <1>0 DEF Apt!Positions, Apt!TypeOK
  <2>3. /\ \A s \in Repositories : s # r => packages'[s] = packages[s]
        /\ DOMAIN packages'[r] = DOMAIN packages[r] /\ packages'[r][i] = x
        /\ \A j \in DOMAIN packages[r] : j # i => packages'[r][j] = packages[r][j]
    BY <2>1, <2>2
  <2>4. AptTold'
    BY <2>1, <2>2, <2>3 DEF AptTold
  <2>5. \A s, p : Doubted(s, p)' <=> s = r /\ p = x.package
    BY <2>1 DEF Doubted
  <2>6. ASSUME NEW s \in Repositories, s \notin diverged', s # r
        PROVE  AptAgrees(s)'
    <3>1. AptAgrees(s) /\ packages'[s] = packages[s]
      BY <2>1, <2>3, <2>6 DEF Agreement
    <3> QED BY <1>0, <1>1, <1>2, <3>1, AgreesStay
  <2>7. ASSUME r \notin diverged'
        PROVE  AptAgrees(r)'
    <3>1. AptAgrees(r) /\ packages[r][i].package = x.package
      BY <2>1, <2>7 DEF Agreement
    <3>2. \A j \in DOMAIN packages[r] : packages'[r][j].package = packages[r][j].package
      BY <2>3, <3>1
    <3>3. Once(packages[r])'
      BY <2>3, <3>1, <3>2 DEF AptAgrees, Once
    <3>4. ASSUME NEW p \in Packages, <<r, p>> \in Apt!indexed', ~Doubted(r, p)'
          PROVE  \E j \in DOMAIN packages'[r] : packages'[r][j].package = p /\ Same(<<r, p>>, packages[r][j])'
      <4>1. PICK j \in DOMAIN packages[r] : packages[r][j].package = p /\ Same(<<r, p>>, packages[r][j])
        BY <1>1, <1>2, <3>1, <3>4 DEF AptAgrees
      <4>2. j # i
        BY <2>5, <3>1, <3>4, <4>1
      <4> QED BY <1>1, <2>3, <4>1, <4>2 DEF Same
    <3>5. \A j \in DOMAIN packages'[r] : <<r, packages'[r][j].package>> \in Apt!indexed'
      BY <1>1, <1>2, <2>3, <3>1, <3>2 DEF AptAgrees
    <3> QED BY <3>3, <3>4, <3>5 DEF AptAgrees
  <2> QED BY <2>4, <2>6, <2>7 DEF Agreement
<1> QED BY <1>4, <1>5, <1>6, <1>7 DEF Metadata

\* Steps that change neither the list nor the rows of packages.
LEMMA ListedElse ==
    ASSUME AptStored, AptHomes, Agreement, aptFaults = 0,
           \/ Apt!InsertRepository \/ Apt!DeleteRepositoryRow \/ Apt!RefuseMetadata \/ Apt!FilesRemoved
           \/ Apt!RemoveOld \/ Apt!Rename \/ Apt!RemoveFile
           \/ \E gone \in Apt!FileNames : Apt!RemoveFiles(gone)
    PROVE  Agreement'
<1>0. Apt!TypeOK /\ AptPhases
  BY DEF AptStored, AptTyped
<1>1. /\ UNCHANGED <<packageRows, packages>> /\ Apt!indexed' = Apt!indexed
      /\ aptAt # "idle" /\ aptJob.kind # "none"
  <2>1. aptAt # "idle" /\ UNCHANGED <<packageRows, packages>>
    BY DEF Apt!InsertRepository, Apt!DeleteRepositoryRow, Apt!RefuseMetadata, Apt!FilesRemoved, Apt!RemoveOld,
       Apt!Rename, Apt!RemoveFile, Apt!RemoveFiles, Apt!list, Apt!table
  <2> QED BY <1>0, <2>1, AptFields DEF Apt!indexed
<1>2. CASE Apt!RefuseMetadata
  <2>1. /\ aptJob' = aptJob /\ aptJob.kind \in {"add", "edit"} /\ aptAt' = "remember"
        /\ diverged' = diverged \cup {aptJob.repository}
    BY <1>2 DEF Apt!RefuseMetadata, Apt!Go
  <2>2. AptTold'
    BY <2>1 DEF AptTold
  <2>3. ASSUME NEW s \in Repositories, s \notin diverged'
        PROVE  AptAgrees(s)'
    <3>1. AptAgrees(s) /\ s # aptJob.repository
      BY <2>1, <2>3 DEF Agreement
    <3>2. \A p : ~Doubted(s, p)
      BY <3>1 DEF Doubted
    <3> QED BY <1>0, <1>1, <3>1, <3>2, AgreesStay
  <2> QED BY <2>2, <2>3 DEF Agreement
<1>3. CASE ~Apt!RefuseMetadata
  <2>1. /\ diverged' = diverged /\ aptJob'.kind = aptJob.kind /\ aptJob'.repository = aptJob.repository
        /\ aptJob.kind \in {"upload", "deletePackage"} => aptJob' = aptJob
        /\ \/ aptJob.kind = "create"
           \/ aptJob.kind = "upload" /\ aptAt # "remember" /\ aptAt' # "remember"
           \/ aptJob.kind = "deletePackage" /\ aptAt = "removeFile" /\ aptAt' = "remember"
           \/ aptJob.kind = "deleteRepository" /\ aptAt # "deletePackages" /\ aptAt' # "deletePackages"
    <3>1. CASE Apt!InsertRepository \/ Apt!FilesRemoved \/ Apt!RemoveOld \/ Apt!Rename \/ Apt!RemoveFile
      BY <1>0, <3>1 DEF AptPhases, Apt!InsertRepository, Apt!FilesRemoved, Apt!RemoveOld, Apt!Rename,
         Apt!RemoveFile, Apt!Go, Apt!history
    <3>2. CASE Apt!DeleteRepositoryRow
      <4>1. aptJob.repository \in repositoryRows
        BY <3>2 DEF AptHomes, AptRepositories, Apt!DeleteRepositoryRow
      <4> QED BY <1>0, <3>2, <4>1 DEF AptPhases, Apt!DeleteRepositoryRow, Apt!Go, Apt!history
    <3>3. ASSUME NEW gone \in Apt!FileNames, Apt!RemoveFiles(gone)
          PROVE  /\ diverged' = diverged /\ aptJob'.kind = aptJob.kind /\ aptJob'.repository = aptJob.repository
                 /\ aptJob.kind = "deleteRepository" /\ aptAt = "removeFiles" /\ aptAt' = "removeFiles"
      <4>1. /\ aptAt = "removeFiles" /\ aptAt' = aptAt /\ diverged' = diverged
            /\ aptJob' = [aptJob EXCEPT !.paths = @ \ {gone}] /\ aptJob.kind = "deleteRepository"
        BY <1>0, <3>3 DEF AptPhases, Apt!RemoveFiles, Apt!history
      <4>2. aptJob \in [kind : {"deleteRepository"}, repository : Repositories, paths : SUBSET Apt!FileNames]
        BY <1>0, <4>1, AptFields DEF Apt!Job
      <4> QED BY <4>1, <4>2
    <3> QED BY <1>3, <3>1, <3>2, <3>3
  <2>2. \A s, p : Doubted(s, p) => Doubted(s, p)'
    BY <1>1, <2>1 DEF Doubted
  <2>3. AptTold'
    BY <1>1, <2>1 DEF Agreement, AptTold, Target
  <2>4. ASSUME NEW s \in Repositories, s \notin diverged'
        PROVE  AptAgrees(s)'
    <3>1. AptAgrees(s)
      BY <2>1, <2>4 DEF Agreement
    <3> QED BY <1>0, <1>1, <2>2, <3>1, AgreesStay
  <2> QED BY <2>3, <2>4 DEF Agreement
<1> QED BY <1>2, <1>3

\* A repository's removal puts all its packages in doubt.
LEMMA ListedDeletesPackages == AptStored /\ Agreement /\ Apt!DeletePackages => Agreement'
<1> SUFFICES ASSUME AptStored, Agreement, Apt!DeletePackages
             PROVE  Agreement'
  OBVIOUS
<1>0. Apt!TypeOK
  BY DEF AptStored, AptTyped
<1>1. /\ aptJob' = aptJob /\ aptJob.kind = "deleteRepository" /\ aptAt = "deletePackages"
      /\ aptAt' = "deleteRepository" /\ UNCHANGED <<packages, diverged>>
  BY DEF AptStored, AptTyped, AptPhases, Apt!DeletePackages, Apt!Go, Apt!list
<1>2. /\ Apt!indexed' = {k \in Apt!indexed : k[1] # aptJob.repository}
      /\ \A k \in Apt!indexed' : packageRows'[k] = packageRows[k]
  BY DEF Apt!DeletePackages, Apt!Restrict, Apt!indexed
<1>3. \A s, p : (s = aptJob.repository => Doubted(s, p)') /\ ~Doubted(s, p)
  BY <1>1 DEF Doubted
<1>4. AptTold'
  BY <1>1 DEF AptTold
<1>5. ASSUME NEW s \in Repositories, s \notin diverged
      PROVE  AptAgrees(s)'
  <2>1. \A p \in Packages : ~Doubted(s, p)' => s # aptJob.repository
    BY <1>3
  <2>2. \A p \in Packages : s # aptJob.repository =>
            /\ <<s, p>> \in Apt!indexed' <=> <<s, p>> \in Apt!indexed
            /\ <<s, p>> \in Apt!indexed => packageRows'[<<s, p>>] = packageRows[<<s, p>>]
    BY <1>2
  <2> QED BY <1>0, <1>1, <1>3, <1>5, <2>1, <2>2, AgreesStay DEF Agreement
<1> QED BY <1>1, <1>4, <1>5 DEF Agreement

\* A row is written of an entry that the list has, or will get.
LEMMA ListedUpserts == AptStored /\ Agreement /\ Apt!Upsert => Agreement'
<1> SUFFICES ASSUME AptStored, Agreement, Apt!Upsert
             PROVE  Agreement'
  OBVIOUS
<1>a. PICK r \in {aptJob.repository}, x \in {aptJob.entry} : r = aptJob.repository /\ x = aptJob.entry
  OBVIOUS
<1>b. PICK k \in {<<r, x.package>>} : k = <<r, x.package>>
  OBVIOUS
<1>0. Apt!TypeOK
  BY DEF AptStored, AptTyped
<1>1. /\ aptJob.kind \in {"upload", "add", "edit"} /\ aptJob.kind \in EntryKinds
      /\ aptAt = "upsert" /\ aptAt' = "remember"
      /\ UNCHANGED <<packages, diverged>>
  BY DEF AptStored, AptTyped, AptPhases, Apt!Upsert, Apt!list, EntryKinds
<1>2. /\ r \in Repositories /\ x \in Apt!Entry /\ x.package \in Packages
      /\ aptJob.kind = "edit" => x.id = 0
  BY <1>0, <1>a, <1>1, AptFields DEF EntryKinds, AptStored, AptHand
<1>3. /\ Apt!indexed' = Apt!indexed \cup {k}
      /\ \A l \in Apt!indexed : l # k => packageRows'[l] = packageRows[l]
      /\ packageRows'[k].file = x.file /\ packageRows'[k].path = x.path /\ packageRows'[k].sum = x.sum
  BY <1>a, <1>b DEF Apt!Upsert, Apt!RowOf, Apt!indexed
<1>4. /\ aptJob'.kind = aptJob.kind /\ aptJob'.repository = r
      /\ aptJob'.entry.package = x.package /\ aptJob'.entry.file = x.file /\ aptJob'.entry.path = x.path
      /\ aptJob'.entry.sum = x.sum
      /\ aptJob.kind = "edit" => aptJob'.entry = x
  <2>1. aptJob \in [kind : {"upload", "add", "edit"}, repository : Repositories, entry : Apt!Entry]
    BY <1>0, <1>1, AptFields DEF Apt!Job
  <2>2. PICK id : aptJob' = [aptJob EXCEPT !.entry.id = id] /\ (aptJob.kind = "edit" => id = 0)
    BY DEF Apt!Upsert
  <2>3. aptJob'.kind = aptJob.kind /\ aptJob'.repository = r /\ aptJob'.entry = [x EXCEPT !.id = id]
    BY <1>a, <2>1, <2>2
  <2>4. x \in [package : Packages, id : Nat, file : Apt!FileNames, path : Apt!FileNames, sum : Apt!Sums]
    BY <1>2 DEF Apt!Entry
  <2>5. x.id = 0 => [x EXCEPT !.id = 0] = x
    BY <2>4
  <2> QED BY <1>2, <2>2, <2>3, <2>4, <2>5
<1>5. /\ \A s, p : Doubted(s, p) <=> s = r /\ p = x.package /\ aptJob.kind = "edit"
      /\ \A s, p : Doubted(s, p)' <=> s = r /\ p = x.package /\ aptJob.kind # "edit"
  BY <1>a, <1>1, <1>4 DEF Doubted
<1>6. aptJob.kind = "edit" /\ r \notin diverged => \E i \in DOMAIN packages[r] : packages[r][i] = x
  BY <1>a DEF Agreement, AptTold
<1>7. AptTold'
  BY <1>1, <1>3, <1>4, <1>6, <1>b DEF AptTold, Target, Same
<1>8. ASSUME NEW s \in Repositories, s \notin diverged
      PROVE  AptAgrees(s)'
  <2>0. AptAgrees(s) /\ packages'[s] = packages[s]
    BY <1>1, <1>8 DEF Agreement
  <2>1. \A p \in Packages : ~(s = r /\ p = x.package) =>
            /\ ~Doubted(s, p)
            /\ <<s, p>> \in Apt!indexed' <=> <<s, p>> \in Apt!indexed
            /\ <<s, p>> \in Apt!indexed => packageRows'[<<s, p>>] = packageRows[<<s, p>>]
    BY <1>3, <1>5, <1>b
  <2>2. CASE s # r \/ aptJob.kind # "edit"
    <3>1. \A p \in Packages : ~Doubted(s, p)' => ~(s = r /\ p = x.package)
      BY <1>5, <2>2
    <3> QED BY <1>0, <2>0, <2>1, <3>1, AgreesStay
  <2>3. CASE s = r /\ aptJob.kind = "edit"
    <3>1. PICK i \in DOMAIN packages[r] : packages[r][i] = x
      BY <1>6, <1>8, <2>3
    <3>2. Once(packages[s])'
      BY <2>0 DEF AptAgrees, Once
    <3>3. ASSUME NEW p \in Packages, <<s, p>> \in Apt!indexed'
          PROVE  \E j \in DOMAIN packages'[s] : packages'[s][j].package = p /\ Same(<<s, p>>, packages[s][j])'
      <4>1. CASE p = x.package
        <5>1. packages'[s][i].package = p /\ Same(<<s, p>>, packages[s][i])'
          BY <1>3, <1>b, <2>0, <2>3, <3>1, <4>1 DEF Same
        <5> QED BY <2>0, <2>3, <3>1, <5>1
      <4>2. CASE p # x.package
        <5>1. PICK j \in DOMAIN packages[s] : packages[s][j].package = p /\ Same(<<s, p>>, packages[s][j])
          BY <2>0, <2>1, <3>3, <4>2 DEF AptAgrees
        <5> QED BY <2>0, <2>1, <3>3, <4>2, <5>1 DEF Same
      <4> QED BY <4>1, <4>2
    <3>4. ASSUME NEW j \in DOMAIN packages'[s]
          PROVE  <<s, packages'[s][j].package>> \in Apt!indexed'
      <4>1. PICK p \in Packages : p = packages[s][j].package
        BY <1>0, <2>0, <3>4, AptFields
      <4>2. p # x.package => <<s, p>> \in Apt!indexed
        BY <2>0, <2>1, <3>4, <4>1 DEF AptAgrees
      <4> QED BY <1>3, <1>b, <2>0, <2>3, <4>1, <4>2
    <3> QED BY <3>2, <3>3, <3>4 DEF AptAgrees
  <2> QED BY <2>2, <2>3
<1> QED BY <1>1, <1>7, <1>8 DEF Agreement

\* A deletion that takes more than its package's row parts its repository's list
\* from the rows.
LEMMA ListedDeletesRow == AptStored /\ Agreement /\ Apt!DeleteRow => Agreement'
<1> SUFFICES ASSUME AptStored, Agreement, Apt!DeleteRow
             PROVE  Agreement'
  OBVIOUS
<1>a. PICK r \in {aptJob.repository}, x \in {aptJob.entry} : r = aptJob.repository /\ x = aptJob.entry
  OBVIOUS
<1>b. PICK gone \in SUBSET Apt!indexed :
         gone = {l \in Apt!indexed : IF x.id # 0 THEN packageRows[l].id = x.id
                                     ELSE l[1] = r /\ packageRows[l].file = x.file}
  OBVIOUS
<1>0. Apt!TypeOK /\ aptJob.kind = "deletePackage" /\ aptAt = "deleteRow"
  BY DEF AptStored, AptTyped, AptPhases, Apt!DeleteRow
<1>1. /\ \/ gone # {} /\ aptAt' = "removeFile" /\ aptJob' = aptJob
         \/ gone = {} /\ Apt!Rest
      /\ packages' = packages
      /\ diverged' = IF gone \subseteq {<<r, x.package>>} THEN diverged ELSE diverged \cup {r}
      /\ Apt!indexed' = Apt!indexed \ gone
      /\ \A k \in Apt!indexed' : packageRows'[k] = packageRows[k]
  BY <1>a, <1>b DEF Apt!DeleteRow, Apt!Go, Apt!list, Apt!Restrict, Apt!indexed
<1>2. \A k \in gone : k = <<r, x.package>> \/ k[1] = r
  BY <1>0, <1>a, <1>b DEF AptStored, AptHand, EntryKinds, Good
<1>3. \A s, p : ~Doubted(s, p)
  BY <1>0 DEF Doubted
<1>4. gone # {} => Doubted(r, x.package)'
  BY <1>0, <1>1, <1>a DEF Doubted
<1>5. AptTold'
  <2>1. CASE Apt!Rest
    <3>1. aptJob'.kind = "none"
      BY <2>1 DEF Apt!Rest, Apt!NoJob
    <3> QED BY <3>1 DEF AptTold
  <2>2. CASE aptJob' = aptJob /\ gone # {}
    <3>1. r \notin diverged' => <<r, x.package>> \notin Apt!indexed'
      BY <1>1, <2>2
    <3> QED BY <1>0, <1>1, <1>a, <2>2, <3>1 DEF Agreement, AptTold, Target
  <2> QED BY <1>1, <2>1, <2>2
<1>6. ASSUME NEW s \in Repositories, s \notin diverged'
      PROVE  AptAgrees(s)'
  <2>1. AptAgrees(s) /\ packages'[s] = packages[s]
    BY <1>1, <1>6 DEF Agreement
  <2>2. \A p \in Packages : ~Doubted(s, p)' => <<s, p>> \notin gone
    <3>1. CASE s = r
      <4>1. gone \subseteq {<<r, x.package>>}
        BY <1>1, <1>6, <3>1
      <4> QED BY <1>4, <3>1, <4>1
    <3>2. CASE s # r
      BY <1>2, <3>2
    <3> QED BY <3>1, <3>2
  <2> QED BY <1>0, <1>1, <1>3, <2>1, <2>2, AgreesStay
<1> QED BY <1>5, <1>6 DEF Agreement

\* The list as the end of a request leaves it.
LEMMA ListedRemembers == AptStored /\ AptHomes /\ Agreement /\ aptFaults = 0 /\ Apt!Remember => Agreement'
<1> SUFFICES ASSUME AptStored, AptHomes, Agreement, aptFaults = 0, Apt!Remember
             PROVE  Agreement'
  OBVIOUS
<1>a. PICK r \in {aptJob.repository}, x \in {aptJob.entry} : r = aptJob.repository /\ x = aptJob.entry
  OBVIOUS
<1>0. Apt!TypeOK /\ \A s \in Repositories : packages[s] \in Seq(Apt!Entry)
  BY AptFields DEF AptStored, AptTyped
<1>1. /\ aptAt = "remember" /\ aptJob'.kind = "none" /\ aptJob.kind # "none" /\ r \in Repositories
      /\ UNCHANGED <<packageRows, diverged>> /\ Apt!indexed' = Apt!indexed
      /\ packages \in [Repositories -> Seq(Apt!Entry)]
  <2>1. aptAt = "remember" /\ aptJob'.kind = "none" /\ UNCHANGED <<packageRows, diverged>>
    BY DEF Apt!Remember, Apt!Rest, Apt!NoJob, Apt!table
  <2> QED BY <1>0, <1>a, <2>1, AptFields DEF Apt!indexed, Apt!TypeOK
<1>2. AptTold' /\ \A s, p : ~Doubted(s, p)'
  BY <1>1 DEF AptTold, Doubted
<1>3. \A s, p : Doubted(s, p) <=>
          /\ s = r
          /\ \/ aptJob.kind \in {"upload", "add", "deletePackage"} /\ p = x.package
             \/ aptJob.kind = "deleteRepository"
  BY <1>1, <1>a DEF Doubted
<1>4. \A s \in Repositories : s # r => packages'[s] = packages[s]
  BY <1>1, <1>a DEF Apt!Remember, Apt!list
<1>5. ASSUME NEW s \in Repositories, s \notin diverged', s # r
      PROVE  AptAgrees(s)'
  BY <1>0, <1>1, <1>3, <1>4, <1>5, AgreesStay DEF Agreement
<1>6. ASSUME r \notin diverged'
      PROVE  AptAgrees(r)'
  <2>0. AptAgrees(r) /\ Once(packages[r])
    BY <1>1, <1>6 DEF Agreement, AptAgrees
  <2>a. \A i \in DOMAIN packages[r] : packages[r][i].package \in Packages
    BY <1>0, <1>1, AptFields
  <2>b. \A p \in Packages : <<r, p>> \in Apt!indexed /\ ~Doubted(r, p) =>
            \E i \in DOMAIN packages[r] : packages[r][i].package = p /\ Same(<<r, p>>, packages[r][i])
    BY <2>0 DEF AptAgrees
  <2>c. \A i \in DOMAIN packages[r] :
            ~Doubted(r, packages[r][i].package) => <<r, packages[r][i].package>> \in Apt!indexed
    BY <2>0 DEF AptAgrees
  <2>d. ASSUME NEW t, t = packages'[r], Once(t),
               \A p \in Packages : <<r, p>> \in Apt!indexed =>
                  \E i \in DOMAIN t : t[i].package = p /\ Same(<<r, p>>, t[i]),
               \A i \in DOMAIN t : <<r, t[i].package>> \in Apt!indexed
        PROVE  AptAgrees(r)'
    <3>1. Once(packages[r])'
      BY <2>d DEF Once
    <3>2. \A p \in Packages : <<r, p>> \in Apt!indexed' =>
              \E i \in DOMAIN packages'[r] : packages'[r][i].package = p /\ Same(<<r, p>>, packages[r][i])'
      BY <1>1, <2>d DEF Same
    <3>3. \A i \in DOMAIN packages'[r] : <<r, packages'[r][i].package>> \in Apt!indexed'
      BY <1>1, <2>d
    <3> QED BY <3>1, <3>2, <3>3 DEF AptAgrees
  <2>1. CASE aptJob.kind \in {"create", "edit"}
    <3>1. packages' = packages
      BY <2>1 DEF Apt!Remember, Apt!list
    <3> QED BY <1>0, <1>1, <1>3, <2>0, <2>1, <3>1, AgreesStay
  <2>2. CASE aptJob.kind = "deleteRepository"
    <3>1. packages'[r] = <<>>
      BY <1>1, <1>a, <2>2 DEF Apt!Remember
    <3>2. \A k \in Apt!indexed : k[1] # r
      BY <1>1, <1>a, <2>2 DEF AptHomes, AptEmptied
    <3> QED BY <1>1, <3>1, <3>2 DEF AptAgrees, Once
  <2>3. CASE aptJob.kind \in {"upload", "add"}
    <3>1. packages'[r] = Apt!Stored(packages[r], x) /\ x \in Apt!Entry
      <4>1. packages' = [packages EXCEPT ![r] = Apt!Stored(@, x)]
        BY <1>a, <2>3 DEF Apt!Remember
      <4>2. x \in Apt!Entry
        BY <1>0, <1>a, <2>3, AptFields DEF EntryKinds
      <4> QED BY <1>1, <4>1, <4>2
    <3>2. PICK t \in {packages'[r]} :
             /\ t = packages'[r]
             /\ t \in Seq(Apt!Entry) /\ Once(t)
             /\ \A i \in DOMAIN t : t[i] = x \/ \E j \in DOMAIN packages[r] : packages[r][j] = t[i]
                                                       /\ packages[r][j].package # x.package
             /\ \E i \in DOMAIN t : t[i] = x
             /\ \A j \in DOMAIN packages[r] : packages[r][j].package # x.package =>
                  \E i \in DOMAIN t : t[i] = packages[r][j]
      <4> DEFINE u == Apt!Stored(packages[r], x)
      <4>1. /\ u \in Seq(Apt!Entry) /\ Once(u)
            /\ \A i \in DOMAIN u : u[i] = x \/ \E j \in DOMAIN packages[r] : packages[r][j] = u[i]
                                                       /\ packages[r][j].package # x.package
            /\ \E i \in DOMAIN u : u[i] = x
            /\ \A j \in DOMAIN packages[r] : packages[r][j].package # x.package =>
                  \E i \in DOMAIN u : u[i] = packages[r][j]
        BY <1>0, <1>1, <2>0, <3>1, StoredFacts
      <4> HIDE DEF u
      <4>2. packages'[r] = u
        BY <3>1 DEF u
      <4> QED BY <4>1, <4>2
    <3>3. <<r, x.package>> \in Apt!indexed /\ Same(<<r, x.package>>, x)
      BY <1>1, <1>6, <1>a, <2>3 DEF Agreement, AptTold, Target
    <3>4. \A p : p # x.package => ~Doubted(r, p)
      BY <1>3, <2>3
    <3>5. ASSUME NEW p \in Packages, <<r, p>> \in Apt!indexed
          PROVE  \E i \in DOMAIN t : t[i].package = p /\ Same(<<r, p>>, t[i])
      <4>1. CASE p = x.package
        BY <3>2, <3>3, <4>1
      <4>2. CASE p # x.package
        <5>1. PICK j \in DOMAIN packages[r] : packages[r][j].package = p /\ Same(<<r, p>>, packages[r][j])
          BY <2>b, <3>4, <3>5, <4>2
        <5>2. PICK i \in DOMAIN t : t[i] = packages[r][j]
          BY <3>2, <4>2, <5>1
        <5> QED BY <5>1, <5>2
      <4> QED BY <4>1, <4>2
    <3>6. \A i \in DOMAIN t : <<r, t[i].package>> \in Apt!indexed
      BY <2>c, <3>2, <3>3, <3>4
    <3> QED BY <2>d, <3>2, <3>5, <3>6
  <2>4. CASE aptJob.kind = "deletePackage"
    <3>0. PICK n \in {aptJob.index} : n = aptJob.index
      OBVIOUS
    <3>1. /\ packages'[r] = Apt!Erased(packages[r], n)
          /\ n \in DOMAIN packages[r] /\ packages[r][n] = x
      <4>1. packages' = [packages EXCEPT ![r] = Apt!Erased(@, n)]
        BY <1>a, <2>4, <3>0 DEF Apt!Remember
      <4>2. n \in DOMAIN packages[r] /\ packages[r][n] = x
        BY <1>a, <2>4, <3>0 DEF AptStored, AptTyped, Agreement, AptTold
      <4> QED BY <1>1, <4>1, <4>2
    <3>2. PICK t \in {packages'[r]} :
             /\ t = packages'[r] /\ Once(t)
             /\ \A i \in DOMAIN t : \E j \in DOMAIN packages[r] :
                    packages[r][j] = t[i] /\ packages[r][j].package # x.package
             /\ \A j \in DOMAIN packages[r] : packages[r][j].package # x.package =>
                  \E i \in DOMAIN t : t[i] = packages[r][j]
      <4> DEFINE u == Apt!Erased(packages[r], n)
      <4>1. /\ Once(u)
            /\ \A i \in DOMAIN u : \E j \in DOMAIN packages[r] :
                    packages[r][j] = u[i] /\ packages[r][j].package # x.package
            /\ \A j \in DOMAIN packages[r] : packages[r][j].package # x.package =>
                  \E i \in DOMAIN u : u[i] = packages[r][j]
        BY <1>0, <1>1, <2>0, <3>1, ErasedFacts
      <4> HIDE DEF u
      <4>2. packages'[r] = u
        BY <3>1 DEF u
      <4> QED BY <4>1, <4>2
    <3>3. <<r, x.package>> \notin Apt!indexed
      BY <1>1, <1>6, <1>a, <2>4 DEF Agreement, AptTold, Target
    <3>4. \A p : p # x.package => ~Doubted(r, p)
      BY <1>3, <2>4
    <3>5. ASSUME NEW p \in Packages, <<r, p>> \in Apt!indexed
          PROVE  \E i \in DOMAIN t : t[i].package = p /\ Same(<<r, p>>, t[i])
      <4>1. PICK j \in DOMAIN packages[r] : packages[r][j].package = p /\ Same(<<r, p>>, packages[r][j])
        BY <2>b, <3>3, <3>4, <3>5
      <4>2. PICK i \in DOMAIN t : t[i] = packages[r][j]
        BY <3>2, <3>3, <3>5, <4>1
      <4> QED BY <4>1, <4>2
    <3>6. \A i \in DOMAIN t : <<r, t[i].package>> \in Apt!indexed
      BY <2>c, <3>2, <3>4
    <3> QED BY <2>d, <3>2, <3>5, <3>6
  <2> QED BY <2>1, <2>2, <2>3, <2>4 DEF Apt!Remember
<1> QED BY <1>1, <1>2, <1>5, <1>6 DEF Agreement

\* A start lists the rows of the repositories that have one, and no others have rows.
LEMMA ListedRestarts == AptStored /\ AptHomes /\ aptFaults = 0 /\ Apt!Restart => Agreement'
<1> SUFFICES ASSUME AptStored, AptHomes, aptFaults = 0, Apt!Restart
             PROVE  Agreement'
  OBVIOUS
<1>0. Apt!TypeOK
  BY DEF AptStored, AptTyped
<1>1. /\ aptJob'.kind = "none" /\ UNCHANGED packageRows /\ Apt!indexed' = Apt!indexed
      /\ \A k \in Apt!indexed : k[1] \in repositoryRows
  BY DEF Apt!Restart, Apt!Rest, Apt!NoJob, Apt!table, Apt!indexed, AptHomes, AptRepositories
<1>2. AptTold' /\ \A s, p : ~Doubted(s, p)'
  BY <1>1 DEF AptTold, Doubted
<1>3. ASSUME NEW r \in Repositories
      PROVE  AptAgrees(r)'
  <2>1. packages'[r] = Apt!Loaded(r)
    BY DEF Apt!Restart
  <2>2. PICK t \in {packages'[r]} :
             /\ t = packages'[r] /\ Once(t)
             /\ r \in repositoryRows => \A p \in Packages : <<r, p>> \in Apt!indexed =>
                   \E i \in DOMAIN t : t[i].package = p
             /\ \A i \in DOMAIN t : <<r, t[i].package>> \in Apt!indexed /\ Same(<<r, t[i].package>>, t[i])
    BY <1>0, <2>1, LoadedFacts DEF Once, Same
  <2>3. \A p \in Packages : <<r, p>> \in Apt!indexed => r \in repositoryRows
    BY <1>1
  <2>4. \A p \in Packages : <<r, p>> \in Apt!indexed =>
            \E i \in DOMAIN t : t[i].package = p /\ Same(<<r, p>>, t[i])
    BY <2>2, <2>3
  <2> QED BY <1>1, <2>2, <2>4 DEF AptAgrees, Once, Same
<1> QED BY <1>2, <1>3 DEF Agreement

\* Every step keeps the agreement, unless something fails.
LEMMA ListedStep ==
    ASSUME AptStored, AptHomes, AptListed, Apt!Next \/ UNCHANGED aptVars
    PROVE  AptListed'
<1> SUFFICES ASSUME aptFaults' = 0
             PROVE  Agreement'
  BY DEF AptListed, Agreement
<1>0. Apt!TypeOK /\ aptFaults \in Nat
  BY AptFields DEF AptStored, AptTyped
<1>1. ~Apt!Fault
  BY <1>0 DEF Apt!Fault
<1>2. aptFaults' = aptFaults => aptFaults = 0 /\ Agreement
  BY DEF AptListed, Agreement
<1>3. CASE UNCHANGED aptVars
  <2>1. aptFaults' = aptFaults /\ UNCHANGED <<packageRows, packages, diverged, aptJob, aptAt>>
    BY <1>3 DEF aptVars
  <2>2. Apt!indexed' = Apt!indexed
    BY <2>1 DEF Apt!indexed
  <2>3. AptTold'
    BY <1>2, <2>1, <2>2 DEF Agreement, AptTold, Target, Same
  <2>4. \A s, p : Doubted(s, p)' <=> Doubted(s, p)
    BY <2>1 DEF Doubted
  <2>5. ASSUME NEW s \in Repositories, s \notin diverged
        PROVE  AptAgrees(s)'
    BY <1>0, <1>2, <2>1, <2>2, <2>4, <2>5, AgreesStay DEF Agreement
  <2> QED BY <2>1, <2>3, <2>5 DEF Agreement
<1>4. CASE \E r \in Repositories :
                \/ Apt!CreateRepository(r) \/ Apt!DeleteRepository(r)
                \/ \E p \in Packages : Apt!Upload(r, p)
                \/ \E i \in Apt!Positions(packages[r]) : Apt!DeletePackage(r, i)
                \/ \E x \in Apt!Entry : x.id = 0 /\ Metadata(r, x)
  <2>1. aptFaults' = aptFaults
    BY <1>4 DEF Apt!CreateRepository, Apt!DeleteRepository, Apt!Upload, Apt!DeletePackage, Metadata,
           Apt!AddPackage, Apt!UpdatePackage, Apt!Write, Apt!Begin
  <2> QED BY <1>2, <1>4, <2>1, ListedBegins
<1>5. CASE \/ Apt!InsertRepository \/ Apt!DeleteRepositoryRow \/ Apt!RefuseMetadata \/ Apt!FilesRemoved
           \/ Apt!RemoveOld \/ Apt!Rename \/ Apt!RemoveFile
           \/ \E gone \in Apt!FileNames : Apt!RemoveFiles(gone)
  <2>1. aptFaults' = aptFaults
    BY <1>5 DEF Apt!InsertRepository, Apt!DeleteRepositoryRow, Apt!RefuseMetadata, Apt!FilesRemoved, Apt!RemoveOld,
       Apt!Rename, Apt!RemoveFile, Apt!RemoveFiles
  <2> QED BY <1>2, <1>5, <2>1, ListedElse
<1>6. CASE Apt!DeletePackages \/ Apt!Upsert \/ Apt!DeleteRow
  <2>1. aptFaults' = aptFaults
    BY <1>6 DEF Apt!DeletePackages, Apt!Upsert, Apt!DeleteRow
  <2> QED BY <1>2, <1>6, <2>1, ListedDeletesPackages, ListedUpserts, ListedDeletesRow
<1>7. CASE Apt!Remember \/ Apt!Restart
  <2>1. aptFaults' = aptFaults
    BY <1>7 DEF Apt!Remember, Apt!Restart
  <2> QED BY <1>2, <1>7, <2>1, ListedRemembers, ListedRestarts
<1>8. CASE Apt!Skip \/ Apt!Fail \/ Apt!RestartBlind
  BY <1>1, <1>8 DEF Apt!Skip, Apt!Fail, Apt!RestartBlind
<1> QED BY <1>3, <1>4, <1>5, <1>6, <1>7, <1>8, AptNext

\* A list that agrees has as many entries as there are rows.
LEMMA AptCounted ==
    ASSUME Apt!TypeOK, aptAt = "idle", NEW r \in Repositories, AptAgrees(r)
    PROVE  Len(packages[r]) = Apt!Cardinality({k \in Apt!indexed : k[1] = r})
<1> DEFINE S == {k \in Apt!indexed : k[1] = r}
           n == Len(packages[r])
           f == [i \in 1 .. n |-> <<r, packages[r][i].package>>]
<1>1. /\ n \in Nat /\ DOMAIN packages[r] = 1 .. n
      /\ \A i \in 1 .. n : packages[r][i].package \in Packages
      /\ \A k \in Apt!indexed : k = <<k[1], k[2]>> /\ k[2] \in Packages
  <2>2. packages[r] \in Seq(Apt!Entry)
    BY AptFields
  <2>3. n \in Nat /\ DOMAIN packages[r] = 1 .. n
    BY <2>2
  <2> QED BY <2>3, AptFields
<1>2. \A s, p : ~Doubted(s, p)
  <2>1. aptJob.kind = "none"
    BY AptFields
  <2> QED BY <2>1 DEF Doubted
<1>3. \A i \in 1 .. n : f[i] \in S
  BY <1>1, <1>2 DEF AptAgrees
<1>4. \A i, j \in 1 .. n : f[i] = f[j] => i = j
  BY <1>1 DEF AptAgrees, Once
<1>5. ASSUME NEW k \in S
      PROVE  \E i \in 1 .. n : f[i] = k
  <2>1. k \in Apt!indexed /\ k = <<r, k[2]>> /\ k[2] \in Packages
    BY <1>1
  <2>2. \E i \in DOMAIN packages[r] : packages[r][i].package = k[2]
    BY <1>2, <2>1 DEF AptAgrees
  <2> QED BY <1>1, <2>1, <2>2
<1>6. f \in Bijection(1 .. n, S)
  <2>1. f \in [1 .. n -> S]
    BY <1>3
  <2> HIDE DEF f, S, n
  <2>2. f \in Injection(1 .. n, S) /\ f \in Surjection(1 .. n, S)
    BY <1>4, <1>5, <2>1 DEF Injection, IsInjective, Surjection
  <2> QED BY <2>2 DEF Bijection
<1>7. Cardinality(S) = n
  <2> HIDE DEF f, S, n
  <2>1. ExistsBijection(1 .. n, S)
    BY <1>6 DEF ExistsBijection
  <2> QED BY <1>1, <2>1, FS_CountingElements
<1> QED BY <1>7, AptCardinality

\* What the invariant is for.
LEMMA AptKept == AptStored /\ AptHomes /\ AptListed => AptSound
<1> SUFFICES ASSUME AptStored, AptHomes, AptListed
             PROVE  AptSound
  OBVIOUS
<1>1. Apt!TypeOK /\ AptRows
  BY DEF AptStored, AptTyped
<1>2. Apt!UploadsServed
  <2> SUFFICES ASSUME NEW k \in served, Apt!PathOf(k[1], k[2]) \notin claimed
               PROVE  /\ k \in Apt!indexed /\ packageRows[k].path \in Apt!Paths
                      /\ pool[packageRows[k].path] = packageRows[k].sum
    BY DEF Apt!UploadsServed
  <2>1. k \in Uploaded /\ pool[Apt!PathOf(k[1], k[2])] = packageRows[k].sum
    BY <1>1 DEF AptRows, Uploaded
  <2>2. packageRows[k].path = Apt!PathOf(k[1], k[2])
    BY <1>1, <2>1 DEF AptRows, Own
  <2>3. Apt!PathOf(k[1], k[2]) \in Apt!Paths
    BY <1>1, <2>1, AptFields, PathTypes DEF Uploaded
  <2> QED BY <2>1, <2>2, <2>3 DEF Uploaded
<1>3. Apt!IndexedHasFile
  BY <1>1 DEF AptRows, Own, Uploaded, Apt!IndexedHasFile, Apt!None
<1>4. Apt!PackagesHaveRepository
  BY DEF AptHomes, AptRepositories, Apt!PackagesHaveRepository
<1>5. ASSUME aptAt = "idle", aptFaults = 0
      PROVE  /\ repositories = repositoryRows
             /\ \A r \in repositoryRows \ diverged :
                  /\ Len(packages[r]) = Apt!Cardinality({k \in Apt!indexed : k[1] = r})
                  /\ \A k \in Apt!indexed : k[1] = r =>
                       \E i \in Apt!Positions(packages[r]) :
                           /\ packages[r][i].package = k[2]
                           /\ packages[r][i].file = packageRows[k].file
                           /\ packages[r][i].path = packageRows[k].path
                           /\ packages[r][i].sum = packageRows[k].sum
  <2>1. aptJob.kind = "none"
    BY <1>1, <1>5, AptFields
  <2>2. repositories = repositoryRows
    BY <1>5, <2>1 DEF AptHomes, AptRepositories
  <2>3. ASSUME NEW r \in repositoryRows \ diverged
        PROVE  /\ Len(packages[r]) = Apt!Cardinality({k \in Apt!indexed : k[1] = r})
               /\ \A k \in Apt!indexed : k[1] = r =>
                       \E i \in Apt!Positions(packages[r]) :
                           /\ packages[r][i].package = k[2]
                           /\ packages[r][i].file = packageRows[k].file
                           /\ packages[r][i].path = packageRows[k].path
                           /\ packages[r][i].sum = packageRows[k].sum
    <3>1. r \in Repositories /\ AptAgrees(r)
      BY <1>1, <1>5, <2>3 DEF AptListed, Apt!TypeOK
    <3>2. Len(packages[r]) = Apt!Cardinality({k \in Apt!indexed : k[1] = r})
      BY <1>1, <1>5, <3>1, AptCounted
    <3>3. DOMAIN packages[r] = Apt!Positions(packages[r])
      <4>1. packages[r] \in Seq(Apt!Entry)
        BY <1>1, <3>1, AptFields
      <4> QED BY <4>1 DEF Apt!Positions
    <3>4. ASSUME NEW k \in Apt!indexed, k[1] = r
          PROVE  \E i \in Apt!Positions(packages[r]) :
                     /\ packages[r][i].package = k[2]
                     /\ packages[r][i].file = packageRows[k].file
                     /\ packages[r][i].path = packageRows[k].path
                     /\ packages[r][i].sum = packageRows[k].sum
      <4>1. k = <<r, k[2]>> /\ k[2] \in Packages
        BY <1>1, <3>4, AptFields
      <4>2. ~Doubted(r, k[2])
        BY <2>1 DEF Doubted
      <4>3. \E i \in DOMAIN packages[r] : packages[r][i].package = k[2] /\ Same(<<r, k[2]>>, packages[r][i])
        BY <3>1, <3>4, <4>1, <4>2 DEF AptAgrees
      <4> QED BY <3>3, <4>1, <4>3 DEF Same
    <3> QED BY <3>2, <3>4
  <2> QED BY <2>2, <2>3
<1> QED BY <1>2, <1>3, <1>4, <1>5 DEF AptSound, Apt!ListIsIndex

-----------------------------------------------------------------------------
(***************************************************************************)
(* What no component and no metadata matters to: rows lie in repositories  *)
(* that have one.  A removal takes the packages before the    *)
(* repository, and nothing else is in hand meanwhile.                      *)
(***************************************************************************)
\* The first state has neither.
LEMMA AptHomesStart == Apt!Init => AptHomes
<1> SUFFICES ASSUME Apt!Init
             PROVE  AptHomes
  OBVIOUS
<1>1. packageRows = <<>> /\ DOMAIN packageRows = {}
  BY DEF Apt!Init
<1>2. aptAt = "idle" /\ aptJob.kind = "none"
  BY DEF Apt!Init, Apt!NoJob
<1> QED BY <1>1, <1>2 DEF AptHomes, AptEmptied, AptRepositories, EntryKinds, Apt!Init, Apt!indexed

\* A request that begins, a statement, a fault and a start keep rows in their repositories.
LEMMA AptHomesStep == AptTyped /\ AptHomes /\ (Apt!Next \/ UNCHANGED aptVars) => AptHomes'
<1> SUFFICES ASSUME AptTyped, AptHomes, Apt!Next \/ UNCHANGED aptVars, aptFaults' = 0
             PROVE  (AptRepositories /\ AptEmptied)'
  BY DEF AptHomes
<1> USE DEF EntryKinds
<1>0. Apt!TypeOK /\ AptPhases /\ aptFaults \in Nat
  BY AptFields DEF AptTyped
<1>a. ~Apt!Fault
  BY <1>0 DEF Apt!Fault
<1>b. aptFaults' = aptFaults => aptFaults = 0 /\ AptRepositories /\ AptEmptied
  BY DEF AptHomes
<1>c. \A S : DOMAIN Apt!Restrict(packageRows, S) = S
  BY DEF Apt!Restrict
<1>1. CASE UNCHANGED aptVars
  BY <1>b, <1>1 DEF aptVars, AptRepositories, AptEmptied, Apt!indexed
\* At rest the list has the repositories that have a row, and a request is of one of them.
<1>2. ASSUME NEW r \in Repositories,
             \/ Apt!CreateRepository(r) \/ Apt!DeleteRepository(r)
             \/ \E p \in Packages : Apt!Upload(r, p)
             \/ \E i \in Apt!Positions(packages[r]) : Apt!DeletePackage(r, i)
             \/ \E x \in Apt!Entry : x.id = 0 /\ Metadata(r, x)
      PROVE  (AptRepositories /\ AptEmptied)'
  <2>1. /\ aptAt = "idle" /\ UNCHANGED <<repositoryRows, packageRows, repositories, aptFaults>>
        /\ \/ aptAt' = "insertRepository" /\ aptJob'.kind = "create"
           \/ /\ aptAt' = "deletePackages" /\ aptJob'.kind = "deleteRepository" /\ aptJob'.repository = r
              /\ r \in repositories
           \/ /\ aptAt' \in {"removeOld", "upsert", "deleteRow"} /\ aptJob'.kind \in EntryKinds
              /\ aptJob'.repository = r /\ r \in repositories \cup repositoryRows
    <3>1. CASE Apt!CreateRepository(r) \/ Apt!DeleteRepository(r)
      BY <3>1 DEF Apt!CreateRepository, Apt!DeleteRepository, Apt!Begin, Apt!table
    <3>2. ASSUME NEW p \in Packages, Apt!Upload(r, p)
          PROVE  /\ aptAt = "idle" /\ UNCHANGED <<repositoryRows, packageRows, repositories, aptFaults>>
                 /\ aptAt' = "removeOld" /\ aptJob'.kind \in EntryKinds
                 /\ aptJob'.repository = r /\ r \in repositories \cup repositoryRows
      BY <3>2 DEF Apt!Upload, Apt!Write, Apt!Begin, Apt!table
    <3>3. ASSUME NEW i \in Apt!Positions(packages[r]), Apt!DeletePackage(r, i)
          PROVE  /\ aptAt = "idle" /\ UNCHANGED <<repositoryRows, packageRows, repositories, aptFaults>>
                 /\ aptAt' = "deleteRow" /\ aptJob'.kind \in EntryKinds
                 /\ aptJob'.repository = r /\ r \in repositories \cup repositoryRows
      BY <3>3 DEF Apt!DeletePackage, Apt!Begin, Apt!table
    <3>4. ASSUME NEW x \in Apt!Entry, Metadata(r, x)
          PROVE  /\ aptAt = "idle" /\ UNCHANGED <<repositoryRows, packageRows, repositories, aptFaults>>
                 /\ aptAt' = "upsert" /\ aptJob'.kind \in EntryKinds
                 /\ aptJob'.repository = r /\ r \in repositories \cup repositoryRows
      BY <3>4 DEF Metadata, Apt!AddPackage, Apt!UpdatePackage, Apt!Write, Apt!Begin, Apt!table
    <3> QED BY <1>2, <3>1, <3>2, <3>3, <3>4
  <2>2. AptRepositories /\ repositoryRows = repositories
    BY <1>0, <1>b, <2>1, AptFields DEF AptRepositories
  <2> QED BY <2>1, <2>2 DEF AptRepositories, AptEmptied, Apt!indexed
<1>3. CASE Apt!InsertRepository
  <2>1. /\ aptJob.kind = "create" /\ aptAt' = "remember" /\ aptJob' = aptJob
        /\ repositoryRows' = repositoryRows \cup {aptJob.repository}
        /\ UNCHANGED <<packageRows, repositories, aptFaults>> /\ aptAt = "insertRepository"
    BY <1>0, <1>3 DEF AptPhases, Apt!InsertRepository, Apt!Go, Apt!list
  <2> QED BY <1>b, <2>1 DEF AptRepositories, AptEmptied, Apt!indexed
<1>4. CASE Apt!DeletePackages
  <2>1. /\ aptAt = "deletePackages" /\ aptAt' = "deleteRepository" /\ aptJob' = aptJob
        /\ aptJob.kind = "deleteRepository"
        /\ Apt!indexed' = {k \in Apt!indexed : k[1] # aptJob.repository}
        /\ UNCHANGED <<repositoryRows, repositories, aptFaults>>
    BY <1>0, <1>4, <1>c DEF AptPhases, Apt!DeletePackages, Apt!Go, Apt!list, Apt!indexed
  <2> QED BY <1>b, <2>1 DEF AptRepositories, AptEmptied
<1>5. CASE Apt!DeleteRepositoryRow
  <2>1. /\ aptAt = "deleteRepository" /\ aptJob.kind = "deleteRepository"
        /\ repositoryRows' = repositoryRows \ {aptJob.repository}
        /\ UNCHANGED <<packageRows, repositories, aptFaults>> /\ Apt!indexed' = Apt!indexed
    BY <1>0, <1>5 DEF AptPhases, Apt!DeleteRepositoryRow, Apt!list, Apt!indexed
  <2>2. aptJob.repository \in repositoryRows /\ repositoryRows = repositories
        /\ \A k \in Apt!indexed : k[1] \in repositoryRows /\ k[1] # aptJob.repository
    BY <1>b, <2>1 DEF AptRepositories, AptEmptied
  <2>3. aptAt' = "removeFiles" /\ aptJob' = aptJob
    BY <1>5, <2>2 DEF Apt!DeleteRepositoryRow, Apt!Go
  <2> QED BY <2>1, <2>2, <2>3 DEF AptRepositories, AptEmptied
<1>6. CASE Apt!Upsert
  <2>1. aptJob.kind \in {"upload", "add", "edit"} /\ aptAt = "upsert"
    BY <1>0, <1>6 DEF AptPhases, Apt!Upsert
  <2>2. aptJob'.kind = aptJob.kind /\ aptJob'.repository = aptJob.repository
    <3>1. aptJob \in [kind : {"upload", "add", "edit"}, repository : Repositories, entry : Apt!Entry]
      BY <1>0, <2>1, AptFields DEF Apt!Job
    <3>2. \E id : aptJob' = [aptJob EXCEPT !.entry.id = id]
      BY <1>6 DEF Apt!Upsert
    <3> QED BY <3>1, <3>2
  <2>3. /\ aptAt' = "remember" /\ UNCHANGED <<repositoryRows, repositories, aptFaults>>
        /\ Apt!indexed' = Apt!indexed \cup {<<aptJob.repository, aptJob.entry.package>>}
    BY <1>6 DEF Apt!Upsert, Apt!list, Apt!indexed
  <2>4. AptRepositories /\ aptJob.repository \in repositoryRows /\ repositoryRows = repositories
    BY <1>b, <2>1, <2>3 DEF AptRepositories
  <2> QED BY <2>1, <2>2, <2>3, <2>4 DEF AptRepositories, AptEmptied
<1>7. CASE Apt!DeleteRow
  <2>1. /\ Apt!indexed' \subseteq Apt!indexed /\ aptAt = "deleteRow" /\ aptJob.kind = "deletePackage"
        /\ UNCHANGED <<repositoryRows, repositories, aptFaults>>
    BY <1>0, <1>7, <1>c DEF AptPhases, Apt!DeleteRow, Apt!list, Apt!indexed
  <2>2. Apt!Rest \/ (aptAt' = "removeFile" /\ aptJob' = aptJob)
    BY <1>7 DEF Apt!DeleteRow, Apt!Go
  <2> QED BY <1>b, <2>1, <2>2 DEF AptRepositories, AptEmptied, Apt!Rest, Apt!NoJob
<1>7a. CASE Apt!RefuseMetadata
  <2>1. /\ aptJob' = aptJob /\ aptJob.kind \in {"add", "edit"} /\ aptAt = "upsert" /\ aptAt' = "remember"
        /\ UNCHANGED <<repositoryRows, packageRows, repositories, aptFaults>>
    BY <1>7a DEF Apt!RefuseMetadata, Apt!Go, Apt!table, Apt!list
  <2> QED BY <1>b, <2>1 DEF AptRepositories, AptEmptied, Apt!indexed
<1>8. CASE Apt!RemoveOld \/ Apt!Rename \/ Apt!RemoveFile \/ Apt!FilesRemoved
  <2>1. /\ aptJob' = aptJob /\ UNCHANGED <<repositoryRows, packageRows, repositories, aptFaults>>
        /\ \/ aptAt \in {"removeOld", "rename"} /\ aptJob.kind = "upload" /\ aptAt' \in {"rename", "upsert"}
           \/ aptAt = "removeFile" /\ aptJob.kind = "deletePackage" /\ aptAt' = "remember"
           \/ aptAt = "removeFiles" /\ aptJob.kind = "deleteRepository" /\ aptAt' = "remember"
    BY <1>0, <1>8 DEF AptPhases, Apt!RemoveOld, Apt!Rename, Apt!RemoveFile, Apt!FilesRemoved, Apt!Go,
       Apt!table, Apt!list
  <2> QED BY <1>b, <2>1 DEF AptRepositories, AptEmptied, Apt!indexed
<1>9. ASSUME NEW path \in Apt!FileNames, Apt!RemoveFiles(path)
      PROVE  (AptRepositories /\ AptEmptied)'
  <2>1. /\ aptAt = "removeFiles" /\ aptAt' = aptAt /\ aptJob.kind = "deleteRepository"
        /\ UNCHANGED <<repositoryRows, packageRows, repositories, aptFaults>>
    BY <1>0, <1>9 DEF AptPhases, Apt!RemoveFiles, Apt!table, Apt!list
  <2>2. aptJob'.kind = aptJob.kind /\ aptJob'.repository = aptJob.repository
    <3>1. aptJob \in [kind : {"deleteRepository"}, repository : Repositories, paths : SUBSET Apt!FileNames]
      BY <1>0, <2>1, AptFields DEF Apt!Job
    <3>2. \E S : aptJob' = [aptJob EXCEPT !.paths = S]
      BY <1>9 DEF Apt!RemoveFiles
    <3> QED BY <3>1, <3>2
  <2> QED BY <1>b, <2>1, <2>2 DEF AptRepositories, AptEmptied, Apt!indexed
<1>10. CASE Apt!Remember
  <2>1. /\ aptAt = "remember" /\ aptAt' = "idle" /\ aptJob'.kind = "none"
        /\ UNCHANGED <<repositoryRows, packageRows, aptFaults>>
    BY <1>10 DEF Apt!Remember, Apt!Rest, Apt!NoJob, Apt!table
  <2>2. repositoryRows = repositories'
    <3>1. AptRepositories
      BY <1>b, <2>1
    <3>2. CASE aptJob.kind \in {"create", "deleteRepository"}
      BY <1>10, <2>1, <3>1, <3>2 DEF Apt!Remember, AptRepositories
    <3>3. CASE aptJob.kind \in EntryKinds
      <4>1. repositoryRows = repositories /\ aptJob.repository \in repositoryRows
        BY <3>1, <3>3 DEF AptRepositories
      <4>2. repositories' = repositories \/ repositories' = repositories \cup {aptJob.repository}
        BY <1>10, <3>3 DEF Apt!Remember, Apt!list
      <4> QED BY <4>1, <4>2
    <3> QED BY <1>10, <3>2, <3>3 DEF Apt!Remember
  <2>3. \A k \in Apt!indexed : k[1] \in repositoryRows
    BY <1>b, <2>1 DEF AptRepositories
  <2> QED BY <2>1, <2>2, <2>3 DEF AptRepositories, AptEmptied, Apt!indexed
<1>11. CASE Apt!Skip \/ Apt!Fail \/ Apt!RestartBlind
  BY <1>a, <1>11 DEF Apt!Skip, Apt!Fail, Apt!RestartBlind
\* What a start reads is what has a row, wherever the request before it was cut.
<1>12. CASE Apt!Restart
  <2>1. /\ aptAt' = "idle" /\ aptJob'.kind = "none" /\ repositories' = repositoryRows
        /\ UNCHANGED <<repositoryRows, packageRows, aptFaults>>
    BY <1>12 DEF Apt!Restart, Apt!Rest, Apt!NoJob, Apt!table
  <2>2. \A k \in Apt!indexed : k[1] \in repositoryRows
    BY <1>b, <2>1 DEF AptRepositories
  <2> QED BY <2>1, <2>2 DEF AptRepositories, AptEmptied, Apt!indexed
<1> QED BY <1>1, <1>2, <1>3, <1>4, <1>5, <1>6, <1>7, <1>7a, <1>8, <1>9, <1>10, <1>11, <1>12, AptNext

-----------------------------------------------------------------------------
(***************************************************************************)
(* Together.                                                               *)
(***************************************************************************)
\* The store of the instance takes its own steps, and the others none.
LEMMA OneRuns ==
    ASSUME [StoresNext]_storesVars
    PROVE  /\ [Next]_vars
           /\ Apt!Next \/ UNCHANGED aptVars
           /\ Vcs!Next \/ UNCHANGED vcsVars
           /\ Proxy!Next \/ UNCHANGED proxyVars
BY DEF StoresNext, storesVars

\* A repository whose creation was acknowledged stands until its removal begins,
\* and has what was pushed to it, whatever threads repair, push and fail at once.
THEOREM GitAlwaysStands == StoresSpec => []VcsSound
<1>1. StoresInit => VcsIInv
  BY VcsStarts DEF StoresInit
<1>2. VcsIInv /\ [StoresNext]_storesVars => VcsIInv'
  BY OneRuns, VcsStep
<1>3. VcsIInv => VcsSound
  BY VcsKept DEF VcsSound
<1> QED BY <1>1, <1>2, <1>3, PTL DEF StoresSpec

\* However many threads fetched a file at once, what is left in the cache is the
\* file of upstream with a block of local packages behind an index, unless the one
\* that emptied it last was cut short.
THEOREM FilledAlwaysWhole == StoresSpec => []FilledWhole
<1>1. StoresInit => ProxyIInv
  BY ProxyStarts DEF StoresInit
<1>2. ProxyIInv /\ [StoresNext]_storesVars => ProxyIInv'
  BY OneRuns, ProxyStep
<1>3. ProxyIInv => FilledWhole
  BY ProxyWhole DEF FilledWhole
<1> QED BY <1>1, <1>2, <1>3, PTL DEF StoresSpec

\* Whatever the requests, the metadata that clients send, the faults and the restarts,
\* for repositories with components of their own: an acknowledged upload is served
\* with the checksum of its row until it is replaced or withdrawn, what uploads put in
\* the indexes has its artifact unless an upload was replacing it, both unless
\* metadata named that artifact; and without faults no package outlives its repository
\* and the console lists what the indexes do of every repository whose list no client
\* parted from the rows.
THEOREM AptAlwaysSound ==
    ASSUME AptApart
    PROVE  StoresSpec => []AptSound
<1> DEFINE I == AptStored /\ AptHomes /\ AptListed
<1>1. StoresInit => I
  BY AptStarts, AptHomesStart DEF StoresInit
<1>2. I /\ [StoresNext]_storesVars => I'
  <2>1. AptTyped => Apt!TypeOK
    BY DEF AptTyped
  <2> QED BY <2>1, OneRuns, StoredStep, ListedStep, AptHomesStep DEF AptStored
<1>3. I => AptSound
  BY AptKept
<1> HIDE DEF I
<1> QED BY <1>1, <1>2, <1>3, PTL DEF StoresSpec

\* Whatever is in the way of the deletion of a repository, without faults no package
\* outlives it, with shared components too.
THEOREM PackagesAlwaysHaveRepository == StoresSpec => []Apt!PackagesHaveRepository
<1> DEFINE I == AptTyped /\ AptHomes
<1>1. StoresInit => I
  BY AptStarts, AptHomesStart DEF StoresInit, AptStored
<1>2. I /\ [StoresNext]_storesVars => I'
  BY OneRuns, AptTypesStep, AptHomesStep
<1>3. I => Apt!PackagesHaveRepository
  BY DEF AptHomes, AptRepositories, Apt!PackagesHaveRepository
<1> HIDE DEF I
<1> QED BY <1>1, <1>2, <1>3, PTL DEF StoresSpec

\* Every store's state keeps its types, with shared components too.
THEOREM StoresTypesOK == StoresSpec => []TypesOK
<1> DEFINE I == IInv /\ AptTyped /\ VcsIInv /\ ProxyIInv
<1>1. StoresInit => I
  BY InitIInv, AptStarts, VcsStarts, ProxyStarts DEF StoresInit, AptStored
<1>2. I /\ [StoresNext]_storesVars => I'
  BY OneRuns, NextTypeOK, NextNumbered, NextRevocation, NextIssue, NextCounted, AptTypesStep, VcsStep, ProxyStep DEF IInv
<1>3. I => TypesOK
  BY DEF TypesOK, IInv, AptTyped, VcsIInv, ProxyIInv
<1> HIDE DEF I
<1> QED BY <1>1, <1>2, <1>3, PTL DEF StoresSpec
===============================================================================
