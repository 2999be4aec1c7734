----------------------------- MODULE VcsRepository -----------------------------
(***************************************************************************)
(* The Git repositories of the API: a row of PostgreSQL and a bare         *)
(* repository under the blob root for each (libs/vcs/src/repository.cpp).  *)
(*                                                                         *)
(* The console's requests are handled one at a time by the API's thread.   *)
(* Each request of a Git client has a thread of its own                    *)
(* (apps/api/git_smart_http.cpp), which makes the storage of a repository  *)
(* that has none before it hands the request to git.  Nothing locks a      *)
(* repository: row and storage are read, checked and changed one after the *)
(* other, by any of them, and the process may die in between.              *)
(*                                                                         *)
(* The settings of a repository and its tokens are left out, and a fetch   *)
(* changes nothing: a Git request here is a push.                          *)
(***************************************************************************)
EXTENDS Naturals

CONSTANTS
    Names,        \* of repositories
    Threads,      \* Git requests that may be handled at once
    MaxIds,       \* bound: repositories created
    MaxPushes,    \* bound: pushes accepted
    MaxFaults     \* bound: statements, file operations and runs of git that fail

VARIABLES
    rows,        \* vcs_repositories: the id under each name, or None
    storage,     \* what is under the path of each name
    at, job,     \* of each thread, its next operation and the repository it is for
    ids, pushes, faults,
    created,     \* ids whose creation was acknowledged
    doomed,      \* ids whose removal began
    acked        \* pushes that were acknowledged

counts == <<ids, pushes, faults>>
ghosts == <<created, doomed, acked>>
vars == <<rows, storage, at, job, counts, ghosts>>

None == 0
Ids == 1 .. MaxIds
Pushes == 1 .. MaxPushes

Api == "api"
All == Threads \cup {Api}

\* "part" is what a git init that was cut leaves: a directory, but no repository.
Storage == [state : {"none", "part", "ready"}, pushes : SUBSET Pushes]
NoStorage == [state |-> "none", pushes |-> {}]

\* storage_exists asks for a whole repository, std::filesystem::exists for anything.
StorageExists(n) == storage[n].state = "ready"
Exists(n) == storage[n].state # "none"

Job == [op : {"create", "repair", "remove", "push"}, name : Names, id : Ids \cup {None}]
NoJob == [op |-> "none"]

TypeOK ==
    /\ rows \in [Names -> Ids \cup {None}]
    /\ storage \in [Names -> Storage]
    /\ at \in [All -> {"idle", "insert", "repair", "check", "init", "finish", "configure",
                       "confirm", "push", "deleteRow", "removeAll"}]
    /\ job \in [All -> Job \cup {NoJob}]
    /\ \A t \in All : at[t] = "idle" <=> job[t] = NoJob
    /\ ids \in 0 .. MaxIds /\ pushes \in 0 .. MaxPushes /\ faults \in 0 .. MaxFaults
    /\ created \subseteq Ids /\ doomed \subseteq Ids
    /\ acked \subseteq [id : Ids, name : Names, push : Pushes]

Init ==
    /\ rows = [n \in Names |-> None] /\ storage = [n \in Names |-> NoStorage]
    /\ at = [t \in All |-> "idle"] /\ job = [t \in All |-> NoJob]
    /\ ids = 0 /\ pushes = 0 /\ faults = 0
    /\ created = {} /\ doomed = {} /\ acked = {}

-----------------------------------------------------------------------------
(***************************************************************************)
(* Requests.                                                               *)
(***************************************************************************)
Begin(t, j, phase) ==
    /\ at[t] = "idle"
    /\ job' = [job EXCEPT ![t] = j]
    /\ at' = [at EXCEPT ![t] = phase]

Go(t, phase) == at' = [at EXCEPT ![t] = phase] /\ UNCHANGED job
Rest(t) == at' = [at EXCEPT ![t] = "idle"] /\ job' = [job EXCEPT ![t] = NoJob]

\* A name whose path is taken is refused before the row is inserted (so is a
\* request past the bound).
Create(n) ==
    /\ ~Exists(n) /\ ids < MaxIds
    /\ Begin(Api, [op |-> "create", name |-> n, id |-> None], "insert")
    /\ UNCHANGED <<rows, storage, counts, ghosts>>

RefuseCreate(n) ==
    /\ at[Api] = "idle"
    /\ Exists(n) \/ ids = MaxIds
    /\ UNCHANGED vars

Insert ==
    LET n == job[Api].name IN
    /\ at[Api] = "insert"
    /\ IF rows[n] = None
       THEN /\ ids' = ids + 1
            /\ rows' = [rows EXCEPT ![n] = ids + 1]
            /\ job' = [job EXCEPT ![Api].id = ids + 1]
            /\ at' = [at EXCEPT ![Api] = "check"]
       ELSE Rest(Api) /\ UNCHANGED <<rows, ids>>
    /\ UNCHANGED <<storage, pushes, faults, ghosts>>

\* The console's repair, and its list of refs when the storage is missing.
RepairStorage(n) ==
    /\ rows[n] # None
    /\ Begin(Api, [op |-> "repair", name |-> n, id |-> rows[n]], "repair")
    /\ UNCHANGED <<rows, storage, counts, ghosts>>

Remove(n) ==
    /\ rows[n] # None
    /\ Begin(Api, [op |-> "remove", name |-> n, id |-> rows[n]], "removeAll")
    /\ doomed' = doomed \cup {rows[n]}
    /\ UNCHANGED <<rows, storage, counts, created, acked>>

\* A push to a name: the row, and whether the storage is there, are read once.
Handle(t, n) ==
    /\ t \in Threads
    /\ rows[n] # None
    /\ Begin(t, [op |-> "push", name |-> n, id |-> rows[n]],
             IF StorageExists(n) THEN "push" ELSE "repair")
    /\ UNCHANGED <<rows, storage, counts, ghosts>>

-----------------------------------------------------------------------------
(***************************************************************************)
(* Making the storage: repair_storage, create_repository_storage,          *)
(* configure_repository_storage.                                           *)
(***************************************************************************)
\* The row is read again, by its id.
ReadRow(t) ==
    LET n == job[t].name IN
    /\ at[t] = "repair"
    /\ IF rows[n] # job[t].id THEN Rest(t)
       ELSE Go(t, IF StorageExists(n) THEN "configure" ELSE "check")
    /\ UNCHANGED <<rows, storage, counts, ghosts>>

\* What an exception leads to: a creation is undone, the others just end.
\* Mutant: a repair that fails removes what it finds as well.
ThrowsAndCleans(t) ==
    IF job[t].op = "create" THEN Go(t, "deleteRow") ELSE Go(t, "removeAll")

Throws(t) ==
    IF job[t].op = "create" THEN Go(t, "deleteRow") ELSE Rest(t)

Check(t) ==
    /\ at[t] = "check"
    /\ IF Exists(job[t].name) THEN Throws(t) ELSE Go(t, "init")
    /\ UNCHANGED <<rows, storage, counts, ghosts>>

\* git init keeps what is there.
InitBegins(t) ==
    LET n == job[t].name IN
    /\ at[t] = "init"
    /\ storage' = IF Exists(n) THEN storage ELSE [storage EXCEPT ![n].state = "part"]
    /\ Go(t, "finish")
    /\ UNCHANGED <<rows, counts, ghosts>>

InitEnds(t) ==
    LET n == job[t].name IN
    /\ at[t] = "finish"
    /\ IF Exists(n)
       THEN storage' = [storage EXCEPT ![n].state = "ready"] /\ Go(t, "configure")
       ELSE Throws(t) /\ UNCHANGED storage
    /\ UNCHANGED <<rows, counts, ghosts>>

\* The storage is a repository now, unless somebody removed it.
Configure(t) ==
    LET j == job[t] IN
    /\ at[t] = "configure"
    /\ IF ~StorageExists(j.name) THEN Throws(t)
       ELSE IF j.op = "push" THEN Go(t, "confirm") ELSE Rest(t)
    /\ created' = IF j.op = "create" /\ StorageExists(j.name) THEN created \cup {j.id} ELSE created
    /\ UNCHANGED <<rows, storage, counts, doomed, acked>>

Confirm(t) ==
    LET n == job[t].name IN
    /\ at[t] = "confirm"
    /\ IF rows[n] = job[t].id /\ StorageExists(n) THEN Go(t, "push") ELSE Rest(t)
    /\ UNCHANGED <<rows, storage, counts, ghosts>>

-----------------------------------------------------------------------------
(***************************************************************************)
(* git http-backend works on the path, whatever has become of the row.     *)
(***************************************************************************)
Push(t) ==
    LET n == job[t].name IN
    /\ at[t] = "push"
    /\ IF StorageExists(n)
       THEN /\ pushes < MaxPushes
            /\ pushes' = pushes + 1
            /\ storage' = [storage EXCEPT ![n].pushes = @ \cup {pushes + 1}]
            /\ acked' = acked \cup {[id |-> job[t].id, name |-> n, push |-> pushes + 1]}
       ELSE UNCHANGED <<pushes, storage, acked>>
    /\ Rest(t)
    /\ UNCHANGED <<rows, ids, faults, created, doomed>>

(***************************************************************************)
(* A removal takes the storage and then the row, a creation that is undone *)
(* the row and then the storage.                                           *)
(***************************************************************************)
RemoveAll(t) ==
    /\ at[t] = "removeAll"
    /\ storage' = [storage EXCEPT ![job[t].name] = NoStorage]
    /\ IF job[t].op = "remove" THEN Go(t, "deleteRow") ELSE Rest(t)
    /\ UNCHANGED <<rows, counts, ghosts>>

DeleteRow ==
    LET n == job[Api].name IN
    /\ at[Api] = "deleteRow"
    /\ rows' = IF rows[n] = job[Api].id THEN [rows EXCEPT ![n] = None] ELSE rows
    /\ IF job[Api].op = "create" THEN Go(Api, "removeAll") ELSE Rest(Api)
    /\ UNCHANGED <<storage, counts, ghosts>>

-----------------------------------------------------------------------------
(***************************************************************************)
(* Failures.                                                               *)
(***************************************************************************)
Fault ==
    /\ faults < MaxFaults
    /\ faults' = faults + 1
    /\ UNCHANGED <<ids, pushes>>

\* A statement or a run of git fails.
Fails(t) ==
    /\ \/ at[t] \in {"init", "finish", "configure"} /\ Throws(t)
       \/ at[t] \in {"insert", "repair", "confirm", "push"} /\ Rest(t)
       \/ at[t] = "deleteRow" /\ IF job[t].op = "create" THEN Go(t, "removeAll") ELSE Rest(t)
    /\ Fault
    /\ UNCHANGED <<rows, storage, ghosts>>

\* A removal meets a file that it cannot remove: some of the rest is gone.
RemovalFails(t) ==
    /\ at[t] = "removeAll"
    /\ Exists(job[t].name)
    /\ \E state \in {"part", storage[job[t].name].state} :
         storage' = [storage EXCEPT ![job[t].name].state = state]
    /\ Rest(t)
    /\ Fault
    /\ UNCHANGED <<rows, ghosts>>

\* The API dies with all its threads and what they run.
Dies ==
    /\ at' = [t \in All |-> "idle"]
    /\ job' = [t \in All |-> NoJob]
    /\ Fault
    /\ UNCHANGED <<rows, storage, ghosts>>

-----------------------------------------------------------------------------
Next ==
    \/ \E n \in Names : Create(n) \/ RefuseCreate(n) \/ RepairStorage(n) \/ Remove(n)
    \/ \E t \in Threads, n \in Names : Handle(t, n)
    \/ Insert \/ DeleteRow
    \/ \E t \in All :
         \/ ReadRow(t) \/ Check(t) \/ InitBegins(t) \/ InitEnds(t) \/ Configure(t) \/ Confirm(t)
         \/ Push(t) \/ RemoveAll(t)
         \/ Fails(t) \/ RemovalFails(t)
    \/ Dies

Spec == Init /\ [][Next]_vars

-----------------------------------------------------------------------------
Standing == created \ doomed

\* A repository whose creation was acknowledged has its row and its storage
\* until its removal begins, whatever Git requests and repairs meet it.
CreatedStands ==
    \A id \in Standing : \E n \in Names : rows[n] = id /\ StorageExists(n)

\* A push that was acknowledged is in the storage of its repository as long
\* as that stands, also when it came while the repository was being created.
PushesKept ==
    \A a \in acked : a.id \in Standing => a.push \in storage[a.name].pushes
=============================================================================
