----------------------------- MODULE AptRepository -----------------------------
(***************************************************************************)
(* The APT repositories of the API: rows of PostgreSQL from which the      *)
(* signed indexes are rendered, artifacts under the blob root              *)
(* (libs/apt/src/repository.cpp), and the list of platform_state.cpp that  *)
(* the console shows and whose positions it names packages by.             *)
(*                                                                         *)
(* A repository is a distribution and a component, and the path of an      *)
(* artifact has the component but not the distribution: PathOf.  Requests  *)
(* are handled one at a time by one thread; at is the next statement or    *)
(* file operation, and the process may die before each.                    *)
(*                                                                         *)
(* A package is a name, version and architecture, as the number of its     *)
(* place among the rows.  The contents of a file, and the checksum and     *)
(* size an index states of it, are the number of the request they came     *)
(* with.                                                                   *)
(*                                                                         *)
(* An upload is of an artifact; metadata is what a client says of a        *)
(* package, and the API takes any file name, storage path and checksum,    *)
(* also the path of another package's artifact.                            *)
(***************************************************************************)
EXTENDS Naturals, Sequences, FiniteSets, Functions

CONSTANTS
    Repositories,
    Components,
    ComponentOf,    \* the component of each repository
    Packages,       \* numbers, in the order in which their rows are read
    Given,          \* bound: the <<file name, storage path, checksum>> that metadata gives
    MaxRequests,    \* bound: requests that write packages
    MaxFaults       \* bound: statements or file operations that fail

VARIABLES
    repositoryRows, packageRows,  \* repo_repositories, repo_packages
    ids,                          \* the last id the table gave
    pool,                         \* the artifacts
    repositories, packages,       \* the API's list
    at, job,                      \* the next operation and its request
    requests, faults,
    served,    \* uploads that were acknowledged, and neither replaced nor withdrawn
    torn,      \* artifacts removed by an upload that has not put the new one in place
    declared,  \* packages whose row says what a client said, not what an upload stored
    claimed,   \* artifacts that metadata named, other than a package's its own
    diverged   \* repositories whose list is not their rows, from a request of a client

table == <<repositoryRows, packageRows, ids>>
indexed == DOMAIN packageRows    \* what the indexes list, of repositories that have a row
list == <<repositories, packages>>
history == <<served, torn, declared, claimed, diverged>>
vars == <<table, pool, list, at, job, requests, faults, history>>

None == 0
Sums == 0 .. MaxRequests
Keys == Repositories \X Packages

\* Where an upload is stored, and a name under which the API stores nothing.
PathOf(r, p) == <<ComponentOf[r], p>>
Paths == Components \X Packages
Declared(p) == <<p>>
FileNames == Paths \cup {Declared(p) : p \in Packages}

Row == [id : Nat, file : FileNames, path : FileNames, sum : Sums]
\* The id is 0 where the list does not know it.
Entry == [package : Packages, id : Nat, file : FileNames, path : FileNames, sum : Sums]
Job == [kind : {"create"}, repository : Repositories]
  \cup [kind : {"deleteRepository"}, repository : Repositories, paths : SUBSET FileNames]
  \cup [kind : {"upload", "add", "edit"}, repository : Repositories, entry : Entry]
  \cup [kind : {"deletePackage"}, repository : Repositories, entry : Entry, index : Nat]
NoJob == [kind |-> "none"]

Phases == {"idle", "insertRepository", "deletePackages", "deleteRepository", "removeFiles",
           "removeOld", "rename", "upsert", "deleteRow", "removeFile", "remember"}

TypeOK ==
    /\ repositoryRows \subseteq Repositories
    /\ indexed \subseteq Keys /\ \A k \in indexed : packageRows[k] \in Row
    /\ ids \in Nat
    /\ pool \in [Paths -> Sums]
    /\ repositories \subseteq Repositories
    /\ packages \in [Repositories -> Seq(Entry)]
    /\ at \in Phases
    /\ job \in Job \cup {NoJob}
    /\ at = "idle" <=> job = NoJob
    /\ requests \in 0 .. MaxRequests /\ faults \in 0 .. MaxFaults
    /\ served \subseteq Keys
    /\ torn \subseteq Paths
    /\ declared \subseteq Keys /\ claimed \subseteq Paths /\ diverged \subseteq Repositories

Init ==
    /\ repositoryRows = {} /\ packageRows = <<>> /\ ids = 0
    /\ pool = [path \in Paths |-> None]
    /\ repositories = {} /\ packages = [r \in Repositories |-> <<>>]
    /\ at = "idle" /\ job = NoJob
    /\ requests = 0 /\ faults = 0
    /\ served = {} /\ torn = {} /\ declared = {} /\ claimed = {} /\ diverged = {}

-----------------------------------------------------------------------------
(***************************************************************************)
(* Requests, up to their first effect.                                     *)
(***************************************************************************)
Begin(j, phase) ==
    /\ at = "idle"
    /\ job' = j
    /\ at' = phase
    /\ UNCHANGED <<table, pool, repositories, faults, served, torn, declared>>

Go(phase) == at' = phase /\ UNCHANGED job
Rest == at' = "idle" /\ job' = NoJob

CreateRepository(r) ==
    /\ Begin([kind |-> "create", repository |-> r], "insertRepository")
    /\ UNCHANGED <<packages, requests, claimed, diverged>>

DeleteRepository(r) ==
    /\ r \in repositories
    /\ Begin([kind |-> "deleteRepository", repository |-> r,
              paths |-> {packageRows[k].path : k \in {l \in indexed : l[1] = r}}],
             "deletePackages")
    /\ UNCHANGED <<packages, requests, claimed, diverged>>

\* What a request writes comes under its number.
Write(kind, r, entry, phase) ==
    /\ requests < MaxRequests
    /\ requests' = requests + 1
    /\ Begin([kind |-> kind, repository |-> r, entry |-> entry], phase)

Upload(r, p) ==
    /\ r \in repositoryRows
    /\ Write("upload", r, [package |-> p, id |-> 0, file |-> PathOf(r, p), path |-> PathOf(r, p),
                           sum |-> requests + 1], "removeOld")
    /\ UNCHANGED <<packages, claimed, diverged>>

\* The artifacts that metadata names, unless it names its package's own and no more.
Claims(r, entry) ==
    IF entry.file = PathOf(r, entry.package) /\ entry.path = PathOf(r, entry.package) THEN {}
    ELSE {entry.file, entry.path} \cap Paths

\* Metadata: any file name, path (the file name if none) and checksum.
Said(p, file, path, sum) == [package |-> p, id |-> 0, file |-> file, path |-> path, sum |-> sum]

AddPackage(r, entry) ==
    /\ r \in repositories
    /\ Write("add", r, entry, "upsert")
    /\ claimed' = claimed \cup Claims(r, entry)
    /\ UNCHANGED <<packages, diverged>>

\* An edit by position, which may also change what identifies the package; the
\* row it had stays then.
UpdatePackage(r, i, entry) ==
    /\ r \in repositories
    /\ Write("edit", r, entry, "upsert")
    /\ packages' = [packages EXCEPT ![r][i] = entry]
    /\ claimed' = claimed \cup Claims(r, entry)
    /\ diverged' = IF entry.package = packages[r][i].package THEN diverged ELSE diverged \cup {r}

DeletePackage(r, i) ==
    /\ r \in repositories
    /\ Begin([kind |-> "deletePackage", repository |-> r, entry |-> packages[r][i], index |-> i],
             "deleteRow")
    /\ UNCHANGED <<packages, requests, claimed, diverged>>

-----------------------------------------------------------------------------
(***************************************************************************)
(* Statements.                                                             *)
(***************************************************************************)
InsertRepository ==
    /\ at = "insertRepository"
    /\ repositoryRows' = repositoryRows \cup {job.repository}
    /\ Go("remember")
    /\ UNCHANGED <<packageRows, ids, pool, list, requests, faults, history>>

DeletePackages ==
    /\ at = "deletePackages"
    /\ packageRows' = Restrict(packageRows, {k \in indexed : k[1] # job.repository})
    /\ served' = {k \in served : k[1] # job.repository}
    /\ Go("deleteRepository")
    /\ UNCHANGED <<repositoryRows, ids, pool, list, requests, faults, torn, declared, claimed, diverged>>

\* Without a row nothing was removed, and the request ends.
DeleteRepositoryRow ==
    /\ at = "deleteRepository"
    /\ repositoryRows' = repositoryRows \ {job.repository}
    /\ IF job.repository \in repositoryRows THEN Go("removeFiles") ELSE Rest
    /\ UNCHANGED <<packageRows, ids, pool, list, requests, faults, history>>

\* The row of a package: the id stays, what came with the request replaces the rest.
\* Mutant: a row that exists keeps its checksum.
RowKeepsSum(k, entry) ==
    [id   |-> IF k \in indexed THEN packageRows[k].id ELSE ids + 1,
     file |-> entry.file,
     path |-> entry.path,
     sum  |-> IF k \in indexed THEN packageRows[k].sum ELSE entry.sum]

RowOf(k, entry) ==
    [id   |-> IF k \in indexed THEN packageRows[k].id ELSE ids + 1,
     file |-> entry.file,
     path |-> entry.path,
     sum  |-> entry.sum]

\* Metadata that says what the row does leaves it an upload's.
Says(k, entry) ==
    /\ k \in indexed
    /\ packageRows[k].file = entry.file
    /\ packageRows[k].path = entry.path
    /\ packageRows[k].sum = entry.sum

Upsert ==
    LET k == <<job.repository, job.entry.package>>
        row == RowOf(k, job.entry)
        metadata == job.kind # "upload"
    IN  /\ at = "upsert"
        /\ packageRows' = [l \in indexed \cup {k} |-> IF l = k THEN row ELSE packageRows[l]]
        /\ ids' = IF k \in indexed THEN ids ELSE ids + 1
        /\ job' = [job EXCEPT !.entry.id = IF metadata THEN 0 ELSE row.id]
        /\ at' = "remember"
        /\ served' = IF metadata /\ ~Says(k, job.entry) THEN served \ {k} ELSE served
        /\ declared' = CASE ~metadata -> declared \ {k}
                         [] metadata /\ Says(k, job.entry) -> declared
                         [] OTHER -> declared \cup {k}
        /\ UNCHANGED <<repositoryRows, pool, list, requests, faults, torn, claimed, diverged>>

\* PostgreSQL refuses what a client says, a size beyond bigint or control data
\* that is no JSON, and the list takes it all the same.
RefuseMetadata ==
    /\ at = "upsert" /\ job.kind \in {"add", "edit"}
    /\ diverged' = diverged \cup {job.repository}
    /\ Go("remember")
    /\ UNCHANGED <<table, pool, list, requests, faults, served, torn, declared, claimed>>

\* By id, or by file name when the entry has none: then it may be the row of
\* another package that goes, or more than one.  Without a row the request ends.
DeleteRow ==
    LET k == <<job.repository, job.entry.package>>
        gone == {l \in indexed :
                   IF job.entry.id # 0
                   THEN packageRows[l].id = job.entry.id
                   ELSE l[1] = job.repository /\ packageRows[l].file = job.entry.file}
    IN  /\ at = "deleteRow"
        /\ packageRows' = Restrict(packageRows, indexed \ gone)
        /\ served' = IF gone = {} THEN served ELSE served \ {k}
        /\ diverged' = IF gone \subseteq {k} THEN diverged ELSE diverged \cup {job.repository}
        /\ IF gone # {} THEN Go("removeFile") ELSE Rest
        /\ UNCHANGED <<repositoryRows, ids, pool, list, requests, faults, torn, declared, claimed>>

-----------------------------------------------------------------------------
(***************************************************************************)
(* Files.                                                                  *)
(***************************************************************************)
\* The artifact of an upload takes the place of another in two steps.
RemoveOld ==
    /\ at = "removeOld"
    /\ pool' = [pool EXCEPT ![job.entry.path] = None]
    /\ torn' = torn \cup {job.entry.path}
    /\ served' = served \ {<<job.repository, job.entry.package>>}
    /\ Go("rename")
    /\ UNCHANGED <<table, list, requests, faults, declared, claimed, diverged>>

Rename ==
    /\ at = "rename"
    /\ pool' = [pool EXCEPT ![job.entry.path] = job.entry.sum]
    /\ torn' = torn \ {job.entry.path}
    /\ Go("upsert")
    /\ UNCHANGED <<table, list, requests, faults, served, declared, claimed, diverged>>

RemoveFile ==
    /\ at = "removeFile"
    /\ pool' = [path \in Paths |-> IF path = job.entry.path THEN None ELSE pool[path]]
    /\ Go("remember")
    /\ UNCHANGED <<table, list, requests, faults, history>>

\* The artifacts of a repository go one after the other.
RemoveFiles(path) ==
    /\ at = "removeFiles"
    /\ path \in job.paths
    /\ pool' = [q \in Paths |-> IF q = path THEN None ELSE pool[q]]
    /\ job' = [job EXCEPT !.paths = @ \ {path}]
    /\ UNCHANGED <<table, list, at, requests, faults, history>>

FilesRemoved ==
    /\ at = "removeFiles"
    /\ job.paths = {}
    /\ Go("remember")
    /\ UNCHANGED <<table, pool, list, requests, faults, history>>

-----------------------------------------------------------------------------
(***************************************************************************)
(* The list, and the answer.                                               *)
(***************************************************************************)
Positions(s) == 1 .. Len(s)

\* An entry takes the place of one of the same package, or comes last.
Stored(s, entry) ==
    LET same == {i \in Positions(s) : s[i].package = entry.package}
    IN  IF same = {}
        THEN Append(s, entry)
        ELSE [s EXCEPT ![CHOOSE i \in same : \A j \in same : i <= j] = entry]

Erased(s, i) == SubSeq(s, 1, i - 1) \o SubSeq(s, i + 1, Len(s))

Remember ==
    LET r == job.repository IN
    /\ at = "remember"
    /\ \/ /\ job.kind = "create"
          /\ repositories' = repositories \cup {r}
          /\ UNCHANGED <<packages, served>>
       \/ /\ job.kind = "deleteRepository"
          /\ repositories' = repositories \ {r}
          /\ packages' = [packages EXCEPT ![r] = <<>>]
          /\ UNCHANGED served
       \/ /\ job.kind = "upload"
          /\ repositories' = repositories \cup {r}
          /\ packages' = [packages EXCEPT ![r] = Stored(@, job.entry)]
          /\ served' = served \cup {<<r, job.entry.package>>}
       \/ /\ job.kind = "add"
          /\ packages' = [packages EXCEPT ![r] = Stored(@, job.entry)]
          /\ UNCHANGED <<repositories, served>>
       \/ /\ job.kind = "edit"
          /\ UNCHANGED <<list, served>>
       \/ /\ job.kind = "deletePackage"
          /\ packages' = [packages EXCEPT ![r] = Erased(@, job.index)]
          /\ UNCHANGED <<repositories, served>>
    /\ Rest
    /\ UNCHANGED <<table, pool, requests, faults, torn, declared, claimed, diverged>>

-----------------------------------------------------------------------------
(***************************************************************************)
(* What can go wrong.                                                      *)
(***************************************************************************)
Fault ==
    /\ faults < MaxFaults
    /\ faults' = faults + 1

\* A failure is ignored where the API writes metadata.
Skip ==
    /\ \/ at = "insertRepository"
       \/ at = "upsert" /\ job.kind \in {"add", "edit"}
    /\ Go("remember")
    /\ Fault
    /\ UNCHANGED <<table, pool, list, requests, history>>

\* Everywhere else it ends the request.
Fail ==
    /\ \/ at \in {"deletePackages", "deleteRepository", "rename", "deleteRow"}
       \/ at = "upsert" /\ job.kind = "upload"
    /\ Rest
    /\ Fault
    /\ UNCHANGED <<table, pool, list, requests, history>>

\* The n-th number of a set.
Nth(S, n) == CHOOSE p \in S : Cardinality({q \in S : q < p}) = n - 1

\* What a start reads: the rows of the repositories that have one, in order.
Loaded(r) ==
    LET present == {p \in Packages : <<r, p>> \in indexed} IN
    IF r \notin repositoryRows THEN <<>>
    ELSE [i \in 1 .. Cardinality(present) |->
            LET p == Nth(present, i)
                row == packageRows[<<r, p>>]
            IN  [package |-> p, id |-> row.id, file |-> row.file, path |-> row.path, sum |-> row.sum]]

\* The API dies and is started again.
Restart ==
    /\ repositories' = repositoryRows
    /\ packages' = [r \in Repositories |-> Loaded(r)]
    /\ Rest
    /\ diverged' = {}
    /\ UNCHANGED <<table, pool, requests, faults, served, torn, declared, claimed>>

\* So it is while the database cannot be read.
RestartBlind ==
    /\ repositories' = {}
    /\ packages' = [r \in Repositories |-> <<>>]
    /\ Fault
    /\ Rest
    /\ UNCHANGED <<table, pool, requests, history>>

-----------------------------------------------------------------------------
Next ==
    \/ \E r \in Repositories : CreateRepository(r) \/ DeleteRepository(r)
    \/ \E r \in Repositories, p \in Packages : Upload(r, p)
    \/ \E r \in Repositories : \E i \in Positions(packages[r]) : DeletePackage(r, i)
    \/ \E r \in Repositories, p \in Packages, file, path \in FileNames, sum \in Sums :
         /\ <<file, path, sum>> \in Given
         /\ \/ AddPackage(r, Said(p, file, path, sum))
            \/ \E i \in Positions(packages[r]) : UpdatePackage(r, i, Said(p, file, path, sum))
    \/ InsertRepository \/ DeletePackages \/ DeleteRepositoryRow \/ Upsert \/ RefuseMetadata \/ DeleteRow
    \/ RemoveOld \/ Rename \/ RemoveFile \/ FilesRemoved
    \/ \E path \in FileNames : RemoveFiles(path)
    \/ Remember
    \/ Skip \/ Fail \/ Restart \/ RestartBlind

Spec == Init /\ [][Next]_vars

-----------------------------------------------------------------------------
\* An upload that was acknowledged can be fetched until it is replaced or
\* withdrawn, which metadata that says something else of the package does too:
\* its row names its own artifact, with the checksum the index states, whatever
\* is said of other packages as long as it does not name that artifact
\* (upload_package, delete_package, delete_repository).
UploadsServed ==
    \A k \in served : PathOf(k[1], k[2]) \notin claimed =>
        /\ k \in indexed
        /\ packageRows[k].path \in Paths
        /\ pool[packageRows[k].path] = packageRows[k].sum

\* Of what uploads put in the indexes only an artifact that an upload is
\* replacing, or was when the API died, can be missing, or one that metadata
\* named: a deletion takes the row before the file.
IndexedHasFile ==
    \A k \in indexed \ declared :
        packageRows[k].path \in Paths \ (torn \cup claimed) => pool[packageRows[k].path] # None

\* No package outlives its repository, whose deletion may be cut anywhere.
PackagesHaveRepository ==
    faults = 0 => \A k \in indexed : k[1] \in repositoryRows

\* Between requests, and unless something failed, the console lists what the
\* signed indexes do, and nothing twice, of a repository of which no client's metadata
\* was refused by PostgreSQL, renamed a package or led a deletion to another's row
\* since the API's start.
ListIsIndex ==
    at = "idle" /\ faults = 0 =>
        /\ repositories = repositoryRows
        /\ \A r \in repositoryRows \ diverged :
             /\ Len(packages[r]) = Cardinality({k \in indexed : k[1] = r})
             /\ \A k \in indexed : k[1] = r =>
                  \E i \in Positions(packages[r]) :
                      /\ packages[r][i].package = k[2]
                      /\ packages[r][i].file = packageRows[k].file
                      /\ packages[r][i].path = packageRows[k].path
                      /\ packages[r][i].sum = packageRows[k].sum
=============================================================================
