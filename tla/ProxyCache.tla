------------------------------ MODULE ProxyCache ------------------------------
(***************************************************************************)
(* The package proxy of the API (apps/api/main.cpp): one file of the cache *)
(* and the threads that fetch it from upstream.                            *)
(*                                                                         *)
(* A request that finds the file is answered with it as it is.  One that   *)
(* does not starts a thread that runs curl into the very place and, for a  *)
(* Packages index, appends the local packages.  Nothing keeps two threads  *)
(* from fetching the same file, and nothing removes a file again.          *)
(*                                                                         *)
(* A cell of the file is a part of what upstream has, by its number, or a  *)
(* part of a local block, by the number of packages in it.  curl creates   *)
(* or empties the file with the first data and writes at its own place.    *)
(***************************************************************************)
EXTENDS Naturals, Sequences, FiniteSets

CONSTANTS
    Threads,
    Parts,         \* parts of the file upstream
    MaxPackages,   \* bound: local packages
    MaxFaults      \* bound: failed downloads and deaths of the API

VARIABLES
    index,      \* is it dists/.../Packages?
    exists,     \* is the file there?
    cells,      \* what is in it
    at,         \* per thread: "idle", "fetch", "append"
    got,        \* per thread: the parts curl has written
    packages,   \* packages of the local repository of that distribution and component
    faults,
    last,       \* the thread that emptied the file last, if one did
    cut,        \* was that one cut short?
    due         \* the local packages there were then

ghosts == <<last, cut, due>>
vars == <<index, exists, cells, at, got, packages, faults, last, cut, due>>

Hole == [kind |-> "hole", number |-> 0]
Part(n) == [kind |-> "upstream", number |-> n]
Cell == {Hole} \cup {Part(n) : n \in 1 .. Parts}
    \cup [kind : {"head", "body"}, number : 0 .. MaxPackages]

TypeOK ==
    /\ index \in BOOLEAN /\ exists \in BOOLEAN /\ cells \in Seq(Cell)
    /\ ~exists => cells = <<>>
    /\ at \in [Threads -> {"idle", "fetch", "append"}]
    /\ got \in [Threads -> 0 .. Parts]
    /\ packages \in 0 .. MaxPackages /\ faults \in 0 .. MaxFaults
    /\ last \subseteq Threads /\ cut \in BOOLEAN /\ due \in 0 .. MaxPackages

Init ==
    /\ index \in BOOLEAN
    /\ exists = FALSE /\ cells = <<>>
    /\ at = [t \in Threads |-> "idle"] /\ got = [t \in Threads |-> 0]
    /\ packages = 0 /\ faults = 0
    /\ last = {} /\ cut = FALSE /\ due = 0

-----------------------------------------------------------------------------
\* The file is there: it is served, whoever may be writing it.
Hit == exists /\ UNCHANGED vars

\* It is not there: a thread of its own fetches it.
Miss(t) ==
    /\ ~exists /\ at[t] = "idle"
    /\ at' = [at EXCEPT ![t] = "fetch"]
    /\ got' = [got EXCEPT ![t] = 0]
    /\ UNCHANGED <<index, exists, cells, packages, faults, ghosts>>

\* A file written at place n, with a hole before it if it was shorter.
WrittenAt(n, cell) ==
    [i \in 1 .. (IF n > Len(cells) THEN n ELSE Len(cells)) |->
        IF i = n THEN cell ELSE IF i <= Len(cells) THEN cells[i] ELSE Hole]

\* curl writes its next part; the first one into an empty file.
Fetch(t) ==
    LET n == got[t] + 1
    IN  /\ at[t] = "fetch" /\ got[t] < Parts
        /\ got' = [got EXCEPT ![t] = n]
        /\ exists' = TRUE
        /\ cells' = IF n = 1 THEN <<Part(1)>> ELSE WrittenAt(n, Part(n))
        /\ IF n = 1 THEN last' = {t} /\ cut' = FALSE /\ due' = packages
                    ELSE UNCHANGED ghosts
        /\ UNCHANGED <<index, at, packages, faults>>

\* curl is done: the overlay comes next for an index, the answer otherwise.
Fetched(t) ==
    /\ at[t] = "fetch" /\ got[t] = Parts
    /\ at' = [at EXCEPT ![t] = IF index THEN "append" ELSE "idle"]
    /\ UNCHANGED <<index, exists, cells, got, packages, faults, ghosts>>

LocalBlock == <<[kind |-> "head", number |-> packages], [kind |-> "body", number |-> packages]>>

\* Mutant: the overlay is written with the stream's default mode, over the file.
Overwritten == LocalBlock
\* std::ios_base::app
Appended == cells \o LocalBlock

\* The local packages as they are now; a block is one write.
AppendOverlay(t) ==
    /\ at[t] = "append"
    /\ cells' = Appended
    /\ at' = [at EXCEPT ![t] = "idle"]
    /\ UNCHANGED <<index, exists, got, packages, faults, ghosts>>

\* The thread that emptied the file last, with work left to do.
CutShort(S) == last \cap {t \in S : at[t] # "idle" /\ got[t] > 0} # {}

\* Upstream refuses, or the connection breaks: 404, and what came stays.
FetchFails(t) ==
    /\ faults < MaxFaults /\ faults' = faults + 1
    /\ at[t] = "fetch" /\ got[t] < Parts
    /\ cut' = (cut \/ CutShort({t}))
    /\ at' = [at EXCEPT ![t] = "idle"]
    /\ UNCHANGED <<index, exists, cells, got, packages, last, due>>

\* The API dies with its threads and the curl processes of its service.
Restart ==
    /\ faults < MaxFaults /\ faults' = faults + 1
    /\ cut' = (cut \/ CutShort(Threads))
    /\ at' = [t \in Threads |-> "idle"]
    /\ UNCHANGED <<index, exists, cells, got, packages, last, due>>

\* A package is uploaded to the local repository.
Upload ==
    /\ packages < MaxPackages /\ packages' = packages + 1
    /\ UNCHANGED <<index, exists, cells, at, got, faults, ghosts>>

Next ==
    \/ Hit
    \/ \E t \in Threads : Miss(t) \/ Fetch(t) \/ Fetched(t) \/ AppendOverlay(t) \/ FetchFails(t)
    \/ Restart \/ Upload

Spec == Init /\ [][Next]_vars

-----------------------------------------------------------------------------
\* However many threads fetched the file at once and whichever of them failed:
\* when none is at work, and the one that emptied the file last was not cut
\* short, the file is upstream's from its beginning, exactly that unless it is an
\* index, and an index has after it, in one piece, the local packages there
\* were.  What cut it short stays in the cache for good, and is served.
FilledWhole ==
    (\A t \in Threads : at[t] = "idle") /\ exists /\ ~cut =>
        /\ Len(cells) >= Parts
        /\ \A n \in 1 .. Parts : cells[n] = Part(n)
        /\ ~index => Len(cells) = Parts
        /\ index => \E i \in Parts + 1 .. Len(cells) - 1 :
             /\ cells[i].kind = "head" /\ cells[i + 1].kind = "body"
             /\ cells[i].number = cells[i + 1].number
             /\ cells[i].number >= due
===============================================================================
