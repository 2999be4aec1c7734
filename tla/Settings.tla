-------------------------------- MODULE Settings --------------------------------
(***************************************************************************)
(* The API's settings and feature flags (apps/api/platform_state.cpp),     *)
(* composed with the supervisor through settings.json.                     *)
(*                                                                         *)
(* What is enabled is kept three times: in the table feature_flags, in     *)
(* settings.json and in the API's memory.  An update writes them in that   *)
(* order and stops at the first that fails, except that a database that    *)
(* does not answer is passed over.  A start of the API reads the file and  *)
(* then prefers the table; the supervisor reads only the file, as Follower *)
(* says.  One handler runs at a time, so one update does.                  *)
(*                                                                         *)
(* Of a configuration only what it enables is kept here: the rest is never *)
(* in the table, and file and memory treat it the same way.                *)
(***************************************************************************)
EXTENDS Follower

CONSTANTS
    NoRows,      \* the table feature_flags is empty
    MaxFaults    \* bound: crashes, and statements or files that fail

ASSUME SettingsAssumption ==
    /\ NoRows \notin SUBSET Services
    /\ MaxWrites \in Nat /\ MaxFaults \in Nat

VARIABLES
    dbUp,        \* connections to the database succeed
    flags,       \* feature_flags
    memory,      \* the features of the API's config_
    at,          \* where the API is
    want,        \* the features of the update it makes
    reached,     \* whether that update reached the table
    faults,
    trouble,     \* what went wrong since all three copies were last written
    started,     \* what this run of the API found when it started
    allowed      \* what a request enabled, or wrote to the file, that was not refused

vars == <<file, config, dbUp, flags, memory, at, want, reached, faults, trouble, started, allowed>>
update == <<want, reached>>
ghosts == <<trouble, started, allowed>>

TypeOK ==
    /\ file \in [ver : Nat, enabled : SUBSET Services, ok : BOOLEAN]
    /\ config \in [ver : Nat, enabled : SUBSET Services]
    /\ dbUp \in BOOLEAN
    /\ flags \in (SUBSET Services) \cup {NoRows}
    /\ memory \in SUBSET Services
    /\ at \in {"down", "boot", "idle", "sync", "persist", "apply"}
    /\ want \in SUBSET Services
    /\ reached \in BOOLEAN
    /\ faults \in Nat
    /\ trouble \subseteq {"database", "disk", "crash"}
    /\ started \in SUBSET Services /\ allowed \subseteq SUBSET Services

Init ==
    /\ FollowerInit
    /\ dbUp \in BOOLEAN
    /\ flags = NoRows
    /\ memory = {}
    /\ at = "down"
    /\ want = {} /\ reached = FALSE
    /\ faults = 0
    /\ trouble = {} /\ started = {} /\ allowed = {{}}

-----------------------------------------------------------------------------
\* What a start of the API makes of the table.
InTable == IF flags = NoRows THEN {} ELSE flags

\* The API exits unless its migrations succeed, which takes a database.
Migrate ==
    /\ at = "down" /\ dbUp
    /\ at' = "boot"
    /\ UNCHANGED <<file, config, dbUp, flags, memory, update, faults, ghosts>>

\* PlatformState(): the file, then, if the database still answers and the
\* table has rows, the table.
Boot ==
    /\ at = "boot"
    /\ memory' = IF dbUp /\ flags # NoRows THEN flags
                 ELSE IF Readable THEN file.enabled ELSE Fallback.enabled
    /\ started' = memory'
    /\ at' = "idle"
    /\ UNCHANGED <<file, config, dbUp, flags, update, faults, trouble, allowed>>

\* A PUT of /api/v1/settings or /api/v1/feature-flags.
Put(enabled) ==
    /\ at = "idle" /\ file.ver < MaxWrites
    /\ want' = enabled
    /\ reached' = FALSE
    /\ at' = "sync"
    /\ UNCHANGED <<file, config, dbUp, flags, memory, faults, ghosts>>

\* The handler answers with an error; what was written stays written.
Refuse(kind) ==
    /\ faults < MaxFaults
    /\ faults' = faults + 1
    /\ trouble' = IF at = "sync" \/ reached THEN trouble \cup {kind} ELSE trouble
    /\ at' = "idle"
    /\ UNCHANGED <<file, config, dbUp, memory, update, started, allowed>>

\* sync_feature_flags_to_database: one transaction; without a connection it
\* reports success.
\* Mutants: the file is written before the table; the API itself gets a row.
SyncLate ==
    /\ at = "sync"
    /\ dbUp
    /\ flags' = want
    /\ reached' = TRUE
    /\ at' = "persist"
    /\ Save(want, TRUE)
    /\ UNCHANGED <<config, dbUp, memory, want, faults, ghosts>>
SyncAll ==
    /\ at = "sync"
    /\ flags' = IF dbUp THEN want \cup {"api"} ELSE flags
    /\ reached' = dbUp
    /\ at' = "persist"
    /\ UNCHANGED <<file, config, dbUp, memory, want, faults, ghosts>>
Sync ==
    /\ at = "sync"
    /\ flags' = IF dbUp THEN want ELSE flags
    /\ reached' = dbUp
    /\ at' = "persist"
    /\ UNCHANGED <<file, config, dbUp, memory, want, faults, ghosts>>

\* A statement fails, or the connection is lost at the commit, done or not.
SyncFails ==
    /\ at = "sync" /\ dbUp
    /\ flags' \in {flags, want}
    /\ Refuse("database")

\* persist_settings: a new file renamed over the old one.
Persist ==
    /\ at = "persist"
    /\ Save(want, TRUE)
    /\ at' = "apply"
    /\ UNCHANGED <<config, dbUp, flags, memory, update, faults, ghosts>>

PersistFails ==
    /\ at = "persist"
    /\ Refuse("disk")
    /\ UNCHANGED flags

\* Mutant: memory is left as it was.
ApplyForgets ==
    /\ at = "apply"
    /\ at' = "idle"
    /\ trouble' = IF reached THEN {} ELSE {"database"}
    /\ allowed' = allowed \cup {want}
    /\ UNCHANGED <<file, config, dbUp, flags, memory, update, faults, started>>

\* Memory follows and the handler reports success.
Apply ==
    /\ at = "apply"
    /\ memory' = want
    /\ at' = "idle"
    /\ trouble' = IF reached THEN {} ELSE {"database"}
    /\ allowed' = allowed \cup {want}
    /\ UNCHANGED <<file, config, dbUp, flags, update, faults, started>>

\* restart_dns_service, restart_dhcp_service: they restart nothing, but write
\* what is in memory to the file, and not to the table.  What a start found is
\* then in force, whoever refused it once.
Restart ==
    /\ at = "idle"
    /\ Save(memory, TRUE)
    /\ allowed' = allowed \cup ({memory} \cap {started})
    /\ UNCHANGED <<config, dbUp, flags, memory, at, update, faults, trouble, started>>

-----------------------------------------------------------------------------
\* The API dies: in the middle of an update the outcome is open, and is one
\* that the three copies share unless the file was still to be written.
Crash ==
    /\ at # "down"
    /\ faults < MaxFaults
    /\ faults' = faults + 1
    /\ at' = "down"
    /\ memory' = {} /\ started' = {}
    /\ trouble' = IF at = "persist" /\ reached THEN trouble \cup {"crash"}
                  ELSE IF at = "apply" THEN IF reached THEN {} ELSE {"database"}
                  ELSE trouble
    /\ allowed' = IF at \in {"persist", "apply"} THEN allowed \cup {want} ELSE allowed
    /\ UNCHANGED <<file, config, dbUp, flags, update>>

ToggleDatabase ==
    /\ dbUp' = ~dbUp
    /\ UNCHANGED <<file, config, flags, memory, at, update, faults, ghosts>>

Follow ==
    /\ Adopt
    /\ UNCHANGED <<dbUp, flags, memory, at, update, faults, ghosts>>

Next ==
    \/ Migrate \/ Boot
    \/ \E enabled \in SUBSET Services : Put(enabled)
    \/ Sync \/ SyncFails \/ Persist \/ PersistFails \/ Apply
    \/ Restart \/ Crash \/ ToggleDatabase \/ Follow

Spec == Init /\ [][Next]_vars

-----------------------------------------------------------------------------
\* docs/conditional-service-loading.md, Integration with Feature Flags: between
\* updates the table, the file and the API's memory enable the same services,
\* unless something went wrong since all three were last written; and one
\* update that reaches the table and succeeds puts right whatever did.
CopiesAgree ==
    trouble = {} /\ at \in {"down", "boot", "idle"} =>
        /\ file.enabled = InTable
        /\ at = "idle" => memory = InTable

\* A supervisor that has read the last file runs what the Settings page shows.
ShownIsRun ==
    trouble = {} /\ at = "idle" /\ config.ver = file.ver => config.enabled = memory

\* The supervisor starts and stops nothing for an update that the API refused,
\* until one that is not refused writes the same; nor does a restart of the DNS
\* or DHCP service put a refused update into force, except one that an earlier
\* run of the API left in the table and this one found there when it started.
RefusedNotRun ==
    config.enabled \in allowed \/ (at = "apply" /\ config.enabled = want)

=============================================================================
