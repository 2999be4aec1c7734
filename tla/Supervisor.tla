------------------------------ MODULE Supervisor ------------------------------
(***************************************************************************)
(* The service supervisor nexus-services (apps/services/main.cpp) and the  *)
(* world it acts on: the settings file the API replaces, the tables whose  *)
(* rows gate a start, and the operating system's processes.                *)
(*                                                                         *)
(* One supervisor process runs this loop.  It loads settings.json, exports *)
(* the configuration to its environment, starts what is enabled and        *)
(* allowed, and only then notes the modification time of the file.  Every  *)
(* two seconds it reaps the children that exited, compares the             *)
(* modification time, reloads and restarts everything when it changed, and *)
(* reconciles again.  Each step below is one stretch of that loop between  *)
(* two points where another process may act.                               *)
(*                                                                         *)
(* A configuration is a version and the set of services it enables.  The   *)
(* version stands for everything else in the file (ports, domain, secrets, *)
(* database URL): two files with different versions differ somewhere.      *)
(* Writers replace the file by rename, so it is never read half-written,   *)
(* and each replacement has its own modification time, the version.        *)
(*                                                                         *)
(* A file the supervisor reads as unusable is one that is not JSON: the    *)
(* API never writes one, an operator's editor may.                         *)
(***************************************************************************)
EXTENDS Naturals, FiniteSets

CONSTANTS
    Services,    \* the managed services: directory, network, pki-repo
    Installed,   \* the services whose binary exists beside the supervisor
    Tables,      \* dns_zones, dhcp_pools, pki_authorities
    Requires,    \* the tables that must hold a row before a service starts
    Pids,        \* process identifiers the host can give out
    NoPid,       \* "no process"
    MaxWrites,   \* bound: replacements of settings.json
    MaxCrashes   \* bound: deaths of the supervisor

ASSUME ServicesAssumption ==
    /\ Installed \subseteq Services
    /\ Requires \in [Services -> SUBSET Tables]

ASSUME PidsAssumption == NoPid \notin Pids

ASSUME BoundsAssumption == MaxWrites \in Nat /\ MaxCrashes \in Nat

VARIABLES
    file,       \* settings.json: its version (0: no such file), what it enables, whether it parses
    rows,       \* the tables that hold at least one row
    dbUp,       \* whether a connection to PostgreSQL succeeds
    procs,      \* every process slot of the host
    pc,         \* where the supervisor is
    config,     \* the supervisor's configuration (0: the fallback) and environment
    lastWrite,  \* last_settings_write; 0 is file_time_type::min()
    running,    \* the running map: service to pid
    blocked,    \* the services marked true in blocked_services
    todo,       \* the services this reconcile has not visited
    crashes     \* deaths of the supervisor so far

supervisorVars == <<config, lastWrite, running, blocked, todo>>
worldVars == <<file, rows, dbUp>>
vars == <<file, rows, dbUp, procs, pc, config, lastWrite, running, blocked,
          todo, crashes>>

Free == [st |-> "free"]

\* A process: the service it runs, the version of the environment it
\* inherited, and whether its parent is the supervisor that now runs.
Process == [st : {"alive", "zombie"}, svc : Services, ver : Nat, own : BOOLEAN]

Phases == {"down", "load", "reconcile0", "stamp", "sleep", "poll", "reload",
           "restart", "reconcile"}

\* The phases in which every process the supervisor manages has been brought
\* in line with its configuration.
Settled == Phases \ {"down", "load", "restart"}

TypeOK ==
    /\ file \in [ver : Nat, enabled : SUBSET Services, ok : BOOLEAN]
    /\ rows \subseteq Tables
    /\ dbUp \in BOOLEAN
    /\ procs \in [Pids -> Process \cup {Free}]
    /\ pc \in Phases
    /\ config \in [ver : Nat, enabled : SUBSET Services]
    /\ lastWrite \in Nat
    /\ running \in [Services -> Pids \cup {NoPid}]
    /\ blocked \subseteq Services
    /\ todo \subseteq Services
    /\ crashes \in Nat

\* Config::from_env: the environment enables no service.
Fallback == [ver |-> 0, enabled |-> {}]

Init ==
    /\ file = [ver |-> 0, enabled |-> {}, ok |-> TRUE]
    /\ rows = {}
    /\ dbUp \in BOOLEAN
    /\ procs = [p \in Pids |-> Free]
    /\ pc = "load"
    /\ config = Fallback
    /\ lastWrite = 0
    /\ running = [s \in Services |-> NoPid]
    /\ blocked = {}
    /\ todo = {}
    /\ crashes = 0

-----------------------------------------------------------------------------
(***************************************************************************)
(* Helpers.                                                                *)
(***************************************************************************)

\* load_persisted_config: what the file yields when it exists and parses.
Readable == file.ver > 0 /\ file.ok
\* Mutant: every key but the features keeps the fallback's value.
LoadedFallback == [ver |-> 0, enabled |-> file.enabled]
Loaded == [ver |-> file.ver, enabled |-> file.enabled]

\* can_start_service: the database answers and every required table has a row.
CanStart(s) == dbUp /\ Requires[s] \subseteq rows

\* desired_enabled.
Enabled(s) == s \in config.enabled

FreePids == {p \in Pids : procs[p] = Free}

\* spawn_service: no binary, or fork fails because the host is out of pids.
CanSpawn(s) == s \in Installed /\ FreePids # {}

Exists(p) == procs[p] # Free
Alive(p) == Exists(p) /\ procs[p].st # "zombie"

Child(s) == [st |-> "alive", svc |-> s, ver |-> config.ver, own |-> TRUE]

Looping == pc \in {"sleep", "poll", "reload", "restart", "reconcile"}

-----------------------------------------------------------------------------
(***************************************************************************)
(* Start-up: load, first reconcile, then the first look at the file's      *)
(* modification time.                                                      *)
(***************************************************************************)

LoadAtStart ==
    /\ pc = "load"
    /\ config' = IF Readable THEN Loaded ELSE Fallback
    /\ running' = [s \in Services |-> NoPid]
    /\ blocked' = {}
    /\ todo' = Services
    /\ pc' = "reconcile0"
    /\ UNCHANGED <<worldVars, procs, lastWrite, crashes>>

StampAtStart ==
    /\ pc = "stamp"
    /\ lastWrite' = file.ver
    /\ pc' = "sleep"
    /\ UNCHANGED <<worldVars, procs, config, running, blocked, todo, crashes>>

-----------------------------------------------------------------------------
(***************************************************************************)
(* The loop up to reconcile.                                               *)
(***************************************************************************)

\* After the sleep: the children that exited are reaped and forgotten.
ReapExited ==
    /\ pc = "sleep"
    /\ LET exited == {s \in Services : running[s] # NoPid /\ procs[running[s]].st = "zombie"}
       IN  /\ running' = [s \in Services |-> IF s \in exited THEN NoPid ELSE running[s]]
           /\ procs' = [p \in Pids |-> IF \E s \in exited : running[s] = p THEN Free ELSE procs[p]]
    /\ pc' = "poll"
    /\ UNCHANGED <<worldVars, config, lastWrite, blocked, todo, crashes>>

\* The file has not changed since the last look: straight to reconcile.
PollUnchanged ==
    /\ pc = "poll"
    /\ file.ver = lastWrite \/ file.ver = 0
    /\ pc' = "reconcile"
    /\ todo' = Services
    /\ UNCHANGED <<worldVars, procs, config, lastWrite, running, blocked, crashes>>

\* The modification time moved: it is remembered before the file is read.
PollChanged ==
    /\ pc = "poll"
    /\ file.ver # lastWrite /\ file.ver > 0
    /\ lastWrite' = file.ver
    /\ pc' = "reload"
    /\ UNCHANGED <<worldVars, procs, config, running, blocked, todo, crashes>>

\* The file may have been replaced again since its time was read.
Reload ==
    /\ pc = "reload"
    /\ Readable
    /\ config' = Loaded
    /\ pc' = "restart"
    /\ UNCHANGED <<worldVars, procs, lastWrite, running, blocked, todo, crashes>>

ReloadFails ==
    /\ pc = "reload"
    /\ ~Readable
    /\ pc' = "reconcile"
    /\ todo' = Services
    /\ UNCHANGED <<worldVars, procs, config, lastWrite, running, blocked, crashes>>

-----------------------------------------------------------------------------
(***************************************************************************)
(* restart_all: stop_service on every running service in turn.             *)
(***************************************************************************)

\* stop_service: SIGTERM, then waitpid for two seconds, then SIGKILL and
\* waitpid.  However the process ends, nothing is left of it.
\* Mutants: the entry is erased while the loop over the map still runs; the
\* SIGKILL is not followed by waitpid.
CollectErase(s) ==
    /\ procs' = [procs EXCEPT ![running[s]] = Free]
    /\ running' = [t \in Services \ {s} |-> running[t]]
CollectZombie(s) ==
    /\ procs' = [procs EXCEPT ![running[s]].st = "zombie"]
    /\ running' = [running EXCEPT ![s] = NoPid]
Collect(s) ==
    /\ procs' = [procs EXCEPT ![running[s]] = Free]
    /\ running' = [running EXCEPT ![s] = NoPid]

Stop(s) ==
    /\ pc = "restart"
    /\ running[s] # NoPid
    /\ Collect(s)
    /\ UNCHANGED <<worldVars, pc, config, lastWrite, blocked, todo, crashes>>

\* Mutants of restart_all: it clears the map without stopping; it leaves
\* blocked_services.
RestartForgets ==
    /\ pc = "restart"
    /\ running' = [s \in Services |-> NoPid]
    /\ blocked' = {}
    /\ todo' = Services
    /\ pc' = "reconcile"
    /\ UNCHANGED <<worldVars, procs, config, lastWrite, crashes>>
RestartKeepsBlocked ==
    /\ pc = "restart"
    /\ \A s \in Services : running[s] = NoPid
    /\ todo' = Services
    /\ pc' = "reconcile"
    /\ UNCHANGED <<worldVars, procs, config, lastWrite, running, blocked, crashes>>

RestartDone ==
    /\ pc = "restart"
    /\ \A s \in Services : running[s] = NoPid
    /\ blocked' = {}
    /\ todo' = Services
    /\ pc' = "reconcile"
    /\ UNCHANGED <<worldVars, procs, config, lastWrite, running, crashes>>

-----------------------------------------------------------------------------
(***************************************************************************)
(* reconcile: one step per service.  The prerequisites are read when the   *)
(* service is visited.  The list has a fixed order in the code and any     *)
(* order here.                                                             *)
(***************************************************************************)

Visit(s) ==
    /\ pc \in {"reconcile0", "reconcile"}
    /\ s \in todo
    /\ todo' = todo \ {s}
    /\ UNCHANGED <<worldVars, pc, config, lastWrite, crashes>>

\* Mutant: the mark is flipped at every pass.
BlockToggles(s) ==
    /\ Visit(s)
    /\ Enabled(s) /\ running[s] = NoPid
    /\ ~CanStart(s)
    /\ blocked' = IF s \in blocked THEN blocked \ {s} ELSE blocked \cup {s}
    /\ UNCHANGED <<procs, running>>
Block(s) ==
    /\ Visit(s)
    /\ Enabled(s) /\ running[s] = NoPid
    /\ ~CanStart(s)
    /\ blocked' = blocked \cup {s}
    /\ UNCHANGED <<procs, running>>

\* Mutant: a blocked service is passed over.
StartSkipsBlocked(s) ==
    /\ Visit(s)
    /\ Enabled(s) /\ running[s] = NoPid
    /\ s \notin blocked
    /\ CanStart(s) /\ CanSpawn(s)
    /\ UNCHANGED blocked
    /\ \E p \in FreePids :
         /\ procs' = [procs EXCEPT ![p] = Child(s)]
         /\ running' = [running EXCEPT ![s] = p]

Start(s) ==
    /\ Visit(s)
    /\ Enabled(s) /\ running[s] = NoPid
    /\ CanStart(s) /\ CanSpawn(s)
    /\ blocked' = blocked \ {s}
    /\ \E p \in FreePids :
         /\ procs' = [procs EXCEPT ![p] = Child(s)]
         /\ running' = [running EXCEPT ![s] = p]

\* The block is lifted and announced even when the spawn then fails.
StartFails(s) ==
    /\ Visit(s)
    /\ Enabled(s) /\ running[s] = NoPid
    /\ CanStart(s) /\ ~CanSpawn(s)
    /\ blocked' = blocked \ {s}
    /\ UNCHANGED <<procs, running>>

\* Running and enabled, or neither: nothing to do.  Running and disabled:
\* the service is stopped.
Keep(s) ==
    /\ Visit(s)
    /\ ~Enabled(s) \/ running[s] # NoPid
    /\ IF ~Enabled(s) /\ running[s] # NoPid
         THEN Collect(s) /\ blocked' = blocked \ {s}
         ELSE UNCHANGED <<procs, running, blocked>>

ReconcileDone ==
    /\ pc \in {"reconcile0", "reconcile"}
    /\ todo = {}
    /\ pc' = IF pc = "reconcile0" THEN "stamp" ELSE "sleep"
    /\ UNCHANGED <<worldVars, procs, supervisorVars, crashes>>

-----------------------------------------------------------------------------
(***************************************************************************)
(* The world.                                                              *)
(***************************************************************************)

\* The API's persist_settings (or an operator's editor, which may leave a
\* file that does not parse): a new file with a new modification time.
WriteSettings(enabled, ok) ==
    /\ file.ver < MaxWrites
    /\ file' = [ver |-> file.ver + 1, enabled |-> enabled, ok |-> ok]
    /\ UNCHANGED <<rows, dbUp, procs, pc, supervisorVars, crashes>>

\* The first row of a table is inserted, or its last one deleted.
ToggleTable(t) ==
    /\ rows' = IF t \in rows THEN rows \ {t} ELSE rows \cup {t}
    /\ UNCHANGED <<file, dbUp, procs, pc, supervisorVars, crashes>>

ToggleDatabase ==
    /\ dbUp' = ~dbUp
    /\ UNCHANGED <<file, rows, procs, pc, supervisorVars, crashes>>

\* A daemon exits: on the signal, or by itself.  Its parent has to collect it;
\* init collects the children of a dead supervisor.
Exit(p) ==
    /\ Alive(p)
    /\ procs' = [procs EXCEPT ![p] = IF @.own THEN [@ EXCEPT !.st = "zombie"] ELSE Free]
    /\ UNCHANGED <<worldVars, pc, supervisorVars, crashes>>

\* The supervisor handles no signal and catches no exception: it dies where it
\* stands.  Under systemd its children go with it (the unit's control group);
\* under run.sh they are left running without a parent.
Crash(groupKill) ==
    /\ pc # "down"
    /\ crashes < MaxCrashes
    /\ crashes' = crashes + 1
    /\ pc' = "down"
    /\ procs' = [p \in Pids |->
                   IF ~Alive(p) \/ (groupKill /\ procs[p].own) THEN Free
                   ELSE [procs[p] EXCEPT !.own = FALSE]]
    /\ running' = [s \in Services |-> NoPid]
    /\ blocked' = {}
    /\ todo' = {}
    /\ UNCHANGED <<worldVars, config, lastWrite>>

\* systemd, the container runtime or run.sh starts it again.
StartSupervisor ==
    /\ pc = "down"
    /\ pc' = "load"
    /\ lastWrite' = 0
    /\ UNCHANGED <<worldVars, procs, config, running, blocked, todo, crashes>>

-----------------------------------------------------------------------------
Supervise ==
    \/ LoadAtStart \/ StampAtStart
    \/ ReapExited \/ PollUnchanged \/ PollChanged \/ Reload \/ ReloadFails
    \/ RestartDone \/ ReconcileDone
    \/ \E s \in Services :
         \/ Stop(s) \/ Block(s) \/ Start(s) \/ StartFails(s) \/ Keep(s)

World ==
    \/ \E enabled \in SUBSET Services, ok \in BOOLEAN : WriteSettings(enabled, ok)
    \/ \E t \in Tables : ToggleTable(t)
    \/ ToggleDatabase
    \/ \E p \in Pids : Exit(p)
    \/ \E groupKill \in BOOLEAN : Crash(groupKill)

Next == Supervise \/ World \/ StartSupervisor

Spec == Init /\ [][Next]_vars

\* The supervisor's thread keeps running (every wait in it is bounded by the
\* two-second sleep or by SIGKILL) and whoever started it starts it again.
FairSpec == Spec /\ WF_vars(Supervise) /\ WF_vars(StartSupervisor)

-----------------------------------------------------------------------------
(***************************************************************************)
(* Properties.                                                             *)
(***************************************************************************)

\* Outside a restart, every service in the running map is a child of this
\* supervisor, runs that service, is enabled, and inherited the environment of
\* the configuration the supervisor now has: no daemon keeps old settings.
ManagedCurrent ==
    pc \in Settled =>
        \A s \in Services : running[s] # NoPid =>
            LET child == procs[running[s]]
            IN  /\ child # Free
                /\ child.own /\ child.svc = s
                /\ child.ver = config.ver
                /\ Enabled(s)

\* Every child of the supervisor, exited or not, is in its running map: no
\* service is started twice (and fights itself for its ports), no child is left
\* a zombie that nobody will collect.
NoLeakedChild ==
    \A p \in Pids : Exists(p) /\ procs[p].own => running[procs[p].svc] = p

\* The running map and the process table tell one story.
ChildrenMatch == ManagedCurrent /\ NoLeakedChild

\* Outside a restart, a service reported as blocked is one that is wanted and
\* does not run (docs/conditional-service-loading.md, State Tracking).
BlockedIsWaiting ==
    pc \in Settled => \A s \in blocked : Enabled(s) /\ running[s] = NoPid

\* A blocked service leaves that state only when its prerequisites hold, when
\* a reload clears the map, or with the supervisor: so the block is reported
\* once, not at every pass.
BlockPersists ==
    [][\A s \in blocked : s \notin blocked' => CanStart(s) \/ pc = "restart" \/ pc' = "down"]_vars

\* Settings saved while the supervisor is in its loop are eventually the ones
\* it runs with, or newer ones are, unless the file it finds does not parse.
ReloadsChange ==
    \A v \in 1 .. MaxWrites :
        (Looping /\ file.ver = v /\ lastWrite # v) ~> (config.ver >= v \/ ~file.ok)

\* A service that stays enabled and startable on a host that has a pid for it
\* is running again and again, however often it or the supervisor dies.
StartsWhenPossible ==
    \A s \in Installed :
        <>[](Enabled(s) /\ CanStart(s) /\ FreePids # {}) => []<>(running[s] # NoPid)

\* The configuration is always what the file held at some look, or the
\* environment's: the loop implements what the API's side relies on.
Follows == INSTANCE Follower
FollowsFile == Follows!FollowerSpec

\* README.md:50: "The service supervisor reloads persisted settings and restarts
\* managed daemons when configuration changes."  Whatever was saved, the
\* supervisor eventually has it or something newer.
SettingsApplied ==
    \A v \in 1 .. MaxWrites :
        (file.ver = v /\ file.ok) ~> (config.ver >= v \/ ~file.ok)

=============================================================================
