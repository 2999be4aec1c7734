-------------------------------- MODULE Follower --------------------------------
(***************************************************************************)
(* What the supervisor promises of settings.json, and no more: the         *)
(* configuration it works with is always one that the file held when it    *)
(* looked, as a whole, or the environment's when the file could not be     *)
(* used.  It says nothing of when.  Supervisor implements it; Settings,    *)
(* the API's side of the file, is composed with it.                        *)
(***************************************************************************)
EXTENDS Naturals

CONSTANTS
    Services,    \* the managed services
    MaxWrites    \* bound: replacements of settings.json

VARIABLES
    file,        \* settings.json: its version (0: no such file), what it enables, whether it parses
    config       \* the configuration the supervisor works with

followed == <<file, config>>

\* Config::from_env: the environment enables no service.
Fallback == [ver |-> 0, enabled |-> {}]

NoFile == [ver |-> 0, enabled |-> {}, ok |-> TRUE]

Readable == file.ver > 0 /\ file.ok
\* Mutant: the features are cleared and not read.
LoadedNothing == [ver |-> file.ver, enabled |-> {}]
Loaded == [ver |-> file.ver, enabled |-> file.enabled]

FollowerInit == file = NoFile /\ config = Fallback

\* The file is replaced by another.
Save(enabled, ok) ==
    /\ file.ver < MaxWrites
    /\ file' = [ver |-> file.ver + 1, enabled |-> enabled, ok |-> ok]

\* The supervisor takes what the file holds.
Adopt ==
    /\ config' = IF Readable THEN Loaded ELSE Fallback
    /\ UNCHANGED file

FollowerNext ==
    \/ \E enabled \in SUBSET Services, ok \in BOOLEAN : Save(enabled, ok) /\ UNCHANGED config
    \/ Adopt

FollowerSpec == FollowerInit /\ [][FollowerNext]_followed

=============================================================================
