---------------------------- MODULE SettingsProofs ----------------------------
(***************************************************************************)
(* The properties of Settings for any services, files and faults.          *)
(*                                                                         *)
(* CopiesAgree speaks of the API between updates.  What carries it through *)
(* an update is which copies already hold what is wanted at each of its    *)
(* statements (UpdateSound), and that without trouble the others still     *)
(* hold what they did.                                                     *)
(***************************************************************************)
EXTENDS Settings, TLAPS

\* Nobody but the API writes the file here, so it always parses.
FileSound ==
    /\ file.ok
    /\ file.ver = 0 => file.enabled = {}

\* The supervisor that has the last file has what is in it.
FollowSound ==
    /\ config.ver <= file.ver
    /\ config.ver = file.ver => config.enabled = file.enabled

\* The copies during an update.
UpdateSound ==
    /\ at = "sync" /\ trouble = {} => file.enabled = InTable /\ memory = InTable
    /\ at = "persist" /\ reached => flags = want
    /\ at = "persist" /\ trouble = {} =>
         /\ memory = file.enabled
         /\ ~reached => file.enabled = InTable
    /\ at = "apply" => file.enabled = want
    /\ at = "apply" /\ reached => flags = want

\* What the file holds was not refused, or is about to be accepted; what memory
\* holds was not refused, or was found at the start.
FileAllowed ==
    /\ {} \in allowed
    /\ file.enabled \in allowed \/ (at = "apply" /\ file.enabled = want)
    /\ memory \in allowed \cup {started}

IInv ==
    /\ TypeOK
    /\ FileSound
    /\ FollowSound
    /\ UpdateSound
    /\ CopiesAgree
    /\ FileAllowed
    /\ RefusedNotRun

-----------------------------------------------------------------------------
\* The initial states satisfy the invariant.
LEMMA InitIInv == Init => IInv
<1> SUFFICES ASSUME Init PROVE IInv
    OBVIOUS
<1> USE SettingsAssumption DEF Init, FollowerInit, NoFile, Fallback
<1>1. TypeOK
    BY DEF TypeOK
<1>2. FileSound /\ FollowSound /\ UpdateSound
    BY DEF FileSound, FollowSound, UpdateSound
<1>3. CopiesAgree /\ FileAllowed /\ RefusedNotRun
    BY DEF CopiesAgree, InTable, FileAllowed, RefusedNotRun
<1>4. QED
    BY <1>1, <1>2, <1>3 DEF IInv

\* Every step keeps the types.
LEMMA NextTypeOK == TypeOK /\ [Next]_vars => TypeOK'
<1> SUFFICES ASSUME TypeOK, [Next]_vars PROVE TypeOK'
    OBVIOUS
<1> USE SettingsAssumption DEF TypeOK, update, ghosts
<1>1. CASE Migrate
    BY <1>1 DEF Migrate
<1>2. CASE Boot
    BY <1>2 DEF Boot, Fallback
<1>3. ASSUME NEW enabled \in SUBSET Services, Put(enabled) PROVE TypeOK'
    BY <1>3 DEF Put
<1>4. CASE Sync
    BY <1>4 DEF Sync
<1>5. CASE SyncFails
    BY <1>5 DEF SyncFails, Refuse
<1>6. CASE Persist
    BY <1>6 DEF Persist, Save
<1>7. CASE PersistFails
    BY <1>7 DEF PersistFails, Refuse
<1>8. CASE Apply
    BY <1>8 DEF Apply
<1>9. CASE Restart
    BY <1>9 DEF Restart, Save
<1>10. CASE Crash
    BY <1>10 DEF Crash
<1>11. CASE ToggleDatabase
    BY <1>11 DEF ToggleDatabase
<1>12. CASE Follow
    BY <1>12 DEF Follow, Adopt, Loaded, Fallback
<1>13. CASE UNCHANGED vars
    BY <1>13 DEF vars
<1>14. QED
    BY <1>1, <1>2, <1>3, <1>4, <1>5, <1>6, <1>7, <1>8, <1>9, <1>10, <1>11, <1>12, <1>13 DEF Next

-----------------------------------------------------------------------------
\* The file and the supervisor: what one writes as a whole the other takes as a whole.
LEMMA NextFollow ==
    ASSUME TypeOK, FileSound, FollowSound, [Next]_vars
    PROVE  FileSound' /\ FollowSound'
<1> USE DEF TypeOK, FileSound, FollowSound
<1>1. ASSUME NEW enabled \in SUBSET Services, Save(enabled, TRUE), UNCHANGED config
      PROVE  FileSound' /\ FollowSound'
    BY <1>1 DEF Save
<1>2. CASE Persist
    BY <1>1, <1>2 DEF Persist
<1>3. CASE Restart
    BY <1>1, <1>3 DEF Restart
<1>4. CASE Follow
    BY <1>4 DEF Follow, Adopt, Readable, Loaded, Fallback
<1>5. CASE UNCHANGED followed
    BY <1>5 DEF followed
<1>6. Persist \/ Restart \/ Follow \/ UNCHANGED followed
    BY DEF Next, Migrate, Boot, Put, Sync, SyncFails, Refuse, PersistFails, Apply, Crash,
           ToggleDatabase, vars, followed
<1>7. QED
    BY <1>2, <1>3, <1>4, <1>5, <1>6

\* Table, file and memory.
LEMMA NextCopies ==
    ASSUME TypeOK, FileSound, UpdateSound, CopiesAgree, [Next]_vars
    PROVE  UpdateSound' /\ CopiesAgree'
<1> USE SettingsAssumption DEF TypeOK, UpdateSound, CopiesAgree, InTable, update, ghosts
<1>1. CASE Migrate
    BY <1>1 DEF Migrate
<1>2. CASE Boot
    <2>1. (IF Readable THEN file.enabled ELSE Fallback.enabled) = file.enabled
        BY DEF Readable, FileSound, Fallback
    <2>2. memory' = InTable \/ memory' = file.enabled
        BY <1>2, <2>1 DEF Boot
    <2>3. at' = "idle" /\ UNCHANGED <<file, flags, trouble>> /\ at = "boot"
        BY <1>2 DEF Boot
    <2>4. QED
        BY <2>2, <2>3
<1>3. ASSUME NEW enabled \in SUBSET Services, Put(enabled)
      PROVE  UpdateSound' /\ CopiesAgree'
    BY <1>3 DEF Put
<1>4. CASE Sync
    BY <1>4 DEF Sync
<1>5. CASE SyncFails
    BY <1>5 DEF SyncFails, Refuse
<1>6. CASE Persist
    BY <1>6 DEF Persist, Save
<1>7. CASE PersistFails
    BY <1>7 DEF PersistFails, Refuse
<1>8. CASE Apply
    BY <1>8 DEF Apply
<1>9. CASE Restart
    BY <1>9 DEF Restart, Save
<1>10. CASE Crash
    BY <1>10 DEF Crash
<1>11. CASE ToggleDatabase
    BY <1>11 DEF ToggleDatabase
<1>12. CASE Follow
    BY <1>12 DEF Follow, Adopt
<1>13. CASE UNCHANGED vars
    BY <1>13 DEF vars
<1>14. QED
    BY <1>1, <1>2, <1>3, <1>4, <1>5, <1>6, <1>7, <1>8, <1>9, <1>10, <1>11, <1>12, <1>13 DEF Next

\* What the file holds, and what the supervisor took from it, stays accepted:
\* allowed only grows, and an update that reaches the file is accepted, or ends
\* with the API's death.
LEMMA NextAllowed ==
    ASSUME TypeOK, FileAllowed, RefusedNotRun, UpdateSound, [Next]_vars
    PROVE  FileAllowed' /\ RefusedNotRun'
<1> USE DEF TypeOK, FileAllowed, RefusedNotRun, update, ghosts
<1>1. CASE Persist
    BY <1>1 DEF Persist, Save
<1>2. CASE Apply
    BY <1>2 DEF Apply
<1>3. CASE Restart
    BY <1>3 DEF Restart, Save
<1>4. CASE Crash
    BY <1>4 DEF Crash
<1>5. CASE Follow
    BY <1>5 DEF Follow, Adopt, Loaded, Fallback
<1>6. CASE Migrate \/ Boot \/ Sync \/ SyncFails \/ PersistFails
    BY <1>6 DEF Migrate, Boot, Sync, SyncFails, PersistFails, Refuse
<1>7. ASSUME NEW enabled \in SUBSET Services, Put(enabled)
      PROVE  FileAllowed' /\ RefusedNotRun'
    BY <1>7 DEF Put
<1>8. CASE ToggleDatabase \/ UNCHANGED vars
    BY <1>8 DEF ToggleDatabase, vars
<1>9. QED
    BY <1>1, <1>2, <1>3, <1>4, <1>5, <1>6, <1>7, <1>8 DEF Next

-----------------------------------------------------------------------------
\* The inductive invariant: at each statement of an update, which copies hold
\* what is wanted and which still agree; through crashes, failures and restarts.
THEOREM Invariant == Spec => []IInv
<1>1. IInv /\ [Next]_vars => IInv'
    BY NextTypeOK, NextFollow, NextCopies, NextAllowed DEF IInv
<1>2. QED
    BY InitIInv, <1>1, PTL DEF Spec

\* The state of the API's settings keeps its type.
THEOREM TypeCorrect == Spec => []TypeOK
<1>1. IInv => TypeOK
    BY DEF IInv
<1>2. QED
    BY Invariant, <1>1, PTL

\* Table, settings.json and memory enable the same services between updates,
\* unless something went wrong since all three were last written.
THEOREM CopiesAlwaysAgree == Spec => []CopiesAgree
<1>1. IInv => CopiesAgree
    BY DEF IInv
<1>2. QED
    BY Invariant, <1>1, PTL

\* A supervisor with the last file runs what the API shows.
THEOREM ShownAlwaysRun == Spec => []ShownIsRun
<1>1. IInv => ShownIsRun
    BY DEF IInv, ShownIsRun, CopiesAgree, FollowSound
<1>2. QED
    BY Invariant, <1>1, PTL

\* The supervisor runs nothing for an update that was refused.
THEOREM RefusedNeverRun == Spec => []RefusedNotRun
<1>1. IInv => RefusedNotRun
    BY DEF IInv
<1>2. QED
    BY Invariant, <1>1, PTL

=============================================================================
