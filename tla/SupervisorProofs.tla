--------------------------- MODULE SupervisorProofs ---------------------------
(***************************************************************************)
(* Theorems about Supervisor, for any services, tables and host.           *)
(*                                                                         *)
(* ManagedCurrent and BlockedIsWaiting speak of the settled phases only.   *)
(* What carries them through a restart and a death of the supervisor is    *)
(* that the running map and the processes agree in every phase             *)
(* (RunningSound, NoLeakedChild) and that a supervisor that is down, or    *)
(* has just been started, manages nothing (NothingManaged).                *)
(***************************************************************************)
EXTENDS Supervisor, TLAPS

\* What the map says runs is a child of this supervisor that runs it.
RunningSound ==
    \A s \in Services : running[s] # NoPid =>
        /\ procs[running[s]] # Free
        /\ procs[running[s]].own
        /\ procs[running[s]].svc = s

NothingManaged ==
    pc \in {"down", "load"} => blocked = {} /\ \A s \in Services : running[s] = NoPid

IInv ==
    /\ TypeOK
    /\ RunningSound
    /\ NoLeakedChild
    /\ NothingManaged
    /\ ManagedCurrent
    /\ BlockedIsWaiting

-----------------------------------------------------------------------------
\* A process record is never the free slot, and each of its fields has its type.
LEMMA ProcessNotFree ==
    ASSUME NEW p \in Process
    PROVE  p # Free /\ p.st \in {"alive", "zombie"} /\ p.svc \in Services
           /\ p.ver \in Nat /\ p.own \in BOOLEAN
BY DEF Process, Free

\* The initial states satisfy the invariant.
LEMMA InitIInv == Init => IInv
<1> SUFFICES ASSUME Init PROVE IInv
    OBVIOUS
<1> USE ServicesAssumption, PidsAssumption DEF Init
<1>1. TypeOK
    BY DEF TypeOK, Phases, Process, Free, Fallback
<1>2. RunningSound /\ NoLeakedChild /\ NothingManaged
    BY DEF RunningSound, NoLeakedChild, NothingManaged, Exists
<1>3. ManagedCurrent /\ BlockedIsWaiting
    BY DEF ManagedCurrent, BlockedIsWaiting, Settled
<1>4. QED
    BY <1>1, <1>2, <1>3 DEF IInv

-----------------------------------------------------------------------------
\* Every step keeps the types.
LEMMA NextTypeOK == TypeOK /\ [Next]_vars => TypeOK'
<1> SUFFICES ASSUME TypeOK, [Next]_vars PROVE TypeOK'
    OBVIOUS
<1> USE ServicesAssumption, PidsAssumption DEF TypeOK, worldVars
<1>1. CASE LoadAtStart
    BY <1>1 DEF LoadAtStart, Loaded, Fallback, Phases
<1>2. CASE StampAtStart
    BY <1>2 DEF StampAtStart, Phases
<1>3. CASE ReapExited
    <2>1. running' \in [Services -> Pids \cup {NoPid}]
        BY <1>3 DEF ReapExited
    <2>2. procs' \in [Pids -> Process \cup {Free}]
        BY <1>3 DEF ReapExited
    <2>3. QED
        BY <1>3, <2>1, <2>2 DEF ReapExited, Phases
<1>4. CASE PollUnchanged \/ PollChanged \/ Reload \/ ReloadFails
    BY <1>4 DEF PollUnchanged, PollChanged, Reload, ReloadFails, Loaded, Phases
<1>5. CASE RestartDone
    BY <1>5 DEF RestartDone, Phases
<1>6. CASE ReconcileDone
    BY <1>6 DEF ReconcileDone, Phases, supervisorVars
<1>7. ASSUME NEW s \in Services, Stop(s) PROVE TypeOK'
    BY <1>7 DEF Stop, Collect
<1>8. ASSUME NEW s \in Services, Block(s) PROVE TypeOK'
    BY <1>8 DEF Block, Visit
<1>9. ASSUME NEW s \in Services, Start(s) PROVE TypeOK'
    <2>1. Child(s) \in Process
        BY DEF Child, Process
    <2>2. QED
        BY <1>9, <2>1 DEF Start, Visit, FreePids
<1>10. ASSUME NEW s \in Services, StartFails(s) PROVE TypeOK'
    BY <1>10 DEF StartFails, Visit
<1>11. ASSUME NEW s \in Services, Keep(s) PROVE TypeOK'
    <2>1. CASE ~Enabled(s) /\ running[s] # NoPid
        BY <1>11, <2>1 DEF Keep, Visit, Collect
    <2>2. CASE ~(~Enabled(s) /\ running[s] # NoPid)
        BY <1>11, <2>2 DEF Keep, Visit
    <2>3. QED
        BY <2>1, <2>2
<1>12. ASSUME NEW enabled \in SUBSET Services, NEW ok \in BOOLEAN, WriteSettings(enabled, ok)
       PROVE TypeOK'
    BY <1>12 DEF WriteSettings, supervisorVars
<1>13. ASSUME NEW t \in Tables, ToggleTable(t) PROVE TypeOK'
    BY <1>13 DEF ToggleTable, supervisorVars
<1>14. CASE ToggleDatabase
    BY <1>14 DEF ToggleDatabase, supervisorVars
<1>15. ASSUME NEW p \in Pids, Exit(p) PROVE TypeOK'
    <2>1. procs[p] \in Process
        BY <1>15 DEF Exit, Alive, Exists
    <2>2. [procs[p] EXCEPT !.st = "zombie"] \in Process
        BY <2>1 DEF Process
    <2>3. QED
        BY <1>15, <2>2 DEF Exit, supervisorVars
<1>16. ASSUME NEW groupKill \in BOOLEAN, Crash(groupKill) PROVE TypeOK'
    <2>1. ASSUME NEW p \in Pids, Alive(p) PROVE [procs[p] EXCEPT !.own = FALSE] \in Process
        BY ZenonT(30), <2>1 DEF Alive, Exists, Process
    <2>2. procs' \in [Pids -> Process \cup {Free}]
        BY <1>16, <2>1 DEF Crash
    <2>3. QED
        BY <1>16, <2>2, BoundsAssumption DEF Crash, Phases
<1>17. CASE StartSupervisor
    BY <1>17 DEF StartSupervisor, Phases
<1>18. CASE UNCHANGED vars
    BY <1>18 DEF vars
<1>19. QED
    BY ZenonT(30), <1>1, <1>2, <1>3, <1>4, <1>5, <1>6, <1>7, <1>8, <1>9, <1>10, <1>11, <1>12, <1>13,
       <1>14, <1>15, <1>16, <1>17, <1>18 DEF Next, Supervise, World

-----------------------------------------------------------------------------
\* The steps that start or collect a child, reap or die, one lemma each: what
\* they do to the agreement between the map and the processes.
LEMMA CollectSound ==
    ASSUME TypeOK, RunningSound, NoLeakedChild,
           NEW s \in Services, running[s] # NoPid, Collect(s)
    PROVE  RunningSound' /\ NoLeakedChild'
<1> USE DEF TypeOK
<1>1. ASSUME NEW t \in Services, t # s, running[t] # NoPid PROVE running[t] # running[s]
    BY <1>1 DEF RunningSound
<1>2. ASSUME NEW t \in Services, running'[t] # NoPid
      PROVE  t # s /\ running'[t] = running[t] /\ procs'[running'[t]] = procs[running[t]]
    BY <1>1, <1>2 DEF Collect
<1>3. RunningSound'
    BY <1>2 DEF RunningSound
<1>4. ASSUME NEW p \in Pids, procs'[p] # Free, procs'[p].own
      PROVE  running'[procs'[p].svc] = p
    <2>1. p # running[s] /\ procs'[p] = procs[p]
        BY <1>4 DEF Collect
    <2>2. running[procs[p].svc] = p /\ procs[p].svc \in Services
        BY <2>1, <1>4, ProcessNotFree DEF NoLeakedChild, Exists
    <2>3. procs[p].svc # s
        BY <2>1, <2>2
    <2>4. QED
        BY <2>1, <2>2, <2>3 DEF Collect
<1>5. QED
    BY <1>3, <1>4 DEF NoLeakedChild, Exists

LEMMA StartSound ==
    ASSUME TypeOK, RunningSound, NoLeakedChild, NEW s \in Services, Start(s)
    PROVE  RunningSound' /\ NoLeakedChild'
<1> USE DEF TypeOK
<1>1. PICK p \in FreePids :
        /\ procs' = [procs EXCEPT ![p] = Child(s)]
        /\ running' = [running EXCEPT ![s] = p]
    BY DEF Start
<1>2. p \in Pids /\ procs[p] = Free
    BY DEF FreePids
<1>3. Child(s) \in Process /\ Child(s).own /\ Child(s).svc = s
    BY DEF Child, Process
<1>4. Child(s) # Free
    BY <1>3, ProcessNotFree
<1>5. RunningSound'
    <2>1. ASSUME NEW t \in Services, t # s, running'[t] # NoPid
          PROVE  running'[t] = running[t] /\ running[t] # p
        BY <1>1, <1>2, <2>1 DEF RunningSound
    <2>2. QED
        BY <1>1, <1>2, <1>3, <1>4, <2>1 DEF RunningSound
<1>6. ASSUME NEW q \in Pids, procs'[q] # Free, procs'[q].own
      PROVE  running'[procs'[q].svc] = q
    <2>1. CASE q = p
        BY <1>1, <1>2, <1>3, <2>1
    <2>2. CASE q # p
        <3>1. procs'[q] = procs[q]
            BY <1>1, <2>2
        <3>2. running[procs[q].svc] = q /\ procs[q].svc \in Services
            BY <3>1, <1>6, ProcessNotFree DEF NoLeakedChild, Exists
        <3>3. procs[q].svc # s
            BY <3>2, PidsAssumption DEF Start
        <3>4. QED
            BY <1>1, <3>1, <3>2, <3>3
    <2>3. QED
        BY <2>1, <2>2
<1>7. QED
    BY <1>5, <1>6 DEF NoLeakedChild, Exists

LEMMA ReapSound ==
    ASSUME TypeOK, RunningSound, NoLeakedChild, ReapExited
    PROVE  /\ RunningSound' /\ NoLeakedChild'
           /\ \A s \in Services : running'[s] # NoPid =>
                 running'[s] = running[s] /\ procs'[running'[s]] = procs[running[s]]
<1> USE DEF TypeOK
<1> DEFINE exited == {s \in Services : running[s] # NoPid /\ procs[running[s]].st = "zombie"}
<1>1. /\ running' = [s \in Services |-> IF s \in exited THEN NoPid ELSE running[s]]
      /\ procs' = [p \in Pids |-> IF \E s \in exited : running[s] = p THEN Free ELSE procs[p]]
    BY DEF ReapExited
<1>2. ASSUME NEW s \in Services, running'[s] # NoPid
      PROVE  running'[s] = running[s] /\ procs'[running'[s]] = procs[running[s]]
    <2>1. s \notin exited /\ running'[s] = running[s]
        BY <1>1, <1>2
    <2>2. ASSUME NEW t \in exited PROVE running[t] # running[s]
        BY <2>1, <1>2, <2>2 DEF RunningSound
    <2>3. QED
        BY <1>1, <1>2, <2>1, <2>2
<1>3. ASSUME NEW p \in Pids, procs'[p] # Free, procs'[p].own
      PROVE  running'[procs'[p].svc] = p
    <2>1. procs'[p] = procs[p] /\ ~ \E s \in exited : running[s] = p
        BY <1>1, <1>3
    <2>2. running[procs[p].svc] = p /\ procs[p].svc \in Services
        BY <2>1, <1>3, ProcessNotFree DEF NoLeakedChild, Exists
    <2>3. QED
        BY <1>1, <2>1, <2>2
<1>4. RunningSound'
    BY <1>2 DEF RunningSound
<1>5. QED
    BY <1>2, <1>3, <1>4 DEF NoLeakedChild, Exists

\* A child that exits stays the same service's child, with the same environment.
LEMMA ExitKeepsChild ==
    ASSUME TypeOK, NEW p \in Pids, Exit(p)
    PROVE  /\ procs' \in [Pids -> Process \cup {Free}]
           /\ \A q \in Pids : procs[q] # Free /\ procs[q].own =>
                 /\ procs'[q] # Free /\ procs'[q].own
                 /\ procs'[q].svc = procs[q].svc /\ procs'[q].ver = procs[q].ver
           /\ \A q \in Pids : procs'[q] # Free /\ procs'[q].own =>
                 procs[q] # Free /\ procs[q].own
<1> USE DEF TypeOK
<1>1. procs[p] \in Process
    BY DEF Exit, Alive, Exists
<1> DEFINE gone == [procs[p] EXCEPT !.st = "zombie"]
<1>2. gone \in Process /\ gone.own = procs[p].own /\ gone.svc = procs[p].svc
      /\ gone.ver = procs[p].ver
    BY <1>1 DEF Process
<1>3. gone # Free
    BY <1>2, ProcessNotFree
<1>4. procs' = [procs EXCEPT ![p] = IF procs[p].own THEN gone ELSE Free]
    BY DEF Exit
<1> HIDE DEF gone
<1>5. CASE procs[p].own
    <2>1. procs' = [procs EXCEPT ![p] = gone]
        BY <1>4, <1>5
    <2>2. \A q \in Pids : q # p => procs'[q] = procs[q]
        BY <2>1
    <2>3. procs'[p] = gone
        BY <2>1
    <2>4. procs' \in [Pids -> Process \cup {Free}]
        BY <1>2, <2>1
    <2>5. QED
        BY <1>2, <1>3, <1>5, <2>2, <2>3, <2>4, ProcessNotFree, <1>1
<1>6. CASE ~procs[p].own
    <2>1. procs' = [procs EXCEPT ![p] = Free]
        BY <1>4, <1>6
    <2>2. \A q \in Pids : q # p => procs'[q] = procs[q]
        BY <2>1
    <2>3. procs'[p] = Free
        BY <2>1
    <2>4. QED
        BY <1>6, <2>1, <2>2, <2>3
<1>7. QED
    BY <1>5, <1>6

-----------------------------------------------------------------------------
\* The map and the processes agree after every step.
LEMMA NextSound ==
    ASSUME IInv, [Next]_vars
    PROVE  RunningSound' /\ NoLeakedChild' /\ NothingManaged'
<1> USE DEF IInv, worldVars
<1>1. CASE LoadAtStart
    <2>1. \A p \in Pids : ~(procs[p] # Free /\ procs[p].own)
        BY <1>1, ProcessNotFree, PidsAssumption
           DEF LoadAtStart, NothingManaged, NoLeakedChild, Exists, TypeOK
    <2>2. QED
        BY <1>1, <2>1 DEF LoadAtStart, RunningSound, NoLeakedChild, NothingManaged, Exists
<1>2. CASE \/ StampAtStart \/ PollUnchanged \/ PollChanged \/ Reload \/ ReloadFails
           \/ RestartDone \/ ReconcileDone
    BY <1>2 DEF StampAtStart, PollUnchanged, PollChanged, Reload, ReloadFails, RestartDone,
       ReconcileDone, supervisorVars, RunningSound, NoLeakedChild, NothingManaged, Exists
<1>3. CASE ReapExited
    BY <1>3, ReapSound DEF ReapExited, NothingManaged
<1>4. ASSUME NEW s \in Services, Stop(s) PROVE RunningSound' /\ NoLeakedChild' /\ NothingManaged'
    BY <1>4, CollectSound DEF Stop, NothingManaged
<1>5. ASSUME NEW s \in Services, Block(s) \/ StartFails(s)
      PROVE  RunningSound' /\ NoLeakedChild' /\ NothingManaged'
    BY <1>5 DEF Block, StartFails, Visit, RunningSound, NoLeakedChild, NothingManaged, Exists
<1>6. ASSUME NEW s \in Services, Start(s) PROVE RunningSound' /\ NoLeakedChild' /\ NothingManaged'
    BY <1>6, StartSound DEF Start, Visit, NothingManaged
<1>7. ASSUME NEW s \in Services, Keep(s) PROVE RunningSound' /\ NoLeakedChild' /\ NothingManaged'
    <2>1. CASE ~Enabled(s) /\ running[s] # NoPid
        BY <1>7, <2>1, CollectSound DEF Keep, Visit, NothingManaged
    <2>2. CASE ~(~Enabled(s) /\ running[s] # NoPid)
        BY <1>7, <2>2 DEF Keep, Visit, RunningSound, NoLeakedChild, NothingManaged, Exists
    <2>3. QED
        BY <2>1, <2>2
<1>8. ASSUME NEW enabled \in SUBSET Services, NEW ok \in BOOLEAN, WriteSettings(enabled, ok)
      PROVE  RunningSound' /\ NoLeakedChild' /\ NothingManaged'
    BY <1>8 DEF WriteSettings, supervisorVars, RunningSound, NoLeakedChild, NothingManaged, Exists
<1>9. ASSUME NEW t \in Tables, ToggleTable(t)
      PROVE  RunningSound' /\ NoLeakedChild' /\ NothingManaged'
    BY <1>9 DEF ToggleTable, supervisorVars, RunningSound, NoLeakedChild, NothingManaged, Exists
<1>10. CASE ToggleDatabase \/ UNCHANGED vars
    BY <1>10 DEF ToggleDatabase, supervisorVars, vars, RunningSound, NoLeakedChild,
       NothingManaged, Exists
<1>11. ASSUME NEW p \in Pids, Exit(p) PROVE RunningSound' /\ NoLeakedChild' /\ NothingManaged'
    <2>1. running' = running /\ blocked' = blocked /\ pc' = pc
        BY <1>11 DEF Exit, supervisorVars
    <2>2. RunningSound'
        BY <2>1, <1>11, ExitKeepsChild DEF RunningSound, TypeOK
    <2>3. NoLeakedChild'
        BY <2>1, <1>11, ExitKeepsChild DEF NoLeakedChild, Exists
    <2>4. QED
        BY <2>1, <2>2, <2>3 DEF NothingManaged
<1>12. ASSUME NEW groupKill \in BOOLEAN, Crash(groupKill)
       PROVE  RunningSound' /\ NoLeakedChild' /\ NothingManaged'
    <2>1. ASSUME NEW p \in Pids, procs'[p] # Free PROVE ~procs'[p].own
        <3>1. procs'[p] = [procs[p] EXCEPT !.own = FALSE] /\ procs[p] \in Process
            BY <1>12, <2>1 DEF Crash, Alive, Exists, TypeOK
        <3>2. QED
            BY <3>1 DEF Process
    <2>2. QED
        BY <1>12, <2>1 DEF Crash, RunningSound, NoLeakedChild, NothingManaged, Exists
<1>13. CASE StartSupervisor
    BY <1>13 DEF StartSupervisor, RunningSound, NoLeakedChild, NothingManaged, Exists
<1>14. QED
    BY <1>1, <1>2, <1>3, <1>4, <1>5, <1>6, <1>7, <1>8, <1>9, <1>10, <1>11, <1>12, <1>13
       DEF Next, Supervise, World

-----------------------------------------------------------------------------
\* Once a pass of reconcile began, what runs and what is blocked fit the
\* configuration after every step.
LEMMA NextCurrent ==
    ASSUME IInv, [Next]_vars
    PROVE  ManagedCurrent' /\ BlockedIsWaiting'
<1> USE DEF IInv, worldVars, Settled, Phases, Enabled
<1>1. CASE LoadAtStart
    BY <1>1 DEF LoadAtStart, ManagedCurrent, BlockedIsWaiting
<1>2. CASE \/ StampAtStart \/ PollUnchanged \/ PollChanged \/ Reload \/ ReloadFails
           \/ RestartDone \/ ReconcileDone
    BY <1>2 DEF StampAtStart, PollUnchanged, PollChanged, Reload, ReloadFails, RestartDone,
       ReconcileDone, supervisorVars, ManagedCurrent, BlockedIsWaiting
<1>3. CASE ReapExited
    <2>1. pc \in Settled /\ config' = config /\ blocked' = blocked
        BY <1>3 DEF ReapExited
    <2>2. \A s \in Services : running'[s] # NoPid =>
             running'[s] = running[s] /\ procs'[running'[s]] = procs[running[s]]
        BY <1>3, ReapSound
    <2>3. ManagedCurrent'
        BY <2>1, <2>2 DEF ManagedCurrent
    <2>4. BlockedIsWaiting'
        BY <2>1, <2>2 DEF BlockedIsWaiting, TypeOK
    <2>5. QED
        BY <2>3, <2>4
<1>4. ASSUME NEW s \in Services, Stop(s) PROVE ManagedCurrent' /\ BlockedIsWaiting'
    BY <1>4 DEF Stop, ManagedCurrent, BlockedIsWaiting
<1>5. ASSUME NEW s \in Services, Block(s) \/ StartFails(s)
      PROVE  ManagedCurrent' /\ BlockedIsWaiting'
    BY <1>5 DEF Block, StartFails, Visit, ManagedCurrent, BlockedIsWaiting, TypeOK
<1>6. ASSUME NEW s \in Services, Start(s) PROVE ManagedCurrent' /\ BlockedIsWaiting'
    <2>1. PICK p \in FreePids :
            /\ procs' = [procs EXCEPT ![p] = Child(s)]
            /\ running' = [running EXCEPT ![s] = p]
        BY <1>6 DEF Start
    <2>2. p \in Pids /\ procs[p] = Free
        BY DEF FreePids
    <2>3. Child(s) # Free /\ Child(s).own /\ Child(s).svc = s /\ Child(s).ver = config.ver
        <3>1. Child(s) \in Process
            BY DEF Child, Process, TypeOK
        <3>2. QED
            BY <3>1, ProcessNotFree DEF Child
    <2>4. \A t \in Services : t # s /\ running[t] # NoPid => running[t] # p
        BY <2>2 DEF RunningSound
    <2>5. pc' = pc /\ config' = config /\ blocked' = blocked \ {s}
        BY <1>6 DEF Start, Visit
    <2>6. ManagedCurrent'
        <3>1. SUFFICES ASSUME pc \in Settled', NEW t \in Services, running'[t] # NoPid
              PROVE  /\ procs'[running'[t]] # Free
                     /\ procs'[running'[t]].own /\ procs'[running'[t]].svc = t
                     /\ procs'[running'[t]].ver = config.ver
                     /\ t \in config.enabled
            BY <2>5 DEF ManagedCurrent
        <3>2. CASE t = s
            BY <1>6, <2>1, <2>2, <2>3, <3>1, <3>2 DEF Start, TypeOK
        <3>3. CASE t # s
            <4>1. running'[t] = running[t] /\ running[t] # NoPid /\ running[t] # p
                BY <2>1, <2>4, <3>1, <3>3 DEF TypeOK
            <4>2. procs'[running'[t]] = procs[running[t]]
                BY <2>1, <4>1 DEF TypeOK
            <4>3. QED
                BY <3>1, <4>1, <4>2 DEF ManagedCurrent
        <3>4. QED
            BY <3>2, <3>3
    <2>7. BlockedIsWaiting'
        BY <2>1, <2>5 DEF BlockedIsWaiting, TypeOK
    <2>8. QED
        BY <2>6, <2>7
<1>7. ASSUME NEW s \in Services, Keep(s) PROVE ManagedCurrent' /\ BlockedIsWaiting'
    \* A service that runs is enabled in a settled phase: reconcile stops nothing.
    <2>1. ~(~Enabled(s) /\ running[s] # NoPid)
        BY <1>7 DEF Keep, Visit, ManagedCurrent
    <2>2. QED
        BY <1>7, <2>1 DEF Keep, Visit, ManagedCurrent, BlockedIsWaiting
<1>8. ASSUME NEW enabled \in SUBSET Services, NEW ok \in BOOLEAN, WriteSettings(enabled, ok)
      PROVE  ManagedCurrent' /\ BlockedIsWaiting'
    BY <1>8 DEF WriteSettings, supervisorVars, ManagedCurrent, BlockedIsWaiting
<1>9. ASSUME NEW t \in Tables, ToggleTable(t) PROVE ManagedCurrent' /\ BlockedIsWaiting'
    BY <1>9 DEF ToggleTable, supervisorVars, ManagedCurrent, BlockedIsWaiting
<1>10. CASE ToggleDatabase \/ UNCHANGED vars
    BY <1>10 DEF ToggleDatabase, supervisorVars, vars, ManagedCurrent, BlockedIsWaiting
<1>11. ASSUME NEW p \in Pids, Exit(p) PROVE ManagedCurrent' /\ BlockedIsWaiting'
    <2>1. running' = running /\ blocked' = blocked /\ pc' = pc /\ config' = config
        BY <1>11 DEF Exit, supervisorVars
    <2>2. ManagedCurrent'
        BY <2>1, <1>11, ExitKeepsChild DEF ManagedCurrent, TypeOK
    <2>3. QED
        BY <2>1, <2>2 DEF BlockedIsWaiting
<1>12. ASSUME NEW groupKill \in BOOLEAN, Crash(groupKill)
       PROVE  ManagedCurrent' /\ BlockedIsWaiting'
    BY <1>12 DEF Crash, ManagedCurrent, BlockedIsWaiting
<1>13. CASE StartSupervisor
    BY <1>13 DEF StartSupervisor, ManagedCurrent, BlockedIsWaiting
<1>14. QED
    BY <1>1, <1>2, <1>3, <1>4, <1>5, <1>6, <1>7, <1>8, <1>9, <1>10, <1>11, <1>12, <1>13
       DEF Next, Supervise, World

-----------------------------------------------------------------------------
\* The invariant holds of every behaviour.
THEOREM Invariant == Spec => []IInv
<1>1. Init => IInv
    BY InitIInv
<1>2. IInv /\ [Next]_vars => IInv'
    BY NextTypeOK, NextSound, NextCurrent DEF IInv
<1>3. QED
    BY <1>1, <1>2, PTL DEF Spec

\* The variables keep their types, for any number of services and processes.
THEOREM TypeCorrect == Spec => []TypeOK
<1>1. IInv => TypeOK
    BY DEF IInv
<1>2. QED
    BY <1>1, Invariant, PTL

\* No managed daemon keeps running with old settings (restart_all, reconcile):
\* in particular the branch of reconcile that stops a disabled service is dead.
\* And no child is forgotten, none is started twice.
THEOREM ChildrenAlwaysMatch == Spec => []ChildrenMatch
<1>1. IInv => ChildrenMatch
    BY DEF IInv, ChildrenMatch
<1>2. QED
    BY <1>1, Invariant, PTL

\* A service reported as blocked is wanted and does not run.
THEOREM BlockedAlwaysWaiting == Spec => []BlockedIsWaiting
<1>1. IInv => BlockedIsWaiting
    BY DEF IInv
<1>2. QED
    BY <1>1, Invariant, PTL

\* A block is lifted by the prerequisites, by a reload or by the supervisor's
\* death, and by nothing else.
THEOREM BlocksPersist == Spec => BlockPersists
<1> DEFINE Lift == \A s \in blocked : s \notin blocked' => CanStart(s) \/ pc = "restart" \/ pc' = "down"
<1>1. IInv /\ [Next]_vars => [Lift]_vars
    <2> SUFFICES ASSUME IInv, Next PROVE Lift
        BY DEF IInv
    <2> USE DEF worldVars, supervisorVars
    <2>1. CASE LoadAtStart
        BY <2>1 DEF LoadAtStart, IInv, NothingManaged
    <2>2. CASE \/ StampAtStart \/ ReapExited \/ PollUnchanged \/ PollChanged \/ Reload
               \/ ReloadFails \/ RestartDone \/ ReconcileDone
        BY <2>2 DEF StampAtStart, ReapExited, PollUnchanged, PollChanged, Reload, ReloadFails,
           RestartDone, ReconcileDone
    <2>3. ASSUME NEW s \in Services, Stop(s) \/ Block(s) \/ Start(s) \/ StartFails(s) PROVE Lift
        BY <2>3 DEF Stop, Block, Start, StartFails
    <2>4. ASSUME NEW s \in Services, Keep(s) PROVE Lift
        <3>1. ~(~Enabled(s) /\ running[s] # NoPid)
            BY <2>4 DEF Keep, Visit, IInv, ManagedCurrent, Settled, Phases
        <3>2. QED
            BY <2>4, <3>1 DEF Keep
    <2>5. CASE StartSupervisor \/ World
        BY <2>5 DEF StartSupervisor, World, WriteSettings, ToggleTable, ToggleDatabase, Exit, Crash
    <2>6. QED
        BY <2>1, <2>2, <2>3, <2>4, <2>5 DEF Next, Supervise
<1>2. QED
    BY <1>1, Invariant, PTL DEF Spec, BlockPersists

-----------------------------------------------------------------------------
\* The loop implements the abstract follower of settings.json: it takes what
\* the file holds, whole, at its start and at a reload, and never otherwise.
THEOREM ImplementsFollower == Spec => FollowsFile
<1> USE DEF Follows!followed
<1>1. Init => Follows!FollowerInit
    BY DEF Init, Fallback, Follows!FollowerInit, Follows!NoFile, Follows!Fallback
<1>2. [Next]_vars => [Follows!FollowerNext]_<<file, config>>
    <2> SUFFICES ASSUME [Next]_vars
                 PROVE  Follows!FollowerNext \/ UNCHANGED <<file, config>>
        BY DEF Follows!followed
    <2> USE DEF worldVars, supervisorVars
    <2>1. CASE LoadAtStart
        BY <2>1 DEF LoadAtStart, Readable, Loaded, Fallback, Follows!FollowerNext, Follows!Adopt,
                    Follows!Readable, Follows!Loaded, Follows!Fallback
    <2>2. CASE Reload
        BY <2>2 DEF Reload, Readable, Loaded, Follows!FollowerNext, Follows!Adopt,
                    Follows!Readable, Follows!Loaded
    <2>3. ASSUME NEW enabled \in SUBSET Services, NEW ok \in BOOLEAN, WriteSettings(enabled, ok)
          PROVE  Follows!FollowerNext
        BY <2>3 DEF WriteSettings, Follows!FollowerNext, Follows!Save
    <2>4. CASE \/ StampAtStart \/ ReapExited \/ PollUnchanged \/ PollChanged \/ ReloadFails
               \/ RestartDone \/ ReconcileDone
        BY <2>4 DEF StampAtStart, ReapExited, PollUnchanged, PollChanged, ReloadFails, RestartDone,
                    ReconcileDone
    <2>5. ASSUME NEW s \in Services, Stop(s) \/ Block(s) \/ Start(s) \/ StartFails(s) \/ Keep(s)
          PROVE  UNCHANGED <<file, config>>
        BY <2>5 DEF Stop, Block, Start, StartFails, Keep, Visit
    <2>6. CASE World /\ ~\E enabled \in SUBSET Services, ok \in BOOLEAN : WriteSettings(enabled, ok)
        BY <2>6 DEF World, ToggleTable, ToggleDatabase, Exit, Crash
    <2>7. CASE StartSupervisor
        BY <2>7 DEF StartSupervisor
    <2>8. CASE UNCHANGED vars
        BY <2>8 DEF vars
    <2>9. QED
        BY <2>1, <2>2, <2>3, <2>4, <2>5, <2>6, <2>7, <2>8 DEF Next, Supervise, World
<1>3. QED
    BY <1>1, <1>2, PTL DEF Spec, FollowsFile, Follows!FollowerSpec

=============================================================================
