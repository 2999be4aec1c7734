--------------------------- MODULE MigrationsProofs ---------------------------
(***************************************************************************)
(* The safety properties of Migrations for every number of hosts, files,   *)
(* attempts and faults.  What carries them is what a host knows between    *)
(* the statements of apply_migrations: the files it has left include every *)
(* file that is not applied, the one it runs is the first of them, and a   *)
(* version it has inserted is its own until it commits.                    *)
(***************************************************************************)
EXTENDS Migrations, TLAPS

\* A host that made its list misses no file: applied only grows after it.
PendingSound ==
    \A h \in Hosts : pc[h] # "plan" => Files \ applied \subseteq pending[h]

\* An open transaction runs the first of the files that are left.
TxnSound ==
    \A h \in Hosts : txn[h] # 0 =>
        /\ pc[h] \in {"record", "commit"}
        /\ txn[h] \in pending[h]
        /\ \A f \in pending[h] : txn[h] <= f

\* A version inserted and not committed is not applied; one about to be
\* committed has been inserted.
RecordedSound ==
    \A h \in Hosts :
        /\ recorded[h] => txn[h] # 0 /\ txn[h] \notin applied
        /\ pc[h] = "commit" /\ txn[h] # 0 => recorded[h]

\* No two open transactions have inserted the same version.
RecordedOnce ==
    \A g, h \in Hosts : g # h /\ recorded[g] /\ recorded[h] => txn[g] # txn[h]

IInv ==
    /\ TypeOK
    /\ PendingSound
    /\ TxnSound
    /\ RecordedSound
    /\ RecordedOnce
    /\ AppliedOnce
    /\ AppliedInOrder
    /\ ServesMigrated

-----------------------------------------------------------------------------
\* The initial states satisfy the inductive invariant.
LEMMA InitIInv == Init => IInv
<1>. SUFFICES ASSUME Init PROVE IInv
  OBVIOUS
<1>1. TypeOK
  <2>1. times \in [Files -> Nat] /\ txn \in [Hosts -> Files \cup {0}]
    BY DEF Init
  <2>2. pending \in [Hosts -> SUBSET Files] /\ applied \subseteq Files
    BY DEF Init
  <2>3. attempt \in [Hosts -> 1 .. Attempts]
    BY MigrationsAssumption DEF Init
  <2>. QED
    BY <2>1, <2>2, <2>3 DEF Init, TypeOK
<1>2. PendingSound /\ TxnSound /\ RecordedSound /\ RecordedOnce
  BY DEF Init, PendingSound, TxnSound, RecordedSound, RecordedOnce
<1>3. AppliedOnce /\ AppliedInOrder /\ ServesMigrated
  BY DEF Init, AppliedOnce, AppliedInOrder, ServesMigrated
<1>. QED
  BY <1>1, <1>2, <1>3 DEF IInv

\* How the invariant survives a pass that throws, or a host that dies: its
\* connection closes, it forgets its list, and it does not serve by it.
LEMMA AbortIInv ==
  ASSUME IInv, NEW h \in Hosts,
         Close(h),
         pending' = [pending EXCEPT ![h] = {}],
         pc' = [pc EXCEPT ![h] = "plan"],
         NEW X \in {"ctl", "api"}, stage' = [stage EXCEPT ![h] = X],
         NEW Y \in 1 .. Attempts, attempt' = [attempt EXCEPT ![h] = Y],
         UNCHANGED <<dbUp, applied, times>>,
         table' \in BOOLEAN, faults' \in Nat
  PROVE  IInv'
<1>1. TypeOK'
  BY MigrationsAssumption DEF IInv, TypeOK, Close
<1>2. PendingSound'
  BY DEF IInv, TypeOK, PendingSound, Files
<1>3. TxnSound'
  BY DEF IInv, TypeOK, TxnSound, Close
<1>4. RecordedSound'
  BY DEF IInv, TypeOK, RecordedSound, Close
<1>5. RecordedOnce'
  BY DEF IInv, TypeOK, RecordedOnce, Close
<1>6. AppliedOnce' /\ AppliedInOrder'
  BY DEF IInv, AppliedOnce, AppliedInOrder
<1>7. ServesMigrated'
  BY DEF IInv, TypeOK, ServesMigrated
<1>. QED
  BY <1>1, <1>2, <1>3, <1>4, <1>5, <1>6, <1>7 DEF IInv

\* What Fail does is such an abort.
LEMMA FailIInv ==
  ASSUME IInv, NEW h \in Hosts, Fail(h),
         UNCHANGED <<dbUp, applied, times>>, table' \in BOOLEAN, faults' \in Nat
  PROVE  IInv'
<1>. DEFINE X == IF stage[h] = "ctl" /\ attempt[h] = Attempts THEN "api" ELSE "ctl"
            Y == IF stage[h] = "ctl" /\ attempt[h] < Attempts THEN attempt[h] + 1 ELSE 1
<1>1. X \in {"ctl", "api"}
  OBVIOUS
<1>2. Y \in 1 .. Attempts
  BY MigrationsAssumption DEF IInv, TypeOK
<1>3. /\ Close(h)
      /\ pending' = [pending EXCEPT ![h] = {}]
      /\ pc' = [pc EXCEPT ![h] = "plan"]
      /\ stage' = [stage EXCEPT ![h] = X]
      /\ attempt' = [attempt EXCEPT ![h] = Y]
  BY DEF Fail, IInv, TypeOK
<1>. HIDE DEF X, Y
<1>. QED
  BY <1>1, <1>2, <1>3, AbortIInv

\* Every step preserves the inductive invariant.
LEMMA NextIInv == IInv /\ [Next]_vars => IInv'
<1>. SUFFICES ASSUME IInv, [Next]_vars PROVE IInv'
  OBVIOUS
<1>. USE MigrationsAssumption
<1>1. ASSUME NEW h \in Hosts, Plan(h) PROVE IInv'
  <2>1. TypeOK'
    BY <1>1 DEF IInv, TypeOK, Plan, program
  <2>2. PendingSound'
    BY <1>1 DEF IInv, TypeOK, PendingSound, Plan
  <2>3. TxnSound'
    BY <1>1 DEF IInv, TypeOK, TxnSound, Plan
  <2>4. RecordedSound' /\ RecordedOnce'
    BY <1>1 DEF IInv, TypeOK, RecordedSound, RecordedOnce, Plan
  <2>5. AppliedOnce' /\ AppliedInOrder' /\ ServesMigrated'
    BY <1>1 DEF IInv, AppliedOnce, AppliedInOrder, ServesMigrated, Plan, program
  <2>. QED
    BY <2>1, <2>2, <2>3, <2>4, <2>5 DEF IInv
<1>2. ASSUME NEW h \in Hosts, PlanFails(h) PROVE IInv'
  <2>1. table' \in BOOLEAN /\ faults' \in Nat /\ Fail(h) /\ UNCHANGED <<dbUp, applied, times>>
    BY <1>2 DEF IInv, TypeOK, PlanFails
  <2>. QED
    BY <2>1, FailIInv
<1>3. ASSUME NEW h \in Hosts, RunFile(h) PROVE IInv'
  <2>. PICK f \in pending[h] :
         /\ \A g \in pending[h] : f <= g
         /\ txn' = [txn EXCEPT ![h] = f]
    BY <1>3 DEF RunFile
  <2>. f \in Files
    BY DEF IInv, TypeOK
  <2>a. ~recorded[h]
    BY <1>3 DEF IInv, TypeOK, TxnSound, RecordedSound, RunFile
  <2>1. TypeOK'
    BY <1>3 DEF IInv, TypeOK, RunFile, database, program
  <2>2. PendingSound'
    BY <1>3 DEF IInv, TypeOK, PendingSound, RunFile, database
  <2>3. TxnSound'
    BY <1>3 DEF IInv, TypeOK, TxnSound, RunFile
  <2>4. RecordedSound' /\ RecordedOnce'
    BY <1>3, <2>a DEF IInv, TypeOK, RecordedSound, RecordedOnce, RunFile, database
  <2>5. AppliedOnce' /\ AppliedInOrder' /\ ServesMigrated'
    BY <1>3 DEF IInv, AppliedOnce, AppliedInOrder, ServesMigrated, RunFile, database, program
  <2>. QED
    BY <2>1, <2>2, <2>3, <2>4, <2>5 DEF IInv
<1>4. ASSUME NEW h \in Hosts, Record(h) PROVE IInv'
  <2>1. TypeOK'
    BY <1>4 DEF IInv, TypeOK, Record, database, program
  <2>2. PendingSound'
    BY <1>4 DEF IInv, TypeOK, PendingSound, Record, database
  <2>3. TxnSound'
    BY <1>4 DEF IInv, TypeOK, TxnSound, Record
  <2>4. RecordedSound' /\ RecordedOnce'
    BY <1>4 DEF IInv, TypeOK, RecordedSound, RecordedOnce, Record, database
  <2>5. AppliedOnce' /\ AppliedInOrder' /\ ServesMigrated'
    BY <1>4 DEF IInv, AppliedOnce, AppliedInOrder, ServesMigrated, Record, database, program
  <2>. QED
    BY <2>1, <2>2, <2>3, <2>4, <2>5 DEF IInv
<1>5. ASSUME NEW h \in Hosts, Commit(h) PROVE IInv'
  <2>. DEFINE f == txn[h]
  <2>a. f \in Files /\ f \in pending[h] /\ (\A g \in pending[h] : f <= g)
    BY <1>5 DEF IInv, TypeOK, TxnSound, Commit
  <2>b. recorded[h] /\ f \notin applied
    BY <1>5 DEF IInv, RecordedSound, Commit
  <2>1. TypeOK'
    <3>1. times' \in [Files -> Nat] /\ applied' \subseteq Files
      BY <1>5, <2>a DEF IInv, TypeOK, Commit
    <3>2. pending' \in [Hosts -> SUBSET Files]
      BY <1>5 DEF IInv, TypeOK, Commit
    <3>3. txn' \in [Hosts -> Files \cup {0}] /\ recorded' \in [Hosts -> BOOLEAN]
      BY <1>5 DEF IInv, TypeOK, Commit, Close
    <3>4. pc' \in [Hosts -> {"plan", "next", "record", "commit"}]
      BY <1>5 DEF IInv, TypeOK, Commit
    <3>5. UNCHANGED <<dbUp, table, stage, attempt, faults>>
      BY <1>5 DEF Commit, program
    <3>. QED
      BY <3>1, <3>2, <3>3, <3>4, <3>5 DEF IInv, TypeOK
  <2>2. PendingSound'
    BY <1>5 DEF IInv, TypeOK, PendingSound, Commit
  <2>3. TxnSound'
    BY <1>5 DEF IInv, TypeOK, TxnSound, Commit, Close
  <2>4. RecordedSound'
    BY <1>5, <2>b DEF IInv, TypeOK, RecordedSound, RecordedOnce, Commit, Close
  <2>5. RecordedOnce'
    BY <1>5 DEF IInv, TypeOK, RecordedOnce, Commit, Close
  <2>6. AppliedOnce'
    BY <1>5, <2>a, <2>b DEF IInv, TypeOK, AppliedOnce, Commit, Files
  <2>7. AppliedInOrder'
    <3>1. \A g \in Files : g < f => g \in applied
      <4>. SUFFICES ASSUME NEW g \in Files, g < f, g \notin applied PROVE FALSE
        OBVIOUS
      <4>1. f \in Nat /\ g \in Nat
        BY <2>a DEF Files
      <4>2. g \in pending[h]
        BY <1>5 DEF IInv, PendingSound, Commit
      <4>3. f <= g
        BY <2>a, <4>2
      <4>. HIDE DEF f
      <4>. QED
        BY <4>1, <4>3
    <3>. QED
      BY <1>5, <3>1 DEF IInv, AppliedInOrder, Commit
  <2>8. ServesMigrated'
    BY <1>5, <2>a DEF IInv, ServesMigrated, Commit, program
  <2>. QED
    BY <2>1, <2>2, <2>3, <2>4, <2>5, <2>6, <2>7, <2>8 DEF IInv
<1>6. ASSUME NEW h \in Hosts, PassFails(h) PROVE IInv'
  <2>1. table' \in BOOLEAN /\ faults' \in Nat /\ Fail(h) /\ UNCHANGED <<dbUp, applied, times>>
    BY <1>6 DEF IInv, TypeOK, PassFails, database
  <2>. QED
    BY <2>1, FailIInv
<1>7. ASSUME NEW h \in Hosts, Finish(h) PROVE IInv'
  <2>a. applied = Files /\ txn[h] = 0
    BY <1>7 DEF IInv, TypeOK, PendingSound, TxnSound, Finish
  <2>1. TypeOK'
    <3>1. pc' \in [Hosts -> {"plan", "next", "record", "commit"}]
      BY <1>7 DEF IInv, TypeOK, Finish
    <3>2. stage' \in [Hosts -> {"ctl", "api", "serving"}]
      <4>. DEFINE X == IF stage[h] = "ctl" THEN "api" ELSE "serving"
      <4>1. stage' = [stage EXCEPT ![h] = X] /\ X \in {"ctl", "api", "serving"}
        BY <1>7 DEF Finish
      <4>. HIDE DEF X
      <4>. QED
        BY <4>1 DEF IInv, TypeOK
    <3>3. UNCHANGED <<dbUp, table, applied, times, attempt, pending, txn, recorded, faults>>
      BY <1>7 DEF Finish, database
    <3>. QED
      BY <3>1, <3>2, <3>3 DEF IInv, TypeOK
  <2>2. PendingSound'
    BY <1>7 DEF IInv, TypeOK, PendingSound, Finish, database
  <2>3. TxnSound'
    BY <1>7, <2>a DEF IInv, TypeOK, TxnSound, Finish
  <2>4. RecordedSound' /\ RecordedOnce'
    BY <1>7 DEF IInv, TypeOK, RecordedSound, RecordedOnce, Finish, database
  <2>5. AppliedOnce' /\ AppliedInOrder' /\ ServesMigrated'
    BY <1>7, <2>a DEF IInv, AppliedOnce, AppliedInOrder, ServesMigrated, Finish, database
  <2>. QED
    BY <2>1, <2>2, <2>3, <2>4, <2>5 DEF IInv
<1>8. ASSUME NEW h \in Hosts, Die(h) PROVE IInv'
  <2>1. table' \in BOOLEAN /\ faults' \in Nat /\ UNCHANGED <<dbUp, applied, times>>
    BY <1>8 DEF IInv, TypeOK, Die, database
  <2>2. 1 \in 1 .. Attempts
    OBVIOUS
  <2>. QED
    BY <1>8, <2>1, <2>2, AbortIInv DEF Die
<1>9. CASE LoseDatabase
  <2>1. TypeOK'
    <3>1. txn' \in [Hosts -> Files \cup {0}] /\ recorded' \in [Hosts -> BOOLEAN]
      BY <1>9 DEF LoseDatabase
    <3>2. faults' \in Nat
      <4>1. faults \in Nat /\ faults' = faults + 1
        BY <1>9 DEF IInv, TypeOK, LoseDatabase
      <4>. QED
        BY <4>1
    <3>3. dbUp' = FALSE /\ UNCHANGED <<table, applied, times, stage, attempt, pc, pending>>
      BY <1>9 DEF LoseDatabase, program
    <3>. QED
      BY <3>1, <3>2, <3>3 DEF IInv, TypeOK
  <2>2. PendingSound' /\ TxnSound' /\ RecordedSound' /\ RecordedOnce'
    BY <1>9 DEF IInv, PendingSound, TxnSound, RecordedSound, RecordedOnce, LoseDatabase
  <2>3. AppliedOnce' /\ AppliedInOrder' /\ ServesMigrated'
    BY <1>9 DEF IInv, AppliedOnce, AppliedInOrder, ServesMigrated, LoseDatabase, program
  <2>. QED
    BY <2>1, <2>2, <2>3 DEF IInv
<1>10. CASE RestoreDatabase
  BY <1>10 DEF IInv, TypeOK, PendingSound, TxnSound, RecordedSound, RecordedOnce, AppliedOnce,
     AppliedInOrder, ServesMigrated, RestoreDatabase, program
<1>11. CASE UNCHANGED vars
  BY <1>11 DEF IInv, TypeOK, PendingSound, TxnSound, RecordedSound, RecordedOnce, AppliedOnce,
     AppliedInOrder, ServesMigrated, vars
<1>. QED
  BY <1>1, <1>2, <1>3, <1>4, <1>5, <1>6, <1>7, <1>8, <1>9, <1>10, <1>11 DEF Next, Pass

\* The inductive invariant holds in every reachable state.
THEOREM Invariant == Spec => []IInv
  BY InitIInv, NextIInv, PTL DEF Spec

\* Every variable keeps its type: in particular a host's attempts stay in bounds.
THEOREM TypeCorrect == Spec => []TypeOK
<1>1. IInv => TypeOK
  BY DEF IInv
<1>. QED
  BY Invariant, <1>1, PTL

\* No file takes effect twice, and none takes effect without being recorded,
\* for any number of hosts that migrate together; the applied files are always a
\* prefix of the sorted directory.
THEOREM PrefixApplied == Spec => []AppliedOnceInOrder
<1>1. IInv => AppliedOnceInOrder
  BY DEF IInv, AppliedOnceInOrder
<1>. QED
  BY Invariant, <1>1, PTL

\* An API that serves runs on a database with every migration.
THEOREM ServingIsMigrated == Spec => []ServesMigrated
<1>1. IInv => ServesMigrated
  BY DEF IInv
<1>. QED
  BY Invariant, <1>1, PTL

-----------------------------------------------------------------------------
\* The database is at version n as soon as the first n files, and no others,
\* are applied.
LEMMA AtVersion ==
  ASSUME IInv, NEW n \in 0 .. Last, \A f \in Files : f \in applied <=> f <= n
  PROVE  times = Upgrades!Version(n)
BY DEF IInv, TypeOK, AppliedOnce, Files, Upgrades!Version

\* A step that leaves the effects alone, and no host begins to serve by it, is at
\* most a host that stops.
LEMMA StopsAtMost ==
  ASSUME IInv, UNCHANGED times, NEW h \in Hosts, NEW X \in {"ctl", "api"},
         stage' = [stage EXCEPT ![h] = X]
  PROVE  Upgrades!UpgradeNext
<1>1. {g \in Hosts : stage'[g] = "serving"} = {g \in Hosts : stage[g] = "serving"} \ {h}
  BY DEF IInv, TypeOK
<1>. QED
  BY <1>1 DEF Upgrades!UpgradeNext, Upgrades!Stop

\* A commit takes the database to the next version: the applied files are a
\* prefix, and the one committed is the first that is left.
LEMMA CommitUpgrades ==
  ASSUME IInv, IInv', NEW h \in Hosts, Commit(h)
  PROVE  Upgrades!Upgrade
<1>. DEFINE n == txn[h]
<1>1. n \in Files /\ n \in Nat /\ n - 1 \in 0 .. Last /\ n \in 0 .. Last
  BY MigrationsAssumption DEF Commit, IInv, TypeOK, Files
<1>2. n \notin applied
  BY DEF Commit, IInv, RecordedSound
<1>3. \A f \in Files : f \notin applied => n <= f
  BY DEF Commit, IInv, PendingSound, TxnSound
<1>4. applied' = applied \cup {n}
  BY DEF Commit
<1>. HIDE DEF n
<1>5. \A f \in Files : f \in applied <=> f < n
  <2>1. \A f \in applied : f \in Files /\ f \in Nat
    BY DEF IInv, TypeOK, Files
  <2>2. \A f \in applied : ~(n < f)
    BY <1>1, <1>2 DEF IInv, AppliedInOrder
  <2>. QED
    BY <1>1, <1>2, <1>3, <2>1, <2>2 DEF Files
<1>6. times = Upgrades!Version(n - 1)
  <2>1. \A f \in Files : f \in applied <=> f <= n - 1
    BY <1>1, <1>5 DEF Files
  <2>. QED
    BY <1>1, <2>1, AtVersion
<1>7. times' = Upgrades!Version(n)
  <2>1. \A f \in Files : f \in applied' <=> f <= n
    BY <1>1, <1>4, <1>5 DEF Files
  <2>2. /\ times' \in [Files -> Nat]
        /\ \A f \in Files : times'[f] = IF f \in applied' THEN 1 ELSE 0
    BY DEF IInv, TypeOK, AppliedOnce
  <2>. QED
    BY <2>1, <2>2 DEF Files, Upgrades!Version
<1>8. UNCHANGED {g \in Hosts : stage[g] = "serving"}
  BY DEF Commit, program
<1>. QED
  BY <1>1, <1>6, <1>7, <1>8 DEF Files, Upgrades!Upgrade

\* A host that finishes goes on to the API or, from the API, begins to serve, on
\* the last version: no file was left, and what is not applied would be.
LEMMA FinishServes ==
  ASSUME IInv, NEW h \in Hosts, Finish(h)
  PROVE  Upgrades!UpgradeNext
<1>1. UNCHANGED times
  BY DEF Finish, database
<1>2. CASE stage[h] = "ctl"
  <2>1. stage' = [stage EXCEPT ![h] = "api"]
    BY <1>2 DEF Finish
  <2>. QED
    BY <1>1, <2>1, StopsAtMost
<1>3. CASE stage[h] # "ctl"
  <2>1. {g \in Hosts : stage'[g] = "serving"} = {g \in Hosts : stage[g] = "serving"} \cup {h}
    BY <1>3 DEF Finish, IInv, TypeOK
  <2>2. Last \in 0 .. Last /\ \A f \in Files : f \in applied <=> f <= Last
    BY MigrationsAssumption DEF Finish, IInv, PendingSound, Files
  <2>3. times = Upgrades!Version(Last)
    BY <2>2, AtVersion
  <2>. QED
    BY <1>1, <2>1, <2>3 DEF Upgrades!UpgradeNext, Upgrades!Serve
<1>. QED
  BY <1>2, <1>3

\* Every step of the hosts is a step of SchemaUpgrade, or none.
LEMMA NextUpgrades ==
  IInv /\ IInv' /\ [Next]_vars =>
    [Upgrades!UpgradeNext]_<<times, {h \in Hosts : stage[h] = "serving"}>>
<1>. SUFFICES ASSUME IInv, IInv', [Next]_vars
              PROVE  \/ Upgrades!UpgradeNext
                     \/ UNCHANGED <<times, {h \in Hosts : stage[h] = "serving"}>>
  OBVIOUS
<1>1. ASSUME NEW h \in Hosts, Plan(h) \/ RunFile(h) \/ Record(h)
      PROVE  UNCHANGED <<times, stage>>
  BY <1>1 DEF Plan, RunFile, Record, database, program
<1>2. ASSUME NEW h \in Hosts, PlanFails(h) \/ PassFails(h) \/ Die(h)
      PROVE  Upgrades!UpgradeNext
  <2>1. UNCHANGED times
    BY <1>2 DEF PlanFails, PassFails, Die, database
  <2>2. PICK X \in {"ctl", "api"} : stage' = [stage EXCEPT ![h] = X]
    BY <1>2 DEF PlanFails, PassFails, Fail, Die
  <2>. QED
    BY <2>1, <2>2, StopsAtMost
<1>3. ASSUME NEW h \in Hosts, Commit(h)
      PROVE  Upgrades!UpgradeNext
  BY <1>3, CommitUpgrades DEF Upgrades!UpgradeNext
<1>4. ASSUME NEW h \in Hosts, Finish(h)
      PROVE  Upgrades!UpgradeNext
  BY <1>4, FinishServes
<1>5. ASSUME LoseDatabase \/ RestoreDatabase \/ UNCHANGED vars
      PROVE  UNCHANGED <<times, stage>>
  BY <1>5 DEF LoseDatabase, RestoreDatabase, vars, program
<1>6. ASSUME UNCHANGED <<times, stage>>
      PROVE  UNCHANGED <<times, {h \in Hosts : stage[h] = "serving"}>>
  BY <1>6
<1>. QED
  BY <1>1, <1>2, <1>3, <1>4, <1>5, <1>6 DEF Next, Pass

\* Any number of hosts that plan, run, record, commit, fail, retry and die amid
\* one another do what one sequence of upgrades would do: each file once, one
\* version after another, and no host serves before the last.
THEOREM ImplementsUpgrade == Spec => UpgradesSchema
<1>1. Init => Upgrades!UpgradeInit
  <2>. SUFFICES ASSUME Init PROVE Upgrades!UpgradeInit
    OBVIOUS
  <2>1. times = Upgrades!Version(0)
    BY MigrationsAssumption DEF Init, Files, Upgrades!Version
  <2>2. {h \in Hosts : stage[h] = "serving"} = {}
    BY DEF Init
  <2>. QED
    BY <2>1, <2>2 DEF Upgrades!UpgradeInit
<1>. QED
  BY <1>1, Invariant, NextUpgrades, PTL DEF Spec, UpgradesSchema, Upgrades!UpgradeSpec

=============================================================================
