------------------------------ MODULE Migrations ------------------------------
(***************************************************************************)
(* Database migrations (libs/storage/src/database.cpp) and the processes   *)
(* that run them before they do anything else: `nexusctl migrate`, up to   *)
(* Attempts times from the control-plane container's entry point, then     *)
(* nexus-api itself, which serves only if its own pass succeeds.           *)
(*                                                                         *)
(* A pass reads the recorded versions once, on a connection of its own,    *)
(* and then runs each missing file, in order, in a transaction that also   *)
(* records it.  Several hosts may do this at once; a host may die          *)
(* anywhere; the database may go away, and open transactions with it.      *)
(*                                                                         *)
(* PostgreSQL is modelled by what the code relies on: what a transaction   *)
(* did is seen by nobody before its commit, is gone when its connection    *)
(* closes without one, and the primary key of schema_migrations makes a    *)
(* second record of a version wait for the first and then fail.            *)
(***************************************************************************)
EXTENDS Naturals

CONSTANTS
    Hosts,      \* the hosts that start the control plane
    Last,       \* the migration files are 1 .. Last, in the order of their names
    Attempts,   \* how often the entry point runs nexusctl before it gives up
    MaxFaults   \* bound: deaths of hosts, losses of the database

ASSUME MigrationsAssumption ==
    /\ Last \in Nat
    /\ Attempts \in Nat \ {0}
    /\ MaxFaults \in Nat

Files == 1 .. Last

VARIABLES
    dbUp,       \* connections to the database succeed
    table,      \* schema_migrations exists
    applied,    \* the committed rows of schema_migrations
    times,      \* how often each file's effects were committed
    stage,      \* the program a host is in, or "serving"
    attempt,    \* the attempt of nexusctl it is in
    pc,         \* where it is in apply_migrations
    pending,    \* the files it found missing and has not run
    txn,        \* the file its open transaction ran, 0 when there is none
    recorded,   \* whether that transaction already inserted the version
    faults

vars == <<dbUp, table, applied, times, stage, attempt, pc, pending, txn, recorded, faults>>

TypeOK ==
    /\ dbUp \in BOOLEAN
    /\ table \in BOOLEAN
    /\ applied \subseteq Files
    /\ times \in [Files -> Nat]
    /\ stage \in [Hosts -> {"ctl", "api", "serving"}]
    /\ attempt \in [Hosts -> 1 .. Attempts]
    /\ pc \in [Hosts -> {"plan", "next", "record", "commit"}]
    /\ pending \in [Hosts -> SUBSET Files]
    /\ txn \in [Hosts -> Files \cup {0}]
    /\ recorded \in [Hosts -> BOOLEAN]
    /\ faults \in Nat

Init ==
    /\ dbUp \in BOOLEAN
    /\ table = FALSE
    /\ applied = {}
    /\ times = [f \in Files |-> 0]
    /\ stage = [h \in Hosts |-> "ctl"]
    /\ attempt = [h \in Hosts |-> 1]
    /\ pc = [h \in Hosts |-> "plan"]
    /\ pending = [h \in Hosts |-> {}]
    /\ txn = [h \in Hosts |-> 0]
    /\ recorded = [h \in Hosts |-> FALSE]
    /\ faults = 0

-----------------------------------------------------------------------------
database == <<dbUp, table, applied, times>>
program == <<stage, attempt>>

\* The connection closes: nothing of an open transaction remains.
Close(h) ==
    /\ txn' = [txn EXCEPT ![h] = 0]
    /\ recorded' = [recorded EXCEPT ![h] = FALSE]

\* The pass threw.  nexusctl exits with an error and the entry point tries
\* again or, out of attempts, starts the API all the same; the API exits and
\* its container starts over.
\* Mutants: the API logs the error and serves; the entry point gives up for good; it tries once too often.
FailServes(h) ==
    /\ Close(h)
    /\ pending' = [pending EXCEPT ![h] = {}]
    /\ pc' = [pc EXCEPT ![h] = "plan"]
    /\ stage' = [stage EXCEPT ![h] = IF @ = "ctl" THEN "api" ELSE "serving"]
    /\ UNCHANGED attempt
FailGivesUp(h) ==
    /\ Close(h)
    /\ pending' = [pending EXCEPT ![h] = {}]
    /\ pc' = [pc EXCEPT ![h] = "plan"]
    /\ stage' = [stage EXCEPT ![h] = IF @ = "ctl" /\ attempt[h] = Attempts THEN "down" ELSE "ctl"]
    /\ attempt' = [attempt EXCEPT ![h] = IF @ < Attempts THEN @ + 1 ELSE 1]
FailOnceMore(h) ==
    /\ Close(h)
    /\ pending' = [pending EXCEPT ![h] = {}]
    /\ pc' = [pc EXCEPT ![h] = "plan"]
    /\ stage' = [stage EXCEPT ![h] = IF @ = "ctl" /\ attempt[h] > Attempts THEN "api" ELSE "ctl"]
    /\ attempt' = [attempt EXCEPT ![h] = IF stage[h] = "ctl" /\ @ <= Attempts THEN @ + 1 ELSE 1]
Fail(h) ==
    /\ Close(h)
    /\ pending' = [pending EXCEPT ![h] = {}]
    /\ pc' = [pc EXCEPT ![h] = "plan"]
    /\ stage' = [stage EXCEPT ![h] = IF @ = "ctl" /\ attempt[h] = Attempts THEN "api" ELSE "ctl"]
    /\ attempt' = [attempt EXCEPT ![h] = IF stage[h] = "ctl" /\ @ < Attempts THEN @ + 1 ELSE 1]

\* pending_migrations: create the table, read the versions, list the files.
Plan(h) ==
    /\ stage[h] \in {"ctl", "api"} /\ pc[h] = "plan"
    /\ dbUp
    /\ table' = TRUE
    /\ pending' = [pending EXCEPT ![h] = Files \ applied]
    /\ pc' = [pc EXCEPT ![h] = "next"]
    /\ UNCHANGED <<dbUp, applied, times, program, txn, recorded, faults>>

\* No connection, or another host creates the table at the same moment.
PlanFails(h) ==
    /\ stage[h] \in {"ctl", "api"} /\ pc[h] = "plan"
    /\ \/ ~dbUp /\ UNCHANGED table
       \/ /\ dbUp /\ ~table
          /\ \E g \in Hosts \ {h} : stage[g] # "serving" /\ pc[g] = "plan"
          /\ table' = TRUE
    /\ Fail(h)
    /\ UNCHANGED <<dbUp, applied, times, faults>>

\* begin, and the file, the first that is left.
\* Mutant: the files are not sorted.
RunFileUnsorted(h) ==
    /\ pc[h] = "next"
    /\ dbUp
    /\ \E f \in pending[h] : txn' = [txn EXCEPT ![h] = f]
    /\ pc' = [pc EXCEPT ![h] = "record"]
    /\ UNCHANGED <<database, program, pending, recorded, faults>>
RunFile(h) ==
    /\ pc[h] = "next"
    /\ dbUp
    /\ \E f \in pending[h] :
         /\ \A g \in pending[h] : f <= g
         /\ txn' = [txn EXCEPT ![h] = f]
    /\ pc' = [pc EXCEPT ![h] = "record"]
    /\ UNCHANGED <<database, program, pending, recorded, faults>>

\* The insert of the version waits for another transaction that inserted the
\* same one, and fails if that one was committed.
Record(h) ==
    /\ pc[h] = "record"
    /\ txn[h] # 0
    /\ \A g \in Hosts \ {h} : ~(recorded[g] /\ txn[g] = txn[h])
    /\ txn[h] \notin applied
    /\ recorded' = [recorded EXCEPT ![h] = TRUE]
    /\ pc' = [pc EXCEPT ![h] = "commit"]
    /\ UNCHANGED <<database, program, pending, txn, faults>>

Commit(h) ==
    /\ pc[h] = "commit"
    /\ txn[h] # 0
    /\ applied' = applied \cup {txn[h]}
    /\ times' = [times EXCEPT ![txn[h]] = @ + 1]
    /\ pending' = [pending EXCEPT ![h] = @ \ {txn[h]}]
    /\ Close(h)
    /\ pc' = [pc EXCEPT ![h] = "next"]
    /\ UNCHANGED <<dbUp, table, program, faults>>

\* No connection; the connection was lost; another host committed the version
\* since this one listed the files.
PassFails(h) ==
    /\ \/ pc[h] = "next" /\ pending[h] # {} /\ ~dbUp
       \/ pc[h] \in {"record", "commit"} /\ txn[h] = 0
       \/ pc[h] = "record" /\ txn[h] \in applied
    /\ Fail(h)
    /\ UNCHANGED <<database, faults>>

\* nexusctl succeeded: the API starts, and makes the pass once more; then it serves.
Finish(h) ==
    /\ pc[h] = "next"
    /\ pending[h] = {}
    /\ pc' = [pc EXCEPT ![h] = "plan"]
    /\ stage' = [stage EXCEPT ![h] = IF @ = "ctl" THEN "api" ELSE "serving"]
    /\ UNCHANGED <<database, attempt, pending, txn, recorded, faults>>

-----------------------------------------------------------------------------
\* A host dies and its container is started again.
Die(h) ==
    /\ faults < MaxFaults
    /\ faults' = faults + 1
    /\ Close(h)
    /\ pending' = [pending EXCEPT ![h] = {}]
    /\ pc' = [pc EXCEPT ![h] = "plan"]
    /\ stage' = [stage EXCEPT ![h] = "ctl"]
    /\ attempt' = [attempt EXCEPT ![h] = 1]
    /\ UNCHANGED database

\* The database goes away, and every open transaction with it; it comes back.
LoseDatabase ==
    /\ dbUp
    /\ faults < MaxFaults
    /\ faults' = faults + 1
    /\ dbUp' = FALSE
    /\ txn' = [h \in Hosts |-> 0]
    /\ recorded' = [h \in Hosts |-> FALSE]
    /\ UNCHANGED <<table, applied, times, program, pc, pending>>

RestoreDatabase ==
    /\ ~dbUp
    /\ dbUp' = TRUE
    /\ UNCHANGED <<table, applied, times, program, pc, pending, txn, recorded, faults>>

Pass(h) ==
    \/ Plan(h) \/ PlanFails(h) \/ RunFile(h) \/ Record(h) \/ Commit(h) \/ PassFails(h) \/ Finish(h)

Next ==
    \/ \E h \in Hosts : Pass(h) \/ Die(h)
    \/ LoseDatabase
    \/ RestoreDatabase

Spec == Init /\ [][Next]_vars

\* A host runs on (its waits are for transactions that end); the operator, or
\* the container's restart policy, brings the database back.
FairSpec == Spec /\ (\A h \in Hosts : WF_vars(Pass(h))) /\ WF_vars(RestoreDatabase)

-----------------------------------------------------------------------------
\* A file's effects are committed once, and then it is recorded, whatever two
\* hosts, a death or a lost connection do between the steps of apply_migrations.
AppliedOnce ==
    \A f \in Files : times[f] = IF f \in applied THEN 1 ELSE 0

\* The files take effect in the order of their names, without a gap.
AppliedInOrder ==
    \A f \in applied : \A g \in Files : g < f => g \in applied

\* The database is as if one host had run a first part of the files, once.
AppliedOnceInOrder == AppliedOnce /\ AppliedInOrder

\* An API that serves has every table its queries name.
ServesMigrated ==
    \A h \in Hosts : stage[h] = "serving" => applied = Files

\* All the lists, transactions, records, retries and deaths of the hosts come to
\* this, step by step: the database goes from one version of the schema to the
\* next, and a host starts to serve on the last.
Upgrades == INSTANCE SchemaUpgrade WITH effects <- times, servers <- {h \in Hosts : stage[h] = "serving"}
UpgradesSchema == Upgrades!UpgradeSpec

\* Every host comes to serve, through its own and the others' failures.
EventuallyServes ==
    \A h \in Hosts : <>[](stage[h] = "serving")

=============================================================================
