------------------------------ MODULE DynamicDns ------------------------------
(***************************************************************************)
(* The DNS side of the network daemon (apps/network/main.cpp with          *)
(* libs/protocol/src/dns.cpp): zones loaded once, at its start, merged     *)
(* with the synthetic zone of the domain, and dynamic updates that are     *)
(* written to PostgreSQL statement by statement and then, whatever became  *)
(* of that, applied to memory and answered with success.                   *)
(*                                                                         *)
(* One packet is handled at a time (zones_mutex).  A record is an owner, a *)
(* type and a value; an owner stands for its zone and its name in it.  The *)
(* serial is left out: nothing reads that of the daemon, and the wire      *)
(* format too: an update is the sequence of entries parsed from it.        *)
(***************************************************************************)
EXTENDS Naturals, Sequences

CONSTANTS
    Owners,      \* owner names
    Zones,
    ZoneOf,      \* the zone of an owner
    Domain,      \* the zone of the directory's domain
    Types,       \* A, SRV, ...
    AnyType,     \* the type ANY, only in a deletion
    Values,
    Open,        \* "nothing is promised"
    Seed,        \* the records of make_active_directory_dns_zone
    MaxEntries,  \* bound: entries of one update
    MaxUpdates,  \* bound: updates
    MaxFaults    \* bound: lost or refused connections

Record == [owner : Owners, type : Types, value : Values]
Key == [owner : Owners, type : Types]
KeyOf(r) == [owner |-> r.owner, type |-> r.type]

VARIABLES
    zoneRows, table,   \* dns_zones and dns_records
    known, memory,     \* the zones the daemon serves, and their records
    at,                \* "down", "idle", or the statement it executes next
    update,            \* the entries of the update in hand
    i,                 \* the entry whose statement is next
    updates, faults,
    stale,             \* keys whose rows and records may have parted
    promised           \* per key: the values the last answered update left, if that is certain

stores == <<zoneRows, table>>
vars == <<zoneRows, table, known, memory, at, update, i, updates, faults, stale, promised>>

Entry == [op : {"add"}, owner : Owners, type : Types, value : Values]
            \cup [op : {"deleteValue"}, owner : Owners, type : Types, value : Values]
            \cup [op : {"deleteSet"}, owner : Owners, type : Types \cup {AnyType}]

\* The updates of one zone.
Update == {u \in UNION {[1 .. n -> Entry] : n \in 1 .. MaxEntries} :
             \A j \in DOMAIN u : ZoneOf[u[j].owner] = ZoneOf[u[1].owner]}

TypeOK ==
    /\ zoneRows \subseteq Zones
    /\ table \subseteq {r \in Record : ZoneOf[r.owner] \in zoneRows}
    /\ known \subseteq Zones
    /\ memory \subseteq {r \in Record : ZoneOf[r.owner] \in known}
    /\ at \in {"down", "idle", "zone", "delete", "insert", "apply"}
    /\ update \in Update \cup {<<>>}
    /\ i \in 1 .. MaxEntries + 1
    /\ updates \in 0 .. MaxUpdates /\ faults \in 0 .. MaxFaults
    /\ stale \subseteq Key
    /\ promised \in [Key -> (SUBSET Values) \cup {Open}]

\* The rows of dns_zones and dns_records an operator put there.
Init ==
    /\ zoneRows \in {{}, Zones \ {Domain}}
    /\ table \in {{}} \cup {{r} : r \in {s \in Record : ZoneOf[s.owner] \in zoneRows}}
    /\ known = {} /\ memory = {}
    /\ at = "down"
    /\ update = <<>> /\ i = 1
    /\ updates = 0 /\ faults = 0
    /\ stale = {}
    /\ promised = [k \in Key |-> Open]

-----------------------------------------------------------------------------
(***************************************************************************)
(* What an entry matches.                                                  *)
(***************************************************************************)
TypeMatches(e, r) == e.type = AnyType \/ e.type = r.type

\* dns_records_match_for_delete, as an add or a deletion of it calls it: an
\* add replaces whatever its name and type had.
Matches(e, r) ==
    /\ r.owner = e.owner
    /\ TypeMatches(e, r)
    /\ e.op = "deleteValue" => r.value = e.value

Added(e) == IF e.op = "add" THEN {[owner |-> e.owner, type |-> e.type, value |-> e.value]} ELSE {}

\* The loop of apply_dns_dynamic_update_to_memory, after n entries: what was
\* there or was added, unless an entry since then matches it.
LeftBy(records, u, n) ==
    {r \in Record : \E m \in 0 .. n :
        /\ IF m = 0 THEN r \in records ELSE r \in Added(u[m])
        /\ \A l \in m + 1 .. n : ~Matches(u[l], r)}

Applied(records, u) == LeftBy(records, u, Len(u))

Touched(u) == {k \in Key : \E n \in DOMAIN u : u[n].owner = k.owner /\ TypeMatches(u[n], k)}

\* The keys of which an update decides every value.
Decided(u) == {k \in Key : \E n \in DOMAIN u :
                 u[n].owner = k.owner /\ TypeMatches(u[n], k) /\ u[n].op # "deleteValue"}

ValuesOf(records, k) == {v \in Values : [owner |-> k.owner, type |-> k.type, value |-> v] \in records}

-----------------------------------------------------------------------------
(***************************************************************************)
(* load_dns_zones.                                                         *)
(***************************************************************************)

\* Both queries answer: the tables, merged with the synthetic zone.
\* Mutant: the synthetic records are merged, their zone is not.
LoadNoZone ==
    /\ at = "down"
    /\ known' = zoneRows
    /\ memory' = table \cup Seed
    /\ stale' = {}
    /\ at' = "idle"
    /\ UNCHANGED <<stores, update, i, updates, faults, promised>>
Load ==
    /\ at = "down"
    /\ known' = zoneRows \cup {Domain}
    /\ memory' = table \cup Seed
    /\ stale' = {}
    /\ at' = "idle"
    /\ UNCHANGED <<stores, update, i, updates, faults, promised>>

\* No connection, or no answer about the zones: the synthetic zone alone.  No
\* answer about the records: zones with nothing but the synthetic records.
LoadBlind ==
    /\ at = "down"
    /\ faults < MaxFaults
    /\ faults' = faults + 1
    /\ known' \in {{Domain}, zoneRows \cup {Domain}}
    /\ memory' = Seed
    /\ stale' = Key
    /\ at' = "idle"
    /\ UNCHANGED <<stores, update, i, updates, promised>>

-----------------------------------------------------------------------------
(***************************************************************************)
(* One update: persist_dns_dynamic_update statement by statement, each of  *)
(* which commits at once, then memory.                                     *)
(***************************************************************************)

\* parse_dns_dynamic_update: an update of a zone the daemon does not serve is
\* refused, and one without entries changes nothing.
Receive(u) ==
    /\ at = "idle"
    /\ updates < MaxUpdates
    /\ ZoneOf[u[1].owner] \in known
    /\ update' = u
    /\ i' = 1
    /\ at' = "zone"
    /\ updates' = updates + 1
    /\ UNCHANGED <<stores, known, memory, faults, stale, promised>>

UpsertZone ==
    /\ at = "zone"
    /\ zoneRows' = zoneRows \cup {ZoneOf[update[1].owner]}
    /\ at' = "delete"
    /\ UNCHANGED <<table, known, memory, update, i, updates, faults, stale, promised>>

\* After the statements of entry n comes the next entry, or memory.
NextEntry(n) ==
    /\ i' = n + 1
    /\ at' = IF n = Len(update) THEN "apply" ELSE "delete"

\* Mutant: an ANY deletion is compared as a type.
DeleteExact ==
    /\ at = "delete"
    /\ table' = {r \in table : ~(Matches(update[i], r) /\ update[i].type = r.type)}
    /\ IF update[i].op = "add" THEN at' = "insert" /\ UNCHANGED i ELSE NextEntry(i)
    /\ UNCHANGED <<zoneRows, known, memory, update, updates, faults, stale, promised>>
Delete ==
    /\ at = "delete"
    /\ table' = {r \in table : ~Matches(update[i], r)}
    /\ IF update[i].op = "add" THEN at' = "insert" /\ UNCHANGED i ELSE NextEntry(i)
    /\ UNCHANGED <<zoneRows, known, memory, update, updates, faults, stale, promised>>

Insert ==
    /\ at = "insert"
    /\ table' = table \cup Added(update[i])
    /\ NextEntry(i)
    /\ UNCHANGED <<zoneRows, known, memory, update, updates, faults, stale, promised>>

\* Memory changes and the answer says success, also when persisting failed.
Respond(persisted) ==
    /\ memory' = Applied(memory, update)
    /\ stale' = IF persisted THEN stale \ Decided(update) ELSE stale \cup Touched(update)
    /\ promised' = [k \in Key |->
         IF k \notin Touched(update) THEN promised[k]
         ELSE IF persisted /\ k \notin stale' THEN ValuesOf(memory', k)
         ELSE Open]
    /\ update' = <<>> /\ i' = 1
    /\ at' = "idle"

Apply ==
    /\ at = "apply"
    /\ Respond(TRUE)
    /\ UNCHANGED <<stores, known, updates, faults>>

\* The connection is refused or lost: the statements left are skipped.
PersistStops ==
    /\ at \in {"zone", "delete", "insert"}
    /\ faults < MaxFaults
    /\ faults' = faults + 1
    /\ Respond(FALSE)
    /\ UNCHANGED <<stores, known, updates>>

\* The daemon dies, and its container starts it again.  An update in hand is
\* not answered, and which part of it is stored stays open.
Crash ==
    /\ at # "down"
    /\ at' = "down"
    /\ known' = {} /\ memory' = {}
    /\ promised' = [k \in Key |-> IF k \in Touched(update) THEN Open ELSE promised[k]]
    /\ update' = <<>> /\ i' = 1
    /\ UNCHANGED <<stores, updates, faults, stale>>

Next ==
    \/ Load \/ LoadBlind
    \/ \E u \in Update : Receive(u)
    \/ UpsertZone \/ Delete \/ Insert \/ Apply
    \/ PersistStops \/ Crash

Spec == Init /\ [][Next]_vars

-----------------------------------------------------------------------------
\* What the daemon serves under a name and type is what its rows say, plus
\* synthetic records that nobody has deleted since it started; an update that was
\* stored whole repairs what an earlier one, or a blind start, left apart.
ServedIsStored ==
    at = "idle" =>
        \A k \in Key \ stale :
            /\ ValuesOf(table, k) \subseteq ValuesOf(memory, k)
            /\ ValuesOf(memory, k) \subseteq ValuesOf(table, k) \cup ValuesOf(Seed, k)

\* "DNS UPDATE packets for authorized AD zones are parsed, applied in-memory and
\* persisted to dns_records for machine A/SRV registrations": what an answered
\* update left of a name stays stored until another one touches it, through every
\* crash, restart and failure (the synthetic records were never rows).
RegistrationsLast ==
    \A k \in Key : promised[k] # Open /\ (at \in {"down", "idle"} \/ k \notin Touched(update)) =>
        /\ ValuesOf(table, k) \subseteq promised[k]
        /\ promised[k] \ ValuesOf(Seed, k) \subseteq ValuesOf(table, k)

=============================================================================
