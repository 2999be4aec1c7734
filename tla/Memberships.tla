----------------------------- MODULE Memberships -----------------------------
(***************************************************************************)
(* Group memberships in the directory daemon (apps/directory/main.cpp).    *)
(* A membership is kept three times: in the `member` attribute of the      *)
(* group, as the group's RID in the `groupRids` of the member, and as a    *)
(* row of ad_memberships.  LDAP writes all three, from the attribute;      *)
(* SAMR writes the last two.  What a search shows is built from the first  *)
(* two (libs/protocol/src/ldap.cpp).                                       *)
(*                                                                         *)
(* Requests are handled one at a time.  Each statement commits at once,    *)
(* except in a rename.  An object's RID is a function of its account name  *)
(* (synthetic_rid), which it takes from its DN when it is added and keeps  *)
(* when it is renamed: here a RID is the DN the object was added under.    *)
(* A RID is one object's (object_sid is unique), so an add can be refused  *)
(* after its row of identity_objects is written: the mirror that begins    *)
(* every request takes it into ad_objects once the RID is free.            *)
(***************************************************************************)
EXTENDS Naturals, FiniteSets

CONSTANTS
    Dns,          \* names of objects
    GroupDns,     \* those of groups; the others are users and computers
    Protocols,    \* who writes: "ldap", "samr"
    MaxRequests,  \* bound: requests
    MaxFaults     \* bound: lost or refused connections, and deaths

VARIABLES
    objects,   \* ad_objects: the row of each DN that has one
    unmirrored,   \* identity_objects: the rows of the DNs that have none there
    table,     \* ad_memberships: pairs of a group's DN and a member's DN
    at,        \* "idle", "ready" after the mirror, or the statement executed next
    job,       \* the request in hand
    requests, faults,
    asked,     \* pairs of RIDs: the memberships the answered requests left
    open       \* RIDs of groups of which nothing is promised any more

stores == <<objects, unmirrored, table>>
ghosts == <<asked, open>>
vars == <<objects, unmirrored, table, at, job, requests, faults, asked, open>>

Row == [rid : Dns, group : BOOLEAN, member : SUBSET Dns, groupRids : SUBSET Dns]
Idle == [kind |-> "none"]
Job == {Idle}
    \cup [kind : {"sync"}, group : Dns, todo : SUBSET Dns]
    \cup [kind : {"samr"}, add : BOOLEAN, group : Dns, member : Dns]
    \cup [kind : {"remove"}, dn : Dns]

TypeOK ==
    /\ DOMAIN objects \subseteq Dns
    /\ \A d \in DOMAIN objects : objects[d] \in Row
    /\ DOMAIN unmirrored \subseteq Dns \ DOMAIN objects
    /\ \A d \in DOMAIN unmirrored : unmirrored[d] \in Row
    /\ table \subseteq Dns \X Dns
    /\ at \in {"idle", "ready", "member", "insert", "row", "object", "projection"}
    /\ job \in Job
    /\ (at \in {"idle", "ready"}) = (job = Idle)
    /\ requests \in 0 .. MaxRequests /\ faults \in 0 .. MaxFaults
    /\ asked \subseteq Dns \X Dns
    /\ open \subseteq Dns

\* Objects that are there when the run starts; nobody is a member of anything.
NewRow(d, member) ==
    [rid |-> d, group |-> d \in GroupDns, member |-> member, groupRids |-> {}]

Init ==
    /\ \E there \in SUBSET Dns : objects = [d \in there |-> NewRow(d, {})]
    /\ unmirrored = [d \in {} |-> NewRow(d, {})]
    /\ table = {}
    /\ at = "idle" /\ job = Idle
    /\ requests = 0 /\ faults = 0
    /\ asked = {} /\ open = {}

-----------------------------------------------------------------------------
(***************************************************************************)
(* What a search shows.                                                    *)
(***************************************************************************)
There == DOMAIN objects
Groups == {d \in There : objects[d].group}
Rid(d) == objects[d].rid

\* group_contains_object: by DN or by RID.
GroupContains(g, o) ==
    /\ g \in Groups /\ g # o
    /\ o \in objects[g].member \/ (o \in There /\ Rid(g) \in objects[o].groupRids)

\* constructed_member_of_values
MemberOf(o) == {g \in Groups : GroupContains(g, o)}

\* constructed_member_values
Members(g) ==
    objects[g].member \cup {o \in There \ {g} : Rid(g) \in objects[o].groupRids}

RidsOf(S) == {Rid(d) : d \in S \cap There}
TableOf(g) == {m \in There : <<g, m>> \in table}
AskedOf(g) == {m \in There : <<Rid(g), Rid(m)>> \in asked}

-----------------------------------------------------------------------------
(***************************************************************************)
(* mirror_identity_objects_into_ad_objects: all rows that are missing, or  *)
(* none when one has a RID that is taken.  A row that comes in this way    *)
(* has no rows in ad_memberships, whatever it says.                        *)
(***************************************************************************)
Unmirrored == DOMAIN unmirrored

Mirrored == [d \in There \cup Unmirrored |-> IF d \in There THEN objects[d] ELSE unmirrored[d]]

MirrorRefused ==
    \E d, o \in There \cup Unmirrored : d # o /\ Mirrored[d].rid = Mirrored[o].rid

\* The groups of which nothing is promised when the rows of N come in.
Unsettled(N) ==
    {unmirrored[d].rid : d \in N}
        \cup {Rid(g) : g \in {h \in Groups : \E d \in N :
                  d \in objects[h].member \/ Rid(h) \in unmirrored[d].groupRids}}

Mirror ==
    /\ at = "idle"
    /\ IF MirrorRefused THEN UNCHANGED <<objects, unmirrored, ghosts>>
       ELSE /\ objects' = Mirrored
            /\ unmirrored' = [d \in {} |-> NewRow(d, {})]
            /\ asked' = {p \in asked : \A d \in Unmirrored : unmirrored[d].rid \notin {p[1], p[2]}}
            /\ open' = open \cup Unsettled(Unmirrored)
    /\ at' = "ready"
    /\ UNCHANGED <<table, job, requests, faults>>

-----------------------------------------------------------------------------
(***************************************************************************)
(* LDAP: sync_ldap_group_memberships after the group's own row.            *)
(***************************************************************************)

\* apply_ldap_attribute_modify, on the attribute `member`: operation 0 adds,
\* 1 deletes (everything, when it names nothing), and any other replaces.
Modified(old, op, named) ==
    CASE op = "add" -> old \cup named
      [] op = "delete" -> IF named = {} THEN {} ELSE old \ named
      [] op = "replace" -> named

\* What is promised of group g after the attribute changed from old to new.
\* Members that are not in the attribute lose their rows, and keep the RID.
Promise(g, old, new, op, named) ==
    LET rid == Rid(g)
        removed == IF op = "delete"
                   THEN IF named = {} THEN AskedOf(g) ELSE named
                   ELSE IF op = "replace" THEN AskedOf(g) \ named ELSE {}
    IN  /\ asked' = {p \in asked : p[1] # rid} \cup {<<rid, r>> : r \in
              RidsOf(IF op = "add" THEN AskedOf(g) \cup named
                     ELSE AskedOf(g) \ removed)
              \cup (IF op = "replace" THEN RidsOf(named) ELSE {})}
        /\ open' = IF \/ (Members(g) \cap There) \ old # {}   \* members known by RID alone
                      \/ new \ There # {}                     \* names nobody has
                   THEN open \cup {rid} ELSE open

\* persist_ldap_mutation, modify: the group's row, then the members it had and
\* has.
\* Mutant: only those it has now.
AffectNew(old, new) == new
Affected(old, new) == old \cup new

ModifyMembers(g, op, named) ==
    /\ at = "ready" /\ requests < MaxRequests /\ "ldap" \in Protocols
    /\ g \in Groups
    /\ LET old == objects[g].member
           new == Modified(old, op, named)
       IN  /\ objects' = [objects EXCEPT ![g].member = new]
           /\ job' = [kind |-> "sync", group |-> g, todo |-> Affected(old, new) \cap There]
           /\ Promise(g, old, new, op, named)
    /\ at' = "member"
    /\ requests' = requests + 1
    /\ UNCHANGED <<unmirrored, table, faults>>

\* persist_ldap_mutation, add.  A DN that has a row gets the attributes of the
\* request over its own: `rid` always, `groupRids` when it is no group (the
\* default takes their place), `member` when a group comes with members.
Before(rowsOf, d) == IF d \in DOMAIN rowsOf THEN rowsOf[d] ELSE NewRow(d, {})

Added(d, member, row) ==
    [rid |-> d, group |-> d \in GroupDns,
     member |-> IF member = {} THEN row.member ELSE member,
     groupRids |-> IF d \in GroupDns THEN row.groupRids ELSE {}]

RidTaken(d) == \E o \in There \ {d} : Rid(o) = d

\* What is promised after the object is written, which had the RID was: of
\* groups that name it, or that it was in and is not any more, nothing; nor of
\* itself when its RID is another one or it had members the request leaves out.
AddPromise(d, member, was) ==
    LET live == {p \in asked : d \in {p[1], p[2]} => d \in There /\ was = d}
        Is(r) == IF r = was THEN d ELSE r
        lost == {g \in Groups \ {d} :
                   IF d \in There THEN d \notin GroupDns /\ Rid(g) \in objects[d].groupRids
                   ELSE d \in objects[g].member}
    IN  /\ asked' = {<<Is(p[1]), Is(p[2])>> : p \in {q \in live : member = {} \/ q[1] # was}}
                      \cup {<<d, Rid(m)>> : m \in member \cap There}
        /\ open' = open \cup {Rid(g) : g \in lost}
              \cup (IF \/ was # d
                       \/ member \ There # {}
                       \/ /\ d \notin There \/ member # {}
                          /\ \E o \in There \ ({d} \cup member) : d \in objects[o].groupRids
                    THEN {d} ELSE {})

\* The members in the attribute are taken, not those it replaces.
AddObject(d, member) ==
    /\ at = "ready" /\ requests < MaxRequests /\ "ldap" \in Protocols
    /\ d \in GroupDns \/ member = {}
    /\ ~RidTaken(d)
    /\ objects' = [o \in There \cup {d} |->
         IF o = d THEN Added(d, member, Before(objects, d)) ELSE objects[o]]
    /\ unmirrored' = [o \in Unmirrored \ {d} |-> unmirrored[o]]
    /\ IF member = {}
       THEN at' = "idle" /\ UNCHANGED job
       ELSE /\ job' = [kind |-> "sync", group |-> d, todo |-> member \cap There]
            /\ at' = "member"
    /\ AddPromise(d, member, Before(objects, d).rid)
    /\ requests' = requests + 1
    /\ UNCHANGED <<table, faults>>

\* The row of identity_objects is written, that of ad_objects refused.
AddRefused(d, member) ==
    /\ at = "ready" /\ requests < MaxRequests /\ "ldap" \in Protocols
    /\ d \in GroupDns \/ member = {}
    /\ RidTaken(d)
    /\ unmirrored' = [o \in Unmirrored \cup ({d} \ There) |->
         IF o = d THEN Added(d, member, Before(unmirrored, d)) ELSE unmirrored[o]]
    /\ at' = "idle"
    /\ requests' = requests + 1
    /\ UNCHANGED <<objects, table, job, faults, ghosts>>

\* apply_group_rid_membership
WithRid(row, rid, add) ==
    [row EXCEPT !.groupRids = IF add THEN @ \cup {rid} ELSE @ \ {rid}]

\* The members are taken one after the other: each has the RID if it is current.
SyncMember(m) ==
    /\ at = "member" /\ job.kind = "sync" /\ m \in job.todo
    /\ objects' = [objects EXCEPT ![m] =
         WithRid(@, Rid(job.group), m \in objects[job.group].member)]
    /\ job' = [job EXCEPT !.todo = @ \ {m}]
    /\ UNCHANGED <<unmirrored, table, at, requests, faults, ghosts>>

ClearRows ==
    /\ at = "member" /\ job.kind = "sync" /\ job.todo = {}
    /\ table' = {p \in table : p[1] # job.group}
    /\ job' = [job EXCEPT !.todo = objects[job.group].member \cap There]
    /\ at' = "insert"
    /\ UNCHANGED <<objects, unmirrored, requests, faults, ghosts>>

InsertRow(m) ==
    /\ at = "insert" /\ m \in job.todo
    /\ table' = table \cup {<<job.group, m>>}
    /\ job' = [job EXCEPT !.todo = @ \ {m}]
    /\ UNCHANGED <<objects, unmirrored, at, requests, faults, ghosts>>

Synced ==
    /\ at = "insert" /\ job.todo = {}
    /\ at' = "idle" /\ job' = Idle
    /\ UNCHANGED <<stores, requests, faults, ghosts>>

-----------------------------------------------------------------------------
(***************************************************************************)
(* LDAP: delete and rename.                                                *)
(***************************************************************************)

\* Rows of the memberships first, then the object, in ad_objects and then in
\* identity_objects.  Groups go on naming its DN, and members its RID.
RemoveObject(d) ==
    /\ at = "ready" /\ requests < MaxRequests /\ "ldap" \in Protocols
    /\ d \in There \cup Unmirrored
    /\ table' = {p \in table : d \notin {p[1], p[2]}}
    /\ at' = "object" /\ job' = [kind |-> "remove", dn |-> d]
    /\ asked' = IF d \in There THEN {p \in asked : Rid(d) \notin {p[1], p[2]}} ELSE asked
    /\ requests' = requests + 1
    /\ UNCHANGED <<objects, unmirrored, faults, open>>

RemoveRow ==
    /\ at = "object"
    /\ objects' = [o \in There \ {job.dn} |-> objects[o]]
    /\ unmirrored' = [o \in Unmirrored \cup {job.dn} |-> Mirrored[o]]
    /\ at' = "projection"
    /\ UNCHANGED <<table, job, requests, faults, ghosts>>

RemoveProjection ==
    /\ at = "projection"
    /\ unmirrored' = [o \in Unmirrored \ {job.dn} |-> unmirrored[o]]
    /\ at' = "idle" /\ job' = Idle
    /\ UNCHANGED <<objects, table, requests, faults, ghosts>>

\* One transaction; refused when the new name is taken.  The rows of
\* ad_memberships move with the object, the `member` attributes do not.
Moved(old, new) ==
    {<<IF p[1] = old THEN new ELSE p[1], IF p[2] = old THEN new ELSE p[2]>> : p \in table}

Rename(old, new) ==
    /\ at = "ready" /\ requests < MaxRequests /\ "ldap" \in Protocols
    /\ old \in There /\ new \notin There
    /\ (old \in GroupDns) = (new \in GroupDns)
    /\ objects' = [o \in (There \ {old}) \cup {new} |-> objects[IF o = new THEN old ELSE o]]
    /\ unmirrored' = [o \in Unmirrored \ {new} |-> unmirrored[o]]
    /\ table' = Moved(old, new)
    /\ at' = "idle"
    /\ requests' = requests + 1
    /\ open' = open \cup {Rid(g) : g \in {h \in Groups : new \in objects[h].member}}
    /\ UNCHANGED <<job, faults, asked>>

-----------------------------------------------------------------------------
(***************************************************************************)
(* SAMR: handle_samr_membership_update with one member.                    *)
(***************************************************************************)

\* persist_samr_membership_update: the member's row, then the row of the pair.
SamrUpdate(g, m, add) ==
    /\ at = "ready" /\ requests < MaxRequests /\ "samr" \in Protocols
    /\ g \in Groups /\ m \in There \ {g}
    /\ objects' = [objects EXCEPT ![m] = WithRid(@, Rid(g), add)]
    /\ at' = "row" /\ job' = [kind |-> "samr", add |-> add, group |-> g, member |-> m]
    /\ LET pair == {<<Rid(g), Rid(m)>>}
       IN  asked' = IF add THEN asked \cup pair ELSE asked \ pair
    /\ open' = IF ~add /\ m \in objects[g].member THEN open \cup {Rid(g)} ELSE open
    /\ requests' = requests + 1
    /\ UNCHANGED <<unmirrored, table, faults>>

SamrRow ==
    /\ at = "row"
    /\ LET pair == {<<job.group, job.member>>}
       IN  table' = IF job.add THEN table \cup pair ELSE table \ pair
    /\ at' = "idle" /\ job' = Idle
    /\ UNCHANGED <<objects, unmirrored, requests, faults, ghosts>>

-----------------------------------------------------------------------------
\* The connection is lost, or the daemon dies: the statements left are skipped.
Stops ==
    /\ at \notin {"idle", "ready"}
    /\ faults < MaxFaults
    /\ faults' = faults + 1
    /\ open' = open \cup
         CASE at = "object" -> RidsOf({job.dn} \cup Groups)
           [] at = "projection" -> {}
           [] OTHER -> {Rid(job.group)}
    /\ at' = "idle" /\ job' = Idle
    /\ UNCHANGED <<stores, requests, asked>>

\* PostgreSQL cannot be reached: both protocols answer success all the same.
AnswersBlind(g) ==
    /\ at = "idle" /\ requests < MaxRequests
    /\ faults < MaxFaults
    /\ g \in Groups
    /\ requests' = requests + 1 /\ faults' = faults + 1
    /\ open' = open \cup {Rid(g)}
    /\ UNCHANGED <<stores, at, job, asked>>

\* load_ldap_objects for a search: after the mirror it reads only.
Search ==
    /\ at = "ready" /\ at' = "idle"
    /\ UNCHANGED <<stores, job, requests, faults, ghosts>>

\* Members of a group are never the group itself, and a deletion that names
\* nothing deletes all.
Next ==
    \/ Mirror
    \/ \E g \in Dns, op \in {"add", "delete", "replace"}, named \in SUBSET Dns :
         g \notin named /\ ModifyMembers(g, op, named)
    \/ \E d \in Dns, member \in SUBSET Dns : 
         d \notin member /\ (AddObject(d, member) \/ AddRefused(d, member))
    \/ \E m \in Dns : SyncMember(m) \/ InsertRow(m)
    \/ ClearRows \/ Synced
    \/ \E d \in Dns : RemoveObject(d)
    \/ RemoveRow \/ RemoveProjection
    \/ \E old, new \in Dns : Rename(old, new)
    \/ \E g, m \in Dns, add \in BOOLEAN : SamrUpdate(g, m, add)
    \/ SamrRow
    \/ Stops \/ Search \/ \E g \in Dns : AnswersBlind(g)

Spec == Init /\ [][Next]_vars

-----------------------------------------------------------------------------
\* 'ldap-membership-sync' and the SAMR handlers: when no request is in hand, the
\* members a search shows, the rows of ad_memberships and what the answered
\* requests asked for are one set, through additions, deletions, replacements,
\* renames and removals over either protocol, and additions over an object that is
\* there; the groups left out are those where a fault struck, the protocols crossed,
\* a name was used again, or such an addition forgot RIDs or members (it resets the
\* groups of a user, gives a renamed object the RID of its new name, and does not
\* take the members it replaces).
MembershipsAgree ==
    at \in {"idle", "ready"} => \A g \in Groups : Rid(g) \notin open =>
        /\ Members(g) \cap There = TableOf(g)
        /\ TableOf(g) = AskedOf(g)

=============================================================================
