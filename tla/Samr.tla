--------------------------------- MODULE Samr ---------------------------------
(***************************************************************************)
(* SAMR and LSA (libs/protocol/src/rpc.cpp) and the accounts behind them   *)
(* (apps/directory/main.cpp): a machine joins by creating its account and  *)
(* setting its password, and clients list accounts page by page.           *)
(*                                                                         *)
(* A handle is the RID itself, so the daemon keeps nothing between calls:  *)
(* each call connects to the database, copies the identity rows that have  *)
(* no directory row, and runs its statements, any of which may fail.  A    *)
(* packet is handled to its end before the next, so a call is one step.    *)
(* Without the database the answers are made up from the request alone.    *)
(*                                                                         *)
(* The RID of a name is made from a hash of it, so that two names may have *)
(* the same; ad_objects has no two rows of one (object_sid is unique).  A  *)
(* value that a call stores is the number of the call.                     *)
(***************************************************************************)
EXTENDS Naturals, FiniteSets

CONSTANTS
    Machines,      \* names of the machines that join
    Builtins,      \* names of the accounts every domain has
    RidOf,         \* synthetic_rid: the RID of each name
    Limit,         \* rows that an enumeration reads (1024 in the code)
    PageSize,      \* entries a client asks for
    MaxRequests, MaxFaults   \* bounds

DomainUsers == 513
DomainComputers == 515
Groups == {DomainUsers, DomainComputers}
\* The Builtin alias with static members, and what they are.
Operators == 544
AliasMembers == {RidOf[b] : b \in Builtins}

Accounts == Machines \cup Builtins
Rids == {RidOf[n] : n \in Accounts}
\* The name answered for a RID that nobody has.
MadeUp == "made up"

VARIABLES
    identity,      \* identity_objects: rows by account
    objects,       \* ad_objects
    secret,        \* ad_account_secrets
    told,          \* the values that the callers of each RID may find stored
    page,          \* the listing in progress
    requests, faults

vars == <<identity, objects, secret, told, page, requests, faults>>

Row == [control : 0 .. MaxRequests, primary : Groups, groups : SUBSET Groups]
IsTable(table, S) ==
    DOMAIN table \subseteq Accounts /\ \A n \in DOMAIN table : table[n] \in S
NewMachine == [control |-> 0, primary |-> DomainComputers, groups |-> {DomainComputers}]
Seeded == [control |-> 0, primary |-> DomainUsers, groups |-> {DomainUsers}]
Nothing == [pw |-> {}, control |-> {}]
NoPage == [start |-> 0, seen |-> {}, there |-> {}, open |-> FALSE, spoiled |-> FALSE]

\* No two of these accounts have one RID.
OneEach(S) == \A m, n \in S : RidOf[m] = RidOf[n] => m = n

TypeOK ==
    /\ IsTable(identity, Row) /\ IsTable(objects, Row) /\ OneEach(DOMAIN objects)
    /\ IsTable(secret, 1 .. MaxRequests)
    /\ told \in [Rids -> [pw : SUBSET (1 .. MaxRequests),
                          control : SUBSET (1 .. MaxRequests)]]
    /\ page.there \subseteq Rids /\ page.seen \subseteq Rids
    /\ requests \in 0 .. MaxRequests /\ faults \in 0 .. MaxFaults

Init ==
    /\ identity = [n \in Builtins |-> Seeded]
    /\ objects = identity
    /\ secret = [n \in {} |-> 0]
    /\ told = [r \in Rids |-> Nothing]
    /\ page = NoPage
    /\ requests = 0 /\ faults = 0

\* mirror_identity_objects_into_ad_objects: the rows that are missing, as they
\* are, in one statement; one RID that is taken refuses them all.
Mirrored == IF OneEach(DOMAIN identity \cup DOMAIN objects)
            THEN [n \in DOMAIN identity \cup DOMAIN objects |->
                     IF n \in DOMAIN objects THEN objects[n] ELSE identity[n]]
            ELSE objects
\* lookup_samr_account and lookup_ldap_object_where, by RID: one account or none.
Holding(rid) == {n \in DOMAIN Mirrored : RidOf[n] = rid}

With(table, n, value) == [m \in DOMAIN table \cup {n} |->
                             IF m = n THEN value ELSE table[m]]
Without(table, n) == [m \in DOMAIN table \ {n} |-> table[m]]

Request == requests < MaxRequests /\ requests' = requests + 1
Counted(broken) == /\ broken => faults < MaxFaults
                   /\ faults' = IF broken THEN faults + 1 ELSE faults

-----------------------------------------------------------------------------
(***************************************************************************)
(* What is read.                                                           *)
(***************************************************************************)

\* default_samr_domain_records: the accounts answered without a database.
DefaultRecords == [n \in Builtins |-> Seeded]

\* The order of RIDs written out (three to six digits) and compared as text.
SixDigits(rid) == rid * (IF rid < 1000 THEN 1000 ELSE IF rid < 10000 THEN 100
                         ELSE IF rid < 100000 THEN 10 ELSE 1)
TextBefore(r, s) == \/ SixDigits(r) < SixDigits(s)
                    \/ SixDigits(r) = SixDigits(s) /\ r < s

\* load_samr_account_records: the first rows in that order, and no more.
Loaded == {n \in DOMAIN Mirrored :
              Cardinality({m \in DOMAIN Mirrored : TextBefore(RidOf[m], RidOf[n])}) < Limit}

\* samr_domain_records: a default record hides the stored one of its name.
Records(up) == [n \in (IF up THEN Loaded ELSE {}) \cup Builtins |->
                   IF n \in Builtins THEN DefaultRecords[n] ELSE Mirrored[n]]

\* resolve_samr_account, by RID: the database's record, else the built-in one
\* or one of a user that is made up, which count the same groups.  Without the
\* database handle_samr_account_request makes up a machine.
Resolve(up, rid) ==
    IF ~up THEN NewMachine
    ELSE IF Holding(rid) = {} THEN Seeded
    ELSE Mirrored[CHOOSE n \in Holding(rid) : TRUE]

\* The handle of a name is its RID (samr_create_user_response,
\* samr_open_user_response), whoever has the RID.
HandleOf(n) == RidOf[n]

\* samr_lookup_names_response, and lsa_lookup_names_response.
LookupNames(S) == {HandleOf(n) : n \in S}
\* samr_lookup_ids_response, and lsa_lookup_sids_response: the names.
LookupIds(up, rids) ==
    UNION {LET found == Holding(rid) \cup {b \in Builtins : RidOf[b] = rid}
           IN  IF up /\ found # {} THEN found ELSE {MadeUp} : rid \in rids}

\* unique_samr_group_rids
UniqueGroupRids(row) == row.groups \cup {row.primary}

\* samr_get_groups_for_user_response
GroupsForUser(up, rid) == UniqueGroupRids(Resolve(up, rid))

\* samr_member_rids_for_group
MembersOfGroup(up, g) ==
    {RidOf[n] : n \in {a \in DOMAIN Records(up) : g \in UniqueGroupRids(Records(up)[a])}}

\* samr_member_rids_for_alias: the alias's own members first.
MembersOfAlias(up, a) ==
    (IF a = Operators THEN AliasMembers ELSE {}) \cup MembersOfGroup(up, a)

\* samr_display_records: the accounts in the order of their RIDs, each with the
\* number of those before it.
DisplayRecords(up) ==
    LET rids == {RidOf[n] : n \in DOMAIN Records(up)}
    IN  [r \in rids |-> Cardinality({s \in rids : s < r})]

\* samr_query_display_information_response: none beyond the end.
DisplayPage(records, start) ==
    {r \in DOMAIN records : records[r] \in start .. start + PageSize - 1}

-----------------------------------------------------------------------------
(***************************************************************************)
(* Joining.                                                                *)
(***************************************************************************)

\* Mutant: the row is written whether or not there is one.
CreatedAnew(m) == NewMachine
\* create_samr_machine_account is called for a missing account alone.
Created(m) == IF m \in DOMAIN Mirrored THEN Mirrored[m] ELSE NewMachine

\* The insert is refused by the RID of another account.
Taken(m) == \E n \in DOMAIN Mirrored \ {m} : RidOf[n] = RidOf[m]

\* handle_samr_account_request: an account that is there is opened.  A row
\* that could not be written is answered with a handle all the same, as is a
\* request without a database: samr_create_user_response refuses no name.
\* The identity row, which comes first, has no RID to refuse it.
CreateUser(m) ==
    \E up \in BOOLEAN, broken \in {"no", "identity", "object"} :
      /\ Request /\ Counted(~up \/ broken # "no")
      /\ broken # "no" => up /\ m \notin DOMAIN Mirrored
      /\ objects' = IF ~up THEN objects
                    ELSE IF broken = "no" /\ ~Taken(m) THEN With(Mirrored, m, Created(m))
                    ELSE Mirrored
      /\ identity' = IF up /\ broken # "identity" /\ m \notin DOMAIN Mirrored
                     THEN With(identity, m, NewMachine) ELSE identity
      /\ UNCHANGED <<secret, told, page>>

\* The attributes samr_set_user_info_response takes from each class of
\* information, as handle_samr_account_update applies them to the row.
Updated(row, class, value) ==
    CASE class = "control" -> [row EXCEPT !.control = value]
      [] class = "primary" -> [row EXCEPT !.primary = DomainUsers]
      [] class = "all" -> [row EXCEPT !.control = value, !.primary = DomainUsers]
      [] OTHER -> row

\* persist_ad_account_secret, after the account's row.
SecretStored(n, class, broken, value) ==
    IF class = "password" /\ broken \in {"no", "stamp"}
    THEN With(secret, n, value) ELSE secret

\* handle_samr_account_update with persist_ad_account_secret: nothing to
\* change (a password that cannot be decoded) and no database are successes;
\* an account that is not there and a statement that fails are refusals.  The
\* account is the one that has the RID of the handle, whatever name the handle
\* was asked for.  The row is written whole, identity first; a failed stamp
\* comes after the secret.
SetUserInfo(m) ==
    \E class \in {"control", "primary", "all", "password", "unreadable"},
       up \in BOOLEAN, broken \in {"no", "identity", "object", "secret", "stamp"} :
      LET value == requests + 1
          rid == HandleOf(m)
          stored == up /\ class # "unreadable"
          found == stored /\ Holding(rid) # {}
          n == CHOOSE a \in Holding(rid) : TRUE
          row == Updated(Mirrored[n], class, value)
          ok == found /\ broken = "no"
          Told(set, changes) == IF ~found \/ ~changes THEN set
                                ELSE IF ok THEN {value}
                                ELSE IF set = {} THEN {} ELSE set \cup {value}
      IN  /\ Request /\ Counted(~up \/ broken # "no")
          /\ broken # "no" => found
          /\ broken \in {"secret", "stamp"} => class = "password"
          /\ objects' = IF ~stored THEN objects
                        ELSE IF found /\ broken \notin {"identity", "object"}
                             THEN With(Mirrored, n, row) ELSE Mirrored
          /\ identity' = IF found /\ broken # "identity"
                         THEN With(identity, n, row) ELSE identity
          /\ secret' = IF ~found THEN secret ELSE SecretStored(n, class, broken, value)
          /\ told' = [told EXCEPT ![rid] =
                        [pw |-> Told(@.pw, class = "password"),
                         control |-> Told(@.control, class \in {"control", "all"})]]
          /\ UNCHANGED page

\* samr_stub_response and lsarpc_stub_response for what changes nothing: domain
\* and alias handles, security, policy, rights, and the deletions (35, 45, 23),
\* which succeed without deleting.  Reading copies the identity rows first.
Probe ==
    \E up \in BOOLEAN :
      /\ objects' = IF up THEN Mirrored ELSE objects
      /\ UNCHANGED <<identity, secret, told, page, requests, faults>>

\* An administrator deletes a machine through LDAP, which copies the identity
\* rows first, or through the API.
Delete(m) ==
    \E rows \in {objects, Mirrored} :
      /\ Request /\ m \in DOMAIN identity \cup DOMAIN objects
      /\ identity' = Without(identity, m)
      /\ objects' = Without(rows, m)
      /\ secret' = Without(secret, m)
      /\ told' = IF m \in DOMAIN objects THEN [told EXCEPT ![RidOf[m]] = Nothing] ELSE told
      /\ page' = [page EXCEPT !.spoiled = TRUE]
      /\ UNCHANGED faults

\* The RIDs of all accounts, and whether an enumeration reads them all.
Stored == {RidOf[n] : n \in DOMAIN Mirrored \cup Builtins}
Within == Cardinality(DOMAIN Mirrored) <= Limit

\* A client lists the accounts, each page from where the one before ended,
\* until a page is empty.
ListPage ==
    \E up \in BOOLEAN :
      LET begun == IF page.open THEN page
                   ELSE [NoPage EXCEPT !.there = Stored, !.open = TRUE]
          entries == DisplayPage(DisplayRecords(up), begun.start)
      IN  /\ IF page.open THEN UNCHANGED requests ELSE Request
          /\ Counted(~up)
          /\ objects' = IF up THEN Mirrored ELSE objects
          /\ page' = [begun EXCEPT !.start = @ + Cardinality(entries),
                                   !.seen = @ \cup entries,
                                   !.open = entries # {},
                                   !.spoiled = @ \/ ~up]
          /\ UNCHANGED <<identity, secret, told>>

Next ==
    \/ \E m \in Machines : CreateUser(m) \/ SetUserInfo(m) \/ Delete(m)
    \/ Probe
    \/ ListPage

Spec == Init /\ [][Next]_vars

-----------------------------------------------------------------------------
(***************************************************************************)
(* Properties.                                                             *)
(***************************************************************************)

\* What the callers with the handle of a RID were told is stored is found in
\* the account that has the RID, the last value told of, or one refused since,
\* until the account is deleted: creating it again, a name whose RID is taken,
\* copying identity rows and failed statements do not bring an older value back.
JoinStored ==
    \A rid \in Rids :
        /\ told[rid].pw # {} =>
             \E n \in DOMAIN objects \cap DOMAIN secret :
                RidOf[n] = rid /\ secret[n] \in told[rid].pw
        /\ told[rid].control # {} =>
             \E n \in DOMAIN objects :
                RidOf[n] = rid /\ objects[n].control \in told[rid].control

\* A member of a group counts it among its groups, of accounts that no default
\* record hides; and the other way as long as an enumeration reads them all.
MembersAgree ==
    \A n \in DOMAIN Mirrored \ Builtins, g \in Groups \cup {Operators} :
        /\ RidOf[n] \in MembersOfAlias(TRUE, g) => g \in GroupsForUser(TRUE, RidOf[n])
        /\ Within /\ g \in GroupsForUser(TRUE, RidOf[n]) => RidOf[n] \in MembersOfAlias(TRUE, g)

\* A listing that came to its end, with no deletion and no loss of the
\* database meanwhile, and no more accounts stored than an enumeration reads,
\* has every account that was there when it began, whatever was created while
\* it went on; and what any listing saw has a name, of which it is the RID.
ListingComplete ==
    ~page.open /\ ~page.spoiled =>
        /\ Within => page.there \subseteq page.seen
        /\ LookupIds(TRUE, page.seen) \subseteq Accounts
        /\ LookupNames(LookupIds(TRUE, page.seen)) = page.seen
===============================================================================
