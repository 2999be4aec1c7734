------------------------------ MODULE LdapSearch ------------------------------
(***************************************************************************)
(* LDAP searches of the directory daemon (libs/protocol/src/ldap.cpp): the *)
(* constructed attributes, the filters, the scopes and the entries, over   *)
(* the objects and memberships of Memberships.                             *)
(*                                                                         *)
(* An attribute value is a set of names: a string is a set of one, and the *)
(* list in groupRids is one value.  A filter is a sequence of records, as  *)
(* it comes over the wire: an operator, then its parts, which it names by  *)
(* their places.  Assertions on parts of a string are left out, comparing  *)
(* ranges too, which the code takes to be true of everything.              *)
(***************************************************************************)
EXTENDS Memberships, Sequences, SequencesExt

CONSTANTS
    Containers,   \* "base" and other names virtual_ad_objects gives an object when no row has them
    ParentOf      \* the name above each name, or the name itself at the top

\* virtual_ad_objects and merge_virtual_objects: rows first.
Searchable == There \cup (Containers \ There)

-----------------------------------------------------------------------------
(***************************************************************************)
(* Chains (matching rule 1.2.840.113556.1.4.1941): depth first, with the   *)
(* names visited so far shared by all branches.  The pending iterations of *)
(* the recursive calls are one list: the names still to look at, those of  *)
(* the innermost call first.                                               *)
(***************************************************************************)
UpEdges == [o \in Searchable |-> MemberOf(o)]
DownEdges == [g \in Groups |-> Members(g)]

\* A call for name d: nothing when d was visited, or is no object (no group, on the way down).
Opened(edges, w, d) ==
    IF d \in w.seen \/ d \notin DOMAIN edges THEN w
    ELSE [w EXCEPT !.seen = @ \cup {d}, !.todo = SetToSeq(edges[d]) \o @]

\* An iteration: the next name is the one looked for, or is followed.
Followed(edges, w, target) ==
    IF w.found \/ w.todo = <<>> THEN w
    ELSE IF Head(w.todo) = target THEN [w EXCEPT !.found = TRUE]
    ELSE Opened(edges, [w EXCEPT !.todo = Tail(@)], Head(w.todo))

\* More than enough: the start and each name are followed once, to each name at most.
Iterations == (Cardinality(Dns) + 1) * Cardinality(Dns)

\* Mutant: an object is visited, and what it leads to is not.
ChainOnce(edges, o, target) == o \in DOMAIN edges /\ target \in edges[o]
\* member_of_chain_contains over UpEdges, member_chain_contains over DownEdges.
Chain(edges, o, target) ==
    LET walk[n \in 0 .. Iterations] ==
          IF n = 0 THEN Opened(edges, [found |-> FALSE, seen |-> {}, todo |-> <<>>], o)
          ELSE Followed(edges, walk[n - 1], target)
    IN  walk[Iterations].found

\* object_attribute_transitive_matches
Transitive(o, attribute, target) ==
    \/ attribute = "memberOf" /\ Chain(UpEdges, o, target)
    \/ attribute = "member" /\ Chain(DownEdges, o, target)

-----------------------------------------------------------------------------
(***************************************************************************)
(* Attributes.                                                             *)
(***************************************************************************)
Attributes == {"objectClass", "distinguishedName", "memberOf", "member", "primaryGroupToken",
               "sAMAccountType", "tokenGroups", "groupRids", "userPasswordHash"}

Single(S) == {{x} : x \in S}
KindOf(o) == IF o \in Groups THEN "group" ELSE IF o \in There THEN "user" ELSE "container"

\* object_attribute_values, for objects with a row and for virtual ones.
AttributeValues(o, attribute) ==
    CASE attribute = "objectClass" -> Single({"top", KindOf(o)})
      [] attribute = "distinguishedName" -> Single({o})
      [] attribute = "memberOf" -> Single(MemberOf(o))
      [] attribute = "member" -> IF o \in Groups THEN Single(Members(o)) ELSE {}
      [] attribute = "primaryGroupToken" -> IF o \in Groups THEN {{Rid(o)}} ELSE {}
      [] attribute = "sAMAccountType" -> IF o \in There THEN {{KindOf(o)}} ELSE {}
      [] attribute = "groupRids" ->
             IF o \in There /\ objects[o].groupRids # {} THEN {objects[o].groupRids} ELSE {}
      [] attribute \in {"userPasswordHash", "tokenGroups"} -> {}

\* token_group_sid_values: the groups that contain the object themselves.
TokenGroups(o) == Single({Rid(g) : g \in MemberOf(o)})

\* object_attribute_binary_values
BinaryValues(o, attribute) == IF attribute = "tokenGroups" THEN TokenGroups(o) ELSE {}

\* object_has_attribute
Has(o, attribute) ==
    IF attribute = "tokenGroups" THEN BinaryValues(o, attribute) # {}
    ELSE AttributeValues(o, attribute) # {}

\* object_attribute_equals
Equals(o, attribute, value) ==
    value \in IF attribute = "tokenGroups" THEN TokenGroups(o) ELSE AttributeValues(o, attribute)

\* ldap_attributes_for_object, for one name: what search_result_entry shows.
Shown(o, attribute) ==
    IF BinaryValues(o, attribute) # {} THEN BinaryValues(o, attribute)
    ELSE AttributeValues(o, attribute)

\* ldap_attributes_for_object: which names, for a list of requested ones.
Named(requested) ==
    LET constructed == {"sAMAccountType", "primaryGroupToken", "memberOf", "tokenGroups"}
        user == requested = {} \/ "*" \in requested
    IN  CASE requested = {"1.1"} -> {}
          [] user /\ "+" \notin requested -> Attributes \ {"userPasswordHash"}
          [] user -> (Attributes \ {"userPasswordHash"}) \cup (requested \cap Attributes)
          [] OTHER -> (requested \cap Attributes) \cup
                      (IF "+" \in requested THEN constructed ELSE {})

Entry(o, requested) ==
    [a \in {n \in Named(requested) : Shown(o, n) # {}} |-> Shown(o, a)]

-----------------------------------------------------------------------------
(***************************************************************************)
(* Filters and scopes.                                                     *)
(***************************************************************************)
\* filter_matches_object; a filter it does not know is true.
Matches(f, o) ==
    LET holds[n \in DOMAIN f] ==
          CASE f[n].op = "and" -> \A part \in f[n].parts : holds[part]
            [] f[n].op = "or" -> \E part \in f[n].parts : holds[part]
            [] f[n].op = "not" -> ~holds[f[n].part]
            [] f[n].op = "present" -> Has(o, f[n].attribute)
            [] f[n].op = "equal" -> Equals(o, f[n].attribute, f[n].value)
            [] f[n].op = "chain" ->
                   \/ Transitive(o, f[n].attribute, CHOOSE x \in f[n].value : TRUE)
                   \/ Equals(o, f[n].attribute, f[n].value)
            [] OTHER -> TRUE
    IN  holds[1]

\* The names above a name, itself included.
Above(d) ==
    LET up[n \in 0 .. Cardinality(Containers)] ==
          IF n = 0 THEN {d} ELSE up[n - 1] \cup {ParentOf[x] : x \in up[n - 1]}
    IN  up[Cardinality(Containers)]

\* object_in_scope
InScope(d, base, scope) ==
    CASE scope = "base" -> d = base
      [] scope = "one" -> d # base /\ ParentOf[d] = base
      [] scope = "subtree" -> base \in Above(d)

\* The search of ldap_ad_response_impl: the entries, by the name of the object.
Found(base, scope, f, requested) ==
    [d \in {o \in Searchable : InScope(o, base, scope) /\ Matches(f, o)} |-> Entry(d, requested)]

-----------------------------------------------------------------------------
\* What can be reached from an object, in one step or more: in every set that
\* holds its neighbours and with a name its neighbours.  The reference for the chains.
Reached(edges, o) ==
    {d \in Dns : \A C \in SUBSET Dns :
         edges[o] \subseteq C /\ (\A x \in C \cap DOMAIN edges : edges[x] \subseteq C) => d \in C}

\* 'ldap-transitive-membership': "matching rule 1.2.840.113556.1.4.1941 evaluates
\* nested member/memberOf group chains": also around a circle of groups and past a
\* name nobody has, the chains find what is reachable, in both directions the same.
ChainsReach ==
    \A o \in There, g \in Groups :
        /\ Transitive(o, "memberOf", g) = (g \in Reached(UpEdges, o))
        /\ Transitive(g, "member", o) = (o \in Reached(DownEdges, g))
        /\ o # g => Transitive(o, "memberOf", g) = Transitive(g, "member", o)

\* Searching for a value finds the objects whose entries show it, and a
\* presence filter those whose entries have the attribute.
EntriesAnswerFilters ==
    \A a \in Attributes \ {"userPasswordHash"} :
        LET search(f) == Found("base", "subtree", f, {a})
            present == [op |-> "present", attribute |-> a]
            all == search(<<[op |-> "or", parts |-> {2, 3}], present,
                            [op |-> "not", part |-> 4], present>>)
        IN  /\ DOMAIN search(<<present>>) = {d \in DOMAIN all : a \in DOMAIN all[d]}
            /\ \A v \in Single(Dns) :
                 DOMAIN search(<<[op |-> "equal", attribute |-> a, value |-> v]>>)
                   = {d \in DOMAIN all : a \in DOMAIN all[d] /\ v \in all[d][a]}

SearchSound == at \in {"idle", "ready"} => ChainsReach /\ EntriesAnswerFilters

=============================================================================
