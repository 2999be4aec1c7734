----------------------------- MODULE LdapService -----------------------------
(***************************************************************************)
(* LDAP over the event loop of the daemons: the connections of             *)
(* libs/core/src/uv_runtime.cpp, the requests of libs/protocol/src/ldap.cpp *)
(* and the sessions of apps/directory/main.cpp, which are kept per         *)
(* connection label.  A label is the listener's name and the address of    *)
(* the connection's object in memory, so a later connection may get the    *)
(* label of an earlier one; datagrams all have the label of their          *)
(* listener.                                                               *)
(*                                                                         *)
(* A request is what the parsers make of it.  What searches find is in     *)
(* LdapSearch, and what changes do in Directory and Memberships.           *)
(***************************************************************************)
EXTENDS Integers, Sequences, FiniteSets, FiniteSetsExt

CONSTANTS
    Labels,       \* connection labels, integers in their order in std::map
    Datagrams,    \* the label of the datagrams, before all others
    Capacity,     \* sessions kept before one makes room (1024)
    Accounts,     \* the names that binds give
    Nobody,       \* no principal
    Asked,        \* the requests of the instance
    MaxRequests,  \* bound: requests
    MaxCrashes    \* bound: deaths of the daemon

\* version, auth_tag and sasl_mechanism of LdapBindRequest, and what is behind
\* the credentials: "sasl" has a ticket in GSSAPI or GSS-SPNEGO, "empty" nothing.
Bind == [op : {"bind"}, how : {"anonymous", "malformed", "unsupported", "empty"}]
            \cup [op : {"bind"}, how : {"external"}, who : Accounts]
            \cup [op : {"bind"}, how : {"simple", "sasl"}, who : Accounts, right : BOOLEAN]
Search == [op : {"search"}, critical : BOOLEAN]
Write == [op : {"write"}, wellFormed : BOOLEAN]
Request == Bind \cup Search \cup Write \cup [op : {"unbind", "compare", "unknown"}]

ASSUME LdapAssumption ==
    /\ Labels \subseteq Nat /\ Datagrams = 0 /\ Datagrams \notin Labels
    /\ Capacity \in Nat \ {0}
    /\ Nobody \notin Accounts /\ Asked \subseteq Request
    /\ MaxRequests \in Nat /\ MaxCrashes \in Nat

VARIABLES
    open,      \* the connections there are
    stream,    \* per connection: pieces of requests sent and not read yet
    left,      \* connections whose client has gone
    writing,   \* per connection: "answer" while one is written, "garbled" after two
    waits,     \* connections whose client waits for an answer
    hasty,     \* connections whose client did not wait for one
    disabled,  \* disabled accounts; nothing here changes them
    sessions,  \* ldap_sessions: who is bound on each label that has an entry
    requests, crashes,
    bound,     \* per label: what the binds of this connection come to
    unsure     \* labels whose session is an earlier connection's, or was evicted

client == <<left, waits, hasty>>
vars == <<open, stream, left, writing, waits, hasty, disabled, sessions, requests, crashes,
          bound, unsure>>

NoAnswer == -1   \* the empty packet

\* A request arrives in one piece or in two.
Piece == [request : Asked, part : {"whole", "head", "tail"}]

TypeOK ==
    /\ open \subseteq Labels
    /\ DOMAIN stream = Labels /\ \A l \in Labels : stream[l] \in Seq(Piece)
    /\ left \subseteq open /\ waits \subseteq open /\ hasty \subseteq open
    /\ writing \in [Labels -> {"none", "answer", "garbled"}]
    /\ disabled \subseteq Accounts
    /\ DOMAIN sessions \subseteq Labels \cup {Datagrams}
    /\ \A l \in DOMAIN sessions : sessions[l] \in Accounts \cup {Nobody}
    /\ requests \in 0 .. MaxRequests /\ crashes \in 0 .. MaxCrashes
    /\ bound \in [Labels -> Accounts \cup {Nobody}]
    /\ unsure \subseteq Labels

Empty == [l \in {} |-> Nobody]

Init ==
    /\ open = {} /\ left = {} /\ waits = {} /\ hasty = {}
    /\ stream = [l \in Labels |-> <<>>]
    /\ writing = [l \in Labels |-> "none"]
    /\ disabled \in SUBSET Accounts
    /\ sessions = Empty
    /\ requests = 0 /\ crashes = 0
    /\ bound = [l \in Labels |-> Nobody]
    /\ unsure = {}

-----------------------------------------------------------------------------
(***************************************************************************)
(* The answer to a request, and the session after it.  An answer is a      *)
(* result code; NoAnswer is the empty packet.                              *)
(***************************************************************************)
Outcome(code, session) == [code |-> code, session |-> session]

\* verify_ldap_simple_bind
Verified(b) == b.right /\ b.who \notin disabled

\* bind_response.  A simple bind that fails leaves nobody bound, a SASL bind
\* that fails leaves who was.  EXTERNAL is taken at its word, and a SASL bind
\* without credentials succeeds and leaves nobody bound.
\* Mutant: a simple bind that fails leaves who was.
BindKeeps(b, session) ==
    CASE b.how = "malformed" -> Outcome(2, session)
      [] b.how = "unsupported" -> Outcome(7, session)
      [] b.how \in {"anonymous", "empty"} -> Outcome(0, Nobody)
      [] b.how = "external" -> Outcome(0, b.who)
      [] b.how \in {"simple", "sasl"} -> IF Verified(b) THEN Outcome(0, b.who) ELSE Outcome(49, session)
BindResponse(b, session) ==
    CASE b.how = "malformed" -> Outcome(2, session)
      [] b.how = "unsupported" -> Outcome(7, session)
      [] b.how \in {"anonymous", "empty"} -> Outcome(0, Nobody)
      [] b.how = "external" -> Outcome(0, b.who)
      [] b.how = "simple" -> IF Verified(b) THEN Outcome(0, b.who) ELSE Outcome(49, Nobody)
      [] b.how = "sasl" -> IF Verified(b) THEN Outcome(0, b.who) ELSE Outcome(49, session)

\* write_response: the name, then the bind, then the schema and the handler.
WriteResponse(w, session) ==
    IF ~w.wellFormed THEN {34}
    ELSE IF session = Nobody THEN {50}
    ELSE {0, 19, 32, 65, 68, 80}

\* The search of ldap_ad_response_impl, after its controls.
SearchResponse(s) == IF s.critical THEN {12} ELSE {0, 2}

CompareResponse == {5, 6, 32, 34}

\* ldap_ad_response_impl
Response(r, session) ==
    CASE r.op = "bind" -> {BindResponse(r, session)}
      [] r.op = "search" -> {Outcome(c, session) : c \in SearchResponse(r)}
      [] r.op = "write" -> {Outcome(c, session) : c \in WriteResponse(r, session)}
      [] r.op = "compare" -> {Outcome(c, session) : c \in CompareResponse}
      [] r.op = "unbind" -> {Outcome(NoAnswer, session)}
      [] r.op = "unknown" -> {Outcome(2, session)}

\* read_message_header: the first message, if the packet has all of it.
FirstMessage(packet) ==
    IF packet[1].part = "whole" \/ (packet[1].part = "head" /\ Len(packet) > 1)
    THEN {packet[1].request} ELSE {}

-----------------------------------------------------------------------------
(***************************************************************************)
(* ldap_handler: a copy of the session, the response, the copy put back.   *)
(***************************************************************************)
SessionOf(l) == IF l \in DOMAIN sessions THEN sessions[l] ELSE Nobody

\* The label whose session makes room.
Evicted == IF Cardinality(DOMAIN sessions) > Capacity THEN {Min(DOMAIN sessions)} ELSE {}

Stored(l, session) ==
    [k \in (DOMAIN sessions \ Evicted) \cup {l} |-> IF k = l THEN session ELSE sessions[k]]

\* Did this request settle who is bound?
Settles(r, code) == r.op = "bind" /\ (code = 0 \/ r.how = "simple")

\* Who that is: the name that was proved, or given to EXTERNAL, and nobody otherwise.
BoundBy(first, code) ==
    IF code = 0 /\ \E r \in first : r.how \notin {"anonymous", "empty"}
    THEN CHOOSE who \in Accounts : \E r \in first : r.who = who
    ELSE Nobody

\* A packet without a whole message has no answer, and its label an entry.
Handled(l, packet, answered) ==
    LET first == FirstMessage(packet)
        outcomes == IF first = {} THEN {Outcome(NoAnswer, SessionOf(l))}
                    ELSE UNION {Response(r, SessionOf(l)) : r \in first}
    IN  \E o \in outcomes :
            /\ answered = (o.code # NoAnswer)
            /\ sessions' = Stored(l, o.session)
            /\ bound' = [k \in Labels |->
                 IF k = l /\ \E r \in first : Settles(r, o.code)
                 THEN BoundBy(first, o.code) ELSE bound[k]]
            /\ unsure' = ((unsure \cup (Evicted \cap open))
                            \ (IF \E r \in first : Settles(r, o.code) THEN {l} ELSE {}))
                          \ (IF l \in Evicted /\ l \notin unsure THEN {l} ELSE {})

-----------------------------------------------------------------------------
(***************************************************************************)
(* uv_runtime: a connection is read packet by packet, each of which is     *)
(* given to the handler as it came; an empty answer closes it.             *)
(***************************************************************************)
\* Mutant: what the client had sent is still to be read.
CloseKeepsReading(l) ==
    /\ open' = open \ {l}
    /\ writing' = [writing EXCEPT ![l] = "none"]
    /\ waits' = waits \ {l} /\ hasty' = hasty \ {l}
    /\ UNCHANGED <<stream, left>>
Close(l) ==
    /\ open' = open \ {l}
    /\ stream' = [stream EXCEPT ![l] = <<>>]
    /\ writing' = [writing EXCEPT ![l] = "none"]
    /\ left' = left \ {l} /\ waits' = waits \ {l} /\ hasty' = hasty \ {l}

\* on_new_connection; the label may have an entry from an earlier connection.
Accept(l) ==
    /\ l \notin open
    /\ requests < MaxRequests
    /\ open' = open \cup {l}
    /\ bound' = [bound EXCEPT ![l] = Nobody]
    /\ unsure' = IF SessionOf(l) # Nobody THEN unsure \cup {l} ELSE unsure \ {l}
    /\ UNCHANGED <<stream, client, writing, disabled, sessions, requests, crashes>>

\* The client sends a request, waiting for its last answer or not.
Send(l, r, pieces) ==
    /\ l \in open \ left
    /\ requests < MaxRequests
    /\ stream' = [stream EXCEPT ![l] = @ \o
         [n \in DOMAIN pieces |-> [request |-> r, part |-> pieces[n]]]]
    /\ hasty' = IF l \in waits THEN hasty \cup {l} ELSE hasty
    /\ waits' = waits \cup {l}
    /\ requests' = requests + 1
    /\ UNCHANGED <<open, left, writing, disabled, sessions, crashes, bound, unsure>>

\* One read takes what there is, or a part of it; what follows the first message
\* is dropped with it.  There is one buffer for the answer: a second answer
\* overwrites the one being written.
\* Mutant: an empty answer leaves the connection as it is.
ReadKeeps(l, n) ==
    /\ l \in open
    /\ n \in 1 .. Len(stream[l])
    /\ \E answered \in BOOLEAN :
         /\ Handled(l, SubSeq(stream[l], 1, n), answered)
         /\ writing' = [writing EXCEPT ![l] =
              IF ~answered THEN @ ELSE IF @ = "none" THEN "answer" ELSE "garbled"]
         /\ stream' = [stream EXCEPT ![l] = SubSeq(@, n + 1, Len(@))]
         /\ UNCHANGED <<open, client>>
    /\ UNCHANGED <<disabled, requests, crashes>>
Read(l, n) ==
    /\ l \in open
    /\ n \in 1 .. Len(stream[l])
    /\ \E answered \in BOOLEAN :
         /\ Handled(l, SubSeq(stream[l], 1, n), answered)
         /\ IF ~answered
            THEN Close(l)
            ELSE /\ writing' = [writing EXCEPT ![l] = IF @ = "none" THEN "answer" ELSE "garbled"]
                 /\ stream' = [stream EXCEPT ![l] = SubSeq(@, n + 1, Len(@))]
                 /\ UNCHANGED <<open, client>>
    /\ UNCHANGED <<disabled, requests, crashes>>

\* The callback of uv_write; the LDAP listeners keep the connection.
Written(l) ==
    /\ l \in open
    /\ writing[l] # "none"
    /\ writing' = [writing EXCEPT ![l] = "none"]
    /\ waits' = waits \ {l}
    /\ UNCHANGED <<open, stream, left, hasty, disabled, sessions, requests, crashes, bound, unsure>>

\* The client goes, and the loop reads the end of the stream.
Leave(l) ==
    /\ l \in open \ left
    /\ left' = left \cup {l}
    /\ UNCHANGED <<open, stream, writing, waits, hasty, disabled, sessions, requests, crashes,
                   bound, unsure>>

ReadEnd(l) ==
    /\ l \in left
    /\ stream[l] = <<>>
    /\ Close(l)
    /\ UNCHANGED <<disabled, sessions, requests, crashes, bound, unsure>>

\* on_udp_read: the answer is sent from a buffer of its own.
Datagram(r) ==
    /\ requests < MaxRequests
    /\ requests' = requests + 1
    /\ \E answered \in BOOLEAN :
         Handled(Datagrams, <<[request |-> r, part |-> "whole"]>>, answered)
    /\ UNCHANGED <<open, stream, client, writing, disabled, crashes>>

\* The daemon stops or dies, and its container starts it again.
Restart ==
    /\ crashes < MaxCrashes
    /\ crashes' = crashes + 1
    /\ open' = {} /\ left' = {} /\ waits' = {} /\ hasty' = {}
    /\ stream' = [l \in Labels |-> <<>>]
    /\ writing' = [l \in Labels |-> "none"]
    /\ sessions' = Empty
    /\ bound' = [l \in Labels |-> Nobody]
    /\ unsure' = {}
    /\ UNCHANGED <<disabled, requests>>

\* on_heartbeat
Heartbeat == UNCHANGED vars

Loop(l) == Written(l) \/ ReadEnd(l) \/ \E n \in 1 .. 2 * MaxRequests : Read(l, n)

Next ==
    \/ \E l \in Labels :
         \/ Accept(l) \/ Leave(l)
         \/ \E r \in Asked, pieces \in {<<"whole">>, <<"head", "tail">>} : Send(l, r, pieces)
         \/ Loop(l)
    \/ \E r \in Asked : Datagram(r)
    \/ Restart \/ Heartbeat

\* The loop takes up every event of every connection.
Fairness == \A l \in Labels : WF_vars(Loop(l))

Spec == Init /\ [][Next]_vars /\ Fairness

-----------------------------------------------------------------------------
\* 'ldap-session-authz': "LDAP TCP sessions track successful binds": the session
\* of a connection is what its own last bind came to (the name it proved or, to
\* EXTERNAL, merely gave; nobody after an anonymous, failed simple or empty SASL
\* bind; as before after a SASL bind that was refused), whichever other connections
\* and datagrams were handled in between, unless it took over the label of an
\* earlier one that was bound, or lost its entry to a newer one; and there is
\* never more than one entry above the capacity.
SessionsTrackBinds ==
    /\ \A l \in open \ unsure : SessionOf(l) = bound[l]
    /\ Cardinality(DOMAIN sessions) <= Capacity + 1

\* A client that waits for its answers gets one, or its connection is closed,
\* however its request is cut into packets and whatever other clients do.
ClientsServed ==
    \A l \in Labels : (l \in waits \ hasty) ~> (l \notin waits \/ l \in hasty)

=============================================================================
