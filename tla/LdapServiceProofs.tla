-------------------------- MODULE LdapServiceProofs ---------------------------
(***************************************************************************)
(* What LdapService keeps for any connections, accounts, requests and      *)
(* capacity: a connection's session is what its own binds came to.         *)
(*                                                                         *)
(* A handler changes the session of its own label and of the label it      *)
(* evicts, and no other; an evicted one is unsure from then on.  What it   *)
(* stores for its own label is what the request settles, or what was       *)
(* there.                                                                  *)
(***************************************************************************)
EXTENDS LdapService, Lemmas

Clean == \A l \in open \ unsure : SessionOf(l) = bound[l]

\* There are never more entries than one above the capacity.
Room == IsFiniteSet(DOMAIN sessions) /\ Cardinality(DOMAIN sessions) <= Capacity + 1

IInv == TypeOK /\ Clean /\ Room

-----------------------------------------------------------------------------
\* The least of a set is one of its elements.
LEMMA MinNatural ==
    ASSUME NEW S, S \subseteq Nat, S # {}
    PROVE  Min(S) \in S
BY LeastNatural DEF Min

\* Labels are naturals, in their order in std::map.
LEMMA Assumed ==
    /\ Labels \cup {Datagrams} \subseteq Nat
    /\ Datagrams \notin Labels
    /\ Capacity \in Nat /\ Capacity >= 1
    /\ Nobody \notin Accounts
    /\ MaxRequests \in Nat /\ MaxCrashes \in Nat
    /\ Asked \subseteq Request
BY LdapAssumption DEF LdapAssumption

LEMMA Starts == Init => IInv
<1> SUFFICES ASSUME Init PROVE IInv
    OBVIOUS
<1> USE Assumed DEF Init, Empty
<1>1. DOMAIN sessions = {}
    OBVIOUS
<1>2. TypeOK
    BY <1>1 DEF TypeOK
<1>3. Clean
    BY DEF Clean
<1>4. Room
    BY <1>1, FS_EmptySet DEF Room
<1>. QED
    BY <1>2, <1>3, <1>4 DEF IInv

-----------------------------------------------------------------------------
\* What a request makes of a session: the name that was proved or given, or nobody, when it
\* settles who is bound, and the session as it was otherwise.
LEMMA ResponseSession ==
    ASSUME NEW r \in Request, NEW s \in Accounts \cup {Nobody}, NEW o \in Response(r, s)
    PROVE  /\ o.session \in Accounts \cup {Nobody}
           /\ Settles(r, o.code) => o.session = BoundBy({r}, o.code)
           /\ ~Settles(r, o.code) => o.session = s
<1> USE DEF Outcome, Settles
<1>1. CASE r \in Bind
    <2>1. r.op = "bind" /\ r.how \in {"anonymous", "malformed", "unsupported", "empty", "external", "simple",
                                          "sasl"}
        BY <1>1 DEF Bind
    <2>2. o = BindResponse(r, s)
        BY <2>1 DEF Response
    <2>3. CASE r.how \in {"anonymous", "malformed", "unsupported", "empty"}
        BY <2>1, <2>2, <2>3 DEF BindResponse, BoundBy
    <2>4. CASE r.how \in {"external", "simple", "sasl"}
        <3>1. r.who \in Accounts
            BY <1>1, <2>4 DEF Bind
        <3>2. (CHOOSE who \in Accounts : \E q \in {r} : q.who = who) = r.who
            BY <3>1
        <3>3. QED
            BY <2>1, <2>2, <2>4, <3>1, <3>2 DEF BindResponse, BoundBy
    <2>5. QED
        BY <2>1, <2>3, <2>4
<1>2. CASE r \in Search
    <2>1. r.op = "search"
        BY <1>2 DEF Search
    <2>2. QED
        BY <2>1 DEF Response
<1>3. CASE r \in Write
    <2>1. r.op = "write"
        BY <1>3 DEF Write
    <2>2. QED
        BY <2>1 DEF Response
<1>4. CASE r \in [op : {"unbind", "compare", "unknown"}]
    <2>1. r.op \in {"unbind", "compare", "unknown"}
        BY <1>4
    <2>2. QED
        BY <2>1 DEF Response
<1>. QED
    BY <1>1, <1>2, <1>3, <1>4 DEF Request

-----------------------------------------------------------------------------
\* The label that makes room is one with an entry, and the only one.
LEMMA EvictedOne ==
    ASSUME TypeOK, Room
    PROVE  /\ Evicted \subseteq DOMAIN sessions
           /\ Cardinality(DOMAIN sessions) > Capacity =>
                \E k \in DOMAIN sessions : Evicted = {k}
<1>1. CASE Cardinality(DOMAIN sessions) > Capacity
    <2>1. DOMAIN sessions # {}
        BY <1>1, FS_EmptySet, Assumed
    <2>2. Min(DOMAIN sessions) \in DOMAIN sessions
        BY <2>1, MinNatural, Assumed DEF TypeOK
    <2>3. QED
        BY <1>1, <2>2 DEF Evicted
<1>2. CASE ~(Cardinality(DOMAIN sessions) > Capacity)
    BY <1>2 DEF Evicted
<1>. QED
    BY <1>1, <1>2

\* Storing a session makes room before it takes any.
LEMMA StoredRoom ==
    ASSUME TypeOK, Room, NEW l, NEW s, sessions' = Stored(l, s)
    PROVE  Room'
<1> DEFINE D == DOMAIN sessions
           K == D \ Evicted
<1>1. DOMAIN sessions' = K \cup {l}
    BY DEF Stored
<1>2. IsFiniteSet(D) /\ Cardinality(D) \in Nat /\ Cardinality(D) <= Capacity + 1
    BY FS_CardinalityType DEF Room
<1>3. IsFiniteSet(K) /\ Cardinality(K) \in Nat /\ Cardinality(K) <= Capacity
    <2>1. CASE Cardinality(D) > Capacity
        <3>1. PICK k \in D : Evicted = {k}
            BY <2>1, EvictedOne
        <3>2. K = D \ {k}
            BY <3>1
        <3>3. IsFiniteSet(D \ {k}) /\ Cardinality(D \ {k}) = Cardinality(D) - 1
            BY <1>2, FS_RemoveElement
        <3>4. QED
            BY <1>2, <2>1, <3>2, <3>3, Assumed
    <2>2. CASE ~(Cardinality(D) > Capacity)
        <3>1. K = D
            BY <2>2 DEF Evicted
        <3>2. QED
            BY <1>2, <2>2, <3>1, Assumed
    <2>3. QED
        BY <2>1, <2>2
<1>4. IsFiniteSet(K \cup {l}) /\ Cardinality(K \cup {l}) <= Cardinality(K) + 1
    BY <1>3, FS_AddElement
<1>5. Cardinality(K \cup {l}) \in Nat
    BY <1>4, FS_CardinalityType
<1> HIDE DEF K
<1>. QED
    BY <1>1, <1>3, <1>4, <1>5, Assumed DEF Room

\* What a packet leads to, in terms of the session it stores for its label.
Leads(l, s, settled) ==
    /\ sessions' = Stored(l, s)
    /\ s \in Accounts \cup {Nobody}
    /\ bound' = [k \in Labels |-> IF k = l /\ settled THEN s ELSE bound[k]]
    /\ ~settled => s = SessionOf(l)
    /\ unsure' = ((unsure \cup (Evicted \cap open)) \ (IF settled THEN {l} ELSE {}))
                   \ (IF l \in Evicted /\ l \notin unsure THEN {l} ELSE {})

LEMMA HandledLeads ==
    ASSUME TypeOK, NEW l \in Labels \cup {Datagrams}, NEW packet, NEW answered,
           packet[1].request \in Asked, Handled(l, packet, answered)
    PROVE  \E s \in Accounts \cup {Nobody}, settled \in BOOLEAN : Leads(l, s, settled)
<1> DEFINE first == FirstMessage(packet)
           r == packet[1].request
<1>1. SessionOf(l) \in Accounts \cup {Nobody}
    BY DEF TypeOK, SessionOf
<1>2. r \in Request /\ first \in {{}, {r}}
    BY Assumed DEF FirstMessage
<1>3. PICK o \in IF first = {} THEN {Outcome(NoAnswer, SessionOf(l))}
                 ELSE UNION {Response(q, SessionOf(l)) : q \in first} :
        /\ sessions' = Stored(l, o.session)
        /\ bound' = [k \in Labels |->
             IF k = l /\ \E q \in first : Settles(q, o.code) THEN BoundBy(first, o.code)
             ELSE bound[k]]
        /\ unsure' = ((unsure \cup (Evicted \cap open))
                        \ (IF \E q \in first : Settles(q, o.code) THEN {l} ELSE {}))
                      \ (IF l \in Evicted /\ l \notin unsure THEN {l} ELSE {})
    BY DEF Handled
<1> HIDE DEF first
<1>4. CASE first = {}
    <2>1. o.session = SessionOf(l)
        BY <1>3, <1>4 DEF Outcome
    <2>2. Leads(l, o.session, FALSE)
        BY <1>1, <1>3, <1>4, <2>1 DEF Leads
    <2>3. QED
        BY <1>1, <2>1, <2>2
<1>5. CASE first = {r}
    <2> DEFINE settled == Settles(r, o.code)
    <2>1. o \in Response(r, SessionOf(l))
        BY <1>3, <1>5
    <2>2. /\ o.session \in Accounts \cup {Nobody}
          /\ settled => o.session = BoundBy(first, o.code)
          /\ ~settled => o.session = SessionOf(l)
        BY <1>1, <1>2, <1>5, <2>1, ResponseSession
    <2>3. (\E q \in first : Settles(q, o.code)) <=> settled
        BY <1>5
    <2>4. settled \in BOOLEAN
        BY DEF Settles
    <2> HIDE DEF settled
    <2>5. Leads(l, o.session, settled)
        BY <1>3, <2>2, <2>3 DEF Leads
    <2>6. QED
        BY <2>2, <2>4, <2>5
<1>. QED
    BY <1>2, <1>4, <1>5

\* So a handler keeps the session of every connection that stays open.
LEMMA HandledKeeps ==
    ASSUME IInv, NEW l \in Labels \cup {Datagrams}, NEW s, NEW settled \in BOOLEAN,
           Leads(l, s, settled), open' \subseteq open
    PROVE  /\ Clean' /\ Room'
           /\ bound' \in [Labels -> Accounts \cup {Nobody}]
           /\ unsure' \subseteq Labels
           /\ DOMAIN sessions' \subseteq Labels \cup {Datagrams}
           /\ \A k \in DOMAIN sessions' : sessions'[k] \in Accounts \cup {Nobody}
<1> USE DEF IInv
<1>1. Room'
    BY StoredRoom DEF Leads
<1>2. open \subseteq Labels /\ unsure \subseteq Labels
    BY DEF TypeOK
<1>3. Evicted \subseteq DOMAIN sessions
    BY EvictedOne
<1>4. sessions' = [k \in (DOMAIN sessions \ Evicted) \cup {l} |-> IF k = l THEN s ELSE sessions[k]]
    BY DEF Leads, Stored
<1>5. ASSUME NEW k \in open' \ unsure' PROVE SessionOf(k)' = bound'[k]
    <2>1. k \in open /\ k \in Labels
        BY <1>2, <1>5
    <2>2. CASE k = l
        <3>1. SessionOf(k)' = s
            <4>1. k \in DOMAIN sessions' /\ sessions'[k] = s
                BY <1>4, <2>2
            <4>2. QED
                BY <4>1 DEF SessionOf
        <3>2. CASE settled
            BY <2>1, <2>2, <3>1, <3>2 DEF Leads
        <3>3. CASE ~settled
            <4>1. bound'[k] = bound[k] /\ s = SessionOf(k)
                BY <2>1, <2>2, <3>3 DEF Leads
            <4>2. k \notin unsure
                BY <1>5, <2>1, <2>2, <3>3 DEF Leads
            <4>3. QED
                BY <2>1, <3>1, <4>1, <4>2 DEF Clean
        <3>4. QED
            BY <3>2, <3>3
    <2>3. CASE k # l
        <3>1. k \notin unsure /\ k \notin Evicted
            BY <1>5, <2>1, <2>3 DEF Leads
        <3>2. SessionOf(k)' = SessionOf(k)
            <4>1. k \in DOMAIN sessions' <=> k \in DOMAIN sessions
                BY <1>4, <2>3, <3>1
            <4>2. k \in DOMAIN sessions' => sessions'[k] = sessions[k]
                BY <1>4, <2>3
            <4>3. QED
                BY <4>1, <4>2 DEF SessionOf
        <3>3. bound'[k] = bound[k]
            BY <2>1, <2>3 DEF Leads
        <3>4. QED
            BY <2>1, <3>1, <3>2, <3>3 DEF Clean
    <2>4. QED
        BY <2>2, <2>3
<1>6. Clean'
    BY <1>5 DEF Clean
<1>7. bound' \in [Labels -> Accounts \cup {Nobody}] /\ unsure' \subseteq Labels
    BY <1>2 DEF Leads, TypeOK
<1>8. /\ DOMAIN sessions' \subseteq Labels \cup {Datagrams}
      /\ \A k \in DOMAIN sessions' : sessions'[k] \in Accounts \cup {Nobody}
    BY <1>4 DEF Leads, TypeOK
<1>. QED
    BY <1>1, <1>6, <1>7, <1>8

-----------------------------------------------------------------------------
(***************************************************************************)
(* One lemma per group of actions.                                         *)
(***************************************************************************)
LEMMA CloseKeepsTypes ==
    ASSUME TypeOK, NEW l, Close(l)
    PROVE  /\ open' \subseteq open /\ open' \subseteq Labels
           /\ DOMAIN stream' = Labels /\ \A k \in Labels : stream'[k] \in Seq(Piece)
           /\ left' \subseteq open' /\ waits' \subseteq open' /\ hasty' \subseteq open'
           /\ writing' \in [Labels -> {"none", "answer", "garbled"}]
<1>1. <<>> \in Seq(Piece)
    OBVIOUS
<1>. QED
    BY <1>1 DEF TypeOK, Close

LEMMA ReadKeepsIInv ==
    ASSUME IInv, NEW l \in Labels, NEW n \in 1 .. 2 * MaxRequests, Read(l, n)
    PROVE  IInv'
<1> USE DEF IInv
<1>1. l \in open /\ n \in 1 .. Len(stream[l]) /\ stream[l] \in Seq(Piece)
    BY DEF Read, TypeOK
<1> DEFINE packet == SubSeq(stream[l], 1, n)
           rest == SubSeq(stream[l], n + 1, Len(stream[l]))
<1>2. packet[1].request \in Asked /\ rest \in Seq(Piece)
    <2>1. packet \in Seq(Piece) /\ Len(packet) = n
        BY <1>1
    <2>2. packet[1] \in Piece
        BY <1>1, <2>1
    <2>3. rest \in Seq(Piece)
        BY <1>1
    <2>4. QED
        BY <2>2, <2>3 DEF Piece
<1>3. PICK answered \in BOOLEAN :
        /\ Handled(l, packet, answered)
        /\ IF ~answered THEN Close(l)
           ELSE /\ writing' = [writing EXCEPT ![l] = IF @ = "none" THEN "answer" ELSE "garbled"]
                /\ stream' = [stream EXCEPT ![l] = rest]
                /\ UNCHANGED <<open, client>>
    BY DEF Read
<1>4. PICK s \in Accounts \cup {Nobody}, settled \in BOOLEAN : Leads(l, s, settled)
    BY <1>2, <1>3, HandledLeads
<1>5. open' \subseteq open
    BY <1>3, CloseKeepsTypes
<1>6. /\ DOMAIN stream' = Labels /\ \A k \in Labels : stream'[k] \in Seq(Piece)
      /\ open' \subseteq Labels
      /\ left' \subseteq open' /\ waits' \subseteq open' /\ hasty' \subseteq open'
      /\ writing' \in [Labels -> {"none", "answer", "garbled"}]
    <2>1. CASE answered
        BY <1>1, <1>2, <1>3, <2>1 DEF TypeOK, client
    <2>2. CASE ~answered
        BY <1>3, <2>2, CloseKeepsTypes
    <2>3. QED
        BY <2>1, <2>2
<1>7. UNCHANGED <<disabled, requests, crashes>>
    BY DEF Read
<1>. QED
    BY <1>4, <1>5, <1>6, <1>7, HandledKeeps DEF TypeOK

LEMMA DatagramKeepsIInv ==
    ASSUME IInv, NEW r \in Asked, Datagram(r)
    PROVE  IInv'
<1> USE DEF IInv
<1> DEFINE packet == <<[request |-> r, part |-> "whole"]>>
<1>1. PICK answered \in BOOLEAN : Handled(Datagrams, packet, answered)
    BY DEF Datagram
<1>2. packet[1].request \in Asked
    OBVIOUS
<1>3. PICK s \in Accounts \cup {Nobody}, settled \in BOOLEAN : Leads(Datagrams, s, settled)
    BY <1>1, <1>2, HandledLeads
<1>4. UNCHANGED <<open, stream, left, waits, hasty, writing, disabled, crashes>>
      /\ requests' \in 0 .. MaxRequests
    BY Assumed DEF Datagram, client, TypeOK
<1>5. /\ Clean' /\ Room'
      /\ bound' \in [Labels -> Accounts \cup {Nobody}]
      /\ unsure' \subseteq Labels
      /\ DOMAIN sessions' \subseteq Labels \cup {Datagrams}
      /\ \A k \in DOMAIN sessions' : sessions'[k] \in Accounts \cup {Nobody}
    BY <1>3, <1>4, HandledKeeps
<1>6. TypeOK'
    BY <1>4, <1>5 DEF TypeOK
<1>. QED
    BY <1>5, <1>6

\* A connection begins: nobody is bound on it, though its label may have an entry.
LEMMA AcceptKeepsIInv ==
    ASSUME IInv, NEW l \in Labels, Accept(l)
    PROVE  IInv'
<1> USE DEF IInv, Accept
<1>1. TypeOK'
    BY DEF TypeOK, client
<1>2. sessions' = sessions
    OBVIOUS
<1>3. ASSUME NEW k \in open' \ unsure' PROVE SessionOf(k)' = bound'[k]
    <2>1. SessionOf(k)' = SessionOf(k)
        BY <1>2 DEF SessionOf
    <2>2. CASE k = l
        BY <1>3, <2>1, <2>2 DEF TypeOK
    <2>3. CASE k # l
        BY <1>3, <2>1, <2>3 DEF TypeOK, Clean
    <2>4. QED
        BY <2>2, <2>3
<1>. QED
    BY <1>1, <1>2, <1>3 DEF Clean, Room

LEMMA SendKeepsIInv ==
    ASSUME IInv, NEW l \in Labels, NEW r \in Asked,
           NEW pieces \in {<<"whole">>, <<"head", "tail">>}, Send(l, r, pieces)
    PROVE  IInv'
<1> USE DEF IInv, Send
<1> DEFINE sent == [n \in DOMAIN pieces |-> [request |-> r, part |-> pieces[n]]]
<1>1. sent \in Seq(Piece)
    <2>1. CASE pieces = <<"whole">>
        <3>1. sent = [n \in 1 .. 1 |-> [request |-> r, part |-> pieces[n]]]
            BY <2>1
        <3>2. \A n \in 1 .. 1 : pieces[n] \in {"whole", "head", "tail"}
            BY <2>1
        <3>3. QED
            BY <3>1, <3>2 DEF Piece
    <2>2. CASE pieces = <<"head", "tail">>
        <3>1. sent = [n \in 1 .. 2 |-> [request |-> r, part |-> pieces[n]]]
            BY <2>2
        <3>2. \A n \in 1 .. 2 : pieces[n] \in {"whole", "head", "tail"}
            BY <2>2
        <3>3. QED
            BY <3>1, <3>2 DEF Piece
    <2>3. QED
        BY <2>1, <2>2
<1>2. stream[l] \o sent \in Seq(Piece)
    BY <1>1 DEF TypeOK
<1>3. stream' = [stream EXCEPT ![l] = stream[l] \o sent]
    OBVIOUS
<1> HIDE DEF sent
<1>4. TypeOK'
    <2>1. DOMAIN stream' = Labels /\ \A k \in Labels : stream'[k] \in Seq(Piece)
        BY <1>2, <1>3 DEF TypeOK
    <2>2. waits' \subseteq open' /\ hasty' \subseteq open' /\ left' \subseteq open'
        BY DEF TypeOK
    <2>3. requests' \in 0 .. MaxRequests
        BY Assumed DEF TypeOK
    <2>4. UNCHANGED <<open, left, writing, disabled, sessions, crashes, bound, unsure>>
        OBVIOUS
    <2> HIDE DEF Send
    <2>5. QED
        BY <2>1, <2>2, <2>3, <2>4 DEF TypeOK
<1>. QED
    BY <1>4 DEF Clean, Room, SessionOf

\* What touches neither sessions nor what is known of them.
LEMMA OthersKeepIInv ==
    ASSUME IInv, NEW l \in Labels, Written(l) \/ Leave(l) \/ ReadEnd(l)
    PROVE  IInv'
<1> USE DEF IInv
<1>1. TypeOK'
    <2>1. CASE Written(l) \/ Leave(l)
        BY <2>1 DEF Written, Leave, TypeOK
    <2>2. CASE ReadEnd(l)
        BY <2>2, CloseKeepsTypes DEF ReadEnd, TypeOK
    <2>3. QED
        BY <2>1, <2>2
<1>2. open' \subseteq open /\ UNCHANGED <<sessions, bound, unsure>>
    BY CloseKeepsTypes DEF Written, Leave, ReadEnd
<1>. QED
    BY <1>1, <1>2 DEF Clean, Room, SessionOf

LEMMA RestartKeepsIInv ==
    ASSUME IInv, Restart
    PROVE  IInv'
<1> USE DEF IInv, Restart, Empty
<1>1. DOMAIN sessions' = {} /\ open' = {}
    OBVIOUS
<1>2. TypeOK'
    BY <1>1, Assumed DEF TypeOK
<1>3. Clean' /\ Room'
    BY <1>1, FS_EmptySet, Assumed DEF Clean, Room
<1>. QED
    BY <1>2, <1>3

-----------------------------------------------------------------------------
\* The inductive invariant, for any connections and any capacity.
THEOREM Invariant == Spec => []IInv
<1>1. ASSUME IInv, [Next]_vars PROVE IInv'
    <2> USE <1>1
    <2>1. CASE UNCHANGED vars
        BY <2>1 DEF vars, IInv, TypeOK, Clean, Room, SessionOf
    <2>2. ASSUME NEW l \in Labels, Loop(l) PROVE IInv'
        BY <2>2, ReadKeepsIInv, OthersKeepIInv DEF Loop
    <2>3. CASE Next
        BY <2>1, <2>2, <2>3, AcceptKeepsIInv, OthersKeepIInv, SendKeepsIInv, DatagramKeepsIInv,
           RestartKeepsIInv DEF Next, Heartbeat
    <2>4. QED
        BY <2>1, <2>3
<1>. QED
    BY Starts, <1>1, PTL DEF Spec

\* Connections, what is sent on them, and sessions keep their types.
THEOREM TypeCorrect == Spec => []TypeOK
<1>1. IInv => TypeOK
    BY DEF IInv
<1>. QED
    BY <1>1, Invariant, PTL

\* A connection's session is what its own last bind came to, whatever other
\* connections, datagrams, evictions and label reuse came in between, and
\* sessions are never more than one above their number.
THEOREM SessionsAlwaysTrack == Spec => []SessionsTrackBinds
<1>1. IInv => SessionsTrackBinds
    BY DEF IInv, Clean, Room, SessionsTrackBinds
<1>. QED
    BY <1>1, Invariant, PTL

=============================================================================
