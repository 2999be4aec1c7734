----------------------------- MODULE DaemonProofs ------------------------------
(***************************************************************************)
(* What the services of the daemons keep, for any clients, accounts,       *)
(* names, dialects, types of encryption and bounds.                        *)
(*                                                                         *)
(* Each service has an inductive invariant of its own, in terms of its     *)
(* module; the last part puts them together: a service in the instance     *)
(* keeps its own, and the other services leave its state alone.            *)
(***************************************************************************)
EXTENDS DaemonServices, Lemmas

LEMMA Bounds ==
    /\ DnsFaults \in Nat /\ LdapFaults \in Nat /\ SamrFaults \in Nat /\ SmbFaults \in Nat
    /\ KdcFaults \in Nat /\ MaxEntries \in Nat /\ MaxUpdates \in Nat /\ LdapRequests \in Nat
    /\ SamrRequests \in Nat /\ SmbRequests \in Nat /\ MaxWrites \in Nat
    /\ KdcPasswords \in Nat /\ MaxChanges \in Nat
BY DaemonsAssumption DEF DaemonsAssumption

-----------------------------------------------------------------------------
(***************************************************************************)
(* Netlogon: the secure channel, for any callers and computers.            *)
(*                                                                         *)
(* A challenge is asked for by one caller, and only the key made from it   *)
(* opens the session it becomes: so the sessions a caller may advance are  *)
(* those of its own computer made from its own challenge.                  *)
(***************************************************************************)

\* The challenge a caller has, or has coming.
Nonce(c) == IF reply[c].kind = "challenge" THEN reply[c].nonce ELSE client[c].key.nonce

\* A reply fits what its caller asked for and where it is.
ReplyFits(c) ==
    LET r == reply[c]
    IN  /\ r.kind = "challenge" =>
             client[c].at = "new" /\ r.nonce \in 1 .. made.challenge
        /\ r.kind = "authenticate" =>
             /\ client[c].at = "challenged"
             /\ r.key \in Keys /\ r.key.nonce = client[c].key.nonce
        /\ r.kind \in {"call", "set"} =>
             /\ client[c].at = "ready" /\ client[c].step < made.call
             /\ r.verified => ~client[c].counted
        /\ r.kind = "set" => r.new \in 1 .. MaxPasswords

\* An acknowledged change is stored, as long as the acknowledgement is on its way.
SetHolds ==
    \A c \in Clients : reply[c].kind = "set" /\ reply[c].ok =>
        secret[ComputerOf[c]] = reply[c].new

OneSetter ==
    \A c, d \in Clients :
        c # d /\ ComputerOf[c] = ComputerOf[d] => "set" \notin {reply[c].kind} \cap {reply[d].kind}

\* Challenges are counted, and so are the steps of the chains.
Counted ==
    /\ \A c \in Clients :
         /\ client[c].key.nonce \in 0 .. made.challenge
         /\ (client[c].at = "new") = (client[c].key.nonce = 0)
         /\ client[c].step <= made.call
    /\ \A n \in Computers :
         /\ challenges[n] <= made.challenge
         /\ sessions[n].key.nonce <= made.challenge
         /\ sessions[n].step <= made.call

\* No two callers have one challenge, and no session is made from the challenge
\* of a caller on another computer.
Apart ==
    /\ \A c, d \in Clients : c # d /\ Nonce(c) = Nonce(d) => Nonce(c) = 0
    /\ \A c \in Clients, n \in Computers :
         Nonce(c) # 0 /\ sessions[n].key.nonce = Nonce(c) => n = ComputerOf[c]

\* A session that was just granted has not moved.
Granted ==
    \A c \in Clients :
        reply[c].kind = "authenticate" /\ reply[c].ok
          /\ sessions[ComputerOf[c]].key = reply[c].key
        => sessions[ComputerOf[c]].step = 0

Shape == TypeOK /\ DOMAIN reply = Clients /\ \A c \in Clients : ReplyFits(c)

IInv == /\ Shape /\ Counted /\ Apart /\ Granted
        /\ SetHolds /\ OneSetter
        /\ ChannelInStep /\ PasswordKnown

-----------------------------------------------------------------------------
LEMMA Assumed ==
    /\ MaxChallenges \in Nat /\ MaxPasswords \in Nat /\ MaxCalls \in Nat
    /\ MaxFaults \in Nat /\ MaxPasswords >= 1
    /\ \A c \in Clients : ComputerOf[c] \in Computers
BY NetlogonAssumption DEF NetlogonAssumption, Computers

LEMMA Starts == Init => IInv
<1> SUFFICES ASSUME Init PROVE IInv
    OBVIOUS
<1> USE Assumed DEF Init, NoReply, Fresh, NoSession, NoKey
<1>1. TypeOK
    BY DEF TypeOK, Keys
<1>2. /\ DOMAIN reply = Clients /\ \A c \in Clients : ReplyFits(c)
    BY DEF ReplyFits
<1>3. Counted /\ Apart
    BY DEF Counted, Apart, Nonce
<1>4. Granted /\ SetHolds /\ OneSetter /\ ChannelInStep /\ PasswordKnown
    BY DEF Granted, SetHolds, OneSetter, ChannelInStep, PasswordKnown
<1>. QED
    BY <1>1, <1>2, <1>3, <1>4 DEF IInv, Shape

\* A caller's credential is verified by its own computer's session or by none.
LEMMA VerifiedOwn ==
    ASSUME IInv, NEW c \in Clients, client[c].at = "ready", reply[c] = NoReply,
           Verified(c) # {}
    PROVE  /\ Verified(c) = {ComputerOf[c]}
           /\ sessions[ComputerOf[c]].key = client[c].key
           /\ sessions[ComputerOf[c]].step = client[c].step
           /\ ~client[c].counted
<1>1. Nonce(c) = client[c].key.nonce /\ Nonce(c) # 0
    BY DEF IInv, Shape, Counted, Nonce, NoReply
<1>2. \A n \in Verified(c) : n \in Computers /\ sessions[n].key = client[c].key
                              /\ sessions[n].step = client[c].step /\ ~client[c].counted
    BY Assumed DEF Verified, MatchingSessions, Established
<1>3. \A n \in Verified(c) : n = ComputerOf[c]
    BY <1>1, <1>2 DEF IInv, Apart
<1>. QED
    BY <1>2, <1>3

-----------------------------------------------------------------------------
\* A new challenge is nobody's yet.
LEMMA AsksKeeps ==
    ASSUME IInv, NEW c \in Clients, ReqChallenge(c)
    PROVE  IInv'
<1>a. /\ made \in [challenge : 0 .. MaxChallenges, password : 1 .. MaxPasswords, call : 0 .. MaxCalls]
      /\ made.challenge < MaxChallenges /\ MaxChallenges \in Nat
      /\ made' = [made EXCEPT !.challenge = made.challenge + 1]
    BY Assumed DEF IInv, Shape, TypeOK, ReqChallenge
<1>b. made' \in [challenge : 0 .. MaxChallenges, password : 1 .. MaxPasswords, call : 0 .. MaxCalls]
    BY <1>a
<1> USE Assumed DEF IInv, ReqChallenge, Idle, NoReply
<1> USE DEF Shape
<1>0. /\ made'.challenge = made.challenge + 1 /\ made'.call = made.call
      /\ made.challenge \in Nat /\ made.call \in Nat
      /\ ComputerOf[c] \in Computers
    BY DEF TypeOK
<1>1. Shape'
    <2>1. TypeOK'
        <3>2. challenges' \in [Computers -> 0 .. MaxChallenges]
            <4>1. made.challenge + 1 \in 0 .. MaxChallenges
                BY <1>0
            <4>2. challenges \in [Computers -> 0 .. MaxChallenges]
                BY DEF TypeOK
            <4>. QED
                BY <4>1, <4>2
        <3>. QED
            BY <1>b, <3>2 DEF TypeOK
    <2>2. ASSUME NEW d \in Clients PROVE ReplyFits(d)'
        <3>1. CASE d = c
            <4>1. /\ reply'[d].kind = "challenge" /\ reply'[d].nonce = made.challenge + 1
                  /\ client'[d].at = "new"
                BY <3>1
            <4>. QED
                BY <1>0, <4>1 DEF ReplyFits
        <3>2. CASE d # c
            <4>1. reply'[d] = reply[d] /\ client' = client /\ ReplyFits(d)
                BY <3>2
            <4>. QED
                BY <1>0, <4>1 DEF ReplyFits
        <3>. QED
            BY <3>1, <3>2
    <2>. QED
        BY <2>1, <2>2
<1>2. Counted'
    BY <1>0 DEF Counted, TypeOK, Keys
<1>3. Nonce(c)' = made.challenge + 1 /\ \A d \in Clients : d # c => Nonce(d)' = Nonce(d)
    BY DEF Shape, Nonce
<1>4. \A d \in Clients : Nonce(d) \in 0 .. made.challenge
    BY DEF Shape, Nonce, Counted, ReplyFits
<1>5. Apart'
    <2>1. ASSUME NEW d \in Clients, NEW e \in Clients, d # e, Nonce(d)' = Nonce(e)'
          PROVE  Nonce(d)' = 0
        BY <1>0, <1>3, <1>4, <2>1 DEF Apart
    <2>2. ASSUME NEW d \in Clients, NEW n \in Computers,
                 Nonce(d)' # 0, sessions'[n].key.nonce = Nonce(d)'
          PROVE  n = ComputerOf[d]
        <3>1. sessions' = sessions
            OBVIOUS
        <3>2. sessions[n].key.nonce <= made.challenge /\ sessions[n].key.nonce \in Nat
            BY DEF Counted, TypeOK, Keys
        <3>. QED
            BY <1>0, <1>3, <2>2, <3>1, <3>2 DEF Apart
    <2>. QED
        BY <2>1, <2>2 DEF Apart
<1>6. Granted' /\ SetHolds' /\ OneSetter'
    BY DEF Granted, SetHolds, OneSetter, Shape
<1>7. ChannelInStep' /\ PasswordKnown'
    BY DEF ChannelInStep, PasswordKnown, Shape
<1>. QED
    BY <1>1, <1>2, <1>5, <1>6, <1>7

\* A session is made from the challenge of its caller alone.
LEMMA AuthenticateKeeps ==
    ASSUME IInv, NEW c \in Clients, NEW pw, NEW aes \in BOOLEAN, NEW up \in BOOLEAN,
           Authenticate(c, pw, aes, up)
    PROVE  IInv'
<1> DEFINE n == ComputerOf[c]
           derived == Key(pw, client[c].key.nonce)
           status == AuthenticateStatus(n, derived, aes, up)
<1> USE Assumed DEF IInv
<1>1. /\ reply[c] = NoReply /\ reply[c].kind = "none" /\ client[c].at = "challenged"
      /\ pw \in known[n]
      /\ ~up => faults < MaxFaults
      /\ faults' = IF up THEN faults ELSE faults + 1
      /\ sessions' = IF status # "enabled" THEN sessions
                     ELSE [sessions EXCEPT ![n] = [key |-> derived, step |-> 0]]
      /\ reply' = [reply EXCEPT ![c] = [kind |-> "authenticate",
                    ok |-> status = "enabled", key |-> derived]]
      /\ UNCHANGED <<challenges, secret, standing, known, client, made>>
    BY DEF Authenticate, Idle, NoReply
<1> HIDE DEF status
<1>2. derived \in Keys /\ derived.nonce = client[c].key.nonce /\ derived.nonce # 0 /\ n \in Computers
    <2>1. pw \in 1 .. MaxPasswords /\ client[c].key \in Keys /\ n \in Computers
        BY <1>1 DEF Shape, TypeOK
    <2>2. client[c].key.nonce \in 0 .. MaxChallenges
        BY <2>1 DEF Keys
    <2>. QED
        BY <1>1, <2>1, <2>2 DEF Key, Keys, Counted
<1>3. Nonce(c) = derived.nonce /\ \A d \in Clients : Nonce(d)' = Nonce(d)
    BY <1>1, <1>2 DEF Shape, Nonce
<1>4. \A m \in Computers : m # n => sessions'[m] = sessions[m]
    BY <1>1 DEF Shape, TypeOK
<1>5. \/ sessions'[n] = sessions[n]
      \/ sessions'[n].key = derived /\ sessions'[n].step = 0
    BY <1>1, <1>2 DEF Shape, TypeOK
<1>6. Shape'
    <2>1. sessions' \in [Computers -> [key : Keys, step : 0 .. MaxCalls]]
        BY <1>1, <1>2 DEF Shape, TypeOK
    <2>2. faults' \in 0 .. MaxFaults
        BY <1>1 DEF Shape, TypeOK
    <2>. QED
        BY <1>1, <1>2, <2>1, <2>2 DEF Shape, TypeOK, ReplyFits
<1>7. Counted'
    BY <1>1, <1>2, <1>4, <1>5 DEF Counted, Shape, TypeOK
<1>8. Apart'
    BY <1>1, <1>2, <1>3, <1>4, <1>5 DEF Apart
<1>9. Granted'
    <2> SUFFICES ASSUME NEW d \in Clients,
                        reply'[d].kind = "authenticate", reply'[d].ok,
                        sessions'[ComputerOf[d]].key = reply'[d].key
                 PROVE  sessions'[ComputerOf[d]].step = 0
        BY DEF Granted
    <2>1. CASE d = c
        <3>1. status = "enabled"
            BY <1>1, <2>1 DEF Shape
        <3>2. QED
            BY <1>1, <1>2, <2>1, <3>1 DEF Shape, TypeOK
    <2>2. CASE d # c
        <3>1. reply'[d] = reply[d] /\ Nonce(d) = reply[d].key.nonce /\ Nonce(d) # 0
            BY <1>1, <2>2 DEF Shape, ReplyFits, Nonce, Counted
        <3>2. sessions'[ComputerOf[d]] = sessions[ComputerOf[d]]
            BY <1>2, <1>3, <1>4, <1>5, <2>2, <3>1 DEF Apart
        <3>. QED
            BY <3>1, <3>2 DEF Granted
    <2>. QED
        BY <2>1, <2>2
<1>10. SetHolds' /\ OneSetter' /\ PasswordKnown'
    BY <1>1 DEF SetHolds, OneSetter, PasswordKnown, Shape
<1>11. ChannelInStep'
    <2> SUFFICES ASSUME NEW d \in Clients, client[d].at = "ready",
                        sessions'[ComputerOf[d]].key = client[d].key
                 PROVE  /\ reply'[d] = reply[d]
                        /\ sessions'[ComputerOf[d]] = sessions[ComputerOf[d]]
        BY <1>1 DEF ChannelInStep
    <2>1. d # c
        BY <1>1
    <2>2. reply'[d] = reply[d]
        BY <1>1, <2>1 DEF Shape
    <2>3. Nonce(d) = client[d].key.nonce /\ Nonce(d) # 0
        BY DEF Shape, ReplyFits, Nonce, Counted
    <2>. QED
        BY <1>2, <1>3, <1>4, <1>5, <2>1, <2>2, <2>3 DEF Apart
<1>. QED
    BY <1>6, <1>7, <1>8, <1>9, <1>10, <1>11

\* A verified call moves the one session it was verified by.
LEMMA AnswerKeeps ==
    ASSUME IInv, NEW c \in Clients, NEW kind \in {"call", "set"}, NEW ok, NEW new,
           reply[c] = NoReply, client[c].at = "ready",
           Answer(c, kind, ok, new), UNCHANGED <<challenges, standing, client>>
    PROVE  /\ made'.call = made.call + 1 /\ made'.call \in 0 .. MaxCalls
           /\ made'.challenge = made.challenge
           /\ sessions' \in [Computers -> [key : Keys, step : 0 .. MaxCalls]]
           /\ Counted'
           /\ Apart'
           /\ Granted'
           /\ ChannelInStep'
<1> DEFINE n == ComputerOf[c]
<1> USE Assumed
<1>1. /\ Shape /\ Counted /\ Apart /\ Granted /\ ChannelInStep /\ TypeOK
      /\ DOMAIN reply = Clients /\ n \in Computers /\ reply[c].kind = "none"
      /\ \A d \in Clients : ReplyFits(d)
    BY DEF IInv, Shape, NoReply
<1>2. /\ made.call < MaxCalls
      /\ made' = [made EXCEPT !.call = @ + 1, !.password = IF new = 0 THEN @ ELSE new]
      /\ sessions' = Advance(c, ok)
      /\ reply' = [reply EXCEPT ![c] = [kind |-> kind, ok |-> ok, new |-> new,
                    verified |-> Verified(c) # {}]]
    BY DEF Answer
<1>3. /\ made'.call = made.call + 1 /\ made'.call \in 0 .. MaxCalls
      /\ made'.challenge = made.challenge
      /\ made.call \in Nat /\ made.challenge \in Nat
    BY <1>1, <1>2 DEF TypeOK
<1>4. \/ Verified(c) = {} /\ sessions' = sessions
      \/ /\ Verified(c) # {}
         /\ sessions' = [sessions EXCEPT ![n].step = @ + 1]
         /\ sessions[n].key = client[c].key /\ sessions[n].step = client[c].step
         /\ ~client[c].counted
    <2>1. CASE Verified(c) = {}
        BY <1>2, <2>1 DEF Advance
    <2>2. CASE Verified(c) # {}
        <3>1. /\ Verified(c) = {n}
              /\ sessions[n].key = client[c].key /\ sessions[n].step = client[c].step
              /\ ~client[c].counted
            BY <2>2, VerifiedOwn
        <3>2. (CHOOSE m \in Verified(c) : TRUE) = n
            BY <3>1
        <3>. QED
            BY <1>2, <2>2, <3>1, <3>2 DEF Advance, Advanced
    <2>. QED
        BY <2>1, <2>2
<1>5. /\ sessions \in [Computers -> [key : Keys, step : 0 .. MaxCalls]]
      /\ \A m \in Computers : sessions[m].step \in 0 .. made.call
    BY <1>1, <1>3 DEF TypeOK, Counted
<1>6. sessions' \in [Computers -> [key : Keys, step : 0 .. MaxCalls]]
    <2>1. sessions[n].step + 1 \in 0 .. MaxCalls
        BY <1>1, <1>2, <1>3, <1>5
    <2>. QED
        BY <1>1, <1>4, <1>5, <2>1
<1>7. /\ \A m \in Computers : m # n => sessions'[m] = sessions[m]
      /\ sessions'[n].key = sessions[n].key
      /\ \/ Verified(c) = {} /\ sessions'[n] = sessions[n]
         \/ /\ Verified(c) # {} /\ sessions'[n].step = sessions[n].step + 1
            /\ sessions[n].key = client[c].key /\ sessions[n].step = client[c].step
            /\ ~client[c].counted
    BY <1>1, <1>4, <1>5
<1>8. /\ reply'[c].kind = kind /\ reply'[c].verified = (Verified(c) # {})
      /\ \A d \in Clients : d # c => reply'[d] = reply[d]
    BY <1>1, <1>2
<1>9. \A d \in Clients : Nonce(d)' = Nonce(d)
    BY <1>1, <1>8 DEF Nonce
<1>10. Counted'
    <2>1. \A m \in Computers : sessions'[m].key = sessions[m].key
                                /\ sessions'[m].step <= made'.call
        BY <1>3, <1>5, <1>7
    <2>2. \A d \in Clients : client[d].step \in Nat /\ client[d].step <= made.call
        BY <1>1 DEF Counted, TypeOK
    <2>. QED
        BY <1>1, <1>3, <2>1, <2>2 DEF Counted
<1>11. Apart'
    BY <1>1, <1>7, <1>9 DEF Apart
<1>12. \A d \in Clients : d # c /\ sessions'[ComputerOf[d]] # sessions[ComputerOf[d]] =>
            /\ ComputerOf[d] = n /\ sessions[n].key.nonce = Nonce(c)
            /\ Nonce(c) # 0 /\ Nonce(d) # Nonce(c)
    <2>1. Nonce(c) = client[c].key.nonce /\ Nonce(c) # 0
        BY <1>1 DEF Nonce, Counted
    <2>. QED
        BY <1>1, <1>7, <2>1 DEF Apart
<1>13. Granted'
    <2> SUFFICES ASSUME NEW d \in Clients,
                        reply'[d].kind = "authenticate", reply'[d].ok,
                        sessions'[ComputerOf[d]].key = reply'[d].key
                 PROVE  sessions'[ComputerOf[d]].step = 0
        BY DEF Granted
    <2>1. d # c /\ reply'[d] = reply[d]
        BY <1>8
    <2>2. reply[d].key.nonce = Nonce(d)
        BY <1>1, <2>1 DEF ReplyFits, Nonce
    <2>3. sessions'[ComputerOf[d]] = sessions[ComputerOf[d]]
        BY <1>7, <1>12, <2>1, <2>2
    <2>. QED
        BY <1>1, <2>1, <2>3 DEF Granted
<1>14. ChannelInStep'
    <2>1. CASE UNCHANGED sessions /\ Verified(c) = {}
        BY <1>1, <1>8, <2>1 DEF ChannelInStep
    <2>2. ASSUME NEW d \in Clients, d # c, client[d].at = "ready",
                 sessions'[ComputerOf[d]].key = client[d].key
          PROVE  /\ reply'[d] = reply[d]
                 /\ sessions'[ComputerOf[d]] = sessions[ComputerOf[d]]
        <3>1. Nonce(d) = client[d].key.nonce
            BY <1>1, <2>2 DEF Nonce, ReplyFits
        <3>. QED
            BY <1>7, <1>8, <1>12, <2>2, <3>1
    <2>3. CASE Verified(c) # {}
        <3>1. sessions'[n].step = client'[c].step + 1 /\ reply'[c].verified /\ ~client'[c].counted
            BY <1>7, <1>8, <2>3
        <3>. QED
            BY <1>1, <1>8, <2>2, <3>1 DEF ChannelInStep
    <2>. QED
        BY <1>4, <2>1, <2>3
<1>. QED
    BY <1>3, <1>6, <1>10, <1>11, <1>13, <1>14

LEMMA CallKeeps ==
    ASSUME IInv, NEW c \in Clients, NEW granted \in BOOLEAN, Call(c, granted)
    PROVE  IInv'
<1> USE Assumed
<1>1. /\ reply[c] = NoReply /\ reply[c].kind = "none" /\ client[c].at = "ready"
      /\ Answer(c, "call", granted /\ Verified(c) # {}, 0)
      /\ UNCHANGED <<challenges, secret, standing, known, client, faults>>
    BY DEF Call, Idle, NoReply
<1>2. /\ made'.call = made.call + 1 /\ made'.call \in 0 .. MaxCalls
      /\ made'.challenge = made.challenge
      /\ sessions' \in [Computers -> [key : Keys, step : 0 .. MaxCalls]]
      /\ Counted' /\ Apart' /\ Granted' /\ ChannelInStep'
    BY <1>1, AnswerKeeps
<1>3. /\ made' = [made EXCEPT !.call = @ + 1, !.password = @]
      /\ reply' = [reply EXCEPT ![c] = [kind |-> "call", ok |-> granted /\ Verified(c) # {},
                    new |-> 0, verified |-> Verified(c) # {}]]
    BY <1>1 DEF Answer
<1>4. Shape'
    <2>1. TypeOK'
        BY <1>1, <1>2, <1>3 DEF IInv, Shape, TypeOK
    <2>2. ASSUME NEW d \in Clients
          PROVE  ReplyFits(d)'
        <3>1. Verified(c) # {} => ~client[c].counted
            BY <1>1, VerifiedOwn
        <3>2. CASE d = c
            <4>1. /\ reply'[d].kind = "call" /\ client' = client
                  /\ client[d].step <= made.call /\ client[d].step \in Nat /\ made.call \in Nat
                BY <1>1, <1>2, <1>3, <3>2 DEF IInv, Shape, Counted, TypeOK
            <4>3. reply'[d].verified => ~client[d].counted
                BY <1>1, <1>2, <1>3, <3>1, <3>2 DEF IInv, Shape
            <4>4. client'[d].at = "ready" /\ client'[d].step < made'.call
                BY <1>1, <1>2, <3>2, <4>1
            <4>2. reply'[d].kind = "set" => reply'[d].new \in 1 .. MaxPasswords
                BY <1>1, <1>2, <1>3, <3>2 DEF IInv, Shape
            <4>. QED
                BY <4>1, <4>2, <4>3, <4>4 DEF ReplyFits
        <3>3. CASE d # c
            BY <1>1, <1>2, <1>3, <3>3 DEF IInv, Shape, ReplyFits, TypeOK
        <3>. QED
            BY <3>2, <3>3
    <2>. QED
        BY <1>3, <2>1, <2>2 DEF IInv, Shape
<1>5. SetHolds' /\ OneSetter' /\ PasswordKnown'
    BY <1>1, <1>3 DEF IInv, Shape, SetHolds, OneSetter, PasswordKnown
<1>. QED
    BY <1>2, <1>4, <1>5 DEF IInv

\* The new password is tried before it is stored, and both are until it is
\* acknowledged.
LEMMA SetPasswordKeeps ==
    ASSUME IInv, NEW c \in Clients, NEW broken \in Outcomes, SetPassword(c, broken)
    PROVE  IInv'
<1> DEFINE n == ComputerOf[c]
           new == made.password + 1
<1> USE Assumed
<1>1. /\ reply[c] = NoReply /\ reply[c].kind = "none" /\ client[c].at = "ready"
      /\ new <= MaxPasswords
      /\ \A d \in Clients : ComputerOf[d] = n => reply[d].kind # "set"
      /\ broken # "no" => Verified(c) # {} /\ faults < MaxFaults
      /\ faults' = IF broken = "no" THEN faults ELSE faults + 1
      /\ Answer(c, "set", broken = "no" /\ Verified(c) # {}, new)
      /\ secret' = IF Verified(c) = {} THEN secret ELSE SecretStored(n, new, broken)
      /\ known' = [known EXCEPT ![n] = @ \cup {new}]
      /\ UNCHANGED <<challenges, standing, client>>
    BY DEF SetPassword, Idle, NoReply
<1>2. /\ made'.call = made.call + 1 /\ made'.call \in 0 .. MaxCalls
      /\ made'.challenge = made.challenge
      /\ sessions' \in [Computers -> [key : Keys, step : 0 .. MaxCalls]]
      /\ Counted' /\ Apart' /\ Granted' /\ ChannelInStep'
    BY <1>1, AnswerKeeps
<1>3. new \in 1 .. MaxPasswords /\ n \in Computers /\ new # 0
    BY <1>1 DEF IInv, Shape, TypeOK
<1>4. /\ made' = [made EXCEPT !.call = @ + 1, !.password = new]
      /\ reply' = [reply EXCEPT ![c] = [kind |-> "set", ok |-> broken = "no" /\ Verified(c) # {},
                    new |-> new, verified |-> Verified(c) # {}]]
    BY <1>1, <1>3 DEF Answer
<1>5. \/ secret' = secret /\ ~(broken = "no" /\ Verified(c) # {})
      \/ secret' = [secret EXCEPT ![n] = new]
    BY <1>1 DEF SecretStored
<1> HIDE DEF new
<1>6. Shape'
    <2>1. made' \in [challenge : 0 .. MaxChallenges, password : 1 .. MaxPasswords,
                     call : 0 .. MaxCalls]
        BY <1>2, <1>3, <1>4 DEF IInv, Shape, TypeOK
    <2>2. faults' \in 0 .. MaxFaults
        BY <1>1 DEF IInv, Shape, TypeOK
    <2>3. secret' \in [Computers -> 1 .. MaxPasswords]
        BY <1>3, <1>5 DEF IInv, Shape, TypeOK
    <2>4. known' \in [Computers -> SUBSET (1 .. MaxPasswords)]
        BY <1>1, <1>3 DEF IInv, Shape, TypeOK
    <2>5. TypeOK'
        BY <1>1, <1>2, <1>4, <2>1, <2>2, <2>3, <2>4 DEF IInv, Shape, TypeOK
    <2>6. ASSUME NEW d \in Clients
          PROVE  ReplyFits(d)'
        <3>1. Verified(c) # {} => ~client[c].counted
            BY <1>1, VerifiedOwn
        <3>2. CASE d = c
            <4>1. /\ reply'[d].kind = "set" /\ client' = client
                  /\ client[d].step <= made.call /\ client[d].step \in Nat /\ made.call \in Nat
                BY <1>1, <1>2, <1>3, <1>4, <3>2 DEF IInv, Shape, Counted, TypeOK
            <4>3. reply'[d].verified => ~client[d].counted
                BY <1>1, <1>2, <1>3, <1>4, <3>1, <3>2 DEF IInv, Shape
            <4>4. client'[d].at = "ready" /\ client'[d].step < made'.call
                BY <1>1, <1>2, <3>2, <4>1
            <4>2. reply'[d].kind = "set" => reply'[d].new \in 1 .. MaxPasswords
                BY <1>1, <1>2, <1>3, <1>4, <3>2 DEF IInv, Shape
            <4>. QED
                BY <4>1, <4>2, <4>3, <4>4 DEF ReplyFits
        <3>3. CASE d # c
            BY <1>1, <1>2, <1>3, <1>4, <3>3 DEF IInv, Shape, ReplyFits, TypeOK
        <3>. QED
            BY <3>2, <3>3
    <2>. QED
        BY <1>4, <2>5, <2>6 DEF IInv, Shape
<1>7. \A d \in Clients : d # c => reply'[d] = reply[d]
    BY <1>4 DEF IInv, Shape
<1>8. SetHolds'
    <2> SUFFICES ASSUME NEW d \in Clients, reply'[d].kind = "set", reply'[d].ok
                 PROVE  secret'[ComputerOf[d]] = reply'[d].new
        BY DEF SetHolds
    <2>1. CASE d = c
        BY <1>3, <1>4, <1>5, <2>1 DEF IInv, Shape, TypeOK
    <2>2. CASE d # c
        BY ZenonT(30), <1>1, <1>5, <1>7, <2>2 DEF IInv, Shape, TypeOK, SetHolds
    <2>. QED
        BY <2>1, <2>2
<1>9. OneSetter'
    BY <1>1, <1>7 DEF IInv, OneSetter
<1>10. PasswordKnown'
    BY <1>1, <1>3, <1>5 DEF IInv, Shape, TypeOK, PasswordKnown
<1>. QED
    BY <1>2, <1>6, <1>8, <1>9, <1>10 DEF IInv

\* What a caller believes is typed when its parts are.
LEMMA Believed ==
    ASSUME NEW a \in {"new", "challenged", "ready"}, NEW k \in Keys,
           NEW s \in 0 .. MaxCalls
    PROVE  [at |-> a, key |-> k, step |-> s, unsure |-> FALSE, counted |-> FALSE] \in
               [at : {"new", "challenged", "ready"}, key : Keys, step : 0 .. MaxCalls,
                unsure : BOOLEAN, counted : BOOLEAN]
BY Zenon

\* A reply moves its caller alone, and to where the session is.
LEMMA ReceiveKeeps ==
    ASSUME IInv, NEW c \in Clients, Receive(c)
    PROVE  IInv'
<1> DEFINE r == reply[c]
           next == CASE r.kind = "challenge" ->
                          [Fresh EXCEPT !.at = "challenged", !.key.nonce = r.nonce]
                     [] r.kind = "authenticate" /\ r.ok ->
                          [Fresh EXCEPT !.at = "ready", !.key = r.key]
                     [] r.kind \in {"call", "set"} /\ r.verified ->
                          IF c \in Counting THEN [client[c] EXCEPT !.counted = TRUE]
                          ELSE [client[c] EXCEPT !.step = @ + 1]
                     [] OTHER -> Fresh
<1> USE Assumed
<1>1. /\ Shape /\ TypeOK /\ Counted /\ ReplyFits(c) /\ DOMAIN reply = Clients
      /\ made.challenge \in 0 .. MaxChallenges /\ made.call \in 0 .. MaxCalls
    BY DEF IInv, Shape, TypeOK
<1>2. /\ reply' = [reply EXCEPT ![c] = NoReply]
      /\ client' = [client EXCEPT ![c] = next]
      /\ known' = IF r.kind = "set" /\ r.ok
                  THEN [known EXCEPT ![ComputerOf[c]] = {r.new}] ELSE known
      /\ UNCHANGED <<challenges, sessions, secret, standing, made, faults>>
    BY DEF Receive
<1> DEFINE Kept(k) ==
             /\ k \in [at : {"new", "challenged", "ready"}, key : Keys, step : 0 .. MaxCalls,
                       unsure : BOOLEAN, counted : BOOLEAN]
             /\ k.key.nonce \in 0 .. made.challenge
             /\ k.at = "new" <=> k.key.nonce = 0
             /\ k.step <= made.call
             /\ k.key.nonce \in {0, Nonce(c)}
           Moved(k) ==
             k.at = "ready" =>
               \/ r.kind = "authenticate" /\ r.ok /\ k.key = r.key /\ k.step = 0 /\ ~k.counted
               \/ /\ r.kind \in {"call", "set"} /\ r.verified
                  /\ client[c].at = "ready" /\ ~client[c].counted
                  /\ k.key = client[c].key
                  /\ IF k.counted THEN c \in Counting /\ k.step = client[c].step
                     ELSE k.step = client[c].step + 1
<1>3. Kept(next) /\ Moved(next)
    <2>a. r.kind = "challenge" =>
            next = [at |-> "challenged", key |-> [pw |-> 1, nonce |-> r.nonce], step |-> 0,
                    unsure |-> FALSE, counted |-> FALSE]
        BY DEF Fresh, NoKey
    <2>b. r.kind = "authenticate" /\ r.ok =>
            next = [at |-> "ready", key |-> r.key, step |-> 0, unsure |-> FALSE, counted |-> FALSE]
        BY DEF Fresh, NoKey
    <2>c. r.kind \in {"call", "set"} /\ r.verified =>
            next = IF c \in Counting THEN [client[c] EXCEPT !.counted = TRUE]
                   ELSE [client[c] EXCEPT !.step = @ + 1]
        OBVIOUS
    <2>d. r.kind # "challenge" /\ ~(r.kind = "authenticate" /\ r.ok)
            /\ ~(r.kind \in {"call", "set"} /\ r.verified) =>
            next = [at |-> "new", key |-> [pw |-> 1, nonce |-> 0], step |-> 0,
                    unsure |-> FALSE, counted |-> FALSE]
        BY DEF Fresh, NoKey
    <2> HIDE DEF next
    <2>e. [pw |-> 1, nonce |-> 0] \in Keys /\ 0 \in 0 .. MaxCalls /\ 0 \in 0 .. made.challenge
          /\ 0 <= made.call
        BY <1>1 DEF Keys
    <2>1. CASE r.kind = "challenge"
        <3>1. r.nonce \in 1 .. made.challenge /\ Nonce(c) = r.nonce
            BY <1>1, <2>1 DEF ReplyFits, Nonce
        <3>2. [pw |-> 1, nonce |-> r.nonce] \in Keys
            BY <1>1, <3>1 DEF Keys
        <3>3. next.at = "challenged" /\ next.key.nonce = r.nonce /\ next.step = 0
            BY <2>a, <2>1
        <3>4. r.nonce # 0 /\ r.nonce \in 0 .. made.challenge
            BY <1>1, <3>1
        <3>5. next \in [at : {"new", "challenged", "ready"}, key : Keys,
                        step : 0 .. MaxCalls, unsure : BOOLEAN, counted : BOOLEAN]
            <4>1. \A k \in Keys :
                    [at |-> "challenged", key |-> k, step |-> 0, unsure |-> FALSE, counted |-> FALSE] \in
                        [at : {"new", "challenged", "ready"}, key : Keys,
                         step : 0 .. MaxCalls, unsure : BOOLEAN, counted : BOOLEAN]
                BY <2>e, Believed
            <4>. QED
                BY <2>a, <2>1, <3>2, <4>1, Zenon
        <3>. QED
            BY <2>e, <3>1, <3>3, <3>4, <3>5
    <2>2. CASE r.kind = "authenticate" /\ r.ok
        <3>1. /\ r.key \in Keys /\ r.key.nonce = Nonce(c)
              /\ r.key.nonce \in 0 .. made.challenge /\ r.key.nonce # 0
            BY <1>1, <2>2 DEF ReplyFits, Nonce, Counted
        <3>2. next.at = "ready" /\ next.key = r.key /\ next.step = 0 /\ ~next.counted
            BY <2>b, <2>2
        <3>3. next \in [at : {"new", "challenged", "ready"}, key : Keys,
                        step : 0 .. MaxCalls, unsure : BOOLEAN, counted : BOOLEAN]
            BY ZenonT(30), <2>b, <2>e, <2>2, <3>1, Believed
        <3>. QED
            BY <2>e, <2>2, <3>1, <3>2, <3>3
    <2>3. CASE r.kind \in {"call", "set"} /\ r.verified
        <3>1. /\ client[c] \in [at : {"new", "challenged", "ready"}, key : Keys,
                                step : 0 .. MaxCalls, unsure : BOOLEAN, counted : BOOLEAN]
              /\ client[c].at = "ready" /\ client[c].step < made.call /\ ~client[c].counted
              /\ client[c].key.nonce = Nonce(c)
              /\ client[c].key.nonce \in 0 .. made.challenge /\ client[c].key.nonce # 0
            BY <1>1, <2>3 DEF ReplyFits, Nonce, Counted, TypeOK
        <3>3. client[c].step + 1 \in 0 .. MaxCalls /\ client[c].step + 1 <= made.call
            BY <1>1, <3>1
        <3>4. CASE c \in Counting
            <4>1. next = [client[c] EXCEPT !.counted = TRUE]
                BY <2>c, <2>3, <3>4
            <4>2. /\ next.at = "ready" /\ next.key = client[c].key
                  /\ next.step = client[c].step /\ next.counted
                BY <3>1, <4>1
            <4>3. next \in [at : {"new", "challenged", "ready"}, key : Keys,
                            step : 0 .. MaxCalls, unsure : BOOLEAN, counted : BOOLEAN]
                BY <3>1, <4>1, ZenonT(30)
            <4>. QED
                BY <1>1, <2>3, <3>1, <3>3, <3>4, <4>2, <4>3
        <3>5. CASE c \notin Counting
            <4>1. next = [client[c] EXCEPT !.step = @ + 1]
                BY <2>c, <2>3, <3>5
            <4>2. /\ next.at = "ready" /\ next.key = client[c].key
                  /\ next.step = client[c].step + 1 /\ ~next.counted
                BY <3>1, <4>1
            <4>3. next \in [at : {"new", "challenged", "ready"}, key : Keys,
                            step : 0 .. MaxCalls, unsure : BOOLEAN, counted : BOOLEAN]
                BY <3>1, <3>3, <4>1
            <4>. QED
                BY <2>3, <3>1, <3>3, <4>2, <4>3
        <3>. QED
            BY <3>4, <3>5
    <2>4. CASE /\ r.kind # "challenge" /\ ~(r.kind = "authenticate" /\ r.ok)
               /\ ~(r.kind \in {"call", "set"} /\ r.verified)
        <3>1. next.at = "new" /\ next.key.nonce = 0 /\ next.step = 0
            BY <2>d, <2>4
        <3>2. next \in [at : {"new", "challenged", "ready"}, key : Keys,
                        step : 0 .. MaxCalls, unsure : BOOLEAN, counted : BOOLEAN]
            <4>1. \A k \in Keys :
                    [at |-> "new", key |-> k, step |-> 0, unsure |-> FALSE, counted |-> FALSE] \in
                        [at : {"new", "challenged", "ready"}, key : Keys,
                         step : 0 .. MaxCalls, unsure : BOOLEAN, counted : BOOLEAN]
                BY <2>e, Believed
            <4>. QED
                BY <2>d, <2>e, <2>4, <4>1, Zenon
        <3>. QED
            BY <2>e, <3>1, <3>2
    <2>. QED
        BY <2>1, <2>2, <2>3, <2>4
<1> HIDE DEF next
<1>4. /\ client'[c] = next /\ reply'[c] = NoReply /\ reply'[c].kind = "none"
      /\ \A d \in Clients : d # c => client'[d] = client[d] /\ reply'[d] = reply[d]
      /\ DOMAIN reply' = Clients
    BY <1>1, <1>2 DEF TypeOK, NoReply
<1>5. Nonce(c)' \in {0, Nonce(c)} /\ \A d \in Clients : d # c => Nonce(d)' = Nonce(d)
    BY <1>3, <1>4 DEF Nonce
<1>6. Shape'
    <2>1. client' \in [Clients -> [at : {"new", "challenged", "ready"}, key : Keys,
                                   step : 0 .. MaxCalls, unsure : BOOLEAN, counted : BOOLEAN]]
        BY <1>1, <1>2, <1>3 DEF TypeOK
    <2>2. known' \in [Computers -> SUBSET (1 .. MaxPasswords)]
        BY <1>1, <1>2 DEF TypeOK, ReplyFits
    <2>3. TypeOK'
        BY <1>1, <1>2, <1>4, <2>1, <2>2 DEF TypeOK
    <2>4. \A d \in Clients : ReplyFits(d)'
        BY <1>2, <1>4 DEF ReplyFits, IInv, Shape
    <2>. QED
        BY <1>4, <2>3, <2>4 DEF Shape
<1>7. Counted'
    BY <1>1, <1>2, <1>3, <1>4 DEF Counted
<1>8. Apart'
    BY <1>2, <1>5 DEF IInv, Apart
<1>9. Granted' /\ OneSetter'
    BY <1>2, <1>4 DEF IInv, Granted, OneSetter
<1>10. SetHolds'
    BY <1>2, <1>4 DEF IInv, SetHolds
<1>11. PasswordKnown'
    BY <1>1, <1>2 DEF IInv, PasswordKnown, SetHolds, TypeOK
<1>12. ChannelInStep'
    <2>1. ASSUME NEW d \in Clients, d # c
          PROVE  client'[d] = client[d] /\ reply'[d] = reply[d] /\ sessions' = sessions
        BY <1>2, <1>4, <2>1
    <2>2. ASSUME next.at = "ready", sessions[ComputerOf[c]].key = next.key
          PROVE  IF next.counted THEN c \in Counting /\ sessions[ComputerOf[c]].step = next.step + 1
                 ELSE sessions[ComputerOf[c]].step = next.step
        <3>1. CASE r.kind = "authenticate"
            BY <1>3, <2>2, <3>1 DEF IInv, Granted
        <3>2. CASE r.kind \in {"call", "set"}
            <4>1. /\ r.verified /\ client[c].at = "ready" /\ ~client[c].counted /\ next.key = client[c].key
                  /\ IF next.counted THEN c \in Counting /\ next.step = client[c].step
                     ELSE next.step = client[c].step + 1
                BY <1>3, <2>2, <3>2
            <4>2. sessions[ComputerOf[c]].step = client[c].step + 1
                BY <2>2, <3>2, <4>1 DEF IInv, ChannelInStep
            <4>. QED
                BY <4>1, <4>2
        <3>. QED
            BY <1>3, <2>2, <3>1, <3>2
    <2>3. next.step + 0 = next.step
        BY <1>3
    <2>. QED
        BY <1>2, <1>4, <2>1, <2>2, <2>3 DEF IInv, ChannelInStep
<1>. QED
    BY <1>6, <1>7, <1>8, <1>9, <1>10, <1>11, <1>12 DEF IInv

\* A caller that lost a reply may be one step behind.
LEMMA LoseKeeps ==
    ASSUME IInv, NEW c \in Clients, Lose(c)
    PROVE  IInv'
<1> USE Assumed
<1>1. /\ Shape /\ TypeOK /\ DOMAIN reply = Clients
      /\ faults < MaxFaults /\ faults' = faults + 1
      /\ reply' = [reply EXCEPT ![c] = NoReply]
      /\ client' = [client EXCEPT ![c].unsure = TRUE]
      /\ UNCHANGED <<challenges, sessions, secret, standing, known, made>>
    BY DEF IInv, Shape, Lose
<1>2. /\ reply'[c].kind = "none" /\ client'[c].unsure /\ client'[c].at = client[c].at
      /\ client'[c].key = client[c].key /\ client'[c].step = client[c].step
      /\ client'[c].counted = client[c].counted
      /\ \A d \in Clients : d # c => client'[d] = client[d] /\ reply'[d] = reply[d]
      /\ DOMAIN reply' = Clients
    BY <1>1 DEF TypeOK, NoReply
<1>3. Shape'
    <2>1. client' \in [Clients -> [at : {"new", "challenged", "ready"}, key : Keys,
                                   step : 0 .. MaxCalls, unsure : BOOLEAN, counted : BOOLEAN]]
        BY ZenonT(30), <1>1 DEF TypeOK
    <2>2. TypeOK'
        BY <1>1, <1>2, <2>1 DEF TypeOK
    <2>3. \A d \in Clients : ReplyFits(d)'
        BY <1>1, <1>2 DEF ReplyFits, Shape
    <2>. QED
        BY <1>2, <2>2, <2>3 DEF Shape
<1>4. Counted'
    BY <1>1, <1>2 DEF IInv, Counted
<1>5. \A d \in Clients : Nonce(d)' \in {0, Nonce(d)}
    BY <1>1, <1>2 DEF IInv, Counted, Nonce, Shape, ReplyFits
<1>6. Apart'
    BY <1>1, <1>5 DEF IInv, Apart
<1>7. Granted' /\ OneSetter' /\ SetHolds' /\ PasswordKnown'
    BY <1>1, <1>2 DEF IInv, Granted, OneSetter, SetHolds, PasswordKnown
<1>8. ChannelInStep'
    <2>1. client[c].step \in Nat
        BY <1>1 DEF TypeOK
    <2>. QED
        BY <1>1, <1>2, <2>1 DEF IInv, ChannelInStep
<1>. QED
    BY <1>3, <1>4, <1>6, <1>7, <1>8 DEF IInv

\* Nobody has the key of a session that is not there.
LEMMA ExpireKeeps ==
    ASSUME IInv, Expire
    PROVE  IInv'
<1> USE Assumed
<1>1. /\ Shape /\ TypeOK
      /\ faults < MaxFaults /\ faults' = faults + 1
      /\ UNCHANGED <<secret, standing, known, client, reply, made>>
      /\ challenges' \in [Computers -> 0 .. MaxChallenges]
      /\ sessions' \in [Computers -> [key : Keys, step : 0 .. MaxCalls]]
      /\ \A n \in Computers : challenges'[n] \in {0, challenges[n]}
      /\ \A n \in Computers : sessions'[n] \in {NoSession, sessions[n]}
    <2>1. /\ Shape /\ TypeOK
          /\ challenges \in [Computers -> 0 .. MaxChallenges]
          /\ sessions \in [Computers -> [key : Keys, step : 0 .. MaxCalls]]
        BY DEF IInv, Shape, TypeOK
    <2>2. NoSession \in [key : Keys, step : 0 .. MaxCalls] /\ 0 \in 0 .. MaxChallenges
        BY DEF NoSession, NoKey, Keys
    <2>3. /\ faults < MaxFaults /\ faults' = faults + 1
          /\ UNCHANGED <<secret, standing, known, client, reply, made>>
        BY DEF Expire
    <2>4. \/ \E n \in Computers :
                challenges' = [challenges EXCEPT ![n] = 0] /\ sessions' = sessions
          \/ \E n \in Computers :
                sessions' = [sessions EXCEPT ![n] = NoSession] /\ challenges' = challenges
          \/ /\ challenges' = [n \in Computers |-> 0]
             /\ sessions' = [n \in Computers |-> NoSession]
        BY DEF Expire
    <2>5. /\ challenges' \in [Computers -> 0 .. MaxChallenges]
          /\ sessions' \in [Computers -> [key : Keys, step : 0 .. MaxCalls]]
        BY <2>1, <2>2, <2>4
    <2>6. /\ \A n \in Computers : challenges'[n] \in {0, challenges[n]}
          /\ \A n \in Computers : sessions'[n] \in {NoSession, sessions[n]}
        BY <2>1, <2>4
    <2>. QED
        BY <2>1, <2>3, <2>5, <2>6
<1>2. NoSession.key.nonce = 0 /\ NoSession.step = 0
    BY DEF NoSession, NoKey
<1>3. Shape'
    BY <1>1 DEF Shape, TypeOK, ReplyFits
<1>4. Counted'
    <2>1. made.challenge \in Nat /\ made.call \in Nat
        BY <1>1 DEF TypeOK
    <2>. QED
        BY <1>1, <1>2, <2>1 DEF IInv, Counted
<1>5. \A d \in Clients : Nonce(d)' = Nonce(d)
    BY <1>1 DEF Nonce
<1>6. Apart'
    BY <1>1, <1>2, <1>5 DEF IInv, Apart
<1>7. Granted'
    BY <1>1, <1>2 DEF IInv, Granted
<1>8. OneSetter' /\ SetHolds' /\ PasswordKnown'
    BY <1>1 DEF IInv, OneSetter, SetHolds, PasswordKnown
<1>9. ChannelInStep'
    <2>1. \A d \in Clients : client[d].at = "ready" => client[d].key.nonce # 0
        BY DEF IInv, Counted
    <2>. QED
        BY <1>1, <1>2, <2>1 DEF IInv, ChannelInStep
<1>. QED
    BY <1>3, <1>4, <1>6, <1>7, <1>8, <1>9 DEF IInv

LEMMA Steps == IInv /\ [Next]_vars => IInv'
<1> SUFFICES ASSUME IInv, [Next]_vars PROVE IInv'
    OBVIOUS
<1>1. ASSUME NEW c \in Clients, ReqChallenge(c) PROVE IInv'
    BY <1>1, AsksKeeps
<1>2. ASSUME NEW c \in Clients, NEW pw \in 1 .. MaxPasswords, NEW aes \in BOOLEAN,
             NEW up \in BOOLEAN, Authenticate(c, pw, aes, up)
      PROVE  IInv'
    BY <1>2, AuthenticateKeeps
<1>3. ASSUME NEW c \in Clients, NEW granted \in BOOLEAN, Call(c, granted) PROVE IInv'
    BY <1>3, CallKeeps
<1>4. ASSUME NEW c \in Clients, NEW broken \in Outcomes, SetPassword(c, broken) PROVE IInv'
    BY <1>4, SetPasswordKeeps
<1>5. ASSUME NEW c \in Clients, Receive(c) PROVE IInv'
    BY <1>5, ReceiveKeeps
<1>6. ASSUME NEW c \in Clients, Lose(c) PROVE IInv'
    BY <1>6, LoseKeeps
<1>7. CASE Expire
    BY <1>7, ExpireKeeps
<1>8. CASE UNCHANGED vars
    BY <1>8 DEF vars, IInv, Shape, TypeOK, ReplyFits, Counted, Apart, Nonce, Granted,
                SetHolds, OneSetter, ChannelInStep, PasswordKnown, Verified
<1>9. ASSUME NEW c \in Clients, CallWithoutAuthenticator(c) PROVE UNCHANGED vars
    BY <1>9 DEF CallWithoutAuthenticator
<1>. QED
    BY <1>1, <1>2, <1>3, <1>4, <1>5, <1>6, <1>7, <1>8, <1>9 DEF Next

\* The inductive invariant: callers have challenges of their own, replies fit
\* their callers, and what the two ends of a channel hold differs by the reply
\* between them.
THEOREM Invariant == Spec => []IInv
<1>1. Init => IInv
    BY Starts
<1>2. IInv /\ [Next]_vars => IInv'
    BY Steps
<1>. QED
    BY <1>1, <1>2, PTL DEF Spec

\* Challenges, sessions, passwords and callers keep their types, for any
\* callers, computers and bounds.
THEOREM TypeCorrect == Spec => []TypeOK
<1>1. IInv => TypeOK
    BY DEF IInv, Shape
<1>. QED
    BY Invariant, <1>1, PTL

\* A caller that takes the credentials returned is in step with the server, or one
\* lost reply apart, and one that counts on has one verified call of a session,
\* whatever other callers and computers do and whatever calls are refused.
THEOREM AlwaysInStep == Spec => []ChannelInStep
<1>1. IInv => ChannelInStep
    BY DEF IInv
<1>. QED
    BY Invariant, <1>1, PTL

\* The stored machine password is always one that the machine still tries.
THEOREM PasswordAlwaysKnown == Spec => []PasswordKnown
<1>1. IInv => PasswordKnown
    BY DEF IInv
<1>. QED
    BY Invariant, <1>1, PTL

-----------------------------------------------------------------------------
(***************************************************************************)
(* Kerberos: the key of a user is one of the passwords he may have, and    *)
(* tickets asked for afresh are accepted.  The row of a password change is *)
(* that of who asks or of who is meant, so both must count its value among *)
(* what they may have, unless they are the same and heard of its success.  *)
(***************************************************************************)
\* The change in hand is for one of the two users it names.
KdcJob ==
    \/ change = Kdc!Idle
    \/ /\ change \in [at : {"stamp", "secret"}, user : Users, target : Users, account : Users,
                      barred : BOOLEAN, value : 1 .. KdcPasswords]
       /\ change.account \in {change.user, change.target}

KdcKeys == \A u \in Users : key[u] # 0 => key[u] \in believed[u]

KdcIInv == Kdc!TypeOK /\ KdcJob /\ KdcKeys

LEMMA KdcAccounts ==
    /\ Users \subseteq Kdc!Accounts /\ Services \subseteq Kdc!Accounts
    /\ Kdc!Krbtgt \in Kdc!Accounts /\ Kdc!Krbtgt \notin Users
    /\ Users \cap (Services \cup {Kdc!Krbtgt}) = {}
    /\ \A u \in Users : Kdc!AccountOf(u) = u
    /\ Kdc!Accounts \subseteq Nat
<1>1. Users \cup Services \subseteq Nat /\ Users \cap Services = {} /\ {502, 464} \cap (Users \cup Services) = {}
  BY DaemonsAssumption DEF DaemonsAssumption
<1> QED BY <1>1 DEF Kdc!Accounts, Kdc!Krbtgt, Kdc!ChangePw, Kdc!AccountOf

LEMMA KdcStarts == Kdc!Init => KdcIInv
<1> SUFFICES ASSUME Kdc!Init PROVE KdcIInv
    OBVIOUS
<1> USE DEF Kdc!Init
<1>1. Kdc!NoTicket \in Kdc!Ticket
    BY Bounds DEF Kdc!NoTicket, Kdc!Ticket
<1>2. Kdc!TypeOK
    BY <1>1, Bounds, KdcAccounts DEF Kdc!TypeOK, Kdc!Idle
<1>3. KdcKeys
    BY KdcAccounts DEF KdcKeys
<1>. QED
    BY <1>2, <1>3 DEF KdcIInv, KdcJob

\* Tickets have keys of the size the bounds allow.
LEMMA KdcSealed ==
    ASSUME Kdc!TypeOK, NEW n, Kdc!AccountOf(n) \in Kdc!Accounts, NEW e \in Kdc!Etypes
    PROVE  Kdc!Sealed(n, e) \in Kdc!Ticket
BY DEF Kdc!TypeOK, Kdc!Sealed, Kdc!Ticket

\* The first of the types that were asked for and have keys is such a type.
LEMMA KdcFirstWanted ==
    ASSUME NEW offer \in EtypeOffers, Kdc!Wanted(offer) # {}
    PROVE  /\ Kdc!FirstWanted(offer) \in Kdc!Etypes
           /\ \E n \in DOMAIN offer : offer[n] = Kdc!FirstWanted(offer)
<1>1. Kdc!Wanted(offer) \subseteq DOMAIN offer /\ DOMAIN offer \subseteq Nat
    <2>1. offer \in Seq(Nat)
        BY DaemonsAssumption DEF DaemonsAssumption
    <2>2. QED
        BY <2>1 DEF Kdc!Wanted
<1>2. \E n \in Kdc!Wanted(offer) : \A m \in Kdc!Wanted(offer) : n <= m
    <2> HIDE DEF Kdc!Wanted
    <2>1. QED
        BY <1>1, LeastNatural
<1> DEFINE n == CHOOSE n \in Kdc!Wanted(offer) : \A m \in Kdc!Wanted(offer) : n <= m
<1>3. n \in Kdc!Wanted(offer)
    BY <1>2
<1>4. Kdc!FirstWanted(offer) = offer[n]
    BY DEF Kdc!FirstWanted
<1> HIDE DEF n
<1>. QED
    BY <1>3, <1>4 DEF Kdc!Wanted

LEMMA KdcReplies ==
    ASSUME Kdc!TypeOK, NEW offer \in EtypeOffers
    PROVE  /\ \A u \in Users, proof \in Kdc!Hinted(offer) : \A p :
                Kdc!AsReply(u, p, offer, proof) \in Kdc!Ticket
           /\ \A u \in Users, s \in Kdc!Targets : \A t :
                Kdc!TgsReply(u, t, s, offer) \in Kdc!Ticket
<1> USE DEF Kdc!Stored
<1>1. Kdc!NoTicket \in Kdc!Ticket
    BY Bounds DEF Kdc!NoTicket, Kdc!Ticket
<1>2. \A e \in Kdc!Etypes : Kdc!Sealed(Kdc!Krbtgt, e) \in Kdc!Ticket
    BY KdcSealed, KdcAccounts DEF Kdc!AccountOf
<1>3. \A s \in Kdc!Targets, e \in Kdc!Etypes : Kdc!Sealed(s, e) \in Kdc!Ticket
    BY KdcSealed, KdcAccounts DEF Kdc!AccountOf, Kdc!Targets
<1>4. ASSUME NEW proof \in Kdc!Hinted(offer), Kdc!ReplyEtype(offer, proof) # 0
      PROVE  Kdc!ReplyEtype(offer, proof) \in Kdc!Etypes
    BY <1>4, KdcFirstWanted DEF Kdc!ReplyEtype, Kdc!Hinted
<1>5. Kdc!ServiceEtype(offer) \in Kdc!Etypes
    BY KdcFirstWanted DEF Kdc!ServiceEtype, Kdc!Etypes
<1>6. ASSUME NEW u \in Users, NEW p, NEW proof \in Kdc!Hinted(offer)
      PROVE  Kdc!AsReply(u, p, offer, proof) \in Kdc!Ticket
    BY <1>1, <1>2, <1>4 DEF Kdc!AsReply
<1>7. ASSUME NEW u \in Users, NEW t, NEW s \in Kdc!Targets
      PROVE  Kdc!TgsReply(u, t, s, offer) \in Kdc!Ticket
    BY <1>1, <1>3, <1>5 DEF Kdc!TgsReply
<1>. QED
    BY <1>6, <1>7

LEMMA KdcAsks ==
    ASSUME KdcIInv, Kdc!Asks
    PROVE  KdcIInv'
<1> USE DEF KdcIInv
<1>1. /\ UNCHANGED <<present, blocked, key, renewed, believed, change, passwords, changes, kdcFaults>>
      /\ tgt' \in [Users -> Kdc!Ticket]
      /\ tickets' \in [Users -> [Kdc!Targets -> Kdc!Ticket]]
    <2>1. tgt \in [Users -> Kdc!Ticket] /\ tickets \in [Users -> [Kdc!Targets -> Kdc!Ticket]]
        BY DEF Kdc!TypeOK
    <2>2. Kdc!NoTicket \in Kdc!Ticket
        BY Bounds DEF Kdc!NoTicket, Kdc!Ticket
    <2> USE DEF Kdc!rows, Kdc!counters
    <2>3. ASSUME NEW u \in Users, NEW offer \in EtypeOffers, NEW proof \in Kdc!Hinted(offer),
                 Kdc!AsRequest(u, offer, proof)
          PROVE  <1>1!1 /\ <1>1!2 /\ <1>1!3
        BY <2>1, <2>3, KdcReplies DEF Kdc!AsRequest
    <2>4. ASSUME NEW u \in Users, NEW s \in Kdc!Targets, NEW offer \in EtypeOffers,
                 Kdc!TgsRequest(u, s, offer)
          PROVE  <1>1!1 /\ <1>1!2 /\ <1>1!3
        <3>1. Kdc!TgsReply(u, tgt[u], s, offer) \in Kdc!Ticket
            BY KdcReplies
        <3>2. QED
            BY <2>1, <2>2, <2>4, <3>1 DEF Kdc!TgsRequest
    <2>5. ASSUME NEW u \in Users, NEW s \in Services, Kdc!ApRequest(u, s)
          PROVE  <1>1!1 /\ <1>1!2 /\ <1>1!3
        BY <2>1, <2>2, <2>5 DEF Kdc!ApRequest, Kdc!Targets
    <2>6. QED
        BY <2>3, <2>4, <2>5 DEF Kdc!Asks
<1>2. Kdc!TypeOK'
    BY <1>1 DEF Kdc!TypeOK
<1>. QED
    BY <1>1, <1>2 DEF KdcJob, KdcKeys

LEMMA KdcChangesPassword ==
    ASSUME KdcIInv, Kdc!ChangesPassword
    PROVE  KdcIInv'
<1> USE Bounds DEF KdcIInv, Kdc!rows, Kdc!held
<1>1. Kdc!NoTicket \in Kdc!Ticket
    BY DEF Kdc!NoTicket, Kdc!Ticket
<1>2. ASSUME NEW b \in BOOLEAN, Kdc!Counted(b) PROVE kdcFaults' \in 0 .. KdcFaults
    BY <1>2 DEF Kdc!Counted, Kdc!TypeOK
<1>3. ASSUME NEW u \in Users, NEW target \in Users, NEW broken \in Kdc!Refusals \cup {"no"},
             Kdc!Kpasswd(u, target, broken)
      PROVE  KdcIInv'
    <2>1. kdcFaults' \in 0 .. KdcFaults
        BY <1>3 DEF Kdc!Kpasswd, Kdc!Counted, Kdc!TypeOK
    <2>2. /\ UNCHANGED <<present, blocked, key, renewed, believed, tgt, changes>>
          /\ change = Kdc!Idle /\ passwords < KdcPasswords
        BY <1>3 DEF Kdc!Kpasswd
    <2>3. CASE UNCHANGED <<change, passwords>>
        <3>1. tickets' = tickets \/ tickets' = [tickets EXCEPT ![u][Kdc!ChangePw] = Kdc!NoTicket]
            BY <1>3 DEF Kdc!Kpasswd
        <3>2. tickets' \in [Users -> [Kdc!Targets -> Kdc!Ticket]]
            BY <1>1, <3>1 DEF Kdc!TypeOK
        <3>3. Kdc!TypeOK'
            BY <2>1, <2>2, <2>3, <3>2 DEF Kdc!TypeOK
        <3>4. QED
            BY <2>2, <2>3, <3>3 DEF KdcJob, KdcKeys
    <2>4. CASE ~UNCHANGED <<change, passwords>>
        <3> DEFINE a == Kdc!ChangedRow(u, target)
        <3>1. /\ Kdc!Candidates(u, target) # {} /\ UNCHANGED tickets
              /\ passwords' = passwords + 1
              /\ change' = [at |-> "stamp", user |-> u, target |-> target, account |-> a,
                            barred |-> a \in blocked, value |-> passwords + 1]
            BY <1>3, <2>4 DEF Kdc!Kpasswd
        <3>2. a \in {u, target}
            <4>1. Kdc!Candidates(u, target) \subseteq {u, target}
                  /\ Kdc!Candidates(u, target) \subseteq Nat
                BY KdcAccounts DEF Kdc!Candidates
            <4>2. \E x \in Kdc!Candidates(u, target) : \A y \in Kdc!Candidates(u, target) : x <= y
                BY <3>1, <4>1, LeastNatural
            <4>3. a \in Kdc!Candidates(u, target)
                BY <4>2 DEF Kdc!ChangedRow
            <4>4. QED
                BY <4>1, <4>3
        <3> HIDE DEF a
        <3>3. Kdc!TypeOK'
            BY <2>1, <2>2, <3>1 DEF Kdc!TypeOK
        <3>4. KdcJob'
            BY <3>1, <3>2, <2>2 DEF KdcJob, Kdc!TypeOK
        <3>5. QED
            BY <2>2, <3>3, <3>4 DEF KdcKeys
    <2>5. QED
        BY <2>3, <2>4
<1>4. ASSUME NEW broken \in BOOLEAN, Kdc!KpasswdStamp(broken) PROVE KdcIInv'
    <2>1. kdcFaults' \in 0 .. KdcFaults
          /\ UNCHANGED <<key, renewed, believed, tgt, tickets, passwords, changes>>
        BY <1>2, <1>4 DEF Kdc!KpasswdStamp
    <2>2. /\ change \in [at : {"stamp", "secret"}, user : Users, target : Users,
                         account : Users, barred : BOOLEAN, value : 1 .. KdcPasswords]
          /\ change.account \in {change.user, change.target}
        BY <1>4 DEF Kdc!KpasswdStamp, KdcJob, Kdc!Idle
    <2>3. \/ change' = Kdc!Idle
          \/ change' = [change EXCEPT !.at = "secret"]
        BY <1>4 DEF Kdc!KpasswdStamp
    <2>4. present' \subseteq Kdc!Accounts /\ blocked' \subseteq Kdc!Accounts
        BY <1>4, <2>2, KdcAccounts DEF Kdc!KpasswdStamp, Kdc!TypeOK
    <2>5. Kdc!TypeOK'
        BY <2>1, <2>2, <2>3, <2>4 DEF Kdc!TypeOK, Kdc!Idle
    <2>6. KdcJob'
        BY <2>2, <2>3 DEF KdcJob
    <2>7. QED
        BY <2>1, <2>5, <2>6 DEF KdcKeys
<1>5. ASSUME NEW stored \in BOOLEAN, NEW stamped \in BOOLEAN, NEW heard \in BOOLEAN,
             Kdc!KpasswdSecret(stored, stamped, heard)
      PROVE  KdcIInv'
    <2> USE DEF Kdc!KpasswdSecret, Kdc!SecretStored
    <2>1. /\ change \in [at : {"stamp", "secret"}, user : Users, target : Users,
                         account : Users, barred : BOOLEAN, value : 1 .. KdcPasswords]
          /\ change.account \in {change.user, change.target}
        BY <1>5 DEF KdcJob, Kdc!Idle
    <2>2. kdcFaults' \in 0 .. KdcFaults
        BY <1>2, <1>5 DEF Kdc!Confirmed
    <2>3. key' = IF stored THEN [key EXCEPT ![change.account] = change.value] ELSE key
        BY <1>5
    <2>7. key' \in [Kdc!Accounts -> 0 .. KdcPasswords]
        <3>1. key \in [Kdc!Accounts -> 0 .. KdcPasswords]
            BY DEF Kdc!TypeOK
        <3>2. change.value \in 1 .. KdcPasswords /\ change.account \in Users
            BY <2>1
        <3>3. change.value \in 0 .. KdcPasswords
            BY <3>2
        <3>4. change.account \in Kdc!Accounts
            BY <3>2, KdcAccounts
        <3>5. QED
            BY <2>3, <3>1, <3>3, <3>4
    <2>8. change' = Kdc!Idle /\ UNCHANGED <<present, blocked, renewed, tgt, tickets, passwords, changes>>
        BY <1>5
    <2>4. CASE Kdc!Confirmed(stored, stamped) /\ heard /\ change.user = change.target
        <3>1. believed' = [believed EXCEPT ![change.user] = {change.value}]
              /\ stored /\ change.account = change.user
            BY <1>5, <2>1, <2>4 DEF Kdc!Confirmed
        <3>2. believed' \in [Users -> SUBSET (1 .. KdcPasswords)]
            BY <2>1, <3>1 DEF Kdc!TypeOK
        <3>3. KdcKeys'
            BY <2>1, <2>3, <3>1, KdcAccounts DEF KdcKeys, Kdc!TypeOK
        <3>4. QED
            BY <2>2, <2>7, <2>8, <3>2, <3>3 DEF KdcJob, Kdc!TypeOK, Kdc!Idle
    <2>5. CASE ~(Kdc!Confirmed(stored, stamped) /\ heard /\ change.user = change.target)
        <3>1. believed' = [b \in Users |-> believed[b] \cup
                IF b \in {change.user, change.target} THEN {change.value} ELSE {}]
            BY <1>5, <2>5 DEF Kdc!MayHave
        <3>2. believed' \in [Users -> SUBSET (1 .. KdcPasswords)]
            BY <2>1, <3>1 DEF Kdc!TypeOK
        <3>3. KdcKeys'
            BY <2>1, <2>3, <3>1, KdcAccounts DEF KdcKeys, Kdc!TypeOK
        <3>4. QED
            BY <2>2, <2>7, <2>8, <3>2, <3>3 DEF KdcJob, Kdc!TypeOK, Kdc!Idle
    <2>6. QED
        BY <2>4, <2>5
<1>. QED
    BY <1>3, <1>4, <1>5 DEF Kdc!ChangesPassword

LEMMA KdcAdministers ==
    ASSUME KdcIInv, Kdc!Administers
    PROVE  KdcIInv'
<1> USE Bounds, KdcAccounts DEF KdcIInv, Kdc!held
<1>1. ASSUME NEW broken \in BOOLEAN, Kdc!Bootstrap(broken) PROVE KdcIInv'
    <2>1. kdcFaults' \in 0 .. KdcFaults
          /\ UNCHANGED <<present, blocked, renewed, believed, tgt, tickets, change, changes>>
        BY <1>1 DEF Kdc!Bootstrap, Kdc!Counted, Kdc!TypeOK
    <2>2. passwords' = passwords + 1 /\ passwords' \in 0 .. KdcPasswords
        BY <1>1 DEF Kdc!Bootstrap, Kdc!TypeOK
    <2>3. PICK S \in {{Kdc!Krbtgt}, {Kdc!Krbtgt} \cup Services} :
            key' = [a \in Kdc!Accounts |->
                      IF a \in S /\ key[a] = 0 THEN passwords + 1 ELSE key[a]]
        BY <1>1 DEF Kdc!Bootstrap, Kdc!Lacks
    <2>4. \A u \in Users : key'[u] = key[u]
        BY <2>3
    <2>5. key' \in [Kdc!Accounts -> 0 .. KdcPasswords]
        BY <2>2, <2>3 DEF Kdc!TypeOK
    <2>6. Kdc!TypeOK'
        BY <2>1, <2>2, <2>5 DEF Kdc!TypeOK
    <2>7. QED
        BY <2>1, <2>4, <2>6 DEF KdcJob, KdcKeys
<1>2. ASSUME NEW a \in Kdc!Accounts, Kdc!Reset(a) PROVE KdcIInv'
    <2> USE DEF Kdc!Reset
    <2>1. passwords' = passwords + 1 /\ passwords' \in 1 .. KdcPasswords
          /\ UNCHANGED <<blocked, tgt, tickets, change, changes, kdcFaults>>
        BY <1>2 DEF Kdc!TypeOK
    <2>2. key' = [key EXCEPT ![a] = passwords'] /\ renewed' = renewed \cup ({a} \ Users)
        BY <1>2
    <2>3. change # Kdc!Idle => change.value \in 1 .. KdcPasswords
        BY DEF KdcJob
    <2>4. believed' \in [Users -> SUBSET (1 .. KdcPasswords)]
        BY <1>2, <2>1, <2>3 DEF Kdc!TypeOK
    <2>5. Kdc!TypeOK'
        BY <1>2, <2>1, <2>2, <2>4 DEF Kdc!TypeOK
    <2>6. KdcKeys'
        BY <1>2, <2>1, <2>2 DEF KdcKeys, Kdc!TypeOK
    <2>7. QED
        BY <2>1, <2>5, <2>6 DEF KdcJob
<1>3. ASSUME NEW u \in Users, Kdc!Delete(u) PROVE KdcIInv'
    BY <1>3 DEF Kdc!Delete, Kdc!Change, Kdc!TypeOK, KdcJob, KdcKeys
<1>4. ASSUME NEW a \in Kdc!Accounts, Kdc!Toggle(a) PROVE KdcIInv'
    BY <1>4 DEF Kdc!Toggle, Kdc!Change, Kdc!TypeOK, KdcJob, KdcKeys
<1>. QED
    BY <1>1, <1>2, <1>3, <1>4 DEF Kdc!Administers

\* A ticket for n opens with the keys k, unless n is among those renewed.
KdcLasts(t, n, k, renewals) ==
    t # Kdc!NoTicket =>
        \/ t.etype \in Kdc!Etypes /\ t.key # 0 /\ t.key = k[Kdc!AccountOf(n)]
        \/ Kdc!AccountOf(n) \in renewals

KdcHeldLast(k, renewals) ==
    \A u \in Users :
        /\ KdcLasts(tgt[u], Kdc!Krbtgt, k, renewals)
        /\ \A s \in Kdc!Targets : KdcLasts(tickets[u][s], s, k, renewals)

LEMMA KdcTicketsLast == Kdc!TicketsLast <=> KdcHeldLast(key, renewed)
<1>1. Kdc!AccountOf(Kdc!Krbtgt) = Kdc!Krbtgt
    BY DEF Kdc!AccountOf, Kdc!Krbtgt, Kdc!ChangePw
<1>2. QED
    BY <1>1 DEF Kdc!TicketsLast, KdcHeldLast, KdcLasts, Kdc!Opens

LEMMA KdcTicketsLastPrimed == Kdc!TicketsLast' <=> KdcHeldLast(key, renewed)'
<1>1. Kdc!AccountOf(Kdc!Krbtgt) = Kdc!Krbtgt
    BY DEF Kdc!AccountOf, Kdc!Krbtgt, Kdc!ChangePw
<1>2. QED
    BY <1>1 DEF Kdc!TicketsLast, KdcHeldLast, KdcLasts, Kdc!Opens

\* What the KDC answers opens.
LEMMA KdcAnswersOpen ==
    ASSUME NEW offer \in EtypeOffers, NEW u \in Users
    PROVE  /\ \A proof \in Kdc!Hinted(offer) : \A p :
                KdcLasts(Kdc!AsReply(u, p, offer, proof), Kdc!Krbtgt, key, renewed)
           /\ \A s \in Kdc!Targets : \A t :
                KdcLasts(Kdc!TgsReply(u, t, s, offer), s, key, renewed)
<1>1. ASSUME NEW n, NEW e \in Kdc!Etypes, Kdc!HasKeys(n)
      PROVE  KdcLasts(Kdc!Sealed(n, e), n, key, renewed)
    BY <1>1 DEF KdcLasts, Kdc!Sealed, Kdc!HasKeys
<1>2. \A n : KdcLasts(Kdc!NoTicket, n, key, renewed)
    BY DEF KdcLasts
<1>3. ASSUME NEW proof \in Kdc!Hinted(offer), Kdc!ReplyEtype(offer, proof) # 0
      PROVE  Kdc!ReplyEtype(offer, proof) \in Kdc!Etypes
    BY <1>3, KdcFirstWanted DEF Kdc!ReplyEtype, Kdc!Hinted, Kdc!Stored
<1>4. Kdc!ServiceEtype(offer) \in Kdc!Etypes
    BY KdcFirstWanted DEF Kdc!ServiceEtype, Kdc!Etypes, Kdc!Stored
<1>5. QED
    BY <1>1, <1>2, <1>3, <1>4 DEF Kdc!AsReply, Kdc!TgsReply

\* A service's keys are made once, and replaced only by an administrator.
LEMMA KdcServicesKeep ==
    ASSUME KdcIInv, Kdc!ChangesPassword \/ Kdc!Administers
    PROVE  /\ renewed \subseteq renewed'
           /\ \A a \in Services \cup {Kdc!Krbtgt} :
                  key'[a] = key[a] \/ key[a] = 0 \/ a \in renewed'
<1> USE KdcAccounts DEF Kdc!rows, Kdc!held
<1>0. key \in [Kdc!Accounts -> 0 .. KdcPasswords]
    BY DEF KdcIInv, Kdc!TypeOK
<1>1. ASSUME NEW u \in Users, NEW target \in Users, NEW broken \in Kdc!Refusals \cup {"no"},
             Kdc!Kpasswd(u, target, broken)
      PROVE  UNCHANGED <<key, renewed>>
    BY <1>1 DEF Kdc!Kpasswd
<1>2. ASSUME NEW broken \in BOOLEAN, Kdc!KpasswdStamp(broken)
      PROVE  UNCHANGED <<key, renewed>>
    BY <1>2 DEF Kdc!KpasswdStamp
<1>3. ASSUME NEW stored \in BOOLEAN, NEW stamped \in BOOLEAN, NEW heard \in BOOLEAN,
             Kdc!KpasswdSecret(stored, stamped, heard)
      PROVE  /\ renewed' = renewed
             /\ \A a \in Services \cup {Kdc!Krbtgt} : key'[a] = key[a]
    <2>1. change.account \in Users
        BY <1>3 DEF Kdc!KpasswdSecret, KdcIInv, KdcJob, Kdc!Idle
    <2>2. QED
        BY <1>0, <1>3, <2>1 DEF Kdc!KpasswdSecret, Kdc!SecretStored
<1>4. ASSUME NEW broken \in BOOLEAN, Kdc!Bootstrap(broken)
      PROVE  /\ renewed' = renewed
             /\ \A a \in Services \cup {Kdc!Krbtgt} : key'[a] = key[a] \/ key[a] = 0
    BY <1>0, <1>4 DEF Kdc!Bootstrap, Kdc!Lacks
<1>5. ASSUME NEW b \in Kdc!Accounts, Kdc!Reset(b)
      PROVE  /\ renewed \subseteq renewed'
             /\ \A a \in Services \cup {Kdc!Krbtgt} : key'[a] = key[a] \/ a \in renewed'
    BY <1>0, <1>5 DEF Kdc!Reset
<1>6. ASSUME NEW u \in Users, Kdc!Delete(u)
      PROVE  /\ renewed' = renewed
             /\ \A a \in Services \cup {Kdc!Krbtgt} : key'[a] = key[a]
    BY <1>0, <1>6 DEF Kdc!Delete
<1>7. ASSUME NEW a \in Kdc!Accounts, Kdc!Toggle(a) PROVE UNCHANGED <<key, renewed>>
    BY <1>7 DEF Kdc!Toggle
<1>8. QED
    BY <1>1, <1>2, <1>3, <1>4, <1>5, <1>6, <1>7 DEF Kdc!ChangesPassword, Kdc!Administers

\* Requests add only tickets that open; nothing else adds any, or replaces keys
\* that tickets were sealed with.
LEMMA KdcTicketsStep ==
    ASSUME KdcIInv, Kdc!TicketsLast, Kdc!Next \/ UNCHANGED kdcVars
    PROVE  Kdc!TicketsLast'
<1>0. KdcHeldLast(key, renewed)
      /\ tgt \in [Users -> Kdc!Ticket] /\ tickets \in [Users -> [Kdc!Targets -> Kdc!Ticket]]
    BY KdcTicketsLast DEF KdcIInv, Kdc!TypeOK
<1>1. SUFFICES KdcHeldLast(key, renewed)'
    BY KdcTicketsLastPrimed
<1>2. \A n : KdcLasts(Kdc!NoTicket, n, key, renewed)
    BY DEF KdcLasts
<1>3. CASE Kdc!Asks
    <2> USE DEF Kdc!rows, Kdc!counters
    <2>1. UNCHANGED <<key, renewed>>
        BY <1>3 DEF Kdc!Asks, Kdc!AsRequest, Kdc!TgsRequest, Kdc!ApRequest
    <2>2. ASSUME NEW u \in Users, NEW offer \in EtypeOffers, NEW proof \in Kdc!Hinted(offer),
                 Kdc!AsRequest(u, offer, proof)
          PROVE  KdcHeldLast(key, renewed)'
        <3>1. PICK p : tgt' = IF Kdc!AsReply(u, p, offer, proof) = Kdc!NoTicket THEN tgt
                              ELSE [tgt EXCEPT ![u] = Kdc!AsReply(u, p, offer, proof)]
            BY <2>2 DEF Kdc!AsRequest
        <3>2. KdcLasts(Kdc!AsReply(u, p, offer, proof), Kdc!Krbtgt, key, renewed)
            BY KdcAnswersOpen
        <3>3. tickets' = tickets
            BY <2>2 DEF Kdc!AsRequest
        <3>4. QED
            BY <1>0, <2>1, <3>1, <3>2, <3>3 DEF KdcHeldLast
    <2>3. ASSUME NEW u \in Users, NEW s \in Kdc!Targets, NEW offer \in EtypeOffers,
                 Kdc!TgsRequest(u, s, offer)
          PROVE  KdcHeldLast(key, renewed)'
        <3> DEFINE answer == Kdc!TgsReply(u, tgt[u], s, offer)
        <3>1. tickets' = [tickets EXCEPT ![u][s] = answer]
              /\ (tgt' = tgt \/ tgt' = [tgt EXCEPT ![u] = Kdc!NoTicket])
            BY <2>3 DEF Kdc!TgsRequest
        <3>2. KdcLasts(answer, s, key, renewed)
            BY KdcAnswersOpen
        <3> HIDE DEF answer
        <3>3. QED
            BY <1>0, <1>2, <2>1, <3>1, <3>2 DEF KdcHeldLast
    <2>4. ASSUME NEW u \in Users, NEW s \in Services, Kdc!ApRequest(u, s)
          PROVE  KdcHeldLast(key, renewed)'
        <3>1. tgt' = tgt
              /\ (tickets' = tickets \/ tickets' = [tickets EXCEPT ![u][s] = Kdc!NoTicket])
            BY <2>4 DEF Kdc!ApRequest
        <3>2. QED
            BY <1>0, <1>2, <2>1, <3>1 DEF KdcHeldLast
    <2>5. QED
        BY <1>3, <2>2, <2>3, <2>4 DEF Kdc!Asks
<1>4. CASE Kdc!ChangesPassword \/ Kdc!Administers
    <2>1. ASSUME NEW t, NEW n \in {Kdc!Krbtgt} \cup Kdc!Targets, KdcLasts(t, n, key, renewed)
          PROVE  KdcLasts(t, n, key', renewed')
        <3>1. Kdc!AccountOf(n) \in Services \cup {Kdc!Krbtgt}
            BY DEF Kdc!AccountOf, Kdc!Targets
        <3>2. QED
            BY <1>4, <2>1, <3>1, KdcServicesKeep DEF KdcLasts
    <2>2. KdcHeldLast(key', renewed')
        BY <1>0, <2>1 DEF KdcHeldLast
    <2>3. tgt' = tgt
          /\ (tickets' = tickets
              \/ \E u \in Users : tickets' = [tickets EXCEPT ![u][Kdc!ChangePw] = Kdc!NoTicket])
        <3> USE DEF Kdc!held
        <3>1. ASSUME NEW u \in Users, NEW target \in Users,
                     NEW broken \in Kdc!Refusals \cup {"no"}, Kdc!Kpasswd(u, target, broken)
              PROVE  <2>3
            BY <3>1 DEF Kdc!Kpasswd
        <3>2. CASE \E broken \in BOOLEAN : Kdc!KpasswdStamp(broken) \/ Kdc!Bootstrap(broken)
            BY <3>2 DEF Kdc!KpasswdStamp, Kdc!Bootstrap
        <3>3. CASE \E stored, stamped, heard \in BOOLEAN : Kdc!KpasswdSecret(stored, stamped, heard)
            BY <3>3 DEF Kdc!KpasswdSecret
        <3>4. CASE \E a \in Kdc!Accounts : Kdc!Reset(a) \/ Kdc!Toggle(a)
            BY <3>4 DEF Kdc!Reset, Kdc!Toggle
        <3>5. CASE \E u \in Users : Kdc!Delete(u)
            BY <3>5 DEF Kdc!Delete
        <3>6. QED
            BY <1>4, <3>1, <3>2, <3>3, <3>4, <3>5 DEF Kdc!ChangesPassword, Kdc!Administers
    <2>4. \A n : KdcLasts(Kdc!NoTicket, n, key', renewed')
        BY DEF KdcLasts
    <2>5. QED
        BY <1>0, <2>2, <2>3, <2>4 DEF KdcHeldLast
<1>5. CASE UNCHANGED kdcVars
    BY <1>0, <1>5 DEF kdcVars, KdcHeldLast
<1>6. QED
    BY <1>3, <1>4, <1>5 DEF Kdc!Next

LEMMA KdcTicketsStart == Kdc!Init => Kdc!TicketsLast
BY DEF Kdc!Init, Kdc!TicketsLast

LEMMA KdcStep ==
    ASSUME KdcIInv, Kdc!Next \/ UNCHANGED kdcVars
    PROVE  KdcIInv'
<1>1. CASE UNCHANGED kdcVars
    BY <1>1 DEF kdcVars, KdcIInv, Kdc!TypeOK, KdcJob, KdcKeys
<1>. QED
    BY <1>1, KdcAsks, KdcChangesPassword, KdcAdministers DEF Kdc!Next

LEMMA KdcKeysFollow == KdcIInv => Kdc!KeysFollow
BY DEF KdcIInv, KdcKeys, Kdc!KeysFollow

\* What the KDC answers depends on the rows alone.
LEMMA KdcServes == Kdc!ServedAfresh
<1> DEFINE usable(offer) == Kdc!Wanted(offer) # {} \/ offer = <<>>
<1> SUFFICES ASSUME NEW u \in Users, NEW s \in Kdc!Targets, NEW offer \in EtypeOffers,
                    NEW proof \in Kdc!Hinted(offer)
             PROVE  LET ticket == Kdc!Afresh(u, s, offer, proof) IN
                    IF Kdc!InOrder(u) /\ Kdc!InOrder(s) /\ Kdc!HasKeys(Kdc!Krbtgt)
                       /\ usable(offer)
                    THEN /\ Kdc!Accepts(u, ticket, s)
                         /\ offer = <<>> \/ \E n \in DOMAIN offer : offer[n] = ticket.etype
                    ELSE ticket = Kdc!NoTicket
    BY DEF Kdc!ServedAfresh
<1> DEFINE e == Kdc!ReplyEtype(offer, proof)
           granting == Kdc!AsReply(u, key[u], offer, proof)
           ticket == Kdc!TgsReply(u, granting, s, offer)
<1>1. ticket = Kdc!Afresh(u, s, offer, proof)
    BY DEF Kdc!Afresh
<1>2. Kdc!AccountOf(u) = u /\ Kdc!AccountOf(Kdc!Krbtgt) = Kdc!Krbtgt
    BY KdcAccounts DEF Kdc!AccountOf, Kdc!Krbtgt, Kdc!ChangePw
<1>3. ~Kdc!Opens(Kdc!NoTicket, Kdc!Krbtgt)
    BY DEF Kdc!NoTicket, Kdc!Opens, Kdc!Etypes
<1>4. e # 0 => e \in Kdc!Etypes /\ usable(offer)
    BY KdcFirstWanted DEF Kdc!ReplyEtype, Kdc!Hinted
<1>5. usable(offer) => e # 0
    BY KdcFirstWanted DEF Kdc!ReplyEtype, Kdc!Hinted, Kdc!Etypes
<1>6. Kdc!ServiceEtype(offer) \in Kdc!Etypes
      /\ (usable(offer) /\ offer # <<>> =>
             \E n \in DOMAIN offer : offer[n] = Kdc!ServiceEtype(offer))
    BY KdcFirstWanted DEF Kdc!ServiceEtype, Kdc!Etypes, Kdc!Stored
<1> HIDE DEF usable, e
<1>7. CASE Kdc!InOrder(u) /\ Kdc!InOrder(s) /\ Kdc!HasKeys(Kdc!Krbtgt) /\ usable(offer)
    <2>1. granting = Kdc!Sealed(Kdc!Krbtgt, e)
        BY <1>2, <1>5, <1>7 DEF Kdc!AsReply, Kdc!InOrder, e
    <2>2. Kdc!Opens(granting, Kdc!Krbtgt)
        BY <1>2, <1>4, <1>5, <1>7, <2>1 DEF Kdc!Opens, Kdc!Sealed, Kdc!HasKeys
    <2>3. ticket = Kdc!Sealed(s, Kdc!ServiceEtype(offer))
        BY <1>2, <1>7, <2>2 DEF Kdc!TgsReply, Kdc!InOrder
    <2>4. Kdc!Opens(ticket, s) /\ ticket.etype = Kdc!ServiceEtype(offer)
        BY <1>6, <1>7, <2>3 DEF Kdc!Opens, Kdc!Sealed, Kdc!InOrder, Kdc!HasKeys
    <2> HIDE DEF ticket
    <2>5. Kdc!Accepts(u, ticket, s)
        BY <1>7, <2>4 DEF Kdc!Accepts, Kdc!InOrder
    <2>6. QED
        BY <1>1, <1>6, <1>7, <2>4, <2>5
<1>8. CASE ~(Kdc!InOrder(u) /\ Kdc!HasKeys(Kdc!Krbtgt) /\ usable(offer))
    <2>1. granting = Kdc!NoTicket
        BY <1>2, <1>4, <1>8 DEF Kdc!AsReply, Kdc!InOrder, e
    <2>2. ticket = Kdc!NoTicket
        BY <1>3, <2>1 DEF Kdc!TgsReply
    <2>3. QED
        BY <1>1, <1>8, <2>2
<1>9. CASE ~Kdc!InOrder(s)
    <2>1. ticket = Kdc!NoTicket
        BY <1>9 DEF Kdc!TgsReply, Kdc!InOrder
    <2>2. QED
        BY <1>1, <1>9, <2>1
<1>. QED
    BY <1>7, <1>8, <1>9

-----------------------------------------------------------------------------
(***************************************************************************)
(* SMB: a pipe without bytes of others holds what its one client is owed,  *)
(* and is empty when nobody has it; every part of the overlay that was     *)
(* written has been written last what it holds; a dialect that was agreed  *)
(* is the one that would be chosen again.                                  *)
(***************************************************************************)
SmbBytes == Seq(Smb!Units)

SmbDialectNumbers == {Smb!ChooseDialect(o) : o \in DialectOffers} \cup {0}

SmbStates ==
    [at : {"away", "negotiated", "ready"}, offered : DialectOffers \cup {<<>>},
     dialect : SmbDialectNumbers, pipe : Pipes \cup {"none"}, sent : SmbBytes, due : SmbBytes]

\* Smb!TypeOK, and what it leaves out of sequences and of clients.
SmbTypes ==
    /\ pending \in [Pipes -> SmbBytes] /\ replies \in [Pipes -> SmbBytes]
    /\ overlay \in Seq(0 .. MaxWrites) /\ Len(overlay) <= 2
    /\ signer \in Clients \cup {Smb!NoClient}
    /\ smbClient \in [Clients -> SmbStates]
    /\ mixed \in [Pipes -> BOOLEAN]
    /\ written \in [Smb!Places -> 0 .. MaxWrites]
    /\ smbRequests \in 0 .. SmbRequests /\ writes \in 0 .. MaxWrites
    /\ smbFaults \in 0 .. SmbFaults

\* A client that has not finished a request has sent the beginning of one.
SmbSent ==
    \A c \in Clients : smbClient[c].sent # <<>> =>
        \E r \in 1 .. SmbRequests : smbClient[c].sent = SubSeq(Smb!Request(r), 1, 1)

SmbReady == \A c \in Clients : smbClient[c].at # "ready" => smbClient[c].pipe = "none"

\* A pipe that two clients have is mixed, and one that nobody has is clean.
SmbApart ==
    \A c, d \in Clients : c # d /\ smbClient[c].pipe = smbClient[d].pipe =>
        smbClient[c].pipe = "none" \/ mixed[smbClient[c].pipe]
SmbClean ==
    \A p \in Pipes : ~mixed[p] /\ (\A c \in Clients : smbClient[c].pipe # p) =>
        pending[p] = <<>> /\ replies[p] = <<>>

SmbFiles ==
    \A n \in Smb!Places : written[n] # 0 => n <= Len(overlay) /\ overlay[n] = written[n]

SmbDialects ==
    \A c \in Clients : smbClient[c].at # "away" =>
        /\ smbClient[c].dialect = Smb!ChooseDialect(smbClient[c].offered)
        /\ smbClient[c].dialect # 0

SmbPipes == SmbSent /\ SmbReady /\ SmbApart /\ SmbClean /\ Smb!OwnReplies

SmbIInv == SmbTypes /\ SmbPipes /\ SmbFiles /\ SmbDialects

LEMMA SmbStarts == Smb!Init => SmbIInv
<1> SUFFICES ASSUME Smb!Init PROVE SmbIInv
    OBVIOUS
<1> USE DEF Smb!Init, Smb!Away, Smb!Skeleton
<1>1. <<>> \in SmbBytes /\ <<>> \in Seq(0 .. MaxWrites) /\ Len(<<>>) = 0
    BY DEF SmbBytes
<1>2. SmbTypes
    BY <1>1, Bounds DEF SmbTypes, SmbStates, SmbDialectNumbers
<1>3. SmbPipes
    BY DEF SmbPipes, SmbSent, SmbReady, SmbApart, SmbClean, Smb!OwnReplies
<1>4. SmbFiles
    BY DEF SmbFiles
<1>5. SmbDialects
    BY DEF SmbDialects
<1>. QED
    BY <1>2, <1>3, <1>4, <1>5 DEF SmbIInv

LEMMA SmbTypeCorrect == SmbTypes => Smb!TypeOK
<1> SUFFICES ASSUME SmbTypes PROVE Smb!TypeOK
    OBVIOUS
<1>1. ASSUME NEW p \in Pipes
      PROVE  /\ \A n \in 1 .. Len(pending[p]) : pending[p][n] \in Smb!Units
             /\ \A n \in 1 .. Len(replies[p]) : replies[p][n] \in Smb!Units
    <2>1. pending[p] \in Seq(Smb!Units) /\ replies[p] \in Seq(Smb!Units)
        BY DEF SmbTypes, SmbBytes
    <2>2. QED
        BY <2>1, ElementOfSeq
<1>2. Len(overlay) \in {0} \cup Smb!Places
    <2>1. Len(overlay) \in Nat /\ Len(overlay) <= 2
        BY LenProperties DEF SmbTypes
    <2>2. Len(overlay) = 0 \/ Len(overlay) \in 1 .. 2
        BY SMTT(30), <2>1
    <2>3. QED
        BY <2>2 DEF Smb!Places
<1>. QED
    BY <1>1, <1>2 DEF SmbTypes, SmbStates, Smb!TypeOK

LEMMA SmbFields ==
    ASSUME SmbTypes, NEW c \in Clients
    PROVE  /\ smbClient[c] \in SmbStates
           /\ smbClient[c].at \in {"away", "negotiated", "ready"}
           /\ smbClient[c].pipe \in Pipes \cup {"none"}
           /\ smbClient[c].sent \in SmbBytes /\ smbClient[c].due \in SmbBytes
<1>1. smbClient[c] \in SmbStates
    BY DEF SmbTypes
<1>. QED
    BY <1>1 DEF SmbStates

\* What becomes of a client of which some fields change.
LEMMA SmbChanged ==
    ASSUME SmbTypes, NEW c \in Clients, NEW new \in SmbStates,
           NEW all, all = [smbClient EXCEPT ![c] = new]
    PROVE  /\ all \in [Clients -> SmbStates]
           /\ all[c] = new
           /\ \A d \in Clients \ {c} : all[d] = smbClient[d]
BY DEF SmbTypes

\* A request is two units, and any number of them that it begins with is
\* completed by those that follow.
LEMMA SmbRequest ==
    ASSUME NEW r \in 1 .. SmbRequests
    PROVE  /\ Smb!Request(r) \in SmbBytes /\ Len(Smb!Request(r)) = 2
           /\ Smb!Request(r)[1] = <<r, 1>>
           /\ \A n \in 0 .. 2 : SubSeq(Smb!Request(r), 1, n) \in SmbBytes
                /\ Len(SubSeq(Smb!Request(r), 1, n)) = n
                /\ n > 0 => SubSeq(Smb!Request(r), 1, n)[1] = <<r, 1>>
           /\ \A n, m \in 0 .. 2 : n <= m =>
                SubSeq(Smb!Request(r), 1, n) \o SubSeq(Smb!Request(r), n + 1, m)
                    = SubSeq(Smb!Request(r), 1, m)
           /\ SubSeq(Smb!Request(r), 1, 2) = Smb!Request(r)
           /\ SubSeq(Smb!Request(r), 1, 0) = <<>>
           /\ \A n \in 1 .. 3, m \in 0 .. 2 : SubSeq(Smb!Request(r), n, m) \in SmbBytes
<1> USE DEF SmbBytes
<1> DEFINE s == Smb!Request(r)
<1>1. s \in Seq(Smb!Units) /\ Len(s) = 2 /\ s[1] = <<r, 1>>
    BY Bounds DEF Smb!Request, Smb!Units
<1> HIDE DEF s
<1>2. ASSUME NEW n \in 1 .. 3, NEW m \in 0 .. 2
      PROVE  /\ SubSeq(s, n, m) \in Seq(Smb!Units)
             /\ Len(SubSeq(s, n, m)) = IF n <= m THEN m - n + 1 ELSE 0
             /\ \A x \in 1 .. m - n + 1 : SubSeq(s, n, m)[x] = s[n + x - 1]
    <2>1. \A x \in n .. m : s[x] \in Smb!Units
        BY SMTT(30), <1>1, ElementOfSeq
    <2>2. QED
        BY <2>1, SubSeqProperties
<1>3. ASSUME NEW n \in 0 .. 2, NEW m \in 0 .. 2, n <= m
      PROVE  SubSeq(s, 1, n) \o SubSeq(s, n + 1, m) = SubSeq(s, 1, m)
    <2>1. /\ 1 \in 1 .. Len(s) + 1 /\ n \in 1 - 1 .. Len(s) /\ m \in n .. Len(s)
        BY <1>1, <1>3
    <2>2. QED
        BY <1>1, <2>1, ConcatAdjacentSubSeq
<1>4. SubSeq(s, 1, 2) = s
    BY <1>1, SubSeqFull
<1>5. SubSeq(s, 1, 0) = <<>>
    BY SubSeqEmpty
<1>6. ASSUME NEW n \in 0 .. 2
      PROVE  /\ SubSeq(s, 1, n) \in Seq(Smb!Units) /\ Len(SubSeq(s, 1, n)) = n
             /\ n > 0 => SubSeq(s, 1, n)[1] = <<r, 1>>
    BY <1>1, <1>2
<1>. QED
    BY <1>1, <1>2, <1>3, <1>4, <1>5, <1>6 DEF s

\* What a client does to its pipe: no other pipe changes, and no other client.
SmbOnly(c, p) ==
    /\ pending' = [pending EXCEPT ![p] = pending'[p]]
    /\ replies' = [replies EXCEPT ![p] = replies'[p]]
    /\ mixed' = [mixed EXCEPT ![p] = mixed'[p]]
    /\ \A d \in Clients \ {c} : smbClient'[d] = smbClient[d]

\* A client that keeps its pipe to itself need only keep what it is owed there.
LEMMA SmbKeepsPipe ==
    ASSUME SmbTypes, SmbPipes, SmbTypes', NEW c \in Clients, NEW p \in Pipes,
           smbClient[c].pipe = p, smbClient'[c].pipe = p, smbClient'[c].at = smbClient[c].at,
           SmbOnly(c, p), mixed' = mixed, SmbSent',
           ~mixed[p] => replies'[p] = smbClient'[c].due /\ pending'[p] = smbClient'[c].sent
    PROVE  SmbPipes'
<1> USE DEF SmbPipes, SmbOnly
<1>1. \A d \in Clients : smbClient'[d].pipe = smbClient[d].pipe
                         /\ smbClient'[d].at = smbClient[d].at
    OBVIOUS
<1>2. SmbReady' /\ SmbApart'
    BY <1>1 DEF SmbReady, SmbApart
<1>3. SmbClean'
    <2>1. SUFFICES ASSUME NEW q \in Pipes, ~mixed[q], \A d \in Clients : smbClient[d].pipe # q
                   PROVE  pending'[q] = <<>> /\ replies'[q] = <<>>
        BY <1>1 DEF SmbClean
    <2>2. q # p /\ pending'[q] = pending[q] /\ replies'[q] = replies[q]
        BY <2>1 DEF SmbTypes
    <2>3. QED
        BY <2>1, <2>2 DEF SmbClean
<1>4. Smb!OwnReplies'
    <2>1. SUFFICES ASSUME NEW d \in Clients, smbClient'[d].pipe # "none",
                          ~mixed[smbClient'[d].pipe]
                   PROVE  /\ replies'[smbClient'[d].pipe] = smbClient'[d].due
                          /\ pending'[smbClient'[d].pipe] = smbClient'[d].sent
        BY DEF Smb!OwnReplies
    <2>2. CASE d = c
        BY <2>1, <2>2
    <2>3. CASE d # c
        <3>1. smbClient'[d] = smbClient[d] /\ smbClient[d].pipe # p
            BY <2>1, <2>3 DEF SmbApart
        <3>2. /\ pending'[smbClient[d].pipe] = pending[smbClient[d].pipe]
              /\ replies'[smbClient[d].pipe] = replies[smbClient[d].pipe]
            BY <2>1, <3>1, SmbFields DEF SmbTypes
        <3>3. QED
            BY <2>1, <3>1, <3>2 DEF Smb!OwnReplies
    <2>4. QED
        BY <2>2, <2>3
<1>. QED
    BY <1>2, <1>3, <1>4

\* What changes no pipe, and of clients at most those that have none.
LEMMA SmbKeepsPipes ==
    ASSUME SmbPipes, UNCHANGED <<pending, replies, mixed>>, SmbSent', SmbReady',
           \A c \in Clients : smbClient'[c].pipe = smbClient[c].pipe
                /\ (smbClient[c].pipe # "none" =>
                        smbClient'[c].sent = smbClient[c].sent
                        /\ smbClient'[c].due = smbClient[c].due)
    PROVE  SmbPipes'
<1> USE DEF SmbPipes
<1>1. SmbApart'
    BY DEF SmbApart
<1>2. SmbClean'
    BY DEF SmbClean
<1>3. Smb!OwnReplies'
    BY DEF Smb!OwnReplies
<1>. QED
    BY <1>1, <1>2, <1>3

LEMMA SmbNegotiate ==
    ASSUME SmbIInv, NEW c \in Clients, Smb!Negotiate(c)
    PROVE  SmbIInv'
<1> USE DEF SmbIInv, Smb!Negotiate, Smb!caches, Smb!files
<1>1. PICK offered \in DialectOffers :
        /\ Smb!ChooseDialect(offered) # 0
        /\ smbClient' = [smbClient EXCEPT ![c] = [Smb!Away EXCEPT !.at = "negotiated",
                !.offered = offered, !.dialect = Smb!ChooseDialect(offered)]]
    OBVIOUS
<1> DEFINE new == [Smb!Away EXCEPT !.at = "negotiated", !.offered = offered,
                               !.dialect = Smb!ChooseDialect(offered)]
<1>2. /\ new.at = "negotiated" /\ new.offered = offered
      /\ new.dialect = Smb!ChooseDialect(offered)
      /\ new.pipe = "none" /\ new.sent = <<>> /\ new.due = <<>>
      /\ new \in SmbStates
    <2>1. <<>> \in SmbBytes
        BY DEF SmbBytes
    <2>2. QED
        BY <2>1 DEF Smb!Away, SmbStates, SmbDialectNumbers
<1> HIDE DEF new
<1>3. smbClient' = [smbClient EXCEPT ![c] = new]
    BY <1>1 DEF new
<1>4. UNCHANGED <<pending, replies, overlay, written, writes, signer, mixed, smbRequests, smbFaults>>
    OBVIOUS
<1>6. smbClient[c].pipe = "none"
    BY DEF SmbPipes, SmbReady
<1> HIDE DEF Smb!Negotiate
<1>7. SmbTypes'
    BY <1>2, <1>3, <1>4 DEF SmbTypes
<1>8. SmbPipes'
    <2>1. SmbSent' /\ SmbReady'
        BY <1>2, <1>3 DEF SmbTypes, SmbPipes, SmbSent, SmbReady
    <2>2. QED
        BY <1>2, <1>3, <1>4, <1>6, <2>1, SmbKeepsPipes DEF SmbTypes
<1>9. SmbFiles' /\ SmbDialects'
    BY <1>1, <1>2, <1>3, <1>4 DEF SmbTypes, SmbFiles, SmbDialects
<1>. QED
    BY <1>7, <1>8, <1>9

LEMMA SmbSessionSetup ==
    ASSUME SmbIInv, NEW c \in Clients, Smb!SessionSetup(c)
    PROVE  SmbIInv'
<1> USE DEF SmbIInv, Smb!SessionSetup, Smb!caches, Smb!files
<1>1. /\ UNCHANGED <<pending, replies, overlay, written, writes, mixed, smbRequests, smbFaults>>
      /\ signer' \in Clients \cup {Smb!NoClient}
      /\ smbClient[c].at = "negotiated"
      /\ smbClient' = smbClient \/ smbClient' = [smbClient EXCEPT ![c].at = "ready"]
    BY DEF SmbTypes
<1> HIDE DEF Smb!SessionSetup
<1> DEFINE new == [smbClient[c] EXCEPT !.at = "ready"]
<1>2. new \in SmbStates /\ new.at = "ready" /\ new.pipe = smbClient[c].pipe
      /\ new.sent = smbClient[c].sent /\ new.due = smbClient[c].due
      /\ new.offered = smbClient[c].offered /\ new.dialect = smbClient[c].dialect
    BY SmbFields DEF SmbStates
<1>7. smbClient' = smbClient \/ smbClient' = [smbClient EXCEPT ![c] = new]
    BY <1>1
<1> HIDE DEF new
<1>8. smbClient' = smbClient \/
      /\ smbClient' \in [Clients -> SmbStates]
      /\ smbClient'[c] = new /\ \A d \in Clients \ {c} : smbClient'[d] = smbClient[d]
    BY <1>2, <1>7, SmbChanged
<1>3. SmbTypes'
    BY <1>1, <1>8 DEF SmbTypes
<1>4. \A d \in Clients :
        /\ smbClient'[d].pipe = smbClient[d].pipe
        /\ smbClient'[d].sent = smbClient[d].sent /\ smbClient'[d].due = smbClient[d].due
        /\ smbClient'[d].offered = smbClient[d].offered
        /\ smbClient'[d].dialect = smbClient[d].dialect
        /\ \/ smbClient'[d].at = smbClient[d].at
           \/ smbClient'[d].at = "ready" /\ smbClient[d].at = "negotiated"
    BY <1>1, <1>2, <1>8
<1>5. SmbPipes'
    <2>1. SmbSent' /\ SmbReady'
        BY <1>4 DEF SmbPipes, SmbSent, SmbReady
    <2>2. QED
        BY <1>1, <1>4, <2>1, SmbKeepsPipes
<1>6. SmbFiles' /\ SmbDialects'
    BY <1>1, <1>4 DEF SmbFiles, SmbDialects
<1>. QED
    BY <1>3, <1>5, <1>6

LEMMA SmbCreate ==
    ASSUME SmbIInv, NEW c \in Clients, NEW p \in Pipes, Smb!Create(c, p)
    PROVE  SmbIInv'
<1> USE DEF SmbIInv, Smb!Create, Smb!caches, Smb!files
<1>1. /\ UNCHANGED <<pending, replies, overlay, written, writes, signer, smbRequests, smbFaults>>
      /\ smbClient[c].at = "ready" /\ smbClient[c].pipe = "none"
      /\ smbClient' = [smbClient EXCEPT ![c].pipe = p, ![c].sent = <<>>, ![c].due = <<>>]
      /\ mixed' = [mixed EXCEPT ![p] = @ \/ Smb!OpenBy(p) # {}]
    OBVIOUS
<1> HIDE DEF Smb!Create
<1>2. <<>> \in SmbBytes /\ p # "none"
    BY DaemonsAssumption DEF SmbBytes, DaemonsAssumption
<1> DEFINE new == [smbClient[c] EXCEPT !.pipe = p, !.sent = <<>>, !.due = <<>>]
<1>12. new \in SmbStates /\ new.at = smbClient[c].at /\ new.pipe = p
       /\ new.sent = <<>> /\ new.due = <<>>
       /\ new.offered = smbClient[c].offered /\ new.dialect = smbClient[c].dialect
    BY <1>2, SmbFields DEF SmbStates
<1>13. smbClient' = [smbClient EXCEPT ![c] = new]
    BY <1>1
<1> HIDE DEF new
<1>3. /\ smbClient' \in [Clients -> SmbStates]
      /\ smbClient'[c] = new
      /\ \A d \in Clients \ {c} : smbClient'[d] = smbClient[d]
    BY <1>12, <1>13 DEF SmbTypes
<1>4. /\ smbClient'[c].pipe = p /\ smbClient'[c].sent = <<>> /\ smbClient'[c].due = <<>>
      /\ smbClient'[c].at = "ready" /\ smbClient'[c].dialect = smbClient[c].dialect
      /\ smbClient'[c].offered = smbClient[c].offered
    BY <1>1, <1>3, <1>12
<1>5. SmbTypes'
    <2>1. mixed' \in [Pipes -> BOOLEAN]
        BY <1>1 DEF SmbTypes
    <2>2. QED
        BY <1>1, <1>3, <2>1 DEF SmbTypes
<1>6. /\ \A q \in Pipes \ {p} : mixed'[q] = mixed[q]
      /\ ~mixed'[p] => ~mixed[p] /\ \A d \in Clients : smbClient[d].pipe # p
    BY <1>1 DEF SmbTypes, Smb!OpenBy
<1>7. SmbSent' /\ SmbReady'
    BY <1>3, <1>4 DEF SmbPipes, SmbSent, SmbReady
<1>8. SmbApart'
    <2>1. SUFFICES ASSUME NEW d \in Clients, NEW e \in Clients, d # e,
                          smbClient'[d].pipe = smbClient'[e].pipe,
                          smbClient'[d].pipe # "none", ~mixed'[smbClient'[d].pipe]
                   PROVE  FALSE
        BY DEF SmbApart
    <2>2. smbClient'[d].pipe \in Pipes
        BY <1>3, <2>1 DEF SmbStates
    <2>3. CASE smbClient'[d].pipe = p
        BY <1>3, <1>6, <2>1, <2>3
    <2>4. CASE smbClient'[d].pipe # p
        BY <1>3, <1>4, <1>6, <2>1, <2>2, <2>4 DEF SmbPipes, SmbApart
    <2>5. QED
        BY <2>3, <2>4
<1>9. SmbClean'
    <2>1. SUFFICES ASSUME NEW q \in Pipes, ~mixed'[q], \A d \in Clients : smbClient'[d].pipe # q
                   PROVE  pending[q] = <<>> /\ replies[q] = <<>>
        BY <1>1 DEF SmbClean
    <2>2. q # p /\ ~mixed[q]
        BY <1>4, <1>6, <2>1
    <2>3. \A d \in Clients : smbClient[d].pipe # q
        BY <1>1, <1>3, <2>1, DaemonsAssumption DEF DaemonsAssumption
    <2>4. QED
        BY <2>2, <2>3 DEF SmbPipes, SmbClean
<1>10. Smb!OwnReplies'
    <2>1. SUFFICES ASSUME NEW d \in Clients, smbClient'[d].pipe # "none",
                          ~mixed'[smbClient'[d].pipe]
                   PROVE  /\ replies[smbClient'[d].pipe] = smbClient'[d].due
                          /\ pending[smbClient'[d].pipe] = smbClient'[d].sent
        BY <1>1 DEF Smb!OwnReplies
    <2>2. CASE d = c
        BY <1>4, <1>6, <2>1, <2>2 DEF SmbPipes, SmbClean
    <2>3. CASE d # c
        <3>1. smbClient'[d] = smbClient[d] /\ smbClient[d].pipe \in Pipes
            BY <1>3, <2>1, <2>3, SmbFields
        <3>2. smbClient[d].pipe # p /\ ~mixed[smbClient[d].pipe]
            BY <1>6, <2>1, <3>1
        <3>3. QED
            BY <2>1, <3>1, <3>2 DEF SmbPipes, Smb!OwnReplies
    <2>4. QED
        BY <2>2, <2>3
<1>11. SmbFiles' /\ SmbDialects'
    BY <1>1, <1>3, <1>4 DEF SmbFiles, SmbDialects
<1>. QED
    BY <1>5, <1>7, <1>8, <1>9, <1>10, <1>11 DEF SmbPipes

LEMMA SmbPart ==
    ASSUME NEW s \in SmbBytes, NEW m \in Nat \ {0}, NEW n \in 0 .. Len(s)
    PROVE  /\ SubSeq(s, m, n) \in SmbBytes
           /\ Len(SubSeq(s, m, n)) = IF m <= n THEN n - m + 1 ELSE 0
<1>1. \A x \in m .. n : s[x] \in Smb!Units
    BY ElementOfSeq DEF SmbBytes
<1>. QED
    BY <1>1, SubSeqProperties, LenProperties DEF SmbBytes

\* Whatever is in a pipe, what a request leaves there are units.
LEMMA SmbTaken ==
    ASSUME NEW bytes \in SmbBytes, bytes # <<>>, Len(bytes) >= Smb!ExpectedSize(bytes)
    PROVE  /\ Smb!Rest(bytes) \in SmbBytes
           /\ Smb!Reply(SubSeq(bytes, 1, Smb!ExpectedSize(bytes))) \in SmbBytes
<1>1. Smb!ExpectedSize(bytes) \in Nat /\ Len(bytes) \in Nat
    BY LenProperties DEF Smb!ExpectedSize, SmbBytes
<1>2. Smb!Rest(bytes) \in SmbBytes
    BY <1>1, SmbPart DEF Smb!Rest
<1> DEFINE taken == SubSeq(bytes, 1, Smb!ExpectedSize(bytes))
<1>3. taken \in SmbBytes
    BY <1>1, SmbPart
<1>4. <<<<0, 1>>>> \in SmbBytes
    BY Bounds DEF SmbBytes, Smb!Units
<1> HIDE DEF taken
<1>5. Smb!Reply(taken) \in SmbBytes
    BY <1>3, <1>4 DEF Smb!Reply
<1>. QED
    BY <1>2, <1>5 DEF taken

LEMMA SmbWritePipe ==
    ASSUME SmbIInv, NEW c \in Clients, Smb!WritePipe(c)
    PROVE  SmbIInv'
<1> USE DEF SmbIInv
<1> DEFINE p == smbClient[c].pipe
           sent == smbClient[c].sent
           r == IF sent = <<>> THEN smbRequests + 1 ELSE sent[1][1]
           data(upto) == SubSeq(Smb!Request(r), Len(sent) + 1, upto)
           bytes(upto) == pending[p] \o data(upto)
           complete(upto) == Len(bytes(upto)) >= Smb!ExpectedSize(bytes(upto))
           new(upto) == [smbClient[c] EXCEPT
               !.sent = IF upto = 2 THEN <<>> ELSE sent \o data(upto),
               !.due = IF upto = 2 THEN Smb!Request(r) ELSE <<>>]
<1>1. PICK upto \in (Len(sent) + 1) .. 2 :
        /\ pending' = [pending EXCEPT ![p] =
                          IF complete(upto) THEN Smb!Rest(bytes(upto)) ELSE bytes(upto)]
        /\ replies' = IF ~complete(upto) THEN replies
                      ELSE [replies EXCEPT ![p] =
                              @ \o Smb!Reply(SubSeq(bytes(upto), 1, Smb!ExpectedSize(bytes(upto))))]
        /\ smbClient' = [smbClient EXCEPT
               ![c].sent = IF upto = 2 THEN <<>> ELSE @ \o data(upto),
               ![c].due = IF upto = 2 THEN Smb!Request(r) ELSE <<>>]
    BY DEF Smb!WritePipe
<1>2. /\ p # "none" /\ smbClient[c].due = <<>> /\ r <= SmbRequests
      /\ smbRequests' = IF sent = <<>> THEN r ELSE smbRequests
      /\ UNCHANGED <<overlay, written, writes, signer, mixed, smbFaults>>
    BY DEF Smb!WritePipe, Smb!files
<1>16. smbClient' = [smbClient EXCEPT ![c] = new(upto)]
    <2> HIDE DEF data, r
    <2>1. QED
        BY <1>1
<1> HIDE DEF new
<1>3. p \in Pipes /\ sent \in SmbBytes /\ smbClient[c] \in SmbStates
    BY <1>2, SmbFields
<1>4. /\ r \in 1 .. SmbRequests /\ Len(sent) \in {0, 1}
      /\ sent = SubSeq(Smb!Request(r), 1, Len(sent))
    <2>1. CASE sent = <<>>
        <3>1. r \in 1 .. SmbRequests /\ Len(sent) = 0
            BY <1>2, <2>1, Bounds DEF SmbTypes
        <3>2. QED
            BY <2>1, <3>1, SmbRequest
    <2>2. CASE sent # <<>>
        <3>1. PICK n \in 1 .. SmbRequests : sent = SubSeq(Smb!Request(n), 1, 1)
            BY <2>2 DEF SmbPipes, SmbSent
        <3>2. Len(sent) = 1 /\ sent[1] = <<n, 1>>
            BY <3>1, SmbRequest
        <3>3. QED
            BY <2>2, <3>1, <3>2
    <2>3. QED
        BY <2>1, <2>2
<1> HIDE DEF p, sent, r
<1>5. /\ upto \in 1 .. 2 /\ data(upto) \in SmbBytes /\ data(upto) # <<>>
      /\ sent \o data(upto) = SubSeq(Smb!Request(r), 1, upto)
    <2>1. upto \in 1 .. 2 /\ Len(sent) <= upto
        BY <1>1, <1>4
    <2>2. data(upto) \in SmbBytes
        BY <1>4, <2>1, SmbRequest
    <2>3. Len(data(upto)) > 0
        BY <1>1, <1>4, <2>1, SmbRequest, SmbPart
    <2>4. SubSeq(Smb!Request(r), 1, Len(sent)) \o SubSeq(Smb!Request(r), Len(sent) + 1, upto)
            = SubSeq(Smb!Request(r), 1, upto)
        <3>1. \A n, m \in 0 .. 2 : n <= m =>
                SubSeq(Smb!Request(r), 1, n) \o SubSeq(Smb!Request(r), n + 1, m)
                    = SubSeq(Smb!Request(r), 1, m)
            BY <1>4, SmbRequest
        <3> DEFINE k == Len(sent)
        <3>2. k \in 0 .. 2 /\ upto \in 0 .. 2 /\ k <= upto
            BY <1>4, <2>1
        <3> HIDE DEF k
        <3>3. SubSeq(Smb!Request(r), 1, k) \o SubSeq(Smb!Request(r), k + 1, upto)
                = SubSeq(Smb!Request(r), 1, upto)
            BY <3>1, <3>2
        <3>4. QED
            BY <3>3 DEF k
    <2>5. data(upto) # <<>>
        <3> HIDE DEF data
        <3>1. QED
            BY <2>3
    <2>6. QED
        BY <1>4, <2>1, <2>2, <2>4, <2>5
<1>6. bytes(upto) \in SmbBytes /\ bytes(upto) # <<>>
    <2>1. pending[p] \in SmbBytes
        BY <1>3 DEF SmbTypes
    <2>2. QED
        BY <1>5, <2>1, ConcatProperties, ConcatEqualIffEmpty DEF SmbBytes
<1>7. sent \o data(upto) \in SmbBytes /\ Smb!Request(r) \in SmbBytes /\ <<>> \in SmbBytes
    BY <1>4, <1>5, SmbRequest DEF SmbBytes
<1> HIDE DEF data
<1>8. /\ new(upto) \in SmbStates
      /\ new(upto).sent = IF upto = 2 THEN <<>> ELSE sent \o data(upto)
      /\ new(upto).due = IF upto = 2 THEN Smb!Request(r) ELSE <<>>
      /\ new(upto).pipe = p /\ new(upto).at = smbClient[c].at
      /\ new(upto).offered = smbClient[c].offered /\ new(upto).dialect = smbClient[c].dialect
    BY <1>3, <1>7 DEF SmbStates, new, p, sent
<1>9. smbClient' \in [Clients -> SmbStates] /\ smbClient'[c] = new(upto)
      /\ \A d \in Clients \ {c} : smbClient'[d] = smbClient[d]
    BY <1>8, <1>16 DEF SmbTypes
<1>10. SmbTypes'
    <2>1. replies[p] \in SmbBytes
        BY <1>3 DEF SmbTypes
    <2>2. CASE complete(upto)
        <3>1. replies[p] \o Smb!Reply(SubSeq(bytes(upto), 1, Smb!ExpectedSize(bytes(upto)))) \in SmbBytes
              /\ Smb!Rest(bytes(upto)) \in SmbBytes
            BY <1>6, <2>1, <2>2, SmbTaken, ConcatProperties DEF SmbBytes
        <3> HIDE DEF bytes, complete
        <3>2. pending' \in [Pipes -> SmbBytes] /\ replies' \in [Pipes -> SmbBytes]
            BY <1>1, <1>3, <2>2, <3>1 DEF SmbTypes
        <3>3. QED
            BY <1>2, <1>4, <1>9, <3>2, Bounds DEF SmbTypes
    <2>3. CASE ~complete(upto)
        <3> HIDE DEF bytes, complete
        <3>2. pending' \in [Pipes -> SmbBytes] /\ replies' \in [Pipes -> SmbBytes]
            BY <1>1, <1>3, <1>6, <2>3 DEF SmbTypes
        <3>3. QED
            BY <1>2, <1>4, <1>9, <3>2, Bounds DEF SmbTypes
    <2>4. QED
        BY <2>2, <2>3
\* In a pipe of its own, what is there is the request as far as it was sent.
<1>11. ASSUME ~mixed[p]
       PROVE  replies'[p] = smbClient'[c].due /\ pending'[p] = smbClient'[c].sent
    <2>1. pending[p] = sent /\ replies[p] = <<>>
        BY <1>2, <1>11 DEF SmbPipes, Smb!OwnReplies, p, sent
    <2> DEFINE b == SubSeq(Smb!Request(r), 1, upto)
    <2>2. bytes(upto) = b
        BY <1>5, <2>1
    <2>3. Smb!ExpectedSize(b) = 2 /\ Len(b) = upto
        <3>1. b # <<>> /\ b[1] = <<r, 1>> /\ Len(b) = upto
            BY <1>4, <1>5, <1>6, <2>2, SmbRequest
        <3>2. QED
            BY <3>1 DEF Smb!ExpectedSize
    <2>4. CASE upto = 2
        <3>1. b = Smb!Request(r)
            BY <1>4, <2>4, SmbRequest
        <3>2. SubSeq(b, 1, 2) = b /\ SubSeq(b, 3, 2) = <<>>
            <4> HIDE DEF b
            <4>1. QED
                BY <1>4, <3>1, SmbRequest, SubSeqEmpty
        <3>3. Smb!Rest(b) = <<>> /\ Smb!Reply(SubSeq(b, 1, 2)) = b
            BY <1>4, <2>3, <2>4, <3>1, <3>2 DEF Smb!Rest, Smb!Reply
        <3>4. <<>> \o b = b
            BY <1>7, <3>1, ConcatEmptySeq DEF SmbBytes
        <3> HIDE DEF b
        <3>5. pending'[p] = <<>> /\ replies'[p] = b
            BY <1>1, <1>3, <2>1, <2>2, <2>3, <2>4, <3>3, <3>4 DEF SmbTypes
        <3>6. QED
            BY <1>8, <1>9, <2>4, <3>1, <3>5
    <2>5. CASE upto = 1
        <3>1. pending'[p] = b /\ replies'[p] = <<>>
            <4> HIDE DEF b
            <4>1. QED
                BY <1>1, <1>3, <2>1, <2>2, <2>3, <2>5 DEF SmbTypes
        <3>2. QED
            BY <1>5, <1>8, <1>9, <2>5, <3>1
    <2>6. QED
        BY <1>5, <2>4, <2>5
<1>12. SmbSent'
    <2>1. new(upto).sent # <<>> => new(upto).sent = SubSeq(Smb!Request(r), 1, 1)
        BY <1>5, <1>8
    <2>2. QED
        BY <1>4, <1>9, <2>1 DEF SmbPipes, SmbSent
<1>13. SmbOnly(c, p)
    <2> HIDE DEF bytes, complete
    <2>1. QED
        BY <1>1, <1>2, <1>3, <1>9 DEF SmbOnly, SmbTypes
<1>14. SmbPipes'
    BY <1>2, <1>3, <1>8, <1>9, <1>10, <1>11, <1>12, <1>13, SmbKeepsPipe DEF p
<1>15. SmbFiles' /\ SmbDialects'
    BY <1>2, <1>8, <1>9 DEF SmbFiles, SmbDialects
<1>. QED
    BY <1>10, <1>14, <1>15

LEMMA SmbTransceive ==
    ASSUME SmbIInv, NEW c \in Clients, Smb!Transceive(c)
    PROVE  SmbIInv'
<1> USE DEF SmbIInv
<1> DEFINE p == smbClient[c].pipe
           r == smbRequests + 1
           rest(limit) == SubSeq(Smb!Request(r), limit + 1, 2)
           new(limit) == [smbClient[c] EXCEPT !.due = rest(limit)]
<1>1. PICK limit \in 1 .. 2 :
        /\ replies' = [replies EXCEPT ![p] = @ \o rest(limit)]
        /\ smbClient' = [smbClient EXCEPT ![c].due = rest(limit)]
    BY DEF Smb!Transceive
<1>2. /\ p # "none" /\ smbClient[c].due = <<>> /\ smbClient[c].sent = <<>> /\ r <= SmbRequests
      /\ smbRequests' = r
      /\ UNCHANGED <<pending, overlay, written, writes, signer, mixed, smbFaults>>
    BY DEF Smb!Transceive, Smb!files
<1>3. smbClient' = [smbClient EXCEPT ![c] = new(limit)]
    <2> HIDE DEF rest
    <2>1. QED
        BY <1>1
<1>4. p \in Pipes /\ smbClient[c] \in SmbStates
    BY <1>2, SmbFields
<1>5. r \in 1 .. SmbRequests
    BY <1>2, Bounds DEF SmbTypes
<1>6. rest(limit) \in SmbBytes
    BY <1>5, SmbRequest
<1> HIDE DEF rest
<1>7. /\ new(limit) \in SmbStates /\ new(limit).due = rest(limit)
      /\ new(limit).sent = <<>> /\ new(limit).pipe = p /\ new(limit).at = smbClient[c].at
      /\ new(limit).offered = smbClient[c].offered /\ new(limit).dialect = smbClient[c].dialect
    BY <1>2, <1>4, <1>6 DEF SmbStates
<1> HIDE DEF new, p
<1>8. smbClient' \in [Clients -> SmbStates] /\ smbClient'[c] = new(limit)
      /\ \A d \in Clients \ {c} : smbClient'[d] = smbClient[d]
    BY <1>3, <1>7 DEF SmbTypes
<1>9. replies[p] \in SmbBytes /\ replies[p] \o rest(limit) \in SmbBytes
    BY <1>4, <1>6, ConcatProperties DEF SmbTypes, SmbBytes
<1>10. SmbTypes'
    <2>1. replies' \in [Pipes -> SmbBytes]
        BY <1>1, <1>9 DEF SmbTypes
    <2>2. QED
        BY <1>2, <1>5, <1>8, <2>1, Bounds DEF SmbTypes
<1>11. ASSUME ~mixed[p]
       PROVE  replies'[p] = smbClient'[c].due /\ pending'[p] = smbClient'[c].sent
    <2>1. pending[p] = <<>> /\ replies[p] = <<>>
        BY <1>2, <1>11 DEF SmbPipes, Smb!OwnReplies, p
    <2>2. <<>> \o rest(limit) = rest(limit)
        BY <1>6, ConcatEmptySeq DEF SmbBytes
    <2>3. replies'[p] = rest(limit)
        BY <1>1, <1>4, <2>1, <2>2 DEF SmbTypes
    <2>4. QED
        BY <1>2, <1>7, <1>8, <2>1, <2>3
<1>12. SmbSent'
    BY <1>7, <1>8 DEF SmbPipes, SmbSent
<1>13. SmbOnly(c, p)
    BY <1>1, <1>2, <1>4, <1>8 DEF SmbOnly, SmbTypes
<1>14. SmbPipes'
    BY <1>2, <1>4, <1>7, <1>8, <1>10, <1>11, <1>12, <1>13, SmbKeepsPipe DEF p
<1>15. SmbFiles' /\ SmbDialects'
    BY <1>2, <1>7, <1>8 DEF SmbFiles, SmbDialects
<1>. QED
    BY <1>10, <1>14, <1>15

LEMMA SmbReadPipe ==
    ASSUME SmbIInv, NEW c \in Clients, Smb!ReadPipe(c)
    PROVE  SmbIInv'
<1> USE DEF SmbIInv
<1> DEFINE p == smbClient[c].pipe
           due == smbClient[c].due
           after(s, count) == SubSeq(s, count + 1, Len(s))
           new(count) == [smbClient[c] EXCEPT !.due = after(due, count)]
<1>1. PICK count \in 1 .. Len(replies[p]) :
        /\ replies' = [replies EXCEPT ![p] = after(@, count)]
        /\ smbClient' = [smbClient EXCEPT ![c].due = after(@, count)]
    BY DEF Smb!ReadPipe
<1>2. /\ p # "none"
      /\ UNCHANGED <<pending, overlay, written, writes, signer, mixed, smbRequests, smbFaults>>
    BY DEF Smb!ReadPipe, Smb!files
<1>3. smbClient' = [smbClient EXCEPT ![c] = new(count)]
    BY <1>1
<1>4. p \in Pipes /\ smbClient[c] \in SmbStates /\ due \in SmbBytes
    BY <1>2, SmbFields
<1>5. replies[p] \in SmbBytes
    BY <1>4 DEF SmbTypes
<1>6. after(replies[p], count) \in SmbBytes /\ after(due, count) \in SmbBytes
    <2>1. count \in Nat /\ Len(due) \in Nat /\ Len(replies[p]) \in Nat
        BY <1>4, <1>5, LenProperties DEF SmbBytes
    <2> HIDE DEF due, p
    <2>2. QED
        BY <1>4, <1>5, <2>1, SmbPart
<1> HIDE DEF after
<1>7. /\ new(count) \in SmbStates /\ new(count).due = after(due, count)
      /\ new(count).sent = smbClient[c].sent /\ new(count).pipe = p
      /\ new(count).at = smbClient[c].at
      /\ new(count).offered = smbClient[c].offered /\ new(count).dialect = smbClient[c].dialect
    BY <1>4, <1>6 DEF SmbStates
<1> HIDE DEF new, p, due
<1>8. smbClient' \in [Clients -> SmbStates] /\ smbClient'[c] = new(count)
      /\ \A d \in Clients \ {c} : smbClient'[d] = smbClient[d]
    BY <1>3, <1>7 DEF SmbTypes
<1>10. SmbTypes'
    <2>1. replies' \in [Pipes -> SmbBytes]
        BY <1>1, <1>6 DEF SmbTypes
    <2>2. QED
        BY <1>2, <1>8, <2>1 DEF SmbTypes
<1>11. ASSUME ~mixed[p]
       PROVE  replies'[p] = smbClient'[c].due /\ pending'[p] = smbClient'[c].sent
    <2>1. pending[p] = smbClient[c].sent /\ replies[p] = due
        BY <1>2, <1>11 DEF SmbPipes, Smb!OwnReplies, p, due
    <2>2. replies'[p] = after(due, count)
        BY <1>1, <1>4, <2>1 DEF SmbTypes
    <2>3. QED
        BY <1>2, <1>7, <1>8, <2>1, <2>2
<1>12. SmbSent'
    BY <1>2, <1>7, <1>8 DEF SmbPipes, SmbSent
<1>13. SmbOnly(c, p)
    BY <1>1, <1>2, <1>4, <1>8 DEF SmbOnly, SmbTypes
<1>14. SmbPipes'
    BY <1>2, <1>4, <1>7, <1>8, <1>10, <1>11, <1>12, <1>13, SmbKeepsPipe DEF p
<1>15. SmbFiles' /\ SmbDialects'
    BY <1>2, <1>7, <1>8 DEF SmbFiles, SmbDialects
<1>. QED
    BY <1>10, <1>14, <1>15

\* A client that leaves a pipe leaves it clean, or mixed.
LEMMA SmbLeavesPipe ==
    ASSUME SmbTypes, SmbPipes, SmbTypes', NEW c \in Clients, NEW p \in Pipes,
           smbClient[c].pipe = p, smbClient'[c].pipe = "none", SmbOnly(c, p), SmbSent', SmbReady',
           ~mixed'[p] => /\ pending'[p] = <<>> /\ replies'[p] = <<>>
                         /\ \A d \in Clients \ {c} : smbClient[d].pipe # p
    PROVE  SmbPipes'
<1> USE DEF SmbPipes, SmbOnly
<1>1. \A q \in Pipes \ {p} : pending'[q] = pending[q] /\ replies'[q] = replies[q]
                             /\ mixed'[q] = mixed[q]
    BY DEF SmbTypes
<1>2. \A d \in Clients \ {c} : smbClient'[d].pipe \in Pipes \cup {"none"}
    BY SmbFields
<1>3. SmbApart'
    <2>1. SUFFICES ASSUME NEW d \in Clients, NEW e \in Clients, d # e,
                          smbClient'[d].pipe = smbClient'[e].pipe,
                          smbClient'[d].pipe # "none"
                   PROVE  mixed'[smbClient'[d].pipe]
        BY DEF SmbApart
    <2>2. d # c /\ e # c
        BY <2>1
    <2>3. CASE smbClient[d].pipe = p
        BY <2>1, <2>2, <2>3
    <2>4. CASE smbClient[d].pipe # p
        BY <1>1, <1>2, <2>1, <2>2, <2>4 DEF SmbApart
    <2>5. QED
        BY <2>3, <2>4
<1>4. SmbClean'
    <2>1. SUFFICES ASSUME NEW q \in Pipes, ~mixed'[q], \A d \in Clients : smbClient'[d].pipe # q
                   PROVE  pending'[q] = <<>> /\ replies'[q] = <<>>
        BY DEF SmbClean
    <2>2. CASE q # p
        <3>1. \A d \in Clients : smbClient[d].pipe # q
            BY <2>1, <2>2
        <3>2. QED
            BY <1>1, <2>1, <2>2, <3>1 DEF SmbClean
    <2>3. QED
        BY <2>1, <2>2
<1>5. Smb!OwnReplies'
    <2>1. SUFFICES ASSUME NEW d \in Clients, smbClient'[d].pipe # "none",
                          ~mixed'[smbClient'[d].pipe]
                   PROVE  /\ replies'[smbClient'[d].pipe] = smbClient'[d].due
                          /\ pending'[smbClient'[d].pipe] = smbClient'[d].sent
        BY DEF Smb!OwnReplies
    <2>2. d # c /\ smbClient'[d] = smbClient[d] /\ smbClient[d].pipe # p
        BY <2>1
    <2>3. QED
        BY <1>1, <1>2, <2>1, <2>2 DEF Smb!OwnReplies
<1>. QED
    BY <1>3, <1>4, <1>5

LEMMA SmbClose ==
    ASSUME SmbIInv, NEW c \in Clients, Smb!Close(c)
    PROVE  SmbIInv'
<1> USE DEF SmbIInv
<1> DEFINE p == smbClient[c].pipe
           new == [smbClient[c] EXCEPT !.pipe = "none", !.sent = <<>>, !.due = <<>>]
<1>1. /\ p # "none"
      /\ pending' = [pending EXCEPT ![p] = <<>>] /\ replies' = [replies EXCEPT ![p] = <<>>]
      /\ smbClient' = [smbClient EXCEPT ![c].pipe = "none", ![c].sent = <<>>, ![c].due = <<>>]
      /\ mixed' = [mixed EXCEPT ![p] = Smb!OpenBy(p) # {c}]
      /\ UNCHANGED <<overlay, written, writes, signer, smbRequests, smbFaults>>
    BY DEF Smb!Close, Smb!CloseClears, Smb!files
<1>2. smbClient' = [smbClient EXCEPT ![c] = new]
    BY <1>1
<1>3. p \in Pipes /\ smbClient[c] \in SmbStates /\ <<>> \in SmbBytes
    BY <1>1, SmbFields DEF SmbBytes
<1>4. /\ new \in SmbStates /\ new.pipe = "none" /\ new.sent = <<>> /\ new.at = smbClient[c].at
      /\ new.offered = smbClient[c].offered /\ new.dialect = smbClient[c].dialect
    BY <1>3 DEF SmbStates
<1>5. ~(Smb!OpenBy(p) # {c}) => \A d \in Clients \ {c} : smbClient[d].pipe # p
    BY DEF Smb!OpenBy
<1> HIDE DEF new, p
<1>6. smbClient' \in [Clients -> SmbStates] /\ smbClient'[c] = new
      /\ \A d \in Clients \ {c} : smbClient'[d] = smbClient[d]
    BY <1>2, <1>4 DEF SmbTypes
<1>7. SmbTypes'
    <2>1. pending' \in [Pipes -> SmbBytes] /\ replies' \in [Pipes -> SmbBytes]
          /\ mixed' \in [Pipes -> BOOLEAN]
        BY <1>1, <1>3 DEF SmbTypes
    <2>2. QED
        BY <1>1, <1>6, <2>1 DEF SmbTypes
<1>8. ~mixed'[p] => /\ pending'[p] = <<>> /\ replies'[p] = <<>>
                    /\ \A d \in Clients \ {c} : smbClient[d].pipe # p
    BY <1>1, <1>3, <1>5 DEF SmbTypes
<1>9. SmbOnly(c, p)
    BY <1>1, <1>3, <1>6 DEF SmbOnly, SmbTypes
<1>10. SmbSent' /\ SmbReady'
    BY <1>1, <1>4, <1>6 DEF SmbPipes, SmbSent, SmbReady
<1>11. SmbPipes'
    BY <1>3, <1>4, <1>6, <1>7, <1>8, <1>9, <1>10, SmbLeavesPipe DEF p
<1>12. SmbFiles' /\ SmbDialects'
    BY <1>1, <1>4, <1>6 DEF SmbFiles, SmbDialects
<1>. QED
    BY <1>7, <1>11, <1>12

LEMMA SmbVanish ==
    ASSUME SmbIInv, NEW c \in Clients, Smb!Vanish(c)
    PROVE  SmbIInv'
<1> USE DEF SmbIInv
<1> DEFINE p == smbClient[c].pipe
           dirty == pending[p] # <<>> \/ replies[p] # <<>>
<1>1. /\ smbFaults < SmbFaults /\ smbFaults' = smbFaults + 1
      /\ smbClient' = [smbClient EXCEPT ![c] = Smb!Away]
      /\ mixed' = IF p = "none" THEN mixed
                  ELSE [mixed EXCEPT ![p] = @ \/ pending[p] # <<>> \/ replies[p] # <<>>]
      /\ UNCHANGED <<pending, replies, overlay, written, writes, signer, smbRequests>>
    BY DEF Smb!Vanish, Smb!caches, Smb!files
<1>2. /\ Smb!Away \in SmbStates /\ Smb!Away.at = "away" /\ Smb!Away.pipe = "none"
      /\ Smb!Away.sent = <<>> /\ Smb!Away.due = <<>>
    <2>1. <<>> \in SmbBytes
        BY DEF SmbBytes
    <2>2. QED
        BY <2>1 DEF Smb!Away, SmbStates, SmbDialectNumbers
<1>3. /\ smbClient' \in [Clients -> SmbStates] /\ smbClient'[c] = Smb!Away
      /\ \A d \in Clients \ {c} : smbClient'[d] = smbClient[d]
    BY <1>1, <1>2 DEF SmbTypes
<1>4. p \in Pipes \cup {"none"}
    BY SmbFields
<1>5. p # "none" => mixed' = [mixed EXCEPT ![p] = mixed[p] \/ dirty]
    BY <1>1
<1> HIDE DEF p
<1>6. SmbTypes'
    <2>1. mixed' \in [Pipes -> BOOLEAN]
        BY <1>1, <1>4, <1>5 DEF SmbTypes
    <2>2. smbFaults' \in 0 .. SmbFaults
        BY <1>1, Bounds DEF SmbTypes
    <2>3. QED
        BY <1>1, <1>3, <2>1, <2>2 DEF SmbTypes
<1>7. SmbSent' /\ SmbReady'
    BY <1>2, <1>3 DEF SmbPipes, SmbSent, SmbReady
<1>8. SmbPipes'
    <2>1. CASE p = "none"
        <3>1. \A d \in Clients : smbClient'[d].pipe = smbClient[d].pipe
                /\ (smbClient[d].pipe # "none" =>
                        smbClient'[d].sent = smbClient[d].sent
                        /\ smbClient'[d].due = smbClient[d].due)
            BY <1>2, <1>3, <2>1 DEF p
        <3>2. QED
            BY <1>1, <1>7, <2>1, <3>1, SmbKeepsPipes
    <2>2. CASE p # "none"
        <3>1. p \in Pipes /\ mixed'[p] = (mixed[p] \/ dirty)
            BY <1>4, <1>5, <2>2 DEF SmbTypes
        <3>2. SmbOnly(c, p)
            BY <1>1, <1>3, <1>5, <2>2, <3>1 DEF SmbOnly, SmbTypes
        <3>3. ASSUME ~mixed'[p]
              PROVE  /\ pending'[p] = <<>> /\ replies'[p] = <<>>
                     /\ \A d \in Clients \ {c} : smbClient[d].pipe # p
            BY <1>1, <2>2, <3>1, <3>3 DEF SmbPipes, SmbApart, p
        <3>4. QED
            BY <1>2, <1>3, <1>6, <1>7, <3>1, <3>2, <3>3, SmbLeavesPipe DEF p
    <2>3. QED
        BY <2>1, <2>2
<1>9. SmbFiles' /\ SmbDialects'
    BY <1>1, <1>2, <1>3 DEF SmbFiles, SmbDialects
<1>. QED
    BY <1>6, <1>8, <1>9

\* What is written somewhere is there, and what was elsewhere stays.
LEMMA SmbWriteFile ==
    ASSUME SmbIInv, NEW c \in Clients, Smb!WriteFile(c)
    PROVE  SmbIInv'
<1> USE DEF SmbIInv
<1> DEFINE longest(end) == IF Len(overlay) < end THEN end ELSE Len(overlay)
           buffer(end) == Smb!Resized(overlay, end)
<1>1. PICK first \in Smb!Places, last \in Smb!Places :
        /\ first <= last
        /\ overlay' = [n \in 1 .. Len(buffer(last)) |->
                         IF n \in first .. last THEN writes' ELSE buffer(last)[n]]
        /\ written' = [n \in Smb!Places |->
                         IF n \in first .. last THEN writes' ELSE written[n]]
    BY DEF Smb!WriteFile
<1>2. /\ writes < MaxWrites /\ writes' = writes + 1
      /\ UNCHANGED <<pending, replies, signer, smbClient, mixed, smbRequests, smbFaults>>
    BY DEF Smb!WriteFile, Smb!caches
<1>3. writes' \in 0 .. MaxWrites /\ 0 \in 0 .. MaxWrites
    BY <1>2, Bounds DEF SmbTypes
<1>4. /\ overlay \in Seq(0 .. MaxWrites) /\ Len(overlay) \in 0 .. 2
      /\ \A n \in 1 .. Len(overlay) : overlay[n] \in 0 .. MaxWrites
    <2>1. overlay \in Seq(0 .. MaxWrites) /\ Len(overlay) <= 2
        BY DEF SmbTypes
    <2>2. Len(overlay) \in Nat
        BY <2>1, LenProperties
    <2>3. Len(overlay) \in 0 .. 2
        <3>1. \A n \in Nat : n <= 2 => n \in 0 .. 2
            OBVIOUS
        <3>2. QED
            BY <2>1, <2>2, <3>1
    <2>4. \A n \in 1 .. Len(overlay) : overlay[n] \in 0 .. MaxWrites
        BY <2>1, ElementOfSeq
    <2>5. QED
        BY <2>1, <2>3, <2>4
<1>5. longest(last) \in last .. 2 /\ Len(overlay) <= longest(last)
    BY <1>4 DEF Smb!Places
<1>6. /\ buffer(last) \in [1 .. longest(last) -> 0 .. MaxWrites]
      /\ \A n \in 1 .. Len(overlay) : buffer(last)[n] = overlay[n]
    BY <1>3, <1>4, <1>5 DEF Smb!Resized
<1> HIDE DEF buffer, longest
<1>7. Len(buffer(last)) = longest(last)
    BY <1>5, <1>6
<1>8. /\ overlay' \in [1 .. longest(last) -> 0 .. MaxWrites]
      /\ \A n \in 1 .. longest(last) :
            overlay'[n] = IF n \in first .. last THEN writes' ELSE buffer(last)[n]
    BY <1>1, <1>3, <1>6, <1>7
<1>9. overlay' \in Seq(0 .. MaxWrites) /\ Len(overlay') = longest(last)
    <2>1. longest(last) \in Nat
        BY <1>5 DEF Smb!Places
    <2>2. overlay' \in Seq(0 .. MaxWrites)
        <3>1. overlay' \in [1 .. longest(last) -> 0 .. MaxWrites]
            BY <1>8
        <3>2. QED
            BY <2>1, <3>1, FunctionOfSeq
    <2>3. QED
        BY <1>8, <2>1, <2>2
<1>10. SmbTypes'
    <2>1. written' \in [Smb!Places -> 0 .. MaxWrites]
        BY <1>1, <1>3 DEF SmbTypes
    <2>2. Len(overlay') <= 2
        BY <1>5, <1>9
    <2>3. QED
        BY <1>2, <1>3, <1>9, <2>1, <2>2 DEF SmbTypes
<1>11. SmbFiles'
    <2>1. SUFFICES ASSUME NEW n \in Smb!Places, written'[n] # 0
                   PROVE  n <= Len(overlay') /\ overlay'[n] = written'[n]
        BY DEF SmbFiles
    <2>2. CASE n \in first .. last
        BY <1>1, <1>5, <1>8, <1>9, <2>2 DEF Smb!Places
    <2>3. CASE n \notin first .. last
        <3>1. written'[n] = written[n] /\ n <= Len(overlay) /\ overlay[n] = written[n]
            BY <1>1, <2>1, <2>3 DEF SmbFiles
        <3>2. n \in 1 .. Len(overlay) /\ n \in 1 .. longest(last)
            BY <1>4, <1>5, <3>1 DEF Smb!Places
        <3>3. overlay'[n] = overlay[n]
            BY <1>6, <1>8, <2>3, <3>2
        <3>4. QED
            BY <1>4, <1>5, <1>9, <3>1, <3>2, <3>3
    <2>4. QED
        BY <2>2, <2>3
<1>12. SmbPipes'
    <2>1. SmbSent' /\ SmbReady'
        BY <1>2 DEF SmbPipes, SmbSent, SmbReady
    <2>2. QED
        BY <1>2, <2>1, SmbKeepsPipes
<1>13. SmbDialects'
    BY <1>2 DEF SmbDialects
<1>. QED
    BY <1>10, <1>11, <1>12, <1>13

LEMMA SmbRestart == SmbIInv /\ Smb!Restart => SmbIInv'
<1> SUFFICES ASSUME SmbIInv, Smb!Restart PROVE SmbIInv'
    OBVIOUS
<1> USE DEF Smb!Restart, Smb!Away, Smb!Skeleton
<1>1. <<>> \in SmbBytes /\ <<>> \in Seq(0 .. MaxWrites) /\ Len(<<>>) = 0
    BY DEF SmbBytes
<1>2. SmbTypes'
    BY <1>1, Bounds DEF SmbIInv, SmbTypes, SmbStates, SmbDialectNumbers
<1>3. SmbPipes'
    BY DEF SmbPipes, SmbSent, SmbReady, SmbApart, SmbClean, Smb!OwnReplies
<1>4. SmbFiles'
    BY DEF SmbFiles
<1>5. SmbDialects'
    BY DEF SmbDialects
<1>. QED
    BY <1>2, <1>3, <1>4, <1>5 DEF SmbIInv

LEMMA SmbStep == SmbIInv /\ (Smb!Next \/ UNCHANGED smbVars) => SmbIInv'
<1>1. SmbIInv /\ UNCHANGED smbVars => SmbIInv'
    BY DEF smbVars, SmbIInv, SmbTypes, SmbPipes, SmbSent, SmbReady, SmbApart, SmbClean,
           SmbFiles, SmbDialects, Smb!OwnReplies
<1>2. Smb!Probe => UNCHANGED smbVars
    BY DEF Smb!Probe, Smb!vars, smbVars
<1>. QED
    BY <1>1, <1>2, SmbNegotiate, SmbSessionSetup, SmbCreate, SmbWritePipe, SmbTransceive,
       SmbReadPipe, SmbClose, SmbVanish, SmbWriteFile, SmbRestart DEF Smb!Next

LEMMA SmbSound ==
    SmbIInv => Smb!OwnReplies /\ Smb!AuthoredKept /\ Smb!DialectConfirmed
<1> SUFFICES ASSUME SmbIInv
             PROVE  Smb!OwnReplies /\ Smb!AuthoredKept /\ Smb!DialectConfirmed
    OBVIOUS
<1>1. Smb!AuthoredKept
    <2>1. SUFFICES ASSUME NEW s \in Shares, NEW n \in Smb!Places, written[n] # 0
                   PROVE  n <= Len(Smb!Content(s)) /\ Smb!Content(s)[n] = written[n]
        BY DEF Smb!AuthoredKept
    <2>2. n <= Len(overlay) /\ overlay[n] = written[n] /\ n \in Nat /\ n > 0
        BY <2>1 DEF SmbIInv, SmbFiles, Smb!Places
    <2>3. overlay # Smb!Skeleton
        BY <2>2 DEF Smb!Skeleton
    <2>4. QED
        BY <2>2, <2>3 DEF Smb!Content
<1>2. Smb!DialectConfirmed
    BY DEF SmbIInv, SmbDialects, Smb!DialectConfirmed, Smb!Validated
<1>. QED
    BY <1>1, <1>2 DEF SmbIInv, SmbPipes

-----------------------------------------------------------------------------
(***************************************************************************)
(* DNS: while an update is stored entry by entry, what the entries so far  *)
(* matched is as they left it, and of the rest memory and tables agree     *)
(* wherever they did before.  At the end memory gets what every entry left *)
(* too, so they agree on all it decided.                                   *)
(***************************************************************************)
DnsPlaces ==
    /\ dnsAt \in {"down", "idle", "zone", "delete", "insert", "apply"}
    /\ dnsAt \in {"down", "idle"} => update = <<>> /\ i = 1
    /\ dnsAt \notin {"down", "idle"} => update \in Names!Update
    /\ dnsAt = "zone" => i = 1
    /\ dnsAt \in {"delete", "insert"} => i \in 1 .. Len(update)
    /\ dnsAt = "insert" => update[i].op = "add"
    /\ dnsAt = "apply" => i = Len(update) + 1

DnsMatched(r) == \E n \in 1 .. i - 1 : Names!Matches(update[n], r)

DnsAgrees(r) == (r \in table => r \in memory) /\ (r \in memory => r \in table \cup Seed)

DnsHalf(r) ==
    IF dnsAt = "insert" /\ Names!Matches(update[i], r) THEN r \notin table
    ELSE IF DnsMatched(r) THEN r \in table <=> r \in Names!LeftBy({}, update, i - 1)
    ELSE Names!KeyOf(r) \notin stale => DnsAgrees(r)

DnsKeeps(k) ==
    /\ Names!ValuesOf(table, k) \subseteq promised[k]
    /\ promised[k] \ Names!ValuesOf(Seed, k) \subseteq Names!ValuesOf(table, k)

DnsPromises ==
    /\ promised = [k \in Names!Key |-> promised[k]]
    /\ \A k \in Names!Key : promised[k] # nothing /\ k \notin Names!Touched(update) => DnsKeeps(k)

DnsIInv ==
    /\ DnsPlaces
    /\ dnsAt # "down" => \A r \in Names!Record : DnsHalf(r)
    /\ DnsPromises

LEMMA DnsUpdates ==
    ASSUME NEW u \in Names!Update
    PROVE  /\ u \in Seq(Names!Entry) /\ Len(u) \in Nat \ {0}
           /\ DOMAIN u = 1 .. Len(u)
<1>1. PICK n \in 1 .. MaxEntries : u \in [1 .. n -> Names!Entry]
  BY DEF Names!Update
<1>2. n \in Nat /\ n # 0
  BY DaemonsAssumption
<1>3. u \in Seq(Names!Entry)
  BY <1>1, <1>2, FunctionOfSeq
<1>4. Len(u) = n
  BY <1>1, <1>2, <1>3, LenProperties
<1> QED BY <1>1, <1>2, <1>3, <1>4

\* What an entry adds, it matches.
LEMMA DnsAdds ==
    ASSUME NEW e, NEW r \in Names!Added(e)
    PROVE  e.op = "add" /\ Names!Matches(e, r)
BY DEF Names!Added, Names!Matches, Names!TypeMatches

\* One entry more: what it adds, and of what there was what it does not match.
LEMMA DnsOneMore ==
    ASSUME NEW R, NEW u, NEW n \in Nat \ {0}, NEW r \in Names!Record
    PROVE  r \in Names!LeftBy(R, u, n) <=>
               \/ r \in Names!Added(u[n])
               \/ r \in Names!LeftBy(R, u, n - 1) /\ ~Names!Matches(u[n], r)
<1> DEFINE Put(m) == IF m = 0 THEN r \in R ELSE r \in Names!Added(u[m])
           Clear(m, q) == \A l \in m + 1 .. q : ~Names!Matches(u[l], r)
           Hit(l) == Names!Matches(u[l], r)
<1>1. \A q \in Nat : r \in Names!LeftBy(R, u, q) <=> \E m \in 0 .. q : Put(m) /\ Clear(m, q)
  BY DEF Names!LeftBy
<1>2. Clear(n, n)
  OBVIOUS
<1>3. \A m \in 0 .. n - 1 : Clear(m, n) <=> Clear(m, n - 1) /\ ~Hit(n)
  <2>1. \A m \in 0 .. n - 1 : (m + 1 .. n) = (m + 1 .. n - 1) \cup {n}
    OBVIOUS
  <2> QED BY <2>1
<1>4. Put(n) <=> r \in Names!Added(u[n])
  OBVIOUS
<1>5. 0 .. n = (0 .. n - 1) \cup {n}
  OBVIOUS
<1>6. n - 1 \in Nat
  OBVIOUS
<1> HIDE DEF Put, Clear, Hit
<1>7. r \in Names!LeftBy(R, u, n) <=> Put(n) \/ \E m \in 0 .. n - 1 : Put(m) /\ Clear(m, n)
  BY <1>1, <1>2, <1>5
<1>8. (\E m \in 0 .. n - 1 : Put(m) /\ Clear(m, n)) <=> r \in Names!LeftBy(R, u, n - 1) /\ ~Hit(n)
  BY <1>1, <1>3, <1>6
<1> QED BY <1>4, <1>7, <1>8 DEF Hit

\* What some entry matches does not depend on what there was; the rest stays.
LEMMA DnsLeft ==
    ASSUME NEW R, NEW u, NEW n \in Nat, NEW r \in Names!Record
    PROVE  IF \E l \in 1 .. n : Names!Matches(u[l], r)
           THEN r \in Names!LeftBy(R, u, n) <=> r \in Names!LeftBy({}, u, n)
           ELSE r \in Names!LeftBy(R, u, n) <=> r \in R
<1>1. CASE \E l \in 1 .. n : Names!Matches(u[l], r)
  <2>1. \A Q : r \in Names!LeftBy(Q, u, n) <=>
                  \E m \in 1 .. n : r \in Names!Added(u[m]) /\ \A l \in m + 1 .. n : ~Names!Matches(u[l], r)
    BY <1>1 DEF Names!LeftBy
  <2> QED BY <1>1, <2>1
<1>2. CASE \A l \in 1 .. n : ~Names!Matches(u[l], r)
  <2>1. \A m \in 1 .. n : r \notin Names!Added(u[m])
    BY <1>2, DnsAdds
  <2>2. r \in Names!LeftBy(R, u, n) <=> r \in R
    BY <1>2, <2>1 DEF Names!LeftBy
  <2> QED BY <1>2, <2>2
<1> QED BY <1>1, <1>2

\* A key an update touches none of keeps its records; one it decides has them all
\* from the update.
LEMMA DnsTouches ==
    ASSUME NEW u \in Names!Update, NEW r \in Names!Record
    PROVE  /\ Names!KeyOf(r) \in Names!Key
           /\ \A n \in 1 .. Len(u) : Names!Matches(u[n], r) => Names!KeyOf(r) \in Names!Touched(u)
           /\ Names!KeyOf(r) \in Names!Decided(u) => \E n \in 1 .. Len(u) : Names!Matches(u[n], r)
<1>1. DOMAIN u = 1 .. Len(u)
  BY DnsUpdates
<1>2. Names!KeyOf(r) \in Names!Key /\ Names!KeyOf(r).owner = r.owner /\ Names!KeyOf(r).type = r.type
  BY DEF Names!KeyOf, Names!Key, Names!Record
<1> QED BY <1>1, <1>2 DEF Names!Touched, Names!Decided, Names!Matches, Names!TypeMatches

LEMMA DnsNoneTouched == Names!Touched(<<>>) = {}
BY DEF Names!Touched

LEMMA DnsStarts == Names!Init => DnsIInv
BY DEF Names!Init, DnsIInv, DnsPlaces, DnsPromises

\* An answered update: memory gets what its entries leave.
LEMMA DnsResponds ==
    ASSUME DnsIInv, UNCHANGED table, NEW persisted \in BOOLEAN, Names!Respond(persisted),
           dnsAt \notin {"down", "idle"}, persisted => dnsAt = "apply"
    PROVE  DnsIInv'
<1>0. DnsPlaces /\ update \in Names!Update /\ update' = <<>> /\ i' = 1 /\ dnsAt' = "idle" /\ i \in Nat \ {0}
  BY DnsUpdates DEF DnsIInv, DnsPlaces, Names!Respond
<1>1. DnsPlaces'
  BY <1>0 DEF DnsPlaces
<1>2. ASSUME NEW r \in Names!Record
      PROVE  DnsHalf(r)'
  <2> SUFFICES ASSUME Names!KeyOf(r) \notin stale'
               PROVE  DnsAgrees(r)'
    BY <1>0 DEF DnsHalf, DnsMatched
  <2>1. DnsHalf(r) /\ Len(update) \in Nat
    BY <1>0, DnsUpdates DEF DnsIInv
  <2>2. r \in memory' <=> r \in Names!LeftBy(memory, update, Len(update))
    BY DEF Names!Respond, Names!Applied
  <2>3. CASE \E l \in 1 .. Len(update) : Names!Matches(update[l], r)
    <3>1. persisted /\ dnsAt = "apply" /\ i - 1 = Len(update)
      BY <1>0, <2>1, <2>3, DnsTouches DEF DnsPlaces, Names!Respond
    <3>2. r \in table <=> r \in Names!LeftBy({}, update, Len(update))
      BY <2>1, <2>3, <3>1 DEF DnsHalf, DnsMatched
    <3> QED BY <2>1, <2>2, <2>3, <3>2, DnsLeft DEF DnsAgrees
  <2>4. CASE \A l \in 1 .. Len(update) : ~Names!Matches(update[l], r)
    <3>1. ~DnsMatched(r) /\ ~(dnsAt = "insert" /\ Names!Matches(update[i], r))
      BY <1>0, <2>1, <2>4 DEF DnsMatched, DnsPlaces
    <3>2. Names!KeyOf(r) \notin stale
      BY <1>0, <2>1, <2>4, DnsTouches DEF Names!Respond
    <3>3. DnsAgrees(r)
      BY <2>1, <3>1, <3>2 DEF DnsHalf
    <3>4. r \in memory' <=> r \in memory
      BY <2>1, <2>2, <2>4, DnsLeft
    <3> QED BY <3>3, <3>4 DEF DnsAgrees
  <2> QED BY <2>3, <2>4
<1>3. DnsPromises'
  <2>1. promised' = [k \in Names!Key |-> promised'[k]]
    BY DEF Names!Respond
  <2>2. ASSUME NEW k \in Names!Key, promised'[k] # nothing
        PROVE  DnsKeeps(k)'
    <3>1. CASE k \notin Names!Touched(update)
      <4>1. promised'[k] = promised[k]
        BY <3>1 DEF Names!Respond
      <4> QED BY <2>2, <3>1, <4>1 DEF DnsIInv, DnsPromises, DnsKeeps, Names!ValuesOf
    <3>2. CASE k \in Names!Touched(update)
      <4>1. k \notin stale' /\ promised'[k] = Names!ValuesOf(memory', k)
        BY <2>2, <3>2 DEF Names!Respond
      <4>2. ASSUME NEW v \in Values
            PROVE  LET r == [owner |-> k.owner, type |-> k.type, value |-> v]
                   IN  r \in Names!Record /\ Names!KeyOf(r) = k
        BY DEF Names!Key, Names!Record, Names!KeyOf
      <4>3. ASSUME NEW v \in Values
            PROVE  DnsAgrees([owner |-> k.owner, type |-> k.type, value |-> v])'
        BY <1>0, <1>2, <4>1, <4>2 DEF DnsHalf, DnsMatched
      <4> QED BY <4>1, <4>3 DEF DnsKeeps, DnsAgrees, Names!ValuesOf
    <3> QED BY <3>1, <3>2
  <2> QED BY <2>1, <2>2 DEF DnsPromises
<1> QED BY <1>1, <1>2, <1>3 DEF DnsIInv

\* The statements of an entry leave the records of other keys alone.
LEMMA DnsElsewhere ==
    ASSUME DnsIInv, dnsAt \in {"delete", "insert"}, UNCHANGED <<update, promised>>,
           \A r \in Names!Record : ~Names!Matches(update[i], r) => (r \in table' <=> r \in table)
    PROVE  DnsPromises'
<1>1. i \in 1 .. Len(update) /\ update \in Names!Update
  BY DEF DnsIInv, DnsPlaces
<1>2. ASSUME NEW k \in Names!Key, k \notin Names!Touched(update)
      PROVE  Names!ValuesOf(table', k) = Names!ValuesOf(table, k)
  <2> SUFFICES ASSUME NEW v \in Values
               PROVE  LET r == [owner |-> k.owner, type |-> k.type, value |-> v]
                      IN  r \in table' <=> r \in table
    BY DEF Names!ValuesOf
  <2> DEFINE r == [owner |-> k.owner, type |-> k.type, value |-> v]
  <2>1. r \in Names!Record /\ Names!KeyOf(r) = k
    BY DEF Names!Key, Names!Record, Names!KeyOf
  <2>2. ~Names!Matches(update[i], r)
    BY <1>1, <1>2, <2>1, DnsTouches
  <2> QED BY <2>1, <2>2
<1> QED BY <1>2 DEF DnsIInv, DnsPromises, DnsKeeps

LEMMA DnsDeletes == DnsIInv /\ Names!Delete => DnsIInv'
<1> SUFFICES ASSUME DnsIInv, Names!Delete
             PROVE  DnsIInv'
  OBVIOUS
<1>0. /\ DnsPlaces /\ dnsAt = "delete" /\ update \in Names!Update
      /\ i \in 1 .. Len(update) /\ Len(update) \in Nat /\ i - 1 \in Nat
      /\ UNCHANGED <<update, stale, memory, promised>>
      /\ table' = {r \in table : ~Names!Matches(update[i], r)}
  BY DnsUpdates DEF DnsIInv, DnsPlaces, Names!Delete
<1>1. \/ update[i].op = "add" /\ dnsAt' = "insert" /\ i' = i
      \/ update[i].op # "add" /\ i' = i + 1 /\ dnsAt' = IF i = Len(update) THEN "apply" ELSE "delete"
  BY DEF Names!Delete, Names!NextEntry
<1>2. DnsPlaces'
  BY <1>0, <1>1 DEF DnsPlaces
<1>3. ASSUME NEW r \in Names!Record
      PROVE  DnsHalf(r)'
  <2>1. DnsHalf(r)
    BY <1>0 DEF DnsIInv
  <2>2. CASE dnsAt' = "insert"
    BY <1>0, <1>1, <2>1, <2>2 DEF DnsHalf, DnsMatched, DnsAgrees
  <2>3. CASE dnsAt' # "insert"
    <3>1. i' - 1 = i /\ update[i].op # "add"
      BY <1>0, <1>1, <2>3
    <3>2. Names!Added(update[i]) = {}
      BY <3>1 DEF Names!Added
    <3>3. r \in Names!LeftBy({}, update, i) <=>
            r \in Names!LeftBy({}, update, i - 1) /\ ~Names!Matches(update[i], r)
      BY <1>0, <3>2, DnsOneMore
    <3>4. DnsMatched(r)' <=> DnsMatched(r) \/ Names!Matches(update[i], r)
      BY <1>0, <3>1 DEF DnsMatched
    <3> QED BY <1>0, <2>1, <2>3, <3>1, <3>3, <3>4 DEF DnsHalf, DnsAgrees
  <2> QED BY <2>2, <2>3
<1>4. DnsPromises'
  BY <1>0, DnsElsewhere
<1> QED BY <1>2, <1>3, <1>4 DEF DnsIInv

LEMMA DnsInserts == DnsIInv /\ Names!Insert => DnsIInv'
<1> SUFFICES ASSUME DnsIInv, Names!Insert
             PROVE  DnsIInv'
  OBVIOUS
<1>0. /\ DnsPlaces /\ dnsAt = "insert" /\ update \in Names!Update
      /\ i \in 1 .. Len(update) /\ Len(update) \in Nat /\ i - 1 \in Nat
      /\ UNCHANGED <<update, stale, memory, promised>>
      /\ table' = table \cup Names!Added(update[i])
      /\ i' = i + 1 /\ i' - 1 = i
      /\ dnsAt' = IF i = Len(update) THEN "apply" ELSE "delete"
  BY DnsUpdates DEF DnsIInv, DnsPlaces, Names!Insert, Names!NextEntry
<1>1. DnsPlaces'
  BY <1>0 DEF DnsPlaces
<1>2. ASSUME NEW r \in Names!Record
      PROVE  DnsHalf(r)'
  <2>1. DnsHalf(r)
    BY <1>0 DEF DnsIInv
  <2>2. DnsMatched(r)' <=> DnsMatched(r) \/ Names!Matches(update[i], r)
    BY <1>0 DEF DnsMatched
  <2>3. r \in Names!LeftBy({}, update, i) <=>
           \/ r \in Names!Added(update[i])
           \/ r \in Names!LeftBy({}, update, i - 1) /\ ~Names!Matches(update[i], r)
    BY <1>0, DnsOneMore
  <2>4. r \in Names!Added(update[i]) => Names!Matches(update[i], r)
    BY DnsAdds
  <2> QED BY <1>0, <2>1, <2>2, <2>3, <2>4 DEF DnsHalf, DnsAgrees
<1>3. DnsPromises'
  BY <1>0, DnsElsewhere, DnsAdds
<1> QED BY <1>1, <1>2, <1>3 DEF DnsIInv

\* A start, an update that arrives, and the first of its statements.
LEMMA DnsBegins ==
    ASSUME DnsIInv,
           \/ Names!Load \/ Names!LoadBlind
           \/ \E u \in Names!Update : Names!Receive(u)
           \/ Names!UpsertZone
    PROVE  DnsIInv'
<1>0. DnsPlaces /\ DnsPromises
  BY DEF DnsIInv
<1>1. CASE Names!Load \/ Names!LoadBlind
  <2>1. DnsPlaces'
    BY <1>0, <1>1 DEF DnsPlaces, Names!Load, Names!LoadBlind
  <2>2. ASSUME NEW r \in Names!Record
        PROVE  DnsHalf(r)'
    <3>1. Names!KeyOf(r) \in Names!Key
      BY DEF Names!KeyOf, Names!Key, Names!Record
    <3>2. i' = 1 /\ dnsAt' = "idle"
      BY <1>0, <1>1 DEF DnsPlaces, Names!Load, Names!LoadBlind
    <3>3. ~DnsMatched(r)'
      BY <3>2 DEF DnsMatched
    <3> QED BY <1>1, <3>1, <3>2, <3>3 DEF DnsHalf, DnsAgrees, Names!Load, Names!LoadBlind, Names!stores
  <2>3. DnsPromises'
    BY <1>0, <1>1 DEF DnsPromises, DnsKeeps, Names!Load, Names!LoadBlind, Names!stores
  <2> QED BY <2>1, <2>2, <2>3 DEF DnsIInv
<1>2. ASSUME NEW u \in Names!Update, Names!Receive(u)
      PROVE  DnsIInv'
  <2>1. DnsPlaces'
    BY <1>0, <1>2 DEF DnsPlaces, Names!Receive
  <2>2. ASSUME NEW r \in Names!Record
        PROVE  DnsHalf(r)'
    BY <1>0, <1>2 DEF DnsIInv, DnsPlaces, DnsHalf, DnsMatched, DnsAgrees, Names!Receive, Names!stores
  <2>3. DnsPromises'
    BY <1>0, <1>2, DnsNoneTouched DEF DnsPlaces, DnsPromises, DnsKeeps, Names!Receive, Names!stores
  <2> QED BY <2>1, <2>2, <2>3 DEF DnsIInv
<1>3. CASE Names!UpsertZone
  <2>1. DnsPlaces'
    BY <1>0, <1>3, DnsUpdates DEF DnsPlaces, Names!UpsertZone
  <2>2. ASSUME NEW r \in Names!Record
        PROVE  DnsHalf(r)'
    BY <1>0, <1>3 DEF DnsIInv, DnsPlaces, DnsHalf, DnsMatched, DnsAgrees, Names!UpsertZone
  <2>3. DnsPromises'
    BY <1>0, <1>3 DEF DnsPromises, DnsKeeps, Names!UpsertZone
  <2> QED BY <2>1, <2>2, <2>3 DEF DnsIInv
<1> QED BY <1>1, <1>2, <1>3

LEMMA DnsCrashes == DnsIInv /\ Names!Crash => DnsIInv'
<1> SUFFICES ASSUME DnsIInv, Names!Crash
             PROVE  DnsIInv'
  OBVIOUS
<1>1. DnsPlaces' /\ dnsAt' = "down"
  BY DEF DnsPlaces, Names!Crash
<1>2. DnsPromises'
  <2>1. promised' = [k \in Names!Key |-> promised'[k]]
    BY DEF Names!Crash
  <2>2. ASSUME NEW k \in Names!Key, promised'[k] # nothing
        PROVE  k \notin Names!Touched(update) /\ promised'[k] = promised[k]
    BY <2>2 DEF Names!Crash
  <2> QED BY <2>1, <2>2 DEF DnsIInv, DnsPromises, DnsKeeps, Names!Crash, Names!stores
<1> QED BY <1>1, <1>2 DEF DnsIInv

LEMMA DnsStep == DnsIInv /\ (Names!Next \/ UNCHANGED dnsVars) => DnsIInv'
<1> SUFFICES ASSUME DnsIInv, Names!Next \/ UNCHANGED dnsVars
             PROVE  DnsIInv'
  OBVIOUS
<1>1. CASE UNCHANGED dnsVars
  BY <1>1 DEF DnsIInv, DnsPlaces, DnsHalf, DnsMatched, DnsAgrees, DnsPromises, DnsKeeps, dnsVars
<1>2. CASE Names!Apply
  BY <1>2, DnsResponds DEF Names!Apply, Names!stores
<1>3. CASE Names!PersistStops
  BY <1>3, DnsResponds DEF Names!PersistStops, Names!stores
<1> QED BY <1>1, <1>2, <1>3, DnsBegins, DnsDeletes, DnsInserts, DnsCrashes DEF Names!Next

\* What is served is what is stored, and what an answered update left stays stored.
LEMMA DnsSound == DnsIInv => Names!ServedIsStored /\ Names!RegistrationsLast
<1> SUFFICES ASSUME DnsIInv
             PROVE  Names!ServedIsStored /\ Names!RegistrationsLast
  OBVIOUS
<1>1. Names!ServedIsStored
  <2> SUFFICES ASSUME dnsAt = "idle", NEW k \in Names!Key \ stale, NEW v \in Values
               PROVE  DnsAgrees([owner |-> k.owner, type |-> k.type, value |-> v])
    BY DEF Names!ServedIsStored, Names!ValuesOf, DnsAgrees
  <2> DEFINE r == [owner |-> k.owner, type |-> k.type, value |-> v]
  <2>1. r \in Names!Record /\ Names!KeyOf(r) = k
    BY DEF Names!Key, Names!Record, Names!KeyOf
  <2>2. DnsHalf(r) /\ i = 1
    BY <2>1 DEF DnsIInv, DnsPlaces
  <2> QED BY <2>1, <2>2 DEF DnsHalf, DnsMatched
<1>2. Names!RegistrationsLast
  BY DnsNoneTouched DEF DnsIInv, DnsPlaces, DnsPromises, DnsKeeps, Names!RegistrationsLast
<1> QED BY <1>1, <1>2

\* Records are of zones that are there: an update in hand is of a zone that is
\* served, and once its zone is stored, of one that has a row.
DnsTyped ==
    /\ Names!TypeOK
    /\ update # <<>> => ZoneOf[update[1].owner] \in zones
    /\ dnsAt \in {"delete", "insert", "apply"} => ZoneOf[update[1].owner] \in zoneRows

\* The entries of an update, and what they add, are of its zone.
LEMMA DnsZones ==
    ASSUME NEW u \in Names!Update
    PROVE  /\ u # <<>> /\ Len(u) \in 1 .. MaxEntries
           /\ \A n \in 1 .. Len(u) : \A r \in Names!Added(u[n]) :
                r \in Names!Record /\ ZoneOf[r.owner] = ZoneOf[u[1].owner]
<1>1. PICK n \in 1 .. MaxEntries : u \in [1 .. n -> Names!Entry]
  BY DEF Names!Update
<1>2. DOMAIN u = 1 .. Len(u) /\ Len(u) \in Nat \ {0} /\ n \in Nat /\ MaxEntries \in Nat
  BY DnsUpdates, Bounds
<1>3. Len(u) = n
  <2>1. DOMAIN u = 1 .. n
    BY <1>1
  <2>2. n \in 1 .. Len(u) /\ Len(u) \in 1 .. n
    <3>1. n \in 1 .. n /\ Len(u) \in 1 .. Len(u)
      BY <1>2
    <3> QED BY <1>2, <2>1, <3>1
  <2>3. \A m \in Nat : n \in 1 .. m /\ m \in 1 .. n => m = n
    BY <1>2
  <2> QED BY <1>2, <2>2, <2>3
<1>4. ASSUME NEW k \in 1 .. Len(u), NEW r \in Names!Added(u[k])
      PROVE  r \in Names!Record /\ ZoneOf[r.owner] = ZoneOf[u[1].owner]
  <2>1. u[k] \in Names!Entry /\ ZoneOf[u[k].owner] = ZoneOf[u[1].owner]
    BY <1>1, <1>2, <1>3 DEF Names!Update
  <2>2. u[k].op = "add" /\ r = [owner |-> u[k].owner, type |-> u[k].type, value |-> u[k].value]
    BY DEF Names!Added
  <2>3. u[k].owner \in Owners /\ u[k].type \in Types /\ u[k].value \in Values
    BY <2>1, <2>2 DEF Names!Entry
  <2> QED BY <2>1, <2>2, <2>3 DEF Names!Record
<1> QED BY <1>1, <1>2, <1>3, <1>4

LEMMA DnsTypesStart == Names!Init => DnsTyped
<1> SUFFICES ASSUME Names!Init
             PROVE  DnsTyped
  OBVIOUS
<1>1. 1 \in 1 .. MaxEntries + 1 /\ 0 \in 0 .. MaxUpdates /\ 0 \in 0 .. DnsFaults
  BY Bounds
<1>2. zoneRows \subseteq Zones /\ table \subseteq {r \in Names!Record : ZoneOf[r.owner] \in zoneRows}
  BY DEF Names!Init
<1> QED BY <1>1, <1>2 DEF Names!Init, Names!TypeOK, DnsTyped

LEMMA DnsTypesRespond ==
    ASSUME DnsTyped, DnsPlaces, update \in Names!Update, NEW persisted \in BOOLEAN,
           Names!Respond(persisted), UNCHANGED <<zoneRows, table, zones, updates>>,
           dnsFaults' \in 0 .. DnsFaults
    PROVE  DnsTyped'
<1>1. \A r \in memory' : r \in Names!Record /\ ZoneOf[r.owner] \in zones
  <2> SUFFICES ASSUME NEW r \in memory'
               PROVE  r \in Names!Record /\ ZoneOf[r.owner] \in zones
    OBVIOUS
  <2>1. PICK m \in 0 .. Len(update) : IF m = 0 THEN r \in memory ELSE r \in Names!Added(update[m])
    BY DEF Names!Respond, Names!Applied, Names!LeftBy
  <2>2. CASE m = 0
    BY <2>1, <2>2 DEF DnsTyped, Names!TypeOK
  <2>3. CASE m # 0
    <3>1. m \in 1 .. Len(update)
      BY <2>3, DnsZones
    <3> QED BY <2>1, <2>3, <3>1, DnsZones DEF DnsTyped
  <2> QED BY <2>2, <2>3
<1>2. /\ dnsAt' = "idle" /\ update' = <<>> /\ i' = 1
      /\ stale' \subseteq Names!Key
      /\ promised' \in [Names!Key -> (SUBSET Values) \cup {nothing}]
  <2>1. stale' \subseteq Names!Key
    BY DEF DnsTyped, Names!TypeOK, Names!Respond, Names!Touched
  <2>2. \A k : Names!ValuesOf(memory', k) \subseteq Values
    BY DEF Names!ValuesOf
  <2>3. \A k \in Names!Key : promised[k] \in (SUBSET Values) \cup {nothing}
    BY DEF DnsTyped, Names!TypeOK
  <2> QED BY <2>1, <2>2, <2>3 DEF Names!Respond
<1>3. 1 \in 1 .. MaxEntries + 1
  BY Bounds
<1> QED BY <1>1, <1>2, <1>3 DEF DnsTyped, Names!TypeOK

LEMMA DnsTypesStep == DnsPlaces /\ DnsTyped /\ (Names!Next \/ UNCHANGED dnsVars) => DnsTyped'
<1> SUFFICES ASSUME DnsPlaces, DnsTyped, Names!Next \/ UNCHANGED dnsVars
             PROVE  DnsTyped'
  OBVIOUS
<1>0. 1 \in 1 .. MaxEntries + 1 /\ MaxEntries \in Nat /\ MaxUpdates \in Nat /\ DnsFaults \in Nat
  BY Bounds
<1>1. CASE UNCHANGED dnsVars
  BY <1>1 DEF DnsTyped, Names!TypeOK, dnsVars
<1>2. CASE Names!Apply
  <2>1. dnsFaults' \in 0 .. DnsFaults /\ update \in Names!Update
    BY <1>2 DEF DnsTyped, DnsPlaces, Names!TypeOK, Names!Apply
  <2> QED BY <1>2, <2>1, DnsTypesRespond DEF Names!Apply, Names!stores
<1>3. CASE Names!PersistStops
  <2>1. dnsFaults' \in 0 .. DnsFaults
    BY <1>0, <1>3 DEF DnsTyped, Names!TypeOK, Names!PersistStops
  <2>2. update \in Names!Update
    BY <1>3 DEF DnsPlaces, Names!PersistStops
  <2> QED BY <1>3, <2>1, <2>2, DnsTypesRespond DEF Names!PersistStops, Names!stores
<1>4. CASE Names!Load \/ Names!LoadBlind
  <2>1. Domain \in Zones /\ \A r \in Seed : r \in Names!Record /\ ZoneOf[r.owner] = Domain
    BY DaemonsAssumption DEF DaemonsAssumption, Names!Record
  <2>2. dnsFaults' \in 0 .. DnsFaults
    BY <1>0, <1>4 DEF DnsTyped, Names!TypeOK, Names!Load, Names!LoadBlind
  <2>3. update = <<>> /\ update' = <<>> /\ dnsAt' = "idle"
    BY <1>4 DEF DnsPlaces, Names!Load, Names!LoadBlind
  <2> QED BY <1>4, <2>1, <2>2, <2>3 DEF DnsTyped, Names!TypeOK, Names!Load, Names!LoadBlind, Names!stores
<1>5. ASSUME NEW u \in Names!Update, Names!Receive(u)
      PROVE  DnsTyped'
  BY <1>0, <1>5 DEF DnsTyped, Names!TypeOK, Names!Receive, Names!stores
<1>6. CASE Names!UpsertZone
  <2>1. update # <<>>
    BY <1>6, DnsZones DEF DnsPlaces, Names!UpsertZone
  <2> QED BY <1>6, <2>1 DEF DnsTyped, Names!TypeOK, Names!UpsertZone
<1>7. CASE Names!Delete \/ Names!Insert
  <2>1. /\ update \in Names!Update /\ i \in 1 .. Len(update) /\ Len(update) \in 1 .. MaxEntries
        /\ ZoneOf[update[1].owner] \in zoneRows
    BY <1>7, DnsZones DEF DnsPlaces, DnsTyped, Names!Delete, Names!Insert
  <2>2. i' \in 1 .. MaxEntries + 1 /\ dnsAt' \in {"insert", "delete", "apply"}
    BY <1>0, <1>7, <2>1 DEF Names!Delete, Names!Insert, Names!NextEntry
  <2>3. table' \subseteq {r \in Names!Record : ZoneOf[r.owner] \in zoneRows}
    <3>1. \A r \in Names!Added(update[i]) : r \in Names!Record /\ ZoneOf[r.owner] \in zoneRows
      BY <2>1, DnsZones
    <3> QED BY <1>7, <3>1 DEF DnsTyped, Names!TypeOK, Names!Delete, Names!Insert
  <2>4. UNCHANGED <<zoneRows, zones, memory, update, updates, dnsFaults, stale, promised>>
    BY <1>7 DEF Names!Delete, Names!Insert
  <2> QED BY <2>1, <2>2, <2>3, <2>4 DEF DnsTyped, Names!TypeOK
<1>8. CASE Names!Crash
  BY <1>0, <1>8 DEF DnsTyped, Names!TypeOK, Names!Crash, Names!stores
<1> QED BY <1>1, <1>2, <1>3, <1>4, <1>5, <1>6, <1>7, <1>8 DEF Names!Next

-----------------------------------------------------------------------------
(***************************************************************************)
(* LDAP: the members of a group are the objects that have its RID.  When   *)
(* no request is in hand the table and the answered requests say the same  *)
(* of every group of which something is promised, and whom its attribute   *)
(* names has the RID, so that a rename moves all three.  A request in hand *)
(* unsettles its own group alone, or one member of all.                    *)
(***************************************************************************)
LdapTypes ==
    /\ DOMAIN rows \subseteq Dns
    /\ rows \in [DOMAIN rows -> Ldap!Row]
    /\ DOMAIN unmirrored \subseteq Dns \ DOMAIN rows
    /\ unmirrored \in [DOMAIN unmirrored -> Ldap!Row]
    /\ ldapRequests \in 0 .. LdapRequests /\ ldapFaults \in 0 .. LdapFaults
    /\ asked \subseteq Dns \X Dns
    /\ open \subseteq Dns

\* Distinct objects have distinct RIDs, and the rows of the table are of objects.
LdapKeys ==
    /\ \A o, p \in Ldap!There : Ldap!Rid(o) = Ldap!Rid(p) => o = p
    /\ memberships \subseteq Ldap!There \X Ldap!There

\* A name stays a group's or somebody else's.
LdapKinds ==
    /\ \A d \in Ldap!There : rows[d].group = (d \in GroupDns)
    /\ \A d \in Ldap!Unmirrored : unmirrored[d].group = (d \in GroupDns)

LdapPlaces ==
    /\ ldapAt \in {"idle", "ready", "member", "insert", "row", "object", "projection"}
    /\ ldapJob \in Ldap!Job
    /\ ldapAt \in {"idle", "ready"} => ldapJob = Ldap!Idle
    /\ ldapAt \in {"member", "insert"} =>
         /\ ldapJob.kind = "sync" /\ ldapJob.group \in Ldap!Groups
         /\ ldapJob.todo \subseteq Ldap!There
    /\ ldapAt = "row" =>
         ldapJob.kind = "samr" /\ ldapJob.group \in Ldap!Groups /\ ldapJob.member \in Ldap!There \ {ldapJob.group}
    /\ ldapAt = "object" =>
         ldapJob.kind = "remove" /\ ldapJob.dn \in Ldap!There \cup Ldap!Unmirrored
    /\ ldapAt = "projection" => ldapJob.kind = "remove" /\ ldapJob.dn \in Ldap!Unmirrored

\* Who has the RID of group g.
Holders(g) == {o \in Ldap!There \ {g} : Ldap!Rid(g) \in rows[o].groupRids}
Named(g) == rows[g].member \cap Ldap!There

\* The attribute, the table and the answered requests are one set.
LdapSettled(g) ==
    Named(g) \subseteq Holders(g) /\ Ldap!TableOf(g) = Holders(g) /\ Ldap!AskedOf(g) = Holders(g)

\* The group whose members are taken one by one, and then its rows.
LdapSyncs(g) ==
    /\ g \notin rows[g].member
    /\ Ldap!AskedOf(g) = Named(g)
    /\ ldapAt = "member" => \A o \in Ldap!There \ ({g} \cup ldapJob.todo) : o \in Holders(g) <=> o \in Named(g)
    /\ ldapAt = "insert" =>
         Holders(g) = Named(g) /\ ldapJob.todo \subseteq Named(g) /\ Ldap!TableOf(g) = Named(g) \ ldapJob.todo

LdapGroup(g) ==
    IF ldapAt \in {"member", "insert"} /\ g = ldapJob.group THEN LdapSyncs(g)
    ELSE IF ldapAt = "row" /\ g = ldapJob.group
    THEN /\ Named(g) \subseteq Holders(g)
         /\ Ldap!AskedOf(g) = Holders(g)
         /\ Holders(g) = IF ldapJob.add THEN Ldap!TableOf(g) \cup {ldapJob.member}
                         ELSE Ldap!TableOf(g) \ {ldapJob.member}
    ELSE IF ldapAt = "object"
    THEN g # ldapJob.dn =>
           /\ Named(g) \subseteq Holders(g)
           /\ Ldap!TableOf(g) = Holders(g) \ {ldapJob.dn}
           /\ Ldap!AskedOf(g) = Holders(g) \ {ldapJob.dn}
    ELSE LdapSettled(g)

LdapIInv ==
    /\ LdapTypes /\ LdapKeys /\ LdapKinds /\ LdapPlaces
    /\ ldapAt = "object" => \A p \in memberships : ldapJob.dn \notin {p[1], p[2]}
    /\ \A g \in Ldap!Groups : Ldap!Rid(g) \notin open => LdapGroup(g)

LEMMA LdapStarts == Ldap!Init => LdapIInv
<1> SUFFICES ASSUME Ldap!Init
             PROVE  LdapIInv
  OBVIOUS
<1>1. PICK there \in SUBSET Dns : rows = [d \in there |-> Ldap!NewRow(d, {})]
  BY DEF Ldap!Init
<1>2. /\ memberships = {} /\ ldapAt = "idle" /\ ldapJob = Ldap!Idle
      /\ ldapRequests = 0 /\ ldapFaults = 0 /\ asked = {} /\ open = {} /\ DOMAIN unmirrored = {}
      /\ unmirrored \in [DOMAIN unmirrored -> Ldap!Row]
  BY DEF Ldap!Init
<1>3. Ldap!There = there /\ \A d \in there : rows[d] = Ldap!NewRow(d, {})
  BY <1>1 DEF Ldap!There
<1>4. LdapTypes
  <2>1. \A d \in there : Ldap!NewRow(d, {}) \in Ldap!Row
    BY DEF Ldap!NewRow, Ldap!Row
  <2>2. 0 \in 0 .. LdapRequests /\ 0 \in 0 .. LdapFaults
    BY Bounds
  <2>3. rows \in [DOMAIN rows -> Ldap!Row] /\ DOMAIN rows \subseteq Dns
    BY <1>1, <2>1
  <2> QED BY <1>2, <2>2, <2>3 DEF LdapTypes
<1>5. LdapKeys
  <2>1. \A o \in Ldap!There : Ldap!Rid(o) = o
    <3>1. \A o : Ldap!NewRow(o, {}).rid = o
      BY DEF Ldap!NewRow
    <3> QED BY <1>3, <3>1 DEF Ldap!Rid
  <2> QED BY <1>2, <2>1 DEF LdapKeys
<1>6. LdapPlaces
  BY <1>2 DEF LdapPlaces, Ldap!Job
<1>7. LdapKinds
  <2>1. \A o : Ldap!NewRow(o, {}).group = (o \in GroupDns)
    BY DEF Ldap!NewRow
  <2> QED BY <1>2, <1>3, <2>1 DEF LdapKinds, Ldap!Unmirrored
<1>8. ASSUME NEW g \in Ldap!Groups
      PROVE  LdapSettled(g)
  BY <1>2, <1>3 DEF LdapSettled, Named, Holders, Ldap!Groups, Ldap!There, Ldap!NewRow, Ldap!TableOf, Ldap!AskedOf
<1> QED BY <1>2, <1>4, <1>5, <1>6, <1>7, <1>8 DEF LdapIInv, LdapGroup

\* What a change of one row leaves of the others.
LEMMA LdapChanged ==
    ASSUME LdapTypes, NEW d \in Ldap!There, NEW new \in Ldap!Row, new.rid = rows[d].rid,
           new.group = rows[d].group, rows' = [rows EXCEPT ![d] = new]
    PROVE  /\ Ldap!There' = Ldap!There /\ Ldap!Groups' = Ldap!Groups
           /\ \A o \in Ldap!There : Ldap!Rid(o)' = Ldap!Rid(o)
           /\ rows'[d] = new /\ \A o \in Ldap!There \ {d} : rows'[o] = rows[o]
           /\ DOMAIN rows' = DOMAIN rows /\ rows' \in [DOMAIN rows' -> Ldap!Row]
BY DEF LdapTypes, Ldap!There, Ldap!Groups, Ldap!Rid

LEMMA LdapKindsKept ==
    ASSUME LdapKinds, UNCHANGED unmirrored, Ldap!There' = Ldap!There,
           \A o \in Ldap!There : rows'[o].group = rows[o].group
    PROVE  LdapKinds'
BY DEF LdapKinds, Ldap!Unmirrored

\* What depends on the rows and the tables alone stays with them.
LEMMA LdapSame ==
    ASSUME UNCHANGED <<rows, memberships, asked>>
    PROVE  /\ Ldap!There' = Ldap!There /\ Ldap!Groups' = Ldap!Groups
           /\ \A o : Ldap!Rid(o)' = Ldap!Rid(o) /\ Named(o)' = Named(o) /\ Holders(o)' = Holders(o)
                     /\ Ldap!TableOf(o)' = Ldap!TableOf(o) /\ Ldap!AskedOf(o)' = Ldap!AskedOf(o)
BY DEF Ldap!There, Ldap!Groups, Ldap!Rid, Named, Holders, Ldap!TableOf, Ldap!AskedOf

LEMMA LdapStopped ==
    ASSUME LdapIInv, Ldap!Stops
    PROVE  LdapIInv'
<1>0. /\ UNCHANGED <<rows, unmirrored, memberships, asked, ldapRequests>>
      /\ ldapFaults < LdapFaults /\ ldapFaults' = ldapFaults + 1
      /\ ldapAt \notin {"idle", "ready"} /\ ldapAt' = "idle" /\ ldapJob' = Ldap!Idle
      /\ LdapTypes /\ LdapKeys /\ LdapKinds /\ LdapPlaces
  BY DEF Ldap!Stops, Ldap!stores, LdapIInv
<1>1. open' = open \cup (IF ldapAt = "object" THEN Ldap!RidsOf({ldapJob.dn} \cup Ldap!Groups)
                         ELSE IF ldapAt = "projection" THEN {}
                         ELSE {Ldap!Rid(ldapJob.group)})
  BY DEF Ldap!Stops
<1>2. /\ ldapAt = "object" => \A g \in Ldap!Groups : Ldap!Rid(g) \in open'
      /\ ldapAt \notin {"object", "projection"} => Ldap!Rid(ldapJob.group) \in open' /\ ldapJob.group \in Ldap!Groups
  BY <1>0, <1>1 DEF LdapPlaces, Ldap!RidsOf, Ldap!Groups, Ldap!There
<1>3. open' \subseteq Dns /\ open \subseteq open'
  <2>1. \A o \in Ldap!There : Ldap!Rid(o) \in Dns
    BY <1>0 DEF LdapTypes, Ldap!There, Ldap!Rid, Ldap!Row
  <2> QED BY <1>0, <1>1, <1>2, <2>1 DEF LdapTypes, LdapPlaces, Ldap!RidsOf, Ldap!Groups, Ldap!There
<1>4. LdapTypes'
  BY <1>0, <1>3, Bounds DEF LdapTypes
<1>5. LdapKeys' /\ LdapKinds' /\ LdapPlaces'
  BY <1>0, LdapSame DEF LdapKeys, LdapKinds, Ldap!Unmirrored, LdapPlaces, Ldap!Job
<1>6. ASSUME NEW g \in Ldap!Groups', Ldap!Rid(g)' \notin open'
      PROVE  LdapGroup(g)'
  <2>1. g \in Ldap!Groups /\ Ldap!Rid(g) \notin open' /\ LdapGroup(g)
    BY <1>0, <1>3, <1>6, LdapSame DEF LdapIInv
  <2>2. ldapAt # "object" /\ (ldapAt = "projection" \/ g # ldapJob.group)
    BY <1>2, <2>1
  <2>3. LdapSettled(g)
    BY <2>1, <2>2 DEF LdapGroup
  <2>4. LdapSettled(g)'
    BY <1>0, <2>3, LdapSame DEF LdapSettled
  <2> QED BY <1>0, <2>4 DEF LdapGroup
<1> QED BY <1>0, <1>4, <1>5, <1>6 DEF LdapIInv

LEMMA LdapAnswersBlind ==
    ASSUME LdapIInv, NEW g \in Dns, Ldap!AnswersBlind(g)
    PROVE  LdapIInv'
<1>0. /\ UNCHANGED <<rows, unmirrored, memberships, asked, ldapAt, ldapJob>>
      /\ ldapFaults < LdapFaults /\ ldapFaults' = ldapFaults + 1
      /\ ldapRequests < LdapRequests /\ ldapRequests' = ldapRequests + 1
      /\ ldapAt = "idle" /\ g \in Ldap!Groups /\ open' = open \cup {Ldap!Rid(g)}
      /\ LdapTypes /\ LdapKeys /\ LdapKinds /\ LdapPlaces
  BY DEF Ldap!AnswersBlind, Ldap!stores, LdapIInv
<1>1. LdapTypes'
  <2>1. Ldap!Rid(g) \in Dns
    BY <1>0 DEF LdapTypes, Ldap!Groups, Ldap!There, Ldap!Rid, Ldap!Row
  <2> QED BY <1>0, <2>1, Bounds DEF LdapTypes
<1>2. LdapKeys' /\ LdapKinds' /\ LdapPlaces'
  BY <1>0, LdapSame DEF LdapKeys, LdapKinds, Ldap!Unmirrored, LdapPlaces
<1>3. ASSUME NEW h \in Ldap!Groups', Ldap!Rid(h)' \notin open'
      PROVE  LdapGroup(h)'
  <2>1. LdapSettled(h)
    BY <1>0, <1>3, LdapSame DEF LdapIInv, LdapGroup
  <2> QED BY <1>0, <2>1, LdapSame DEF LdapSettled, LdapGroup
<1> QED BY <1>0, <1>1, <1>2, <1>3 DEF LdapIInv

\* A group's own row is written: what was promised of it is what its new attribute
\* names, and the members it had and has are taken next.
LEMMA LdapModifies ==
    ASSUME LdapIInv, NEW g \in Dns, NEW op \in {"add", "delete", "replace"}, NEW named \in SUBSET Dns,
           g \notin named, Ldap!ModifyMembers(g, op, named)
    PROVE  LdapIInv'
<1> DEFINE old == rows[g].member
           new == Ldap!Modified(old, op, named)
           row == [rows[g] EXCEPT !.member = new]
<1>0. /\ LdapTypes /\ LdapKeys /\ LdapKinds /\ LdapPlaces
      /\ ldapAt = "ready" /\ ldapAt' = "member" /\ g \in Ldap!Groups
      /\ ldapRequests < LdapRequests /\ ldapRequests' = ldapRequests + 1
      /\ ldapJob' = [kind |-> "sync", group |-> g, todo |-> (old \cup new) \cap Ldap!There]
      /\ rows' = [rows EXCEPT ![g].member = new]
      /\ UNCHANGED <<unmirrored, memberships, ldapFaults>>
      /\ Ldap!Promise(g, old, new, op, named)
  BY DEF Ldap!ModifyMembers, LdapIInv, Ldap!Affected
<1>1. /\ g \in Ldap!There /\ rows[g] \in Ldap!Row /\ old \subseteq Dns /\ new \subseteq Dns
      /\ \A o \in Ldap!There : Ldap!Rid(o) \in Dns
  BY <1>0 DEF Ldap!Groups, Ldap!There, LdapTypes, Ldap!Row, Ldap!Modified, Ldap!Rid
<1>2. /\ rows' = [rows EXCEPT ![g] = row] /\ row \in Ldap!Row /\ row.member = new
      /\ row.rid = rows[g].rid /\ row.group = rows[g].group /\ row.groupRids = rows[g].groupRids
  BY <1>0, <1>1 DEF Ldap!Row
<1> HIDE DEF new, row
<1>3. /\ Ldap!There' = Ldap!There /\ Ldap!Groups' = Ldap!Groups
      /\ \A o \in Ldap!There : Ldap!Rid(o)' = Ldap!Rid(o) /\ rows'[o].groupRids = rows[o].groupRids
      /\ rows'[g].member = new /\ \A o \in Ldap!There \ {g} : rows'[o].member = rows[o].member
      /\ DOMAIN rows' = DOMAIN rows /\ rows' \in [DOMAIN rows' -> Ldap!Row]
  <2>1. /\ Ldap!There' = Ldap!There /\ Ldap!Groups' = Ldap!Groups
        /\ \A o \in Ldap!There : Ldap!Rid(o)' = Ldap!Rid(o)
        /\ rows'[g] = row /\ \A o \in Ldap!There \ {g} : rows'[o] = rows[o]
        /\ DOMAIN rows' = DOMAIN rows /\ rows' \in [DOMAIN rows' -> Ldap!Row]
    BY <1>0, <1>1, <1>2, LdapChanged
  <2> QED BY <1>1, <1>2, <2>1
<1>4. /\ open \subseteq open' /\ open' \subseteq Dns /\ asked' \subseteq Dns \X Dns
      /\ \A p : p[1] # Ldap!Rid(g) => (p \in asked' <=> p \in asked)
  <2>1. \A S : Ldap!RidsOf(S) \subseteq Dns
    BY <1>1 DEF Ldap!RidsOf
  <2>2. Ldap!Rid(g) \in Dns
    BY <1>1
  <2>3. open \subseteq open' /\ open' \subseteq Dns
    BY <1>0, <2>2 DEF Ldap!Promise, LdapTypes
  <2>4. PICK kept \in SUBSET Dns : asked' = {p \in asked : p[1] # Ldap!Rid(g)} \cup {<<Ldap!Rid(g), r>> : r \in kept}
    BY <1>0, <2>1 DEF Ldap!Promise
  <2>5. asked' \subseteq Dns \X Dns
    BY <1>0, <2>2, <2>4 DEF LdapTypes
  <2> QED BY <2>3, <2>4, <2>5
<1>5. LdapTypes'
  BY <1>0, <1>3, <1>4, Bounds DEF LdapTypes, Ldap!There
<1>6. LdapKeys'
  BY <1>0, <1>3 DEF LdapKeys
<1>7. LdapPlaces'
  BY <1>0, <1>1, <1>3 DEF LdapPlaces, Ldap!Job, LdapTypes, Ldap!There
<1>11. LdapKinds'
  <2>1. \A o \in Ldap!There : rows'[o].group = rows[o].group
    BY <1>0, <1>1, <1>2
  <2> QED BY <1>0, <1>3, <2>1, LdapKindsKept
<1>8. \A h \in Ldap!Groups : Holders(h)' = Holders(h) /\ Ldap!TableOf(h)' = Ldap!TableOf(h)
  BY <1>0, <1>3 DEF Holders, Ldap!TableOf, Ldap!Groups, Ldap!There
<1>9. ASSUME NEW h \in Ldap!Groups', Ldap!Rid(h)' \notin open', h # g
      PROVE  LdapGroup(h)'
  <2>1. h \in Ldap!Groups /\ Ldap!Rid(h) \notin open /\ h \in Ldap!There /\ Ldap!Rid(h) # Ldap!Rid(g)
    BY <1>0, <1>1, <1>3, <1>4, <1>9 DEF Ldap!Groups, LdapKeys
  <2>2. LdapSettled(h)
    BY <1>0, <2>1 DEF LdapIInv, LdapGroup
  <2>3. Ldap!AskedOf(h)' = Ldap!AskedOf(h) /\ Named(h)' = Named(h)
    BY <1>3, <1>4, <1>9, <2>1 DEF Ldap!AskedOf, Named
  <2> QED BY <1>0, <1>8, <1>9, <2>1, <2>2, <2>3 DEF LdapGroup, LdapSettled
<1>10. ASSUME Ldap!Rid(g)' \notin open'
       PROVE  LdapGroup(g)'
  <2>1. Ldap!Rid(g) \notin open /\ (Ldap!Members(g) \cap Ldap!There) \subseteq old /\ new \subseteq Ldap!There
    BY <1>0, <1>1, <1>3, <1>10 DEF Ldap!Promise
  <2>2. LdapSettled(g)
    BY <1>0, <2>1 DEF LdapIInv, LdapGroup
  <2>3. Holders(g) \subseteq old /\ Named(g) = Holders(g) /\ Ldap!AskedOf(g) = Named(g) /\ g \notin Named(g)
    BY <2>1, <2>2 DEF LdapSettled, Holders, Named, Ldap!Members
  <2>4. g \notin new /\ Named(g)' = new \cap Ldap!There
    BY <1>1, <1>3, <2>3 DEF new, Ldap!Modified, Named
  <2>5. Ldap!AskedOf(g)' = Named(g)'
    <3>1. \A m \in Ldap!There : <<Ldap!Rid(g), Ldap!Rid(m)>> \in asked' <=> m \in new
      <4> DEFINE removed == IF op = "delete"
                            THEN IF named = {} THEN Ldap!AskedOf(g) ELSE named
                            ELSE IF op = "replace" THEN Ldap!AskedOf(g) \ named ELSE {}
                 kept == Ldap!RidsOf(IF op = "add" THEN Ldap!AskedOf(g) \cup named
                                     ELSE Ldap!AskedOf(g) \ removed)
                           \cup (IF op = "replace" THEN Ldap!RidsOf(named) ELSE {})
      <4>1. asked' = {p \in asked : p[1] # Ldap!Rid(g)} \cup {<<Ldap!Rid(g), r>> : r \in kept}
        BY <1>0 DEF Ldap!Promise
      <4>2. \A S : \A m \in Ldap!There : Ldap!Rid(m) \in Ldap!RidsOf(S) <=> m \in S
        BY <1>0 DEF Ldap!RidsOf, LdapKeys
      <4>3. \A m \in Ldap!There : Ldap!Rid(m) \in kept <=> m \in new
        BY <2>3, <4>2 DEF new, Ldap!Modified, Named
      <4> HIDE DEF kept
      <4> QED BY <4>1, <4>3
    <3> QED BY <1>1, <1>3, <2>4, <3>1 DEF Ldap!AskedOf
  <2>6. \A o \in Ldap!There \ ({g} \cup ldapJob'.todo) : o \notin old /\ o \notin new
    BY <1>0
  <2>7. LdapSyncs(g)'
    BY <1>0, <1>1, <1>3, <1>8, <2>3, <2>4, <2>5, <2>6 DEF LdapSyncs
  <2> QED BY <1>0, <2>7 DEF LdapGroup
<1> QED BY <1>0, <1>3, <1>5, <1>6, <1>7, <1>9, <1>10, <1>11 DEF LdapIInv

\* What the row of an object says after an add.
LEMMA LdapWritten ==
    ASSUME NEW d \in Dns, NEW member \in SUBSET Dns, NEW row \in Ldap!Row
    PROVE  /\ Ldap!Added(d, member, row) \in Ldap!Row
           /\ Ldap!Added(d, member, row).rid = d
           /\ Ldap!Added(d, member, row).group = (d \in GroupDns)
           /\ Ldap!Added(d, member, row).member = IF member = {} THEN row.member ELSE member
           /\ Ldap!Added(d, member, row).groupRids = IF d \in GroupDns THEN row.groupRids ELSE {}
<1>1. row.member \in SUBSET Dns /\ row.groupRids \in SUBSET Dns
  BY DEF Ldap!Row
<1> QED BY <1>1 DEF Ldap!Added, Ldap!Row

\* An add writes a row with a RID that nobody else has, over its own or a new one.
\* Groups that are not told of lose nothing by it; what was answered of an object
\* with another RID now goes under the new one.
LEMMA LdapAdds ==
    ASSUME LdapIInv, NEW d \in Dns, NEW member \in SUBSET Dns, d \notin member, Ldap!AddObject(d, member)
    PROVE  LdapIInv'
<1> DEFINE old == Ldap!Before(rows, d)
           was == Ldap!Before(rows, d).rid
           row == Ldap!Added(d, member, Ldap!Before(rows, d))
           Is(r) == IF r = was THEN d ELSE r
           live == {p \in asked : d \in {p[1], p[2]} => d \in Ldap!There /\ was = d}
           lost == {g \in Ldap!Groups \ {d} :
                      IF d \in Ldap!There THEN d \notin GroupDns /\ Ldap!Rid(g) \in rows[d].groupRids
                      ELSE d \in rows[g].member}
<1>0. /\ LdapTypes /\ LdapKeys /\ LdapKinds /\ LdapPlaces
      /\ ldapAt = "ready" /\ \A o \in Ldap!There \ {d} : Ldap!Rid(o) # d
      /\ d \in GroupDns \/ member = {}
      /\ ldapRequests < LdapRequests /\ ldapRequests' = ldapRequests + 1
      /\ rows' = [o \in Ldap!There \cup {d} |-> IF o = d THEN row ELSE rows[o]]
      /\ unmirrored' = [o \in Ldap!Unmirrored \ {d} |-> unmirrored[o]]
      /\ IF member = {} THEN ldapAt' = "idle" /\ UNCHANGED ldapJob
         ELSE /\ ldapJob' = [kind |-> "sync", group |-> d, todo |-> member \cap Ldap!There]
              /\ ldapAt' = "member"
      /\ asked' = {<<Is(p[1]), Is(p[2])>> : p \in {q \in live : member = {} \/ q[1] # was}}
                      \cup {<<d, Ldap!Rid(m)>> : m \in member \cap Ldap!There}
      /\ open' = open \cup {Ldap!Rid(g) : g \in lost}
              \cup (IF \/ was # d
                       \/ member \ Ldap!There # {}
                       \/ /\ d \notin Ldap!There \/ member # {}
                          /\ \E o \in Ldap!There \ ({d} \cup member) : d \in rows[o].groupRids
                    THEN {d} ELSE {})
      /\ UNCHANGED <<memberships, ldapFaults>>
  BY DEF Ldap!AddObject, Ldap!AddPromise, Ldap!RidTaken, LdapIInv
<1>1. /\ old \in Ldap!Row
      /\ d \in Ldap!There => old = rows[d] /\ was = Ldap!Rid(d)
      /\ d \notin Ldap!There => was = d /\ old.member = {} /\ old.groupRids = {}
  BY <1>0 DEF Ldap!Before, Ldap!NewRow, Ldap!Row, Ldap!There, Ldap!Rid, LdapTypes
<1>2. /\ row \in Ldap!Row /\ row.rid = d /\ row.group = (d \in GroupDns)
      /\ row.member = IF member = {} THEN old.member ELSE member
      /\ row.groupRids = IF d \in GroupDns THEN old.groupRids ELSE {}
  BY <1>1, LdapWritten
<1>3. was \in Dns
  BY <1>1 DEF Ldap!Row
<1> HIDE DEF row, old, was
<1>4. /\ Ldap!There' = Ldap!There \cup {d}
      /\ rows'[d] = row /\ Ldap!Rid(d)' = d
      /\ \A o \in Ldap!There \ {d} : rows'[o] = rows[o] /\ Ldap!Rid(o)' = Ldap!Rid(o) /\ Ldap!Rid(o) # d
  BY <1>0, <1>2 DEF Ldap!There, Ldap!Rid
<1>5. LdapTypes'
  <2>1. \A o \in Ldap!There : Ldap!Rid(o) \in Dns
    BY <1>0 DEF LdapTypes, Ldap!There, Ldap!Rid, Ldap!Row
  <2>2. open' \subseteq Dns
    BY <1>0, <2>1 DEF LdapTypes, Ldap!Groups
  <2>3. asked' \subseteq Dns \X Dns
    <3>1. \A r \in Dns : Is(r) \in Dns
      BY <1>3
    <3>2. \A p \in live : p[1] \in Dns /\ p[2] \in Dns
      BY <1>0 DEF LdapTypes
    <3> HIDE DEF Is, live
    <3> QED BY <1>0, <2>1, <3>1, <3>2
  <2>4. DOMAIN rows' \subseteq Dns /\ rows' \in [DOMAIN rows' -> Ldap!Row]
    BY <1>0, <1>2 DEF LdapTypes, Ldap!There
  <2>5. DOMAIN unmirrored' \subseteq Dns \ DOMAIN rows' /\ unmirrored' \in [DOMAIN unmirrored' -> Ldap!Row]
    BY <1>0 DEF LdapTypes, Ldap!There, Ldap!Unmirrored
  <2> QED BY <1>0, <2>2, <2>3, <2>4, <2>5, Bounds DEF LdapTypes
<1>6. LdapKeys'
  BY <1>0, <1>4 DEF LdapKeys
<1>7. LdapKinds'
  BY <1>0, <1>2, <1>4 DEF LdapKinds, Ldap!Unmirrored
<1>8. LdapPlaces'
  <2>1. member = {} \/ d \in Ldap!Groups'
    BY <1>0, <1>2, <1>4 DEF Ldap!Groups
  <2>2. ldapJob' \in Ldap!Job
    BY <1>0 DEF LdapPlaces, LdapTypes, Ldap!Job, Ldap!There
  <2> QED BY <1>0, <1>4, <2>1, <2>2 DEF LdapPlaces
<1>9. \A a, b : <<a, b>> \in asked' <=>
        \/ \E p \in live : (member = {} \/ p[1] # was) /\ a = Is(p[1]) /\ b = Is(p[2])
        \/ a = d /\ \E m \in member \cap Ldap!There : b = Ldap!Rid(m)
  BY <1>0
<1>10. \A p \in live : p \in Dns \X Dns /\ p \in asked
  BY <1>0 DEF LdapTypes
<1>11. ASSUME NEW h \in Ldap!Groups', Ldap!Rid(h)' \notin open', h # d
       PROVE  LdapGroup(h)'
  <2>1. h \in Ldap!Groups /\ h \in Ldap!There /\ Ldap!Rid(h) \notin open /\ Ldap!Rid(h) # d
        /\ Ldap!Rid(h)' = Ldap!Rid(h) /\ rows'[h] = rows[h] /\ h \notin lost
    <3>1. h \in Ldap!There \ {d}
      BY <1>4, <1>11 DEF Ldap!Groups
    <3> QED BY <1>0, <1>4, <1>11, <3>1 DEF Ldap!Groups
  <2>2. LdapSettled(h)
    BY <1>0, <2>1 DEF LdapIInv, LdapGroup
  <2>3. Ldap!Rid(h) # was /\ \A m \in Ldap!There \ {d} : Ldap!Rid(m) # was
    BY <1>0, <1>1, <1>4, <1>11, <2>1 DEF LdapKeys
  <2>4. Holders(h)' = Holders(h)
    <3>1. \A o \in Ldap!There \ {d} : o \in Holders(h)' <=> o \in Holders(h)
      BY <1>4, <2>1 DEF Holders
    <3>2. d \in Holders(h)' <=> d \in Holders(h)
      BY <1>1, <1>2, <1>4, <2>1, <1>11 DEF Holders
    <3> QED BY <1>4, <3>1, <3>2 DEF Holders
  <2>5. Named(h)' = Named(h)
    BY <1>4, <1>11, <2>1 DEF Named
  <2>6. Ldap!TableOf(h)' = Ldap!TableOf(h)
    BY <1>0, <1>4 DEF Ldap!TableOf, LdapKeys
  <2>7. Ldap!AskedOf(h)' = Ldap!AskedOf(h)
    <3>1. ASSUME NEW m \in Ldap!There \ {d}
          PROVE  <<Ldap!Rid(h), Ldap!Rid(m)>> \in asked' <=> <<Ldap!Rid(h), Ldap!Rid(m)>> \in asked
      <4>1. Ldap!Rid(m) # d
        BY <1>4
      <4>2. ASSUME <<Ldap!Rid(h), Ldap!Rid(m)>> \in asked'
            PROVE  <<Ldap!Rid(h), Ldap!Rid(m)>> \in asked
        <5>1. PICK p \in live : Ldap!Rid(h) = Is(p[1]) /\ Ldap!Rid(m) = Is(p[2])
          BY <1>9, <2>1, <4>2
        <5>2. p[1] = Ldap!Rid(h) /\ p[2] = Ldap!Rid(m)
          BY <2>1, <4>1, <5>1
        <5> QED BY <1>10, <5>2
      <4>3. ASSUME <<Ldap!Rid(h), Ldap!Rid(m)>> \in asked
            PROVE  <<Ldap!Rid(h), Ldap!Rid(m)>> \in asked'
        <5> DEFINE p == <<Ldap!Rid(h), Ldap!Rid(m)>>
        <5>1. p[1] = Ldap!Rid(h) /\ p[2] = Ldap!Rid(m)
          OBVIOUS
        <5>2. p \in live
          BY <2>1, <4>1, <4>3, <5>1
        <5>3. p[1] # was /\ Ldap!Rid(h) = Is(p[1]) /\ Ldap!Rid(m) = Is(p[2])
          BY <2>3, <5>1
        <5> HIDE DEF p, live, Is
        <5>4. <<Ldap!Rid(h), Ldap!Rid(m)>> \in asked'
          BY <1>9, <5>2, <5>3
        <5> QED BY <5>4
      <4> QED BY <4>2, <4>3
    <3>2. <<Ldap!Rid(h), d>> \in asked' <=> d \in Ldap!AskedOf(h)
      <4>1. ASSUME <<Ldap!Rid(h), d>> \in asked'
            PROVE  d \in Ldap!AskedOf(h)
        <5>1. PICK p \in live : Ldap!Rid(h) = Is(p[1]) /\ d = Is(p[2])
          BY <1>9, <2>1, <4>1
        <5>2. p[1] = Ldap!Rid(h) /\ p[2] \in {was, d}
          BY <2>1, <5>1
        <5>3. d \in Ldap!There /\ p[2] = Ldap!Rid(d)
          BY <1>1, <5>2
        <5> QED BY <1>10, <5>2, <5>3 DEF Ldap!AskedOf
      <4>2. ASSUME d \in Ldap!AskedOf(h)
            PROVE  <<Ldap!Rid(h), d>> \in asked'
        <5> DEFINE p == <<Ldap!Rid(h), was>>
        <5>1. d \in Ldap!There /\ was = Ldap!Rid(d) /\ p \in asked
          BY <1>1, <4>2 DEF Ldap!AskedOf
        <5>2. p[1] = Ldap!Rid(h) /\ p[2] = was
          OBVIOUS
        <5>3. p \in live
          BY <2>1, <5>1, <5>2
        <5>4. p[1] # was /\ Ldap!Rid(h) = Is(p[1]) /\ d = Is(p[2])
          BY <2>3, <5>2
        <5> HIDE DEF p, live, Is
        <5> QED BY <1>9, <5>3, <5>4
      <4> QED BY <4>1, <4>2
    <3>3. Ldap!AskedOf(h)' \subseteq Ldap!There' /\ Ldap!AskedOf(h) \subseteq Ldap!There
      BY DEF Ldap!AskedOf
    <3>4. \A m \in Ldap!There \ {d} : m \in Ldap!AskedOf(h)' <=> m \in Ldap!AskedOf(h)
      BY <1>4, <2>1, <3>1 DEF Ldap!AskedOf
    <3>5. d \in Ldap!AskedOf(h)' <=> d \in Ldap!AskedOf(h)
      BY <1>4, <2>1, <3>2 DEF Ldap!AskedOf
    <3> QED BY <1>4, <3>3, <3>4, <3>5
  <2> QED BY <1>0, <1>11, <2>2, <2>4, <2>5, <2>6, <2>7 DEF LdapGroup, LdapSettled
<1>12. ASSUME d \in Ldap!Groups', Ldap!Rid(d)' \notin open'
       PROVE  LdapGroup(d)'
  <2>1. /\ was = d /\ member \subseteq Ldap!There /\ d \in GroupDns /\ d \notin open
        /\ \/ d \in Ldap!There /\ member = {}
           \/ \A o \in Ldap!There \ ({d} \cup member) : d \notin rows[o].groupRids
    BY <1>0, <1>2, <1>4, <1>12 DEF Ldap!Groups
  <2>2. \A p \in live : Is(p[1]) = p[1] /\ Is(p[2]) = p[2]
    BY <2>1
  <2>3. CASE d \in Ldap!There /\ member = {}
    <3>1. d \in Ldap!Groups /\ Ldap!Rid(d) = d
      BY <1>0, <1>1, <2>1, <2>3 DEF LdapKinds, Ldap!Groups
    <3>2. LdapSettled(d)
      BY <1>0, <2>1, <3>1 DEF LdapIInv, LdapGroup
    <3>3. rows'[d].member = rows[d].member /\ Ldap!There' = Ldap!There
      BY <1>1, <1>2, <1>4, <2>3
    <3>4. Holders(d)' = Holders(d) /\ Named(d)' = Named(d) /\ Ldap!TableOf(d)' = Ldap!TableOf(d)
      BY <1>0, <1>4, <3>1, <3>3 DEF Holders, Named, Ldap!TableOf
    <3>5. Ldap!AskedOf(d)' = Ldap!AskedOf(d)
      <4>1. live = asked
        BY <2>1, <2>3
      <4> HIDE DEF live, Is
      <4>3. \A p \in asked : p = <<p[1], p[2]>>
        BY <1>0 DEF LdapTypes
      <4>4. \A a, b : <<a, b>> \in asked' <=> <<a, b>> \in asked
        <5>1. ASSUME NEW a, NEW b, <<a, b>> \in asked'
              PROVE  <<a, b>> \in asked
          <6>1. PICK p \in live : a = Is(p[1]) /\ b = Is(p[2])
            BY <1>9, <2>3, <5>1
          <6>2. p = <<a, b>>
            BY <2>2, <4>1, <4>3, <6>1
          <6> QED BY <4>1, <6>2
        <5>2. ASSUME NEW a, NEW b, <<a, b>> \in asked
              PROVE  <<a, b>> \in asked'
          <6>1. PICK p \in live : p = <<a, b>>
            BY <4>1, <5>2
          <6>2. a = Is(p[1]) /\ b = Is(p[2])
            BY <2>2, <6>1
          <6> QED BY <1>9, <2>3, <6>2
        <5> QED BY <5>1, <5>2
      <4>5. \A m \in Ldap!There : Ldap!Rid(m)' = Ldap!Rid(m)
        BY <1>4, <3>1
      <4> QED BY <1>4, <3>1, <3>3, <4>4, <4>5 DEF Ldap!AskedOf
    <3> QED BY <1>0, <2>3, <3>2, <3>4, <3>5 DEF LdapGroup, LdapSettled
  <2>4. CASE d \notin Ldap!There \/ member # {}
    <3>1. Named(d)' = member
      BY <1>1, <1>2, <1>4, <2>1, <2>4 DEF Named
    <3>2. \A o \in Holders(d)' : o \in member
      BY <1>4, <2>1, <2>4 DEF Holders
    <3>3. Ldap!AskedOf(d)' = member
      <4>1. \A m \in Ldap!There : m # d => (<<d, Ldap!Rid(m)>> \in asked' <=> m \in member)
        <5>1. ASSUME NEW m \in Ldap!There, m # d, NEW p \in live, member = {} \/ p[1] # was,
                     d = Is(p[1])
              PROVE  FALSE
          BY <1>1, <2>1, <2>4, <5>1
        <5> HIDE DEF live, Is
        <5>2. \A m, n \in Ldap!There : Ldap!Rid(m) = Ldap!Rid(n) => m = n
          BY <1>0 DEF LdapKeys
        <5> QED BY <1>9, <2>1, <5>1, <5>2
      <4>2. <<d, d>> \notin asked'
        <5>1. \A p \in live : ~((member = {} \/ p[1] # was) /\ d = Is(p[1]))
          BY <1>1, <2>1, <2>4
        <5>2. \A m \in member \cap Ldap!There : d # Ldap!Rid(m)
          BY <1>4
        <5> HIDE DEF live, Is
        <5> QED BY <1>9, <5>1, <5>2
      <4> QED BY <1>4, <2>1, <4>1, <4>2 DEF Ldap!AskedOf
    <3>4. CASE member = {}
      <4>1. Ldap!TableOf(d)' = {}
        BY <1>0, <2>4, <3>4 DEF Ldap!TableOf, LdapKeys
      <4>2. Holders(d)' = {}
        BY <3>2, <3>4
      <4> QED BY <1>0, <3>1, <3>3, <3>4, <4>1, <4>2 DEF LdapGroup, LdapSettled
    <3>5. CASE member # {}
      <4>1. \A o \in Ldap!There' \ ({d} \cup ldapJob'.todo) : o \notin Holders(d)' /\ o \notin Named(d)'
        BY <1>0, <1>4, <2>1, <3>1, <3>2, <3>5
      <4>2. d \notin rows'[d].member
        BY <1>2, <1>4, <3>5
      <4>3. ldapAt' = "member" /\ ldapJob'.group = d
        BY <1>0, <3>5
      <4> QED BY <3>1, <3>3, <4>1, <4>2, <4>3 DEF LdapGroup, LdapSyncs
    <3> QED BY <3>4, <3>5
  <2> QED BY <2>3, <2>4
<1>13. ldapAt' # "object"
  BY <1>0
<1> QED BY <1>5, <1>6, <1>7, <1>8, <1>11, <1>12, <1>13 DEF LdapIInv

\* One member is taken: he has the RID of the group if its attribute names him.
LEMMA LdapSyncsMember ==
    ASSUME LdapIInv, NEW m \in Dns, Ldap!SyncMember(m), NEW g, g = ldapJob.group
    PROVE  LdapIInv'
<1> DEFINE row == Ldap!WithRid(rows[m], Ldap!Rid(g), m \in rows[g].member)
<1>0. /\ LdapTypes /\ LdapKeys /\ LdapKinds /\ LdapPlaces
      /\ ldapAt = "member" /\ ldapAt' = "member" /\ m \in ldapJob.todo
      /\ rows' = [rows EXCEPT ![m] = row]
      /\ ldapJob' = [ldapJob EXCEPT !.todo = @ \ {m}]
      /\ UNCHANGED <<unmirrored, memberships, ldapRequests, ldapFaults, asked, open>>
  BY DEF Ldap!SyncMember, Ldap!ghosts, LdapIInv
<1>1. /\ m \in Ldap!There /\ g \in Ldap!Groups /\ g \in Ldap!There /\ rows[m] \in Ldap!Row /\ Ldap!Rid(g) \in Dns
      /\ ldapJob.todo \subseteq Ldap!There
  BY <1>0 DEF LdapPlaces, LdapTypes, Ldap!Groups, Ldap!There, Ldap!Rid, Ldap!Row
<1>2. /\ row \in Ldap!Row /\ row.member = rows[m].member
      /\ row.rid = rows[m].rid /\ row.group = rows[m].group
      /\ Ldap!Rid(g) \in row.groupRids <=> m \in rows[g].member
      /\ \A r : r # Ldap!Rid(g) => (r \in row.groupRids <=> r \in rows[m].groupRids)
  BY <1>1 DEF Ldap!WithRid, Ldap!Row
<1>3. /\ ldapJob' \in Ldap!Job /\ ldapJob'.kind = "sync" /\ ldapJob'.group = g /\ ldapJob'.todo = ldapJob.todo \ {m}
  <2>1. ldapJob \in [kind : {"sync"}, group : Dns, todo : SUBSET Dns]
    BY <1>0 DEF LdapPlaces, Ldap!Job, Ldap!Idle
  <2> QED BY <1>0, <2>1 DEF Ldap!Job
<1> HIDE DEF row
<1>4. /\ Ldap!There' = Ldap!There /\ Ldap!Groups' = Ldap!Groups
      /\ \A o \in Ldap!There : Ldap!Rid(o)' = Ldap!Rid(o) /\ rows'[o].member = rows[o].member
      /\ rows'[m].groupRids = row.groupRids
      /\ \A o \in Ldap!There \ {m} : rows'[o].groupRids = rows[o].groupRids
      /\ DOMAIN rows' = DOMAIN rows /\ rows' \in [DOMAIN rows' -> Ldap!Row]
  <2>1. /\ Ldap!There' = Ldap!There /\ Ldap!Groups' = Ldap!Groups
        /\ \A o \in Ldap!There : Ldap!Rid(o)' = Ldap!Rid(o)
        /\ rows'[m] = row /\ \A o \in Ldap!There \ {m} : rows'[o] = rows[o]
        /\ DOMAIN rows' = DOMAIN rows /\ rows' \in [DOMAIN rows' -> Ldap!Row]
    BY <1>0, <1>1, <1>2, LdapChanged
  <2> QED BY <1>1, <1>2, <2>1
<1>5. LdapTypes' /\ LdapKeys' /\ LdapPlaces'
  BY <1>0, <1>1, <1>3, <1>4 DEF LdapTypes, LdapKeys, LdapPlaces
<1>9. LdapKinds'
  <2>1. \A o \in Ldap!There : rows'[o].group = rows[o].group
    BY <1>0, <1>1, <1>2, LdapChanged
  <2> QED BY <1>0, <1>4, <2>1, LdapKindsKept
<1>6. \A h \in Ldap!Groups :
        /\ h \in Ldap!There /\ Named(h)' = Named(h) /\ Ldap!TableOf(h)' = Ldap!TableOf(h)
        /\ Ldap!AskedOf(h)' = Ldap!AskedOf(h) /\ Ldap!Rid(h)' = Ldap!Rid(h)
  BY <1>0, <1>4 DEF Ldap!Groups, Ldap!There, Named, Ldap!TableOf, Ldap!AskedOf
<1>7. ASSUME NEW h \in Ldap!Groups', Ldap!Rid(h)' \notin open', h # g
      PROVE  LdapGroup(h)'
  <2>1. h \in Ldap!Groups /\ LdapGroup(h) /\ Ldap!Rid(h) # Ldap!Rid(g)
    BY <1>0, <1>1, <1>4, <1>6, <1>7 DEF LdapIInv, LdapKeys
  <2>2. LdapSettled(h)
    BY <1>0, <1>7, <2>1 DEF LdapGroup
  <2>3. Holders(h)' = Holders(h)
    BY <1>1, <1>2, <1>4, <1>6, <2>1 DEF Holders
  <2> QED BY <1>0, <1>3, <1>6, <1>7, <2>1, <2>2, <2>3 DEF LdapGroup, LdapSettled
<1>8. ASSUME Ldap!Rid(g)' \notin open'
      PROVE  LdapGroup(g)'
  <2>1. LdapSyncs(g)
    BY <1>0, <1>1, <1>6, <1>8 DEF LdapIInv, LdapGroup
  <2>2. \A o \in Ldap!There \ {g, m} : o \in Holders(g)' <=> o \in Holders(g)
    BY <1>1, <1>4, <1>6 DEF Holders
  <2>3. m # g => (m \in Holders(g)' <=> m \in Named(g))
    BY <1>1, <1>2, <1>4, <1>6 DEF Holders, Named
  <2>4. LdapSyncs(g)'
    BY <1>0, <1>1, <1>3, <1>4, <1>6, <2>1, <2>2, <2>3 DEF LdapSyncs
  <2> QED BY <1>0, <1>3, <2>4 DEF LdapGroup
<1> QED BY <1>0, <1>1, <1>4, <1>5, <1>7, <1>8, <1>9 DEF LdapIInv

\* The rows of the group are replaced by those of its members, one by one.
LEMMA LdapReplacesRows ==
    ASSUME LdapIInv, Ldap!ClearRows \/ Ldap!Synced \/ \E m \in Dns : Ldap!InsertRow(m)
    PROVE  LdapIInv'
<1> DEFINE g == ldapJob.group
<1>0. /\ LdapTypes /\ LdapKeys /\ LdapKinds /\ LdapPlaces /\ ldapAt \in {"member", "insert"}
      /\ UNCHANGED <<rows, unmirrored, ldapRequests, ldapFaults, asked, open>>
  BY DEF Ldap!ClearRows, Ldap!Synced, Ldap!InsertRow, Ldap!ghosts, Ldap!stores, LdapIInv
<1>1. /\ g \in Ldap!Groups /\ g \in Ldap!There /\ ldapJob.todo \subseteq Ldap!There
      /\ ldapJob \in [kind : {"sync"}, group : Dns, todo : SUBSET Dns]
  BY <1>0 DEF LdapPlaces, Ldap!Groups, Ldap!Job, Ldap!Idle
<1>2. /\ Ldap!There' = Ldap!There /\ Ldap!Groups' = Ldap!Groups
      /\ \A o : Ldap!Rid(o)' = Ldap!Rid(o) /\ Named(o)' = Named(o) /\ Holders(o)' = Holders(o)
                /\ Ldap!AskedOf(o)' = Ldap!AskedOf(o)
  BY <1>0 DEF Ldap!There, Ldap!Groups, Ldap!Rid, Named, Holders, Ldap!AskedOf
<1>3. LdapTypes' /\ LdapKinds'
  BY <1>0, <1>2 DEF LdapTypes, LdapKinds, Ldap!Unmirrored
<1>4. \A h \in Ldap!Groups : Ldap!Rid(h) \notin open =>
        IF h = g THEN LdapSyncs(g) ELSE LdapSettled(h)
  BY <1>0, <1>1 DEF LdapIInv, LdapGroup
<1>5. ASSUME Ldap!ClearRows
      PROVE  LdapIInv'
  <2>1. /\ ldapAt = "member" /\ ldapAt' = "insert" /\ ldapJob.todo = {}
        /\ ldapJob' = [ldapJob EXCEPT !.todo = Named(g)]
        /\ memberships' = {p \in memberships : p[1] # g}
    BY <1>5 DEF Ldap!ClearRows, Named
  <2>2. /\ ldapJob' \in Ldap!Job /\ ldapJob'.kind = "sync" /\ ldapJob'.group = g /\ ldapJob'.todo = Named(g)
        /\ Named(g) \subseteq Ldap!There
    BY <1>0, <1>1, <2>1 DEF Ldap!Job, Named, LdapTypes, Ldap!There
  <2>3. LdapKeys' /\ LdapPlaces'
    BY <1>0, <1>1, <1>2, <2>1, <2>2 DEF LdapKeys, LdapPlaces
  <2>4. ASSUME NEW h \in Ldap!Groups, Ldap!Rid(h) \notin open
        PROVE  LdapGroup(h)'
    <3>1. CASE h = g
      <4>1. Ldap!TableOf(g)' = {}
        BY <2>1 DEF Ldap!TableOf
      <4>2. Holders(g) = Named(g)
        BY <1>4, <2>1, <2>4, <3>1 DEF LdapSyncs, Holders, Named
      <4> QED BY <1>0, <1>2, <1>4, <2>1, <2>2, <2>4, <3>1, <4>1, <4>2 DEF LdapGroup, LdapSyncs
    <3>2. CASE h # g
      <4>1. Ldap!TableOf(h)' = Ldap!TableOf(h)
        BY <1>2, <2>1, <3>2 DEF Ldap!TableOf
      <4> QED BY <1>2, <1>4, <2>1, <2>2, <2>4, <3>2, <4>1 DEF LdapGroup, LdapSettled
    <3> QED BY <3>1, <3>2
  <2> QED BY <1>0, <1>2, <1>3, <2>1, <2>3, <2>4 DEF LdapIInv
<1>6. ASSUME NEW m \in Dns, Ldap!InsertRow(m)
      PROVE  LdapIInv'
  <2>1. /\ ldapAt = "insert" /\ ldapAt' = "insert" /\ m \in ldapJob.todo
        /\ ldapJob' = [ldapJob EXCEPT !.todo = @ \ {m}]
        /\ memberships' = memberships \cup {<<g, m>>}
    BY <1>6 DEF Ldap!InsertRow
  <2>2. /\ ldapJob' \in Ldap!Job /\ ldapJob'.kind = "sync" /\ ldapJob'.group = g
        /\ ldapJob'.todo = ldapJob.todo \ {m}
    BY <1>1, <2>1 DEF Ldap!Job
  <2>3. LdapKeys' /\ LdapPlaces'
    BY <1>0, <1>1, <1>2, <2>1, <2>2 DEF LdapKeys, LdapPlaces
  <2>4. ASSUME NEW h \in Ldap!Groups, Ldap!Rid(h) \notin open
        PROVE  LdapGroup(h)'
    <3>1. CASE h = g
      <4>1. Ldap!TableOf(g)' = Ldap!TableOf(g) \cup {m}
        BY <1>1, <1>2, <2>1 DEF Ldap!TableOf
      <4> QED BY <1>0, <1>2, <1>4, <2>1, <2>2, <2>4, <3>1, <4>1 DEF LdapGroup, LdapSyncs
    <3>2. CASE h # g
      <4>1. Ldap!TableOf(h)' = Ldap!TableOf(h)
        BY <1>2, <2>1, <3>2 DEF Ldap!TableOf
      <4> QED BY <1>2, <1>4, <2>1, <2>2, <2>4, <3>2, <4>1 DEF LdapGroup, LdapSettled
    <3> QED BY <3>1, <3>2
  <2> QED BY <1>0, <1>2, <1>3, <2>1, <2>3, <2>4 DEF LdapIInv
<1>7. ASSUME Ldap!Synced
      PROVE  LdapIInv'
  <2>1. /\ ldapAt = "insert" /\ ldapAt' = "idle" /\ ldapJob.todo = {} /\ ldapJob' = Ldap!Idle
        /\ memberships' = memberships
    BY <1>7 DEF Ldap!Synced, Ldap!stores
  <2>2. LdapKeys' /\ LdapPlaces'
    BY <1>0, <1>2, <2>1 DEF LdapKeys, LdapPlaces, Ldap!Job
  <2>3. ASSUME NEW h \in Ldap!Groups, Ldap!Rid(h) \notin open
        PROVE  LdapGroup(h)'
    <3>1. Ldap!TableOf(h)' = Ldap!TableOf(h)
      BY <1>2, <2>1 DEF Ldap!TableOf
    <3>2. LdapSettled(h)
      BY <1>4, <2>1, <2>3 DEF LdapSyncs, LdapSettled
    <3> QED BY <1>2, <2>1, <3>1, <3>2 DEF LdapGroup, LdapSettled
  <2> QED BY <1>0, <1>2, <1>3, <2>1, <2>2, <2>3 DEF LdapIInv
<1> QED BY <1>5, <1>6, <1>7

\* A removal takes the rows of the memberships first, and then the object.
LEMMA LdapRemoves ==
    ASSUME LdapIInv, NEW d \in Dns, Ldap!RemoveObject(d)
    PROVE  LdapIInv'
<1>0. /\ LdapTypes /\ LdapKeys /\ LdapKinds /\ LdapPlaces /\ ldapAt = "ready" /\ ldapAt' = "object"
      /\ d \in Ldap!There \cup Ldap!Unmirrored /\ ldapJob' = [kind |-> "remove", dn |-> d]
      /\ memberships' = {p \in memberships : d \notin {p[1], p[2]}}
      /\ asked' = IF d \in Ldap!There THEN {p \in asked : Ldap!Rid(d) \notin {p[1], p[2]}} ELSE asked
      /\ ldapRequests < LdapRequests /\ ldapRequests' = ldapRequests + 1
      /\ UNCHANGED <<rows, unmirrored, ldapFaults, open>>
  BY DEF Ldap!RemoveObject, LdapIInv
<1>1. /\ Ldap!There' = Ldap!There /\ Ldap!Groups' = Ldap!Groups
      /\ \A o : Ldap!Rid(o)' = Ldap!Rid(o) /\ Named(o)' = Named(o) /\ Holders(o)' = Holders(o)
  BY <1>0 DEF Ldap!There, Ldap!Groups, Ldap!Rid, Named, Holders
<1>2. LdapTypes'
  BY <1>0, Bounds DEF LdapTypes
<1>3. LdapKeys' /\ LdapKinds' /\ LdapPlaces' /\ \A p \in memberships' : d \notin {p[1], p[2]}
  BY <1>0, <1>1 DEF LdapKeys, LdapKinds, Ldap!Unmirrored, LdapPlaces, Ldap!Job
<1>4. ASSUME NEW g \in Ldap!Groups, Ldap!Rid(g) \notin open
      PROVE  LdapGroup(g)'
  <2>1. LdapSettled(g) /\ g \in Ldap!There
    BY <1>0, <1>4 DEF LdapIInv, LdapGroup, Ldap!Groups
  <2>2. g # d => Ldap!TableOf(g)' = Ldap!TableOf(g) \ {d}
    BY <1>0, <1>1 DEF Ldap!TableOf
  <2>3. g # d => Ldap!AskedOf(g)' = Ldap!AskedOf(g) \ {d}
    <3>1. CASE d \in Ldap!There
      BY <1>0, <1>1, <2>1, <3>1 DEF Ldap!AskedOf, LdapKeys
    <3>2. CASE d \notin Ldap!There
      BY <1>0, <1>1, <3>2 DEF Ldap!AskedOf
    <3> QED BY <3>1, <3>2
  <2> QED BY <1>0, <1>1, <2>1, <2>2, <2>3 DEF LdapGroup, LdapSettled
<1> QED BY <1>0, <1>1, <1>2, <1>3, <1>4 DEF LdapIInv

LEMMA LdapRemovesRow ==
    ASSUME LdapIInv, Ldap!RemoveRow, NEW d, d = ldapJob.dn
    PROVE  LdapIInv'
<1>0. /\ LdapTypes /\ LdapKeys /\ LdapKinds /\ LdapPlaces /\ ldapAt = "object" /\ ldapAt' = "projection"
      /\ ldapJob.kind = "remove" /\ d \in Ldap!There \cup Ldap!Unmirrored
      /\ rows' = [o \in Ldap!There \ {d} |-> rows[o]]
      /\ unmirrored' = [o \in Ldap!Unmirrored \cup {d} |-> Ldap!Mirrored[o]]
      /\ \A p \in memberships : d \notin {p[1], p[2]}
      /\ UNCHANGED <<memberships, ldapJob, ldapRequests, ldapFaults, asked, open>>
  BY DEF Ldap!RemoveRow, Ldap!ghosts, LdapIInv, LdapPlaces
<1>1. /\ Ldap!There' = Ldap!There \ {d} /\ Ldap!Unmirrored' = Ldap!Unmirrored \cup {d}
      /\ \A o \in Ldap!There \ {d} : rows'[o] = rows[o] /\ Ldap!Rid(o)' = Ldap!Rid(o)
  BY <1>0 DEF Ldap!There, Ldap!Unmirrored, Ldap!Rid
<1>2. \A o \in Ldap!Unmirrored \cup {d} :
        unmirrored'[o] = IF o \in Ldap!There THEN rows[o] ELSE unmirrored[o]
  BY <1>0 DEF Ldap!Mirrored
<1>3. Ldap!Unmirrored \cap Ldap!There = {} /\ d \in Dns
  BY <1>0 DEF LdapTypes, Ldap!There, Ldap!Unmirrored
<1>4. LdapTypes'
  <2>1. rows' \in [DOMAIN rows' -> Ldap!Row] /\ DOMAIN rows' \subseteq Dns
    BY <1>0 DEF LdapTypes, Ldap!There
  <2>2. \A o \in Ldap!Unmirrored \cup {d} : unmirrored'[o] \in Ldap!Row
    BY <1>0, <1>2, <1>3 DEF LdapTypes, Ldap!There, Ldap!Unmirrored
  <2>3. unmirrored' \in [DOMAIN unmirrored' -> Ldap!Row]
    BY <1>0, <1>1, <2>2 DEF Ldap!Unmirrored
  <2>4. DOMAIN unmirrored' \subseteq Dns \ DOMAIN rows'
    BY <1>0, <1>1, <1>3 DEF LdapTypes, Ldap!There, Ldap!Unmirrored
  <2> QED BY <1>0, <2>1, <2>3, <2>4 DEF LdapTypes
<1>5. LdapKeys' /\ LdapPlaces'
  BY <1>0, <1>1 DEF LdapKeys, LdapPlaces
<1>6. LdapKinds'
  <2>1. \A o \in Ldap!There' : rows'[o].group = (o \in GroupDns)
    BY <1>0, <1>1 DEF LdapKinds
  <2>2. ASSUME NEW o \in Ldap!Unmirrored'
        PROVE  unmirrored'[o].group = (o \in GroupDns)
    <3>1. CASE o \in Ldap!There
      BY <1>0, <1>1, <1>2, <3>1 DEF LdapKinds
    <3>2. CASE o \notin Ldap!There
      BY <1>0, <1>1, <1>2, <3>2 DEF LdapKinds
    <3> QED BY <3>1, <3>2
  <2> QED BY <2>1, <2>2 DEF LdapKinds
<1>7. ASSUME NEW g \in Ldap!Groups', Ldap!Rid(g)' \notin open'
      PROVE  LdapGroup(g)'
  <2>1. g \in Ldap!Groups /\ g \in Ldap!There \ {d} /\ LdapGroup(g)
    BY <1>0, <1>1, <1>7 DEF LdapIInv, Ldap!Groups
  <2>2. /\ Named(g) \subseteq Holders(g) /\ Ldap!TableOf(g) = Holders(g) \ {d}
        /\ Ldap!AskedOf(g) = Holders(g) \ {d}
    BY <1>0, <2>1 DEF LdapGroup
  <2>3. /\ Holders(g)' = Holders(g) \ {d} /\ Named(g)' = Named(g) \ {d}
        /\ Ldap!TableOf(g)' = Ldap!TableOf(g) \ {d} /\ Ldap!AskedOf(g)' = Ldap!AskedOf(g) \ {d}
    BY <1>0, <1>1, <2>1 DEF Holders, Named, Ldap!TableOf, Ldap!AskedOf
  <2> QED BY <1>0, <2>2, <2>3 DEF LdapGroup, LdapSettled
<1> QED BY <1>0, <1>4, <1>5, <1>6, <1>7 DEF LdapIInv

\* What a step does that leaves the rows and the tables.
LEMMA LdapAside ==
    ASSUME LdapIInv, UNCHANGED <<rows, memberships, asked, open>>, ldapAt \in {"idle", "ready", "projection"},
           ldapAt' \in {"idle", "ready"}, ldapJob' = Ldap!Idle, LdapTypes', LdapKinds'
    PROVE  LdapIInv'
<1>1. LdapKeys' /\ LdapPlaces'
  BY LdapSame DEF LdapIInv, LdapKeys, LdapPlaces, Ldap!Job
<1>2. ASSUME NEW g \in Ldap!Groups', Ldap!Rid(g)' \notin open'
      PROVE  LdapGroup(g)'
  <2>1. LdapSettled(g)
    BY <1>2, LdapSame DEF LdapIInv, LdapGroup
  <2> QED BY <2>1, LdapSame DEF LdapSettled, LdapGroup
<1> QED BY <1>1, <1>2 DEF LdapIInv

LEMMA LdapRemovesProjection ==
    ASSUME LdapIInv, Ldap!RemoveProjection
    PROVE  LdapIInv'
<1>0. /\ LdapTypes /\ LdapKinds /\ ldapAt = "projection" /\ ldapAt' = "idle" /\ ldapJob' = Ldap!Idle
      /\ unmirrored' = [o \in Ldap!Unmirrored \ {ldapJob.dn} |-> unmirrored[o]]
      /\ UNCHANGED <<rows, memberships, ldapRequests, ldapFaults, asked, open>>
  BY DEF Ldap!RemoveProjection, Ldap!ghosts, LdapIInv
<1>1. LdapTypes'
  BY <1>0 DEF LdapTypes, Ldap!Unmirrored
<1>2. LdapKinds'
  BY <1>0 DEF LdapKinds, Ldap!Unmirrored, Ldap!There
<1> QED BY <1>0, <1>1, <1>2, LdapAside

\* An add that is refused leaves a row of identity_objects.
LEMMA LdapAddsRefused ==
    ASSUME LdapIInv, NEW d \in Dns, NEW member \in SUBSET Dns, Ldap!AddRefused(d, member)
    PROVE  LdapIInv'
<1> DEFINE row == Ldap!Added(d, member, Ldap!Before(unmirrored, d))
<1>0. /\ LdapTypes /\ LdapKinds /\ LdapPlaces /\ ldapAt = "ready" /\ ldapAt' = "idle"
      /\ ldapRequests < LdapRequests /\ ldapRequests' = ldapRequests + 1
      /\ unmirrored' = [o \in Ldap!Unmirrored \cup ({d} \ Ldap!There) |-> IF o = d THEN row ELSE unmirrored[o]]
      /\ UNCHANGED <<rows, memberships, ldapJob, ldapFaults, asked, open>>
  BY DEF Ldap!AddRefused, Ldap!ghosts, LdapIInv
<1>1. Ldap!Before(unmirrored, d) \in Ldap!Row
  BY <1>0 DEF Ldap!Before, Ldap!NewRow, Ldap!Row, LdapTypes
<1>2. row \in Ldap!Row /\ row.group = (d \in GroupDns)
  BY <1>1, LdapWritten
<1> HIDE DEF row
<1>3. LdapTypes'
  <2>1. DOMAIN unmirrored' \subseteq Dns \ DOMAIN rows' /\ unmirrored' \in [DOMAIN unmirrored' -> Ldap!Row]
    BY <1>0, <1>2 DEF LdapTypes, Ldap!There, Ldap!Unmirrored
  <2> QED BY <1>0, <2>1, Bounds DEF LdapTypes
<1>4. LdapKinds'
  BY <1>0, <1>2 DEF LdapKinds, Ldap!Unmirrored, Ldap!There
<1>5. ldapJob' = Ldap!Idle
  BY <1>0 DEF LdapPlaces
<1> QED BY <1>0, <1>3, <1>4, <1>5, LdapAside

\* The rows that the mirror takes in have no rows in the table, and nothing is
\* promised of them, of the groups that name them or of those whose RIDs they have.
LEMMA LdapMirrors ==
    ASSUME LdapIInv, Ldap!Mirror
    PROVE  LdapIInv'
<1>0. /\ LdapTypes /\ LdapKeys /\ LdapKinds /\ LdapPlaces /\ ldapAt = "idle" /\ ldapAt' = "ready"
      /\ ldapJob = Ldap!Idle /\ UNCHANGED <<memberships, ldapJob, ldapRequests, ldapFaults>>
  BY DEF Ldap!Mirror, LdapIInv, LdapPlaces
<1>1. CASE Ldap!MirrorRefused
  <2>1. UNCHANGED <<rows, unmirrored, asked, open>>
    BY <1>1 DEF Ldap!Mirror, Ldap!ghosts
  <2>2. LdapTypes' /\ LdapKinds'
    BY <1>0, <2>1 DEF LdapTypes, LdapKinds, Ldap!There, Ldap!Unmirrored
  <2> QED BY <1>0, <2>1, <2>2, LdapAside
<1>2. CASE ~Ldap!MirrorRefused
  <2> DEFINE N == Ldap!Unmirrored
  <2>1. /\ rows' = Ldap!Mirrored /\ unmirrored' = [d \in {} |-> Ldap!NewRow(d, {})]
        /\ asked' = {p \in asked : \A d \in N : unmirrored[d].rid \notin {p[1], p[2]}}
        /\ open' = open \cup Ldap!Unsettled(N)
    BY <1>2 DEF Ldap!Mirror
  <2>2. /\ Ldap!There' = Ldap!There \cup N /\ N \cap Ldap!There = {}
        /\ \A o \in Ldap!There : rows'[o] = rows[o] /\ Ldap!Rid(o)' = Ldap!Rid(o)
        /\ \A o \in N : rows'[o] = unmirrored[o] /\ Ldap!Rid(o)' = unmirrored[o].rid
        /\ Ldap!Unmirrored' = {}
    BY <1>0, <2>1 DEF Ldap!Mirrored, Ldap!There, Ldap!Unmirrored, Ldap!Rid, LdapTypes
  <2>3. /\ \A o \in Ldap!There : rows[o] \in Ldap!Row /\ o \in Dns /\ Ldap!Rid(o) \in Dns
        /\ \A o \in N : unmirrored[o] \in Ldap!Row /\ o \in Dns /\ unmirrored[o].rid \in Dns
    BY <1>0 DEF LdapTypes, Ldap!There, Ldap!Unmirrored, Ldap!Rid, Ldap!Row
  <2>4. LdapTypes'
    <3>1. open' \subseteq Dns
      BY <1>0, <2>1, <2>3 DEF LdapTypes, Ldap!Unsettled, Ldap!Groups
    <3>2. asked' \subseteq Dns \X Dns
      BY <1>0, <2>1 DEF LdapTypes
    <3>3. DOMAIN rows' \subseteq Dns /\ rows' \in [DOMAIN rows' -> Ldap!Row]
      <4>1. DOMAIN rows' = Ldap!There \cup N
        BY <2>1 DEF Ldap!Mirrored
      <4>2. \A o \in DOMAIN rows' : rows'[o] \in Ldap!Row /\ o \in Dns
        BY <2>2, <2>3, <4>1
      <4>3. rows' = [o \in DOMAIN rows' |-> rows'[o]]
        BY <2>1 DEF Ldap!Mirrored
      <4> QED BY <4>2, <4>3
    <3>4. DOMAIN unmirrored' = {} /\ unmirrored' \in [DOMAIN unmirrored' -> Ldap!Row]
      BY <2>1
    <3> QED BY <1>0, <3>1, <3>2, <3>3, <3>4 DEF LdapTypes
  <2>5. LdapKeys'
    <3>1. \A o, p \in Ldap!There' : Ldap!Rid(o)' = Ldap!Rid(p)' => o = p
      <4>1. \A d, o \in Ldap!There \cup N : d # o => Ldap!Mirrored[d].rid # Ldap!Mirrored[o].rid
        BY <1>2 DEF Ldap!MirrorRefused
      <4>2. \A o \in Ldap!There \cup N : Ldap!Rid(o)' = Ldap!Mirrored[o].rid
        BY <2>1 DEF Ldap!Rid
      <4> QED BY <2>2, <4>1, <4>2
    <3> QED BY <1>0, <2>2, <3>1 DEF LdapKeys
  <2>6. LdapKinds'
    BY <1>0, <2>2 DEF LdapKinds
  <2>7. LdapPlaces'
    BY <1>0 DEF LdapPlaces
  <2>8. ASSUME NEW g \in Ldap!Groups', Ldap!Rid(g)' \notin open'
        PROVE  LdapGroup(g)'
    <3>1. /\ g \in Ldap!Groups /\ g \in Ldap!There /\ Ldap!Rid(g)' = Ldap!Rid(g) /\ rows'[g] = rows[g]
          /\ Ldap!Rid(g) \notin open
          /\ \A d \in N : /\ d \notin rows[g].member /\ Ldap!Rid(g) \notin unmirrored[d].groupRids
                          /\ unmirrored[d].rid # Ldap!Rid(g)
      BY <2>1, <2>2, <2>8 DEF Ldap!Groups, Ldap!Unsettled
    <3>2. LdapSettled(g)
      BY <1>0, <3>1 DEF LdapIInv, LdapGroup
    <3>3. Holders(g)' = Holders(g) /\ Named(g)' = Named(g)
      BY <2>2, <3>1 DEF Holders, Named
    <3>4. Ldap!TableOf(g)' = Ldap!TableOf(g)
      BY <1>0, <2>2, <3>1 DEF Ldap!TableOf, LdapKeys
    <3>5. Ldap!AskedOf(g)' = Ldap!AskedOf(g)
      <4>1. \A m \in Ldap!There : \A d \in N : Ldap!Rid(m) # unmirrored[d].rid
        BY <2>2, <2>5 DEF LdapKeys
      <4>2. \A m \in Ldap!There : <<Ldap!Rid(g), Ldap!Rid(m)>> \in asked' <=> <<Ldap!Rid(g), Ldap!Rid(m)>> \in asked
        BY <2>1, <3>1, <4>1
      <4>3. \A m \in N : <<Ldap!Rid(g), Ldap!Rid(m)'>> \notin asked'
        BY <2>1, <2>2
      <4> QED BY <2>2, <3>1, <4>2, <4>3 DEF Ldap!AskedOf
    <3> QED BY <1>0, <3>2, <3>3, <3>4, <3>5 DEF LdapGroup, LdapSettled
  <2> QED BY <1>0, <2>4, <2>5, <2>6, <2>7, <2>8 DEF LdapIInv
<1> QED BY <1>1, <1>2

\* A rename takes the object, its rows and its RIDs along; groups go on naming it
\* by its old name, which is nobody's, and have it by their RIDs.
LEMMA LdapRenames ==
    ASSUME LdapIInv, NEW old \in Dns, NEW new \in Dns, Ldap!Rename(old, new)
    PROVE  LdapIInv'
<1> DEFINE Was(o) == IF o = new THEN old ELSE o
           Is(o) == IF o = old THEN new ELSE o
<1>0. /\ LdapTypes /\ LdapKeys /\ LdapKinds /\ LdapPlaces /\ ldapAt = "ready" /\ ldapAt' = "idle"
      /\ old \in Ldap!There /\ new \notin Ldap!There /\ (old \in GroupDns) = (new \in GroupDns)
      /\ rows' = [o \in (Ldap!There \ {old}) \cup {new} |-> rows[Was(o)]]
      /\ memberships' = {<<Is(p[1]), Is(p[2])>> : p \in memberships}
      /\ open' = open \cup {Ldap!Rid(g) : g \in {h \in Ldap!Groups : new \in rows[h].member}}
      /\ ldapRequests < LdapRequests /\ ldapRequests' = ldapRequests + 1
      /\ unmirrored' = [o \in Ldap!Unmirrored \ {new} |-> unmirrored[o]]
      /\ UNCHANGED <<ldapJob, ldapFaults, asked>>
  BY DEF Ldap!Rename, Ldap!Moved, LdapIInv
<1>1. /\ Ldap!There' = (Ldap!There \ {old}) \cup {new}
      /\ \A o \in Ldap!There' : Was(o) \in Ldap!There /\ Is(Was(o)) = o
      /\ \A o \in Ldap!There : Is(o) \in Ldap!There' /\ Was(Is(o)) = o
      /\ \A o \in Ldap!There' : rows'[o] = rows[Was(o)] /\ Ldap!Rid(o)' = Ldap!Rid(Was(o))
  BY <1>0 DEF Ldap!There, Ldap!Rid
<1>2. \A p : p \in memberships' <=> \E q \in memberships : p = <<Is(q[1]), Is(q[2])>>
  BY <1>0
<1> HIDE DEF Was, Is
<1>3. LdapTypes'
  <2>1. \A o \in Ldap!There : Ldap!Rid(o) \in Dns
    BY <1>0 DEF LdapTypes, Ldap!There, Ldap!Rid, Ldap!Row
  <2>2. open' \subseteq Dns
    BY <1>0, <2>1 DEF LdapTypes, Ldap!Groups
  <2>3. rows' \in [DOMAIN rows' -> Ldap!Row] /\ DOMAIN rows' \subseteq Dns
    BY <1>0, <1>1 DEF LdapTypes, Ldap!There
  <2>4. DOMAIN unmirrored' \subseteq Dns \ DOMAIN rows' /\ unmirrored' \in [DOMAIN unmirrored' -> Ldap!Row]
    BY <1>0, <1>1 DEF LdapTypes, Ldap!There, Ldap!Unmirrored
  <2> QED BY <1>0, <2>2, <2>3, <2>4, Bounds DEF LdapTypes
<1>4. memberships' \subseteq Ldap!There' \X Ldap!There'
  BY <1>0, <1>1, <1>2 DEF LdapKeys
<1>5. LdapKeys'
  <2>1. ASSUME NEW o \in Ldap!There', NEW p \in Ldap!There', Ldap!Rid(o)' = Ldap!Rid(p)'
        PROVE  o = p
    <3>1. Ldap!Rid(Was(o)) = Ldap!Rid(Was(p)) /\ Was(o) \in Ldap!There /\ Was(p) \in Ldap!There
      BY <1>1, <2>1
    <3>2. Was(o) = Was(p)
      BY <1>0, <3>1 DEF LdapKeys
    <3> QED BY <1>1, <3>2
  <2> QED BY <1>4, <2>1 DEF LdapKeys
<1>6. LdapPlaces'
  BY <1>0 DEF LdapPlaces
<1>8. LdapKinds'
  BY <1>0, <1>1 DEF LdapKinds, Ldap!Unmirrored, Was
<1>7. ASSUME NEW g \in Ldap!Groups', Ldap!Rid(g)' \notin open'
      PROVE  LdapGroup(g)'
  <2> DEFINE w == Was(g)
  <2>1. /\ w \in Ldap!Groups /\ w \in Ldap!There /\ Ldap!Rid(w) \notin open /\ new \notin rows[w].member
        /\ g \in Ldap!There' /\ Ldap!Rid(g)' = Ldap!Rid(w) /\ rows'[g] = rows[w]
    BY <1>0, <1>1, <1>7 DEF Ldap!Groups
  <2> HIDE DEF w
  <2>2. LdapSettled(w)
    BY <1>0, <2>1 DEF LdapIInv, LdapGroup
  <2>3. \A o \in Ldap!There' : o \in Holders(g)' <=> Was(o) \in Holders(w)
    BY <1>1, <2>1 DEF Holders, w
  <2>4. \A o \in Ldap!There' : o \in Named(g)' => Was(o) \in Named(w)
    <3>1. ASSUME NEW o \in Ldap!There', o \in rows[w].member
          PROVE  Was(o) = o
      BY <2>1, <3>1 DEF Was
    <3> QED BY <1>1, <2>1, <3>1 DEF Named
  <2>5. \A o \in Ldap!There' : o \in Ldap!TableOf(g)' <=> Was(o) \in Ldap!TableOf(w)
    <3>1. ASSUME NEW o \in Ldap!There'
          PROVE  <<g, o>> \in memberships' <=> <<w, Was(o)>> \in memberships
      <4>1. ASSUME NEW q \in memberships, <<g, o>> = <<Is(q[1]), Is(q[2])>>
            PROVE  q = <<w, Was(o)>>
        BY <1>0, <1>1, <4>1 DEF LdapKeys, w
      <4>2. <<Is(w), Is(Was(o))>> = <<g, o>>
        BY <1>1, <2>1 DEF w
      <4>3. <<w, Was(o)>>[1] = w /\ <<w, Was(o)>>[2] = Was(o)
        OBVIOUS
      <4> QED BY <1>2, <4>1, <4>2, <4>3
    <3> QED BY <1>1, <3>1 DEF Ldap!TableOf
  <2>6. \A o \in Ldap!There' : o \in Ldap!AskedOf(g)' <=> Was(o) \in Ldap!AskedOf(w)
    BY <1>0, <1>1, <2>1 DEF Ldap!AskedOf
  <2>7. LdapSettled(g)'
    <3>1. Named(g)' \subseteq Ldap!There' /\ Holders(g)' \subseteq Ldap!There'
          /\ Ldap!TableOf(g)' \subseteq Ldap!There' /\ Ldap!AskedOf(g)' \subseteq Ldap!There'
      BY DEF Named, Holders, Ldap!TableOf, Ldap!AskedOf
    <3> QED BY <2>2, <2>3, <2>4, <2>5, <2>6, <3>1 DEF LdapSettled
  <2> QED BY <1>0, <2>7 DEF LdapGroup
<1> QED BY <1>0, <1>3, <1>5, <1>6, <1>7, <1>8 DEF LdapIInv

\* SAMR writes the row of the member first, and then that of the pair.
LEMMA LdapSamrUpdates ==
    ASSUME LdapIInv, NEW g \in Dns, NEW m \in Dns, NEW add \in BOOLEAN, Ldap!SamrUpdate(g, m, add)
    PROVE  LdapIInv'
<1> DEFINE row == Ldap!WithRid(rows[m], Ldap!Rid(g), add)
           pair == <<Ldap!Rid(g), Ldap!Rid(m)>>
<1>0. /\ LdapTypes /\ LdapKeys /\ LdapKinds /\ LdapPlaces /\ ldapAt = "ready" /\ ldapAt' = "row"
      /\ g \in Ldap!Groups /\ m \in Ldap!There \ {g}
      /\ ldapJob' = [kind |-> "samr", add |-> add, group |-> g, member |-> m]
      /\ rows' = [rows EXCEPT ![m] = row]
      /\ asked' = IF add THEN asked \cup {pair} ELSE asked \ {pair}
      /\ open' = IF ~add /\ m \in rows[g].member THEN open \cup {Ldap!Rid(g)} ELSE open
      /\ ldapRequests < LdapRequests /\ ldapRequests' = ldapRequests + 1
      /\ UNCHANGED <<unmirrored, memberships, ldapFaults>>
  BY DEF Ldap!SamrUpdate, LdapIInv
<1>1. /\ m \in Ldap!There /\ g \in Ldap!There /\ rows[m] \in Ldap!Row
      /\ \A o \in Ldap!There : Ldap!Rid(o) \in Dns
  BY <1>0 DEF LdapTypes, Ldap!Groups, Ldap!There, Ldap!Rid, Ldap!Row
<1>2. /\ row \in Ldap!Row /\ row.member = rows[m].member
      /\ row.rid = rows[m].rid /\ row.group = rows[m].group
      /\ Ldap!Rid(g) \in row.groupRids <=> add
      /\ \A r : r # Ldap!Rid(g) => (r \in row.groupRids <=> r \in rows[m].groupRids)
  BY <1>1 DEF Ldap!WithRid, Ldap!Row
<1> HIDE DEF row
<1>3. /\ Ldap!There' = Ldap!There /\ Ldap!Groups' = Ldap!Groups
      /\ \A o \in Ldap!There : Ldap!Rid(o)' = Ldap!Rid(o) /\ rows'[o].member = rows[o].member
      /\ rows'[m].groupRids = row.groupRids
      /\ \A o \in Ldap!There \ {m} : rows'[o].groupRids = rows[o].groupRids
      /\ DOMAIN rows' = DOMAIN rows /\ rows' \in [DOMAIN rows' -> Ldap!Row]
  <2>1. /\ Ldap!There' = Ldap!There /\ Ldap!Groups' = Ldap!Groups
        /\ \A o \in Ldap!There : Ldap!Rid(o)' = Ldap!Rid(o)
        /\ rows'[m] = row /\ \A o \in Ldap!There \ {m} : rows'[o] = rows[o]
        /\ DOMAIN rows' = DOMAIN rows /\ rows' \in [DOMAIN rows' -> Ldap!Row]
    BY <1>0, <1>1, <1>2, LdapChanged
  <2> QED BY <1>1, <1>2, <2>1
<1>4. LdapTypes'
  BY <1>0, <1>1, <1>3, Bounds DEF LdapTypes
<1>5. LdapKeys' /\ LdapPlaces'
  BY <1>0, <1>1, <1>3 DEF LdapKeys, LdapPlaces, Ldap!Job
<1>8. LdapKinds'
  <2>1. \A o \in Ldap!There : rows'[o].group = rows[o].group
    BY <1>0, <1>1, <1>2, LdapChanged
  <2> QED BY <1>0, <1>3, <2>1, LdapKindsKept
<1>6. \A h \in Ldap!Groups :
        /\ h \in Ldap!There /\ Named(h)' = Named(h) /\ Ldap!TableOf(h)' = Ldap!TableOf(h)
        /\ Ldap!Rid(h)' = Ldap!Rid(h)
  BY <1>0, <1>3 DEF Ldap!Groups, Ldap!There, Named, Ldap!TableOf
<1>7. ASSUME NEW h \in Ldap!Groups', Ldap!Rid(h)' \notin open'
      PROVE  LdapGroup(h)'
  <2>1. h \in Ldap!Groups /\ Ldap!Rid(h) \notin open /\ h \in Ldap!There
    BY <1>0, <1>3, <1>6, <1>7
  <2>2. LdapSettled(h)
    BY <1>0, <2>1 DEF LdapIInv, LdapGroup
  <2>3. CASE h # g
    <3>1. Ldap!Rid(h) # Ldap!Rid(g)
      BY <1>0, <1>1, <2>1, <2>3 DEF LdapKeys
    <3>2. Holders(h)' = Holders(h)
      BY <1>1, <1>2, <1>3, <1>6, <2>1, <3>1 DEF Holders
    <3>3. Ldap!AskedOf(h)' = Ldap!AskedOf(h)
      BY <1>0, <1>3, <2>1, <3>1 DEF Ldap!AskedOf
    <3> QED BY <1>0, <1>6, <2>1, <2>2, <2>3, <3>2, <3>3 DEF LdapGroup, LdapSettled
  <2>4. CASE h = g
    <3>1. Holders(g)' = IF add THEN Holders(g) \cup {m} ELSE Holders(g) \ {m}
      BY <1>0, <1>1, <1>2, <1>3 DEF Holders
    <3>2. Ldap!AskedOf(g)' = IF add THEN Ldap!AskedOf(g) \cup {m} ELSE Ldap!AskedOf(g) \ {m}
      BY <1>0, <1>1, <1>3 DEF Ldap!AskedOf, LdapKeys
    <3>3. add \/ m \notin Named(g)
      BY <1>0, <1>1, <1>3, <1>7, <2>4 DEF Named
    <3> QED BY <1>0, <1>6, <2>1, <2>2, <2>4, <3>1, <3>2, <3>3 DEF LdapGroup, LdapSettled
  <2> QED BY <2>3, <2>4
<1> QED BY <1>0, <1>4, <1>5, <1>7, <1>8 DEF LdapIInv

LEMMA LdapSamrWritesRow ==
    ASSUME LdapIInv, Ldap!SamrRow, NEW g, g = ldapJob.group, NEW m, m = ldapJob.member
    PROVE  LdapIInv'
<1>0. /\ LdapTypes /\ LdapKeys /\ LdapKinds /\ LdapPlaces /\ ldapAt = "row" /\ ldapAt' = "idle"
      /\ ldapJob' = Ldap!Idle /\ g \in Ldap!Groups /\ m \in Ldap!There \ {g}
      /\ memberships' = IF ldapJob.add THEN memberships \cup {<<g, m>>} ELSE memberships \ {<<g, m>>}
      /\ UNCHANGED <<rows, unmirrored, ldapRequests, ldapFaults, asked, open>>
  BY DEF Ldap!SamrRow, Ldap!ghosts, LdapIInv, LdapPlaces
<1>1. /\ Ldap!There' = Ldap!There /\ Ldap!Groups' = Ldap!Groups
      /\ \A o : Ldap!Rid(o)' = Ldap!Rid(o) /\ Named(o)' = Named(o) /\ Holders(o)' = Holders(o)
                /\ Ldap!AskedOf(o)' = Ldap!AskedOf(o)
  BY <1>0 DEF Ldap!There, Ldap!Groups, Ldap!Rid, Named, Holders, Ldap!AskedOf
<1>2. g \in Ldap!There
  BY <1>0 DEF Ldap!Groups
<1>3. LdapTypes' /\ LdapKeys' /\ LdapKinds' /\ LdapPlaces'
  BY <1>0, <1>1, <1>2 DEF LdapTypes, LdapKeys, LdapKinds, Ldap!Unmirrored, LdapPlaces, Ldap!Job
<1>4. ASSUME NEW h \in Ldap!Groups, Ldap!Rid(h) \notin open
      PROVE  LdapGroup(h)'
  <2>1. LdapGroup(h)
    BY <1>0, <1>4 DEF LdapIInv
  <2>2. CASE h # g
    <3>1. Ldap!TableOf(h)' = Ldap!TableOf(h)
      BY <1>0, <1>1, <2>2 DEF Ldap!TableOf
    <3> QED BY <1>0, <1>1, <2>1, <2>2, <3>1 DEF LdapGroup, LdapSettled
  <2>3. CASE h = g
    <3>1. Ldap!TableOf(g)' = IF ldapJob.add THEN Ldap!TableOf(g) \cup {m} ELSE Ldap!TableOf(g) \ {m}
      BY <1>0, <1>1 DEF Ldap!TableOf
    <3> QED BY <1>0, <1>1, <2>1, <2>3, <3>1 DEF LdapGroup, LdapSettled
  <2> QED BY <2>2, <2>3
<1> QED BY <1>0, <1>1, <1>3, <1>4 DEF LdapIInv

LEMMA LdapStep == LdapIInv /\ (Ldap!Next \/ UNCHANGED ldapVars) => LdapIInv'
<1> SUFFICES ASSUME LdapIInv, Ldap!Next \/ UNCHANGED ldapVars
             PROVE  LdapIInv'
  OBVIOUS
<1>1. CASE UNCHANGED ldapVars
  <2>1. UNCHANGED <<rows, unmirrored, memberships, ldapAt, ldapJob, ldapRequests, ldapFaults, asked, open>>
    BY <1>1 DEF ldapVars
  <2> QED BY <2>1, LdapSame DEF LdapIInv, LdapTypes, LdapKeys, LdapKinds, LdapPlaces, LdapGroup, LdapSettled,
                                LdapSyncs, Ldap!Unmirrored
<1>2. CASE Ldap!Search
  <2>1. /\ UNCHANGED <<rows, unmirrored, memberships, ldapJob, ldapRequests, ldapFaults, asked, open>>
        /\ ldapAt = "ready" /\ ldapAt' = "idle" /\ ldapJob' = Ldap!Idle
    BY <1>2 DEF Ldap!Search, Ldap!stores, Ldap!ghosts, LdapIInv, LdapPlaces
  <2>2. LdapTypes' /\ LdapKinds'
    BY <2>1 DEF LdapIInv, LdapTypes, LdapKinds, Ldap!There, Ldap!Unmirrored
  <2> QED BY <2>1, <2>2, LdapAside
<1>3. ASSUME NEW g \in Dns, NEW op \in {"add", "delete", "replace"}, NEW named \in SUBSET Dns,
             g \notin named, Ldap!ModifyMembers(g, op, named)
      PROVE  LdapIInv'
  BY <1>3, LdapModifies
<1>4. ASSUME NEW d \in Dns, NEW member \in SUBSET Dns, d \notin member,
             Ldap!AddObject(d, member) \/ Ldap!AddRefused(d, member)
      PROVE  LdapIInv'
  BY <1>4, LdapAdds, LdapAddsRefused
<1>5. ASSUME Ldap!Next
      PROVE  \/ Ldap!Mirror
             \/ \E g \in Dns, op \in {"add", "delete", "replace"}, named \in SUBSET Dns :
                  g \notin named /\ Ldap!ModifyMembers(g, op, named)
             \/ \E d \in Dns, member \in SUBSET Dns :
                  d \notin member /\ (Ldap!AddObject(d, member) \/ Ldap!AddRefused(d, member))
             \/ \E m \in Dns : Ldap!SyncMember(m) \/ Ldap!InsertRow(m)
             \/ Ldap!ClearRows \/ Ldap!Synced
             \/ \E d \in Dns : Ldap!RemoveObject(d)
             \/ Ldap!RemoveRow \/ Ldap!RemoveProjection
             \/ \E old, new \in Dns : Ldap!Rename(old, new)
             \/ \E g, m \in Dns, add \in BOOLEAN : Ldap!SamrUpdate(g, m, add)
             \/ Ldap!SamrRow
             \/ Ldap!Stops \/ Ldap!Search \/ \E g \in Dns : Ldap!AnswersBlind(g)
  BY <1>5 DEF Ldap!Next
<1> QED BY <1>1, <1>2, <1>3, <1>4, <1>5, LdapMirrors, LdapSyncsMember, LdapReplacesRows, LdapRemoves,
           LdapRemovesRow, LdapRemovesProjection, LdapRenames, LdapSamrUpdates, LdapSamrWritesRow,
           LdapStopped, LdapAnswersBlind

LEMMA LdapSound == LdapIInv => Ldap!MembershipsAgree
BY DEF LdapIInv, LdapGroup, LdapSettled, Holders, Named, Ldap!MembershipsAgree, Ldap!Members

LEMMA LdapTypeCorrect == LdapIInv => Ldap!TypeOK
<1> SUFFICES ASSUME LdapIInv
             PROVE  Ldap!TypeOK
  OBVIOUS
<1>1. (ldapAt \in {"idle", "ready"}) = (ldapJob = Ldap!Idle)
  BY DEF LdapIInv, LdapPlaces, Ldap!Idle
<1> QED BY <1>1 DEF LdapIInv, LdapTypes, LdapKeys, LdapPlaces, Ldap!There, Ldap!TypeOK

-----------------------------------------------------------------------------
(***************************************************************************)
(* LDAP searches.  Of the groups a chain finds those that can be reached:  *)
(* the names to look at are reachable, the names seen lead only to names   *)
(* seen or to be looked at, and each name seen is paid for with as many    *)
(* iterations as there are names.  A membership has two ends, so that a    *)
(* set closed upwards that leaves out a group gives one closed downwards   *)
(* that leaves out the member.                                             *)
(***************************************************************************)
LEMMA LdapCardinality == \A S : Ldap!Cardinality(S) = Cardinality(S)
BY DEF Ldap!Cardinality, Cardinality

\* The elements of a finite set, one after the other.
LEMMA LdapSetToSeq ==
    ASSUME NEW S, IsFiniteSet(S)
    PROVE  /\ Ldap!SetToSeq(S) \in Seq(S) /\ Len(Ldap!SetToSeq(S)) = Cardinality(S)
           /\ \A x \in S : \E n \in 1 .. Cardinality(S) : Ldap!SetToSeq(S)[n] = x
<1> DEFINE N == Cardinality(S)
           f == Ldap!SetToSeq(S)
<1>1. N \in Nat /\ ExistsBijection(1 .. N, S)
  BY FS_CardinalityType
<1>2. PICK b \in Bijection(1 .. N, S) : TRUE
  BY <1>1 DEF ExistsBijection
<1>3. b \in [1 .. N -> S] /\ Ldap!IsInjective(b)
  BY <1>2 DEF Bijection, Injection, IsInjective, Ldap!IsInjective
<1>4. f \in [1 .. N -> S] /\ Ldap!IsInjective(f)
  <2>1. f = CHOOSE g \in [1 .. N -> S] : Ldap!IsInjective(g)
    BY LdapCardinality DEF Ldap!SetToSeq
  <2> HIDE DEF f, N
  <2> QED BY <1>3, <2>1
<1>5. f \in Injection(1 .. N, S)
  BY <1>4 DEF Injection, IsInjective, Ldap!IsInjective
<1>6. f \in Surjection(1 .. N, S)
  <2>1. Cardinality(1 .. N) = N
    BY <1>1, FS_Interval
  <2> HIDE DEF f, N
  <2> QED BY <1>5, <2>1, FS_Injection DEF N
<1>7. \A x \in S : \E n \in 1 .. N : f[n] = x
  BY <1>6 DEF Surjection
<1>8. f \in Seq(S) /\ Len(f) = N
  <2> HIDE DEF f, N
  <2> QED BY <1>1, <1>4, FunctionOfSeq DEF N
<1> QED BY <1>7, <1>8

\* The names that the edges of a graph lead to.
IsGraph(edges) == \A x \in DOMAIN edges : edges[x] \in SUBSET Dns

Walks(edges) == [found : BOOLEAN, seen : SUBSET DOMAIN edges, todo : Seq(Dns)]
Begun == [found |-> FALSE, seen |-> {}, todo |-> <<>>]
Elements(s) == {s[n] : n \in 1 .. Len(s)}

\* A call: the names an object leads to come before those that waited.
LEMMA LdapOpens ==
    ASSUME NEW edges, IsGraph(edges), NEW w \in Walks(edges), NEW d,
           d \notin w.seen, d \in DOMAIN edges
    PROVE  LET v == Ldap!Opened(edges, w, d)
           IN  /\ v \in Walks(edges) /\ v.found = w.found
               /\ v.seen = w.seen \cup {d}
               /\ Len(v.todo) <= Cardinality(Dns) + Len(w.todo)
               /\ Elements(v.todo) = edges[d] \cup Elements(w.todo)
<1> DEFINE s == Ldap!SetToSeq(edges[d])
           v == Ldap!Opened(edges, w, d)
<1>1. w.seen \in SUBSET DOMAIN edges /\ w.todo \in Seq(Dns) /\ w.found \in BOOLEAN
  BY DEF Walks
<1>2. v = [w EXCEPT !.seen = @ \cup {d}, !.todo = s \o @]
  BY DEF Ldap!Opened
<1>3. v = [found |-> w.found, seen |-> w.seen \cup {d}, todo |-> s \o w.todo]
  BY <1>2 DEF Walks
<1>4. IsFiniteSet(Dns) /\ edges[d] \in SUBSET Dns
  BY DaemonsAssumption DEF DaemonsAssumption, IsGraph
<1>5. /\ IsFiniteSet(edges[d]) /\ Cardinality(edges[d]) <= Cardinality(Dns)
      /\ Cardinality(edges[d]) \in Nat /\ Cardinality(Dns) \in Nat
  BY <1>4, FS_Subset, FS_CardinalityType
<1>6. /\ s \in Seq(edges[d]) /\ Len(s) = Cardinality(edges[d])
      /\ \A x \in edges[d] : \E n \in 1 .. Cardinality(edges[d]) : s[n] = x
  BY <1>5, LdapSetToSeq
<1> HIDE DEF s
<1>7. s \in Seq(Dns)
  BY <1>4, <1>6
<1>8. /\ s \o w.todo \in Seq(Dns) /\ Len(s \o w.todo) = Len(s) + Len(w.todo)
      /\ \A n \in 1 .. Len(s) + Len(w.todo) :
            (s \o w.todo)[n] = IF n <= Len(s) THEN s[n] ELSE w.todo[n - Len(s)]
  BY <1>1, <1>7
<1>9. Elements(s) = edges[d]
  BY <1>6, <1>5 DEF Elements
<1>10. Elements(s \o w.todo) = Elements(s) \cup Elements(w.todo)
  <2>1. Len(s) \in Nat /\ Len(w.todo) \in Nat
    BY <1>1, <1>7
  <2>2. ASSUME NEW n \in 1 .. Len(s)
        PROVE  n \in 1 .. Len(s) + Len(w.todo) /\ (s \o w.todo)[n] = s[n]
    BY <1>8, <2>1
  <2>3. ASSUME NEW n \in 1 .. Len(w.todo)
        PROVE  n + Len(s) \in 1 .. Len(s) + Len(w.todo) /\ (s \o w.todo)[n + Len(s)] = w.todo[n]
    <3>1. n + Len(s) \in 1 .. Len(s) + Len(w.todo) /\ ~(n + Len(s) <= Len(s)) /\ n + Len(s) - Len(s) = n
      BY <2>1
    <3> QED BY <1>8, <3>1
  <2>4. Elements(s) \cup Elements(w.todo) \subseteq Elements(s \o w.todo)
    BY <1>8, <2>2, <2>3 DEF Elements
  <2>5. ASSUME NEW n \in 1 .. Len(s) + Len(w.todo)
        PROVE  (s \o w.todo)[n] \in Elements(s) \cup Elements(w.todo)
    <3>1. CASE n <= Len(s)
      BY <1>8, <2>1, <3>1 DEF Elements
    <3>2. CASE ~(n <= Len(s))
      <4>1. n - Len(s) \in 1 .. Len(w.todo)
        BY <2>1, <3>2
      <4> QED BY <1>8, <3>2, <4>1 DEF Elements
    <3> QED BY <3>1, <3>2
  <2>6. Elements(s \o w.todo) \subseteq Elements(s) \cup Elements(w.todo)
    BY <1>8, <2>5 DEF Elements
  <2> QED BY <2>4, <2>6
<1>11. v \in Walks(edges)
  BY <1>1, <1>3, <1>8 DEF Walks
<1>12. Len(w.todo) \in Nat
  BY <1>1
<1> QED BY <1>3, <1>5, <1>6, <1>8, <1>9, <1>10, <1>11, <1>12

LEMMA LdapRest ==
    ASSUME NEW edges, NEW w \in Walks(edges), NEW t \in Seq(Dns)
    PROVE  LET u == [w EXCEPT !.todo = t]
           IN  /\ u.found = w.found /\ u.seen = w.seen /\ u.todo = t
               /\ u \in Walks(edges)
<1>1. [w EXCEPT !.todo = t] = [found |-> w.found, seen |-> w.seen, todo |-> t]
  BY DEF Walks
<1> QED BY <1>1 DEF Walks

\* An iteration.
LEMMA LdapFollows ==
    ASSUME NEW edges, IsGraph(edges), NEW w \in Walks(edges), NEW target,
           ~w.found, w.todo # <<>>, Head(w.todo) # target
    PROVE  LET d == Head(w.todo)
               v == Ldap!Followed(edges, w, target)
           IN  /\ d \in Elements(w.todo) /\ Elements(w.todo) = Elements(Tail(w.todo)) \cup {d}
               /\ v \in Walks(edges) /\ ~v.found
               /\ IF d \in w.seen \/ d \notin DOMAIN edges
                  THEN /\ v.seen = w.seen
                       /\ Len(v.todo) = Len(w.todo) - 1
                       /\ Elements(v.todo) = Elements(Tail(w.todo))
                  ELSE /\ v.seen = w.seen \cup {d}
                       /\ Len(v.todo) <= Cardinality(Dns) + Len(w.todo) - 1
                       /\ Elements(v.todo) = edges[d] \cup Elements(Tail(w.todo))
<1> DEFINE d == Head(w.todo)
           u == [w EXCEPT !.todo = Tail(@)]
           v == Ldap!Followed(edges, w, target)
<1>0. Tail(w.todo) \in Seq(Dns)
  BY DEF Walks
<1>1. w.seen \in SUBSET DOMAIN edges /\ w.todo \in Seq(Dns) /\ w.found = FALSE
  BY DEF Walks
<1>2. /\ u.found = w.found /\ u.seen = w.seen /\ u.todo = Tail(w.todo)
      /\ u \in Walks(edges)
  BY <1>0, LdapRest
<1>3. /\ Len(w.todo) \in Nat \ {0} /\ d = w.todo[1] /\ Tail(w.todo) \in Seq(Dns)
      /\ Len(Tail(w.todo)) = Len(w.todo) - 1
      /\ \A n \in 1 .. Len(w.todo) - 1 : Tail(w.todo)[n] = w.todo[n + 1]
  BY <1>1
<1>4. u \in Walks(edges)
  BY <1>2
<1>5. d \in Elements(w.todo) /\ Elements(w.todo) = Elements(Tail(w.todo)) \cup {d}
  <2>1. 1 \in 1 .. Len(w.todo)
    BY <1>3
  <2>2. ASSUME NEW n \in 1 .. Len(w.todo) - 1
        PROVE  Tail(w.todo)[n] \in Elements(w.todo)
    <3>1. n + 1 \in 1 .. Len(w.todo) /\ Tail(w.todo)[n] = w.todo[n + 1]
      BY <1>3
    <3> QED BY <3>1 DEF Elements
  <2>3. ASSUME NEW n \in 1 .. Len(w.todo), n # 1
        PROVE  w.todo[n] \in Elements(Tail(w.todo))
    <3>1. n - 1 \in 1 .. Len(w.todo) - 1 /\ n - 1 + 1 = n
      BY <1>3, <2>3
    <3>2. Tail(w.todo)[n - 1] = w.todo[n]
      BY <1>3, <3>1
    <3> QED BY <1>3, <3>1, <3>2 DEF Elements
  <2>4. Elements(Tail(w.todo)) = {Tail(w.todo)[n] : n \in 1 .. Len(w.todo) - 1}
    BY <1>3 DEF Elements
  <2> QED BY <1>3, <2>1, <2>2, <2>3, <2>4 DEF Elements
<1>6. v = Ldap!Opened(edges, u, d)
  BY <1>1 DEF Ldap!Followed
<1>7. u.found = FALSE /\ u.seen = w.seen /\ u.todo = Tail(w.todo)
  BY <1>1, <1>2
<1> HIDE DEF u, d, v
<1>8. CASE d \in w.seen \/ d \notin DOMAIN edges
  <2>1. v = u
    BY <1>6, <1>7, <1>8 DEF Ldap!Opened
  <2> QED BY <1>3, <1>4, <1>5, <1>7, <1>8, <2>1 DEF d, v
<1>9. CASE ~(d \in w.seen \/ d \notin DOMAIN edges)
  <2>1. /\ v \in Walks(edges) /\ v.found = u.found
        /\ v.seen = u.seen \cup {d}
        /\ Len(v.todo) <= Cardinality(Dns) + Len(u.todo)
        /\ Elements(v.todo) = edges[d] \cup Elements(u.todo)
    <3>1. d \notin u.seen /\ d \in DOMAIN edges
      BY <1>7, <1>9
    <3>2. LET x == Ldap!Opened(edges, u, d)
          IN  /\ x \in Walks(edges) /\ x.found = u.found
              /\ x.seen = u.seen \cup {d}
              /\ Len(x.todo) <= Cardinality(Dns) + Len(u.todo)
              /\ Elements(x.todo) = edges[d] \cup Elements(u.todo)
      BY <1>4, <3>1, LdapOpens
    <3> QED BY <1>6, <3>2
  <2>2. Cardinality(Dns) \in Nat
    BY DaemonsAssumption, FS_CardinalityType DEF DaemonsAssumption
  <2>3. Len(v.todo) \in Nat
    BY <2>1 DEF Walks
  <2> QED BY <1>3, <1>5, <1>7, <1>9, <2>1, <2>2, <2>3 DEF d, v
<1> QED BY <1>8, <1>9

\* The states of a walk, an iteration after the other.
IsWalk(walk, edges, o, target, N) ==
    walk = [n \in 0 .. N |-> IF n = 0 THEN Ldap!Opened(edges, Begun, o)
                             ELSE Ldap!Followed(edges, walk[n - 1], target)]

\* There is one.
LEMMA LdapWalk ==
    ASSUME NEW edges, NEW o, NEW target, NEW N \in Nat
    PROVE  \E walk : IsWalk(walk, edges, o, target, N)
<1> DEFINE Body(walk, n) == IF n = 0 THEN Ldap!Opened(edges, Begun, o)
                            ELSE Ldap!Followed(edges, walk[n - 1], target)
           Good(k) == \E walk : IsWalk(walk, edges, o, target, k)
           Bad == {k \in Nat : ~Good(k)}
<1>1. Good(0)
  <2> DEFINE walk == [n \in 0 .. 0 |-> Ldap!Opened(edges, Begun, o)]
  <2>1. \A n \in 0 .. 0 : Body(walk, n) = Ldap!Opened(edges, Begun, o)
    OBVIOUS
  <2>2. walk = [n \in 0 .. 0 |-> Body(walk, n)]
    BY <2>1
  <2> QED BY <2>2 DEF IsWalk
<1>2. ASSUME NEW k \in Nat, Good(k)
      PROVE  Good(k + 1)
  <2>1. PICK walk : walk = [n \in 0 .. k |-> Body(walk, n)]
    BY <1>2 DEF IsWalk
  <2> DEFINE next == [n \in 0 .. k + 1 |-> IF n = k + 1 THEN Ldap!Followed(edges, walk[k], target)
                                           ELSE walk[n]]
  <2>2. ASSUME NEW n \in 0 .. k + 1
        PROVE  next[n] = Body(next, n)
    <3>1. CASE n = k + 1
      <4>1. next[k + 1 - 1] = walk[k] /\ n # 0 /\ n - 1 = k
        BY <3>1
      <4> QED BY <3>1, <4>1
    <3>2. CASE n # k + 1
      <4>1. n \in 0 .. k /\ next[n] = walk[n]
        BY <3>2
      <4>2. walk[n] = Body(walk, n)
        BY <2>1, <4>1
      <4>3. n # 0 => n - 1 \in 0 .. k + 1 /\ n - 1 # k + 1 /\ next[n - 1] = walk[n - 1]
        BY <4>1
      <4> QED BY <4>1, <4>2, <4>3
    <3> QED BY <3>1, <3>2
  <2>3. next = [n \in 0 .. k + 1 |-> next[n]]
    OBVIOUS
  <2>4. next = [n \in 0 .. k + 1 |-> Body(next, n)]
    <3> HIDE DEF next, Body
    <3> QED BY <2>2, <2>3
  <2> QED BY <2>4 DEF IsWalk
<1>3. Bad = {}
  <2> SUFFICES ASSUME Bad # {}
               PROVE  FALSE
    OBVIOUS
  <2>1. PICK k \in Bad : \A j \in Bad : k <= j
    <3>1. Bad \subseteq Nat
      OBVIOUS
    <3> HIDE DEF Bad
    <3> QED BY <3>1, LeastNatural
  <2> HIDE DEF Good
  <2>2. k \in Nat /\ k # 0
    BY <1>1
  <2>3. k - 1 \in Nat /\ k - 1 + 1 = k /\ ~(k <= k - 1)
    BY <2>2
  <2>4. Good(k - 1)
    BY <2>1, <2>3
  <2>5. Good(k - 1 + 1)
    BY <1>2, <2>3, <2>4
  <2> QED BY <2>3, <2>5
<1>4. Good(N)
  <2> HIDE DEF Good
  <2> QED BY <1>3
<1> QED BY <1>4

\* Sets that hold what an object leads to, and with a name what that leads to.
Closed(edges, o, C) ==
    edges[o] \subseteq C /\ \A x \in C \cap DOMAIN edges : edges[x] \subseteq C

\* After n iterations: what is to be looked at can be reached; what the names
\* visited lead to was looked at, or is to be; and there is an end.
Walked(edges, o, target, w, n) ==
    /\ w \in Walks(edges)
    /\ o \in w.seen /\ w.seen \ {o} \subseteq Dns
    /\ \A C \in SUBSET Dns : Closed(edges, o, C) =>
         Elements(w.todo) \subseteq C /\ (w.found => target \in C)
    /\ ~w.found => \A x \in w.seen : \A y \in edges[x] :
         y \in Elements(w.todo) \/ (y # target /\ (y \in w.seen \/ y \notin DOMAIN edges))
    /\ \/ w.found \/ w.todo = <<>>
       \/ n + Len(w.todo) <= Cardinality(Dns) * (Cardinality(w.seen \ {o}) + 1)

LEMMA LdapWalkBegins ==
    ASSUME NEW edges, IsGraph(edges), NEW o \in DOMAIN edges, NEW target
    PROVE  Walked(edges, o, target, Ldap!Opened(edges, Begun, o), 0)
<1> DEFINE v == Ldap!Opened(edges, Begun, o)
<1>1. Begun \in Walks(edges) /\ o \notin Begun.seen /\ Begun.seen = {} /\ ~Begun.found /\ Begun.todo = <<>>
  BY DEF Walks, Begun
<1>2. /\ v \in Walks(edges) /\ v.found = Begun.found
      /\ v.seen = Begun.seen \cup {o}
      /\ Len(v.todo) <= Cardinality(Dns) + Len(Begun.todo)
      /\ Elements(v.todo) = edges[o] \cup Elements(Begun.todo)
  BY <1>1, LdapOpens
<1>3. Elements(<<>>) = {}
  BY DEF Elements
<1>4. Cardinality(Dns) \in Nat
  BY DaemonsAssumption, FS_CardinalityType DEF DaemonsAssumption
<1>5. Len(v.todo) \in Nat /\ Len(v.todo) <= Cardinality(Dns)
  <2>1. Len(Begun.todo) = 0 /\ Len(v.todo) \in Nat
    BY <1>1, <1>2 DEF Walks
  <2> QED BY <1>2, <1>4, <2>1
<1>6. v.seen = {o} /\ Elements(v.todo) = edges[o] /\ ~v.found
  BY <1>1, <1>2, <1>3
<1>7. Cardinality(v.seen \ {o}) = 0
  BY <1>6, FS_EmptySet
<1>8. 0 + Len(v.todo) <= Cardinality(Dns) * (Cardinality(v.seen \ {o}) + 1)
  <2>1. Cardinality(Dns) * (0 + 1) = Cardinality(Dns)
    BY <1>4
  <2> QED BY <1>5, <1>7, <2>1
<1>9. Walked(edges, o, target, v, 0)
  <2> HIDE DEF v
  <2> QED BY <1>2, <1>6, <1>8 DEF Walked, Closed
<1> QED BY <1>9

LEMMA LdapWalkGoesOn ==
    ASSUME NEW edges, IsGraph(edges), NEW o \in DOMAIN edges, NEW target, NEW w, NEW n \in Nat,
           Walked(edges, o, target, w, n)
    PROVE  Walked(edges, o, target, Ldap!Followed(edges, w, target), n + 1)
<1> DEFINE v == Ldap!Followed(edges, w, target)
           d == Head(w.todo)
           K == Cardinality(Dns)
           S == w.seen \ {o}
<1>0. w \in Walks(edges) /\ w.todo \in Seq(Dns) /\ w.found \in BOOLEAN /\ w.seen \in SUBSET DOMAIN edges
  BY DEF Walked, Walks
<1>1. CASE w.found \/ w.todo = <<>>
  <2>1. v = w
    BY <1>1 DEF Ldap!Followed
  <2> QED BY <1>1, <2>1 DEF Walked
<1>2. CASE ~w.found /\ w.todo # <<>> /\ d = target
  <2>1. v = [w EXCEPT !.found = TRUE]
    BY <1>2 DEF Ldap!Followed
  <2>2. v \in Walks(edges) /\ v.found /\ v.seen = w.seen /\ v.todo = w.todo
    BY <1>0, <2>1 DEF Walks
  <2>3. d \in Elements(w.todo)
    <3>1. Len(w.todo) \in Nat \ {0} /\ d = w.todo[1]
      BY <1>0, <1>2
    <3>2. 1 \in 1 .. Len(w.todo)
      BY <3>1
    <3> QED BY <3>1, <3>2 DEF Elements
  <2>4. Walked(edges, o, target, v, n + 1)
    <3> HIDE DEF v, d
    <3> QED BY <1>2, <2>2, <2>3 DEF Walked
  <2> QED BY <2>4
<1>3. CASE ~w.found /\ w.todo # <<>> /\ d # target
  <2> DEFINE opens == ~(d \in w.seen \/ d \notin DOMAIN edges)
  <2>1. /\ d \in Elements(w.todo) /\ Elements(w.todo) = Elements(Tail(w.todo)) \cup {d}
        /\ v \in Walks(edges) /\ ~v.found
        /\ ~opens => /\ v.seen = w.seen
                     /\ Len(v.todo) = Len(w.todo) - 1
                     /\ Elements(v.todo) = Elements(Tail(w.todo))
        /\ opens => /\ v.seen = w.seen \cup {d}
                    /\ Len(v.todo) <= Cardinality(Dns) + Len(w.todo) - 1
                    /\ Elements(v.todo) = edges[d] \cup Elements(Tail(w.todo))
    <3>1. LET x == Ldap!Followed(edges, w, target)
          IN  /\ d \in Elements(w.todo) /\ Elements(w.todo) = Elements(Tail(w.todo)) \cup {d}
              /\ x \in Walks(edges) /\ ~x.found
              /\ IF d \in w.seen \/ d \notin DOMAIN edges
                 THEN /\ x.seen = w.seen
                      /\ Len(x.todo) = Len(w.todo) - 1
                      /\ Elements(x.todo) = Elements(Tail(w.todo))
                 ELSE /\ x.seen = w.seen \cup {d}
                      /\ Len(x.todo) <= Cardinality(Dns) + Len(w.todo) - 1
                      /\ Elements(x.todo) = edges[d] \cup Elements(Tail(w.todo))
      BY <1>0, <1>3, LdapFollows
    <3> QED BY <3>1
  <2> HIDE DEF v, d
  <2>2. d \in Dns
    <3>1. \A m \in 1 .. Len(w.todo) : w.todo[m] \in Dns
      BY <1>0
    <3> QED BY <2>1, <3>1 DEF Elements
  <2>3. o \in v.seen /\ v.seen \ {o} \subseteq Dns
    BY <2>1, <2>2 DEF Walked
  <2>4. ASSUME NEW C \in SUBSET Dns, Closed(edges, o, C)
        PROVE  Elements(v.todo) \subseteq C
    <3>1. Elements(w.todo) \subseteq C
      BY <2>4 DEF Walked
    <3>2. opens => edges[d] \subseteq C
      BY <2>1, <2>4, <3>1 DEF Closed
    <3> QED BY <2>1, <3>1, <3>2
  <2>5. ASSUME NEW x \in v.seen, NEW y \in edges[x], y \notin Elements(v.todo)
        PROVE  y # target /\ (y \in v.seen \/ y \notin DOMAIN edges)
    <3>1. x \in w.seen
      BY <2>1, <2>5
    <3>2. y \in Elements(w.todo) \/ (y # target /\ (y \in w.seen \/ y \notin DOMAIN edges))
      BY <1>3, <3>1 DEF Walked
    <3> QED BY <1>3, <2>1, <2>5, <3>2
  <2>6. n + 1 + Len(v.todo) <= K * (Cardinality(v.seen \ {o}) + 1)
    <3>1. IsFiniteSet(Dns) /\ K \in Nat
      BY DaemonsAssumption, FS_CardinalityType DEF DaemonsAssumption
    <3>2. IsFiniteSet(S) /\ Cardinality(S) \in Nat
      <4>1. S \in SUBSET Dns
        BY DEF Walked
      <4> HIDE DEF S
      <4> QED BY <3>1, <4>1, FS_Subset, FS_CardinalityType
    <3>3. n + Len(w.todo) <= K * (Cardinality(S) + 1)
      BY <1>3 DEF Walked
    <3>4. Len(w.todo) \in Nat /\ Len(v.todo) \in Nat
      BY <1>0, <2>1 DEF Walks
    <3> DEFINE B == K * (Cardinality(S) + 1)
    <3>5. CASE ~opens
      <4>1. K * (Cardinality(v.seen \ {o}) + 1) = B /\ Len(v.todo) = Len(w.todo) - 1
        BY <2>1, <3>5
      <4>2. B \in Nat
        <5> HIDE DEF K, S
        <5> QED BY <3>1, <3>2
      <4>3. n + Len(w.todo) <= B
        BY <3>3
      <4>4. n + 1 + Len(v.todo) <= B
        <5>1. \A p, q, b \in Nat : n + p <= b /\ q = p - 1 => n + 1 + q <= b
          OBVIOUS
        <5> HIDE DEF B
        <5> QED BY <3>4, <4>1, <4>2, <4>3, <5>1
      <4> QED BY <4>1, <4>4
    <3>6. CASE opens
      <4>1. v.seen \ {o} = S \cup {d} /\ d \notin S
        BY <2>1, <3>6 DEF Walked
      <4>2. Cardinality(v.seen \ {o}) = Cardinality(S) + 1
        <5> HIDE DEF S
        <5> QED BY <3>2, <4>1, FS_AddElement
      <4>3. K * (Cardinality(S) + 1 + 1) = K * (Cardinality(S) + 1) + K
        <5> HIDE DEF K, S
        <5> QED BY <3>1, <3>2
      <4>4. K * (Cardinality(S) + 1) \in Nat
        <5> HIDE DEF K, S
        <5> QED BY <3>1, <3>2
      <4>5. Len(v.todo) <= K + Len(w.todo) - 1
        BY <2>1, <3>6
      <4>6. n + 1 + Len(v.todo) <= B + K
        <5>1. n + Len(w.todo) <= B /\ B \in Nat
          BY <3>3, <4>4
        <5>2. \A p, q, b, k \in Nat : n + p <= b /\ q <= k + p - 1 => n + 1 + q <= b + k
          OBVIOUS
        <5> HIDE DEF B, K
        <5> QED BY <3>1, <3>4, <4>5, <5>1, <5>2
      <4> QED BY <4>2, <4>3, <4>6
    <3> QED BY <3>5, <3>6
  <2>7. Walked(edges, o, target, v, n + 1)
    BY <2>1, <2>3, <2>4, <2>5, <2>6 DEF Walked
  <2> QED BY <2>7 DEF v
<1> QED BY <1>0, <1>1, <1>2, <1>3

\* The walk of a chain ends, and it finds what can be reached, whatever
\* circles there are among the groups: member_of_chain_contains and
\* member_chain_contains, for any memberships.
THEOREM ChainFinds ==
    ASSUME NEW edges, IsGraph(edges), NEW o \in DOMAIN edges, NEW target
    PROVE  Ldap!Chain(edges, o, target) <=> target \in Ldap!Reached(edges, o)
<1> DEFINE N == Ldap!Iterations
           K == Cardinality(Dns)
<1>1. IsFiniteSet(Dns) /\ K \in Nat
  BY DaemonsAssumption, FS_CardinalityType DEF DaemonsAssumption
<1>2. N = (K + 1) * K /\ N \in Nat
  <2>1. N = (K + 1) * K
    BY LdapCardinality DEF Ldap!Iterations
  <2> HIDE DEF N, K
  <2> QED BY <1>1, <2>1
<1> DEFINE Is(walk) == IsWalk(walk, edges, o, target, N)
<1>3. \E walk : Is(walk)
  <2> HIDE DEF N
  <2> QED BY <1>2, LdapWalk
<1> DEFINE walk == CHOOSE f : Is(f)
<1>4. Is(walk)
  <2> HIDE DEF Is
  <2> QED BY <1>3
<1>5. Ldap!Chain(edges, o, target) = walk[N].found
  BY DEF Ldap!Chain, Begun, IsWalk
<1> HIDE DEF walk
<1>6. walk[0] = Ldap!Opened(edges, Begun, o)
  BY <1>2, <1>4 DEF IsWalk
<1>7. ASSUME NEW n \in 0 .. N, n # N
      PROVE  walk[n + 1] = Ldap!Followed(edges, walk[n], target)
  <2> HIDE DEF N
  <2>1. n + 1 \in 0 .. N /\ n + 1 # 0 /\ n + 1 - 1 = n
    BY <1>2, <1>7
  <2> QED BY <1>4, <2>1 DEF IsWalk
<1> HIDE DEF Is
<1> DEFINE Good(n) == Walked(edges, o, target, walk[n], n)
           Bad == {n \in 0 .. N : ~Good(n)}
<1>8. Bad = {}
  <2> SUFFICES ASSUME Bad # {}
               PROVE  FALSE
    OBVIOUS
  <2>1. PICK n \in Bad : \A m \in Bad : n <= m
    <3>1. Bad \subseteq Nat
      OBVIOUS
    <3> HIDE DEF Bad
    <3> QED BY <3>1, LeastNatural
  <2>2. n # 0
    BY <1>6, LdapWalkBegins
  <2>3. n - 1 \in 0 .. N /\ n - 1 # N /\ n - 1 \in Nat /\ n - 1 + 1 = n /\ ~(n <= n - 1)
    <3> HIDE DEF N
    <3> QED BY <1>2, <2>2
  <2>4. Good(n - 1)
    BY <2>1, <2>3
  <2>5. walk[n] = Ldap!Followed(edges, walk[n - 1], target)
    BY <1>7, <2>3
  <2>6. Good(n)
    BY <2>3, <2>4, <2>5, LdapWalkGoesOn
  <2> QED BY <2>6
<1> DEFINE w == walk[N]
<1>9. Walked(edges, o, target, w, N)
  BY <1>2, <1>8
<1> HIDE DEF w, Bad
<1>10. w \in Walks(edges) /\ w.todo \in Seq(Dns)
  BY <1>9 DEF Walked, Walks
<1>11. w.found \/ w.todo = <<>>
  <2> SUFFICES ASSUME ~w.found, w.todo # <<>>
               PROVE  FALSE
    OBVIOUS
  <2> DEFINE S == w.seen \ {o}
  <2>1. S \in SUBSET Dns
    BY <1>9 DEF Walked
  <2>2. Cardinality(S) \in Nat /\ Cardinality(S) <= K
    <3> HIDE DEF S
    <3> QED BY <1>1, <2>1, FS_Subset, FS_CardinalityType
  <2>3. N + Len(w.todo) <= K * (Cardinality(S) + 1)
    BY <1>9 DEF Walked
  <2>4. Len(w.todo) \in Nat \ {0}
    BY <1>10
  <2>5. K * (Cardinality(S) + 1) <= (K + 1) * K
    <3> DEFINE c == Cardinality(S)
    <3>1. \A a, b \in Nat : b <= a => a * (b + 1) <= (a + 1) * a
      OBVIOUS
    <3> HIDE DEF K, c
    <3> QED BY <1>1, <2>2, <3>1 DEF c
  <2>6. K * (Cardinality(S) + 1) \in Nat
    <3> HIDE DEF K, S
    <3> QED BY <1>1, <2>2
  <2> DEFINE B == K * (Cardinality(S) + 1)
  <2> HIDE DEF B, N, K
  <2> QED BY <1>2, <2>3, <2>4, <2>5, <2>6 DEF B
<1>12. CASE w.found
  <2>1. target \in Dns
    <3>1. Closed(edges, o, Dns)
      BY DEF Closed, IsGraph
    <3> QED BY <1>9, <1>12, <3>1 DEF Walked
  <2>2. target \in Ldap!Reached(edges, o)
    BY <1>9, <1>12, <2>1 DEF Walked, Closed, Ldap!Reached
  <2> QED BY <1>5, <1>12, <2>2 DEF w
<1>13. CASE ~w.found
  <2> DEFINE C == {y \in Dns : y # target /\ (y \in w.seen \/ y \notin DOMAIN edges)}
  <2>1. Elements(w.todo) = {}
    BY <1>11, <1>13 DEF Elements
  <2>2. \A x \in w.seen : edges[x] \subseteq C
    <3>1. w.seen \subseteq DOMAIN edges
      BY <1>10 DEF Walks
    <3>2. \A x \in w.seen : \A y \in edges[x] : y # target /\ (y \in w.seen \/ y \notin DOMAIN edges)
      BY <1>9, <1>13, <2>1 DEF Walked
    <3> QED BY <3>1, <3>2 DEF IsGraph
  <2>3. edges[o] \subseteq C /\ \A x \in C \cap DOMAIN edges : edges[x] \subseteq C
    BY <1>9, <2>2 DEF Walked
  <2>4. target \notin Ldap!Reached(edges, o)
    <3>1. C \in SUBSET Dns /\ target \notin C
      OBVIOUS
    <3> HIDE DEF C
    <3> QED BY <2>3, <3>1 DEF Ldap!Reached
  <2> QED BY <1>5, <1>13, <2>4 DEF w
<1> QED BY <1>12, <1>13

\* The rows are of names, and so is what they hold.
LdapRows == DOMAIN rows \subseteq Dns /\ rows \in [DOMAIN rows -> Ldap!Row]

LEMMA LdapGraphs ==
    ASSUME LdapRows
    PROVE  /\ IsGraph(Ldap!UpEdges) /\ DOMAIN Ldap!UpEdges = Ldap!Searchable
           /\ \A o \in Ldap!Searchable : Ldap!UpEdges[o] = Ldap!MemberOf(o)
           /\ IsGraph(Ldap!DownEdges) /\ DOMAIN Ldap!DownEdges = Ldap!Groups
           /\ \A g \in Ldap!Groups : Ldap!DownEdges[g] = Ldap!Members(g)
           /\ Ldap!There \subseteq Dns /\ Ldap!There \subseteq Ldap!Searchable
           /\ Ldap!Groups \subseteq Ldap!There
<1>1. Ldap!Groups \subseteq Ldap!There /\ Ldap!There \subseteq Dns
  BY DEF LdapRows, Ldap!Groups, Ldap!There
<1>2. Ldap!There \subseteq Ldap!Searchable
  BY DEF Ldap!Searchable
<1>3. \A o : Ldap!MemberOf(o) \subseteq Ldap!Groups
  BY DEF Ldap!MemberOf
<1>4. \A g \in Ldap!Groups : Ldap!Members(g) \subseteq Dns
  <2>1. \A g \in Ldap!Groups : rows[g].member \subseteq Dns
    BY DEF LdapRows, Ldap!Row, Ldap!Groups, Ldap!There
  <2> QED BY <1>1, <2>1 DEF Ldap!Members
<1> QED BY <1>1, <1>2, <1>3, <1>4 DEF IsGraph, Ldap!UpEdges, Ldap!DownEdges

\* What is above an object by way of its groups has it below by way of its members.
LEMMA LdapBothWays ==
    ASSUME LdapRows, NEW o \in Ldap!There, NEW g \in Ldap!Groups, o # g
    PROVE  g \in Ldap!Reached(Ldap!UpEdges, o) <=> o \in Ldap!Reached(Ldap!DownEdges, g)
<1>1. \A x \in Ldap!There, y \in Ldap!Groups :
         x # y => (y \in Ldap!MemberOf(x) <=> x \in Ldap!Members(y))
  BY DEF Ldap!MemberOf, Ldap!GroupContains, Ldap!Members
<1>2. /\ Ldap!There \subseteq Dns /\ Ldap!There \subseteq Ldap!Searchable
      /\ Ldap!Groups \subseteq Ldap!There
  BY LdapGraphs
<1>3. \A x : Ldap!MemberOf(x) \subseteq Ldap!Groups
  BY DEF Ldap!MemberOf
<1>4. ASSUME NEW C \in SUBSET Dns, Closed(Ldap!UpEdges, o, C), g \notin C
      PROVE  \E E \in SUBSET Dns : Closed(Ldap!DownEdges, g, E) /\ o \notin E
  <2> DEFINE E == {x \in Dns : x # o /\ ~(x \in C /\ x \in Ldap!There)}
  <2>1. ASSUME NEW y \in Ldap!Groups, y \in E, NEW x \in Ldap!Members(y)
        PROVE  x \in E
    <3>1. x \in Dns
      BY LdapGraphs DEF IsGraph
    <3>2. y \notin C
      BY <1>2, <2>1
    <3>3. x # o
      <4> SUFFICES ASSUME x = o
                   PROVE  FALSE
        OBVIOUS
      <4>1. y \in Ldap!MemberOf(o)
        BY <1>1, <2>1
      <4> QED BY <1>2, <1>4, <3>2, <4>1, LdapGraphs DEF Closed
    <3>4. ~(x \in C /\ x \in Ldap!There)
      <4> SUFFICES ASSUME x \in C, x \in Ldap!There
                   PROVE  FALSE
        OBVIOUS
      <4>1. y \in Ldap!MemberOf(x)
        BY <1>1, <3>2
      <4>2. Ldap!MemberOf(x) \subseteq C
        BY <1>2, <1>4, LdapGraphs DEF Closed
      <4> QED BY <3>2, <4>1, <4>2
    <3> QED BY <3>1, <3>3, <3>4
  <2>2. g \in E
    BY <1>2, <1>4
  <2>3. E \in SUBSET Dns /\ o \notin E
    OBVIOUS
  <2> HIDE DEF E
  <2>4. Closed(Ldap!DownEdges, g, E)
    BY <2>1, <2>2, LdapGraphs DEF Closed
  <2> QED BY <2>3, <2>4
<1>5. ASSUME NEW C \in SUBSET Dns, Closed(Ldap!DownEdges, g, C), o \notin C
      PROVE  \E E \in SUBSET Dns : Closed(Ldap!UpEdges, o, E) /\ g \notin E
  <2> DEFINE E == {x \in Ldap!There : x # g /\ x \notin C}
  <2>1. ASSUME NEW y \in Ldap!There, y \in E, NEW x \in Ldap!MemberOf(y)
        PROVE  x \in E
    <3>1. x \in Ldap!Groups /\ x # y /\ x \in Ldap!There
      BY <1>2 DEF Ldap!MemberOf, Ldap!GroupContains
    <3>2. y \in Ldap!Members(x)
      BY <1>1, <3>1
    <3>3. x # g
      BY <1>5, <2>1, <3>2, LdapGraphs DEF Closed
    <3>4. x \notin C
      <4> SUFFICES ASSUME x \in C
                   PROVE  FALSE
        OBVIOUS
      <4>1. Ldap!Members(x) \subseteq C
        BY <1>5, <3>1, LdapGraphs DEF Closed
      <4> QED BY <2>1, <3>2, <4>1
    <3> QED BY <3>1, <3>3, <3>4
  <2>2. o \in E
    BY <1>5
  <2>3. E \in SUBSET Dns /\ g \notin E /\ E \subseteq Ldap!There
    BY <1>2
  <2> HIDE DEF E
  <2>4. Closed(Ldap!UpEdges, o, E)
    BY <1>2, <2>1, <2>2, <2>3, LdapGraphs DEF Closed
  <2> QED BY <2>3, <2>4
<1>6. \A edges, x, y : y \in Dns =>
         (y \in Ldap!Reached(edges, x) <=> \A C \in SUBSET Dns : Closed(edges, x, C) => y \in C)
  BY DEF Ldap!Reached, Closed
<1>7. g \in Ldap!Reached(Ldap!UpEdges, o) <=> \A C \in SUBSET Dns : Closed(Ldap!UpEdges, o, C) => g \in C
  BY <1>2, <1>6
<1>8. o \in Ldap!Reached(Ldap!DownEdges, g) <=> \A C \in SUBSET Dns : Closed(Ldap!DownEdges, g, C) => o \in C
  BY <1>2, <1>6
<1>9. g \in Ldap!Reached(Ldap!UpEdges, o) => o \in Ldap!Reached(Ldap!DownEdges, g)
  BY <1>5, <1>7, <1>8
<1>10. o \in Ldap!Reached(Ldap!DownEdges, g) => g \in Ldap!Reached(Ldap!UpEdges, o)
  BY <1>4, <1>7, <1>8
<1> QED BY <1>9, <1>10

LEMMA LdapChainsReach == LdapRows => Ldap!ChainsReach
<1> SUFFICES ASSUME LdapRows, NEW o \in Ldap!There, NEW g \in Ldap!Groups
             PROVE  /\ Ldap!Transitive(o, "memberOf", g) = (g \in Ldap!Reached(Ldap!UpEdges, o))
                    /\ Ldap!Transitive(g, "member", o) = (o \in Ldap!Reached(Ldap!DownEdges, g))
                    /\ o # g => Ldap!Transitive(o, "memberOf", g) = Ldap!Transitive(g, "member", o)
  BY DEF Ldap!ChainsReach
<1>1. Ldap!Transitive(o, "memberOf", g) <=> g \in Ldap!Reached(Ldap!UpEdges, o)
  BY LdapGraphs, ChainFinds DEF Ldap!Transitive
<1>2. Ldap!Transitive(g, "member", o) <=> o \in Ldap!Reached(Ldap!DownEdges, g)
  BY LdapGraphs, ChainFinds DEF Ldap!Transitive
<1>3. /\ Ldap!Transitive(o, "memberOf", g) \in BOOLEAN
      /\ Ldap!Transitive(g, "member", o) \in BOOLEAN
  BY DEF Ldap!Transitive
<1> QED BY <1>1, <1>2, <1>3, LdapBothWays

-----------------------------------------------------------------------------
\* A filter of one assertion.
LEMMA LdapAsserts ==
    ASSUME NEW f, NEW o, NEW value \in BOOLEAN, DOMAIN f = {1},
           \/ f[1].op = "present" /\ value = Ldap!Has(o, f[1].attribute)
           \/ f[1].op = "equal" /\ value = Ldap!Equals(o, f[1].attribute, f[1].value)
    PROVE  Ldap!Matches(f, o) = value
<1> DEFINE Body(holds, n) ==
             CASE f[n].op = "and" -> \A part \in f[n].parts : holds[part]
               [] f[n].op = "or" -> \E part \in f[n].parts : holds[part]
               [] f[n].op = "not" -> ~holds[f[n].part]
               [] f[n].op = "present" -> Ldap!Has(o, f[n].attribute)
               [] f[n].op = "equal" -> Ldap!Equals(o, f[n].attribute, f[n].value)
               [] f[n].op = "chain" ->
                      \/ Ldap!Transitive(o, f[n].attribute, CHOOSE x \in f[n].value : TRUE)
                      \/ Ldap!Equals(o, f[n].attribute, f[n].value)
               [] OTHER -> TRUE
           Is(holds) == holds = [n \in DOMAIN f |-> Body(holds, n)]
           found == CHOOSE holds : Is(holds)
<1>1. Ldap!Matches(f, o) = found[1]
  BY DEF Ldap!Matches
<1>2. \A holds : Body(holds, 1) = value
  OBVIOUS
<1>3. Is([n \in DOMAIN f |-> value])
  <2> HIDE DEF Body
  <2>1. \A holds, n : n \in DOMAIN f => Body(holds, n) = value
    BY <1>2
  <2> QED BY <2>1
<1>4. Is(found)
  <2> HIDE DEF Is
  <2> QED BY <1>3
<1>5. found[1] = Body(found, 1)
  <2> HIDE DEF Body, found
  <2> QED BY <1>4
<1> HIDE DEF Body, found
<1> QED BY <1>1, <1>2, <1>5

\* A filter that everything passes: an attribute is there, or it is not.
LEMMA LdapEither ==
    ASSUME NEW a, NEW o,
           NEW f, f = <<[op |-> "or", parts |-> {2, 3}], [op |-> "present", attribute |-> a],
                        [op |-> "not", part |-> 4], [op |-> "present", attribute |-> a]>>
    PROVE  Ldap!Matches(f, o)
<1> DEFINE Body(holds, n) ==
             CASE f[n].op = "and" -> \A part \in f[n].parts : holds[part]
               [] f[n].op = "or" -> \E part \in f[n].parts : holds[part]
               [] f[n].op = "not" -> ~holds[f[n].part]
               [] f[n].op = "present" -> Ldap!Has(o, f[n].attribute)
               [] f[n].op = "equal" -> Ldap!Equals(o, f[n].attribute, f[n].value)
               [] f[n].op = "chain" ->
                      \/ Ldap!Transitive(o, f[n].attribute, CHOOSE x \in f[n].value : TRUE)
                      \/ Ldap!Equals(o, f[n].attribute, f[n].value)
               [] OTHER -> TRUE
           Is(holds) == holds = [n \in DOMAIN f |-> Body(holds, n)]
           found == CHOOSE holds : Is(holds)
           here == Ldap!Has(o, a)
<1>1. Ldap!Matches(f, o) = found[1]
  BY DEF Ldap!Matches
<1>2. /\ DOMAIN f = 1 .. 4
      /\ f[1].op = "or" /\ f[1].parts = {2, 3}
      /\ f[2].op = "present" /\ f[2].attribute = a
      /\ f[3].op = "not" /\ f[3].part = 4
      /\ f[4].op = "present" /\ f[4].attribute = a
  OBVIOUS
<1>3. \A holds : /\ Body(holds, 1) = \E part \in {2, 3} : holds[part]
                 /\ Body(holds, 2) = here
                 /\ Body(holds, 3) = ~holds[4]
                 /\ Body(holds, 4) = here
  <2> HIDE <1>1
  <2> QED BY <1>2
<1> HIDE DEF Body
<1>4. here \in BOOLEAN
  BY DEF Ldap!Has
<1> HIDE DEF here
<1>5. Is([n \in 1 .. 4 |-> IF n = 1 THEN TRUE ELSE IF n = 3 THEN ~here ELSE here])
  <2> DEFINE v == [n \in 1 .. 4 |-> IF n = 1 THEN TRUE ELSE IF n = 3 THEN ~here ELSE here]
  <2>1. v[1] = TRUE /\ v[2] = here /\ v[3] = ~here /\ v[4] = here
    OBVIOUS
  <2>2. v = [n \in 1 .. 4 |-> v[n]]
    OBVIOUS
  <2> HIDE DEF v
  <2>3. Body(v, 1) = v[1] /\ Body(v, 2) = v[2] /\ Body(v, 3) = v[3] /\ Body(v, 4) = v[4]
    BY <1>3, <1>4, <2>1
  <2>4. \A n \in 1 .. 4 : Body(v, n) = v[n]
    <3>1. \A n \in 1 .. 4 : n = 1 \/ n = 2 \/ n = 3 \/ n = 4
      OBVIOUS
    <3> QED BY <2>3, <3>1
  <2>5. Is(v)
    BY <1>2, <2>2, <2>4
  <2> QED BY <2>5 DEF v
<1>6. Is(found)
  <2> HIDE DEF Is
  <2> QED BY <1>5
<1>7. /\ found[1] = Body(found, 1) /\ found[2] = Body(found, 2)
      /\ found[3] = Body(found, 3) /\ found[4] = Body(found, 4)
  <2> HIDE DEF found
  <2> QED BY <1>2, <1>6
<1> HIDE DEF found
<1> QED BY <1>1, <1>3, <1>4, <1>7

LEMMA LdapEntriesAnswer == Ldap!EntriesAnswerFilters
<1> SUFFICES ASSUME NEW a \in Ldap!Attributes \ {"userPasswordHash"}
             PROVE  LET search(f) == Ldap!Found("base", "subtree", f, {a})
                        presence == [op |-> "present", attribute |-> a]
                        all == search(<<[op |-> "or", parts |-> {2, 3}], presence,
                                        [op |-> "not", part |-> 4], presence>>)
                    IN  /\ DOMAIN search(<<presence>>) = {d \in DOMAIN all : a \in DOMAIN all[d]}
                        /\ \A v \in Ldap!Single(Dns) :
                             DOMAIN search(<<[op |-> "equal", attribute |-> a, value |-> v]>>)
                               = {d \in DOMAIN all : a \in DOMAIN all[d] /\ v \in all[d][a]}
  BY DEF Ldap!EntriesAnswerFilters
<1> DEFINE search(f) == Ldap!Found("base", "subtree", f, {a})
           presence == [op |-> "present", attribute |-> a]
           either == <<[op |-> "or", parts |-> {2, 3}], presence, [op |-> "not", part |-> 4], presence>>
           all == search(either)
           Near == {o \in Ldap!Searchable : Ldap!InScope(o, "base", "subtree")}
<1>1. \A f : search(f) = [d \in {o \in Near : Ldap!Matches(f, o)} |-> Ldap!Entry(d, {a})]
  BY DEF Ldap!Found
<1> HIDE DEF Near
<1>2. \A o : Ldap!Matches(either, o)
  BY LdapEither
<1>3. all = [d \in Near |-> Ldap!Entry(d, {a})]
  <2> HIDE DEF either
  <2> QED BY <1>1, <1>2
<1>4. a \in Ldap!Named({a})
  <2>1. a \in Ldap!Attributes /\ a # "1.1" /\ a # "*" /\ a # "+"
    BY DEF Ldap!Attributes
  <2>2. {a} # {"1.1"} /\ ~("*" \in {a}) /\ ~("+" \in {a}) /\ {a} # {}
    BY <2>1
  <2> QED BY <2>1, <2>2 DEF Ldap!Named
<1>5. \A d : a \in DOMAIN Ldap!Entry(d, {a}) <=> Ldap!Shown(d, a) # {}
  BY <1>4 DEF Ldap!Entry
<1>6. \A d : Ldap!Shown(d, a) # {} => Ldap!Entry(d, {a})[a] = Ldap!Shown(d, a)
  BY <1>4 DEF Ldap!Entry
<1>7. \A d : /\ Ldap!Has(d, a) <=> Ldap!Shown(d, a) # {}
             /\ \A v : Ldap!Equals(d, a, v) <=> v \in Ldap!Shown(d, a)
  <2>1. CASE a = "tokenGroups"
    <3>1. \A d : Ldap!AttributeValues(d, a) = {}
      BY <2>1 DEF Ldap!AttributeValues
    <3> QED BY <2>1, <3>1 DEF Ldap!Has, Ldap!Equals, Ldap!Shown, Ldap!BinaryValues
  <2>2. CASE a # "tokenGroups"
    BY <2>2 DEF Ldap!Has, Ldap!Equals, Ldap!Shown, Ldap!BinaryValues
  <2> QED BY <2>1, <2>2
<1>8. \A d : Ldap!Matches(<<presence>>, d) <=> Ldap!Has(d, a)
  <2> DEFINE f == <<presence>>
  <2>1. DOMAIN f = {1} /\ f[1].op = "present" /\ f[1].attribute = a
    OBVIOUS
  <2>2. \A d : Ldap!Has(d, a) \in BOOLEAN
    BY DEF Ldap!Has
  <2> HIDE DEF f
  <2>3. \A d : Ldap!Matches(f, d) = Ldap!Has(d, a)
    BY <2>1, <2>2, LdapAsserts
  <2> QED BY <2>3 DEF f
<1>9. \A v, d : Ldap!Matches(<<[op |-> "equal", attribute |-> a, value |-> v]>>, d) <=> Ldap!Equals(d, a, v)
  <2> SUFFICES ASSUME NEW v
               PROVE  \A d : Ldap!Matches(<<[op |-> "equal", attribute |-> a, value |-> v]>>, d)
                               <=> Ldap!Equals(d, a, v)
    OBVIOUS
  <2> DEFINE f == <<[op |-> "equal", attribute |-> a, value |-> v]>>
  <2>1. DOMAIN f = {1} /\ f[1].op = "equal" /\ f[1].attribute = a /\ f[1].value = v
    OBVIOUS
  <2>2. \A d : Ldap!Equals(d, a, v) \in BOOLEAN
    BY DEF Ldap!Equals
  <2> HIDE DEF f
  <2>3. \A d : Ldap!Matches(f, d) = Ldap!Equals(d, a, v)
    BY <2>1, <2>2, LdapAsserts
  <2> QED BY <2>3 DEF f
<1>10. DOMAIN all = Near /\ \A d \in Near : all[d] = Ldap!Entry(d, {a})
  <2> HIDE DEF all
  <2> QED BY <1>3
<1>11. \A f : DOMAIN search(f) = {o \in Near : Ldap!Matches(f, o)}
  BY <1>1
<1> HIDE DEF search, all, presence
<1>12. DOMAIN search(<<presence>>) = {d \in DOMAIN all : a \in DOMAIN all[d]}
  BY <1>5, <1>7, <1>8, <1>10, <1>11
<1>13. \A v : DOMAIN search(<<[op |-> "equal", attribute |-> a, value |-> v]>>)
                = {d \in DOMAIN all : a \in DOMAIN all[d] /\ v \in all[d][a]}
  <2>1. \A d, v : Ldap!Equals(d, a, v) <=>
                    a \in DOMAIN Ldap!Entry(d, {a}) /\ v \in Ldap!Entry(d, {a})[a]
    BY <1>5, <1>6, <1>7
  <2> SUFFICES ASSUME NEW v
               PROVE  DOMAIN search(<<[op |-> "equal", attribute |-> a, value |-> v]>>)
                        = {d \in DOMAIN all : a \in DOMAIN all[d] /\ v \in all[d][a]}
    OBVIOUS
  <2>2. DOMAIN search(<<[op |-> "equal", attribute |-> a, value |-> v]>>) = {d \in Near : Ldap!Equals(d, a, v)}
    BY <1>9, <1>11
  <2>3. {d \in DOMAIN all : a \in DOMAIN all[d] /\ v \in all[d][a]}
          = {d \in Near : a \in DOMAIN Ldap!Entry(d, {a}) /\ v \in Ldap!Entry(d, {a})[a]}
    BY <1>10
  <2> QED BY <2>1, <2>2, <2>3
<1> QED BY <1>12, <1>13 DEF search, all, presence

LEMMA LdapSearchSound == LdapRows => Ldap!SearchSound
BY LdapChainsReach, LdapEntriesAnswer DEF Ldap!SearchSound

-----------------------------------------------------------------------------
(***************************************************************************)
(* SAMR: what the callers of a RID were told is in the row of the account  *)
(* that has it, which a copy of the identity rows leaves alone; no two     *)
(* rows have one RID, or the copy is refused.  A listing has seen every    *)
(* account that was there when it began and that comes before the next     *)
(* page; accounts that are created meanwhile only move others back.        *)
(***************************************************************************)
SamrToldTypes == [pw : SUBSET (1 .. SamrRequests), control : SUBSET (1 .. SamrRequests)]
SamrPage == [start : Nat, seen : SUBSET Samr!Rids, there : SUBSET Samr!Rids,
             open : BOOLEAN, spoiled : BOOLEAN]

SamrTypes ==
    /\ DOMAIN identity \subseteq Samr!Accounts /\ identity \in [DOMAIN identity -> Samr!Row]
    /\ DOMAIN accounts \subseteq Samr!Accounts /\ accounts \in [DOMAIN accounts -> Samr!Row]
    /\ Samr!OneEach(DOMAIN accounts)
    /\ DOMAIN nt \subseteq Samr!Accounts /\ nt \in [DOMAIN nt -> 1 .. SamrRequests]
    /\ told \in [Samr!Rids -> SamrToldTypes]
    /\ page \in SamrPage
    /\ samrRequests \in 0 .. SamrRequests /\ samrFaults \in 0 .. SamrFaults

SamrListing ==
    ~page.spoiled =>
        /\ page.there \subseteq Samr!Stored /\ page.seen \subseteq Samr!Stored
        /\ Samr!Within =>
             /\ page.open => \A r \in page.there : Rank(Samr!Stored, r) < page.start => r \in page.seen
             /\ ~page.open => page.there \subseteq page.seen

SamrIInv == SamrTypes /\ Samr!JoinStored /\ SamrListing

\* The cardinality that Samr speaks of.
LEMMA SamrCardinality == \A S : Samr!Cardinality(S) = Cardinality(S)
BY DEF Samr!Cardinality, Cardinality

\* The accounts have finitely many RIDs.
LEMMA SamrRids ==
    /\ Samr!Accounts = Machines \cup Builtins /\ IsFiniteSet(Samr!Accounts)
    /\ RidOf \in [Samr!Accounts -> Nat]
    /\ Samr!Rids = {RidOf[n] : n \in Samr!Accounts}
    /\ Samr!Rids \subseteq Nat /\ IsFiniteSet(Samr!Rids)
<1>1. Samr!Accounts = Machines \cup Builtins /\ IsFiniteSet(Samr!Accounts) /\ RidOf \in [Samr!Accounts -> Nat]
  BY DaemonsAssumption DEF DaemonsAssumption, Samr!Accounts
<1>2. Samr!Rids = {RidOf[n] : n \in Samr!Accounts}
  BY DEF Samr!Rids
<1>3. Samr!Rids \subseteq Nat
  BY <1>1, <1>2
<1>4. RidOf \in Surjection(Samr!Accounts, Samr!Rids)
  BY <1>1, <1>2 DEF Surjection, Range
<1>5. IsFiniteSet(Samr!Rids)
  BY <1>1, <1>4, FS_Surjection
<1> QED BY <1>1, <1>2, <1>3, <1>5

LEMMA SamrMirror ==
    ASSUME SamrTypes
    PROVE  /\ DOMAIN Samr!Mirrored \subseteq Samr!Accounts
           /\ DOMAIN accounts \subseteq DOMAIN Samr!Mirrored
           /\ Samr!OneEach(DOMAIN Samr!Mirrored)
           /\ Samr!Mirrored \in [DOMAIN Samr!Mirrored -> Samr!Row]
           /\ \A n \in DOMAIN accounts : Samr!Mirrored[n] = accounts[n]
<1>1. CASE Samr!OneEach(DOMAIN identity \cup DOMAIN accounts)
  BY <1>1 DEF SamrTypes, Samr!Mirrored
<1>2. CASE ~Samr!OneEach(DOMAIN identity \cup DOMAIN accounts)
  BY <1>2 DEF SamrTypes, Samr!Mirrored
<1> QED BY <1>1, <1>2

LEMMA SamrStored ==
    ASSUME SamrTypes
    PROVE  /\ Samr!Stored \subseteq Samr!Rids /\ Samr!Stored \subseteq Nat /\ IsFiniteSet(Samr!Stored)
           /\ IsFiniteSet(DOMAIN Samr!Mirrored) /\ Cardinality(DOMAIN Samr!Mirrored) \in Nat
<1>1. DOMAIN Samr!Mirrored \in SUBSET Samr!Accounts
  BY SamrMirror
<1>2. Samr!Stored \in SUBSET Samr!Rids
  BY <1>1, SamrRids DEF Samr!Stored
<1> QED BY <1>1, <1>2, SamrRids, FS_Subset, FS_CardinalityType

\* The same after a step.
LEMMA SamrStoredNext ==
    ASSUME SamrTypes'
    PROVE  /\ DOMAIN accounts' \subseteq DOMAIN Samr!Mirrored'
           /\ Samr!Stored' \subseteq Nat /\ IsFiniteSet(Samr!Stored')
           /\ IsFiniteSet(DOMAIN Samr!Mirrored') /\ Cardinality(DOMAIN Samr!Mirrored') \in Nat
<1>1. DOMAIN Samr!Mirrored' \in SUBSET Samr!Accounts /\ DOMAIN accounts' \subseteq DOMAIN Samr!Mirrored'
  <2>1. CASE Samr!OneEach(DOMAIN identity' \cup DOMAIN accounts')
    BY <2>1 DEF SamrTypes, Samr!Mirrored
  <2>2. CASE ~Samr!OneEach(DOMAIN identity' \cup DOMAIN accounts')
    BY <2>2 DEF SamrTypes, Samr!Mirrored
  <2> QED BY <2>1, <2>2
<1>2. Samr!Stored' \in SUBSET Samr!Rids
  BY <1>1, SamrRids DEF Samr!Stored
<1> QED BY <1>1, <1>2, SamrRids, FS_Subset, FS_CardinalityType

\* Whatever was added, an account is listed no earlier; none before what was seen is new.
LEMMA SamrStillListed ==
    ASSUME SamrTypes, SamrTypes', SamrListing, DOMAIN Samr!Mirrored \subseteq DOMAIN Samr!Mirrored',
           UNCHANGED page
    PROVE  SamrListing'
<1>1. Samr!Stored \subseteq Samr!Stored'
  BY DEF Samr!Stored
<1>2. /\ Samr!Stored' \subseteq Nat /\ IsFiniteSet(Samr!Stored')
      /\ IsFiniteSet(DOMAIN Samr!Mirrored') /\ Cardinality(DOMAIN Samr!Mirrored') \in Nat
  BY SamrStoredNext
<1>3. Samr!Stored \subseteq Nat /\ IsFiniteSet(Samr!Stored)
  BY SamrStored
<1>4. Samr!Within' => Samr!Within
  <2>1. Cardinality(DOMAIN Samr!Mirrored) <= Cardinality(DOMAIN Samr!Mirrored')
    BY <1>2, FS_Subset
  <2>2. Cardinality(DOMAIN Samr!Mirrored) \in Nat /\ Limit \in Nat
    BY SamrStored, DaemonsAssumption DEF DaemonsAssumption
  <2>3. /\ Samr!Within <=> Cardinality(DOMAIN Samr!Mirrored) <= Limit
        /\ Samr!Within' <=> Cardinality(DOMAIN Samr!Mirrored') <= Limit
    BY SamrCardinality DEF Samr!Within
  <2> QED BY <1>2, <2>1, <2>2, <2>3
<1>5. \A r \in Samr!Stored : Rank(Samr!Stored, r) \in Nat /\ Rank(Samr!Stored', r) \in Nat
                               /\ Rank(Samr!Stored, r) <= Rank(Samr!Stored', r)
  BY <1>1, <1>2, <1>3, RankType, RankKept
<1>6. page.start \in Nat
  BY DEF SamrTypes, SamrPage
<1>7. ASSUME ~page.spoiled
      PROVE  /\ page.there \subseteq Samr!Stored' /\ page.seen \subseteq Samr!Stored'
             /\ Samr!Within' =>
                  /\ page.open => \A r \in page.there : Rank(Samr!Stored', r) < page.start => r \in page.seen
                  /\ ~page.open => page.there \subseteq page.seen
  <2>1. page.there \subseteq Samr!Stored /\ page.seen \subseteq Samr!Stored
    BY <1>7 DEF SamrListing
  <2>2. ASSUME Samr!Within', page.open, NEW r \in page.there, Rank(Samr!Stored', r) < page.start
        PROVE  r \in page.seen
    <3>1. Rank(Samr!Stored, r) < page.start
      BY <1>5, <1>6, <2>1, <2>2
    <3> QED BY <1>4, <1>7, <2>2, <3>1 DEF SamrListing
  <2>3. ASSUME Samr!Within', ~page.open
        PROVE  page.there \subseteq page.seen
    BY <1>4, <1>7, <2>3 DEF SamrListing
  <2> QED BY <1>1, <2>1, <2>2, <2>3
<1> QED BY <1>7 DEF SamrListing

LEMMA SamrStarts == Samr!Init => SamrIInv
<1> SUFFICES ASSUME Samr!Init
             PROVE  SamrIInv
  OBVIOUS
<1>1. Samr!Seeded \in Samr!Row
  BY Bounds DEF Samr!Seeded, Samr!Row, Samr!Groups
<1>2. Samr!Nothing \in SamrToldTypes /\ Samr!Nothing.pw = {} /\ Samr!Nothing.control = {}
  BY DEF Samr!Nothing, SamrToldTypes
<1>3. Samr!NoPage \in SamrPage
  BY DEF Samr!NoPage, SamrPage
<1>4. Samr!OneEach(Builtins)
  BY DaemonsAssumption DEF DaemonsAssumption, Samr!OneEach
<1>5. SamrTypes
  BY <1>1, <1>2, <1>3, <1>4, Bounds DEF SamrTypes, Samr!Init, Samr!Accounts
<1>6. Samr!JoinStored
  BY <1>2 DEF Samr!Init, Samr!JoinStored
<1>7. SamrListing
  BY DEF Samr!Init, Samr!NoPage, SamrListing
<1> QED BY <1>5, <1>6, <1>7 DEF SamrIInv

LEMMA SamrCounts ==
    ASSUME SamrTypes
    PROVE  /\ Samr!Request => samrRequests' \in 0 .. SamrRequests /\ samrRequests + 1 \in 1 .. SamrRequests
           /\ \A b \in BOOLEAN : Samr!Counted(b) => samrFaults' \in 0 .. SamrFaults
BY Bounds DEF SamrTypes, Samr!Request, Samr!Counted

\* What a copy of the rows would hold after a step that keeps the rows there are.
LEMMA SamrMirrorGrows ==
    ASSUME SamrTypes, SamrTypes',
           (accounts' = accounts /\ identity' = identity) \/ DOMAIN Samr!Mirrored \subseteq DOMAIN accounts'
    PROVE  DOMAIN Samr!Mirrored \subseteq DOMAIN Samr!Mirrored'
<1>1. CASE accounts' = accounts /\ identity' = identity
  BY <1>1 DEF Samr!Mirrored
<1>2. DOMAIN accounts' \subseteq DOMAIN Samr!Mirrored'
  BY SamrStoredNext
<1> QED BY <1>1, <1>2

\* A call that adds and keeps rows keeps what was stored.
LEMMA SamrJoinKept ==
    ASSUME Samr!JoinStored, UNCHANGED <<nt, told>>,
           DOMAIN accounts \subseteq DOMAIN accounts', \A n \in DOMAIN accounts : accounts'[n] = accounts[n]
    PROVE  Samr!JoinStored'
BY DEF Samr!JoinStored

LEMMA SamrCreates ==
    ASSUME SamrIInv, NEW m \in Machines, Samr!CreateUser(m)
    PROVE  SamrIInv'
<1>1. PICK up \in BOOLEAN, broken \in {"no", "identity", "object"} :
        /\ Samr!Request /\ Samr!Counted(~up \/ broken # "no")
        /\ broken # "no" => up /\ m \notin DOMAIN Samr!Mirrored
        /\ accounts' = IF ~up THEN accounts
                       ELSE IF broken = "no" /\ ~Samr!Taken(m) THEN Samr!With(Samr!Mirrored, m, Samr!Created(m))
                       ELSE Samr!Mirrored
        /\ identity' = IF up /\ broken # "identity" /\ m \notin DOMAIN Samr!Mirrored
                       THEN Samr!With(identity, m, Samr!NewMachine) ELSE identity
        /\ UNCHANGED <<nt, told, page>>
  BY DEF Samr!CreateUser
<1>2. SamrTypes /\ m \in Samr!Accounts
  BY DEF SamrIInv, Samr!Accounts
<1>3. Samr!NewMachine \in Samr!Row
  BY Bounds DEF Samr!NewMachine, Samr!Row, Samr!Groups
<1>4. Samr!Created(m) \in Samr!Row /\ (m \in DOMAIN Samr!Mirrored => Samr!Created(m) = Samr!Mirrored[m])
  BY <1>2, <1>3, SamrMirror DEF Samr!Created
<1>5. /\ DOMAIN accounts' \subseteq Samr!Accounts /\ accounts' \in [DOMAIN accounts' -> Samr!Row]
      /\ Samr!OneEach(DOMAIN accounts')
      /\ DOMAIN accounts \subseteq DOMAIN accounts'
      /\ \A n \in DOMAIN accounts : accounts'[n] = accounts[n]
      /\ (accounts' = accounts /\ identity' = identity) \/ DOMAIN Samr!Mirrored \subseteq DOMAIN accounts'
  <2>1. CASE ~up
    BY <1>1, <1>2, <2>1 DEF SamrTypes
  <2>2. CASE up /\ broken = "no" /\ ~Samr!Taken(m)
    <3>1. accounts' = Samr!With(Samr!Mirrored, m, Samr!Created(m))
      BY <1>1, <2>2
    <3>2. DOMAIN accounts' = DOMAIN Samr!Mirrored \cup {m}
      BY <3>1 DEF Samr!With
    <3>3. Samr!OneEach(DOMAIN accounts')
      BY <1>2, <2>2, <3>2, SamrMirror DEF Samr!OneEach, Samr!Taken
    <3> QED BY <1>2, <1>4, <3>1, <3>2, <3>3, SamrMirror DEF Samr!With
  <2>3. CASE up /\ ~(broken = "no" /\ ~Samr!Taken(m))
    BY <1>1, <1>2, <2>3, SamrMirror
  <2> QED BY <2>1, <2>2, <2>3
<1>6. /\ DOMAIN identity' \subseteq Samr!Accounts /\ identity' \in [DOMAIN identity' -> Samr!Row]
  <2>1. CASE identity' = identity
    BY <1>2, <2>1 DEF SamrTypes
  <2>2. CASE identity' = Samr!With(identity, m, Samr!NewMachine)
    BY <1>2, <1>3, <2>2 DEF SamrTypes, Samr!With
  <2> QED BY <1>1, <2>1, <2>2
<1>7. SamrTypes'
  <2>1. (~up \/ broken # "no") \in BOOLEAN
    OBVIOUS
  <2>2. samrRequests' \in 0 .. SamrRequests /\ samrFaults' \in 0 .. SamrFaults
    BY <1>1, <1>2, <2>1, SamrCounts
  <2> QED BY <1>1, <1>2, <1>5, <1>6, <2>2 DEF SamrTypes
<1>8. Samr!JoinStored'
  BY <1>1, <1>5, SamrJoinKept DEF SamrIInv
<1>9. SamrListing'
  BY <1>1, <1>2, <1>5, <1>7, SamrMirrorGrows, SamrStillListed DEF SamrIInv
<1> QED BY <1>7, <1>8, <1>9 DEF SamrIInv

\* A machine is told of a value that is stored, and one it was refused may be.
LEMMA SamrSets ==
    ASSUME SamrIInv, NEW m \in Machines, Samr!SetUserInfo(m)
    PROVE  SamrIInv'
<1> DEFINE value == samrRequests + 1
           rid == RidOf[m]
           holder == CHOOSE a \in Samr!Holding(rid) : TRUE
<1>1. PICK class \in {"control", "primary", "all", "password", "unreadable"},
           up \in BOOLEAN, broken \in {"no", "identity", "object", "secret", "stamp"} :
        LET stored == up /\ class # "unreadable"
            found == stored /\ Samr!Holding(rid) # {}
            n == holder
            row == Samr!Updated(Samr!Mirrored[n], class, value)
            ok == found /\ broken = "no"
            Told(set, meant) == IF ~found \/ ~meant THEN set
                                  ELSE IF ok THEN {value}
                                  ELSE IF set = {} THEN {} ELSE set \cup {value}
        IN  /\ Samr!Request /\ Samr!Counted(~up \/ broken # "no")
            /\ broken # "no" => found
            /\ broken \in {"secret", "stamp"} => class = "password"
            /\ accounts' = IF ~stored THEN accounts
                           ELSE IF found /\ broken \notin {"identity", "object"}
                                THEN Samr!With(Samr!Mirrored, n, row) ELSE Samr!Mirrored
            /\ identity' = IF found /\ broken # "identity"
                           THEN Samr!With(identity, n, row) ELSE identity
            /\ nt' = IF ~found THEN nt ELSE Samr!SecretStored(n, class, broken, value)
            /\ told' = [told EXCEPT ![rid] =
                          [pw |-> Told(told[rid].pw, class = "password"),
                           control |-> Told(told[rid].control, class \in {"control", "all"})]]
            /\ UNCHANGED page
  BY DEF Samr!SetUserInfo, Samr!HandleOf
<1>0. PICK n : n = holder /\ (Samr!Holding(rid) # {} => n \in Samr!Holding(rid))
  OBVIOUS
<1> HIDE DEF holder
<1> DEFINE found == up /\ class # "unreadable" /\ Samr!Holding(rid) # {}
           row == Samr!Updated(Samr!Mirrored[n], class, value)
           Told(set, meant) == IF ~found \/ ~meant THEN set
                                 ELSE IF broken = "no" THEN {value}
                                 ELSE IF set = {} THEN {} ELSE set \cup {value}
           pw == Told(told[rid].pw, class = "password")
           control == Told(told[rid].control, class \in {"control", "all"})
<1>2. /\ SamrTypes /\ rid \in Samr!Rids /\ told[rid] \in SamrToldTypes /\ value \in 1 .. SamrRequests
      /\ found => n \in DOMAIN Samr!Mirrored /\ n \in Samr!Accounts /\ RidOf[n] = rid
  <2>1. SamrTypes
    BY DEF SamrIInv
  <2>2. rid \in Samr!Rids
    BY SamrRids
  <2>3. told[rid] \in SamrToldTypes
    BY <2>1, <2>2 DEF SamrTypes
  <2>4. value \in 1 .. SamrRequests
    BY <1>1, <2>1, SamrCounts
  <2>5. found => n \in Samr!Holding(rid)
    BY <1>0
  <2>6. found => n \in DOMAIN Samr!Mirrored /\ n \in Samr!Accounts /\ RidOf[n] = rid
    BY <2>1, <2>5, SamrMirror DEF Samr!Holding
  <2> QED BY <2>1, <2>2, <2>3, <2>4, <2>6
<1>22. /\ \A k \in DOMAIN Samr!Mirrored : found /\ RidOf[k] = rid => k = n
       /\ \A k \in DOMAIN accounts : RidOf[k] = rid => Samr!Holding(rid) # {}
  <2>1. Samr!OneEach(DOMAIN Samr!Mirrored) /\ DOMAIN accounts \subseteq DOMAIN Samr!Mirrored
    BY <1>2, SamrMirror
  <2> QED BY <1>2, <2>1 DEF Samr!OneEach, Samr!Holding
<1>3. /\ found => row \in Samr!Row
      /\ found /\ class \in {"control", "all"} => row.control = value
      /\ found /\ class \notin {"control", "all"} => row.control = Samr!Mirrored[n].control
  <2> SUFFICES ASSUME found
               PROVE  /\ row \in Samr!Row
                      /\ class \in {"control", "all"} => row.control = value
                      /\ class \notin {"control", "all"} => row.control = Samr!Mirrored[n].control
    OBVIOUS
  <2>1. Samr!Mirrored[n] \in Samr!Row
    BY <1>2, SamrMirror
  <2>2. value \in 0 .. SamrRequests
    BY <1>2, Bounds
  <2> HIDE DEF value
  <2> DEFINE old == Samr!Mirrored[n]
  <2>3. row = CASE class = "control" -> [old EXCEPT !.control = value]
                [] class = "primary" -> [old EXCEPT !.primary = Samr!DomainUsers]
                [] class = "all" -> [old EXCEPT !.control = value, !.primary = Samr!DomainUsers]
                [] OTHER -> old
    BY DEF Samr!Updated
  <2>4. Samr!DomainUsers \in Samr!Groups
    BY DEF Samr!Groups
  <2> HIDE DEF row, old
  <2>5. CASE class = "control"
    BY <2>1, <2>2, <2>3, <2>5 DEF Samr!Row, old
  <2>6. CASE class = "primary"
    BY <2>1, <2>3, <2>4, <2>6 DEF Samr!Row, old
  <2>7. CASE class = "all"
    BY <2>1, <2>2, <2>3, <2>4, <2>7 DEF Samr!Row, old
  <2>8. CASE class = "password"
    BY <2>1, <2>3, <2>8 DEF old
  <2> QED BY <2>5, <2>6, <2>7, <2>8 DEF found
<1>4. /\ accounts' = IF ~up \/ class = "unreadable" THEN accounts
                     ELSE IF found /\ broken \notin {"identity", "object"}
                          THEN Samr!With(Samr!Mirrored, n, row) ELSE Samr!Mirrored
      /\ identity' = IF found /\ broken # "identity" THEN Samr!With(identity, n, row) ELSE identity
      /\ nt' = IF found /\ class = "password" /\ broken \in {"no", "stamp"} THEN Samr!With(nt, n, value) ELSE nt
      /\ told' = [told EXCEPT ![rid] = [pw |-> pw, control |-> control]]
      /\ broken \in {"secret", "stamp"} => class = "password"
      /\ UNCHANGED page
  BY <1>0, <1>1 DEF Samr!SecretStored
<1>5. pw \subseteq 1 .. SamrRequests /\ control \subseteq 1 .. SamrRequests
  BY <1>2 DEF SamrToldTypes
<1> HIDE DEF row, pw, control, found, rid
<1>6. /\ DOMAIN accounts' \subseteq Samr!Accounts /\ accounts' \in [DOMAIN accounts' -> Samr!Row]
      /\ Samr!OneEach(DOMAIN accounts')
      /\ DOMAIN accounts \subseteq DOMAIN accounts'
      /\ \A k \in DOMAIN accounts \ {n} : accounts'[k] = accounts[k]
      /\ ~found => \A k \in DOMAIN accounts : accounts'[k] = accounts[k]
      /\ n \in DOMAIN accounts =>
           accounts'[n].control = IF found /\ class \in {"control", "all"} /\ broken \notin {"identity", "object"}
                                  THEN value ELSE accounts[n].control
      /\ found => n \in DOMAIN accounts'
      /\ found /\ class \in {"control", "all"} /\ broken = "no" => accounts'[n].control = value
      /\ (accounts' = accounts /\ identity' = identity) \/ DOMAIN Samr!Mirrored \subseteq DOMAIN accounts'
  <2>1. CASE ~up \/ class = "unreadable"
    <3>1. ~found
      BY <2>1 DEF found
    <3> QED BY <1>2, <1>4, <2>1, <3>1 DEF SamrTypes
  <2>2. CASE up /\ class # "unreadable" /\ found /\ broken \notin {"identity", "object"}
    <3>1. accounts' = Samr!With(Samr!Mirrored, n, row)
      BY <1>4, <2>2
    <3>2. /\ DOMAIN accounts' \subseteq Samr!Accounts /\ accounts' \in [DOMAIN accounts' -> Samr!Row]
          /\ DOMAIN accounts' = DOMAIN Samr!Mirrored /\ accounts'[n] = row
          /\ \A k \in DOMAIN Samr!Mirrored \ {n} : accounts'[k] = Samr!Mirrored[k]
      BY <1>2, <1>3, <2>2, <3>1, SamrMirror DEF Samr!With
    <3>3. n \in DOMAIN accounts => Samr!Mirrored[n] = accounts[n]
      BY <1>2, SamrMirror
    <3> QED BY <1>2, <1>3, <2>2, <3>2, <3>3, SamrMirror
  <2>3. CASE up /\ class # "unreadable" /\ ~(found /\ broken \notin {"identity", "object"})
    <3>1. accounts' = Samr!Mirrored
      BY <1>4, <2>3
    <3> QED BY <1>2, <2>3, <3>1, SamrMirror DEF found
  <2> QED BY <2>1, <2>2, <2>3
<1>7. /\ DOMAIN identity' \subseteq Samr!Accounts /\ identity' \in [DOMAIN identity' -> Samr!Row]
  <2>1. CASE identity' = identity
    BY <1>2, <2>1 DEF SamrTypes
  <2>2. CASE found /\ identity' = Samr!With(identity, n, row)
    BY <1>2, <1>3, <2>2 DEF SamrTypes, Samr!With
  <2> QED BY <1>4, <2>1, <2>2
<1>8. /\ DOMAIN nt' \subseteq Samr!Accounts /\ nt' \in [DOMAIN nt' -> 1 .. SamrRequests]
      /\ DOMAIN nt \subseteq DOMAIN nt' /\ \A k \in DOMAIN nt \ {n} : nt'[k] = nt[k]
      /\ IF found /\ class = "password" /\ broken \in {"no", "stamp"}
         THEN n \in DOMAIN nt' /\ nt'[n] = value ELSE nt' = nt
  <2>1. CASE ~(found /\ class = "password" /\ broken \in {"no", "stamp"})
    BY <1>2, <1>4, <2>1 DEF SamrTypes
  <2>2. CASE found /\ class = "password" /\ broken \in {"no", "stamp"}
    BY <1>2, <1>4, <2>2 DEF SamrTypes, Samr!With
  <2> QED BY <2>1, <2>2
<1>9. /\ told' \in [Samr!Rids -> SamrToldTypes]
      /\ told'[rid].pw = pw /\ told'[rid].control = control
      /\ \A r \in Samr!Rids \ {rid} : told'[r] = told[r]
  BY <1>2, <1>4, <1>5 DEF SamrTypes, SamrToldTypes
<1>10. SamrTypes'
  <2>1. (~up \/ broken # "no") \in BOOLEAN
    OBVIOUS
  <2>2. samrRequests' \in 0 .. SamrRequests /\ samrFaults' \in 0 .. SamrFaults
    BY <1>1, <1>2, <2>1, SamrCounts
  <2> QED BY <1>2, <1>4, <1>6, <1>7, <1>8, <1>9, <2>2 DEF SamrTypes
<1>11. Samr!JoinStored'
  <2>1. ASSUME NEW r \in Samr!Rids \ {rid}
        PROVE  /\ told'[r].pw # {} =>
                    \E k \in DOMAIN accounts' \cap DOMAIN nt' : RidOf[k] = r /\ nt'[k] \in told'[r].pw
               /\ told'[r].control # {} =>
                    \E k \in DOMAIN accounts' : RidOf[k] = r /\ accounts'[k].control \in told'[r].control
    <3>1. told'[r] = told[r]
      BY <1>9
    <3>2. ASSUME told[r].pw # {}
          PROVE  \E k \in DOMAIN accounts' \cap DOMAIN nt' : RidOf[k] = r /\ nt'[k] \in told[r].pw
      <4>1. PICK k \in DOMAIN accounts \cap DOMAIN nt : RidOf[k] = r /\ nt[k] \in told[r].pw
        BY <3>2 DEF SamrIInv, Samr!JoinStored
      <4>2. k \in DOMAIN accounts' \cap DOMAIN nt' /\ nt'[k] = nt[k]
        <5>1. CASE k = n
          <6>1. ~found
            BY <1>2, <4>1, <5>1
          <6> QED BY <1>6, <1>8, <4>1, <6>1
        <5> QED BY <1>6, <1>8, <4>1, <5>1
      <4> QED BY <4>1, <4>2
    <3>3. ASSUME told[r].control # {}
          PROVE  \E k \in DOMAIN accounts' : RidOf[k] = r /\ accounts'[k].control \in told[r].control
      <4>1. PICK k \in DOMAIN accounts : RidOf[k] = r /\ accounts[k].control \in told[r].control
        BY <3>3 DEF SamrIInv, Samr!JoinStored
      <4>2. k \in DOMAIN accounts' /\ accounts'[k] = accounts[k]
        <5>1. CASE k = n
          <6>1. ~found
            BY <1>2, <4>1, <5>1
          <6> QED BY <1>6, <4>1, <6>1
        <5> QED BY <1>6, <4>1, <5>1
      <4> QED BY <4>1, <4>2
    <3> QED BY <3>1, <3>2, <3>3
  <2>2. ASSUME pw # {}
        PROVE  \E k \in DOMAIN accounts' \cap DOMAIN nt' : RidOf[k] = rid /\ nt'[k] \in pw
    <3>1. CASE found /\ class = "password" /\ broken \in {"no", "stamp"}
      <4>1. value \in pw
        BY <2>2, <3>1 DEF pw
      <4> QED BY <1>2, <1>6, <1>8, <3>1, <4>1
    <3>2. CASE ~(found /\ class = "password" /\ broken \in {"no", "stamp"})
      <4>1. told[rid].pw # {} /\ told[rid].pw \subseteq pw
        BY <1>4, <2>2, <3>2 DEF pw
      <4>2. PICK k \in DOMAIN accounts \cap DOMAIN nt : RidOf[k] = rid /\ nt[k] \in told[rid].pw
        BY <1>2, <4>1 DEF SamrIInv, Samr!JoinStored
      <4> QED BY <1>6, <1>8, <3>2, <4>1, <4>2
    <3> QED BY <3>1, <3>2
  <2>3. ASSUME control # {}
        PROVE  \E k \in DOMAIN accounts' : RidOf[k] = rid /\ accounts'[k].control \in control
    <3>1. CASE found /\ class \in {"control", "all"} /\ broken = "no"
      <4>1. control = {value}
        BY <3>1 DEF control
      <4> QED BY <1>2, <1>6, <3>1, <4>1
    <3>2. CASE ~(found /\ class \in {"control", "all"} /\ broken = "no")
      <4>1. /\ told[rid].control # {} /\ told[rid].control \subseteq control
            /\ found /\ class \in {"control", "all"} => value \in control
        BY <2>3, <3>2 DEF control
      <4>2. PICK k \in DOMAIN accounts : RidOf[k] = rid /\ accounts[k].control \in told[rid].control
        BY <1>2, <4>1 DEF SamrIInv, Samr!JoinStored
      <4>3. accounts'[k].control \in control
        <5>1. CASE k = n
          BY <1>6, <4>1, <4>2, <5>1
        <5> QED BY <1>6, <4>1, <4>2, <5>1
      <4> QED BY <1>6, <4>2, <4>3
    <3> QED BY <3>1, <3>2
  <2> QED BY <1>9, <2>1, <2>2, <2>3 DEF Samr!JoinStored
<1>12. SamrListing'
  BY <1>2, <1>4, <1>6, <1>10, SamrMirrorGrows, SamrStillListed DEF SamrIInv
<1> QED BY <1>10, <1>11, <1>12 DEF SamrIInv

\* Reading copies rows; what was there stays as it was.
LEMMA SamrCopies ==
    ASSUME SamrIInv, NEW up \in BOOLEAN, accounts' = IF up THEN Samr!Mirrored ELSE accounts,
           UNCHANGED <<identity, nt, told>>
    PROVE  /\ DOMAIN accounts' \subseteq Samr!Accounts /\ accounts' \in [DOMAIN accounts' -> Samr!Row]
           /\ Samr!OneEach(DOMAIN accounts')
           /\ Samr!Mirrored' = Samr!Mirrored
           /\ Samr!JoinStored'
<1>1. SamrTypes
  BY DEF SamrIInv
<1>2. /\ DOMAIN accounts' \subseteq Samr!Accounts /\ accounts' \in [DOMAIN accounts' -> Samr!Row]
      /\ Samr!OneEach(DOMAIN accounts')
      /\ DOMAIN accounts \subseteq DOMAIN accounts' /\ \A n \in DOMAIN accounts : accounts'[n] = accounts[n]
  BY <1>1, SamrMirror DEF SamrTypes
<1>3. Samr!JoinStored'
  BY <1>2, SamrJoinKept DEF SamrIInv
<1>4. Samr!Mirrored' = Samr!Mirrored
  <2>1. CASE accounts' = accounts
    BY <2>1 DEF Samr!Mirrored
  <2>2. CASE accounts' = Samr!Mirrored /\ Samr!OneEach(DOMAIN identity \cup DOMAIN accounts)
    <3>1. /\ DOMAIN accounts' = DOMAIN identity \cup DOMAIN accounts
          /\ accounts' = [n \in DOMAIN identity \cup DOMAIN accounts |->
                             IF n \in DOMAIN accounts THEN accounts[n] ELSE identity[n]]
      BY <2>2 DEF Samr!Mirrored
    <3>2. Samr!Mirrored' = [n \in DOMAIN accounts' |-> accounts'[n]]
      BY <2>2, <3>1 DEF Samr!Mirrored
    <3> QED BY <2>2, <3>1, <3>2
  <2>3. CASE accounts' = Samr!Mirrored /\ ~Samr!OneEach(DOMAIN identity \cup DOMAIN accounts)
    <3>1. accounts' = accounts
      BY <2>3 DEF Samr!Mirrored
    <3> QED BY <2>1, <3>1
  <2> QED BY <2>1, <2>2, <2>3
<1> QED BY <1>2, <1>3, <1>4

LEMMA SamrProbes == SamrIInv /\ Samr!Probe => SamrIInv'
<1> SUFFICES ASSUME SamrIInv, Samr!Probe
             PROVE  SamrIInv'
  OBVIOUS
<1>1. PICK up \in BOOLEAN : accounts' = (IF up THEN Samr!Mirrored ELSE accounts)
        /\ UNCHANGED <<identity, nt, told, page, samrRequests, samrFaults>>
  BY DEF Samr!Probe
<1>2. /\ DOMAIN accounts' \subseteq Samr!Accounts /\ accounts' \in [DOMAIN accounts' -> Samr!Row]
      /\ Samr!OneEach(DOMAIN accounts') /\ Samr!Mirrored' = Samr!Mirrored /\ Samr!JoinStored'
  BY <1>1, SamrCopies
<1>3. SamrTypes'
  BY <1>1, <1>2 DEF SamrIInv, SamrTypes
<1>4. SamrListing'
  BY <1>1, <1>2, <1>3, SamrStillListed DEF SamrIInv
<1> QED BY <1>2, <1>3, <1>4 DEF SamrIInv

LEMMA SamrDeletes ==
    ASSUME SamrIInv, NEW m \in Machines, Samr!Delete(m)
    PROVE  SamrIInv'
<1>0. PICK before \in {accounts, Samr!Mirrored} :
      /\ Samr!Request /\ samrFaults' = samrFaults
      /\ identity' = Samr!Without(identity, m) /\ accounts' = Samr!Without(before, m)
      /\ nt' = Samr!Without(nt, m)
      /\ told' = IF m \in DOMAIN accounts THEN [told EXCEPT ![RidOf[m]] = Samr!Nothing] ELSE told
      /\ page' = [page EXCEPT !.spoiled = TRUE]
  BY DEF Samr!Delete
<1>1. Samr!Nothing \in SamrToldTypes /\ Samr!Nothing.pw = {} /\ Samr!Nothing.control = {}
  BY DEF Samr!Nothing, SamrToldTypes
<1>2. SamrTypes /\ page' \in SamrPage /\ page'.spoiled
  BY <1>0 DEF SamrIInv, SamrTypes, SamrPage
<1>3. /\ DOMAIN before \subseteq Samr!Accounts /\ before \in [DOMAIN before -> Samr!Row] /\ Samr!OneEach(DOMAIN before)
      /\ DOMAIN accounts \subseteq DOMAIN before /\ \A n \in DOMAIN accounts : before[n] = accounts[n]
  BY <1>2, SamrMirror DEF SamrTypes
<1>4. /\ DOMAIN identity' \subseteq Samr!Accounts /\ identity' \in [DOMAIN identity' -> Samr!Row]
      /\ DOMAIN accounts' \subseteq Samr!Accounts /\ accounts' \in [DOMAIN accounts' -> Samr!Row]
      /\ Samr!OneEach(DOMAIN accounts')
      /\ DOMAIN nt' \subseteq Samr!Accounts /\ nt' \in [DOMAIN nt' -> 1 .. SamrRequests]
      /\ \A n \in DOMAIN accounts \ {m} : n \in DOMAIN accounts' /\ accounts'[n] = accounts[n]
      /\ \A n \in DOMAIN nt \ {m} : n \in DOMAIN nt' /\ nt'[n] = nt[n]
  BY <1>0, <1>2, <1>3 DEF SamrTypes, Samr!Without, Samr!OneEach
<1>5. /\ told' \in [Samr!Rids -> SamrToldTypes]
      /\ m \in DOMAIN accounts => told'[RidOf[m]] = Samr!Nothing
      /\ \A r \in Samr!Rids : (r = RidOf[m] /\ m \in DOMAIN accounts) \/ told'[r] = told[r]
  <2>1. RidOf[m] \in Samr!Rids
    BY SamrRids
  <2> QED BY <1>0, <1>1, <1>2, <2>1 DEF SamrTypes
<1>6. SamrTypes'
  BY <1>0, <1>2, <1>4, <1>5, SamrCounts DEF SamrTypes
<1>7. Samr!JoinStored'
  <2> SUFFICES ASSUME NEW r \in Samr!Rids, ~(r = RidOf[m] /\ m \in DOMAIN accounts)
               PROVE  /\ told'[r].pw # {} =>
                           \E n \in DOMAIN accounts' \cap DOMAIN nt' : RidOf[n] = r /\ nt'[n] \in told'[r].pw
                      /\ told'[r].control # {} =>
                           \E n \in DOMAIN accounts' : RidOf[n] = r /\ accounts'[n].control \in told'[r].control
    BY <1>1, <1>5 DEF Samr!JoinStored
  <2>1. told'[r] = told[r]
    BY <1>5
  <2>2. ASSUME told[r].pw # {}
        PROVE  \E n \in DOMAIN accounts' \cap DOMAIN nt' : RidOf[n] = r /\ nt'[n] \in told[r].pw
    <3>1. PICK n \in DOMAIN accounts \cap DOMAIN nt : RidOf[n] = r /\ nt[n] \in told[r].pw
      BY <2>2 DEF SamrIInv, Samr!JoinStored
    <3>2. n # m
      BY <3>1
    <3> QED BY <1>4, <3>1, <3>2
  <2>3. ASSUME told[r].control # {}
        PROVE  \E n \in DOMAIN accounts' : RidOf[n] = r /\ accounts'[n].control \in told[r].control
    <3>1. PICK n \in DOMAIN accounts : RidOf[n] = r /\ accounts[n].control \in told[r].control
      BY <2>3 DEF SamrIInv, Samr!JoinStored
    <3>2. n # m
      BY <3>1
    <3> QED BY <1>4, <3>1, <3>2
  <2> QED BY <2>1, <2>2, <2>3
<1> QED BY <1>2, <1>6, <1>7 DEF SamrIInv, SamrListing

\* An enumeration reads all rows when there are no more than it may.
LEMMA SamrLoads ==
    ASSUME SamrTypes
    PROVE  Samr!Loaded \subseteq DOMAIN Samr!Mirrored /\ (Samr!Within => Samr!Loaded = DOMAIN Samr!Mirrored)
<1>1. Samr!Loaded \subseteq DOMAIN Samr!Mirrored
  BY DEF Samr!Loaded
<1>2. ASSUME Samr!Within, NEW n \in DOMAIN Samr!Mirrored
      PROVE  n \in Samr!Loaded
  <2> DEFINE before == {m \in DOMAIN Samr!Mirrored : Samr!TextBefore(RidOf[m], RidOf[n])}
             others == DOMAIN Samr!Mirrored \ {n}
  <2>1. ~Samr!TextBefore(RidOf[n], RidOf[n])
    <3>1. \A r \in Nat : ~Samr!TextBefore(r, r)
      <4>1. \A r \in Nat : Samr!SixDigits(r) \in Nat
        BY DEF Samr!SixDigits
      <4> QED BY <4>1 DEF Samr!TextBefore
    <3>2. RidOf[n] \in Nat
      BY SamrMirror, SamrRids
    <3> QED BY <3>1, <3>2
  <2>2. before \in SUBSET others
    BY <2>1
  <2>3. IsFiniteSet(others) /\ Cardinality(others) = Cardinality(DOMAIN Samr!Mirrored) - 1
    BY SamrStored, FS_RemoveElement
  <2>4. IsFiniteSet(before) /\ Cardinality(before) <= Cardinality(others)
    <3> HIDE DEF before, others
    <3> QED BY <2>2, <2>3, FS_Subset
  <2>5. Cardinality(before) \in Nat
    <3> HIDE DEF before
    <3> QED BY <2>4, FS_CardinalityType
  <2>6. Cardinality(DOMAIN Samr!Mirrored) <= Limit /\ Limit \in Nat /\ Cardinality(DOMAIN Samr!Mirrored) \in Nat
    BY <1>2, SamrCardinality, SamrStored, DaemonsAssumption DEF Samr!Within, DaemonsAssumption
  <2>7. Cardinality(before) < Limit
    <3> HIDE DEF before, others
    <3> QED BY <2>3, <2>4, <2>5, <2>6
  <2> QED BY <2>7, SamrCardinality DEF Samr!Loaded
<1> QED BY <1>1, <1>2

\* A page has the accounts from where the one before ended; an empty page has
\* nothing after it.
LEMMA SamrLists == SamrIInv /\ Samr!ListPage => SamrIInv'
<1> SUFFICES ASSUME SamrIInv, Samr!ListPage
             PROVE  SamrIInv'
  OBVIOUS
<1> DEFINE begun == IF page.open THEN page
                    ELSE [Samr!NoPage EXCEPT !.there = Samr!Stored, !.open = TRUE]
           entries(up) == Samr!DisplayPage(Samr!DisplayRecords(up), begun.start)
           Listed == Samr!Stored
<1>1. PICK up \in BOOLEAN :
        /\ IF page.open THEN UNCHANGED samrRequests ELSE Samr!Request
        /\ Samr!Counted(~up)
        /\ accounts' = IF up THEN Samr!Mirrored ELSE accounts
        /\ page' = [begun EXCEPT !.start = @ + Cardinality(entries(up)), !.seen = @ \cup entries(up),
                                 !.open = entries(up) # {}, !.spoiled = @ \/ ~up]
        /\ UNCHANGED <<identity, nt, told>>
  BY SamrCardinality DEF Samr!ListPage
<1>2. /\ DOMAIN accounts' \subseteq Samr!Accounts /\ accounts' \in [DOMAIN accounts' -> Samr!Row]
      /\ Samr!OneEach(DOMAIN accounts') /\ Samr!Mirrored' = Samr!Mirrored /\ Samr!JoinStored'
  BY <1>1, SamrCopies
<1>21. Samr!Stored' = Samr!Stored /\ (Samr!Within' <=> Samr!Within)
  BY <1>2 DEF Samr!Stored, Samr!Within
<1>3. /\ SamrTypes /\ Listed \subseteq Nat /\ IsFiniteSet(Listed) /\ Listed \subseteq Samr!Rids
      /\ DOMAIN Samr!DisplayRecords(up) \subseteq Listed
      /\ up /\ Samr!Within => DOMAIN Samr!DisplayRecords(up) = Listed
      /\ \A r \in DOMAIN Samr!DisplayRecords(up) :
            Samr!DisplayRecords(up)[r] = Rank(DOMAIN Samr!DisplayRecords(up), r)
  <2>1. SamrTypes /\ Listed \subseteq Nat /\ IsFiniteSet(Listed) /\ Listed \subseteq Samr!Rids
    BY SamrStored DEF SamrIInv
  <2>2. DOMAIN Samr!DisplayRecords(up) = {RidOf[n] : n \in DOMAIN Samr!Records(up)}
    BY DEF Samr!DisplayRecords
  <2>3. DOMAIN Samr!Records(up) = (IF up THEN Samr!Loaded ELSE {}) \cup Builtins
    BY DEF Samr!Records
  <2>4. DOMAIN Samr!DisplayRecords(up) \subseteq Listed /\ (up /\ Samr!Within => DOMAIN Samr!DisplayRecords(up) = Listed)
    BY <2>1, <2>2, <2>3, SamrLoads DEF Samr!Stored
  <2>5. \A r \in DOMAIN Samr!DisplayRecords(up) :
            Samr!DisplayRecords(up)[r] = Rank(DOMAIN Samr!DisplayRecords(up), r)
    BY <2>2, SamrCardinality DEF Samr!DisplayRecords, Rank
  <2> QED BY <2>1, <2>4, <2>5
<1>4. begun \in SamrPage /\ begun.start \in Nat
  BY <1>3 DEF SamrTypes, SamrPage, Samr!NoPage
<1>5. /\ ~begun.spoiled => begun.there \subseteq Listed /\ begun.seen \subseteq Listed
      /\ ~begun.spoiled /\ Samr!Within =>
            \A n \in begun.there : Rank(Listed, n) < begun.start => n \in begun.seen
  <2>1. CASE page.open
    BY <2>1 DEF SamrIInv, SamrListing
  <2>2. CASE ~page.open
    <3>1. begun.start = 0 /\ begun.there = Listed /\ begun.seen = {}
      BY <2>2 DEF Samr!NoPage
    <3>2. \A n \in Listed : Rank(Listed, n) \in Nat
      BY <1>3, RankType
    <3> HIDE DEF begun
    <3>3. \A n \in begun.there : Rank(Listed, n) \in Nat /\ ~(Rank(Listed, n) < 0)
      BY <3>1, <3>2
    <3> QED BY <3>1, <3>3
  <2> QED BY <2>1, <2>2
<1> HIDE DEF begun
<1>6. /\ entries(up) \subseteq Listed /\ IsFiniteSet(entries(up)) /\ Cardinality(entries(up)) \in Nat
      /\ up /\ Samr!Within =>
            entries(up) = {n \in Listed : Rank(Listed, n) \in begun.start .. begun.start + PageSize - 1}
  <2>1. entries(up) \subseteq Listed
    BY <1>3 DEF Samr!DisplayPage
  <2>2. up /\ Samr!Within =>
            entries(up) = {n \in Listed : Rank(Listed, n) \in begun.start .. begun.start + PageSize - 1}
    BY <1>3 DEF Samr!DisplayPage
  <2> QED BY <1>3, <2>1, <2>2, FS_Subset, FS_CardinalityType
<1>7. /\ page' \in SamrPage
      /\ page'.start = begun.start + Cardinality(entries(up)) /\ page'.seen = begun.seen \cup entries(up)
      /\ page'.there = begun.there /\ page'.open = (entries(up) # {})
      /\ page'.spoiled = (begun.spoiled \/ ~up)
  <2>1. begun.start + Cardinality(entries(up)) \in Nat
    BY <1>4, <1>6
  <2>2. entries(up) \subseteq Samr!Rids
    BY <1>3, <1>6
  <2> HIDE DEF entries
  <2> QED BY <1>1, <1>4, <2>1, <2>2 DEF SamrPage
<1>8. SamrTypes'
  <2>1. (~up) \in BOOLEAN
    OBVIOUS
  <2>2. samrRequests' \in 0 .. SamrRequests /\ samrFaults' \in 0 .. SamrFaults
    BY <1>1, <1>3, <2>1, SamrCounts DEF SamrTypes
  <2> QED BY <1>1, <1>2, <1>3, <1>7, <2>2 DEF SamrTypes
<1>9. SamrListing'
  <2>0. up /\ ~begun.spoiled => page'.there \subseteq Listed /\ page'.seen \subseteq Listed
    BY <1>5, <1>6, <1>7
  <2> SUFFICES ASSUME up, ~begun.spoiled, Samr!Within
               PROVE  /\ page'.open => \A n \in page'.there : Rank(Listed, n) < page'.start => n \in page'.seen
                      /\ ~page'.open => page'.there \subseteq page'.seen
    BY <1>7, <1>21, <2>0 DEF SamrListing
  <2> DEFINE E == entries(up)
  <2>1. E = {n \in Listed : Rank(Listed, n) \in begun.start .. begun.start + PageSize - 1}
    BY <1>6
  <2>2. \A n \in Listed : Rank(Listed, n) \in Nat /\ n \in Nat
    BY <1>3, RankType
  <2>3. PageSize \in Nat /\ PageSize >= 1
    BY DaemonsAssumption
  <2> HIDE DEF entries, E
  <2>4. Cardinality(E) <= PageSize
    <3>1. E \in SUBSET Listed /\ \A n \in E : Rank(Listed, n) >= begun.start /\ Rank(Listed, n) < begun.start + PageSize
      BY <1>4, <2>1, <2>2, <2>3
    <3>2. begun.start + PageSize \in Nat /\ begun.start <= begun.start + PageSize
      BY <1>4, <2>3
    <3>3. Cardinality(E) <= (begun.start + PageSize) - begun.start
      BY <1>3, <1>4, <3>1, <3>2, RankRange
    <3> QED BY <1>4, <2>3, <3>3
  <2>5. Cardinality(E) \in Nat /\ E \subseteq Listed
    BY <1>6 DEF E
  <2>6. ASSUME NEW n \in begun.there, Rank(Listed, n) < begun.start + Cardinality(E)
        PROVE  n \in begun.seen \cup E
    <3>1. n \in Listed /\ Rank(Listed, n) \in Nat
      BY <1>5, <2>2
    <3>2. CASE Rank(Listed, n) < begun.start
      BY <1>5, <3>2
    <3>3. CASE Rank(Listed, n) >= begun.start
      BY <1>4, <2>1, <2>3, <2>4, <2>5, <2>6, <3>1, <3>3
    <3> QED BY <1>4, <3>1, <3>2, <3>3
  <2>7. ASSUME E = {}, NEW n \in begun.there
        PROVE  n \in begun.seen
    <3>1. n \in Listed /\ Rank(Listed, n) \in Nat
      BY <1>5, <2>2
    <3>2. ~(Rank(Listed, n) >= begun.start)
      <4> SUFFICES ASSUME Rank(Listed, n) >= begun.start
                   PROVE  FALSE
        OBVIOUS
      <4>1. PICK m \in Listed : Rank(Listed, m) = begun.start
        BY <1>3, <1>4, <3>1, RankFilled
      <4>2. m \in E
        BY <1>4, <2>1, <2>3, <4>1
      <4> QED BY <2>7, <4>2
    <3> QED BY <1>4, <1>5, <3>1, <3>2
  <2> QED BY <1>5, <1>7, <2>5, <2>6, <2>7 DEF E
<1> QED BY <1>2, <1>8, <1>9 DEF SamrIInv

LEMMA SamrStep == SamrIInv /\ (Samr!Next \/ UNCHANGED samrVars) => SamrIInv'
<1> SUFFICES ASSUME SamrIInv, Samr!Next \/ UNCHANGED samrVars
             PROVE  SamrIInv'
  OBVIOUS
<1>1. CASE UNCHANGED samrVars
  <2>1. Samr!Mirrored' = Samr!Mirrored
    BY <1>1 DEF samrVars, Samr!Mirrored
  <2> QED BY <1>1, <2>1 DEF samrVars, SamrIInv, SamrTypes, SamrListing, Samr!Stored, Samr!Within, Samr!JoinStored
<1> QED BY <1>1, SamrCreates, SamrSets, SamrProbes, SamrDeletes, SamrLists DEF Samr!Next

LEMMA SamrSound == SamrIInv => Samr!JoinStored /\ Samr!MembersAgree /\ Samr!ListingComplete
<1> SUFFICES ASSUME SamrIInv
             PROVE  Samr!MembersAgree /\ Samr!ListingComplete
  BY DEF SamrIInv
<1>0. /\ SamrTypes /\ Samr!OneEach(DOMAIN Samr!Mirrored) /\ DOMAIN Samr!Mirrored \subseteq Samr!Accounts
      /\ Builtins \subseteq Samr!Accounts
      /\ \A n \in Samr!Accounts, b \in Builtins : RidOf[n] = RidOf[b] => n = b
  BY SamrMirror, DaemonsAssumption DEF SamrIInv, DaemonsAssumption, Samr!Accounts
<1>1. Samr!MembersAgree
  <2> SUFFICES ASSUME NEW n \in DOMAIN Samr!Mirrored \ Builtins, NEW g \in Samr!Groups \cup {Samr!Operators}
               PROVE  /\ RidOf[n] \in Samr!MembersOfAlias(TRUE, g) => g \in Samr!GroupsForUser(TRUE, RidOf[n])
                      /\ Samr!Within /\ g \in Samr!GroupsForUser(TRUE, RidOf[n])
                            => RidOf[n] \in Samr!MembersOfAlias(TRUE, g)
    BY DEF Samr!MembersAgree
  <2>1. Samr!Holding(RidOf[n]) = {n}
    BY <1>0 DEF Samr!Holding, Samr!OneEach
  <2>2. Samr!GroupsForUser(TRUE, RidOf[n]) = Samr!UniqueGroupRids(Samr!Mirrored[n])
    BY <2>1 DEF Samr!GroupsForUser, Samr!Resolve
  <2>3. \A k \in DOMAIN Samr!Records(TRUE) : RidOf[k] = RidOf[n] => k = n /\ Samr!Records(TRUE)[k] = Samr!Mirrored[n]
    <3> SUFFICES ASSUME NEW k \in DOMAIN Samr!Records(TRUE), RidOf[k] = RidOf[n]
                 PROVE  k = n /\ Samr!Records(TRUE)[k] = Samr!Mirrored[n]
      OBVIOUS
    <3>1. k \in Samr!Loaded \cup Builtins
      BY DEF Samr!Records
    <3>2. k \notin Builtins
      BY <1>0
    <3>3. k = n
      BY <1>0, <3>1, <3>2, SamrLoads DEF Samr!OneEach
    <3> QED BY <3>2, <3>3 DEF Samr!Records
  <2>4. RidOf[n] \notin Samr!AliasMembers
    BY <1>0 DEF Samr!AliasMembers
  <2>5. RidOf[n] \in Samr!MembersOfAlias(TRUE, g) <=>
          \E k \in DOMAIN Samr!Records(TRUE) : RidOf[k] = RidOf[n] /\ g \in Samr!UniqueGroupRids(Samr!Records(TRUE)[k])
    BY <2>4 DEF Samr!MembersOfAlias, Samr!MembersOfGroup
  <2>6. Samr!Within => n \in DOMAIN Samr!Records(TRUE)
    BY <1>0, SamrLoads DEF Samr!Records
  <2> QED BY <2>2, <2>3, <2>5, <2>6
<1>2. Samr!ListingComplete
  <2> SUFFICES ASSUME ~page.open, ~page.spoiled
               PROVE  /\ Samr!LookupIds(TRUE, page.seen) \subseteq Samr!Accounts
                      /\ Samr!LookupNames(Samr!LookupIds(TRUE, page.seen)) = page.seen
    BY DEF SamrIInv, SamrListing, Samr!ListingComplete
  <2> DEFINE found(r) == Samr!Holding(r) \cup {b \in Builtins : RidOf[b] = r}
  <2>1. \A r \in page.seen : found(r) # {}
    <3> SUFFICES ASSUME NEW r \in page.seen
                 PROVE  found(r) # {}
      OBVIOUS
    <3>1. r \in Samr!Stored
      BY DEF SamrIInv, SamrListing
    <3> QED BY <3>1 DEF Samr!Stored, Samr!Holding
  <2>2. \A r : \A n \in found(r) : n \in Samr!Accounts /\ RidOf[n] = r
    BY <1>0 DEF Samr!Holding
  <2>3. Samr!LookupIds(TRUE, page.seen) = UNION {found(r) : r \in page.seen}
    BY <2>1 DEF Samr!LookupIds
  <2> HIDE DEF found
  <2>4. Samr!LookupNames(Samr!LookupIds(TRUE, page.seen)) = {RidOf[n] : n \in UNION {found(r) : r \in page.seen}}
    BY <2>3 DEF Samr!LookupNames, Samr!HandleOf
  <2>5. UNION {found(r) : r \in page.seen} \subseteq Samr!Accounts
    BY <2>2
  <2>6. {RidOf[n] : n \in UNION {found(r) : r \in page.seen}} \subseteq page.seen
    <3> SUFFICES ASSUME NEW r \in page.seen, NEW n \in found(r)
                 PROVE  RidOf[n] \in page.seen
      OBVIOUS
    <3> QED BY <2>2
  <2>7. page.seen \subseteq {RidOf[n] : n \in UNION {found(r) : r \in page.seen}}
    <3> SUFFICES ASSUME NEW r \in page.seen
                 PROVE  \E n \in UNION {found(k) : k \in page.seen} : RidOf[n] = r
      OBVIOUS
    <3>1. PICK n : n \in found(r)
      BY <2>1
    <3> QED BY <2>2, <3>1
  <2> QED BY <2>3, <2>4, <2>5, <2>6, <2>7
<1> QED BY <1>1, <1>2

LEMMA SamrTypeCorrect == SamrIInv => Samr!TypeOK
BY DEF SamrIInv, SamrTypes, SamrToldTypes, SamrPage, Samr!TypeOK, Samr!IsTable

-----------------------------------------------------------------------------
(***************************************************************************)
(* Together.                                                               *)
(***************************************************************************)
\* The service of the instance takes its own steps, and the others none.
LEMMA OneRuns ==
    ASSUME [DaemonsNext]_daemonsVars
    PROVE  /\ daemon' = daemon
           /\ daemon = "netlogon" => [Next]_vars
           /\ daemon = "dns" => Names!Next \/ UNCHANGED dnsVars
           /\ daemon = "ldap" => Ldap!Next \/ UNCHANGED ldapVars
           /\ daemon = "samr" => Samr!Next \/ UNCHANGED samrVars
           /\ daemon = "smb" => Smb!Next \/ UNCHANGED smbVars
           /\ daemon = "kdc" => Kdc!Next \/ UNCHANGED kdcVars
BY DEF DaemonsNext, daemonsVars

\* Whatever failed, was lost or came in between, the key the KDC holds for a
\* user was derived from a password that he may still try; however often the API
\* starts, a ticket keeps opening until an administrator renews its service; and
\* who asks afresh is served exactly when he and the service are in order.
THEOREM TicketsAlwaysSound == DaemonsSpec => []TicketsSound
<1> DEFINE Inv == daemon = "kdc" => KdcIInv /\ Kdc!TicketsLast
<1>1. DaemonsInit => Inv
    BY KdcStarts, KdcTicketsStart DEF DaemonsInit
<1>2. Inv /\ [DaemonsNext]_daemonsVars => Inv'
    BY OneRuns, KdcStep, KdcTicketsStep
<1>3. Inv => TicketsSound
    BY KdcKeysFollow, KdcServes DEF TicketsSound
<1>. QED
    BY <1>1, <1>2, <1>3, PTL DEF DaemonsSpec

\* However clients cut their requests and their reads, come and go, a client
\* that has a clean pipe to itself finds there the reply to its own request;
\* what was written to a policy file is read back; and the dialect agreed is
\* the one that is confirmed.
THEOREM SharesAlwaysSound == DaemonsSpec => []SharesSound
<1> DEFINE Inv == daemon = "smb" => SmbIInv
<1>1. DaemonsInit => Inv
    BY SmbStarts DEF DaemonsInit
<1>2. Inv /\ [DaemonsNext]_daemonsVars => Inv'
    BY OneRuns, SmbStep
<1>3. Inv => SharesSound
    BY SmbSound DEF SharesSound
<1>. QED
    BY <1>1, <1>2, <1>3, PTL DEF DaemonsSpec

\* What the network daemon serves is what is stored, and what an answered update
\* of a machine left of a name stays stored, however connections and the daemon fail.
THEOREM NamesAlwaysHeld == DaemonsSpec => []NamesHeld
<1> DEFINE DInv == daemon = "dns" => DnsIInv
<1>1. DaemonsInit => DInv
  BY DnsStarts DEF DaemonsInit
<1>2. DInv /\ [DaemonsNext]_daemonsVars => DInv'
  BY OneRuns, DnsStep
<1>3. DInv => NamesHeld
  BY DnsSound DEF NamesHeld
<1> QED BY <1>1, <1>2, <1>3, PTL DEF DaemonsSpec

\* Whatever requests are cut short, and whichever way a member came or went,
\* the rows of a group, what its members say and what was answered are one.
THEOREM MembershipsAlwaysAgree == DaemonsSpec => []MembershipsAgree
<1> DEFINE MInv == daemon = "ldap" => LdapIInv
<1>1. DaemonsInit => MInv
  BY LdapStarts DEF DaemonsInit
<1>2. MInv /\ [DaemonsNext]_daemonsVars => MInv'
  BY OneRuns, LdapStep
<1>3. MInv => MembershipsAgree
  BY LdapSound DEF MembershipsAgree
<1> QED BY <1>1, <1>2, <1>3, PTL DEF DaemonsSpec

\* Whatever the requests left in the groups, circles of groups and names nobody
\* has among it, chains find in both directions what can be reached, and a search
\* for a value or an attribute finds the objects whose entries show it.
THEOREM SearchesAlwaysSound == DaemonsSpec => []SearchSound
<1> DEFINE MInv == daemon = "ldap" => LdapIInv
<1>1. DaemonsInit => MInv
  BY LdapStarts DEF DaemonsInit
<1>2. MInv /\ [DaemonsNext]_daemonsVars => MInv'
  BY OneRuns, LdapStep
<1>3. MInv => SearchSound
  BY LdapSearchSound DEF SearchSound, LdapIInv, LdapTypes, LdapRows
<1> QED BY <1>1, <1>2, <1>3, PTL DEF DaemonsSpec

\* Whatever names share RIDs, what the callers of a RID were told is stored is in
\* the account that has it, members and groups of accounts agree, and a listing
\* leaves out no account that was there throughout, as long as an enumeration
\* reads them all.
THEOREM AccountsAlwaysSound == DaemonsSpec => []AccountsSound
<1> DEFINE AInv == daemon = "samr" => SamrIInv
<1>1. DaemonsInit => AInv
  BY SamrStarts DEF DaemonsInit
<1>2. AInv /\ [DaemonsNext]_daemonsVars => AInv'
  BY OneRuns, SamrStep
<1>3. AInv => AccountsSound
  BY SamrSound DEF AccountsSound
<1> QED BY <1>1, <1>2, <1>3, PTL DEF DaemonsSpec

\* Every service keeps the types of its state, for any instance: the references
\* between its records, and what its bounds leave it, among them.
THEOREM TypesAlwaysOK == DaemonsSpec => []TypesOK
<1> DEFINE TInv == /\ daemon = "netlogon" => IInv
                   /\ daemon = "dns" => DnsIInv /\ DnsTyped
                   /\ daemon = "ldap" => LdapIInv
                   /\ daemon = "samr" => SamrIInv
                   /\ daemon = "smb" => SmbIInv
                   /\ daemon = "kdc" => KdcIInv
                   /\ daemon \in Daemons
<1>1. DaemonsInit => TInv
  BY Starts, DnsStarts, DnsTypesStart, LdapStarts, SamrStarts, SmbStarts, KdcStarts DEF DaemonsInit
<1>2. TInv /\ [DaemonsNext]_daemonsVars => TInv'
  <2> SUFFICES ASSUME TInv, [DaemonsNext]_daemonsVars
               PROVE  TInv'
    OBVIOUS
  <2>1. daemon' = daemon
    BY OneRuns
  <2>2. daemon = "netlogon" => IInv'
    BY OneRuns, Steps
  <2>3. daemon = "dns" => DnsIInv' /\ DnsTyped'
    BY OneRuns, DnsStep, DnsTypesStep DEF DnsIInv
  <2>4. daemon = "ldap" => LdapIInv'
    BY OneRuns, LdapStep
  <2>5. daemon = "samr" => SamrIInv'
    BY OneRuns, SamrStep
  <2>6. daemon = "smb" => SmbIInv'
    BY OneRuns, SmbStep
  <2>7. daemon = "kdc" => KdcIInv'
    BY OneRuns, KdcStep
  <2> QED BY <2>1, <2>2, <2>3, <2>4, <2>5, <2>6, <2>7
<1>3. TInv => TypesOK
  <2> SUFFICES ASSUME TInv
               PROVE  TypesOK
    OBVIOUS
  <2>1. daemon = "netlogon" => TypeOK
    BY DEF IInv, Shape
  <2>2. daemon = "dns" => Names!TypeOK
    BY DEF DnsTyped
  <2>3. daemon = "smb" => Smb!TypeOK
    BY SmbTypeCorrect DEF SmbIInv
  <2>4. daemon = "kdc" => Kdc!TypeOK
    BY DEF KdcIInv
  <2> QED BY <2>1, <2>2, <2>3, <2>4, LdapTypeCorrect, SamrTypeCorrect, DaemonsAssumption
          DEF TypesOK, DaemonsAssumption
<1> QED BY <1>1, <1>2, <1>3, PTL DEF DaemonsSpec
===============================================================================
