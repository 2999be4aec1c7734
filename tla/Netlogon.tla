------------------------------- MODULE Netlogon -------------------------------
(***************************************************************************)
(* The Netlogon secure channel (libs/protocol/src/rpc.cpp) and the machine *)
(* password behind it (apps/directory/main.cpp).                           *)
(*                                                                         *)
(* A member asks for a challenge, proves with it that it has the machine   *)
(* password, and then sends with every call a credential made from a seed  *)
(* that moves on both sides.  Challenges and sessions are in the daemon's  *)
(* memory, one per computer name; the password is in the database, read    *)
(* again for every packet.  A packet is handled to its end before the      *)
(* next, so the server's part of a call is one step; its reply may be      *)
(* lost.                                                                   *)
(*                                                                         *)
(* The server's next seed is the credential it returned, which is the      *)
(* encryption of the seed of the call plus one.  The members of the        *)
(* repository's tests take it for theirs too; those that follow [MS-NRPC]  *)
(* 3.1.4.5 go on from the seed of the call plus one as it is, which is     *)
(* never a seed of the server's.                                           *)
(*                                                                         *)
(* A challenge pair is a number, a session key is the pair of a password   *)
(* and a challenge, and a seed is how many credentials were returned since *)
(* the client's own, and whether it was counted on from the last of them.  *)
(***************************************************************************)
EXTENDS Naturals, FiniteSets

CONSTANTS
    Clients,       \* callers
    ComputerOf,    \* the computer each of them runs on
    Counting,      \* those that count on from their own seed
    Standings,     \* the standings an account may have
    MaxChallenges, MaxPasswords, MaxCalls,   \* bounds
    MaxFaults      \* bound: lost replies, refused statements, expiries

Computers == {ComputerOf[c] : c \in Clients}

ASSUME NetlogonAssumption ==
    /\ DOMAIN ComputerOf = Clients /\ Counting \subseteq Clients
    /\ Standings \subseteq {"enabled", "disabled", "expired"}
    /\ {MaxChallenges, MaxPasswords, MaxCalls, MaxFaults} \subseteq Nat
    /\ MaxPasswords >= 1

VARIABLES
    challenges,   \* netlogon_challenges: by computer; 0 when there is none
    sessions,     \* netlogon_sessions: by computer
    secret,       \* ad_account_secrets: the password of each computer
    standing,     \* userAccountControl and accountExpires of its account
    known,        \* the passwords a computer still tries
    client,       \* what each caller believes
    reply,        \* the reply on its way to it
    made,         \* how many challenges, passwords and calls there were
    faults

vars == <<challenges, sessions, secret, standing, known, client, reply,
          made, faults>>

Key(pw, nonce) == [pw |-> pw, nonce |-> nonce]
Keys == [pw : 1 .. MaxPasswords, nonce : 0 .. MaxChallenges]
NoKey == [pw |-> 1, nonce |-> 0]
NoSession == [key |-> NoKey, step |-> 0]
NoReply == [kind |-> "none"]
Fresh == [at |-> "new", key |-> NoKey, step |-> 0, unsure |-> FALSE, counted |-> FALSE]

TypeOK ==
    /\ challenges \in [Computers -> 0 .. MaxChallenges]
    /\ sessions \in [Computers -> [key : Keys, step : 0 .. MaxCalls]]
    /\ secret \in [Computers -> 1 .. MaxPasswords]
    /\ standing \in [Computers -> Standings]
    /\ known \in [Computers -> SUBSET (1 .. MaxPasswords)]
    /\ client \in [Clients -> [at : {"new", "challenged", "ready"},
                     key : Keys, step : 0 .. MaxCalls, unsure : BOOLEAN, counted : BOOLEAN]]
    /\ \A c \in Clients : reply[c].kind \in
           {"none", "challenge", "authenticate", "call", "set"}
    /\ made \in [challenge : 0 .. MaxChallenges, password : 1 .. MaxPasswords,
                 call : 0 .. MaxCalls]
    /\ faults \in 0 .. MaxFaults

Init ==
    /\ challenges = [n \in Computers |-> 0]
    /\ sessions = [n \in Computers |-> NoSession]
    /\ secret = [n \in Computers |-> 1]
    /\ standing \in [Computers -> Standings]
    /\ known = [n \in Computers |-> {1}]
    /\ client = [c \in Clients |-> Fresh]
    /\ reply = [c \in Clients |-> NoReply]
    /\ made = [challenge |-> 0, password |-> 1, call |-> 0]
    /\ faults = 0

Established == {n \in Computers : sessions[n] # NoSession}

Idle(c) == reply[c] = NoReply

-----------------------------------------------------------------------------
(***************************************************************************)
(* Establishing the channel.                                               *)
(***************************************************************************)

\* netlogon_challenge_response: a computer has one challenge, the last.
ReqChallenge(c) ==
    LET n == ComputerOf[c]  nonce == made.challenge + 1
    IN  /\ Idle(c) /\ client[c].at = "new" /\ made.challenge < MaxChallenges
        /\ made' = [made EXCEPT !.challenge = nonce]
        /\ challenges' = [challenges EXCEPT ![n] = nonce]
        /\ reply' = [reply EXCEPT ![c] = [kind |-> "challenge", nonce |-> nonce]]
        /\ UNCHANGED <<sessions, secret, standing, known, client, faults>>

\* matching_netlogon_challenges: the computer's own, else everybody's.
MatchingChallenges(n) ==
    IF challenges[n] # 0 THEN {challenges[n]}
    ELSE {challenges[m] : m \in Computers} \ {0}

\* authenticate_netlogon_client, of a client that computed its credential
\* from `key`: without AES the channel is refused, and without a database
\* there is no account to prove.
AuthenticateStatus(n, key, aes, up) ==
    CASE ~aes -> "access_denied"
      [] aes /\ ~up -> "no_trust_sam_account"
      [] aes /\ up /\ (key.nonce \notin MatchingChallenges(n)
                        \/ key.pw # secret[n]) -> "access_denied"
      [] OTHER -> standing[n]

\* The challenge stays, and may be answered again until it expires.
Authenticate(c, pw, aes, up) ==
    LET n == ComputerOf[c]
        key == Key(pw, client[c].key.nonce)
        status == AuthenticateStatus(n, key, aes, up)
    IN  /\ Idle(c) /\ client[c].at = "challenged"
        /\ pw \in known[n]
        /\ ~up => faults < MaxFaults
        /\ faults' = IF up THEN faults ELSE faults + 1
        /\ sessions' = IF status # "enabled" THEN sessions
                       ELSE [sessions EXCEPT ![n] = [key |-> key, step |-> 0]]
        /\ reply' = [reply EXCEPT ![c] = [kind |-> "authenticate",
                      ok |-> status = "enabled", key |-> key]]
        /\ UNCHANGED <<challenges, secret, standing, known, client, made>>

-----------------------------------------------------------------------------
(***************************************************************************)
(* Calls over the channel.                                                 *)
(***************************************************************************)

\* matching_netlogon_session_keys: the computer's own session, else those of
\* everybody, when none of them is of its account.
MatchingSessions(n) == IF n \in Established THEN {n} ELSE Established

\* verify_netlogon_authenticator: the sessions that have the seed of the credential.
Verified(c) ==
    {n \in MatchingSessions(ComputerOf[c]) :
        /\ sessions[n].key = client[c].key
        /\ sessions[n].step = client[c].step /\ ~client[c].counted}

\* The credential returned is the next seed.
Advanced(n) == [sessions EXCEPT ![n].step = @ + 1]
\* Mutant: the credential moves only when the call succeeds.
AdvanceAnswered(c, ok) ==
    IF Verified(c) = {} \/ ~ok THEN sessions
    ELSE Advanced(CHOOSE n \in Verified(c) : TRUE)
\* The credential moves as soon as it is verified, whatever becomes of the
\* call: the reply carries the next one even when it reports a failure.
Advance(c, ok) ==
    IF Verified(c) = {} THEN sessions
    ELSE Advanced(CHOOSE n \in Verified(c) : TRUE)

Answer(c, kind, ok, new) ==
    /\ made.call < MaxCalls
    /\ made' = [made EXCEPT !.call = @ + 1,
                            !.password = IF new = 0 THEN @ ELSE new]
    /\ sessions' = Advance(c, ok)
    /\ reply' = [reply EXCEPT ![c] = [kind |-> kind, ok |-> ok, new |-> new,
                    verified |-> Verified(c) # {}]]

\* netlogon_get_domain_info, netlogon_capabilities at a level it knows, and
\* netlogon_sam_logon with an authenticator, whose user may be refused.
Call(c, granted) ==
    /\ Idle(c) /\ client[c].at = "ready"
    /\ Answer(c, "call", granted /\ Verified(c) # {}, 0)
    /\ UNCHANGED <<challenges, secret, standing, known, client, faults>>

\* netlogon_stub_response, for the calls that verify nothing: locating a
\* controller, sites, trusts, control, capabilities at an unknown level, and
\* sam_logon_ex, for which any session will do.
CallWithoutAuthenticator(c) ==
    Idle(c) /\ UNCHANGED vars

\* Mutant: the insert leaves a row that is there alone.
SecretKept(n, new, broken) == secret
\* persist_netlogon_machine_password: the connection, the account's metadata,
\* the secret, the metadata once more; a failure after the secret is a
\* failure with the secret changed.
SecretStored(n, new, broken) ==
    IF broken \in {"payload", "connect", "metadata", "secret"} THEN secret
    ELSE [secret EXCEPT ![n] = new]

\* How far a change gets.
Outcomes == {"no", "payload", "connect", "metadata", "secret", "stamp"}

\* netlogon_secure_channel_response with apply_password_set2_update.  A
\* computer changes its password from one place, one change at a time.
SetPassword(c, broken) ==
    LET n == ComputerOf[c]  new == made.password + 1
    IN  /\ Idle(c) /\ client[c].at = "ready" /\ new <= MaxPasswords
        /\ \A d \in Clients : ComputerOf[d] = n => reply[d].kind # "set"
        /\ broken # "no" => Verified(c) # {} /\ faults < MaxFaults
        /\ faults' = IF broken = "no" THEN faults ELSE faults + 1
        /\ Answer(c, "set", broken = "no" /\ Verified(c) # {}, new)
        /\ secret' = IF Verified(c) = {} THEN secret ELSE SecretStored(n, new, broken)
        /\ known' = [known EXCEPT ![n] = @ \cup {new}]
        /\ UNCHANGED <<challenges, standing, client>>

-----------------------------------------------------------------------------
(***************************************************************************)
(* The member: its seed moves while its calls are verified, and it starts  *)
(* again with a challenge when one is not.  It keeps the password it had   *)
(* and the one it asked for until a change is acknowledged.                *)
(***************************************************************************)
Receive(c) ==
    LET r == reply[c]
    IN  /\ r # NoReply
        /\ reply' = [reply EXCEPT ![c] = NoReply]
        /\ client' = [client EXCEPT ![c] =
             CASE r.kind = "challenge" ->
                    [Fresh EXCEPT !.at = "challenged", !.key.nonce = r.nonce]
               [] r.kind = "authenticate" /\ r.ok ->
                    [Fresh EXCEPT !.at = "ready", !.key = r.key]
               [] r.kind \in {"call", "set"} /\ r.verified ->
                    IF c \in Counting THEN [@ EXCEPT !.counted = TRUE] ELSE [@ EXCEPT !.step = @ + 1]
               [] OTHER -> Fresh]
        /\ known' = IF r.kind = "set" /\ r.ok
                    THEN [known EXCEPT ![ComputerOf[c]] = {r.new}] ELSE known
        /\ UNCHANGED <<challenges, sessions, secret, standing, made, faults>>

\* The reply does not arrive; the member goes on as if nothing was sent.
Lose(c) ==
    /\ ~Idle(c) /\ faults < MaxFaults
    /\ faults' = faults + 1
    /\ reply' = [reply EXCEPT ![c] = NoReply]
    /\ client' = [client EXCEPT ![c].unsure = TRUE]
    /\ UNCHANGED <<challenges, sessions, secret, standing, known, made>>

\* prune_netlogon_challenges_locked after five minutes,
\* prune_netlogon_sessions_locked after eight hours; run_uv_daemon anew.
Expire ==
    /\ faults < MaxFaults /\ faults' = faults + 1
    /\ \/ \E n \in Computers :
            /\ challenges' = [challenges EXCEPT ![n] = 0]
            /\ sessions' = sessions
       \/ \E n \in Computers :
            /\ sessions' = [sessions EXCEPT ![n] = NoSession]
            /\ challenges' = challenges
       \/ /\ challenges' = [n \in Computers |-> 0]
          /\ sessions' = [n \in Computers |-> NoSession]
    /\ UNCHANGED <<secret, standing, known, client, reply, made>>

Next ==
    \/ \E c \in Clients :
         \/ ReqChallenge(c) \/ Receive(c) \/ Lose(c) \/ CallWithoutAuthenticator(c)
         \/ \E pw \in 1 .. MaxPasswords, aes, up \in BOOLEAN : Authenticate(c, pw, aes, up)
         \/ \E granted \in BOOLEAN : Call(c, granted)
         \/ \E broken \in Outcomes : SetPassword(c, broken)
    \/ Expire

Spec == Init /\ [][Next]_vars

-----------------------------------------------------------------------------
(***************************************************************************)
(* Properties.                                                             *)
(***************************************************************************)

\* A member that has the key of its computer's session, and takes the credential
\* returned for its next seed (tests/unit_tests.cpp:2838), is in step with the
\* server: with no reply outstanding or lost their seeds are the same, a verified
\* reply on its way puts the server one ahead, and a lost one may have.  Refused
\* calls, the calls of other computers, and password changes that fail in the
\* database do not set them apart.  One that counts on from its own seed is in step
\* up to its first verified call and never afterwards: the server is one ahead, so
\* that every further call over the session is denied.
ChannelInStep ==
    \A c \in Clients :
      LET s == sessions[ComputerOf[c]]  k == client[c]
          ahead == IF reply[c].kind \in {"call", "set"} /\ reply[c].verified
                   THEN 1 ELSE 0
      IN  (k.at = "ready" /\ s.key = k.key) =>
            IF k.counted THEN c \in Counting /\ s.step = k.step + 1
            ELSE \/ s.step = k.step + ahead
                 \/ k.unsure /\ s.step = k.step + 1

\* The password in the database is one the member still tries: a change it
\* was told of is stored, and one it was refused, or not told of, is either
\* the old password or the new.  So a member can always come back.
PasswordKnown == \A n \in Computers : secret[n] \in known[n]
===============================================================================
