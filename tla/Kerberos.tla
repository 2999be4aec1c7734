------------------------------- MODULE Kerberos -------------------------------
(***************************************************************************)
(* The KDC and kpasswd (libs/protocol/src/kerberos.cpp) over the accounts  *)
(* in PostgreSQL (apps/directory/main.cpp).                                *)
(*                                                                         *)
(* The daemon keeps nothing between packets: every packet loads the        *)
(* principals again, so what it answers rests on the rows of that moment,  *)
(* and all it has promised is in the tickets that clients hold.  It        *)
(* handles one packet at a time; the API is another process and changes    *)
(* the rows between the statements of a password change.                   *)
(*                                                                         *)
(* An account is a number, users in the order of their DNs.  A key is the  *)
(* number of the password it was derived from; 0 is none.  Session keys,   *)
(* times and the contents of the PAC are left out: a ticket is what it was *)
(* sealed with, and its holder.                                            *)
(***************************************************************************)
EXTENDS Naturals, Sequences

CONSTANTS
    Users, Services,   \* accounts: people, and machines with service names
    Offers,        \* the encryption types clients ask for, in their order
    MaxPasswords, MaxChanges, MaxFaults   \* bounds

Krbtgt == 502     \* its RID
ChangePw == 464   \* kadmin/changepw, by its well-known port
Accounts == Users \cup Services \cup {Krbtgt}
Targets == Services \cup {ChangePw}
\* load_kerberos_principals: the password service is an alias of krbtgt.
AccountOf(n) == IF n = ChangePw THEN Krbtgt ELSE n
\* A stored secret has a key of each of these, in this order.
Stored == <<17, 18>>
Etypes == {17, 18}

VARIABLES
    present,       \* accounts with a row in ad_objects
    blocked,       \* those disabled or expired
    key,           \* ad_account_secrets
    renewed,       \* services an administrator gave another password
    believed,      \* the passwords each user may have to try
    tgt, tickets,  \* the tickets each user holds
    job,           \* the password change being written
    passwords, changes, faults   \* counters for the bounds

vars == <<present, blocked, key, renewed, believed, tgt, tickets, job, passwords, changes, faults>>
rows == <<present, blocked, key, renewed>>
held == <<tgt, tickets>>
counters == <<passwords, changes, faults>>

NoTicket == [etype |-> 0, key |-> 0]
Ticket == [etype : Etypes \cup {0}, key : 0 .. MaxPasswords]
Idle == [at |-> "idle"]

TypeOK ==
    /\ present \subseteq Accounts /\ blocked \subseteq Accounts
    /\ key \in [Accounts -> 0 .. MaxPasswords] /\ renewed \subseteq Accounts
    /\ believed \in [Users -> SUBSET (1 .. MaxPasswords)]
    /\ tgt \in [Users -> Ticket]
    /\ tickets \in [Users -> [Targets -> Ticket]]
    /\ job.at \in {"idle", "stamp", "secret"}
    /\ passwords \in 0 .. MaxPasswords /\ changes \in 0 .. MaxChanges
    /\ faults \in 0 .. MaxFaults

\* default_ad_seed_objects: krbtgt is seeded disabled, and nothing has a secret.
Init ==
    /\ present = Accounts /\ blocked = {Krbtgt}
    /\ key = [a \in Accounts |-> 0] /\ renewed = {}
    /\ believed = [u \in Users |-> {}]
    /\ tgt = [u \in Users |-> NoTicket]
    /\ tickets = [u \in Users |-> [s \in Targets |-> NoTicket]]
    /\ job = Idle
    /\ passwords = 0 /\ changes = 0 /\ faults = 0

Counted(broken) == /\ broken => faults < MaxFaults
                   /\ faults' = IF broken THEN faults + 1 ELSE faults

-----------------------------------------------------------------------------
(***************************************************************************)
(* What the KDC answers from the rows as they are.                         *)
(***************************************************************************)
Found(n) == AccountOf(n) \in present
HasKeys(n) == Found(n) /\ key[AccountOf(n)] # 0
\* principal_account_blocking_reason.
Barred(n) == AccountOf(n) \in blocked

\* The places in an offer of types that keys have, and the first of these types.
Wanted(offer) == {n \in DOMAIN offer : offer[n] \in Etypes}
FirstWanted(offer) == offer[CHOOSE n \in Wanted(offer) : \A m \in Wanted(offer) : n <= m]

\* preauth_method_data: the types a client is told to prove itself with, those
\* it asked for that have keys, else the first there is.
Hinted(offer) ==
    IF offer = <<>> THEN Etypes
    ELSE IF Wanted(offer) = {} THEN {Stored[1]}
    ELSE {offer[n] : n \in Wanted(offer)}

\* select_as_rep_enctype: what was asked for, else what the proof was made with.
ReplyEtype(offer, proof) ==
    IF offer = <<>> THEN proof
    ELSE IF Wanted(offer) = {} THEN 0 ELSE FirstWanted(offer)

\* select_service_key: what was asked for, else the first key there is.
ServiceEtype(offer) == IF Wanted(offer) = {} THEN Stored[1] ELSE FirstWanted(offer)

Sealed(n, e) == [etype |-> e, key |-> key[AccountOf(n)]]
\* Decryption with the key that the account has now.
Opens(t, n) == t.etype \in Etypes /\ t.key # 0 /\ t.key = key[AccountOf(n)]

\* kerberos_error_response, AS-REQ: the ticket-granting ticket, or NoTicket.
AsReply(u, password, offer, proof) ==
    IF /\ HasKeys(u) /\ ~Barred(u)
       /\ password = key[u]
       /\ HasKeys(Krbtgt)
       /\ ReplyEtype(offer, proof) # 0
    THEN Sealed(Krbtgt, ReplyEtype(offer, proof))
    ELSE NoTicket

\* kerberos_error_response, TGS-REQ: the service's ticket, or NoTicket.  A
\* client that is not found any more is not looked at further.
TgsReply(u, t, s, offer) ==
    IF /\ HasKeys(Krbtgt) /\ Opens(t, Krbtgt)
       /\ Found(u) => ~Barred(u)
       /\ HasKeys(s) /\ ~Barred(s)
    THEN Sealed(s, ServiceEtype(offer))
    ELSE NoTicket

\* validate_kerberos_ap_req.
Accepts(u, t, s) ==
    /\ HasKeys(s) /\ ~Barred(s)
    /\ Opens(t, s)
    /\ Found(u) => ~Barred(u)

-----------------------------------------------------------------------------
(***************************************************************************)
(* What clients do.                                                        *)
(***************************************************************************)
\* A user asks for a ticket-granting ticket with a password he may have, or
\* with a wrong one.
AsRequest(u, offer, proof) ==
    /\ job = Idle
    /\ \E p \in believed[u] \cup {0} :
           LET reply == AsReply(u, p, offer, proof) IN
           tgt' = IF reply = NoTicket THEN tgt ELSE [tgt EXCEPT ![u] = reply]
    /\ UNCHANGED <<rows, believed, tickets, job, counters>>

\* A user asks for a service's ticket; refused, he lets go of what he asked with.
TgsRequest(u, s, offer) ==
    /\ job = Idle /\ tgt[u] # NoTicket
    /\ LET reply == TgsReply(u, tgt[u], s, offer) IN
       /\ tickets' = [tickets EXCEPT ![u][s] = reply]
       /\ tgt' = IF reply = NoTicket THEN [tgt EXCEPT ![u] = NoTicket] ELSE tgt
    /\ UNCHANGED <<rows, believed, job, counters>>

\* The daemon is shown a service's ticket (SMB session setup, LDAP bind);
\* refused, the user lets go of it.
ApRequest(u, s) ==
    /\ job = Idle /\ s \in Services /\ tickets[u][s] # NoTicket
    /\ tickets' = IF Accepts(u, tickets[u][s], s) THEN tickets
                  ELSE [tickets EXCEPT ![u][s] = NoTicket]
    /\ UNCHANGED <<rows, believed, tgt, job, counters>>

-----------------------------------------------------------------------------
(***************************************************************************)
(* kpasswd.  The candidates are the target and whoever asks, joined with   *)
(* "or": the row taken is the first by DN that is one or the other.        *)
(***************************************************************************)
Candidates(u, target) == {u, target} \cap present
ChangedRow(u, target) ==
    CHOOSE a \in Candidates(u, target) : \A b \in Candidates(u, target) : a <= b

\* Both users may find the new password set where they did not expect it.
MayHave(u, target, value) ==
    [b \in Users |-> believed[b] \cup (IF b \in {u, target} THEN {value} ELSE {})]

\* What a request with a good ticket is refused for before anything is
\* written: change data that does not decode, a database that does not answer.
Refusals == {"data", "database"}

\* kerberos_kpasswd_response as far as the row that the handler has read.
Kpasswd(u, target, broken) ==
    /\ job = Idle /\ passwords < MaxPasswords
    /\ tickets[u][ChangePw] # NoTicket
    /\ Counted(broken \in Refusals)
    /\ IF Accepts(u, tickets[u][ChangePw], ChangePw)
       THEN IF broken \in Refusals \/ Candidates(u, target) = {}
            THEN UNCHANGED <<tickets, job, passwords>>
            ELSE LET a == ChangedRow(u, target) IN
                 /\ job' = [at |-> "stamp", user |-> u, target |-> target, account |-> a,
                            barred |-> a \in blocked, value |-> passwords + 1]
                 /\ passwords' = passwords + 1
                 /\ UNCHANGED tickets
       ELSE /\ tickets' = [tickets EXCEPT ![u][ChangePw] = NoTicket]
            /\ UNCHANGED <<job, passwords>>
    /\ UNCHANGED <<rows, believed, tgt, changes>>

\* persist_ldap_object_to_connection: the row goes back as it was read, with
\* the time of the password; a row deleted since is inserted again.
KpasswdStamp(broken) ==
    /\ job.at = "stamp" /\ Counted(broken)
    /\ IF broken
       THEN job' = Idle /\ UNCHANGED <<present, blocked>>
       ELSE /\ present' = present \cup {job.account}
            /\ blocked' = IF job.barred THEN blocked \cup {job.account}
                          ELSE blocked \ {job.account}
            /\ job' = [job EXCEPT !.at = "secret"]
    /\ UNCHANGED <<key, renewed, believed, held, passwords, changes>>

\* The upsert of ad_account_secrets.
\* Mutant: an insert that leaves a row that is there alone.
SecretKept(a, value) == IF key[a] = 0 THEN [key EXCEPT ![a] = value] ELSE key
SecretStored(a, value) == [key EXCEPT ![a] = value]

\* The handler's answer: success only when all of it worked.
Confirmed(stored, stamped) == stored /\ stamped

\* persist_ad_account_secret: the secret, then the times in both tables; the
\* user is told "changed" only when all of it worked, and may not hear it.
KpasswdSecret(stored, stamped, heard) ==
    /\ job.at = "secret" /\ Counted(~(Confirmed(stored, stamped) /\ heard))
    /\ key' = IF stored THEN SecretStored(job.account, job.value) ELSE key
    /\ believed' =
           IF Confirmed(stored, stamped) /\ heard /\ job.user = job.target
           THEN [believed EXCEPT ![job.user] = {job.value}]
           ELSE MayHave(job.user, job.target, job.value)
    /\ job' = Idle
    /\ UNCHANGED <<present, blocked, renewed, held, passwords, changes>>

-----------------------------------------------------------------------------
(***************************************************************************)
(* The API, at any moment.                                                 *)
(***************************************************************************)
\* bootstrap_system_ad_secrets: krbtgt, then the domain controller, where
\* there is none yet (ensure_system_ad_secret).
\* Mutant: krbtgt's are made at every start.
LacksAny(a) == key[a] = 0 \/ a = Krbtgt
Lacks(a) == key[a] = 0
Bootstrap(broken) ==
    /\ passwords < MaxPasswords /\ Counted(broken)
    /\ \E a \in Services \cup {Krbtgt} : Lacks(a)
    /\ LET reached == IF broken THEN {Krbtgt} ELSE {Krbtgt} \cup Services IN
       key' = [a \in Accounts |-> IF a \in reached /\ Lacks(a) THEN passwords + 1 ELSE key[a]]
    /\ passwords' = passwords + 1
    /\ UNCHANGED <<present, blocked, renewed, believed, held, job, changes>>

\* An administrator sets an account's password, creating it where it is gone.
Reset(a) ==
    /\ passwords < MaxPasswords
    /\ present' = present \cup {a}
    /\ key' = [key EXCEPT ![a] = passwords + 1]
    /\ believed' = [u \in Users |->
           IF u = a
           THEN {passwords + 1}
                    \cup (IF job # Idle /\ u \in {job.user, job.target} THEN {job.value} ELSE {})
           ELSE believed[u]]
    /\ renewed' = renewed \cup ({a} \ Users)
    /\ passwords' = passwords + 1
    /\ UNCHANGED <<blocked, held, job, changes, faults>>

Change == changes < MaxChanges /\ changes' = changes + 1

\* An administrator disables or enables an account.
Toggle(a) ==
    /\ Change /\ a \in present
    /\ blocked' = IF a \in blocked THEN blocked \ {a} ELSE blocked \cup {a}
    /\ UNCHANGED <<present, key, renewed, believed, held, job, passwords, faults>>

\* A delete: the secret goes with the row.
Delete(u) ==
    /\ Change /\ u \in present
    /\ present' = present \ {u} /\ blocked' = blocked \ {u}
    /\ key' = [key EXCEPT ![u] = 0]
    /\ UNCHANGED <<renewed, believed, held, job, passwords, faults>>

Asks ==
    \E u \in Users :
        \/ \E offer \in Offers : \E proof \in Hinted(offer) : AsRequest(u, offer, proof)
        \/ \E s \in Targets, offer \in Offers : TgsRequest(u, s, offer)
        \/ \E s \in Services : ApRequest(u, s)

ChangesPassword ==
    \/ \E u, target \in Users, broken \in Refusals \cup {"no"} : Kpasswd(u, target, broken)
    \/ \E broken \in BOOLEAN : KpasswdStamp(broken)
    \/ \E stored, stamped, heard \in BOOLEAN : KpasswdSecret(stored, stamped, heard)

Administers ==
    \/ \E broken \in BOOLEAN : Bootstrap(broken)
    \/ \E u \in Users : Delete(u)
    \/ \E a \in Accounts : Reset(a) \/ Toggle(a)

Next == Asks \/ ChangesPassword \/ Administers

Spec == Init /\ [][Next]_vars

-----------------------------------------------------------------------------
(***************************************************************************)
(* Properties.                                                             *)
(***************************************************************************)
\* Whatever failed, was lost or came in between, the key the KDC holds for a
\* user was derived from a password that user may still try: a change that
\* was confirmed is the one in force, one that was refused may be, and no
\* change for one account lands on a third.
KeysFollow ==
    \A u \in Users : u \in present /\ key[u] # 0 =>
        \/ key[u] \in believed[u]
        \/ job # Idle /\ key[u] = job.value

\* However often the API starts, and wherever a start was cut, a ticket that a
\* user holds opens with the key its service has: keys are made once, and no
\* change of a user's password touches a service's.  Only an administrator who
\* sets that service's password ends its tickets.
TicketsLast ==
    \A u \in Users :
        /\ tgt[u] # NoTicket => Opens(tgt[u], Krbtgt) \/ Krbtgt \in renewed
        /\ \A s \in Targets :
               tickets[u][s] # NoTicket => Opens(tickets[u][s], s) \/ AccountOf(s) \in renewed

InOrder(n) == HasKeys(n) /\ ~Barred(n)

\* What a user gets who starts from the password that is in force.
Afresh(u, s, offer, proof) ==
    TgsReply(u, AsReply(u, key[u], offer, proof), s, offer)

\* Whatever keys were replaced, a user in order who offers a type that keys
\* have, and asks again from the start, gets a ticket that the service then
\* accepts and whose type he asked for; so does not one whose service, or who
\* himself, is disabled.
ServedAfresh ==
    \A u \in Users, s \in Targets, offer \in Offers : \A proof \in Hinted(offer) :
        LET ticket == Afresh(u, s, offer, proof)
            usable == Wanted(offer) # {} \/ offer = <<>> IN
        IF InOrder(u) /\ InOrder(s) /\ HasKeys(Krbtgt) /\ usable
        THEN /\ Accepts(u, ticket, s)
             /\ offer = <<>> \/ \E i \in DOMAIN offer : offer[i] = ticket.etype
        ELSE ticket = NoTicket

\* "kpasswd validates AP-REQ, decrypts KRB-PRIV ChangePasswdData and persists
\* wrapped AD account secrets": a user in order can get a ticket for the
\* password service once krbtgt has its keys.  krbtgt is seeded disabled, its
\* alias inherits that, and the request is answered "service revoked".
KpasswdServes ==
    \A u \in Users : InOrder(u) /\ HasKeys(Krbtgt) =>
        Accepts(u, Afresh(u, ChangePw, <<18>>, 18), ChangePw)
===============================================================================
