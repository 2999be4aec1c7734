---------------------------- MODULE DaemonServices -----------------------------
(***************************************************************************)
(* What the directory and network daemons serve: names (DNS), groups       *)
(* (LDAP), the secure channel of machines (Netlogon), accounts (SAMR,      *)
(* LSA), tickets (Kerberos, kpasswd) and files and pipes (SMB).  Each      *)
(* module keeps its own part of the state; an instance runs one of them,   *)
(* chosen at the start, and the others stay as they are.                   *)
(***************************************************************************)
EXTENDS Netlogon, Sequences

CONSTANTS
    Daemons,   \* the services of the instance
    \* DynamicDns
    Owners, Zones, ZoneOf, Domain, Types, AnyType, Values, nothing, Seed,
    MaxEntries, MaxUpdates, DnsFaults,
    \* Memberships
    Dns, GroupDns, Protocols, LdapRequests, LdapFaults,
    \* LdapSearch, over the groups of Memberships
    Containers, ParentOf,
    \* Samr
    Machines, Builtins, RidOf, Limit, PageSize, SamrRequests, SamrFaults,
    \* Smb; its clients are those of Netlogon
    Pipes, DialectOffers, Shares, SmbRequests, MaxWrites, SmbFaults,
    \* Kerberos
    Users, Services, EtypeOffers, KdcPasswords, MaxChanges, KdcFaults

ASSUME DaemonsAssumption ==
    /\ Daemons \subseteq {"netlogon", "dns", "ldap", "samr", "smb", "kdc"}
    /\ {DnsFaults, LdapFaults, SamrFaults, SmbFaults, KdcFaults} \subseteq Nat
    /\ {MaxEntries, MaxUpdates, LdapRequests, SamrRequests, SmbRequests, MaxWrites} \subseteq Nat
    /\ {KdcPasswords, MaxChanges} \subseteq Nat
    \* A name has a zone, and the synthetic records are of the domain's.
    /\ ZoneOf \in [Owners -> Zones] /\ Domain \in Zones
    /\ Seed \subseteq {r \in [owner : Owners, type : Types, value : Values] : ZoneOf[r.owner] = Domain}
    \* SAMR's accounts have RIDs, those of the built-in ones nobody else has
    \* (synthetic_rid), and a page has an entry (samr_display_max_entries).
    /\ IsFiniteSet(Machines \cup Builtins) /\ RidOf \in [Machines \cup Builtins -> Nat]
    /\ \A b \in Builtins, n \in Machines \cup Builtins : RidOf[b] = RidOf[n] => n = b
    /\ Limit \in Nat /\ PageSize \in Nat \ {0}
    \* An account is a number, and krbtgt's and kadmin/changepw's are nobody else's.
    /\ Users \cup Services \subseteq Nat
    /\ Users \cap Services = {} /\ {502, 464} \cap (Users \cup Services) = {}
    \* A directory is finite.
    /\ IsFiniteSet(Dns)
    /\ EtypeOffers \subseteq Seq(Nat)
    /\ "none" \notin Pipes

VARIABLES
    daemon,
    zoneRows, table, zones, memory, dnsAt, update, i, updates, dnsFaults, stale, promised,
    rows, unmirrored, memberships, ldapAt, ldapJob, ldapRequests, ldapFaults, asked, open,
    identity, accounts, nt, told, page, samrRequests, samrFaults,
    pending, replies, overlay, signer, smbClient, mixed, written, smbRequests, writes, smbFaults,
    present, blocked, key, renewed, believed, tgt, tickets, change, passwords, changes, kdcFaults

dnsVars == <<zoneRows, table, zones, memory, dnsAt, update, i, updates, dnsFaults, stale, promised>>
ldapVars == <<rows, unmirrored, memberships, ldapAt, ldapJob, ldapRequests, ldapFaults, asked, open>>
samrVars == <<identity, accounts, nt, told, page, samrRequests, samrFaults>>
smbVars == <<pending, replies, overlay, signer, smbClient, mixed, written, smbRequests, writes,
             smbFaults>>
kdcVars == <<present, blocked, key, renewed, believed, tgt, tickets, change, passwords, changes, kdcFaults>>

Names == INSTANCE DynamicDns WITH
    Open <- nothing, MaxFaults <- DnsFaults,
    known <- zones, at <- dnsAt, faults <- dnsFaults

Ldap == INSTANCE LdapSearch WITH
    MaxRequests <- LdapRequests, MaxFaults <- LdapFaults,
    objects <- rows, table <- memberships, at <- ldapAt, job <- ldapJob,
    requests <- ldapRequests, faults <- ldapFaults

Samr == INSTANCE Samr WITH
    MaxRequests <- SamrRequests, MaxFaults <- SamrFaults,
    objects <- accounts, secret <- nt, requests <- samrRequests, faults <- samrFaults

Smb == INSTANCE Smb WITH
    Offers <- DialectOffers, MaxRequests <- SmbRequests, MaxFaults <- SmbFaults,
    client <- smbClient, requests <- smbRequests, faults <- smbFaults

Kdc == INSTANCE Kerberos WITH
    Offers <- EtypeOffers, MaxPasswords <- KdcPasswords, MaxFaults <- KdcFaults,
    job <- change, faults <- kdcFaults

daemonsVars == <<daemon, vars, dnsVars, ldapVars, samrVars, smbVars, kdcVars>>

DaemonsInit ==
    /\ daemon \in Daemons
    /\ Init /\ Names!Init /\ Ldap!Init /\ Samr!Init /\ Smb!Init /\ Kdc!Init
    \* One start for those that stay as they are.
    /\ daemon # "netlogon" => \A n \in Computers : standing[n] = "enabled"
    /\ daemon # "dns" => zoneRows = {}
    /\ daemon # "ldap" => DOMAIN rows = GroupDns

DaemonsNext ==
    /\ UNCHANGED daemon
    /\ \/ /\ daemon = "netlogon" /\ Next
          /\ UNCHANGED <<dnsVars, ldapVars, samrVars, smbVars, kdcVars>>
       \/ /\ daemon = "dns" /\ Names!Next
          /\ UNCHANGED <<vars, ldapVars, samrVars, smbVars, kdcVars>>
       \/ /\ daemon = "ldap" /\ Ldap!Next
          /\ UNCHANGED <<vars, dnsVars, samrVars, smbVars, kdcVars>>
       \/ /\ daemon = "samr" /\ Samr!Next
          /\ UNCHANGED <<vars, dnsVars, ldapVars, smbVars, kdcVars>>
       \/ /\ daemon = "smb" /\ Smb!Next
          /\ UNCHANGED <<vars, dnsVars, ldapVars, samrVars, kdcVars>>
       \/ /\ daemon = "kdc" /\ Kdc!Next
          /\ UNCHANGED <<vars, dnsVars, ldapVars, samrVars, smbVars>>

DaemonsSpec == DaemonsInit /\ [][DaemonsNext]_daemonsVars

\* What DynamicDns says of the records served and of registrations.
NamesHeld == daemon = "dns" => Names!ServedIsStored /\ Names!RegistrationsLast

\* What Memberships says of the records of a membership.
MembershipsAgree == daemon = "ldap" => Ldap!MembershipsAgree

\* What LdapSearch says of what a search finds in the groups.
SearchSound == daemon = "ldap" => Ldap!SearchSound

\* What Samr says of joins, members and listings.
AccountsSound == daemon = "samr" => Samr!JoinStored /\ Samr!MembersAgree /\ Samr!ListingComplete

\* What Smb says of replies, files and dialects.
SharesSound == daemon = "smb" => Smb!OwnReplies /\ Smb!AuthoredKept /\ Smb!DialectConfirmed

\* What Kerberos says of keys and of tickets.
TicketsSound == daemon = "kdc" => Kdc!KeysFollow /\ Kdc!TicketsLast /\ Kdc!ServedAfresh

\* sql/migrations/002_active_directory.sql:108: "kpasswd validates AP-REQ, decrypts
\* KRB-PRIV ChangePasswdData and persists wrapped AD account secrets".  A user in
\* order can get a ticket for the password service once krbtgt has its keys.
KpasswdServes == daemon = "kdc" => Kdc!KpasswdServes

\* Each module's state keeps its types.
TypesOK ==
    CASE daemon = "netlogon" -> TypeOK
      [] daemon = "dns" -> Names!TypeOK
      [] daemon = "ldap" -> Ldap!TypeOK
      [] daemon = "samr" -> Samr!TypeOK
      [] daemon = "smb" -> Smb!TypeOK
      [] daemon = "kdc" -> Kdc!TypeOK
===============================================================================
