# Endorium Nexus in TLA+

A specification of the back end of Endorium Nexus: TLA+ modules translated from
its C++ sources, TLC configurations that check them on small instances, and
theorems that TLAPS checks for every instance. `PROJECT.json` ties every
definition to the lines it stands for, every property to a change of the code
that breaks it, and every hazard to the properties that watch it.

Run, in this directory:

    tlc -config Supervisor_loop.cfg MCSupervisor       # any row of "Runs"
    tlapm SupervisorProofs.tla                         # any module named *Proofs

## The system

| component | state | operations | talks to |
|---|---|---|---|
| `nexus-services`, the supervisor (`apps/services/main.cpp`) | its configuration and environment, `running`, `blocked_services`, `last_settings_write` | load, reconcile, reap, poll, reload, restart | reads `settings.json` and three tables; parent of the daemons |
| `nexus-api` (`apps/api`) | settings and flags, directory objects, DNS zones, DHCP pools, PKI, sessions, audit, in memory | REST handlers, on one Drogon thread (`main.cpp:1706`); Git smart HTTP and proxy downloads on threads of their own | writes through to PostgreSQL and `settings.json`; runs `git`, `gpg`, `curl`, `dpkg` |
| migrations (`libs/storage`), run by `nexusctl` and by the API | `schema_migrations` and every table | one pass: list, then per file run, record, commit | PostgreSQL |
| directory daemon (`apps/directory`) | LDAP sessions; all else is read from the database per request | LDAP, Kerberos, kpasswd, RPC (SAMR, LSA, Netlogon), SMB2 | PostgreSQL, the same tables as the API |
| network daemon (`apps/network`) | the zones it loaded at its start | DNS queries and dynamic updates; DHCP is a listener without handler | PostgreSQL |
| event loop (`libs/core/uv_runtime.cpp`) | connections, one write buffer each | accept, read, handle, write, close | the daemons' handlers |
| APT and VCS libraries (`libs/apt`, `libs/vcs`) | files under the blob root, rows in PostgreSQL | create, upload, publish, delete, repair, tokens | `gpg`, `dpkg-deb`, `git` |
| `nexus-pki-repo` | none, a stub | none | none |
| administration console (`frontend`) | forms | calls the API | API |

How they interact: there is no RPC between the processes. They meet in
PostgreSQL, where almost every write is a statement that commits at once, in
`settings.json`, which the API replaces by rename and the supervisor polls
every two seconds, and in the process table. Inside a process nearly
everything is sequential, so what is hard is what happens between two
processes, and what a death, a refused connection or a restart leaves behind.

What is hard, and what makes each part correct:

* **Supervisor.** Polling a file that others replace; children that exit at any
  time; prerequisites that come and go; its own death. Right: no daemon is left
  on old settings, leaked or started twice; a block means what the log says;
  settings take effect; what can run does.
* **Migrations.** Several hosts start at once; a host dies inside a
  transaction; retries that end. Right: each file's effects once and in order;
  nobody serves an old schema; everybody comes to serve.
* **Directory store.** Two writers, five tables, no transactions, one of the
  writers with a copy in memory, the other with a mirror that runs at every
  request. Right: the projection follows the canonical table, no keys or names
  dangle, what was reported as done is stored, a restart reconciles.
* **Settings.** Three copies of the flags, written in a row; an update without
  a database reports success; two requests rewrite the file alone. Right: after
  a success the copies agree, the supervisor runs what the API shows, and
  nothing is started for an update that was refused.
* **Catalogues.** Lists in memory that a start empties, rows that are written
  and never read back, a row replaced before the name is looked up. Right: what
  is listed is counted by the supervisor, a revocation stands for good and is
  marked in both tables, listed certificates verify.
* **DNS daemon.** Rows changed statement by statement, then memory, whatever
  became of the rows. Right: what is served is what a restart would serve, and a
  registration that was answered lasts.
* **Event loop and LDAP.** One answer buffer per connection; sessions kept under
  an address that a later connection can get, and evicted when there are many.
  Right: a connection's session is what its own binds came to; a client that
  waits is answered or told that it is not.
* **Memberships.** A membership is kept in three places, written by two protocols
  without a transaction. Right: the three agree, and searches, chains of groups
  included, find what they show.
* **Netlogon.** Two ends of a chain of credentials that only replies keep
  together, and a password changed over it. Right: the ends are in step, and
  a member always knows the stored password.
* **SAMR, SMB, Kerberos.** Made-up answers without a database, pipes and files
  that all clients share, keys replaced under tickets. Right: what was
  acknowledged at a join is stored, a client reads its own replies, a ticket
  follows the keys there are now.
* **APT, VCS, proxy cache.** Files against rows, with crashes and concurrent
  requests. Right: what an index names exists and is what it says; a push or a
  repository that was acknowledged is not undone by somebody else's repair.

## Modules

| module | models | composed with |
|---|---|---|
| `Supervisor` | the supervisor's loop, its children, the host's process table, `settings.json` and the prerequisite tables | implements `Follower` |
| `Follower` | abstract: what the supervisor promises of `settings.json` | stands for `Supervisor` in `Settings` |
| `Settings` | the API's side of the flags: table, file, memory | EXTENDS `Follower` |
| `Migrations` | `pending_migrations`, `apply_migrations`, their callers on several hosts, PostgreSQL's transactions | implements `SchemaUpgrade` |
| `SchemaUpgrade` | abstract: what the hosts that migrate promise of the database together | |
| `Directory` | the identity store under its two writers, the API and the directory daemon | |
| `DynamicDns` | zones of the network daemon: start, dynamic updates, restarts | |
| `Catalogue` | the API's zones, pools, authorities, certificates, revocations, against their rows | |
| `AptRepository` | the APT repositories: rows, artifacts, the console's list | |
| `VcsRepository` | the Git repositories: row and storage under the console's requests and Git clients | |
| `ProxyCache` | one file of the package proxy and the threads that fetch it | |
| `ApiStores` | `Catalogue`, `AptRepository`, `VcsRepository` and `ProxyCache`, of which a behaviour runs one | EXTENDS `Catalogue`, INSTANCEs the others |
| `LdapService` | the event loop's connections, LDAP requests and the sessions kept per connection | |
| `Memberships` | group memberships in the directory daemon, over LDAP and SAMR | |
| `LdapSearch` | searches: constructed attributes, filters, chains, scopes | EXTENDS `Memberships`; in `DaemonServices` |
| `Netlogon` | the secure channel of members, and machine passwords | |
| `Samr` | SAMR and LSA: joins, members, listings | |
| `Smb` | SMB2: dialects, pipes, policy files | |
| `Kerberos` | the KDC and kpasswd, with the API changing accounts meanwhile | |
| `DaemonServices` | `Netlogon`, `Samr`, `Smb`, `Kerberos`, `Memberships` and `DynamicDns`, of which a behaviour runs one | EXTENDS `Netlogon`, INSTANCEs the others |
| `SupervisorProofs`, `MigrationsProofs`, `SettingsProofs`, `DirectoryProofs`, `LdapServiceProofs` | theorems | EXTEND the component |
| `StoresProofs`, `DaemonProofs` | theorems about each part of `ApiStores` and of `DaemonServices`, and about the whole | EXTEND the composition |
| `Lemmas` | lemmas on numbers, sequences and ranks that the proofs share | |
| `MC...` | values of the constants and symmetry for the runs | EXTEND the component |

A definition that a comment calls *Mutant* stands before the definition it
deforms and is used by no specification.

### Supervisor

`pc` is the place in the loop; a phase lasts from one point where another
process can interfere to the next. `LoadAtStart`, then a first reconcile
(`Visit(s)` once per service: `Block`, `Start`, `StartFails`, `Keep`,
`ReconcileDone`), then `StampAtStart`, in that order as in `main`. The loop is
`ReapExited`, `PollUnchanged` or `PollChanged`, `Reload` or `ReloadFails`, the
restart (`Stop`, `RestartDone`), and the reconcile again. `procs` is
the host's table of pids: a child that exited keeps its slot as a zombie until
the supervisor collects it, and a slot that is free can be given to anything. A
configuration is the version of the file it came from (0 for the environment's)
and the services it enables; a child carries the version it inherited as its
environment. `World` is everybody else: the API or an operator replaces the
file (`WriteSettings`, also by something that is not JSON), a table gets its
first row or loses its last one, the database goes and comes, a child exits, the
supervisor dies with its control group (systemd) or alone (`run.sh`), and is
started again.

### Settings and Follower

`Follower` has the file and the supervisor's configuration, and lets the
configuration become what the file holds at any moment, or the environment's when the
file cannot be used. `ImplementsFollower` proves that `Supervisor` does no more,
so `Settings` composes the API with `Follower` and keeps its state small. `Put`
begins a request; `Sync`, `Persist`, `Apply` are the table, the file and memory in
the order of `update_settings` and `update_feature_flags`; each can fail, and the
API can die between them. `Migrate` and `Boot` are a start: the file, then the
table if it has rows. `Restart` is `restart_dns_service` and
`restart_dhcp_service`, which write memory to the file. `trouble`, `started` and `allowed`
are history variables, read by no action's guard: what went wrong since all three copies were
written, what this run of the API found when it started, and what was not refused. A restart
of a service may put into force what was not refused or what the start found; that a refused update is
found in the table by a later start is what the code does.

### Migrations and SchemaUpgrade

Each host goes through `nexusctl migrate` (`stage` "ctl", up to `Attempts`
times) and the API's own pass ("api"). `Plan` reads the versions once; `RunFile`
opens a transaction and runs the least missing file; `Record` inserts its version
and waits, as the primary key makes it, while another transaction holds the same
version, and fails when that committed; `Commit`. `Fail` is where an error of each
stage leads. `Die` and `LoseDatabase` close connections, and what was not committed is
gone. `SchemaUpgrade` is what must come of it: one step per file, and hosts that serve on the last version.
`UpgradesSchema` maps its `effects` to `times` and its `servers` to the hosts whose stage is "serving".

### Directory

`at[p]` is the statement a process executes next and `job[p]` its operation.
The API's writes go to `identity_objects`, `ad_objects`, `ad_service_principals`
and `ad_account_secrets` one statement after another, then its list; what fails
is skipped. Its start loads the canonical table (the projection when that is
empty), writes everything back and bootstraps the seed accounts. The daemon
first mirrors into `ad_objects` what only the projection has, decides, and
writes; only `RenameTransaction` is atomic. An object is the operation that wrote
it and its SID. `ad_objects` has a SID once, and an upsert settles a conflict on
the dn only (`Clash`): a canonical row with a SID that another row has is
refused (`PutRefused`), which the API logs and passes over, which ends the daemon's
request, and which keeps a whole mirror or rename out. `clashed` (a history variable)
are the names whose canonical row was refused in the last operation on them.
`Overlap` says whether the two may be at work at once; with it FALSE they take
turns. `Apart` says that at any moment they are on different names.

### DynamicDns

`Load` merges the rows with the synthetic zone of the domain; `LoadBlind` is a
start without a database or with only one of its two queries answered. `Receive`, `UpsertZone`, then `Delete` and `Insert`
for each entry, are `persist_dns_dynamic_update`; `Apply` is
memory and the answer, which `PersistStops` reaches as well when a statement
fails. `Applied` is what the loop of `apply_dns_dynamic_update_to_memory` leaves: `LeftBy`
says it of the first n entries, as the records that no later entry matches, without a recursion. `stale` and `promised` are history variables.

### Catalogue

`at` is the statement a handler executes next. `CreatePool`, `UpdatePool`,
`DeletePool`, `CreateAuthority`, `Issue` and `Revoke` begin with the checks their
handlers make before the database; `PersistPool` to `PersistRevocation` are the statements,
`Skip` a refused or lost connection, `Remember...` the list and the answer;
`Restart` a death with empty lists after it. A pool's subnet and range are text to the API and
`cidr` and `inet` to PostgreSQL: a value that it refuses (`RefusePool`) is logged, and the pool is listed and reported.
When the statement that marks a certificate fails (`MarkFails`), the revocation is inserted all the same. `refused` and
`unmarked` are history variables. Zones change in one step: they
are in memory only, and `UpsertZone` is the network daemon.

### AptRepository

A request begins with what its handler checks (`CreateRepository` to `DeletePackage`),
goes on statement by statement and file by file in the order of
`upload_package`, `delete_package` and `delete_repository`, and ends with the list
and the answer (`Remember`). `PathOf` is `storage_path_for`, which has the component
and not the distribution. `Skip` and `Fail` are the two ways a failure ends:
ignored where the API writes metadata, the end of the request elsewhere. `Restart`
reads the list from the rows, `RestartBlind` cannot. Metadata (POST and PUT, `AddPackage` and `UpdatePackage`) may say
anything: a file name, a storage path and a checksum of the bound `Given`, of this package's artifact,
another's, or none; and a PUT may also name another package, whose row is written while the old one stays.
PostgreSQL may refuse what it says (`RefuseMetadata`). A package is a number, its place in the order in which a start reads the rows (`Nth`).
`served`, `torn`, `declared`, `claimed` and `diverged` are history variables. The last three say what clients' metadata
has done: packages whose row says what a client said, artifacts that metadata named which are not, or not only, its own package's, and
repositories whose list is no longer their rows. `UploadsServed` leaves out claimed artifacts, since an index then has
what a client said of them; `IndexedHasFile` speaks of the rows of uploads, `ListIsIndex` of repositories that
did not diverge.

### VcsRepository

`at[t]` is the next step of a thread: the API's one (`Api`) and one for each Git
request. `Check`, `InitBegins`, `InitEnds`, `Configure` are
`create_repository_storage`, which a creation, a repair from the console and a Git request that
finds no storage all execute, with no lock between them; `Throws` is where an exception
leads each of them. `Push` works on the path, whatever has become of the row. A
Git request is a push, since a fetch changes nothing.

### ProxyCache

`Miss` is a request that finds no file and starts its thread, `Hit` one that is
answered with whatever is there. `Fetch` is one write of `curl`, which empties
the file with its first and goes on at its own place in it; `AppendOverlay` adds the
local packages to an index. `last`, `cut` and `due` are history variables: who emptied the
file last, whether that download was cut short, and what was local then.

### LdapService

A connection is a label, which `Accept` may give a second time: the code makes it of the
listener's name and the address of an object in memory. `Send` puts
a request into the stream in one piece or two; `Read(l, n)` is one `on_read` with `n`
pieces, the whole of `ldap_handler` with it, as nothing else runs meanwhile:
the copy of the session, `Response`, the eviction, the copy put back. An empty answer is
`Close`. `Written` is the callback of `uv_write`, `ReadEnd` the end of the stream.
`BindResponse` and `WriteResponse` are the decisions of `ldap_ad_response_impl`;
an answer is its result code. A bind is simple, anonymous, a ticket ("sasl": GSSAPI or GSS-SPNEGO with credentials),
one of these two without credentials ("empty", which succeeds and leaves nobody bound), or EXTERNAL, which binds the name
it gives without looking at anything. So a session is what its binds came to, which for EXTERNAL is not a name that was proved. `bound` and `unsure` are history variables: what
the binds of this connection came to, and the labels whose entry is an earlier connection's or
was evicted.

### Memberships and LdapSearch

The rows of `ad_objects` carry `member` and `groupRids`, `table` is `ad_memberships`.
Every request begins with `Mirror`, which takes rows that only `identity_objects` has (`unmirrored`) into
`ad_objects`, all or none. An LDAP modification writes the group (`ModifyMembers`), then each member's
RIDs (`SyncMember`), then clears and inserts the rows (`ClearRows`, `InsertRow`),
statement by statement. `AddObject` does the same for the members that the request gives; where the name has a row
already, the two are merged (`Added`): the RID is the name's again, a user's groups are forgotten, and the members that are
replaced keep the group's RID. An add whose RID another object has is refused by `ad_objects` after its
row of `identity_objects` was written (`AddRefused`), so the mirror brings it in once the RID is free. `RemoveObject`,
`RemoveRow` and `RemoveProjection` are a deletion, `Rename` is the one transaction, `Search` a request that writes nothing but the mirror. SAMR writes the
RID and the row (`SamrUpdate`, `SamrRow`). `Stops` is a connection lost between two
statements, `AnswersBlind` a database that is away: both protocols report success. `asked` and `open` are
history variables: what the answered requests amount to, and the groups of which no
promise is left.

`LdapSearch` adds what a search computes from these rows: `AttributeValues` and
`TokenGroups` are the attributes, `Matches` the filters, `Chain` the two
walks through groups with the names already visited, `Found` the
entries. The recursion of the walks is a loop here: the iterations that the open calls still have to make are
one list, the innermost call's first, and `Opened` is a call, `Followed` an iteration. A filter is the sequence
of its operators and assertions, as a message has them. `ChainsReach` compares the walks with reachability
(`Reached`, the smallest set closed under the edges) in every state that the
requests lead to, groups in a circle and names nobody has among them.

### Netlogon

The daemon keeps a challenge and a session per computer, the database the
password. `ReqChallenge`, `Authenticate`, `Call` and `SetPassword` are the server's whole handling of a
packet, `Receive` and `Lose` the member's, `Expire` the pruning by age and the restart.
`Advance` moves the credential as soon as it is verified, whatever becomes of the
call: the server's next seed is the credential that it returns, which is the encryption of the seed of the call
plus one (`rpc.cpp:1342-1354`). `SetPassword` stops at any of the statements of
`persist_netlogon_machine_password`. The member is not part of the repository. There are two kinds: the
repository's tests take the returned credential for their next seed (`tests/unit_tests.cpp:2838`); the callers in `Counting` go on from the seed of the
call plus one as it is, as [MS-NRPC] 3.1.4.5 says, and that is never a seed of the server's, so
`client[c].counted` makes every further call of theirs fail until they authenticate again. Both
begin again when a call is not verified, and keep an old password until a new one is
acknowledged. `known` is the passwords a member may still try, `unsure` that a reply was lost.

### Samr

Handles are RIDs, so the daemon keeps nothing. Every request mirrors identity rows (`Mirrored`)
and then runs its statements, of which one may fail; `up` says whether it reached
the database at all, without which the handlers answer from the
request and the built-in records. `CreateUser` and `SetUserInfo` are a join,
`Delete` an administrator, `ListPage` one page of QueryDisplayInformation,
`Probe` every call that writes nothing but the mirror. `RidOf` gives each name its RID, and names may share one:
`ad_objects` has only one of them (`OneEach`), so that the creation of the other is refused by the table and
answered with a handle of the account that has the RID, which the rest of the join then changes. An enumeration reads `Limit` rows
in the order of the RIDs as text (`TextBefore`, `Loaded`). `told` is a history variable, by RID:
the values the account with that RID may be found with.

### Smb

`pending` and `replies` are the byte caches of each pipe, `overlay` the written
file, `signer` the session key: all global, since every client is given the same session
and a handle is a hash of the name. An RPC request is two units and so is its reply, so
that requests and replies are cut and queued. `WritePipe`, `Transceive`, `ReadPipe`
and `Close` are the handlers on a pipe, `WriteFile` on a file, `Vanish` a
client that goes without closing. `mixed` and `written` are history variables.

### Kerberos

A key is the number of the password it comes from, a ticket what it was sealed
with. `AsReply`, `TgsReply` and `Accepts` are the KDC's decisions from the rows of
the moment. A password change is three steps, `Kpasswd`, `KpasswdStamp` and
`KpasswdSecret`, between which the API, another process, resets, disables or deletes
accounts (`Reset`, `Toggle`, `Delete`), and starts again and makes the keys that are missing (`Bootstrap`, any number of times). `believed` and
`renewed` are history variables: the passwords a user may have to try, and the services to which an administrator gave
another password. `TicketsLast` says that nothing else ends a ticket.

In these modules a daemon's handling of a packet is one step, because the daemon handles a
packet to its end before the next, wherever no other process writes the rows it uses; where one does
(`Kerberos`, `Directory`) or where a failure between two statements matters
(`Memberships`, `DynamicDns`), the statements are steps.

## Runs

| run | instance | states | what it shows |
|---|---|---|---|
| `supervisor_loop` | one service with a prerequisite table and one without; three pids, two saves, one death | 243,548 | no daemon leaked, doubled or on old settings; blocks mean what they say and last; `Follower` is implemented; settings saved in the loop take effect; what can start does, again and again |
| `supervisor_lost` | one pid, one save, no death | violation | a save during start-up is never loaded |
| `migrations_hosts` | two hosts, three files, two attempts, two faults | 10,063 | each file once, in order; no old schema served (`SchemaUpgrade` is implemented); all come to serve |
| `directory_apart` | krbtgt and one account, one SID for either or both, two writes, two faults, at once on different names (`Apart` as a constraint) | 2,532,078 | projection, no dangling keys, acknowledged writes stored, restarts reconcile and keep keys |
| `directory_refused` | one write, no fault | violation | a rename through the API loses the canonical row and reports success |
| `settings_copies` | two services, three saves, three faults | 1,368,458 | copies agree, the supervisor runs what is shown, refused updates start nothing that a start did not find |
| `api_stores` | one of: catalogues (two zones, two pools, one authority, four requests, one lost connection); APT (one repository, two packages, metadata that says anything, two requests that write, one fault); Git (one name, two Git requests at once, two creations, two pushes, two faults); the proxy (three threads, a file of two parts, two uploads, one fault); restarts anywhere | 1,689,685 | listed is counted but for what PostgreSQL refused; revocations marked and kept; listed certificates verify; uploads served, indexes have their files, the list is the index, except for what metadata said otherwise; acknowledged creations and pushes stand; a file fetched by several threads is whole |
| `ldap_sessions` | two labels and the datagrams, room for one session, three requests whole or in two pieces, one restart | 387,398 | a connection's session is what its own binds came to; who waits is answered or disconnected |
| `daemons_protocols` | one of `DynamicDns`, `LdapSearch`, `Netlogon`, `Samr`, `Smb`, `Kerberos`, as below | 422,909 | served is stored, registrations last; members, RIDs, rows and what was asked are one; searches and chains agree with entries and reachability; credentials in step with those who take the returned one, passwords known; what joins were told is stored, members agree, listings complete within the limit; own replies, own writes, dialects confirmed; keys follow passwords, tickets follow keys and outlast starts |
| `apt_shared` | two distributions with one component, one package, three requests, no faults | violation | an upload to one replaces the other's artifact |
| `catalogue_authority` | one authority, three requests, no faults | violation | a refused request has replaced the stored key |
| `kpasswd` | the seeded domain, two users | violation | nobody can get a ticket for the password service |

### Why these bounds

* *Supervisor.* A service matters through its prerequisites (none, or some), and
  services do not interact but through pids: two services
  show a stop of one between visits of the other; three pids for two services let
  a leaked or doubled child exist and still let pids run out. Two saves give a configuration that is
  replaced while it is being applied; one death of the supervisor gives orphans of an earlier
  life together with new children.
* *Migrations.* The interesting meeting is of two transactions on one version, a third host would
  wait like the second. Three files are a first, a middle and a last one. Two faults let a host die
  and the database go as well. The theorems have no bound.
* *Directory.* One seed account, one ordinary account: an operation meets its own dn,
  the other's, and the rename between both. One SID, which either may have, both or none, is enough
  for a row to be refused. Two operations are one of each writer at once, or one and
  another that finds its result; a start of the API is neither, and can come between. Two faults: one that
  leaves something half written and one in its repair. The theorems have no bound.
* *Settings.* Two services give four sets of flags, hence sets that are neither
  equal nor empty; three saves are an old file, one of a failed update and one
  that repairs; the three faults can hit table, file and process of the same story.
* *DNS.* One type with ANY, two values. An update with two entries can delete and add under one name, in
  both orders, and can be cut between them; the second update meets what the
  first left. One owner in the domain's zone, where the synthetic records
  are, one in a stored zone. One lost connection, deaths without bound. A second
  type (1,511,710 states) shows nothing more.
* *Catalogue.* Create an authority, issue, revoke, ask for the same authority again, and one more.
  Two pools let a rename meet another pool's name. PostgreSQL may refuse any of their values.
* *APT.* An upload and what replaces it, moves it or says something else of it; deletions and starts have no bound. Two
  packages, so that metadata of one can name the other's artifact, its own, or a file that does not exist, with the sum of the
  upload or another. Two repositories with two packages (1,476,595 states of APT alone) show nothing more.
* *Proxy.* Three threads: two that fetch at once and one that comes while they end; two
  parts, so that one thread can empty what another has half written.
* *LDAP service.* Two labels, one of them used again, and the datagrams: with room
  for one session every one of them evicts another. Three requests are a bind, one
  on another label, and a request that shows the result. There is one name: what
  matters is bound or not. Its account may be disabled, and then its simple bind is the one that fails.
* *Memberships, searches.* Two groups can contain each other and a user; a third
  name would be another member. Three requests set a membership, change a name, or add over
  the object, and take it back or add again (44,643 states of this module alone; four requests, 201,237, show nothing more). Both filters of a value and of its presence are asked in
  every state, for every attribute.
* *Netlogon.* Two callers on one computer share its session and challenge, one of which counts on (both kinds alone
  show nothing more), two challenges
  and two passwords are an old and a new one, three calls and two faults a lost
  reply and a broken change, or two losses. Callers on different computers are part of the theorems.
* *SAMR.* Four machines, two of which have one RID, beside Administrator, and RIDs whose order as text is not their order as
  numbers. Three rows are read, so that four are one too many. A page has one entry: a listing is several calls, between
  which another account is created. Four requests are create, set, delete and create
  again; two faults, a failure and one in its repair.
* *SMB.* Two clients on one pipe: with and without a close between them, two requests each cut in two,
  two writes to one file at two places, an old and a new list of dialects.
* *Kerberos.* Two users, who may change each other's password, and a service; three
  passwords and two administrative changes: one before and one after the change in hand. Starts of the API have no bound but
  that of the passwords they make.
* *Git.* Two Git requests meet each other and the console's thread in one repository; two creations let
  a name be used again; two faults leave something half made, and disturb its repair. Names do not interact.

`migrations_hosts` is the only run without the deadlock check: its hosts end by
serving. The others never stop, since the world goes on.

### Fairness

* `WF(Supervise)`: the loop has no unbounded wait; it sleeps two seconds, waits
  at most a fixed time for a child after SIGTERM and then sends SIGKILL, and
  connections to PostgreSQL succeed or fail.
* `WF(StartSupervisor)`: systemd's `Restart=on-failure` in
  `ops/systemd/endorium-nexus-services.service` and
  `restart: unless-stopped` in the compose file.
* `WF(Pass(h))`: a host executes its next statement; the only wait is for
  another transaction on the same version, which ends by commit, failure or death.
  A host that gave up is started again by the restart policy.
* `WF(RestoreDatabase)`: the operator, or the container's policy. Without it
  nobody can serve.

* `WF(Loop(l))` of each LDAP connection: the uv loop takes up every read, end and
  completed write of every connection, and a handler does not wait for another.

No fairness is assumed of the API, of whoever saves settings, of clients, or of faults. Faults
are bounded, so "eventually" means after the last one.

## What is proved

TLAPS checks these for any values of the constants that satisfy the modules'
named assumptions (`ServicesAssumption`, `PidsAssumption`, `BoundsAssumption`,
`MigrationsAssumption`, `SettingsAssumption`, `CatalogueAssumption`,
`DirectoryAssumption`, `NetlogonAssumption`, `LdapAssumption`, `StoresAssumption`, `DaemonsAssumption`), so for any
number of services, pids, hosts, files, pools, repositories, packages, threads, accounts, callers, connections,
saves, requests and faults. Most of these assumptions say that a bound is a natural number; the others are what the
code fixes: a name has one zone and the synthetic records are in the domain's, krbtgt's number and
kadmin/changepw's are nobody else's, a directory is finite, a page of a listing has an entry, the API's thread serves no Git client. Every
safety invariant and action property of a passing run is a theorem.

**Supervisor.** `ManagedCurrent` is not inductive: while a restart runs, stopped
services have left `running` and others have not, and a child may exit at any
moment. The invariant is `TypeOK` with five parts:
`RunningSound` (what is in `running` is a child of this supervisor running that
service, in every phase, the restart included), `NoLeakedChild` (the converse),
`NothingManaged` (a supervisor that is down or loading has nothing),
`ManagedCurrent` and `BlockedIsWaiting`. The step that needs the most is a start: the pid is
free, so no entry of `running` has it. From the invariant follow
`ChildrenAlwaysMatch` (`ManagedCurrent` and `NoLeakedChild` together), `BlockedAlwaysWaiting` and the action
property `BlocksPersist`. A consequence worth knowing: the branch of `reconcile`
that stops a running but disabled service is dead code. `ImplementsFollower` maps `file` and `config` to
themselves; every step of the supervisor is `Adopt` or a stutter, every save `Save`.

**Migrations.** The invariant is `TypeOK` with
`PendingSound` (a host with a list misses no file that is not applied: `applied`
only grows after it was made), `TxnSound` (an open transaction runs the first
file of its list), `RecordedSound` and `RecordedOnce` (a version inserted and
not committed belongs to one transaction and is not applied yet),
`AppliedOnce` and `AppliedInOrder` (together `AppliedOnceInOrder`) and `ServesMigrated`. `RecordedOnce` is where the primary
key does its work: without it two hosts could both commit a file's effects. `ImplementsUpgrade` rests on the same
invariant: a commit is `Upgrade`, because the applied files are the first ones and the one committed is the least that is
left; the API's `Finish` is `Serve`, because an empty list means that every file is applied; a death or a pass that
throws is at most `Stop`; every other step is a stutter.

**Settings.** `CopiesAgree` speaks of the moments between two updates. In the midst of one,
`UpdateSound` says at each statement which of the table, the file and memory already hold what is
wanted and that, without trouble, the others still agree; `FileSound` that the file always parses;
`FollowSound` that a supervisor with the last version has its contents; `FileAllowed` that what the file
holds was not refused or is about to be accepted, and that memory holds what was not refused or what the start found. Because the supervisor appears as
`Follower`, whose refinement is proved, `ShownAlwaysRun` and `RefusedNeverRun` hold of the
composition of the API with the real loop.

**Catalogue.** A certificate's serial is the number of the request that issued it (`Numbered`), so
one being issued is younger than anything revoked: that is why re-issuing cannot undo a
revocation. `RevocationSound` says how far a revocation has come, `IssueSound` that
the certificate in hand was signed with the key that is listed, `Counted` that what is listed or about to be
has its row, a pool whose deletion is in hand and one that PostgreSQL did not take apart. A certificate that was not marked
is apart too, unless the request went through whole.

**Directory**, for writers that may be at work at once, under the hypothesis `[]Apart`: they are on different
names, where a start of the API is on all names and a request that only reads on none, and the daemon's mirror,
which passes over all names, waits while the API has deleted a canonical row and not yet its projection, and while the
API writes back what it loaded. Then no
statement of one writer changes what the other relies on between two of its own (`WritersApart`, `StartsApart`).
`TypeCorrect`, `AlwaysOrderly` (operations go through the statements of their kind) and `StartsAlwaysKeepKeys` need no
hypothesis. `SerialApart` says that writers which take turns (`~Overlap`) are apart (`Turns` is the
invariant: one of the two is at rest), and `SerialSound` that without `Overlap` the safety properties of
that run hold with no further hypothesis. `PutSound` and `DropSound` say which of an object's statements are done when the next one is due,
`HeldSound` what an operation relies on after them, `SeedsSound` what the API's start has found or still has to write.
`AlwaysProjected` and `NothingEverDangles` follow. For what was reported a second invariant is
needed on top (`ReportsInvariant`): a writer has declared open what it is about to touch before its first statement
(`OpenedSound`), what it stored or removed so far is in the tables as it will be reported, but for a canonical row
that was refused to the API (`DoneSound`), a start of the API
writes back exactly what stands reported (`StartSound`), and ends with tables that agree (`SettledSound`).
`ReportedStaysStored` and `AlwaysReconciles` follow. `StartsAlwaysKeepKeys` is shown action by action: `JobSound`
leaves a start the statements that store objects, none of which writes keys, and the bootstrap looks before it does.
What was reported is stored for names that were not refused (`clashed`); `directory_refused` shows that the others are
not, after a plain rename. Writers that are not apart do part the tables: see "Findings".

**Netlogon.** `ChannelInStep` speaks of the session of the caller's own computer, while the code,
when that computer has none, tries everybody's. `Apart` closes the gap: a challenge is
asked for by one caller, only a key made from it opens a session, and no session of
another computer is made from it; hence the lemma `VerifiedOwn`, that a credential is verified by
its own computer's session or by none. `Granted` says that a session just granted has
not moved, `Counted` that nonces and steps are bounded by what was counted.
A caller that counted on is one behind in the same invariant (`ChannelInStep` says both), and no
credential of it is verified, so no reply finds it further behind.
For `PasswordKnown`, `SetHolds` says that an acknowledged change is stored for as long as its acknowledgement
is on its way, which needs `OneSetter`: a computer has one change in hand at a time.

**LDAP service.** A handler works on a copy of the session and puts it back, and may evict another's.
The invariant is short, that a connection not `unsure` has what its own binds came to, together with the finiteness and the
number of entries (`Room`); the work is in the step: what is put back is either what the request settled
or what was there, the evicted label is `unsure` from then on, and a label that is given again takes
its entry's history with it.

**The other services of the daemons** are proved in `DaemonProofs`, each by an invariant of its own, for the
composition `DaemonServices`, whose steps are of one service and leave the others alone.

* *DNS* (`NamesAlwaysHeld`). While an update is stored entry by entry, the rows that its entries so
  far match are as those entries left them, and elsewhere memory and rows agree wherever they did before. At
  the end memory gets what every entry left too. `LeftBy` makes "what the first n entries left" a set that is
  compared with the one for n + 1.
* *Memberships* (`MembershipsAlwaysAgree`). At rest the RIDs, the rows and what was answered are one set for every
  group of which something is still promised, and whom a group's attribute names has its RID, so that a rename moves all three. A
  request in hand unsettles its own group alone, or, for a removal, one member of all groups. A name stays a group's or
  somebody else's (`LdapKinds`), so that an add over an object is of its kind. What an add or the mirror (`LdapMirrors`) takes from, or brings into, a group opens it; that
  every other group is left as it was is one lemma for all of them (`LdapAside`).
* *Searches* (`SearchesAlwaysSound`). `ChainFinds` is about any finite graph: it takes the states of the walk as a function
  of the iteration (`LdapWalk`: there is one) and `Walked` as the loop's invariant. What is to be looked at is in every set closed
  under the edges, so a find is no mistake; what the names seen lead to was looked at or still will be, so when
  nothing is left the names seen are such a set, and it leaves out what was not found; and the iterations so far are paid for by the
  names seen, as many each as there are names, so that `Iterations` are enough. That both directions agree (`LdapBothWays`) needs no
  invariant of the requests: the complement of a set closed upwards is closed downwards, but for the names nobody has.
  For the filters `Matches` is unfolded for the shapes that `EntriesAnswerFilters` uses.
* *SAMR* (`AccountsAlwaysSound`). Of the accounts no two have one RID (`OneEach`), for any `RidOf` that gives the built-in
  names RIDs of their own. The mirror copies identity rows that have no account, or none when a RID is taken, and so changes no account that
  was told of; a creation that is refused changes none. `SamrLoads` says that an enumeration reads all rows while there are no more than `Limit`. For the listing: every account that was there when it began is seen already, or comes at or after the place where the
  next page starts. Places are ranks (how many come before), and accounts created meanwhile only
  raise the rank of others; `Lemmas` has the facts about ranks.
* *SMB* (`SharesAlwaysSound`). A pipe without bytes of others holds what its one client is owed and nothing when
  nobody has it; each written place of the overlay has the value last written there; a dialect that was
  agreed is chosen again from the same offers.
* *Kerberos* (`TicketsAlwaysSound`). A password change writes the row of the account it names or of the
  one that asks, so its value counts among what both may have to try until the change is answered. For `TicketsLast`: a new ticket is sealed with the key of the moment, and a service's key changes
  only where it has none, for which there is no ticket, or where an administrator renews it. That
  who asks afresh is served needs the order of the offers only: the first type that keys have.
* `TypesAlwaysOK` is not the shape of the records only: the types say of a request in hand which rows it may name, and what
  the bounds leave of it.

**The stores of the API** likewise, in `StoresProofs` for `ApiStores`.

* *Git* (`GitAlwaysStands`). Ids are given once (`VcsNumbered`). Threads of Git clients repair and push but take nothing away
  (`VcsThreads`); only the API's thread removes, in a removal that began or to undo a creation not acknowledged
  (`VcsApi`). So an id whose creation stands, or may yet (`VcsLive`), keeps its row, and who works for it works
  in its storage (`VcsPlaced`).
* *Proxy* (`FilledAlwaysWhole`). The thread that emptied the file last has written every place it passed, and
  whoever else writes there writes the same; blocks of local packages go behind.
* *APT* (`AptAlwaysSound`), under the hypothesis `AptApart`: each repository has a component of its own. `apt_shared` shows that
  it is needed. Then an artifact is of one package, and a row, an entry or a request names that of its own package, or none that is
  not claimed (`Tame`); an id leads to one row, and an entry with it is of the same
  package (`Good`): a deletion by the id that the console remembers takes no other row, also when the list is old. `AptRows` says
  what the rows of uploads name and that what is served is there, `AptHand` how far the request in hand is: rows go before files, and
  an upload puts its artifact in place before its row. Without faults, rows and list differ only in
  the package or repository in hand (`Doubted`), or where a client's metadata parted them. What a start reads is `Nth` applied to the rows; that it lists each once is
  a fact about ranks again, and `ListIsIndex` counts it by a bijection.
* Two results need no hypothesis: `StoresTypesOK`, and `PackagesAlwaysHaveRepository`, since no path, no name of
  a package and nothing that metadata says matters to it: `AptHomes` says which repositories have a row at each statement of a request, and that a removal has emptied
  the repository before its row goes.

**Only model-checked.** Liveness (`ReloadsChange`, `StartsWhenPossible`, `EventuallyServes`, `ClientsServed`): the prover has no fairness or
ENABLED.

## Findings

Five runs end in a violation that the code really has; `PROJECT.json` quotes
the sentence of the repository each one contradicts.

* `supervisor_lost`: the first modification time is taken after the first reconcile, so a save in
  between is taken for the file already loaded.
* `directory_refused`: a rename through the API writes the new name's canonical row while the old one's still
  has the SID; PostgreSQL refuses it, the old rows are deleted, and success is answered.
* `apt_shared`: packages of two distributions are two rows and one file.
* `catalogue_authority`: the row is replaced before the duplicate name is refused.
* `kpasswd`: the password service is an alias of krbtgt, which is seeded disabled, and the alias
  inherits that.

Seen while modelling; the models have them, and no run is made of them:

* Flags are written to the table and then the file, and read in the other order of
  preference (`platform_state.cpp:2571`), so a refused update can come back at a start.
* `POST /api/v1/dns/zones` writes no row, so the way to unblock the network
  service in `docs/conditional-service-loading.md:128-130` does not.
* On one name at once, an LDAP delete between the two statements of the API's start-up rewrite leaves a
  canonical row without its projection.
* A SASL EXTERNAL bind is answered with success and binds the name given, whatever the client (`ldap.cpp:2606`).
* Deleting a group over LDAP leaves its RID with the members; a group that gets the name again has them.
* A password change writes the whole row back as it was read
  (`apps/directory/main.cpp:2413`): an account disabled or deleted in between is enabled or back.
* A member that computes its credentials as [MS-NRPC] 3.1.4.5 says gets one verified call per session: the server keeps the
  encrypted credential as its seed.
* Creating an account over SAMR whose RID another one has is answered with a handle of that other account, whose row and
  password the join then writes over; its identity row meanwhile keeps the mirror from taking in any missing row.
* A listing over SAMR leaves out what is beyond 1024 rows in the text order of the RIDs; without the database every RID
  resolves to a machine.
* An LDAP add over an existing object succeeds, forgets the groups of a user and leaves the members it replaces with the group's RID.
* A pool whose subnet PostgreSQL does not take is listed and reported as created, and has no row.
* Metadata of an APT package may name another package's artifact, a checksum that is not the file's, or no file; the signed index
  lists it. A PUT that renames a package leaves the old row.
* Membership requests, joins and creations over RPC are answered with success when the database is away.

## Abstractions

* A statement outside a transaction commits at once, a connection fails before or
  after any statement; PostgreSQL itself is not doubted.
* `settings.json` is read whole: the writers rename. Each save has its own
  modification time; a clock that repeats one is not modelled.
* In `Memberships` the identity row of a name that has a row in `ad_objects` is taken to be equal to it, and what kind of object
  a name is does not change. In `Samr` the rows of stored groups, which take places of the 1024 too, are left out.
* Names are text that PostgreSQL stores as it is; values that it refuses are those of `cidr` and `inet` columns, SIDs and RIDs that are taken, and
  metadata. Rows of services are not deleted in `Kerberos`.
* Contents (attributes, keys, leases, record data) are numbers of the operation that wrote
  them, or small sets: the properties ask whether two copies are the same write.
* Cryptography, wire formats, JSON and SQL text, logging and audit are left out,
  except where a decision depends on them (an ANY deletion, a name without zone).
  A key is the password or the pair it was made from: equal keys are equal origins.
* An answer is its result code, or that there is one. The bytes of an RPC reply are two units, enough
  to cut it once. The text of a file is two places.
* A password is the number of the change that set it. The RID of a name is 1000 + hash % 900000, or fixed for the built-in accounts: in `Samr` any function, which two names may
  share; in `Memberships` a name's own, which another object can have after a rename; in `Directory` a SID that any object may have.

## Not modelled

* DHCP answers (no daemon calls the encoder), the job queue (nothing drains it),
  `nexus-pki-repo` (a stub), the console.
* Sessions, login and audit of the API: single operations on a map on one thread.
* Cryptographic primitives, BER, NDR and the other wire formats: parsers of
  one packet without state. A request is what they make of it.
* Of Kerberos the PAC, lifetimes and clocks; of LDAP the root entry, the schema, substring filters and
  the filters that compare, which the code takes to be true; of RPC the endpoint mapper, which answers from a fixed table; of SMB2
  signatures and directory listings.
* Of APT the signing key and the text of the indexes; of Git the settings,
  tokens and events of a repository.

## Plan

In order; what is done is above.

1. *Done.* Supervisor, migrations, identity store, settings, DNS updates,
   catalogues, APT and Git repositories.
2. *Done.* Event loop and LDAP sessions, memberships and searches, Netlogon,
   SAMR, SMB, Kerberos, package proxy.
3. *Done.* Proofs of every safety invariant and action property that the runs check.
4. Directory: which properties of a name survive when both writers are on it.
5. The rest of APT and Git: the signing key, access tokens. The API's sessions with TOTP windows and expiry.

Independent small modules share a run, as in `ApiStores` and `DaemonServices`, where a behaviour runs
one of them, to keep the runs to distinct questions.
