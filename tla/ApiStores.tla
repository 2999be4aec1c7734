------------------------------- MODULE ApiStores -------------------------------
(***************************************************************************)
(* The stores of the API: its catalogues, its APT repositories, its Git    *)
(* repositories and its package proxy.  They share no state, so an         *)
(* instance runs one of them, which is chosen at the start, and the others *)
(* stay as they are.                                                       *)
(***************************************************************************)
EXTENDS Catalogue, FiniteSets

CONSTANTS
    Stores,    \* the stores of the instance
    \* AptRepository
    Repositories, Components, ComponentOf, Packages, Given, AptRequests, AptFaults,
    \* VcsRepository
    Names, Threads, MaxIds, MaxPushes, VcsFaults,
    \* ProxyCache
    Fetchers, Parts, MaxPackages, ProxyFaults

ASSUME StoresAssumption ==
    /\ {AptRequests, AptFaults, MaxIds, MaxPushes, VcsFaults, MaxPackages, ProxyFaults} \subseteq Nat
    /\ ComponentOf \in [Repositories -> Components]
    /\ Packages \subseteq Nat /\ IsFiniteSet(Packages)
    \* The API's own thread handles no request of a Git client.
    /\ "api" \notin Threads
    \* A file that curl creates has something in it.
    /\ Parts \in Nat \ {0}

VARIABLES
    store,
    repositoryRows, packageRows, ids, pool, repositories, packages,
    aptAt, aptJob, aptRequests, aptFaults, served, torn, declared, claimed, diverged,
    proxyIndex, proxyExists, cells, proxyAt, got, proxyPackages, proxyFaults, last, cut, due,
    vcsRows, storage, vcsAt, vcsJob, vcsIds, pushes, vcsFaults, created, doomed, acked

aptVars == <<repositoryRows, packageRows, ids, pool, repositories, packages,
             aptAt, aptJob, aptRequests, aptFaults, served, torn, declared, claimed, diverged>>
proxyVars == <<proxyIndex, proxyExists, cells, proxyAt, got, proxyPackages, proxyFaults,
               last, cut, due>>
vcsVars == <<vcsRows, storage, vcsAt, vcsJob, vcsIds, pushes, vcsFaults, created, doomed, acked>>

Apt == INSTANCE AptRepository WITH
    MaxRequests <- AptRequests, MaxFaults <- AptFaults,
    at <- aptAt, job <- aptJob, requests <- aptRequests, faults <- aptFaults

Vcs == INSTANCE VcsRepository WITH
    MaxFaults <- VcsFaults, rows <- vcsRows, at <- vcsAt, job <- vcsJob, ids <- vcsIds,
    faults <- vcsFaults

Proxy == INSTANCE ProxyCache WITH
    Threads <- Fetchers, MaxFaults <- ProxyFaults,
    index <- proxyIndex, exists <- proxyExists, at <- proxyAt, packages <- proxyPackages,
    faults <- proxyFaults

storesVars == <<store, vars, aptVars, vcsVars, proxyVars>>

StoresInit ==
    /\ store \in Stores
    /\ Init /\ Apt!Init /\ Vcs!Init /\ Proxy!Init
    \* One start for the proxy where it stays as it is.
    /\ store # "proxy" => ~proxyIndex

StoresNext ==
    /\ UNCHANGED store
    /\ \/ store = "catalogue" /\ Next /\ UNCHANGED <<aptVars, vcsVars, proxyVars>>
       \/ store = "apt" /\ Apt!Next /\ UNCHANGED <<vars, vcsVars, proxyVars>>
       \/ store = "vcs" /\ Vcs!Next /\ UNCHANGED <<vars, aptVars, proxyVars>>
       \/ store = "proxy" /\ Proxy!Next /\ UNCHANGED <<vars, aptVars, vcsVars>>

StoresSpec == StoresInit /\ [][StoresNext]_storesVars

\* Each store's state keeps its types.
TypesOK == TypeOK /\ Apt!TypeOK /\ Vcs!TypeOK /\ Proxy!TypeOK

\* sql/migrations/007_apt_package_identity.sql:9-10: "create unique index if not
\* exists repo_packages_identity_idx on repo_packages(distribution, component,
\* name, version, architecture)".  Packages of two distributions are two
\* packages: with every upload finished, one to the first leaves the second as it was.
DistributionsApart == aptAt = "idle" /\ torn = {} => Apt!UploadsServed

\* What AptRepository says of artifacts, indexes and the console's list: every
\* indexed package has its artifact with the checksum of its row, what an answered
\* upload put there is served, packages belong to repositories there are, and the
\* list is the index.
AptSound ==
    /\ Apt!UploadsServed /\ Apt!IndexedHasFile
    /\ Apt!PackagesHaveRepository /\ Apt!ListIsIndex

\* What VcsRepository says of acknowledged creations and pushes: no repair,
\* removal or failed creation of somebody else's undoes them.
VcsSound == Vcs!CreatedStands /\ Vcs!PushesKept

\* What ProxyCache says of the file that several threads fetched.
FilledWhole == Proxy!FilledWhole
===============================================================================
