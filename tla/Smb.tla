---------------------------------- MODULE Smb ----------------------------------
(***************************************************************************)
(* SMB2 (libs/protocol/src/smb.cpp): the named pipes that carry RPC, the   *)
(* policy files clients may write, and the start of a session.             *)
(*                                                                         *)
(* Requests are handled one at a time, to their end.  What lasts between   *)
(* them is global: the bytes of requests and replies of each pipe, the     *)
(* files that were written, the key of the session.  A file handle is a    *)
(* hash of the name and every client is given the same session, so two     *)
(* clients that open a pipe share what it holds, and an open clears        *)
(* nothing; a close does.                                                  *)
(*                                                                         *)
(* An RPC request is two units, a header and a rest, and so is its reply;  *)
(* a unit is the number of its request and its place.                      *)
(***************************************************************************)
EXTENDS Naturals, Sequences

CONSTANTS
    Clients, Pipes,
    Offers,        \* dialects a client may offer: a set of sequences
    Shares,        \* the shares of files; each has a file of the same path
    MaxRequests, MaxWrites, MaxFaults   \* bounds

VARIABLES
    pending,       \* pipe_request_fragment_cache
    replies,       \* pipe_response_cache
    overlay,       \* sysvol_overlay, of the one path; empty when it has none
    signer,        \* signing_key_cache: whose key signs the session
    client,        \* what each client has, sent and expects
    mixed,         \* pipes with bytes of a client that did not close them
    written,       \* what was last written at each place of the file
    requests, writes, faults

vars == <<pending, replies, overlay, signer, client, mixed, written,
          requests, writes, faults>>

Units == (0 .. MaxRequests) \X (1 .. 2)
Request(r) == <<<<r, 1>>, <<r, 2>>>>
Places == 1 .. 2
NoClient == "none"
Away == [at |-> "away", offered |-> <<>>, dialect |-> 0, pipe |-> "none",
         sent |-> <<>>, due |-> <<>>]
Skeleton == <<>>

TypeOK ==
    /\ \A p \in Pipes : \A i \in 1 .. Len(pending[p]) : pending[p][i] \in Units
    /\ \A p \in Pipes : \A i \in 1 .. Len(replies[p]) : replies[p][i] \in Units
    /\ Len(overlay) \in {0} \cup Places
    /\ signer \in Clients \cup {NoClient}
    /\ \A c \in Clients : /\ client[c].at \in {"away", "negotiated", "ready"}
                          /\ client[c].pipe \in Pipes \cup {"none"}
    /\ mixed \in [Pipes -> BOOLEAN]
    /\ written \in [Places -> 0 .. MaxWrites]
    /\ requests \in 0 .. MaxRequests /\ writes \in 0 .. MaxWrites
    /\ faults \in 0 .. MaxFaults

Init ==
    /\ pending = [p \in Pipes |-> <<>>]
    /\ replies = [p \in Pipes |-> <<>>]
    /\ overlay = Skeleton
    /\ signer = NoClient
    /\ client = [c \in Clients |-> Away]
    /\ mixed = [p \in Pipes |-> FALSE]
    /\ written = [i \in Places |-> 0]
    /\ requests = 0 /\ writes = 0 /\ faults = 0

caches == <<pending, replies>>
files == <<overlay, written, writes>>

-----------------------------------------------------------------------------
(***************************************************************************)
(* The start of a session.                                                 *)
(***************************************************************************)

\* choose_dialect: 2.1 first; a dialect nobody knows is taken as it is.
Preferred == <<210, 202, 302, 300, 311>>
ChooseDialect(offered) ==
    LET known == {i \in 1 .. Len(Preferred) :
                     \E j \in 1 .. Len(offered) : offered[j] = Preferred[i]}
    IN  IF offered = <<>> THEN 0
        ELSE IF known = {} THEN offered[1]
        ELSE Preferred[CHOOSE i \in known : \A j \in known : i <= j]

\* validate_negotiate_response: 2.1 when the request has no list.
Validated(offered) ==
    IF ChooseDialect(offered) # 0 THEN ChooseDialect(offered) ELSE 210

\* negotiate_response: a request without a dialect is refused.
Negotiate(c) ==
    /\ client[c].at = "away"
    /\ \E offered \in Offers :
         /\ ChooseDialect(offered) # 0
         /\ client' = [client EXCEPT ![c] = [Away EXCEPT !.at = "negotiated",
                          !.offered = offered, !.dialect = ChooseDialect(offered)]]
    /\ UNCHANGED <<caches, files, signer, mixed, requests, faults>>

\* session_setup_response: a ticket gives the key; a blob without one, or with
\* one that is not valid, is refused; no blob is a session without a key.
SessionSetup(c) ==
    /\ client[c].at = "negotiated"
    /\ \E blob \in {"ticket", "refused", "empty"} :
         /\ signer' = IF blob = "ticket" THEN c ELSE signer
         /\ client' = IF blob = "refused" THEN client
                      ELSE [client EXCEPT ![c].at = "ready"]
    /\ UNCHANGED <<caches, files, mixed, requests, faults>>

-----------------------------------------------------------------------------
(***************************************************************************)
(* Pipes.                                                                  *)
(***************************************************************************)

OpenBy(p) == {c \in Clients : client[c].pipe = p}

\* create_response of a pipe it knows.
Create(c, p) ==
    /\ client[c].at = "ready" /\ client[c].pipe = "none"
    /\ client' = [client EXCEPT ![c].pipe = p, ![c].sent = <<>>, ![c].due = <<>>]
    /\ mixed' = [mixed EXCEPT ![p] = @ \/ OpenBy(p) # {}]
    /\ UNCHANGED <<caches, files, signer, requests, faults>>

\* dce_rpc_expected_fragment_size: what does not begin with a header is taken
\* whole; 0 while the header is not there.
ExpectedSize(bytes) ==
    IF bytes = <<>> THEN 0 ELSE IF bytes[1][2] = 1 THEN 2 ELSE Len(bytes)

\* rpc_named_pipe_response: a reply, or a fault for what is no request.
Reply(bytes) == IF \E r \in 1 .. MaxRequests : bytes = Request(r) THEN bytes
                ELSE <<<<0, 1>>>>

\* complete_pipe_rpc_fragment: one request is taken, and what follows it waits
\* for the next write.
Rest(bytes) == SubSeq(bytes, ExpectedSize(bytes) + 1, Len(bytes))

\* write_response on a pipe.  A client writes one request, in one or two
\* writes, and the next when it has read the reply.
WritePipe(c) ==
    LET p == client[c].pipe
        r == IF client[c].sent = <<>> THEN requests + 1 ELSE client[c].sent[1][1]
    IN  /\ p # "none" /\ client[c].due = <<>> /\ r <= MaxRequests
        /\ requests' = IF client[c].sent = <<>> THEN r ELSE requests
        /\ \E upto \in (Len(client[c].sent) + 1) .. 2 :
             LET data == SubSeq(Request(r), Len(client[c].sent) + 1, upto)
                 bytes == pending[p] \o data
                 complete == Len(bytes) >= ExpectedSize(bytes)
             IN  /\ pending' = [pending EXCEPT ![p] =
                                  IF complete THEN Rest(bytes) ELSE bytes]
                 /\ replies' = IF ~complete THEN replies
                               ELSE [replies EXCEPT ![p] =
                                       @ \o Reply(SubSeq(bytes, 1, ExpectedSize(bytes)))]
                 /\ client' = [client EXCEPT
                      ![c].sent = IF upto = 2 THEN <<>> ELSE @ \o data,
                      ![c].due = IF upto = 2 THEN Request(r) ELSE <<>>]
        /\ UNCHANGED <<files, signer, mixed, faults>>

\* ioctl_response with pipe_response_chunk: a whole request, answered at once
\* with what fits; the rest is queued behind what is there.
Transceive(c) ==
    LET p == client[c].pipe  r == requests + 1
    IN  /\ p # "none" /\ client[c].due = <<>> /\ client[c].sent = <<>>
        /\ r <= MaxRequests /\ requests' = r
        /\ \E limit \in 1 .. 2 :
             LET rest == SubSeq(Request(r), limit + 1, 2)
             IN  /\ replies' = [replies EXCEPT ![p] = @ \o rest]
                 /\ client' = [client EXCEPT ![c].due = rest]
        /\ UNCHANGED <<pending, files, signer, mixed, faults>>

\* read_response on a pipe: as much as is asked for; nothing is pipe_empty.
ReadPipe(c) ==
    LET p == client[c].pipe
    IN  /\ p # "none"
        /\ \E count \in 1 .. Len(replies[p]) :
             /\ replies' = [replies EXCEPT ![p] = SubSeq(@, count + 1, Len(@))]
             /\ client' = [client EXCEPT ![c].due = SubSeq(@, count + 1, Len(@))]
        /\ UNCHANGED <<pending, files, signer, mixed, requests, faults>>

\* Mutant: the replies that were not read stay.
CloseKeepsReplies(p) == pending' = [pending EXCEPT ![p] = <<>>] /\ replies' = replies
\* close_response
CloseClears(p) ==
    /\ pending' = [pending EXCEPT ![p] = <<>>]
    /\ replies' = [replies EXCEPT ![p] = <<>>]

Close(c) ==
    LET p == client[c].pipe
    IN  /\ p # "none"
        /\ CloseClears(p)
        /\ client' = [client EXCEPT ![c].pipe = "none", ![c].sent = <<>>, ![c].due = <<>>]
        /\ mixed' = [mixed EXCEPT ![p] = OpenBy(p) # {c}]
        /\ UNCHANGED <<files, signer, requests, faults>>

\* LOGOFF, TREE_DISCONNECT or a lost connection: nothing is cleared.
Vanish(c) ==
    LET p == client[c].pipe
    IN  /\ client[c].at # "away" /\ faults < MaxFaults /\ faults' = faults + 1
        /\ client' = [client EXCEPT ![c] = Away]
        /\ mixed' = IF p = "none" THEN mixed
                    ELSE [mixed EXCEPT ![p] = @ \/ pending[p] # <<>> \/ replies[p] # <<>>]
        /\ UNCHANGED <<caches, files, signer, requests>>

-----------------------------------------------------------------------------
(***************************************************************************)
(* Files: README.txt, which both shares keep at the same path.             *)
(***************************************************************************)

\* file_content_for_path: the file's own text of two zeroes, until written.
Content(s) == IF overlay = Skeleton THEN <<0, 0>> ELSE overlay

\* A write beyond the end fills what is before it with zeroes.
Resized(buffer, end) ==
    [i \in 1 .. (IF Len(buffer) < end THEN end ELSE Len(buffer)) |->
        IF i <= Len(buffer) THEN buffer[i] ELSE 0]

\* write_response on a file: the first write starts from an empty buffer, not
\* from the file's own text.  Directories and unknown files are refused.
WriteFile(c) ==
    /\ client[c].at = "ready" /\ writes < MaxWrites /\ writes' = writes + 1
    /\ \E s \in Shares, first \in Places, last \in Places :
         LET buffer == Resized(overlay, last)
         IN  /\ first <= last
             /\ overlay' = [i \in 1 .. Len(buffer) |->
                              IF i \in first .. last THEN writes' ELSE buffer[i]]
             /\ written' = [i \in Places |->
                              IF i \in first .. last THEN writes' ELSE written[i]]
    /\ UNCHANGED <<caches, signer, client, mixed, requests, faults>>

\* tree_connect, flush, echo, lock, query_directory, query_info, set_info (which
\* changes nothing), change_notify, reads of files, and cancel.
Probe == UNCHANGED vars

\* run_uv_daemon anew: nothing was kept.
Restart ==
    /\ faults < MaxFaults /\ faults' = faults + 1
    /\ pending' = [p \in Pipes |-> <<>>]
    /\ replies' = [p \in Pipes |-> <<>>]
    /\ overlay' = Skeleton
    /\ written' = [i \in Places |-> 0]
    /\ signer' = NoClient
    /\ client' = [c \in Clients |-> Away]
    /\ mixed' = [p \in Pipes |-> FALSE]
    /\ UNCHANGED <<requests, writes>>

Next ==
    \/ \E c \in Clients :
         \/ Negotiate(c) \/ SessionSetup(c)
         \/ \E p \in Pipes : Create(c, p)
         \/ WritePipe(c) \/ Transceive(c) \/ ReadPipe(c) \/ Close(c)
         \/ WriteFile(c) \/ Vanish(c)
    \/ Probe
    \/ Restart

Spec == Init /\ [][Next]_vars

-----------------------------------------------------------------------------
(***************************************************************************)
(* Properties.                                                             *)
(***************************************************************************)

\* A client that has a pipe to itself, left clean by those before it, finds in
\* it the reply to its own request, whole, once and in order, and nothing else,
\* however it cuts its requests and reads: what it is owed is what is queued.
OwnReplies ==
    \A c \in Clients :
        LET p == client[c].pipe
        IN  p # "none" /\ ~mixed[p] =>
                replies[p] = client[c].due /\ pending[p] = client[c].sent

\* What was last written at a place of a policy file, through either share, is
\* read back there until the daemon restarts, whatever was written elsewhere.
AuthoredKept ==
    \A s \in Shares, i \in Places :
        written[i] # 0 => i <= Len(Content(s)) /\ Content(s)[i] = written[i]

\* validate_negotiate_response's comment, smb.cpp:1782-1790: the values it
\* answers "must match negotiate_response()", or Windows drops the connection.
DialectConfirmed ==
    \A c \in Clients :
        client[c].at # "away" => Validated(client[c].offered) = client[c].dialect
===============================================================================
