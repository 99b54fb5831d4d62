---------------------------- MODULE EpollServer -----------------------------
(***************************************************************************)
(* The TCP server of rsocket_epoll.c and its epoll wrapper repoll.c: one   *)
(* thread that opens a listening socket, accepts sessions, and in each     *)
(* turn of its loop calls check, which polls and then dispatches the       *)
(* events it got item by item.  An item may close sessions whose items are *)
(* still to come, and may accept sessions that reuse their descriptors.    *)
(* A session is named by its ds_id.  The kernel and the clients are the    *)
(* environment, the order of calls is that of rtest_rsocket_epoll.c.       *)
(***************************************************************************)
EXTENDS Integers, Sequences, FiniteSets, SequencesExt

CONSTANTS Fd,         \* descriptors accept may return
          ListenFd,   \* the descriptor of the listening socket
          Buckets,    \* buckets of map_clients
          AcceptMax,  \* accept_count
          MaxSid,     \* bound: connections that ever arrive
          MaxData     \* bound: chunks a client has on the way at a time

ASSUME FdAssumption == Fd \subseteq Nat /\ ListenFd \in Nat \ (Fd \cup {0})
ASSUME BoundAssumption == {Buckets, AcceptMax, MaxSid, MaxData} \subseteq Nat \ {0}

VARIABLES server,   \* ds_server->state
          stream,   \* ds_server->stream: none, open or freed
          sidCur,   \* sid_cur
          sess,     \* ds_id -> the session, for those that are allocated
          clients,  \* map_clients: bucket -> the ids in its slots
          watched,  \* descriptors in the epoll set
          batch,    \* dest_items of the running check, from the current item on
          pc,       \* where the thread is
          accepts,  \* accept_count while the accept loop runs
          backlog,  \* connections the kernel has for accept
          wild      \* a socket object was used that is freed, or was never made

connections == <<sidCur, sess, clients, watched>>
vars == <<server, stream, connections, batch, pc, accepts, backlog, wild>>

-----------------------------------------------------------------------------
Sid == 1 .. MaxSid
Live == DOMAIN sess
BucketOf(s) == s % Buckets

\* out: EPOLLOUT is asked for; pending: write_buff holds something;
\* peer, data: what the kernel knows of the other end
Session == [fd : Fd, out : BOOLEAN, pending : BOOLEAN,
            peer : {"open", "fin", "reset"}, data : 0 .. MaxData]
ServerDs == 0
Item == [fd : Fd \cup {ListenFd, 0}, ds : Sid \cup {ServerDs},
         ev : SUBSET {"in", "out", "err"}]

FdOf(s) == sess[s].fd
UsedFds == {FdOf(s) : s \in Live}

EmptyMap == [b \in 0 .. Buckets - 1 |-> <<>>]
InMap == UNION {ToSet(clients[b]) : b \in DOMAIN clients}

\* rdict_remove: the last entry of the bucket fills the hole.
SlotsWithout(q, s) ==
  IF s \notin ToSet(q) THEN q
  ELSE Front([q EXCEPT ![CHOOSE i \in DOMAIN q : q[i] = s] = Last(q)])
MapWithout(s) == [clients EXCEPT ![BucketOf(s)] = SlotsWithout(@, s)]

\* Mutant: the result list of the running poll keeps its items.
Zeroed_KeepItems(b, fds) == b

\* repoll_remove: the items of a removed descriptor that are still to be
\* dispatched get fd 0.
Zeroed(b, fds) == [i \in DOMAIN b |-> IF b[i].fd \in fds THEN [b[i] EXCEPT !.fd = 0] ELSE b[i]]

SessWithout(S) == [s \in Live \ S |-> sess[s]]

Init == /\ server = "unknown" /\ stream = "none"
        /\ sidCur = 0
        /\ sess = <<>>
        /\ clients = EmptyMap
        /\ watched = {}
        /\ batch = <<>> /\ pc = "init" /\ accepts = 0
        /\ backlog = 0
        /\ wild = FALSE

-----------------------------------------------------------------------------
(* ripc_init_server, ripc_open_server, ripc_start_server.                  *)

InitServer == /\ pc = "init" /\ pc' = "open"
              /\ clients' = EmptyMap
              /\ UNCHANGED <<server, stream, sidCur, sess, watched, batch,
                             accepts, backlog, wild>>

Open == /\ pc = "open" /\ pc' = "start"
        /\ server' = "ready"
        /\ stream' = "open"
        /\ watched' = watched \cup {ListenFd}
        /\ UNCHANGED <<sidCur, sess, clients, batch, accepts, backlog, wild>>

\* rsocket_setopt fails: the socket is closed again, but ret_code is still the
\* rcode_ok of rsocket_listen, and the caller goes on with a server that has no
\* stream and listens to nobody.
OpenUnset == /\ pc = "open" /\ pc' = "start"
             /\ UNCHANGED <<server, stream, connections, batch, accepts, backlog, wild>>

\* The other errors are answered, and the caller stops: nothing is left behind.
OpenFails == /\ pc = "open" /\ pc' = "done"
             /\ UNCHANGED <<server, stream, connections, batch, accepts, backlog, wild>>

StartServer == /\ pc = "start" /\ pc' = "loop"
               /\ server' = "start"
               /\ UNCHANGED <<stream, connections, batch, accepts, backlog, wild>>

-----------------------------------------------------------------------------
(* Closing sessions and the server.                                        *)

\* close_session of the session whose item is being dispatched; what is left
\* of the batch is b.
CloseSession(s, b) ==
  /\ clients' = MapWithout(s)
  /\ watched' = watched \ {FdOf(s)}
  /\ batch' = Zeroed(b, {FdOf(s)})
  /\ sess' = SessWithout({s})

\* ripc_close_server walks the map with rdict_next and removes each entry it
\* is given, but the entry that fills the hole is behind the iterator then.
ReachedIn(q) == {q[i] : i \in 1 .. (Len(q) + 1) \div 2}
Reached == UNION {ReachedIn(clients[b]) : b \in DOMAIN clients}

\* Mutant: the sessions are not closed one by one.
CloseServer_ClearOnly(b) ==
  /\ server' = "closed" /\ stream' = "freed"
  /\ watched' = watched \ {ListenFd}
  /\ batch' = Zeroed(b, {ListenFd})
  /\ clients' = EmptyMap
  /\ UNCHANGED sess

\* The body of ripc_close_server, called with a stream that is not freed.
CloseServer(b) ==
  /\ server' = "closed" /\ stream' = "freed"
  /\ LET fds == {ListenFd} \cup {FdOf(s) : s \in Reached \cap Live}
     IN  watched' = watched \ fds /\ batch' = Zeroed(b, fds)
  /\ clients' = EmptyMap
  /\ sess' = SessWithout(Reached)

\* The caller closes when check does not answer rcode_ok any more.  The
\* stream is read before the state is looked at, freed or not.
CloseAtEnd ==
  /\ pc = "ended" /\ stream # "none" /\ pc' = "closed"
  /\ IF stream = "freed"
     THEN /\ wild' = TRUE
          /\ UNCHANGED <<server, stream, connections, batch>>
     ELSE CloseServer(<<>>) /\ UNCHANGED <<sidCur, wild>>
  /\ UNCHANGED <<accepts, backlog>>

\* There is no stream to read when rsocket_setopt had failed: NULL is read,
\* and the program ends here.
CloseNoStream ==
  /\ pc = "ended" /\ stream = "none" /\ pc' = "done"
  /\ wild' = TRUE
  /\ UNCHANGED <<server, stream, connections, batch, accepts, backlog>>

UninitServer == /\ pc = "closed" /\ pc' = "done"
                /\ server' = "uninit"
                /\ clients' = EmptyMap
                /\ UNCHANGED <<stream, sidCur, sess, watched, batch, accepts, backlog, wild>>

-----------------------------------------------------------------------------
(* ripc_check_data_server: poll, then one item after the other.            *)

\* Level-triggered readiness; a socket asked for EPOLLOUT is writable or not.
SessionEvents(s) ==
  LET e == sess[s]
      in == IF e.data > 0 \/ e.peer # "open" THEN {"in"} ELSE {}
      err == IF e.peer = "reset" THEN {"err"} ELSE {}
  IN  {in \cup err} \cup IF e.out THEN {in \cup err \cup {"out"}} ELSE {}

ServerEvents == (IF backlog > 0 THEN {{"in"}} ELSE {{}}) \cup {{"err"}}

Items == IF ListenFd \in watched
         THEN [fd : {ListenFd}, ds : {ServerDs}, ev : ServerEvents]
         ELSE {}
SessionItems(s) == [fd : {FdOf(s)}, ds : {s}, ev : SessionEvents(s)]

\* Everything that is ready, in any order.
Batches ==
  LET watchedSess == {s \in Live : FdOf(s) \in watched}
      pick == [watchedSess \cup {ServerDs} ->
                 Items \cup UNION {SessionItems(s) : s \in watchedSess}]
      fits(f) == \A x \in DOMAIN f : f[x].ds = x
  IN  UNION {SetToSeqs({f[x] : x \in {y \in DOMAIN f : f[y].ev # {}}}) :
               f \in {g \in pick : fits(g)}}

Poll == /\ pc = "loop" /\ pc' = "dispatch"
        /\ batch' \in Batches
        /\ UNCHANGED <<server, stream, connections, accepts, backlog, wild>>

\* epoll_wait failed: check answers its error
PollFails == /\ pc = "loop" /\ pc' = "ended"
             /\ UNCHANGED <<server, stream, connections, batch, accepts, backlog, wild>>

EndOfBatch == /\ pc = "dispatch" /\ batch = <<>>
              /\ pc' = IF server = "start" THEN "loop" ELSE "ended"
              /\ UNCHANGED <<server, stream, connections, batch, accepts, backlog, wild>>

Current == batch[1]
Dispatching == pc = "dispatch" /\ batch # <<>>
AtItem(s) == Dispatching /\ Current.fd # 0 /\ Current.ds = s
AtSession(s) == s \in Live /\ AtItem(s)
Done(ev) == <<[Current EXCEPT !.ev = @ \ ev]>> \o Tail(batch)

SkipItem == /\ Dispatching /\ Current.fd = 0
            /\ batch' = Tail(batch)
            /\ UNCHANGED <<server, stream, connections, pc, accepts, backlog, wild>>

NothingLeft == /\ Dispatching /\ Current.fd # 0 /\ Current.ev = {}
               /\ batch' = Tail(batch)
               /\ UNCHANGED <<server, stream, connections, pc, accepts, backlog, wild>>

ServerError == /\ AtItem(ServerDs) /\ "err" \in Current.ev
               /\ CloseServer(Tail(batch))
               /\ UNCHANGED <<sidCur, pc, accepts, backlog, wild>>

ServerReady ==
  /\ AtItem(ServerDs) /\ "in" \in Current.ev
  /\ IF server = "start" THEN pc' = "accept" /\ accepts' = AcceptMax
                         ELSE UNCHANGED <<pc, accepts>>
  /\ batch' = Tail(batch)
  /\ UNCHANGED <<server, stream, connections, backlog, wild>>

-----------------------------------------------------------------------------
(* ripc_accept_server, called until it fails or accept_count runs out.     *)

StopAccepting == pc' = "dispatch" /\ accepts' = 0

AcceptAgain == IF accepts > 1 THEN accepts' = accepts - 1 /\ UNCHANGED pc
                              ELSE StopAccepting

\* No connection waits, or accept has an error of its own (no descriptor left).
AcceptNothing == /\ pc = "accept"
                 /\ StopAccepting
                 /\ UNCHANGED <<server, stream, connections, batch, backlog, wild>>

NextSid == sidCur + 1
NewSession(f) == [fd |-> f, out |-> FALSE, pending |-> FALSE, peer |-> "open", data |-> 0]

\* rdict_add answers an error when it has no memory left.  Nobody looks at it
\* then; that case is left out here.
Accepted(f) == pc = "accept" /\ backlog > 0 /\ f \in Fd \ UsedFds

Accept(f) ==
  /\ Accepted(f)
  /\ backlog' = backlog - 1
  /\ sidCur' = NextSid
  /\ clients' = [clients EXCEPT ![BucketOf(NextSid)] = Append(@, NextSid)]
  /\ sess' = [x \in Live \cup {NextSid} |-> IF x = NextSid THEN NewSession(f) ELSE sess[x]]
  /\ watched' = watched \cup {f}
  /\ AcceptAgain
  /\ UNCHANGED <<server, stream, batch, wild>>

\* Everything is undone but the count of ids.  After a failed rsocket_setopt
\* the answer is still rcode_ok and the loop goes on; after a failed
\* repoll_add it is the error.
AcceptUndone ==
  /\ pc = "accept" /\ backlog > 0
  /\ Fd \ UsedFds # {}
  /\ backlog' = backlog - 1
  /\ sidCur' = NextSid
  /\ AcceptAgain \/ StopAccepting
  /\ UNCHANGED <<server, stream, sess, clients, watched, batch, wild>>

-----------------------------------------------------------------------------
(* The items of sessions: an error closes, then writing comes before       *)
(* reading.                                                                *)

\* Mutant: the item of a broken session is passed over.
SessionError_Ignored(s) ==
  /\ AtSession(s) /\ "err" \in Current.ev
  /\ batch' = Tail(batch)
  /\ UNCHANGED <<server, stream, connections, pc, accepts, backlog, wild>>

SessionError(s) ==
  /\ AtSession(s) /\ "err" \in Current.ev
  /\ CloseSession(s, Tail(batch))
  /\ UNCHANGED <<server, stream, sidCur, pc, accepts, backlog, wild>>

Writing(s) == AtSession(s) /\ "err" \notin Current.ev /\ "out" \in Current.ev

SendAll(s) ==
  /\ Writing(s) /\ sess[s].peer # "reset"
  /\ sess' = [sess EXCEPT ![s].pending = FALSE, ![s].out = FALSE]
  /\ batch' = Done({"out"})
  /\ UNCHANGED <<server, stream, sidCur, clients, watched, pc, accepts, backlog, wild>>

\* A part was taken, or none.
SendSome(s) ==
  /\ Writing(s) /\ sess[s].peer # "reset"
  /\ batch' = Done({"out"})
  /\ UNCHANGED <<server, stream, connections, pc, accepts, backlog, wild>>

\* The error ripc_send_data_server answers goes to nobody.
SendError(s) ==
  /\ Writing(s) /\ sess[s].peer = "reset"
  /\ batch' = Done({"out"})
  /\ UNCHANGED <<server, stream, connections, pc, accepts, backlog, wild>>

Reading(s) == AtSession(s) /\ Current.ev = {"in"}

\* rsocket_recv got bytes: the codec answers none, one or more frames, each
\* of which asks for EPOLLOUT, and cmd 999 stops the server.  A codec error
\* changes nothing more.
Receive(s) ==
  /\ Reading(s) /\ sess[s].data > 0
  /\ \E answers \in BOOLEAN :
       sess' = [sess EXCEPT ![s].data = @ - 1,
                            ![s].pending = @ \/ answers,
                            ![s].out = @ \/ sess[s].pending \/ answers]
  /\ server' \in {server, "stop"}
  /\ batch' = Tail(batch)
  /\ UNCHANGED <<stream, sidCur, clients, watched, pc, accepts, backlog, wild>>

\* Mutant: the session is forgotten but its descriptor stays watched.
ReceiveEnd_StayWatched(s) ==
  /\ Reading(s) /\ sess[s].data = 0 /\ sess[s].peer # "open"
  /\ clients' = MapWithout(s)
  /\ sess' = SessWithout({s})
  /\ batch' = Tail(batch)
  /\ UNCHANGED <<server, stream, sidCur, watched, pc, accepts, backlog, wild>>

\* The end of the stream, or an error: ripc_on_error_server.
ReceiveEnd(s) ==
  /\ Reading(s) /\ sess[s].data = 0 /\ sess[s].peer # "open"
  /\ CloseSession(s, Tail(batch))
  /\ UNCHANGED <<server, stream, sidCur, pc, accepts, backlog, wild>>

\* EAGAIN, or an error that is met when the millisecond of the timeout is over.
ReceiveNothing(s) ==
  /\ Reading(s) /\ sess[s].data = 0 /\ sess[s].peer # "fin"
  /\ batch' = Tail(batch)
  /\ UNCHANGED <<server, stream, connections, pc, accepts, backlog, wild>>

-----------------------------------------------------------------------------
(* The environment.                                                        *)

Program == <<server, stream, sidCur, clients, watched, batch, pc, accepts, wild>>

Connect == /\ stream = "open"
           /\ backlog + sidCur < MaxSid
           /\ backlog' = backlog + 1
           /\ UNCHANGED <<Program, sess>>

PeerSends(s) == /\ s \in Live /\ sess[s].peer = "open" /\ sess[s].data < MaxData
                /\ sess' = [sess EXCEPT ![s].data = @ + 1]
                /\ UNCHANGED <<Program, backlog>>

PeerEnds(s) == /\ s \in Live /\ sess[s].peer = "open"
               /\ \/ sess' = [sess EXCEPT ![s].peer = "fin"]
                  \/ sess' = [sess EXCEPT ![s].peer = "reset", ![s].data = 0]
               /\ UNCHANGED <<Program, backlog>>

Environment == Connect \/ \E s \in Sid : PeerSends(s) \/ PeerEnds(s)

-----------------------------------------------------------------------------
SessionStep(s) == \/ SessionError(s) \/ SendAll(s) \/ SendSome(s) \/ SendError(s)
                  \/ Receive(s) \/ ReceiveEnd(s) \/ ReceiveNothing(s)

Check == \/ Poll \/ EndOfBatch \/ SkipItem \/ NothingLeft
         \/ ServerError \/ ServerReady \/ AcceptNothing \/ AcceptUndone
         \/ \E f \in Fd : Accept(f)
         \/ \E s \in Sid : SessionStep(s)

Thread == \/ InitServer \/ Open \/ OpenUnset \/ OpenFails \/ StartServer
          \/ Check \/ PollFails
          \/ CloseAtEnd \/ CloseNoStream \/ UninitServer

Next == Thread \/ Environment

Spec == Init /\ [][Next]_vars

\* The loop calls check again and again, and the thread never blocks in it.
FairSpec == Spec /\ WF_vars(Thread)

-----------------------------------------------------------------------------
(* Properties                                                              *)

TypeOK ==
  /\ server \in {"unknown", "ready", "start", "stop", "closed", "uninit"}
  /\ stream \in {"none", "open", "freed"}
  /\ sidCur \in 0 .. MaxSid
  /\ Live \subseteq Sid /\ \A s \in Live : sess[s] \in Session
  /\ DOMAIN clients = 0 .. Buckets - 1 /\ \A b \in DOMAIN clients : clients[b] \in Seq(Sid)
  /\ watched \subseteq Fd \cup {ListenFd}
  /\ batch \in Seq(Item)
  /\ pc \in {"init", "open", "start", "loop", "dispatch", "accept", "ended", "closed", "done"}
  /\ accepts \in 0 .. AcceptMax
  /\ backlog \in 0 .. MaxSid
  /\ wild \in BOOLEAN

\* An item of the batch that will still be dispatched names a session that is
\* allocated and has the item's descriptor, or the listening socket while it
\* is open: not one that an earlier item closed, and not another session
\* that was accepted meanwhile on the same descriptor.
NoStaleDispatch ==
  \A i \in DOMAIN batch : batch[i].fd # 0 =>
    IF batch[i].ds = ServerDs THEN stream = "open"
    ELSE batch[i].ds \in Live /\ FdOf(batch[i].ds) = batch[i].fd

\* map_clients, the epoll set and the allocated sessions name the same
\* connections, each with a descriptor of its own, as long as the server is
\* not closed: what one forgets the others forget.  The listening socket is
\* watched with them from open on, unless open answered rcode_ok without having
\* made one (rsocket_epoll.c:650); then there is no session either.  A session
\* is asked for EPOLLOUT exactly while something waits to be sent, so nothing
\* waits for ever and the loop does not spin on a writable socket.
Agreement ==
  /\ TypeOK
  /\ server \in {"ready", "start", "stop"} =>
       /\ InMap = Live
       /\ watched = UsedFds \cup IF stream = "open" THEN {ListenFd} ELSE {}
       /\ stream # "open" => Live = {}
       /\ \A s, t \in Live : FdOf(s) = FdOf(t) => s = t
  /\ \A s \in Live : sess[s].out = sess[s].pending

\* A closed server has closed the sockets of all its sessions: rdict.h:242
\* warns of rehashing only, so the loop of ripc_close_server should reach
\* every session although it removes them under its own iterator.
AllClosed == server \in {"closed", "uninit"} => Live = {} /\ watched = {}

\* The listening socket is freed by the close that ends in the state closed:
\* no message of a session brings the server back from it, so that no second
\* close frees the socket again.
ClosedStaysClosed == [][server = "closed" => server' \in {"closed", "uninit"}]_vars

\* A session whose client went away is closed, however its events and those of
\* the others fall into batches, as long as the loop runs.
GoneIsClosed ==
  \A s \in Sid : (s \in Live /\ sess[s].peer # "open")
                   ~> (s \notin Live \/ pc \in {"ended", "closed", "done"})
=============================================================================
