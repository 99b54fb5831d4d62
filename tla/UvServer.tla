------------------------------ MODULE UvServer -------------------------------
(***************************************************************************)
(* The TCP server of rsocket_uv_s.c on the event loop of libuv 1.42 (unix) *)
(* that the repository carries.  The caller goes init, open, start, close, *)
(* uninit as rtest_rsocket_uv_s.c does; everything else happens in         *)
(* callbacks of the loop, each of which is one action, except that the     *)
(* decoder takes one action per frame.  One iteration of uv_run has three  *)
(* turns here: pending (streams with completed writes), poll (the events   *)
(* epoll has at that moment), closing (the close callbacks).               *)
(* An answer is one unit of write_buff, and its number is its content.     *)
(***************************************************************************)
EXTENDS Integers, Sequences, FiniteSets, SequencesExt

CONSTANTS MaxConn,       \* bound: connections that ever arrive
          MaxFrames,     \* bound: frames the clients send in all
          AnswerRoom     \* write_buff_size, in answers

ASSUME UvAssumption == {MaxConn, MaxFrames, AnswerRoom} \subseteq Nat \ {0}

VARIABLES life,      \* ds_server->state
          stage,     \* where the caller is; "loop" while uv_run runs
          listener,  \* the handle of ds_server
          arrivals,  \* connections the kernel has for accept, and all there were
          frames,    \* how many frames the clients sent
          sessions,  \* ds_id -> the session, for those whose memory is not freed
          registry,  \* map_clients
          turn,      \* the turn of the loop
          todo,      \* <<id, event>> still to be handled in this turn
          fed,       \* loop->pending_queue
          closings,  \* loop->closing_handles
          reading,   \* the stream whose read callback runs, and its frames
          twice      \* a handle was closed that was closing

loopVars == <<turn, todo, fed, closings, reading>>
netVars == <<arrivals, frames>>
uvVars == <<life, stage, listener, sessions, registry, twice, loopVars, netVars>>

-----------------------------------------------------------------------------
Conn == 1 .. MaxConn
Listener == 0
WriteReq == [from : 0 .. AnswerRoom, to : 0 .. AnswerRoom, next : 0 .. AnswerRoom]

\* handle: open, closing, or lost (closed, its memory never freed);
\* eof: reading has stopped; shut: a shutdown waits; out: POLLOUT is asked for;
\* block, offset, pos: write_buff; queue: write_queue; done: how many answers the
\* requests in write_completed_queue held; broken: whether one of them failed;
\* peer, inbox: what the kernel knows of the client.  The rest is history: answers
\* that were encoded, what was sent, whether a send met an earlier one under way.
UvSession == [handle : {"open", "closing", "lost"},
              eof : BOOLEAN, shut : BOOLEAN, out : BOOLEAN,
              block : [1 .. AnswerRoom -> 0 .. MaxFrames],
              offset : 0 .. AnswerRoom, pos : 0 .. AnswerRoom,
              queue : Seq(WriteReq), done : Nat, broken : BOOLEAN,
              peer : {"open", "fin", "reset"}, inbox : Seq({"echo", "stop"}),
              encoded : 0 .. MaxFrames, wire : Seq(0 .. MaxFrames), overlap : BOOLEAN]

NewUvSession ==
  [handle |-> "open", eof |-> FALSE, shut |-> FALSE, out |-> FALSE,
   block |-> [i \in 1 .. AnswerRoom |-> 0], offset |-> 0, pos |-> 0,
   queue |-> <<>>, done |-> 0, broken |-> FALSE,
   peer |-> "open", inbox |-> <<>>,
   encoded |-> 0, wire |-> <<>>, overlap |-> FALSE]

Allocated == DOMAIN sessions
Opened == {s \in Allocated : sessions[s].handle = "open"}
NotReading == [id |-> Listener, rest |-> <<>>]

UvInit == /\ life = "unset" /\ stage = "new" /\ listener = "none"
          /\ arrivals = [waiting |-> 0, all |-> 0] /\ frames = 0
          /\ sessions = <<>> /\ registry = {}
          /\ turn = "pending" /\ todo = {} /\ fed = {} /\ closings = <<>>
          /\ reading = NotReading
          /\ twice = FALSE

-----------------------------------------------------------------------------
(* Streams of libuv                                                        *)

\* uv__write tries the head of the queue: the kernel takes some of it, all of it,
\* or refuses it.  Each result says whether the stream is fed.
Write(r) ==
  IF r.queue = <<>> THEN {[to |-> r, feeds |-> FALSE]}
  ELSE LET q == Head(r.queue)
           finished == [r EXCEPT !.queue = Tail(@), !.done = @ + (q.to - q.from)]
           sent(n) == r.wire \o SubSeq(r.block, q.next + 1, q.next + n)
       IN IF r.peer = "reset"
          THEN {[to |-> [finished EXCEPT !.broken = TRUE, !.out = FALSE], feeds |-> TRUE]}
          ELSE {[to |-> [finished EXCEPT !.wire = sent(q.to - q.next)], feeds |-> TRUE]}
               \cup {[to |-> [r EXCEPT !.wire = sent(n), !.queue[1].next = @ + n, !.out = TRUE],
                      feeds |-> FALSE] : n \in 0 .. q.to - q.next - 1}

\* Mutant: after_write leaves the answers it sent in the cache.
AfterWrites_KeepBuffer(r) == [r EXCEPT !.done = 0, !.broken = FALSE]

\* uv__write_callbacks: each after_write skips what its request held, and
\* rbuffer_skip goes no further than pos.
AfterWrites(r) ==
  [r EXCEPT !.offset = IF @ + r.done > r.pos THEN r.pos ELSE @ + r.done,
            !.done = 0, !.broken = FALSE]

\* What uv_close leaves of the stream: its descriptor is closed.
CloseStream(r) == [r EXCEPT !.handle = "closing", !.out = FALSE, !.inbox = <<>>]

\* uv_close of an open stream s whose record is r by now
UvClose(s, r) == /\ sessions' = [sessions EXCEPT ![s] = CloseStream(r)]
                 /\ closings' = <<s>> \o closings
                 /\ todo' = {e \in todo : e[1] # s}
                 /\ fed' = fed \ {s}

\* The part of uv__stream_io that writes: when the queue is empty uv__drain
\* shuts the stream down, and after_shutdown_client closes it.
WriteIo(s) ==
  \E w \in Write(sessions[s]) :
    LET r == AfterWrites(w.to)
        drained == [r EXCEPT !.out = FALSE, !.shut = FALSE]
    IN IF r.queue = <<>> /\ r.shut
       THEN UvClose(s, drained)
       ELSE /\ sessions' = [sessions EXCEPT ![s] = IF r.queue = <<>> THEN drained ELSE r]
            /\ fed' = IF w.feeds THEN fed \cup {s} ELSE fed
            /\ todo' = todo \ {<<s, "out">>}
            /\ UNCHANGED closings

-----------------------------------------------------------------------------
(* send_data                                                               *)

\* encode_on_before and encode_process: the cache is rewound when it is empty,
\* and an answer that does not fit is refused.
Rewound(r) == IF r.offset = r.pos THEN [r EXCEPT !.offset = 0, !.pos = 0] ELSE r
Encoded(r) == [r EXCEPT !.block[r.pos + 1] = r.encoded + 1, !.pos = @ + 1, !.encoded = @ + 1]

\* All of the cache is handed to uv_write, which writes at once when nothing
\* waits, and fails when the stream is closing.
Send(r) ==
  LET new == Rewound(r)
      full == Encoded(new)
      request == [from |-> full.offset, to |-> full.pos, next |-> full.offset]
      queued == [full EXCEPT !.queue = Append(@, request),
                             !.overlap = @ \/ r.queue # <<>> \/ r.done # 0]
  IN IF new.pos = AnswerRoom THEN {[to |-> new, feeds |-> FALSE]}
     ELSE IF r.handle # "open" THEN {[to |-> full, feeds |-> FALSE]}
     ELSE IF r.queue = <<>> /\ ~r.broken THEN Write(queued)
     ELSE {[to |-> [queued EXCEPT !.out = TRUE], feeds |-> FALSE]}

-----------------------------------------------------------------------------
(* The calls of the user, outside the loop.                                *)

InitS == /\ stage = "new" /\ stage' = "init" /\ life' = "init"
         /\ registry' = {}
         /\ UNCHANGED <<listener, sessions, twice, loopVars, netVars>>

\* The address is not valid, or the handle is made but cannot be bound: the
\* caller goes on.
OpenS == /\ stage = "init" /\ stage' = "ready"
         /\ \/ life' = "ready" /\ listener' = "listening"
            \/ listener' \in {"none", "idle"} /\ UNCHANGED life
         /\ UNCHANGED <<sessions, registry, twice, loopVars, netVars>>

Alive == \/ listener = "listening" \/ closings # <<>>
         \/ \E s \in Opened : \/ ~sessions[s].eof \/ sessions[s].shut
                              \/ sessions[s].queue # <<>> \/ sessions[s].done # 0

StartS == /\ stage = "ready"
          /\ life' = "start"
          /\ stage' = IF Alive THEN "loop" ELSE "ended"
          /\ UNCHANGED <<listener, sessions, registry, twice, loopVars, netVars>>

\* ripc_close refuses while the loop has a handle.
CloseS == /\ stage = "ended" /\ stage' = "closed"
          /\ life' = IF listener = "idle" \/ Alive THEN life ELSE "closed"
          /\ UNCHANGED <<listener, sessions, registry, twice, loopVars, netVars>>

UninitS == /\ stage = "closed" /\ stage' = "done" /\ life' = "uninit"
           /\ registry' = {}
           /\ UNCHANGED <<listener, sessions, twice, loopVars, netVars>>

-----------------------------------------------------------------------------
(* The loop: uv_run                                                        *)

InLoop(t) == stage = "loop" /\ turn = t /\ ~twice
user == <<life, stage, listener>>

\* What epoll has to report: all that can be read, and of the streams that wait
\* to write those whose kernel buffer has room.
InReady == {<<s, "in">> : s \in {s \in Opened : /\ ~sessions[s].eof
                                                /\ \/ sessions[s].inbox # <<>>
                                                   \/ sessions[s].peer # "open"}}
           \cup {<<l, "in">> : l \in {l \in {Listener} :
                                       listener = "listening" /\ arrivals.waiting > 0}}
Waiting == {s \in Opened : sessions[s].out}
OutReady(room) == {<<s, "out">> : s \in room \cup {s \in Waiting : sessions[s].peer = "reset"}}

\* Without completed writes and closing handles uv__io_poll waits for an event.
PollS == /\ InLoop("pending") /\ todo = {}
         /\ \E room \in SUBSET Waiting : todo' = InReady \cup OutReady(room)
         /\ (fed = {} /\ closings = <<>>) => todo' # {}
         /\ turn' = "poll"
         /\ UNCHANGED <<user, sessions, registry, twice, fed, closings, reading, netVars>>

PolledS == /\ InLoop("poll") /\ todo = {} /\ reading = NotReading
           /\ turn' = "closing"
           /\ UNCHANGED <<user, sessions, registry, twice, todo, fed, closings, reading, netVars>>

NextTurnS == /\ InLoop("closing") /\ closings = <<>>
             /\ IF Alive
                THEN /\ turn' = "pending" /\ UNCHANGED stage
                     /\ todo' = {<<s, "out">> : s \in fed} /\ fed' = {}
                ELSE stage' = "ended" /\ UNCHANGED <<turn, todo, fed>>
             /\ UNCHANGED <<life, listener, sessions, registry, twice, closings, reading, netVars>>

\* A completed write in the pending turn, or POLLOUT behind what was read.
WriteS == /\ InLoop(turn) /\ turn # "closing"
          /\ \E s \in Opened :
               /\ <<s, "out">> \in todo /\ <<s, "in">> \notin todo
               /\ reading \in {NotReading, [id |-> s, rest |-> <<>>]}
               /\ WriteIo(s)
          /\ reading' = NotReading
          /\ UNCHANGED <<user, registry, twice, turn, netVars>>

-----------------------------------------------------------------------------
(* on_connection: uv__server_io accepts until nobody waits.                *)

AcceptS == /\ InLoop("poll") /\ reading = NotReading
           /\ <<Listener, "in">> \in todo /\ arrivals.waiting > 0
           /\ LET s == arrivals.all - arrivals.waiting + 1
              IN /\ sessions' = [c \in Allocated \cup {s} |->
                                   IF c = s THEN NewUvSession ELSE sessions[c]]
                 /\ registry' = registry \cup {s}
           /\ arrivals' = [arrivals EXCEPT !.waiting = @ - 1]
           /\ UNCHANGED <<user, twice, loopVars, frames>>

AcceptedS == /\ InLoop("poll") /\ reading = NotReading
             /\ <<Listener, "in">> \in todo /\ arrivals.waiting = 0
             /\ todo' = todo \ {<<Listener, "in">>}
             /\ UNCHANGED <<user, sessions, registry, twice, turn, fed, closings, reading, netVars>>

-----------------------------------------------------------------------------
(* after_read                                                              *)

\* The event is over unless frames are left or the stream can be written to.
ReadsOn(s, rest) ==
  reading' = IF rest = <<>> /\ <<s, "out">> \notin todo' THEN NotReading
             ELSE [id |-> s, rest |-> rest]

InEvent(s) == /\ InLoop("poll") /\ reading = NotReading /\ <<s, "in">> \in todo
              /\ s \in Opened

ReadFrames == /\ \E s \in Opened :
                   /\ InEvent(s) /\ sessions[s].inbox # <<>>
                   /\ todo' = todo \ {<<s, "in">>}
                   /\ sessions' = [sessions EXCEPT ![s].inbox = <<>>]
                   /\ ReadsOn(s, sessions[s].inbox)
              /\ UNCHANGED <<user, registry, twice, turn, fed, closings, netVars>>

\* Mutant: after_read leaves a stream alone whose reading failed.
ReadError_Ignored ==
  /\ \E s \in Opened :
       /\ InEvent(s) /\ sessions[s].peer = "reset"
       /\ todo' = todo \ {<<s, "in">>}
       /\ sessions' = [sessions EXCEPT ![s].eof = TRUE]
       /\ ReadsOn(s, <<>>)
  /\ UNCHANGED <<user, registry, twice, turn, fed, closings, netVars>>

\* The client sends no more: what is queued is still written before the close.
ReadEof == /\ \E s \in Opened :
                /\ InEvent(s) /\ sessions[s].inbox = <<>> /\ sessions[s].peer = "fin"
                /\ todo' = todo \ {<<s, "in">>}
                /\ sessions' = [sessions EXCEPT ![s].eof = TRUE, ![s].shut = TRUE, ![s].out = TRUE]
                /\ ReadsOn(s, <<>>)
           /\ UNCHANGED <<user, registry, twice, turn, fed, closings, netVars>>

ReadError == /\ \E s \in Opened :
                  /\ InEvent(s) /\ sessions[s].peer = "reset"
                  /\ UvClose(s, sessions[s])
             /\ UNCHANGED <<user, registry, twice, turn, reading, netVars>>

\* decode_process answers a frame.
EchoFrame == /\ InLoop("poll") /\ reading.rest # <<>> /\ Head(reading.rest) = "echo"
             /\ \E w \in Send(sessions[reading.id]) :
                  /\ sessions' = [sessions EXCEPT ![reading.id] = w.to]
                  /\ fed' = IF w.feeds THEN fed \cup {reading.id} ELSE fed
             /\ UNCHANGED <<user, registry, twice, turn, todo, closings, netVars>>
             /\ ReadsOn(reading.id, Tail(reading.rest))

\* ripc_stop closes the sessions of the map, whatever happens to them already and
\* in whatever order the map has them, forgets them, and closes the listening handle.
Busy == listener # "listening" \/ \E s \in registry : sessions[s].handle # "open"

\* Mutant: the listening handle is left alone.
StopFrame_SessionsOnly ==
  /\ InLoop("poll") /\ reading.rest # <<>> /\ Head(reading.rest) = "stop"
  /\ ~Busy
  /\ \E w \in Send(sessions[reading.id]) :
       sessions' = [s \in Allocated |->
                      LET r == IF s = reading.id THEN w.to ELSE sessions[s]
                      IN IF s \in registry THEN CloseStream(r) ELSE r]
  /\ \E order \in SetToSeqs(registry) : closings' = order \o closings
  /\ todo' = {e \in todo : e[1] \notin registry}
  /\ fed' = fed \ registry
  /\ registry' = {}
  /\ life' = "stop"
  /\ ReadsOn(reading.id, Tail(reading.rest))
  /\ UNCHANGED <<stage, listener, twice, turn, netVars>>

StopFrame ==
  /\ InLoop("poll") /\ reading.rest # <<>> /\ Head(reading.rest) = "stop"
  /\ ~Busy
  /\ \E w \in Send(sessions[reading.id]) :
       sessions' = [s \in Allocated |->
                      LET r == IF s = reading.id THEN w.to ELSE sessions[s]
                      IN IF s \in registry THEN CloseStream(r) ELSE r]
  /\ \E order \in SetToSeqs(registry) : closings' = <<Listener>> \o order \o closings
  /\ todo' = {e \in todo : e[1] \notin registry \cup {Listener}}
  /\ fed' = fed \ registry
  /\ registry' = {} /\ listener' = "closing"
  /\ life' = "stop"
  /\ ReadsOn(reading.id, Tail(reading.rest))
  /\ UNCHANGED <<stage, twice, turn, netVars>>

\* uv_close asserts that the handle is not closing.
StopBusy == /\ InLoop("poll") /\ reading.rest # <<>> /\ Head(reading.rest) = "stop"
            /\ Busy
            /\ twice' = TRUE
            /\ UNCHANGED <<user, sessions, registry, loopVars, netVars>>

-----------------------------------------------------------------------------
(* uv__finish_close and the close callbacks, the last closed handle first. *)

CloseListener == /\ InLoop("closing") /\ closings # <<>> /\ Head(closings) = Listener
                 /\ listener' = "closed" /\ closings' = Tail(closings)
                 /\ UNCHANGED <<life, stage, sessions, registry, twice, turn, todo, fed, reading,
                                netVars>>

\* uv__stream_destroy calls back the writes and the shutdown that are cancelled;
\* after_shutdown_client closes the handle again.
CloseShut == /\ InLoop("closing") /\ closings # <<>> /\ Head(closings) # Listener
             /\ sessions[Head(closings)].shut
             /\ twice' = TRUE
             /\ UNCHANGED <<user, sessions, registry, loopVars, netVars>>

\* Mutant: the close callback frees the session and leaves it in the map.
CloseSessionS_KeepEntry ==
  /\ InLoop("closing") /\ closings # <<>>
  /\ LET s == Head(closings)
     IN /\ s # Listener /\ ~sessions[s].shut
        /\ sessions' = IF s \in registry THEN [t \in Allocated \ {s} |-> sessions[t]]
                       ELSE [sessions EXCEPT ![s].handle = "lost",
                                             ![s].queue = <<>>, ![s].done = 0]
  /\ closings' = Tail(closings)
  /\ UNCHANGED <<user, registry, twice, turn, todo, fed, reading, netVars>>

\* on_session_close frees a session that is in the map, and no other one.
CloseSessionS ==
  /\ InLoop("closing") /\ closings # <<>>
  /\ LET s == Head(closings)
     IN /\ s # Listener /\ ~sessions[s].shut
        /\ sessions' = IF s \in registry THEN [t \in Allocated \ {s} |-> sessions[t]]
                       ELSE [sessions EXCEPT ![s].handle = "lost",
                                             ![s].queue = <<>>, ![s].done = 0]
        /\ registry' = registry \ {s}
  /\ closings' = Tail(closings)
  /\ UNCHANGED <<user, twice, turn, todo, fed, reading, netVars>>

-----------------------------------------------------------------------------
(* The clients and the network.                                            *)

Connects == /\ listener = "listening" /\ stage = "loop" /\ ~twice
            /\ arrivals.all < MaxConn
            /\ arrivals' = [waiting |-> arrivals.waiting + 1, all |-> arrivals.all + 1]
            /\ UNCHANGED <<user, sessions, registry, twice, loopVars, frames>>

ClientSends == /\ ~twice /\ frames < MaxFrames /\ frames' = frames + 1
               /\ \E s \in Opened, f \in {"echo", "stop"} :
                    /\ sessions[s].peer = "open"
                    /\ sessions' = [sessions EXCEPT ![s].inbox = Append(@, f)]
               /\ UNCHANGED <<user, registry, twice, loopVars, arrivals>>

ClientLeaves == /\ ~twice
                /\ \E s \in Opened :
                     \/ /\ sessions[s].peer = "open"
                        /\ sessions' = [sessions EXCEPT ![s].peer = "fin"]
                     \/ /\ sessions[s].peer # "reset"
                        /\ sessions' = [sessions EXCEPT ![s].peer = "reset", ![s].inbox = <<>>]
                /\ UNCHANGED <<user, registry, twice, loopVars, netVars>>

UvThread == \/ InitS \/ OpenS \/ StartS \/ CloseS \/ UninitS
            \/ PollS \/ PolledS \/ NextTurnS
            \/ WriteS \/ AcceptS \/ AcceptedS
            \/ ReadFrames \/ ReadEof \/ ReadError \/ EchoFrame \/ StopFrame \/ StopBusy
            \/ CloseListener \/ CloseShut \/ CloseSessionS

UvNext == UvThread \/ Connects \/ ClientSends \/ ClientLeaves

\* No callback waits, and epoll reports again what was not handled.
UvFair == WF_uvVars(UvThread)

UvSpec == UvInit /\ [][UvNext]_uvVars /\ UvFair

-----------------------------------------------------------------------------
(* Properties                                                              *)

UvTypeOK ==
  /\ life \in {"unset", "init", "ready", "start", "stop", "closed", "uninit"}
  /\ stage \in {"new", "init", "ready", "loop", "ended", "closed", "done"}
  /\ listener \in {"none", "idle", "listening", "closing", "closed"}
  /\ Allocated \subseteq Conn /\ \A s \in Allocated : sessions[s] \in UvSession
  /\ registry \subseteq Conn
  /\ turn \in {"pending", "poll", "closing"}
  /\ todo \subseteq (Conn \cup {Listener}) \X {"in", "out"}
  /\ fed \subseteq Conn
  /\ closings \in Seq(Conn \cup {Listener})
  /\ reading \in [id : Conn \cup {Listener}, rest : Seq({"echo", "stop"})]
  /\ twice \in BOOLEAN

\* Until the server is stopped its map names the sessions whose handles are not
\* closed, and memory is lost only through a stop; events and completed writes
\* that are still to be handled are those of open streams; and a loop that ends
\* behind a stop leaves no handle that close would find.
SessionsAccounted ==
  /\ UvTypeOK
  /\ life = "start" => registry = Allocated /\ \A s \in Allocated : sessions[s].handle # "lost"
  /\ life = "stop" => registry = {} /\ Opened = {}
  /\ fed \subseteq Opened /\ \A e \in todo : e[1] \in Opened \cup {Listener}
  /\ (stage = "ended" /\ life = "stop") =>
       listener = "closed" /\ \A s \in Allocated : sessions[s].handle = "lost"

\* As long as no answer is sent while an earlier one is under way, the client gets
\* each answer once and in order, and all of them when nothing waits.
AnswersExact ==
  \A s \in Opened :
    LET r == sessions[s]
    IN ~r.overlap =>
         /\ \A i \in DOMAIN r.wire : r.wire[i] = i
         /\ (r.queue = <<>> /\ r.done = 0 /\ r.peer # "reset") => Len(r.wire) = r.encoded

\* Sessions whose connection broke are closed, with whatever answers and
\* shutdown still wait: since connections are bounded, one day none is left.
Broken == {s \in Opened : sessions[s].peer = "reset"}
BrokenIsClosed == Broken # {} ~> (Broken = {} \/ twice)

\* A loop that was stopped ends.
StopEnds == (life = "stop" /\ stage = "loop") ~> (stage = "ended" \/ twice)

\* core.c:113 of libuv asserts of a handle that is closed that it was not closing.
ClosedOnce == ~twice
=============================================================================
