------------------------------- MODULE Codec --------------------------------
(***************************************************************************)
(* The default codec (rcodec_default.c) at the two ends of one connection, *)
(* with the writing and the send and receive functions of rsocket_epoll.c  *)
(* around it.  The client sends requests, the session of the server echoes *)
(* each of them.  A frame is a header and a payload; the writing and the   *)
(* stream hold units, each the i-th unit of one frame.                     *)
(*                                                                         *)
(* Each side is one thread, and each callback of it that no other code of  *)
(* that side can come between is one action.  The loop of decode_process   *)
(* takes one action per turn, because each turn sends through the socket.  *)
(***************************************************************************)
EXTENDS Integers, Sequences, SequencesExt

CONSTANTS Client, Server,
          Requests,    \* bound: how many requests the client sends
          HeaderLen,   \* full_head_len
          PayloadLen,  \* request -> its payload length
          EchoLen,     \* the length of " - server response."
          WriteCap,    \* write_buff_size
          ReadCap,     \* read_cache_size
          PipeCap      \* what the kernel holds of one direction

ASSUME SideAssumption == Client # Server
ASSUME LengthAssumption ==
  /\ Requests \in Nat /\ HeaderLen \in Nat \ {0} /\ EchoLen \in Nat
  /\ PayloadLen \in [1 .. Requests -> Nat]
  /\ {WriteCap, ReadCap, PipeCap} \subseteq Nat \ {0}

VARIABLES wbuf,      \* side -> the units between offset and pos of write_buff
          woff,      \* side -> the offset of write_buff
          wanted,    \* side -> whether epoll is asked for EPOLLOUT
          pipe,      \* side -> the units this side sent and the other has not received
          rbuf,      \* side -> the units between offset and pos of read_cache
          decoding,  \* side -> whether decode_process runs
          serving,   \* whether the state of the server is still ripc_state_start
          tried,     \* how many requests the client handed to send
          cuts,      \* whether receives may cut the stream inside a frame, and fill
                     \* the whole cache; the network chooses this once
          queued,    \* side -> history: the frames whose send was accepted
          taken      \* side -> history: the frames this side decoded

writing == <<wbuf, woff, wanted>>
codecVars == <<writing, pipe, rbuf, decoding, serving, tried, cuts, queued, taken>>

-----------------------------------------------------------------------------
Side == {Client, Server}
Peer(d) == IF d = Client THEN Server ELSE Client
Request == 1 .. Requests

\* The frame of side d that carries request r, or its response.
Payload(d, r) == PayloadLen[r] + IF d = Server THEN EchoLen ELSE 0
FrameLen(d, r) == HeaderLen + Payload(d, r)
Unit == [frame : Request, i : Nat \ {0}]
Units(d, r) == [i \in 1 .. FrameLen(d, r) |-> [frame |-> r, i |-> i]]

CodecInit == /\ wbuf = [d \in Side |-> <<>>]
        /\ woff = [d \in Side |-> 0]
        /\ wanted = [d \in Side |-> FALSE]
        /\ pipe = [d \in Side |-> <<>>]
        /\ rbuf = [d \in Side |-> <<>>]
        /\ decoding = [d \in Side |-> FALSE]
        /\ serving = TRUE
        /\ tried = 0
        /\ cuts \in BOOLEAN
        /\ queued = [d \in Side |-> <<>>]
        /\ taken = [d \in Side |-> <<>>]

Running(d) == d = Client \/ serving

-----------------------------------------------------------------------------
(* ripc_send_data_2buffer: encode a frame into write_buff.                 *)

\* encode_on_before: what was sent stays in front of the offset until all of
\* it is sent.
Start(d) == IF wbuf[d] = <<>> THEN 0 ELSE woff[d]
RoomFor(d, r) == WriteCap - (Start(d) + Len(wbuf[d])) >= FrameLen(d, r)

\* Mutant: EPOLLOUT is asked for when a frame joins others only.
Queue_SecondOnly(d, r) ==
  /\ RoomFor(d, r)
  /\ wbuf' = [wbuf EXCEPT ![d] = @ \o Units(d, r)]
  /\ woff' = [woff EXCEPT ![d] = Start(d)]
  /\ wanted' = [wanted EXCEPT ![d] = wbuf[d] # <<>>]
  /\ queued' = [queued EXCEPT ![d] = Append(@, r)]

Queue(d, r) ==
  /\ RoomFor(d, r)
  /\ wbuf' = [wbuf EXCEPT ![d] = @ \o Units(d, r)]
  /\ woff' = [woff EXCEPT ![d] = Start(d)]
  /\ wanted' = [wanted EXCEPT ![d] = TRUE]
  /\ queued' = [queued EXCEPT ![d] = Append(@, r)]

\* rcode_err_ipc_cache_full: the frame is given up
Refuse(d, r) ==
  /\ ~RoomFor(d, r)
  /\ woff' = [woff EXCEPT ![d] = Start(d)]
  /\ UNCHANGED <<wbuf, wanted, queued>>

SendRequest ==
  /\ ~decoding[Client]
  /\ tried < Requests
  /\ tried' = tried + 1
  /\ Queue(Client, tried + 1) \/ Refuse(Client, tried + 1)
  /\ UNCHANGED <<pipe, rbuf, decoding, serving, cuts, taken>>

-----------------------------------------------------------------------------
(* ripc_send_data: the kernel takes the first n units.                     *)

\* Mutant: rbuffer_skip is left out when the kernel took only a part.
Flush_NoSkip(d, n) ==
  /\ wanted[d] /\ ~decoding[d] /\ Running(d)
  /\ n \in 1 .. Len(wbuf[d])
  /\ Len(pipe[d]) + n <= PipeCap
  /\ pipe' = [pipe EXCEPT ![d] = @ \o SubSeq(wbuf[d], 1, n)]
  /\ IF n = Len(wbuf[d])
     THEN /\ wbuf' = [wbuf EXCEPT ![d] = <<>>]
          /\ woff' = [woff EXCEPT ![d] = @ + n]
          /\ wanted' = [wanted EXCEPT ![d] = FALSE]
     ELSE UNCHANGED writing
  /\ UNCHANGED <<rbuf, decoding, serving, tried, cuts, queued, taken>>

Flush(d, n) ==
  /\ wanted[d] /\ ~decoding[d] /\ Running(d)
  /\ n \in 1 .. Len(wbuf[d])
  /\ Len(pipe[d]) + n <= PipeCap
  /\ pipe' = [pipe EXCEPT ![d] = @ \o SubSeq(wbuf[d], 1, n)]
  /\ wbuf' = [wbuf EXCEPT ![d] = SubSeq(@, n + 1, Len(@))]
  /\ woff' = [woff EXCEPT ![d] = @ + n]
  /\ wanted' = [wanted EXCEPT ![d] = n < Len(wbuf[d])]
  /\ UNCHANGED <<rbuf, decoding, serving, tried, cuts, queued, taken>>

-----------------------------------------------------------------------------
(* ripc_receive_data: what the stream has to give, then decode_process.    *)

\* The last unit of the first n on the stream to d ends a frame.
AtFrameEnd(d, n) ==
  LET u == pipe[Peer(d)][n] IN u.i = FrameLen(Peer(d), u.frame)

\* rbuffer_seek in decode_on_before stops one short of the end of the block.
Room(d) == ReadCap - Len(rbuf[d])
Received(d, n) == SubSeq(pipe[Peer(d)], 1, IF n < Room(d) THEN n ELSE n - 1)

Receives(d, n) ==
  /\ ~decoding[d] /\ Running(d)
  /\ n \in 1 .. Len(pipe[Peer(d)])
  /\ n <= Room(d)
  /\ cuts \/ (AtFrameEnd(d, n) /\ n < Room(d))
  /\ rbuf' = [rbuf EXCEPT ![d] = @ \o Received(d, n)]
  /\ pipe' = [pipe EXCEPT ![Peer(d)] = SubSeq(@, n + 1, Len(@))]
  /\ decoding' = [decoding EXCEPT ![d] = TRUE]
  /\ UNCHANGED <<writing, serving, tried, cuts, queued, taken>>

\* A header of a peer's frame is at the front; only a first unit has the magic.
HasHeader(d) == Len(rbuf[d]) >= HeaderLen
HasMagic(d) == rbuf[d][1].i = 1
WantedLen(d) == FrameLen(Peer(d), rbuf[d][1].frame)

\* Mutant: the cache is cleared after a frame.
Rest_Cleared(d) == <<>>

Rest(d) == SubSeq(rbuf[d], WantedLen(d) + 1, Len(rbuf[d]))

\* Only a session answers; the answer that finds no room is lost.  A request
\* whose cmd is 999 stops the server.
Respond(d, r) ==
  IF d = Server
  THEN /\ Queue(Server, r) \/ Refuse(Server, r)
       /\ serving' \in {serving, FALSE}
  ELSE UNCHANGED <<writing, queued, serving>>

DecodeFrame(d) ==
  /\ decoding[d] /\ HasHeader(d) /\ HasMagic(d)
  /\ Len(rbuf[d]) >= WantedLen(d)
  /\ LET r == rbuf[d][1].frame
     IN  /\ taken' = [taken EXCEPT ![d] = Append(@, r)]
         /\ Respond(d, r)
  /\ rbuf' = [rbuf EXCEPT ![d] = Rest(d)]
  /\ UNCHANGED <<pipe, decoding, tried, cuts>>

\* A read that gets less than it asked for has emptied the cache, and an
\* emptied cache starts at 0, where rbuffer_read_ext(buffer, -read_len) has
\* nothing to go back to.  A loop that met no half frame ends here too.
Dropped(d) == /\ rbuf' = [rbuf EXCEPT ![d] = <<>>]
              /\ decoding' = [decoding EXCEPT ![d] = FALSE]
              /\ UNCHANGED <<writing, pipe, serving, tried, cuts, queued, taken>>

ShortHeader(d) == decoding[d] /\ ~HasHeader(d) /\ Dropped(d)

ShortPayload(d) == /\ decoding[d] /\ HasHeader(d) /\ HasMagic(d)
                   /\ Len(rbuf[d]) < WantedLen(d)
                   /\ Dropped(d)

\* Mutant: what follows a bad magic is decoded as the frame it belongs to.
BadMagic_Resync(d) ==
  /\ decoding[d] /\ HasHeader(d) /\ ~HasMagic(d)
  /\ taken' = [taken EXCEPT ![d] = Append(@, rbuf[d][1].frame)]
  /\ rbuf' = [rbuf EXCEPT ![d] = <<>>]
  /\ decoding' = [decoding EXCEPT ![d] = FALSE]
  /\ UNCHANGED <<writing, pipe, serving, tried, cuts, queued>>

\* rcode_err_ipc_magic: the cache is cleared, the connection stays open
BadMagic(d) == decoding[d] /\ HasHeader(d) /\ ~HasMagic(d) /\ Dropped(d)

Decode(d) == DecodeFrame(d) \/ ShortHeader(d) \/ ShortPayload(d) \/ BadMagic(d)

-----------------------------------------------------------------------------
CodecNext == \/ SendRequest
        \/ \E d \in Side : \/ Decode(d)
                           \/ \E n \in 1 .. WriteCap : Flush(d, n)
                           \/ \E n \in 1 .. ReadCap : Receives(d, n)

CodecSpec == CodecInit /\ [][CodecNext]_codecVars

\* Level-triggered epoll reports what is ready at every turn of the loop that
\* calls check, and a callback runs to its end.
CodecFairSpec ==
  /\ CodecSpec
  /\ WF_codecVars(SendRequest)
  /\ \A d \in Side : /\ WF_codecVars(Decode(d))
                     /\ WF_codecVars(\E n \in 1 .. WriteCap : Flush(d, n))
                     /\ WF_codecVars(\E n \in 1 .. ReadCap : Receives(d, n))

-----------------------------------------------------------------------------
(* Properties                                                              *)

CodecTypeOK ==
  /\ wbuf \in [Side -> Seq(Unit)] /\ rbuf \in [Side -> Seq(Unit)]
  /\ pipe \in [Side -> Seq(Unit)]
  /\ woff \in [Side -> 0 .. WriteCap]
  /\ \A d \in Side : woff[d] + Len(wbuf[d]) <= WriteCap /\ Len(rbuf[d]) < ReadCap
  /\ wanted \in [Side -> BOOLEAN] /\ decoding \in [Side -> BOOLEAN]
  /\ serving \in BOOLEAN
  /\ tried \in 0 .. Requests
  /\ cuts \in BOOLEAN
  /\ queued \in [Side -> Seq(Request)] /\ taken \in [Side -> Seq(Request)]

\* Whatever is waiting in a write_buff, epoll is asked to say when the socket
\* can take it, also after a part was sent or another frame was queued while
\* decoding: nothing waits that no event will ever send.
NoLostWakeup == \A d \in Side : wbuf[d] # <<>> => wanted[d]

\* What was queued and not yet received is one run of whole frames of which
\* only the first may be cut: partial sends repeat, skip and interleave nothing,
\* and no cache holds more than its block.
Stream(d) == FlattenSeq([j \in DOMAIN queued[d] |-> Units(d, queued[d][j])])
StreamIntact == /\ CodecTypeOK
                /\ \A d \in Side : IsSuffix(pipe[d] \o wbuf[d], Stream(d))

\* Wherever the stream is cut, and whatever the writing lose of it, the frames
\* that are decoded are frames the peer queued, each once and in the order of
\* the queue: a lost tail never makes two frames into one.
InOrder == \A d \in Side : \A i, j \in DOMAIN taken[d] :
             /\ \E q \in DOMAIN queued[Peer(d)] : queued[Peer(d)][q] = taken[d][i]
             /\ i < j => taken[d][i] < taken[d][j]

\* Nothing of the requests is under way.
Drained == wbuf[Client] = <<>> /\ pipe[Client] = <<>> /\ ~decoding[Server]

\* rcodec_default.c:171 and :193 say of a frame that is not complete yet "the
\* length is not enough, go back and keep reading": once the requests are all
\* received, all of them were decoded.
AllDecoded == Drained => taken[Server] = queued[Client]

\* As long as receives end where a frame ends and leave room in the cache,
\* nothing of the requests is lost, whatever is sent and flushed meanwhile.
AllDecodedUncut == ~cuts => AllDecoded

\* Every queued frame is decoded by the peer then, as long as the server is on:
\* since the requests are bounded, one day none is under way in either direction.
Has(q, r) == \E j \in DOMAIN q : q[j] = r
UnderWay == \E d \in Side : \E r \in Request : Has(queued[d], r) /\ ~Has(taken[Peer(d)], r)
EventuallyTaken == (~cuts /\ UnderWay) ~> (~serving \/ ~UnderWay)
=============================================================================
