----------------------------- MODULE EpollClient -----------------------------
(***************************************************************************)
(* The TCP client of rsocket_epoll.c: one data source with a container of  *)
(* its own, as rtest_rsocket_epoll.c uses it.  The caller goes from init   *)
(* to uninit, may open again what is closed, and looks at no state; the    *)
(* client also closes itself when a poll or a system call shows an error.  *)
(* close leaves read_cache and write_buff dangling, and a data source is   *)
(* not cleared when it is allocated.                                       *)
(***************************************************************************)
EXTENDS Integers

CONSTANT MaxBytes  \* bound: chunks the server has on the way at a time

ASSUME BytesAssumption == MaxBytes \in Nat \ {0}

VARIABLES state,       \* ds_client->state
          sock,        \* ds_client->stream is not NULL
          caches,      \* read_cache and write_buff: "unset", "held", "freed"
          pending,     \* write_buff holds something
          registered,  \* the descriptor is in the epoll set
          interest,    \* EPOLLOUT is asked for
          at,          \* where the thread is, "caller" between two calls
          events,      \* what is left of the item the last poll reported
          peer, bytes, \* what the kernel knows of the other end
          broken,      \* memory that is not the client's was freed or read
          started,     \* this connection got as far as ripc_state_start
          asked,       \* the caller closed it
          late         \* the caller stopped a client that had closed itself

link == <<sock, registered, interest, peer, bytes>>
history == <<started, asked, late>>
clientVars == <<state, caches, pending, link, at, events, broken, history>>

-----------------------------------------------------------------------------
ClientInit == /\ state = "unset" /\ sock = FALSE
              /\ caches = "unset" /\ pending = FALSE
              /\ registered = FALSE /\ interest = FALSE
              /\ at = "new" /\ events = {}
              /\ peer = "none" /\ bytes = 0
              /\ broken = FALSE
              /\ started = FALSE /\ asked = FALSE /\ late = FALSE

InCaller == at = "caller" /\ ~broken

InitC == /\ at = "new" /\ at' = "caller"
         /\ sock' = FALSE
         /\ UNCHANGED <<state, caches, pending, registered, interest, peer, bytes, events,
                        broken, history>>

\* A connect that is under way counts as success (rsocket_connect).
OpenC == /\ InCaller /\ state \in {"unset", "closed"} /\ ~sock
         /\ sock' = TRUE /\ registered' = TRUE /\ interest' = TRUE
         /\ state' = "ready_pending"
         /\ peer' \in {"connecting", "open"} /\ bytes' = 0
         /\ started' = FALSE /\ asked' = FALSE /\ late' = FALSE
         /\ UNCHANGED <<caches, pending, at, events, broken>>

\* When the name is not resolved, freeaddrinfo gets a pointer nobody set.
OpenFailsC == /\ InCaller /\ state \in {"unset", "closed"} /\ ~sock
              /\ started' = FALSE
              /\ broken' \in BOOLEAN
              /\ UNCHANGED <<state, caches, pending, link, at, events, asked, late>>

-----------------------------------------------------------------------------
(* ripc_close_c, called by the caller, by uninit and by ripc_on_error_c.   *)

Closing(next) ==
  /\ CASE caches = "held" -> broken' = broken
       [] caches = "freed" -> broken' = TRUE
       [] caches = "unset" -> broken' \in BOOLEAN
  /\ caches' = "freed" /\ pending' = FALSE
  /\ sock' = FALSE /\ registered' = FALSE /\ interest' = FALSE
  /\ peer' = "none" /\ bytes' = 0
  /\ state' = next
  /\ asked' = (asked \/ InCaller)
  /\ UNCHANGED <<started, late>>

\* Mutant: a client that is closed is closed again.
CloseC_Again == /\ InCaller /\ state # "uninit"
                /\ Closing("closed")
                /\ UNCHANGED <<at, events>>

\* It returns at once when the state is closed.
CloseC == /\ InCaller /\ state \notin {"closed", "uninit"}
          /\ Closing("closed")
          /\ UNCHANGED <<at, events>>

\* A state nobody set may be any.
UninitC == /\ InCaller /\ state # "uninit"
           /\ \/ /\ state \in {"closed", "unset"} /\ state' = "uninit"
                 /\ UNCHANGED <<caches, pending, link, broken, history>>
              \/ state # "closed" /\ Closing("uninit")
           /\ UNCHANGED <<at, events>>

\* Whatever the state is; the caller does not stop what he has closed.
StopC == /\ InCaller /\ state # "uninit" /\ ~asked
         /\ state' = "stop"
         /\ late' = (late \/ state = "closed")
         /\ UNCHANGED <<caches, pending, link, at, events, broken, started, asked>>

-----------------------------------------------------------------------------
(* What a poll of the container reports of the one descriptor in it.       *)

Ready == CASE peer = "connecting" -> {}
           [] peer = "refused" -> {"err", "in", "out"}
           [] peer = "reset" -> {"err", "in"}
           [] peer = "fin" -> {"in"}
           [] OTHER -> IF bytes > 0 THEN {"in"} ELSE {}
Writable == IF interest /\ peer \in {"open", "fin", "reset"} THEN {{}, {"out"}} ELSE {{}}
Reported == IF registered THEN {Ready \cup out : out \in Writable} ELSE {{}}

-----------------------------------------------------------------------------
(* ripc_start_c polls until the socket can be written to, for three        *)
(* seconds at most.                                                        *)

StartC == /\ InCaller /\ state = "ready_pending" /\ sock
          /\ at' = "start"
          /\ UNCHANGED <<state, caches, pending, link, events, broken, history>>

StartPolls == /\ at = "start" /\ ~broken
              /\ events' \in Reported
              /\ at' = IF events' = {} THEN "start" ELSE "started"
              /\ UNCHANGED <<state, caches, pending, link, broken, history>>

\* The loop goes on with a client that is closed.
StartError == /\ at = "started" /\ "err" \in events
              /\ Closing("closed")
              /\ at' = "start" /\ events' = {}

StartDone == /\ at = "started" /\ "err" \notin events /\ "out" \in events
             /\ interest' = FALSE
             /\ caches' = "held" /\ pending' = FALSE
             /\ state' = "start" /\ started' = TRUE
             /\ at' = "caller" /\ events' = {}
             /\ UNCHANGED <<sock, registered, peer, bytes, broken, asked, late>>

StartWaits == /\ at = "started" /\ events = {"in"}
              /\ at' = "start" /\ events' = {}
              /\ UNCHANGED <<state, caches, pending, link, broken, history>>

\* Mutant: the clock starts anew with every poll.
StartTimeout_Anew == FALSE /\ UNCHANGED clientVars

\* The trace in front of the answer reads the descriptor of the stream.
StartTimeout == /\ at = "start" /\ ~broken
                /\ IF sock THEN at' = "caller" /\ UNCHANGED broken
                           ELSE broken' = TRUE /\ UNCHANGED at
                /\ UNCHANGED <<state, caches, pending, link, events, history>>

\* The poll or the modification of the item failed: its error is the answer.
StartFails == /\ at \in {"start", "started"} /\ ~broken /\ "err" \notin events
              /\ at' = "caller" /\ events' = {}
              /\ UNCHANGED <<state, caches, pending, link, broken, history>>

-----------------------------------------------------------------------------
(* ripc_send_data_2buffer_c and ripc_check_data_c.                         *)

SendC == /\ InCaller /\ sock /\ state = "start"
         /\ pending' = TRUE /\ interest' = TRUE
         /\ UNCHANGED <<state, caches, sock, registered, peer, bytes, at, events, broken, history>>

CheckPolls == /\ InCaller /\ state # "uninit" /\ sock
              /\ events' \in Reported
              /\ at' = IF events' = {} THEN "caller" ELSE "check"
              /\ UNCHANGED <<state, caches, pending, link, broken, history>>

\* Where the dispatch of the item goes on when ev is done
After(ev) == /\ events' = events \ ev
             /\ at' = IF events' = {} THEN "caller" ELSE "check"

CheckError == /\ at = "check" /\ "err" \in events
              /\ Closing("closed")
              /\ at' = "caller" /\ events' = {}

Sending == at = "check" /\ "err" \notin events /\ "out" \in events
Receiving == at = "check" /\ events = {"in"}

CheckSkips == /\ \/ Sending /\ state # "start" /\ After({"out"})
                 \/ Receiving /\ state # "start" /\ After({"in"})
              /\ UNCHANGED <<state, caches, pending, link, broken, history>>

\* Mutant: EPOLLOUT stays asked for when everything is sent.
SendAllC_KeepOut == /\ Sending /\ state = "start"
                    /\ pending' = FALSE
                    /\ After({"out"})
                    /\ UNCHANGED <<state, caches, link, broken, history>>

SendAllC == /\ Sending /\ state = "start"
            /\ pending' = FALSE /\ interest' = FALSE
            /\ After({"out"})
            /\ UNCHANGED <<state, caches, sock, registered, peer, bytes, broken, history>>

SendSomeC == /\ Sending /\ state = "start"
             /\ After({"out"})
             /\ UNCHANGED <<state, caches, pending, link, broken, history>>

\* Any answer but rcode_io_done closes, a timeout while the other end is open
\* like the rest.  What was reported besides is still dispatched, to a client
\* that is closed.
SendErrorC == /\ Sending /\ state = "start"
              /\ Closing("closed")
              /\ After({"out"})

ReceiveC == /\ Receiving /\ state = "start" /\ bytes > 0
            /\ bytes' = bytes - 1
            /\ After({"in"})
            /\ UNCHANGED <<state, caches, pending, sock, registered, interest, peer, broken, history>>

\* Mutant: the end of the stream is taken for a timeout.
ReceiveEndC_Timeout == /\ Receiving /\ state = "start" /\ bytes = 0 /\ peer # "open"
                       /\ After({"in"})
                       /\ UNCHANGED <<state, caches, pending, link, broken, history>>

ReceiveEndC == /\ Receiving /\ state = "start" /\ bytes = 0 /\ peer # "open"
               /\ Closing("closed")
               /\ After({"in"})

CheckDispatches == \/ CheckError \/ CheckSkips \/ SendAllC \/ SendSomeC \/ SendErrorC
                   \/ ReceiveC \/ ReceiveEndC

-----------------------------------------------------------------------------
(* The server and the network.                                             *)

PeerTurns == /\ \/ peer = "connecting" /\ peer' \in {"open", "refused"} /\ UNCHANGED bytes
                \/ peer = "open" /\ peer' = "open" /\ bytes < MaxBytes /\ bytes' = bytes + 1
                \/ peer = "open" /\ peer' = "fin" /\ UNCHANGED bytes
                \/ peer \in {"open", "fin"} /\ peer' = "reset" /\ bytes' = 0
             /\ UNCHANGED <<state, caches, pending, sock, registered, interest, at, events,
                            broken, history>>

StartStep == StartPolls \/ StartError \/ StartDone \/ StartWaits \/ StartTimeout \/ StartFails

ClientNext == \/ InitC \/ OpenC \/ OpenFailsC \/ StartC \/ StartStep
              \/ SendC \/ CheckPolls \/ CheckDispatches
              \/ StopC \/ CloseC \/ UninitC
              \/ PeerTurns

\* A call runs on until it returns, start looks at the clock in every turn, and
\* the caller keeps calling check.
ClientFair == /\ WF_clientVars(StartStep) /\ SF_clientVars(StartTimeout)
              /\ WF_clientVars(CheckPolls \/ CheckDispatches)

ClientSpec == ClientInit /\ [][ClientNext]_clientVars /\ ClientFair

-----------------------------------------------------------------------------
(* Properties                                                              *)

ClientTypeOK ==
  /\ state \in {"unset", "ready_pending", "start", "stop", "closed", "uninit"}
  /\ caches \in {"unset", "held", "freed"}
  /\ {sock, pending, registered, interest, broken, started, asked, late} \subseteq BOOLEAN
  /\ at \in {"new", "caller", "start", "started", "check"}
  /\ events \subseteq {"err", "in", "out"}
  /\ peer \in {"none", "connecting", "open", "refused", "fin", "reset"}
  /\ bytes \in 0 .. MaxBytes

\* Once a connection is started, neither the caller's calls nor the errors that
\* close it in the middle of a check touch a cache or a socket that is gone, until
\* the caller opens again; only a stop behind such an error brings it back to a
\* state that close does not return from.
SafeOnceStarted == broken => ~started \/ late

\* The epoll set, the stream and the caches agree with the state: a client in
\* service has all of them, a closed one has none, and EPOLLOUT is asked for
\* exactly while something waits to be sent.
ClientAgrees ==
  /\ ClientTypeOK
  /\ registered = sock
  /\ state = "start" => sock /\ caches = "held" /\ (interest <=> pending)
  /\ state \in {"closed", "uninit"} => ~sock /\ caches # "held"

\* A client whose server went away leaves ripc_state_start, whatever it sends and
\* has still to read.
GoneIsLeft == (state = "start" /\ peer \in {"fin", "reset"}) ~> state # "start"

\* start answers, with the error of a poll or after its three seconds, unless the
\* connection fails while it waits: then the trace in front of its answer reads
\* the descriptor of a stream that is NULL.
StartReturns == at = "start" ~> (at = "caller" \/ ~sock)

\* rtest_rsocket_epoll.c:202-205 calls stop, close and uninit of a client that was
\* started, whatever came of it, and expects them to return.
EndsCleanly == [][started /\ state = "stop" => ~broken']_clientVars
=============================================================================
