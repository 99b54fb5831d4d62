----------------------------- MODULE EpollProofs -----------------------------
(***************************************************************************)
(* Theorems about EpollServer and EpollClient, for every set of            *)
(* descriptors, every number of connections and every size of the map.     *)
(***************************************************************************)
EXTENDS EpollServer, EpollClient, FiniteSetTheorems, TLAPS

-----------------------------------------------------------------------------
(* The inductive invariant of the server.                                  *)

\* No two sessions have the same descriptor.
FdsApart == \A s, t \in Live : FdOf(s) = FdOf(t) => s = t

\* An id is in the bucket its hash selects, once.
MapSound == \A b \in DOMAIN clients :
              /\ clients[b] \in Seq(Sid)
              /\ \A i, j \in DOMAIN clients[b] :
                   /\ BucketOf(clients[b][i]) = b
                   /\ clients[b][i] = clients[b][j] => i = j

\* Ids are not used twice.
IdsUsed == /\ sidCur \in Nat /\ backlog \in Nat
           /\ Live \cup InMap \subseteq 1 .. sidCur
           /\ backlog + sidCur <= MaxSid

\* Until the listening socket is freed the map, the epoll set and the sessions
\* name the same connections.
Accounted == stream # "freed" =>
               /\ InMap = Live
               /\ watched = UsedFds \cup IF stream = "open" THEN {ListenFd} ELSE {}

\* EPOLLOUT is asked for exactly while something waits.
OutWhilePending == \A s \in Live : sess[s].out = sess[s].pending

ConnectionsInv == /\ Live \subseteq Sid
                  /\ \A s \in Live : sess[s] \in Session
                  /\ DOMAIN clients = 0 .. Buckets - 1
                  /\ watched \subseteq Fd \cup {ListenFd}
                  /\ FdsApart /\ MapSound /\ IdsUsed /\ Accounted /\ OutWhilePending

\* What the items still to be dispatched stand for.
ItemsFit == \A i \in DOMAIN batch : batch[i].fd # 0 =>
              IF batch[i].ds = ServerDs
              THEN stream = "open" /\ batch[i].fd = ListenFd
              ELSE batch[i].ds \in Live /\ FdOf(batch[i].ds) = batch[i].fd

BatchInv == batch \in Seq(Item) /\ ItemsFit

\* How far the caller has come, what the state says and what there is.
Stages == /\ server \in {"unknown", "ready", "start", "stop", "closed", "uninit"}
          /\ stream \in {"none", "open", "freed"}
          /\ pc \in {"init", "open", "start", "loop", "dispatch", "accept", "ended", "closed", "done"}
          /\ accepts \in 0 .. AcceptMax
          /\ wild \in BOOLEAN
          /\ pc \in {"init", "open"} => server = "unknown"
          /\ pc = "start" => server \in {"unknown", "ready"}
          /\ pc \in {"loop", "accept"} => server = "start"
          /\ pc \in {"dispatch", "ended"} => server \in {"start", "stop", "closed"}
          /\ pc = "closed" => stream = "freed"
          /\ pc = "done" => server \in {"unknown", "uninit"} \/ stream = "none"
          /\ server = "unknown" => stream = "none"
          /\ stream = "none" => server \in {"unknown", "start"} /\ Live = {} /\ pc # "accept"
          /\ server = "ready" => stream = "open"
          /\ server = "start" => stream # "freed"
          /\ server \in {"closed", "uninit"} => stream = "freed"
          /\ batch # <<>> => pc \in {"dispatch", "accept"}

ServerInv == ConnectionsInv /\ BatchInv /\ Stages

\* The loop of ripc_close_server reaches every session when no bucket holds
\* more than one: nothing moves into a hole then.
OnePerBucket == \A b \in DOMAIN clients : Len(clients[b]) <= 1

\* What is left of a server whose listening socket is freed.
NothingLeftOver == stream = "freed" => /\ server \in {"closed", "uninit"}
                                       /\ Live = {} /\ watched = {}

-----------------------------------------------------------------------------
(* The operators of the module.                                            *)

LEMMA ConstantTypes ==
  /\ Buckets \in Nat \ {0} /\ AcceptMax \in Nat \ {0}
  /\ MaxSid \in Nat \ {0} /\ MaxData \in Nat \ {0}
  /\ Fd \subseteq Nat /\ ListenFd \notin Fd /\ ListenFd # 0
<1>1. \A n \in {Buckets, AcceptMax, MaxSid, MaxData} : n \in Nat \ {0}
  BY BoundAssumption
<1>2. Fd \subseteq Nat /\ ListenFd \notin Fd /\ ListenFd # 0
  BY FdAssumption
<1> QED BY <1>1, <1>2

\* rdict_remove in one bucket: the key is gone, the others stay, once each.
LEMMA SlotRemoved ==
  ASSUME NEW S, NEW q \in Seq(S), NEW s \in S,
         \A i, j \in DOMAIN q : q[i] = q[j] => i = j
  PROVE  /\ SlotsWithout(q, s) \in Seq(S)
         /\ ToSet(SlotsWithout(q, s)) = ToSet(q) \ {s}
         /\ \A i, j \in DOMAIN SlotsWithout(q, s) :
              SlotsWithout(q, s)[i] = SlotsWithout(q, s)[j] => i = j
<1>1. CASE s \notin ToSet(q)
  BY <1>1 DEF SlotsWithout, ToSet
<1>2. CASE s \in ToSet(q)
  <2> DEFINE n == Len(q)
             h == CHOOSE i \in DOMAIN q : q[i] = s
             r == [q EXCEPT ![h] = Last(q)]
             w == SlotsWithout(q, s)
  <2>1. n \in Nat /\ DOMAIN q = 1 .. n
    OBVIOUS
  <2>2. h \in 1 .. n /\ q[h] = s
    BY <1>2, <2>1 DEF ToSet
  <2> HIDE DEF n, h
  <2>3. r \in Seq(S) /\ Len(r) = n /\ DOMAIN r = 1 .. n
        /\ \A i \in 1 .. n : r[i] = IF i = h THEN q[n] ELSE q[i]
    BY <2>1, <2>2 DEF Last, n
  <2>4. w = Front(r)
    BY <1>2 DEF SlotsWithout, h
  <2> HIDE DEF r
  <2>5. w = SubSeq(r, 1, n - 1)
    BY <2>3, <2>4 DEF Front
  <2> HIDE DEF w
  <2>6. w \in Seq(S) /\ DOMAIN w = 1 .. n - 1 /\ \A i \in 1 .. n - 1 : w[i] = r[i]
    BY <2>1, <2>2, <2>3, <2>5
  <2>7. ToSet(w) = ToSet(q) \ {s}
    <3>1. ASSUME NEW x \in ToSet(w) PROVE x \in ToSet(q) \ {s}
      BY <2>1, <2>2, <2>3, <2>6 DEF ToSet
    <3>2. ASSUME NEW x \in ToSet(q) \ {s} PROVE x \in ToSet(w)
      <4>1. PICK i \in 1 .. n : q[i] = x /\ i # h
        BY <2>1, <2>2 DEF ToSet
      <4>2. CASE i = n
        BY <4>1, <4>2, <2>1, <2>2, <2>3, <2>6 DEF ToSet
      <4>3. CASE i # n
        BY <4>1, <4>3, <2>1, <2>2, <2>3, <2>6 DEF ToSet
      <4> QED BY <4>2, <4>3
    <3> QED BY <3>1, <3>2
  <2>8. \A i, j \in DOMAIN w : w[i] = w[j] => i = j
    BY <2>1, <2>2, <2>3, <2>6
  <2> QED BY <2>6, <2>7, <2>8 DEF w
<1> QED BY <1>1, <1>2

\* repoll_remove: the items of the descriptors are cleared, the others stay.
LEMMA ItemsZeroed ==
  ASSUME NEW b \in Seq(Item), NEW fds
  PROVE  /\ Zeroed(b, fds) \in Seq(Item)
         /\ DOMAIN Zeroed(b, fds) = DOMAIN b
         /\ \A i \in DOMAIN b : b[i].fd \in fds => Zeroed(b, fds)[i].fd = 0
         /\ \A i \in DOMAIN b : b[i].fd \notin fds => Zeroed(b, fds)[i] = b[i]
<1>1. ASSUME NEW i \in DOMAIN b
      PROVE  [b[i] EXCEPT !.fd = 0] \in Item /\ [b[i] EXCEPT !.fd = 0].fd = 0
  <2>1. b[i] \in Item
    OBVIOUS
  <2> QED BY <2>1 DEF Item
<1> QED BY <1>1 DEF Zeroed

\* rdict_remove in the map.
LEMMA MapRemoved ==
  ASSUME ConnectionsInv, NEW s \in Sid, clients' = MapWithout(s), UNCHANGED <<sidCur, backlog>>,
         Live' \subseteq Live
  PROVE  MapSound' /\ InMap' = InMap \ {s} /\ DOMAIN clients' = DOMAIN clients /\ IdsUsed'
<1>1. BucketOf(s) \in DOMAIN clients
  BY ConstantTypes DEF ConnectionsInv, BucketOf, Sid
<1>2. DOMAIN clients' = DOMAIN clients
      /\ clients'[BucketOf(s)] = SlotsWithout(clients[BucketOf(s)], s)
      /\ \A b \in DOMAIN clients : b # BucketOf(s) => clients'[b] = clients[b]
  BY <1>1 DEF MapWithout
<1>3. ASSUME NEW b \in DOMAIN clients
      PROVE  /\ clients'[b] \in Seq(Sid)
             /\ ToSet(clients'[b]) = ToSet(clients[b]) \ {s}
             /\ \A i, j \in DOMAIN clients'[b] : clients'[b][i] = clients'[b][j] => i = j
  <2>1. clients[b] \in Seq(Sid) /\ \A i, j \in DOMAIN clients[b] :
           clients[b][i] = clients[b][j] => i = j
    BY DEF ConnectionsInv, MapSound
  <2>2. CASE b = BucketOf(s)
    BY <1>2, <2>1, <2>2, SlotRemoved
  <2>3. CASE b # BucketOf(s)
    <3>1. s \notin ToSet(clients[b])
      BY <2>3 DEF ToSet, ConnectionsInv, MapSound
    <3> QED BY <1>2, <2>1, <2>3, <3>1
  <2> QED BY <2>2, <2>3
<1>4. MapSound'
  <2> SUFFICES ASSUME NEW b \in DOMAIN clients, NEW i \in DOMAIN clients'[b]
               PROVE  BucketOf(clients'[b][i]) = b
    BY <1>2, <1>3 DEF MapSound, BucketOf, Sid
  <2>1. clients'[b][i] \in ToSet(clients'[b])
    BY DEF ToSet
  <2>2. clients'[b][i] \in ToSet(clients[b])
    BY <2>1, <1>3
  <2> QED BY <2>2 DEF ToSet, ConnectionsInv, MapSound
<1>5. InMap' = InMap \ {s}
  BY <1>2, <1>3 DEF InMap
<1> QED BY <1>2, <1>4, <1>5 DEF ConnectionsInv, IdsUsed

\* A poll reports what is watched (repoll_poll).
LEMMA Polled ==
  ASSUME ConnectionsInv, NEW b \in Batches
  PROVE  /\ b \in Seq(Item)
         /\ \A i \in DOMAIN b :
              \/ b[i].ds = ServerDs /\ b[i].fd = ListenFd /\ ListenFd \in watched
              \/ b[i].ds \in Live /\ b[i].fd = FdOf(b[i].ds)
<1> DEFINE W == {s \in Live : FdOf(s) \in watched}
           X == Items \cup UNION {SessionItems(s) : s \in W}
<1>1. PICK f \in [W \cup {ServerDs} -> X] :
        b \in SetToSeqs({f[x] : x \in {y \in DOMAIN f : f[y].ev # {}}})
  BY DEF Batches
<1> DEFINE D == {y \in DOMAIN f : f[y].ev # {}}
           Y == {f[x] : x \in D}
<1>2. Cardinality(Y) \in Nat
  <2>1. IsFiniteSet(0 .. MaxSid)
    BY FS_Interval, ConstantTypes
  <2>2. D \subseteq 0 .. MaxSid
    <3>1. DOMAIN f = W \cup {0}
      BY DEF ServerDs
    <3>2. Live \subseteq 1 .. MaxSid
      BY DEF ConnectionsInv, Sid
    <3>3. \A y \in Live \cup {0} : y \in 0 .. MaxSid
      BY <3>2, ConstantTypes
    <3>4. D \subseteq Live \cup {0}
      BY <3>1
    <3> QED BY <3>3, <3>4
  <2>3. IsFiniteSet(D)
    BY <2>1, <2>2, FS_Subset
  <2> HIDE DEF D
  <2>4. [x \in D |-> f[x]] \in Surjection(D, Y)
    BY DEF Surjection
  <2>5. IsFiniteSet(Y)
    BY <2>3, <2>4, FS_Surjection
  <2> QED BY <2>5, FS_CardinalityType
<1>3. b \in [1 .. Cardinality(Y) -> X]
  BY <1>1 DEF SetToSeqs
<1>4. X \subseteq Item
  <2>1. Items \subseteq Item
    BY DEF Items, Item, ServerEvents, ServerDs
  <2>2. ASSUME NEW s \in W PROVE SessionItems(s) \subseteq Item
    BY DEF SessionItems, SessionEvents, Item, ConnectionsInv, Session, FdOf
  <2> QED BY <2>1, <2>2
<1>5. b \in Seq(Item)
  <2> HIDE DEF X, Y
  <2> QED BY <1>2, <1>3, <1>4
<1>6. ASSUME NEW i \in DOMAIN b
      PROVE  \/ b[i].ds = ServerDs /\ b[i].fd = ListenFd /\ ListenFd \in watched
             \/ b[i].ds \in Live /\ b[i].fd = FdOf(b[i].ds)
  <2>1. b[i] \in X
    BY <1>3
  <2> QED BY <2>1 DEF Items, SessionItems
<1> QED BY <1>5, <1>6

-----------------------------------------------------------------------------
(* What the steps do to the connections and to the batch.                  *)

\* Sessions change, none comes or goes.
LEMMA SessionsChange ==
  ASSUME ConnectionsInv, Live' = Live,
         \A s \in Live : /\ sess'[s] \in Session
                         /\ sess'[s].fd = sess[s].fd
                         /\ sess'[s].out = sess'[s].pending,
         backlog' \in Nat, backlog' + sidCur <= MaxSid,
         UNCHANGED <<stream, sidCur, clients, watched>>
  PROVE  ConnectionsInv'
<1>1. \A s \in Live : FdOf(s)' = FdOf(s)
  BY DEF FdOf
<1>2. UsedFds' = UsedFds
  BY <1>1 DEF UsedFds
<1>3. InMap' = InMap
  BY DEF InMap
<1>4. FdsApart'
  BY <1>1 DEF ConnectionsInv, FdsApart
<1>5. OutWhilePending'
  BY DEF OutWhilePending
<1>6. Accounted' /\ IdsUsed'
  BY <1>2, <1>3 DEF ConnectionsInv, Accounted, IdsUsed
<1>7. MapSound'
  BY DEF ConnectionsInv, MapSound
<1> QED BY <1>4, <1>5, <1>6, <1>7 DEF ConnectionsInv

LEMMA SameConnections ==
  ASSUME ConnectionsInv, UNCHANGED <<stream, connections, backlog>>
  PROVE  ConnectionsInv'
<1>1. Live' = Live /\ sess' = sess /\ UNCHANGED <<stream, sidCur, clients, watched, backlog>>
  BY DEF connections, Live
<1>2. /\ \A s \in Live : sess[s] \in Session /\ sess[s].out = sess[s].pending
      /\ backlog \in Nat /\ backlog + sidCur <= MaxSid
  BY DEF ConnectionsInv, OutWhilePending, IdsUsed
<1> QED BY <1>1, <1>2, SessionsChange

\* Items are taken from the batch or changed, none is added.
LEMMA BatchStays ==
  ASSUME BatchInv, batch' \in Seq(Item), stream' = stream,
         \A i \in DOMAIN batch' : \E j \in DOMAIN batch :
           batch'[i].fd = batch[j].fd /\ batch'[i].ds = batch[j].ds,
         \A s \in Live : s \in Live' /\ FdOf(s)' = FdOf(s)
  PROVE  BatchInv'
BY DEF BatchInv, ItemsFit

LEMMA TailOfBatch ==
  ASSUME BatchInv, batch # <<>>
  PROVE  /\ Tail(batch) \in Seq(Item)
         /\ \A i \in DOMAIN Tail(batch) : i + 1 \in DOMAIN batch /\ Tail(batch)[i] = batch[i + 1]
         /\ 1 \in DOMAIN batch /\ Current \in Item
BY DEF BatchInv, Current

LEMMA DoneOfBatch ==
  ASSUME BatchInv, batch # <<>>, NEW ev
  PROVE  /\ Done(ev) \in Seq(Item)
         /\ \A i \in DOMAIN Done(ev) : \E j \in DOMAIN batch :
              Done(ev)[i].fd = batch[j].fd /\ Done(ev)[i].ds = batch[j].ds
<1> DEFINE x == [Current EXCEPT !.ev = @ \ ev]
           t == Tail(batch)
<1>1. x \in Item /\ x.fd = batch[1].fd /\ x.ds = batch[1].ds
  BY TailOfBatch DEF Item, Current
<1>2. t \in Seq(Item) /\ 1 \in DOMAIN batch
      /\ \A i \in DOMAIN t : i + 1 \in DOMAIN batch /\ t[i] = batch[i + 1]
  BY TailOfBatch
<1> HIDE DEF x, t
<1>3. /\ <<x>> \o t \in Seq(Item) /\ DOMAIN (<<x>> \o t) = 1 .. 1 + Len(t)
      /\ (<<x>> \o t)[1] = x
      /\ \A i \in 1 .. Len(t) : (<<x>> \o t)[i + 1] = t[i]
  BY <1>1, <1>2
<1>4. Done(ev) = <<x>> \o t
  BY DEF Done, x, t
<1>5. ASSUME NEW i \in 1 .. 1 + Len(t)
      PROVE  \E j \in DOMAIN batch :
               (<<x>> \o t)[i].fd = batch[j].fd /\ (<<x>> \o t)[i].ds = batch[j].ds
  <2>1. CASE i = 1
    BY <2>1, <1>1, <1>2, <1>3
  <2>2. CASE i # 1
    <3>1. i - 1 \in 1 .. Len(t) /\ i - 1 \in DOMAIN t /\ Len(t) \in Nat
      BY <2>2, <1>2
    <3>2. (<<x>> \o t)[(i - 1) + 1] = t[i - 1] /\ (i - 1) + 1 = i
      BY <3>1, <1>3
    <3> QED BY <3>1, <3>2, <1>2
  <2> QED BY <2>1, <2>2
<1> QED BY <1>3, <1>4, <1>5

\* close_session: what the map forgets the epoll set, the sessions and the
\* batch forget, and nothing else.
LEMMA SessionCloses ==
  ASSUME ConnectionsInv, BatchInv, batch # <<>>, NEW s \in Live,
         CloseSession(s, Tail(batch)), UNCHANGED <<stream, sidCur, backlog>>
  PROVE  ConnectionsInv' /\ BatchInv' /\ Live' = Live \ {s}
<1>1. Live' = Live \ {s} /\ \A t \in Live' : sess'[t] = sess[t]
  BY DEF CloseSession, SessWithout, Live
<1>2. s \in Sid /\ clients' = MapWithout(s)
  BY DEF CloseSession, ConnectionsInv
<1>3. MapSound' /\ InMap' = InMap \ {s} /\ DOMAIN clients' = DOMAIN clients /\ IdsUsed'
  BY <1>1, <1>2, MapRemoved
<1>4. \A t \in Live' : FdOf(t)' = FdOf(t) /\ FdOf(t) # FdOf(s) /\ FdOf(t) \in Fd
  BY <1>1 DEF FdOf, ConnectionsInv, FdsApart, Session
<1>5. FdOf(s) \in Fd /\ FdOf(s) # ListenFd
  BY ConstantTypes DEF FdOf, ConnectionsInv, Session
<1>6. watched' = watched \ {FdOf(s)} /\ batch' = Zeroed(Tail(batch), {FdOf(s)})
  BY DEF CloseSession
<1>7. UsedFds' = UsedFds \ {FdOf(s)}
  BY <1>1, <1>4 DEF UsedFds
<1>8. Accounted'
  BY <1>1, <1>3, <1>5, <1>6, <1>7 DEF Accounted, ConnectionsInv
<1>9. FdsApart'
  BY <1>1, <1>4 DEF FdsApart, ConnectionsInv
<1>10. OutWhilePending'
  BY <1>1 DEF OutWhilePending, ConnectionsInv
<1>11. ConnectionsInv'
  BY <1>1, <1>3, <1>6, <1>8, <1>9, <1>10 DEF ConnectionsInv
<1> DEFINE t == Tail(batch)
<1>12. t \in Seq(Item) /\ \A i \in DOMAIN t : i + 1 \in DOMAIN batch /\ t[i] = batch[i + 1]
  BY TailOfBatch
<1> DEFINE fds == {FdOf(s)}
<1>16. batch' = Zeroed(t, fds) /\ \A x : x \in fds <=> x = FdOf(s)
  BY <1>6
<1> HIDE DEF t, fds
<1>13. /\ batch' \in Seq(Item) /\ DOMAIN batch' = DOMAIN t
       /\ \A i \in DOMAIN t : t[i].fd \in fds => batch'[i].fd = 0
       /\ \A i \in DOMAIN t : t[i].fd \notin fds => batch'[i] = t[i]
  BY <1>16, <1>12, ItemsZeroed
<1>14. ASSUME NEW i \in DOMAIN batch', batch'[i].fd # 0
       PROVE  IF batch'[i].ds = ServerDs
              THEN stream' = "open" /\ batch'[i].fd = ListenFd
              ELSE batch'[i].ds \in Live' /\ sess'[batch'[i].ds].fd = batch'[i].fd
  <2>1. i + 1 \in DOMAIN batch /\ batch'[i] = batch[i + 1] /\ batch[i + 1].fd # FdOf(s)
    BY <1>16, <1>12, <1>13, <1>14
  <2>2. IF batch'[i].ds = ServerDs
        THEN stream = "open" /\ batch'[i].fd = ListenFd
        ELSE batch'[i].ds \in Live /\ FdOf(batch'[i].ds) = batch'[i].fd
    BY <2>1, <1>14 DEF BatchInv, ItemsFit
  <2> QED BY <2>1, <2>2, <1>1 DEF FdOf
<1>15. BatchInv'
  BY <1>13, <1>14 DEF BatchInv, ItemsFit, ServerDs, FdOf
<1> QED BY <1>1, <1>11, <1>15

LEMMA MapEmptied ==
  ASSUME clients' = EmptyMap
  PROVE  /\ DOMAIN clients' = 0 .. Buckets - 1 /\ MapSound' /\ InMap' = {}
<1>1. DOMAIN EmptyMap = 0 .. Buckets - 1 /\ \A b \in DOMAIN EmptyMap : EmptyMap[b] = <<>>
  BY DEF EmptyMap
<1>2. InMap' = {}
  BY <1>1 DEF InMap, ToSet
<1>3. ASSUME NEW q, q = <<>>
      PROVE  q \in Seq(Sid) /\ DOMAIN q = {}
  BY <1>3
<1>4. MapSound'
  BY <1>1, <1>3 DEF MapSound
<1> QED BY <1>1, <1>2, <1>4

\* ripc_close_server, with what is left of the batch.
LEMMA ServerCloses ==
  ASSUME ConnectionsInv, BatchInv, NEW b,
         b = <<>> \/ (batch # <<>> /\ b = Tail(batch)),
         CloseServer(b), UNCHANGED <<sidCur, backlog>>
  PROVE  ConnectionsInv' /\ BatchInv' /\ Live' = Live \ Reached
<1>1. Live' = Live \ Reached /\ \A t \in Live' : sess'[t] = sess[t]
  BY DEF CloseServer, SessWithout, Live
<1>2. DOMAIN clients' = 0 .. Buckets - 1 /\ MapSound' /\ InMap' = {}
  BY MapEmptied DEF CloseServer
<1>3. \A t \in Live' : FdOf(t)' = FdOf(t) /\ FdOf(t) \in Fd
                       /\ \A r \in Reached \cap Live : FdOf(t) # FdOf(r)
  BY <1>1 DEF FdOf, ConnectionsInv, FdsApart, Session
<1> DEFINE fds == {ListenFd} \cup {FdOf(r) : r \in Reached \cap Live}
<1>4. watched' = watched \ fds /\ batch' = Zeroed(b, fds) /\ stream' = "freed"
  BY DEF CloseServer
<1>5. \A t \in Live' : FdOf(t) \notin fds
  BY <1>3, ConstantTypes
<1>6. ConnectionsInv'
  <2>1. IdsUsed' /\ Accounted'
    BY <1>1, <1>2, <1>4 DEF ConnectionsInv, IdsUsed, Accounted
  <2>2. FdsApart' /\ OutWhilePending'
    BY <1>1, <1>3 DEF ConnectionsInv, FdsApart, OutWhilePending
  <2> QED BY <1>1, <1>2, <1>4, <2>1, <2>2 DEF ConnectionsInv
<1>7. b \in Seq(Item) /\ \A i \in DOMAIN b : \E j \in DOMAIN batch : b[i] = batch[j]
  <2>1. CASE b = <<>>
    BY <2>1
  <2>2. CASE b # <<>>
    BY <2>2, TailOfBatch
  <2> QED BY <2>1, <2>2
<1> HIDE DEF fds
<1>8. /\ batch' \in Seq(Item) /\ DOMAIN batch' = DOMAIN b
      /\ \A i \in DOMAIN b : b[i].fd \in fds => batch'[i].fd = 0
      /\ \A i \in DOMAIN b : b[i].fd \notin fds => batch'[i] = b[i]
  BY <1>4, <1>7, ItemsZeroed
<1>9. ASSUME NEW i \in DOMAIN batch', batch'[i].fd # 0
      PROVE  batch'[i].ds # ServerDs /\ batch'[i].ds \in Live'
             /\ sess'[batch'[i].ds].fd = batch'[i].fd
  <2>1. PICK j \in DOMAIN batch : batch'[i] = batch[j]
    BY <1>7, <1>8, <1>9
  <2>2. batch'[i].fd \notin fds
    BY <1>8, <1>9
  <2>3. batch'[i].ds # ServerDs /\ batch'[i].ds \in Live /\ FdOf(batch'[i].ds) = batch'[i].fd
    BY <2>1, <2>2, <1>9 DEF BatchInv, ItemsFit, fds
  <2>4. batch'[i].ds \notin Reached
    BY <2>2, <2>3 DEF fds
  <2> QED BY <2>3, <2>4, <1>1 DEF FdOf
<1>10. BatchInv'
  BY <1>8, <1>9 DEF BatchInv, ItemsFit, ServerDs, FdOf
<1> QED BY <1>1, <1>6, <1>10

-----------------------------------------------------------------------------
(* The invariant holds, step by step.                                      *)

LEMMA ServerInit == Init => ServerInv
<1> SUFFICES ASSUME Init PROVE ServerInv
  OBVIOUS
<1>1. Live = {} /\ batch = <<>> /\ clients = EmptyMap /\ watched = {} /\ sidCur = 0 /\ backlog = 0
  BY DEF Init, Live
<1>2. InMap = {} /\ MapSound /\ DOMAIN clients = 0 .. Buckets - 1
  <2>1. DOMAIN EmptyMap = 0 .. Buckets - 1 /\ \A b \in DOMAIN EmptyMap : EmptyMap[b] = <<>>
    BY DEF EmptyMap
  <2>2. ASSUME NEW q, q = <<>>
        PROVE  q \in Seq(Sid) /\ DOMAIN q = {} /\ ToSet(q) = {}
    BY <2>2 DEF ToSet
  <2> QED BY <1>1, <2>1, <2>2 DEF InMap, MapSound
<1>3. ConnectionsInv
  BY <1>1, <1>2, ConstantTypes
     DEF Init, ConnectionsInv, FdsApart, IdsUsed, Accounted, OutWhilePending, UsedFds, Sid
<1>4. BatchInv
  <2>1. \A q : q = <<>> => q \in Seq(Item) /\ DOMAIN q = {}
    OBVIOUS
  <2> QED BY <1>1, <2>1 DEF BatchInv, ItemsFit
<1>5. Stages
  <2>1. accepts \in 0 .. AcceptMax
    BY ConstantTypes DEF Init
  <2> QED BY <1>1, <2>1 DEF Init, Stages
<1> QED BY <1>3, <1>4, <1>5 DEF ServerInv

\* An item is taken from the batch.
LEMMA ItemDone ==
  ASSUME BatchInv, batch # <<>>, UNCHANGED stream,
         batch' = Tail(batch) \/ (\E ev : batch' = Done(ev)),
         \A s \in Live : s \in Live' /\ sess'[s].fd = sess[s].fd
  PROVE  BatchInv'
<1>1. \A s \in Live : s \in Live' /\ FdOf(s)' = FdOf(s)
  BY DEF FdOf
<1>2. CASE batch' = Tail(batch)
  BY <1>1, <1>2, TailOfBatch, BatchStays
<1>3. CASE \E ev : batch' = Done(ev)
  BY <1>1, <1>3, DoneOfBatch, BatchStays
<1> QED BY <1>2, <1>3

LEMMA SameBatch ==
  ASSUME BatchInv, UNCHANGED <<batch, stream>>,
         \A s \in Live : s \in Live' /\ sess'[s].fd = sess[s].fd
  PROVE  BatchInv'
<1>1. \A s \in Live : s \in Live' /\ FdOf(s)' = FdOf(s)
  BY DEF FdOf
<1>2. batch' \in Seq(Item) /\ \A i \in DOMAIN batch' : i \in DOMAIN batch /\ batch'[i] = batch[i]
  BY DEF BatchInv
<1> QED BY <1>1, <1>2, BatchStays

\* ripc_accept_server: a new id, a free descriptor, a slot of its bucket.
LEMMA Accepting ==
  ASSUME ServerInv, NEW f \in Fd, Accept(f)
  PROVE  ServerInv'
<1> DEFINE n == NextSid
           b == BucketOf(n)
<1>1. /\ sidCur \in Nat /\ backlog \in Nat \ {0} /\ sidCur' = n /\ backlog' = backlog - 1
      /\ n = sidCur + 1 /\ n \in Nat /\ n + backlog' = sidCur + backlog
      /\ n \in Sid
  BY ConstantTypes DEF Accept, Accepted, NextSid, ServerInv, ConnectionsInv, IdsUsed, Sid
<1>2. n \notin Live /\ n \notin InMap
  BY <1>1 DEF ServerInv, ConnectionsInv, IdsUsed
<1>3. b \in DOMAIN clients
  BY <1>1, ConstantTypes DEF BucketOf, ServerInv, ConnectionsInv, Sid
<1>4. /\ Live' = Live \cup {n} /\ sess'[n] = NewSession(f)
      /\ \A s \in Live : sess'[s] = sess[s]
  <2> HIDE DEF n
  <2> QED BY <1>2 DEF Accept, Live, n
<1>5. NewSession(f) \in Session /\ NewSession(f).fd = f
      /\ NewSession(f).out = FALSE /\ NewSession(f).pending = FALSE
  BY ConstantTypes DEF NewSession, Session
<1>6. f \notin UsedFds /\ watched' = watched \cup {f} /\ UNCHANGED <<server, stream, batch>>
  BY DEF Accept, Accepted
<1>7. clients' = [clients EXCEPT ![b] = Append(clients[b], n)]
  BY DEF Accept
<1> HIDE DEF n, b
<1>8. ASSUME NEW c \in DOMAIN clients
      PROVE  /\ clients'[c] \in Seq(Sid)
             /\ ToSet(clients'[c]) = ToSet(clients[c]) \cup IF c = b THEN {n} ELSE {}
             /\ \A i, j \in DOMAIN clients'[c] :
                  /\ BucketOf(clients'[c][i]) = c
                  /\ clients'[c][i] = clients'[c][j] => i = j
  <2>1. clients[c] \in Seq(Sid) /\ \A i, j \in DOMAIN clients[c] :
          BucketOf(clients[c][i]) = c /\ (clients[c][i] = clients[c][j] => i = j)
    BY DEF ServerInv, ConnectionsInv, MapSound
  <2>2. CASE c # b
    BY <2>1, <2>2, <1>3, <1>7
  <2>3. CASE c = b
    <3> DEFINE q == clients[c]
               r == Append(q, n)
    <3>1. clients'[c] = r
      BY <2>3, <1>3, <1>7
    <3>2. \A i \in DOMAIN q : q[i] # n
      BY <1>2 DEF InMap, ToSet
    <3>3. q \in Seq(Sid) /\ n \in Sid
      BY <2>1, <1>1
    <3> HIDE DEF q
    <3>4. r \in Seq(Sid) /\ DOMAIN r = DOMAIN q \cup {Len(q) + 1} /\ r[Len(q) + 1] = n
          /\ Len(q) + 1 \notin DOMAIN q /\ \A i \in DOMAIN q : r[i] = q[i]
      BY <3>3
    <3> HIDE DEF r
    <3>5. ToSet(r) = ToSet(q) \cup {n}
      BY <3>4 DEF ToSet
    <3>6. \A i, j \in DOMAIN r : BucketOf(r[i]) = c /\ (r[i] = r[j] => i = j)
      BY <3>2, <3>4, <2>1, <2>3 DEF q, b
    <3> QED BY <3>1, <3>4, <3>5, <3>6, <2>3 DEF q
  <2> QED BY <2>2, <2>3
<1>9. DOMAIN clients' = DOMAIN clients /\ MapSound'
  BY <1>7, <1>8 DEF MapSound, BucketOf
<1>10. InMap' = InMap \cup {n}
  BY <1>3, <1>8, <1>9 DEF InMap
<1>11. IdsUsed'
  BY <1>1, <1>4, <1>10 DEF IdsUsed, ServerInv, ConnectionsInv
<1>12. \A s \in Live' : FdOf(s)' = IF s = n THEN f ELSE FdOf(s)
  BY <1>2, <1>4, <1>5 DEF FdOf
<1>13. UsedFds' = UsedFds \cup {f}
  BY <1>2, <1>4, <1>12 DEF UsedFds
<1>14. FdsApart'
  BY <1>2, <1>4, <1>6, <1>12 DEF FdsApart, UsedFds, ServerInv, ConnectionsInv
<1>15. Accounted'
  BY <1>4, <1>6, <1>10, <1>13 DEF Accounted, ServerInv, ConnectionsInv
<1>16. OutWhilePending'
  BY <1>4, <1>5 DEF OutWhilePending, ServerInv, ConnectionsInv
<1>17. ConnectionsInv'
  BY <1>1, <1>4, <1>5, <1>6, <1>9, <1>11, <1>14, <1>15, <1>16 DEF ServerInv, ConnectionsInv
<1>18. BatchInv'
  BY <1>4, <1>6, SameBatch DEF ServerInv
<1>19. Stages'
  BY <1>6, ConstantTypes DEF Accept, Accepted, AcceptAgain, StopAccepting, ServerInv, Stages
<1> QED BY <1>17, <1>18, <1>19 DEF ServerInv

LEMMA ServerStep == ServerInv /\ [Next]_vars => ServerInv'
<1> SUFFICES ASSUME ServerInv, [Next]_vars PROVE ServerInv'
  OBVIOUS
<1>1. ConnectionsInv /\ BatchInv /\ Stages
  BY DEF ServerInv
<1>2. \A s \in Live : sess[s] \in Session /\ sess[s].out = sess[s].pending
  BY <1>1 DEF ConnectionsInv, OutWhilePending
<1>3. backlog \in Nat /\ sidCur \in Nat /\ backlog + sidCur <= MaxSid
  BY <1>1 DEF ConnectionsInv, IdsUsed
<1> DEFINE Same == UNCHANGED <<stream, connections, backlog>>
           Gone == batch # <<>> /\ (batch' = Tail(batch) \/ \E ev : batch' = Done(ev))
<1>4. ASSUME Same, Stages', Gone \/ UNCHANGED batch
      PROVE  ServerInv'
  <2>1. Live' = Live /\ sess' = sess /\ stream' = stream
    BY <1>4 DEF connections, Live
  <2>2. ConnectionsInv'
    BY <1>1, <1>4, SameConnections
  <2>3. BatchInv'
    BY <1>1, <1>4, <2>1, ItemDone, SameBatch
  <2> QED BY <1>4, <2>2, <2>3 DEF ServerInv
<1>5. ASSUME Stages', Live' = Live, Gone \/ UNCHANGED batch,
             UNCHANGED <<stream, sidCur, clients, watched>>,
             \A s \in Live : /\ sess'[s] \in Session
                             /\ sess'[s].fd = sess[s].fd
                             /\ sess'[s].out = sess'[s].pending,
             backlog' \in Nat, backlog' + sidCur <= MaxSid
      PROVE  ServerInv'
  <2>1. ConnectionsInv'
    BY <1>1, <1>5, SessionsChange
  <2>2. BatchInv'
    BY <1>1, <1>5, ItemDone, SameBatch
  <2> QED BY <1>5, <2>1, <2>2 DEF ServerInv
<1>6. CASE UNCHANGED vars
  <2>1. Stages'
    BY <1>1, <1>6 DEF vars, connections, Stages, Live
  <2> QED BY <1>6, <2>1, <1>4 DEF vars, connections
<1>7. CASE InitServer
  <2>1. Stages'
    BY <1>1, <1>7 DEF InitServer, Stages, Live
  <2>2. Live = {} /\ UNCHANGED <<stream, sess, sidCur, watched, batch, backlog>>
    BY <1>1, <1>7 DEF InitServer, Stages
  <2>3. Live' = {} /\ UsedFds' = {} /\ UsedFds = {}
    BY <2>2 DEF Live, UsedFds
  <2>4. DOMAIN clients' = 0 .. Buckets - 1 /\ MapSound' /\ InMap' = {}
    BY <1>7, MapEmptied DEF InitServer
  <2>5. ConnectionsInv'
    BY <1>1, <2>2, <2>3, <2>4
       DEF ConnectionsInv, FdsApart, IdsUsed, Accounted, OutWhilePending
  <2>6. BatchInv'
    BY <1>1, <2>2, SameBatch
  <2> QED BY <2>1, <2>5, <2>6 DEF ServerInv
<1>8. CASE Open
  <2>1. Stages'
    BY <1>1, <1>8 DEF Open, Stages, Live
  <2>2. UNCHANGED <<sess, clients, sidCur, backlog, batch>> /\ watched' = watched \cup {ListenFd}
        /\ stream' = "open" /\ stream = "none" /\ batch = <<>>
    BY <1>1, <1>8 DEF Open, Stages
  <2>3. Live' = Live /\ UsedFds' = UsedFds /\ InMap' = InMap
    BY <2>2 DEF Live, UsedFds, FdOf, InMap
  <2>4. ConnectionsInv'
    BY <1>1, <2>2, <2>3
       DEF ConnectionsInv, FdsApart, FdOf, IdsUsed, Accounted, OutWhilePending, MapSound
  <2>5. batch' \in Seq(Item) /\ DOMAIN batch' = {}
    BY <2>2
  <2>6. BatchInv'
    BY <2>5 DEF BatchInv, ItemsFit
  <2> QED BY <2>1, <2>4, <2>6 DEF ServerInv
<1>9. CASE OpenUnset \/ OpenFails \/ StartServer \/ PollFails \/ EndOfBatch \/ AcceptNothing
  <2>1. Same /\ UNCHANGED batch
    BY <1>9 DEF OpenUnset, OpenFails, StartServer, PollFails, EndOfBatch, AcceptNothing, connections
  <2>2. Stages'
    BY <1>1, <1>9, ConstantTypes
       DEF OpenUnset, OpenFails, StartServer, PollFails, EndOfBatch, AcceptNothing, StopAccepting,
           connections, Stages, Live
  <2> QED BY <2>1, <2>2, <1>4
<1>10. CASE Poll
  <2>1. Stages'
    BY <1>1, <1>10 DEF Poll, connections, Stages, Live
  <2>2. Same /\ Live' = Live /\ sess' = sess /\ stream' = stream
    BY <1>10 DEF Poll, connections, Live
  <2>3. ConnectionsInv'
    BY <1>1, <2>2, SameConnections
  <2>4. 0 \notin Live
    BY <1>1 DEF ConnectionsInv, Sid
  <2>5. /\ batch' \in Seq(Item)
        /\ \A i \in DOMAIN batch' :
             \/ batch'[i].ds = ServerDs /\ batch'[i].fd = ListenFd /\ ListenFd \in watched
             \/ batch'[i].ds \in Live /\ batch'[i].fd = FdOf(batch'[i].ds)
    BY <1>1, <1>10, Polled DEF Poll
  <2>7. ListenFd \in watched => stream = "open"
    <3>1. stream \in {"none", "open"} /\ (stream = "none" => Live = {})
      BY <1>1, <1>10 DEF Poll, Stages
    <3>2. stream = "none" => watched = {}
      BY <1>1, <3>1 DEF ConnectionsInv, Accounted, UsedFds
    <3> QED BY <3>1, <3>2
  <2>6. BatchInv'
    BY <2>2, <2>4, <2>5, <2>7 DEF BatchInv, ItemsFit, FdOf, ServerDs
  <2> QED BY <2>1, <2>3, <2>6 DEF ServerInv
<1>11. CASE SkipItem \/ NothingLeft \/ ServerReady
  <2>1. Same /\ Gone
    BY <1>11 DEF SkipItem, NothingLeft, ServerReady, AtItem, Dispatching, connections
  <2>3. ServerReady => stream = "open"
    <3>1. ServerReady => 1 \in DOMAIN batch /\ batch[1].fd # 0 /\ batch[1].ds = ServerDs
      BY <1>1, TailOfBatch DEF ServerReady, AtItem, Dispatching, Current, BatchInv
    <3> QED BY <1>1, <3>1 DEF BatchInv, ItemsFit
  <2>2. Stages'
    BY <1>1, <1>11, <2>1, <2>3, ConstantTypes
       DEF SkipItem, NothingLeft, ServerReady, AtItem, Dispatching, connections, Stages, Live
  <2> QED BY <2>1, <2>2, <1>4
<1>12. CASE ServerError \/ CloseAtEnd
  <2>1. CASE stream = "freed" /\ CloseAtEnd
    <3>1. Stages'
      BY <1>1, <2>1 DEF CloseAtEnd, connections, Stages, Live
    <3> QED BY <2>1, <3>1, <1>4 DEF CloseAtEnd, connections
  <2>2. CASE ~(stream = "freed" /\ CloseAtEnd)
    <3>1. PICK b : /\ b = <<>> \/ (batch # <<>> /\ b = Tail(batch))
                   /\ CloseServer(b) /\ UNCHANGED <<sidCur, backlog>>
      BY <1>12, <2>2 DEF ServerError, CloseAtEnd, AtItem, Dispatching
    <3>2. ConnectionsInv' /\ BatchInv'
      BY <1>1, <3>1, ServerCloses
    <3>3. server' = "closed" /\ stream' = "freed" /\ UNCHANGED accepts /\ wild' \in BOOLEAN
      BY <1>1, <1>12, <2>2, <3>1 DEF ServerError, CloseAtEnd, CloseServer, Stages
    <3>4. CASE ServerError
      <4>1. pc = "dispatch" /\ pc' = "dispatch"
        BY <3>4 DEF ServerError, AtItem, Dispatching
      <4> QED BY <1>1, <3>2, <3>3, <4>1 DEF Stages, ServerInv
    <3>5. CASE CloseAtEnd
      <4>1. batch' = <<>> /\ pc' = "closed"
        <5>1. CloseServer(<<>>)
          BY <2>2, <3>5 DEF CloseAtEnd
        <5>2. \A b1, f : b1 = <<>> => Zeroed(b1, f) = <<>>
          BY DEF Zeroed
        <5> QED BY <3>5, <5>1, <5>2 DEF CloseServer, CloseAtEnd
      <4> QED BY <1>1, <3>2, <3>3, <4>1 DEF Stages, ServerInv
    <3> QED BY <1>12, <3>4, <3>5
  <2> QED BY <2>1, <2>2
<1>22. CASE CloseNoStream
  <2>1. Stages'
    BY <1>1, <1>22 DEF CloseNoStream, connections, Stages, Live
  <2> QED BY <1>22, <2>1, <1>4 DEF CloseNoStream, connections
<1>13. CASE UninitServer
  <2>1. Stages'
    BY <1>1, <1>13 DEF UninitServer, connections, Stages, Live
  <2>2. UNCHANGED <<stream, sess, sidCur, watched, batch, backlog>> /\ stream = "freed"
    BY <1>1, <1>13 DEF UninitServer, Stages
  <2>3. Live' = Live
    BY <2>2 DEF Live
  <2>4. DOMAIN clients' = 0 .. Buckets - 1 /\ MapSound' /\ InMap' = {}
    BY <1>13, MapEmptied DEF UninitServer
  <2>5. ConnectionsInv'
    BY <1>1, <2>2, <2>3, <2>4
       DEF ConnectionsInv, FdsApart, FdOf, IdsUsed, Accounted, OutWhilePending
  <2>6. BatchInv'
    BY <1>1, <2>2, <2>3, SameBatch
  <2> QED BY <2>1, <2>5, <2>6 DEF ServerInv
<1>14. ASSUME NEW f \in Fd, Accept(f) PROVE ServerInv'
  BY <1>14, Accepting
<1>15. CASE AcceptUndone
  <2>1. /\ UNCHANGED <<stream, sess, clients, watched, batch>>
        /\ sidCur' = sidCur + 1 /\ backlog' = backlog - 1 /\ backlog > 0
    BY <1>15 DEF AcceptUndone, NextSid
  <2>2. Stages'
    BY <1>1, <1>15, ConstantTypes
       DEF AcceptUndone, AcceptAgain, StopAccepting, Stages, Live
  <2>3. Live' = Live /\ InMap' = InMap
    BY <2>1 DEF Live, InMap
  <2>4. Live \cup InMap \subseteq 1 .. sidCur'
    BY <1>1, <1>3, <2>1 DEF ConnectionsInv, IdsUsed
  <2>5. IdsUsed'
    BY <1>3, <2>1, <2>3, <2>4 DEF IdsUsed
  <2>6. ConnectionsInv'
    BY <1>1, <2>1, <2>3, <2>5
       DEF ConnectionsInv, FdsApart, FdOf, UsedFds, Accounted, OutWhilePending, MapSound
  <2>7. BatchInv'
    BY <1>1, <2>1, <2>3, SameBatch
  <2> QED BY <2>2, <2>6, <2>7 DEF ServerInv
<1>16. ASSUME NEW s \in Sid, SessionError(s) \/ ReceiveEnd(s) PROVE ServerInv'
  <2>1. /\ s \in Live /\ batch # <<>> /\ CloseSession(s, Tail(batch))
        /\ UNCHANGED <<server, stream, sidCur, pc, accepts, backlog, wild>> /\ pc = "dispatch"
    BY <1>16 DEF SessionError, ReceiveEnd, Reading, AtSession, AtItem, Dispatching
  <2>2. ConnectionsInv' /\ BatchInv' /\ Live' = Live \ {s}
    BY <1>1, <2>1, SessionCloses
  <2>3. Stages'
    BY <1>1, <2>1, <2>2 DEF Stages
  <2> QED BY <2>2, <2>3 DEF ServerInv
<1>17. ASSUME NEW s \in Sid, SendAll(s) PROVE ServerInv'
  <2>1. s \in Live /\ Gone /\ UNCHANGED <<server, stream, sidCur, clients, watched, pc,
                                   accepts, backlog, wild>>
        /\ sess' = [sess EXCEPT ![s].pending = FALSE, ![s].out = FALSE] /\ pc = "dispatch"
    BY <1>17 DEF SendAll, Writing, AtSession, AtItem, Dispatching
  <2>2. Live' = Live
    BY <2>1 DEF Live
  <2>3. \A t \in Live : sess'[t] \in Session /\ sess'[t].fd = sess[t].fd
                        /\ sess'[t].out = sess'[t].pending
    BY <1>2, <2>1 DEF Live, Session
  <2>4. Stages'
    BY <1>1, <2>1, <2>2 DEF Stages
  <2> QED BY <1>3, <2>1, <2>2, <2>3, <2>4, <1>5
<1>18. ASSUME NEW s \in Sid, SendSome(s) \/ SendError(s) \/ ReceiveNothing(s) PROVE ServerInv'
  <2>1. Same /\ Gone
    BY <1>18 DEF SendSome, SendError, ReceiveNothing, Writing, Reading, AtSession, AtItem,
                 Dispatching, connections
  <2>2. Stages'
    BY <1>1, <1>18 DEF SendSome, SendError, ReceiveNothing, Writing, Reading, AtSession, AtItem,
                       Dispatching, connections, Stages, Live
  <2> QED BY <2>1, <2>2, <1>4
<1>19. ASSUME NEW s \in Sid, Receive(s) PROVE ServerInv'
  <2>1. PICK answers \in BOOLEAN :
          sess' = [sess EXCEPT ![s].data = @ - 1,
                               ![s].pending = @ \/ answers,
                               ![s].out = @ \/ sess[s].pending \/ answers]
    BY <1>19 DEF Receive
  <2>2. /\ s \in Live /\ Gone /\ UNCHANGED <<stream, sidCur, clients, watched, pc, accepts, backlog, wild>>
        /\ server' \in {server, "stop"} /\ pc = "dispatch" /\ sess[s].data > 0
    BY <1>19 DEF Receive, Reading, AtSession, AtItem, Dispatching
  <2>3. Live' = Live
    BY <2>1 DEF Live
  <2>4. \A t \in Live : t # s => sess'[t] = sess[t]
    BY <2>1 DEF Live
  <2>5. /\ sess[s].data \in 0 .. MaxData /\ sess[s].pending \in BOOLEAN /\ sess[s].out = sess[s].pending
        /\ sess[s] \in Session
    BY <1>2, <2>2 DEF Session
  <2>6. sess'[s] = [sess[s] EXCEPT !.data = sess[s].data - 1,
                                   !.pending = sess[s].pending \/ answers,
                                   !.out = sess[s].out \/ sess[s].pending \/ answers]
    BY <2>1, <2>2 DEF Live
  <2>7. sess[s].data - 1 \in 0 .. MaxData
    BY <2>2, <2>5, ConstantTypes
  <2>8. sess'[s] \in Session /\ sess'[s].fd = sess[s].fd /\ sess'[s].out = sess'[s].pending
    BY <2>5, <2>6, <2>7 DEF Session
  <2>9. Stages'
    BY <1>1, <2>2, <2>3 DEF Stages
  <2> QED BY <1>2, <1>3, <2>2, <2>3, <2>4, <2>8, <2>9, <1>5
<1>20. CASE Connect
  <2>1. Stages' /\ Live' = Live /\ sess' = sess /\ UNCHANGED <<batch, stream, sidCur, clients, watched>>
    BY <1>1, <1>20 DEF Connect, Program, Stages, Live
  <2>2. backlog' \in Nat /\ backlog' + sidCur <= MaxSid
    BY <1>3, <1>20, ConstantTypes DEF Connect
  <2> QED BY <1>2, <2>1, <2>2, <1>5
<1>21. ASSUME NEW s \in Sid, PeerSends(s) \/ PeerEnds(s) PROVE ServerInv'
  <2>1. Stages' /\ Live' = Live /\ UNCHANGED <<batch, stream, sidCur, clients, watched, backlog>>
    BY <1>1, <1>21 DEF PeerSends, PeerEnds, Program, Stages, Live
  <2>2. \A t \in Live : t # s => sess'[t] = sess[t]
    BY <1>21 DEF PeerSends, PeerEnds, Live
  <2>3. s \in Live /\ sess[s] \in Session /\ sess[s].out = sess[s].pending
    BY <1>2, <1>21 DEF PeerSends, PeerEnds
  <2>4. sess'[s] \in Session /\ sess'[s].fd = sess[s].fd /\ sess'[s].out = sess'[s].pending
    <3>1. CASE PeerSends(s)
      BY <2>3, <3>1, ConstantTypes DEF PeerSends, Session, Live
    <3>2. CASE PeerEnds(s)
      BY <2>3, <3>2, ConstantTypes DEF PeerEnds, Session, Live
    <3> QED BY <1>21, <3>1, <3>2
  <2> QED BY <1>2, <1>3, <2>1, <2>2, <2>4, <1>5
<1> QED
  BY <1>6, <1>7, <1>8, <1>9, <1>10, <1>11, <1>12, <1>13, <1>14, <1>15, <1>16, <1>17, <1>18,
     <1>19, <1>20, <1>21, <1>22 DEF Next, Thread, Check, Environment, SessionStep

LEMMA ServerInductive == Spec => []ServerInv
BY ServerInit, ServerStep, PTL DEF Spec

-----------------------------------------------------------------------------
(* Closing the server.                                                     *)

\* With one session in a bucket the loop reaches them all.
LEMMA AllReached ==
  ASSUME ConnectionsInv, OnePerBucket
  PROVE  Reached = InMap
<1>1. ASSUME NEW b \in DOMAIN clients PROVE ReachedIn(clients[b]) = ToSet(clients[b])
  <2> DEFINE q == clients[b]
             n == Len(q)
  <2>1. n \in {0, 1} /\ DOMAIN q = 1 .. n
    <3>1. q \in Seq(Sid) /\ n <= 1
      BY DEF ConnectionsInv, MapSound, OnePerBucket
    <3>2. n \in Nat /\ DOMAIN q = 1 .. n
      BY <3>1
    <3> HIDE DEF n
    <3> QED BY <3>1, <3>2
  <2>2. (n + 1) \div 2 = n
    <3> HIDE DEF n
    <3>1. CASE n = 0
      BY <3>1
    <3>2. CASE n = 1
      BY <3>2
    <3> QED BY <2>1, <3>1, <3>2
  <2> QED BY <2>1, <2>2 DEF ReachedIn, ToSet
<1> QED BY <1>1 DEF Reached, InMap

\* So it is, for one, while no more connections came than there are buckets.
LEMMA FewConnections == ServerInv /\ MaxSid <= Buckets => OnePerBucket
<1> SUFFICES ASSUME ServerInv, MaxSid <= Buckets, NEW b \in DOMAIN clients, ~(Len(clients[b]) <= 1)
             PROVE  FALSE
  BY DEF OnePerBucket
<1>1. clients[b] \in Seq(Sid) /\ 1 \in DOMAIN clients[b] /\ 2 \in DOMAIN clients[b]
  <2>1. clients[b] \in Seq(Sid)
    BY DEF ServerInv, ConnectionsInv, MapSound
  <2>2. Len(clients[b]) \in Nat /\ DOMAIN clients[b] = 1 .. Len(clients[b])
    BY <2>1
  <2> QED BY <2>1, <2>2
<1> DEFINE s == clients[b][1]
           t == clients[b][2]
<1>2. s \in 1 .. Buckets /\ t \in 1 .. Buckets
  <2>1. s \in Sid /\ t \in Sid
    BY <1>1
  <2> QED BY <2>1, ConstantTypes DEF Sid
<1>3. s % Buckets = t % Buckets /\ s # t
  BY <1>1 DEF ServerInv, ConnectionsInv, MapSound, BucketOf
<1> HIDE DEF s, t
<1>4. ASSUME NEW x \in 1 .. Buckets PROVE x % Buckets = IF x = Buckets THEN 0 ELSE x
  <2>1. CASE x = Buckets
    BY <2>1, ConstantTypes
  <2>2. CASE x # Buckets
    BY <2>2, ConstantTypes
  <2> QED BY <2>1, <2>2
<1> QED BY <1>2, <1>3, <1>4

LEMMA NothingLeftOverStep ==
  ServerInv /\ OnePerBucket /\ NothingLeftOver /\ [Next]_vars => NothingLeftOver'
<1> SUFFICES ASSUME ServerInv, OnePerBucket, NothingLeftOver, [Next]_vars, stream' = "freed"
             PROVE  server' \in {"closed", "uninit"} /\ Live' = {} /\ watched' = {}
  BY DEF NothingLeftOver
<1>1. CASE stream = "freed"
  <2>1. Live = {} /\ watched = {} /\ server \in {"closed", "uninit"}
    BY <1>1 DEF NothingLeftOver
  <2>2. pc \in {"dispatch", "ended", "closed", "done"}
    BY <1>1, <2>1 DEF ServerInv, Stages
  <2>3. CASE UNCHANGED <<server, sess, watched>>
    BY <2>1, <2>3 DEF Live
  <2>4. CASE CloseAtEnd \/ UninitServer
    BY <1>1, <2>1, <2>4 DEF CloseAtEnd, UninitServer, connections, Live
  <2>5. CASE ServerError
    <3>1. 1 \in DOMAIN batch /\ batch[1].fd # 0 /\ batch[1].ds = ServerDs
      BY <2>5, TailOfBatch DEF ServerError, AtItem, Dispatching, Current, ServerInv
    <3> QED BY <1>1, <3>1 DEF ServerInv, BatchInv, ItemsFit
  <2>6. CASE vars' = vars
    BY <2>3, <2>6 DEF vars, connections
  <2>7. ASSUME NEW s \in Sid, SessionStep(s) \/ PeerSends(s) \/ PeerEnds(s) PROVE FALSE
    BY <2>1, <2>7 DEF SessionStep, SessionError, SendAll, SendSome, SendError, Receive,
         ReceiveEnd, ReceiveNothing, Writing, Reading, AtSession, PeerSends, PeerEnds
  <2>8. CASE InitServer \/ Open \/ StartServer
    BY <2>2, <2>8 DEF InitServer, Open, StartServer
  <2>9. ASSUME NEW f \in Fd, Accept(f) PROVE FALSE
    BY <2>2, <2>9 DEF Accept, Accepted
  <2>11. CASE OpenUnset \/ CloseNoStream
    BY <1>1, <2>2, <2>11 DEF OpenUnset, CloseNoStream
  <2>10. CASE OpenFails \/ PollFails \/ Poll \/ EndOfBatch \/ SkipItem \/ NothingLeft
              \/ ServerReady \/ AcceptNothing \/ AcceptUndone \/ Connect
    BY <2>3, <2>10 DEF OpenFails, PollFails, Poll, EndOfBatch, SkipItem, NothingLeft,
         ServerReady, AcceptNothing, AcceptUndone, Connect, Program, connections
  <2> QED BY <2>4, <2>5, <2>6, <2>7, <2>8, <2>9, <2>10, <2>11
         DEF Next, Thread, Check, Environment
<1>2. CASE stream # "freed"
  <2>1. PICK b : CloseServer(b) /\ (CloseAtEnd \/ ServerError)
    <3>1. CASE CloseAtEnd
      BY <1>2, <3>1 DEF CloseAtEnd
    <3>2. CASE ServerError
      BY <3>2 DEF ServerError
    <3>3. CASE UNCHANGED stream
      BY <1>2, <3>3
    <3>4. CASE Open
      BY <3>4 DEF Open
    <3>5. ASSUME NEW s \in Sid, SessionStep(s) \/ PeerSends(s) \/ PeerEnds(s)
          PROVE  UNCHANGED stream
      BY <3>5 DEF SessionStep, SessionError, SendAll, SendSome, SendError, Receive,
         ReceiveEnd, ReceiveNothing, PeerSends, PeerEnds, Program
    <3>6. ASSUME NEW f \in Fd, Accept(f) PROVE UNCHANGED stream
      BY <3>6 DEF Accept
    <3>7. CASE vars' = vars
      BY <3>3, <3>7 DEF vars
    <3>9. CASE OpenUnset \/ CloseNoStream
      BY <3>3, <3>9 DEF OpenUnset, CloseNoStream
    <3>8. CASE InitServer \/ OpenFails \/ StartServer \/ PollFails \/ UninitServer \/ Poll \/ EndOfBatch
               \/ SkipItem \/ NothingLeft \/ ServerReady \/ AcceptNothing \/ AcceptUndone \/ Connect
      BY <3>3, <3>8 DEF InitServer, OpenFails, StartServer, PollFails, UninitServer, Poll,
           EndOfBatch, SkipItem, NothingLeft, ServerReady, AcceptNothing, AcceptUndone, Connect, Program
    <3> QED BY <3>1, <3>2, <3>3, <3>4, <3>5, <3>6, <3>7, <3>8, <3>9
         DEF Next, Thread, Check, Environment
  <2>2. stream = "open"
    <3>1. CASE CloseAtEnd
      BY <1>2, <3>1 DEF ServerInv, Stages, CloseAtEnd
    <3>2. CASE ServerError
      <4>1. 1 \in DOMAIN batch /\ batch[1].fd # 0 /\ batch[1].ds = ServerDs
        BY <3>2, TailOfBatch DEF ServerError, AtItem, Dispatching, Current, ServerInv
      <4> QED BY <4>1 DEF ServerInv, BatchInv, ItemsFit
    <3> QED BY <2>1, <3>1, <3>2
  <2>3. Reached = Live /\ watched = UsedFds \cup {ListenFd}
    BY <2>2, AllReached DEF ServerInv, ConnectionsInv, Accounted
  <2> QED BY <2>1, <2>3 DEF CloseServer, SessWithout, UsedFds, Live
<1> QED BY <1>1, <1>2

LEMMA NothingLeftOverAlways == Spec /\ []OnePerBucket => []NothingLeftOver
<1>1. Init => NothingLeftOver
  BY DEF Init, NothingLeftOver
<1> QED BY <1>1, ServerInductive, NothingLeftOverStep, PTL DEF Spec

-----------------------------------------------------------------------------
(* What the server guarantees.                                             *)

\* No item is dispatched to a session that an earlier item closed, nor to one
\* that was accepted meanwhile on the descriptor of a closed one, nor to a
\* listening socket that is freed, however many connections come and go and
\* whatever the order of the items.
THEOREM DispatchIsCurrent == Spec => []NoStaleDispatch
<1>1. ServerInv => NoStaleDispatch
  BY DEF ServerInv, BatchInv, ItemsFit, NoStaleDispatch
<1> QED BY <1>1, ServerInductive, PTL

LEMMA TypeOfInv == ServerInv => TypeOK
<1> SUFFICES ASSUME ServerInv PROVE TypeOK
  OBVIOUS
<1>1. sidCur \in 0 .. MaxSid /\ backlog \in 0 .. MaxSid
  BY ConstantTypes DEF ServerInv, ConnectionsInv, IdsUsed
<1> QED BY <1>1 DEF ServerInv, ConnectionsInv, MapSound, BatchInv, Stages, TypeOK

\* The state stays of its type, whatever the order of connections, items and
\* closes: ids are only given to connections that came.
THEOREM ServerTypeCorrect == Spec => []TypeOK
BY TypeOfInv, ServerInductive, PTL

\* The map of the sessions, the epoll set and the sessions themselves agree
\* in every state of a server that is not closed, and a session is asked for
\* EPOLLOUT exactly while it has something to send: no accept that fails half
\* way, no error of a session and no reuse of a descriptor parts them.  The
\* listening socket is among what is watched if open made one; a server that
\* was started without never has a session.  A close that the map makes leave
\* sessions behind is excluded by the premise.
THEOREM ServerAgrees == Spec /\ []OnePerBucket => []Agreement
<1>1. ServerInv /\ NothingLeftOver => Agreement
  <2> SUFFICES ASSUME ServerInv, NothingLeftOver PROVE Agreement
    OBVIOUS
  <2>1. /\ server \in {"ready", "start", "stop"} => stream # "freed"
        /\ server \in {"ready", "start", "stop"} /\ stream # "open" => Live = {}
    BY DEF NothingLeftOver, ServerInv, Stages
  <2> QED BY <2>1, TypeOfInv
          DEF ServerInv, ConnectionsInv, FdsApart, Accounted, OutWhilePending, Agreement
<1> QED BY <1>1, ServerInductive, NothingLeftOverAlways, PTL

\* Closing the server closes every session, as long as no bucket of the map
\* holds two: the loop of ripc_close_server then has nothing to skip.
THEOREM CloseIsComplete == Spec /\ []OnePerBucket => []AllClosed
<1>1. ServerInv /\ NothingLeftOver => AllClosed
  BY DEF ServerInv, Stages, NothingLeftOver, AllClosed
<1> QED BY <1>1, ServerInductive, NothingLeftOverAlways, PTL

\* Nothing brings a closed server back, so that its listening socket is freed
\* once: no session is left whose message could stop it again.
THEOREM ClosedForGood == Spec /\ []OnePerBucket => ClosedStaysClosed
<1>1. ServerInv /\ NothingLeftOver /\ NothingLeftOver' /\ [Next]_vars
        => [server = "closed" => server' \in {"closed", "uninit"}]_vars
  <2> SUFFICES ASSUME ServerInv, NothingLeftOver', Next, server = "closed"
               PROVE  server' \in {"closed", "uninit"}
    OBVIOUS
  <2>1. stream = "freed" /\ pc \in {"dispatch", "ended", "closed"}
    BY DEF ServerInv, Stages
  <2>2. stream' = "freed"
    <3>1. CASE UNCHANGED stream
      BY <2>1, <3>1
    <3>2. ASSUME NEW s \in Sid, SessionStep(s) \/ PeerSends(s) \/ PeerEnds(s)
          PROVE  UNCHANGED stream
      BY <3>2 DEF SessionStep, SessionError, SendAll, SendSome, SendError, Receive,
         ReceiveEnd, ReceiveNothing, PeerSends, PeerEnds, Program
    <3>3. ASSUME NEW f \in Fd, Accept(f) PROVE UNCHANGED stream
      BY <3>3 DEF Accept
    <3>4. CASE CloseAtEnd \/ ServerError
      BY <2>1, <3>4 DEF CloseAtEnd, ServerError, CloseServer
    <3>5. CASE Open
      BY <2>1, <3>5 DEF Open
    <3>7. CASE OpenUnset \/ CloseNoStream
      BY <3>1, <3>7 DEF OpenUnset, CloseNoStream
    <3>6. CASE InitServer \/ OpenFails \/ StartServer \/ PollFails \/ UninitServer \/ Poll \/ EndOfBatch
               \/ SkipItem \/ NothingLeft \/ ServerReady \/ AcceptNothing \/ AcceptUndone \/ Connect
      BY <3>1, <3>6 DEF InitServer, OpenFails, StartServer, PollFails, UninitServer, Poll,
           EndOfBatch, SkipItem, NothingLeft, ServerReady, AcceptNothing, AcceptUndone, Connect, Program
    <3> QED BY <3>1, <3>2, <3>3, <3>4, <3>5, <3>6, <3>7
         DEF Next, Thread, Check, Environment
  <2> QED BY <2>2 DEF NothingLeftOver
<1> QED BY <1>1, ServerInductive, NothingLeftOverAlways, PTL DEF Spec, ClosedStaysClosed

\* The premise of the three theorems holds by itself while no more connections
\* came than the map has buckets: then sessions, map and epoll set agree, and
\* the close is complete and final, whatever else happens.
THEOREM FewSessionsClose ==
  ASSUME MaxSid <= Buckets
  PROVE  Spec => []Agreement /\ []AllClosed /\ ClosedStaysClosed
<1>1. ServerInv => OnePerBucket
  BY FewConnections
<1>2. Spec => []OnePerBucket
  BY <1>1, ServerInductive, PTL
<1> QED BY <1>2, ServerAgrees, CloseIsComplete, ClosedForGood, PTL

-----------------------------------------------------------------------------
(* The client.                                                             *)

\* What holds where the thread is: a connection that is waited for is not
\* started, and an item that is dispatched came from a registered descriptor.
ClientPlaces ==
  /\ at = "new" => state = "unset"
  /\ at \in {"start", "started"} => ~started
  /\ at = "started" => ~broken /\ sock
  /\ at = "check" /\ "err" \in events => sock

\* What holds in each state: only a client that was started owns its caches,
\* and one that was stopped or in service owns them still, unless the stop
\* came after the client had closed itself.
ClientStates ==
  /\ state = "unset" => ~sock /\ caches = "unset" /\ ~started
  /\ state = "ready_pending" => ~started
  /\ caches = "held" => state \in {"start", "stop"}
  /\ started /\ ~late /\ state \in {"start", "stop"} => caches = "held"

ClientData ==
  /\ state \in {"unset", "ready_pending", "start", "stop", "closed", "uninit"}
  /\ caches \in {"unset", "held", "freed"}
  /\ at \in {"new", "caller", "start", "started", "check"}
  /\ events \subseteq {"err", "in", "out"}
  /\ peer \in {"none", "connecting", "open", "refused", "fin", "reset"}
  /\ bytes \in 0 .. MaxBytes

ClientFlags ==
  /\ sock \in BOOLEAN /\ pending \in BOOLEAN /\ registered \in BOOLEAN /\ interest \in BOOLEAN
  /\ broken \in BOOLEAN /\ started \in BOOLEAN /\ asked \in BOOLEAN /\ late \in BOOLEAN

ClientHolds ==
  /\ registered = sock
  /\ state = "start" => sock /\ caches = "held" /\ (interest <=> pending)
  /\ state \in {"closed", "uninit"} => ~sock /\ caches # "held"

ClientInv == ClientData /\ ClientFlags /\ ClientHolds /\ SafeOnceStarted /\ ClientPlaces /\ ClientStates

LEMMA ClientInvAgrees == ClientInv => ClientAgrees
<1>1. ClientData /\ ClientFlags => ClientTypeOK
  BY DEF ClientData, ClientFlags, ClientTypeOK
<1> QED BY <1>1 DEF ClientInv, ClientHolds, ClientAgrees

LEMMA ClosingStep ==
  ASSUME ClientInv, NEW next \in {"closed", "uninit"}, Closing(next),
         state \notin {"closed", "uninit"}
  PROVE  /\ state' = next /\ caches' = "freed"
         /\ sock' = FALSE /\ registered' = FALSE /\ interest' = FALSE /\ pending' = FALSE
         /\ broken' \in BOOLEAN /\ asked' \in BOOLEAN
         /\ peer' = "none" /\ bytes' = 0
         /\ broken' => ~started \/ late
         /\ UNCHANGED <<started, late>>
<1>1. caches # "held" => ~started \/ late
  BY DEF ClientInv, ClientData, ClientStates
<1>2. broken' \in BOOLEAN /\ asked' \in BOOLEAN
  <2>1. caches \in {"unset", "held", "freed"} /\ broken \in BOOLEAN
    BY DEF ClientInv, ClientData, ClientFlags
  <2>2. broken' \in BOOLEAN
    BY <2>1 DEF Closing
  <2>3. asked' \in BOOLEAN
    BY Zenon DEF Closing
  <2> QED BY <2>2, <2>3
<1>3. broken => ~started \/ late
  BY DEF ClientInv, SafeOnceStarted
<1>4. caches = "held" => broken' = broken
  BY DEF Closing
<1>5. broken' => ~started \/ late
  BY <1>1, <1>3, <1>4
<1> QED BY <1>2, <1>5 DEF Closing

\* A step that closes the client keeps the invariant, wherever the thread goes.
LEMMA ClosingKeeps ==
  ASSUME ClientInv, NEW next \in {"closed", "uninit"}, Closing(next),
         state \notin {"closed", "uninit"},
         at' \in {"caller", "start", "check"}, events' \subseteq {"err", "in", "out"},
         at' = "start" => ~started, at' = "check" => "err" \notin events'
  PROVE  ClientInv'
<1>1. /\ state' = next /\ caches' = "freed"
      /\ sock' = FALSE /\ registered' = FALSE /\ interest' = FALSE /\ pending' = FALSE
      /\ broken' \in BOOLEAN /\ asked' \in BOOLEAN
      /\ peer' = "none" /\ bytes' = 0
      /\ broken' => ~started \/ late
      /\ UNCHANGED <<started, late>>
  BY ClosingStep
<1>2. bytes' \in 0 .. MaxBytes
  BY <1>1, BytesAssumption
<1>3. ClientData'
  BY <1>1, <1>2 DEF ClientData
<1>4. ClientFlags'
  BY <1>1, Zenon DEF ClientFlags, ClientInv
<1>5. ClientHolds'
  BY <1>1 DEF ClientHolds
<1>6. SafeOnceStarted'
  BY <1>1 DEF SafeOnceStarted
<1>7. ClientPlaces'
  BY <1>1 DEF ClientPlaces
<1>8. ClientStates'
  BY <1>1 DEF ClientStates
<1> QED BY <1>3, <1>4, <1>5, <1>6, <1>7, <1>8 DEF ClientInv

LEMMA ClientInitial == ClientInit => ClientInv
<1> SUFFICES ASSUME ClientInit PROVE ClientInv
  OBVIOUS
<1>1. 0 \in 0 .. MaxBytes
  BY BytesAssumption
<1>2. ClientData
  BY <1>1 DEF ClientInit, ClientData
<1>3. ClientFlags
  BY Zenon DEF ClientInit, ClientFlags
<1> QED BY <1>2, <1>3 DEF ClientInit, ClientInv, ClientHolds, SafeOnceStarted, ClientPlaces, ClientStates

LEMMA ClientStep == ClientInv /\ [ClientNext]_clientVars => ClientInv'
<1> SUFFICES ASSUME ClientInv, [ClientNext]_clientVars PROVE ClientInv'
  OBVIOUS
<1>1. ClientData /\ ClientFlags /\ bytes \in Nat
  BY BytesAssumption DEF ClientInv, ClientData
<1>2. 0 \in 0 .. MaxBytes
  BY BytesAssumption
<1> USE DEF link, history
<1>3. CASE UNCHANGED clientVars
  <2>1. ClientData' /\ ClientFlags'
    BY <1>1, <1>3 DEF clientVars, ClientData, ClientFlags
  <2> QED BY <1>3, <2>1 DEF clientVars, ClientInv, ClientHolds, SafeOnceStarted, ClientPlaces, ClientStates
<1>4. CASE InitC
  <2>1. ClientData'
    BY <1>1, <1>4 DEF InitC, ClientData
  <2>2. ClientFlags'
    BY <1>1, <1>4, Zenon DEF InitC, ClientFlags
  <2>3. sock' = sock
    BY <1>1, <1>4, Zenon DEF InitC, ClientFlags, ClientInv, ClientPlaces, ClientStates
  <2> QED BY <1>4, <2>1, <2>2, <2>3
          DEF InitC, ClientInv, ClientHolds, SafeOnceStarted, ClientPlaces, ClientStates
<1>5. CASE OpenC
  <2>1. ClientData'
    BY <1>1, <1>2, <1>5 DEF OpenC, ClientData
  <2>2. ClientFlags'
    BY <1>1, <1>5, Zenon DEF OpenC, ClientFlags
  <2>3. ClientHolds' /\ SafeOnceStarted'
    BY <1>5 DEF OpenC, ClientHolds, SafeOnceStarted
  <2>4. at' = "caller" /\ state' = "ready_pending" /\ ~started' /\ caches # "held"
    BY <1>5 DEF OpenC, InCaller, ClientInv, ClientStates
  <2>5. ClientPlaces' /\ ClientStates'
    BY <1>5, <2>4 DEF OpenC, ClientPlaces, ClientStates
  <2> QED BY <2>1, <2>2, <2>3, <2>5 DEF ClientInv
<1>6. CASE OpenFailsC
  <2>1. ClientData'
    BY <1>1, <1>6 DEF OpenFailsC, ClientData
  <2>2. ClientFlags'
    BY <1>1, <1>6, Zenon DEF OpenFailsC, ClientFlags
  <2>3. ~started' /\ UNCHANGED <<state, caches, sock, registered, pending, interest, at, events>>
        /\ at = "caller"
    BY <1>6 DEF OpenFailsC, InCaller
  <2> QED BY <2>1, <2>2, <2>3 DEF ClientInv, ClientHolds, SafeOnceStarted, ClientPlaces, ClientStates
<1>7. CASE CloseC \/ UninitC
  <2>1. ASSUME NEW next \in {"closed", "uninit"}, InCaller, Closing(next),
               state \notin {"closed", "uninit"}, UNCHANGED <<at, events>>
        PROVE  ClientInv'
    BY <2>1, <1>1, ClosingKeeps DEF InCaller, ClientData
  <2>2. CASE /\ UninitC /\ state \in {"closed", "unset"} /\ state' = "uninit"
             /\ UNCHANGED <<caches, pending, link, broken, history>>
    <3>1. ClientData'
      BY <1>1, <2>2 DEF UninitC, ClientData
    <3>2. ClientFlags'
      BY <1>1, <2>2, Zenon DEF ClientFlags
    <3>3. at = "caller" /\ UNCHANGED <<at, events>> /\ caches # "held" /\ ~sock
      BY <2>2 DEF UninitC, InCaller, ClientInv, ClientHolds, ClientStates
    <3> QED BY <2>2, <3>1, <3>2, <3>3
            DEF ClientInv, ClientHolds, SafeOnceStarted, ClientPlaces, ClientStates
  <2> QED BY <1>7, <2>1, <2>2 DEF CloseC, UninitC
<1>8. CASE StopC
  <2>1. ClientData'
    BY <1>1, <1>8 DEF StopC, ClientData
  <2>2. late' \in BOOLEAN /\ (late => late') /\ (state = "closed" => late')
    <3>1. late' = (late \/ state = "closed")
      BY <1>8 DEF StopC
    <3> QED BY <3>1, Zenon
  <2>3. /\ UNCHANGED <<caches, pending, link, at, events, broken, started, asked>>
        /\ at = "caller" /\ state' = "stop" /\ state # "uninit" /\ ~broken
    BY <1>8 DEF StopC, InCaller
  <2>4. ClientFlags'
    BY <1>1, <2>2, <2>3, Zenon DEF ClientFlags
  <2>5. started /\ ~late' => caches = "held"
    BY <1>1, <2>2, <2>3 DEF ClientInv, ClientStates, ClientData
  <2> QED BY <2>1, <2>2, <2>3, <2>4, <2>5
          DEF ClientInv, ClientHolds, SafeOnceStarted, ClientPlaces, ClientStates
<1>9. CASE StartC
  <2>1. ClientData'
    BY <1>1, <1>9 DEF StartC, ClientData
  <2>2. ClientFlags'
    BY <1>1, <1>9, Zenon DEF StartC, ClientFlags
  <2> QED BY <1>9, <2>1, <2>2
          DEF StartC, InCaller, ClientInv, ClientHolds, SafeOnceStarted, ClientPlaces, ClientStates
<1>10. CASE StartPolls \/ CheckPolls
  <2>1. events' \subseteq {"err", "in", "out"} /\ (events' # {} => registered)
    BY <1>10 DEF StartPolls, CheckPolls, Reported, Ready, Writable
  <2>2. ClientData'
    BY <1>1, <1>10, <2>1 DEF StartPolls, CheckPolls, ClientData
  <2>3. ClientFlags'
    BY <1>1, <1>10, Zenon DEF StartPolls, CheckPolls, ClientFlags
  <2> QED BY <1>10, <2>1, <2>2, <2>3
          DEF StartPolls, CheckPolls, InCaller, ClientInv, ClientHolds, SafeOnceStarted,
              ClientPlaces, ClientStates
<1>11. CASE StartError \/ CheckError
  <2>1. state \notin {"closed", "uninit"} /\ Closing("closed")
    BY <1>11 DEF StartError, CheckError, ClientInv, ClientHolds, ClientPlaces
  <2>2. /\ at' \in {"caller", "start"} /\ events' = {}
        /\ at' = "start" => ~started
    BY <1>11 DEF StartError, CheckError, ClientInv, ClientPlaces
  <2> QED BY <2>1, <2>2, ClosingKeeps
<1>12. CASE StartDone
  <2>1. ClientData'
    BY <1>1, <1>12 DEF StartDone, ClientData
  <2>2. ClientFlags'
    BY <1>1, <1>12, Zenon DEF StartDone, ClientFlags
  <2>3. /\ at' = "caller" /\ state' = "start" /\ caches' = "held" /\ ~broken' /\ sock' /\ registered'
        /\ registered' = sock'
    BY <1>12 DEF StartDone, ClientInv, ClientHolds, ClientPlaces
  <2>4. interest' <=> pending'
    BY <1>12, Zenon DEF StartDone
  <2> QED BY <2>1, <2>2, <2>3, <2>4
          DEF ClientInv, ClientHolds, SafeOnceStarted, ClientPlaces, ClientStates
<1>13. CASE StartWaits \/ StartFails
  <2>1. ClientData'
    BY <1>1, <1>13 DEF StartWaits, StartFails, ClientData
  <2>2. ClientFlags'
    BY <1>1, <1>13, Zenon DEF StartWaits, StartFails, ClientFlags
  <2> QED BY <1>13, <2>1, <2>2 DEF StartWaits, StartFails, ClientInv, ClientHolds, SafeOnceStarted,
                                   ClientPlaces, ClientStates
<1>14. CASE StartTimeout
  <2>1. ClientData'
    BY <1>1, <1>14 DEF StartTimeout, ClientData
  <2>2. ClientFlags'
    BY <1>1, <1>14, Zenon DEF StartTimeout, ClientFlags
  <2> QED BY <1>14, <2>1, <2>2 DEF StartTimeout, ClientInv, ClientHolds, SafeOnceStarted,
                                   ClientPlaces, ClientStates
<1>15. CASE SendC
  <2>1. ClientData'
    BY <1>1, <1>15 DEF SendC, ClientData
  <2>2. ClientFlags'
    BY <1>1, <1>15, Zenon DEF SendC, ClientFlags
  <2>3. interest' <=> pending'
    BY <1>15, Zenon DEF SendC
  <2> QED BY <1>15, <2>1, <2>2, <2>3
          DEF SendC, InCaller, ClientInv, ClientHolds, SafeOnceStarted, ClientPlaces, ClientStates
<1>16. CASE CheckSkips \/ SendAllC \/ SendSomeC \/ ReceiveC
  <2>1. ClientData'
    <3>1. at' \in {"caller", "check"} /\ events' \subseteq {"err", "in", "out"}
      BY <1>1, <1>16 DEF CheckSkips, SendAllC, SendSomeC, ReceiveC, After, ClientData
    <3>2. bytes' \in 0 .. MaxBytes
      BY <1>1, <1>16, BytesAssumption DEF CheckSkips, SendAllC, SendSomeC, ReceiveC, ClientData
    <3> QED BY <1>1, <1>16, <3>1, <3>2 DEF CheckSkips, SendAllC, SendSomeC, ReceiveC, ClientData
  <2>2. ClientFlags'
    BY <1>1, <1>16, Zenon DEF CheckSkips, SendAllC, SendSomeC, ReceiveC, ClientFlags
  <2>3. UNCHANGED <<interest, pending>> \/ (interest' = FALSE /\ pending' = FALSE)
    BY <1>16 DEF CheckSkips, SendAllC, SendSomeC, ReceiveC
  <2>4. (interest <=> pending) => (interest' <=> pending')
    BY <2>3, Zenon
  <2>5. /\ UNCHANGED <<state, caches, sock, registered, broken, started, late>>
        /\ at' \in {"caller", "check"} /\ "err" \notin events'
    BY <1>16 DEF CheckSkips, SendAllC, SendSomeC, ReceiveC, Sending, Receiving, After
  <2> QED BY <2>1, <2>2, <2>4, <2>5 DEF ClientInv, ClientHolds, SafeOnceStarted, ClientPlaces, ClientStates
<1>17. CASE SendErrorC \/ ReceiveEndC
  <2>1. /\ state = "start" /\ Closing("closed") /\ "err" \notin events' /\ at' \in {"caller", "check"}
        /\ events' \subseteq {"err", "in", "out"}
    BY <1>1, <1>17 DEF SendErrorC, ReceiveEndC, Sending, Receiving, After, ClientData
  <2> QED BY <2>1, ClosingKeeps
<1>18. CASE PeerTurns
  <2>1. bytes' \in 0 .. MaxBytes
    BY <1>1, <1>2, <1>18, BytesAssumption DEF PeerTurns, ClientData
  <2>2. ClientData'
    BY <1>1, <2>1, <1>18 DEF PeerTurns, ClientData
  <2>3. ClientFlags'
    BY <1>1, <1>18, Zenon DEF PeerTurns, ClientFlags
  <2> QED BY <1>18, <2>2, <2>3
          DEF PeerTurns, ClientInv, ClientHolds, SafeOnceStarted, ClientPlaces, ClientStates
<1> QED
  BY <1>3, <1>4, <1>5, <1>6, <1>7, <1>8, <1>9, <1>10, <1>11, <1>12, <1>13, <1>14, <1>15, <1>16,
     <1>17, <1>18 DEF ClientNext, StartStep, CheckDispatches

LEMMA ClientInductive == ClientSpec => []ClientInv
BY ClientInitial, ClientStep, PTL DEF ClientSpec

\* A connection that was started never makes its client free or read what is
\* not its own, in whatever order errors, ends of stream and the caller's
\* calls close it; what breaks it is only a stop of a client that had closed
\* itself, or a connection that never started.
THEOREM StartedIsSafe == ClientSpec => []SafeOnceStarted
BY ClientInductive, PTL DEF ClientInv

\* The registration in the epoll set, the stream, the caches and EPOLLOUT agree
\* with the state of the client, wherever in a start or in the dispatch of an
\* item it closed itself.
THEOREM ClientAgreement == ClientSpec => []ClientAgrees
BY ClientInductive, ClientInvAgrees, PTL
=============================================================================
