------------------------------ MODULE UvProofs -------------------------------
(***************************************************************************)
(* Theorems about UvServer, for any number of connections, frames and      *)
(* answers that a cache has room for.                                      *)
(***************************************************************************)
EXTENDS UvServer, SequenceTheorems, FiniteSetTheorems, TLAPS

-----------------------------------------------------------------------------
(* One session: what a send, the kernel and after_write make of it.        *)

\* A request in the queue lies in the cache, and something of it is still to
\* be sent.
QueueSound(r) == \A k \in 1 .. Len(r.queue) : /\ r.queue[k].from <= r.queue[k].next
                                            /\ r.queue[k].next < r.queue[k].to

\* Without an overlap one request at most is under way, and it holds the cache;
\* what is not sent of it are the last answers that were encoded.
OneRequest(r) ==
  /\ r.queue = <<>> \/ (Len(r.queue) = 1 /\ r.done = 0)
  /\ r.queue = <<>> => r.done = r.pos - r.offset
  /\ r.queue # <<>> => r.queue[1].from = r.offset /\ r.queue[1].to = r.pos

Unsent(r) ==
  IF r.queue = <<>> THEN Len(r.wire) = r.encoded
  ELSE /\ Len(r.wire) + (r.queue[1].to - r.queue[1].next) = r.encoded
       /\ \A j \in r.queue[1].next + 1 .. r.queue[1].to :
            r.block[j] = r.encoded - (r.queue[1].to - j)

Answers(r) == (r.handle = "open" /\ ~r.overlap) =>
                /\ \A i \in 1 .. Len(r.wire) : r.wire[i] = i
                /\ OneRequest(r)
                /\ r.peer # "reset" => Unsent(r)

Sound(r) == r \in UvSession /\ r.offset <= r.pos /\ QueueSound(r) /\ Answers(r)

\* What the loop and the user see of a session is the same in r and w.
Same(r, w) == /\ w.handle = r.handle /\ w.shut = r.shut /\ w.eof = r.eof
              /\ w.peer = r.peer /\ w.inbox = r.inbox

LEMMA Constants == /\ MaxConn \in Nat \ {0} /\ MaxFrames \in Nat \ {0} /\ AnswerRoom \in Nat \ {0}
                   /\ Conn \subseteq Nat \ {0} /\ Listener = 0 /\ Listener \notin Conn
BY UvAssumption DEF Conn, Listener

LEMMA SessionTypes ==
  ASSUME NEW r \in UvSession
  PROVE  /\ r.handle \in {"open", "closing", "lost"} /\ r.peer \in {"open", "fin", "reset"}
         /\ r.block \in [1 .. AnswerRoom -> 0 .. MaxFrames]
         /\ r.offset \in 0 .. AnswerRoom /\ r.pos \in 0 .. AnswerRoom
         /\ r.queue \in Seq(WriteReq) /\ r.done \in Nat
         /\ r.inbox \in Seq({"echo", "stop"})
         /\ r.encoded \in 0 .. MaxFrames /\ r.wire \in Seq(0 .. MaxFrames)
BY DEF UvSession

LEMMA RequestTypes ==
  ASSUME NEW q \in WriteReq
  PROVE  q.from \in 0 .. AnswerRoom /\ q.to \in 0 .. AnswerRoom /\ q.next \in 0 .. AnswerRoom
BY DEF WriteReq

\* The kernel took n answers of the request q at the head of the queue.
LEMMA PartSent ==
  ASSUME NEW r, Sound(r), r.queue # <<>>,
         NEW n \in 0 .. r.queue[1].to - r.queue[1].next
  PROVE  LET v == SubSeq(r.block, r.queue[1].next + 1, r.queue[1].next + n)
             w == r.wire \o v
         IN /\ w \in Seq(0 .. MaxFrames) /\ Len(w) = Len(r.wire) + n
            /\ \A i \in 1 .. Len(r.wire) : w[i] = r.wire[i]
            /\ \A i \in Len(r.wire) + 1 .. Len(w) : w[i] = r.block[r.queue[1].next + (i - Len(r.wire))]
<1> DEFINE q == r.queue[1]
           a == q.next
           v == SubSeq(r.block, a + 1, a + n)
           w == r.wire \o v
           l == Len(r.wire)
<1>1. r \in UvSession
  BY DEF Sound
<1>2. /\ r.queue \in Seq(WriteReq) /\ r.wire \in Seq(0 .. MaxFrames)
      /\ r.block \in [1 .. AnswerRoom -> 0 .. MaxFrames]
  BY <1>1, SessionTypes
<1>3. 1 \in 1 .. Len(r.queue) /\ q \in WriteReq /\ l \in Nat
  BY <1>2, EmptySeq, ElementOfSeq, LenProperties
<1>4. a \in Nat /\ n \in Nat /\ a + n <= AnswerRoom /\ AnswerRoom \in Nat
  <2>1. q.to \in 0 .. AnswerRoom /\ q.next \in 0 .. AnswerRoom /\ AnswerRoom \in Nat
    BY <1>3, RequestTypes, Constants
  <2> HIDE DEF q
  <2>2. n \in 0 .. q.to - q.next
    BY DEF q
  <2> QED BY <2>1, <2>2
<1> HIDE DEF a
<1>5. \A i \in a + 1 .. a + n : r.block[i] \in 0 .. MaxFrames
  BY <1>2, <1>4
<1>6. /\ v \in Seq(0 .. MaxFrames)
      /\ Len(v) = IF a + 1 <= a + n THEN a + n - (a + 1) + 1 ELSE 0
      /\ \A i \in 1 .. a + n - (a + 1) + 1 : v[i] = r.block[a + 1 + i - 1]
  BY <1>4, <1>5, SubSeqProperties
<1> HIDE DEF v
<1>7. Len(v) = n /\ \A i \in 1 .. n : v[i] = r.block[a + i]
  <2>1. Len(v) = n
    BY <1>4, <1>6
  <2>2. ASSUME NEW i \in 1 .. n PROVE v[i] = r.block[a + i]
    <3>1. i \in 1 .. a + n - (a + 1) + 1 /\ a + 1 + i - 1 = a + i
      BY <1>4
    <3> QED BY <3>1, <1>6
  <2> QED BY <2>1, <2>2
<1>8. /\ w \in Seq(0 .. MaxFrames) /\ Len(w) = l + Len(v)
      /\ \A i \in 1 .. l + Len(v) : w[i] = IF i <= l THEN r.wire[i] ELSE v[i - l]
  BY <1>2, <1>6, ConcatProperties
<1> HIDE DEF w
<1>9. \A i \in 1 .. l : w[i] = r.wire[i]
  <2> HIDE DEF l
  <2> QED BY <1>3, <1>4, <1>7, <1>8
<1>10. \A i \in l + 1 .. Len(w) : w[i] = r.block[a + (i - l)]
  <2> HIDE DEF l
  <2> SUFFICES ASSUME NEW i \in l + 1 .. Len(w) PROVE w[i] = r.block[a + (i - l)]
    OBVIOUS
  <2>1. i \in 1 .. l + Len(v) /\ ~(i <= l) /\ i - l \in 1 .. n
    BY <1>3, <1>4, <1>7, <1>8
  <2> QED BY <2>1, <1>7, <1>8
<1> QED BY <1>7, <1>8, <1>9, <1>10 DEF w, v, a

\* The place that answer number i has in the cache.
LEMMA PlaceOf ==
  ASSUME NEW l \in Nat, NEW n \in Nat, NEW a \in Nat, NEW b \in Nat, NEW e \in Nat,
         n <= b - a, l + (b - a) = e, NEW i \in 1 .. l + n, ~(i <= l)
  PROVE  /\ i \in l + 1 .. l + n /\ a + (i - l) \in a + 1 .. b
         /\ e - (b - (a + (i - l))) = i
OBVIOUS

LEMMA WriteSound ==
  ASSUME NEW r, Sound(r), NEW x \in Write(r)
  PROVE  Sound(x.to) /\ Same(r, x.to) /\ x.to.encoded = r.encoded
<1>1. r \in UvSession /\ r.offset <= r.pos /\ QueueSound(r) /\ Answers(r)
  BY DEF Sound
<1>2. CASE r.queue = <<>>
  <2>1. x = [to |-> r, feeds |-> FALSE]
    BY <1>2 DEF Write
  <2> QED BY <2>1 DEF Same
<1>3. CASE r.queue # <<>>
  <2> DEFINE q == r.queue[1]
             wire(n) == r.wire \o SubSeq(r.block, q.next + 1, q.next + n)
             f == [r EXCEPT !.queue = Tail(@), !.done = @ + (q.to - q.from)]
  <2>1. /\ r.queue \in Seq(WriteReq) /\ r.done \in Nat /\ r.wire \in Seq(0 .. MaxFrames)
        /\ r.encoded \in Nat /\ Len(r.wire) \in Nat /\ r.offset \in Nat /\ r.pos \in Nat
    BY <1>1, SessionTypes, Constants, LenProperties
  <2>2. /\ Len(r.queue) \in Nat \ {0} /\ Head(r.queue) = q /\ q \in WriteReq
        /\ Tail(r.queue) \in Seq(WriteReq) /\ Len(Tail(r.queue)) = Len(r.queue) - 1
        /\ \A k \in 1 .. Len(Tail(r.queue)) : Tail(r.queue)[k] = r.queue[k + 1]
    BY <1>3, <2>1, EmptySeq, HeadTailProperties, ElementOfSeq
  <2>3. /\ q.from \in 0 .. AnswerRoom /\ q.to \in 0 .. AnswerRoom /\ q.next \in 0 .. AnswerRoom
        /\ q.from \in Nat /\ q.to \in Nat /\ q.next \in Nat
        /\ q.from <= q.next /\ q.next < q.to
    <3>1. 1 \in 1 .. Len(r.queue)
      BY <2>2
    <3>2. q.from \in 0 .. AnswerRoom /\ q.to \in 0 .. AnswerRoom /\ q.next \in 0 .. AnswerRoom
      BY <2>2, RequestTypes
    <3> HIDE DEF q
    <3> QED BY <3>1, <3>2, <1>1, Constants DEF QueueSound, q
  <2>4. \/ /\ r.peer = "reset" /\ x.to = [f EXCEPT !.broken = TRUE, !.out = FALSE]
        \/ /\ r.peer # "reset" /\ x.to = [f EXCEPT !.wire = wire(q.to - q.next)]
        \/ \E n \in 0 .. q.to - q.next - 1 :
             r.peer # "reset" /\ x.to = [r EXCEPT !.wire = wire(n), !.queue[1].next = @ + n, !.out = TRUE]
    <3> DEFINE part(n) == [r EXCEPT !.wire = wire(n), !.queue[1].next = @ + n, !.out = TRUE]
    <3>1. x \in IF r.peer = "reset"
                THEN {[to |-> [f EXCEPT !.broken = TRUE, !.out = FALSE], feeds |-> TRUE]}
                ELSE {[to |-> [f EXCEPT !.wire = wire(q.to - q.next)], feeds |-> TRUE]}
                     \cup {[to |-> part(n), feeds |-> FALSE] : n \in 0 .. q.to - q.next - 1}
      BY <1>3, <2>2, Zenon DEF Write
    <3> HIDE DEF f, wire, part
    <3>2. CASE r.peer = "reset"
      BY <3>1, <3>2
    <3>3. CASE r.peer # "reset"
      <4>1. \/ x = [to |-> [f EXCEPT !.wire = wire(q.to - q.next)], feeds |-> TRUE]
            \/ \E n \in 0 .. q.to - q.next - 1 : x = [to |-> part(n), feeds |-> FALSE]
        BY <3>1, <3>3
      <4>2. \/ x.to = [f EXCEPT !.wire = wire(q.to - q.next)]
            \/ \E n \in 0 .. q.to - q.next - 1 : x.to = part(n)
        BY <4>1
      <4> QED BY <3>3, <4>2 DEF part
    <3> QED BY <3>2, <3>3
  <2> DEFINE d == r.done + (q.to - q.from)
  <2> HIDE DEF q
  <2>5. d \in Nat
    BY <2>1, <2>3
  <2> HIDE DEF d
  <2>6. /\ f.queue = Tail(r.queue) /\ f.done = d /\ f.block = r.block /\ f.wire = r.wire
        /\ f.offset = r.offset /\ f.pos = r.pos /\ f.overlap = r.overlap /\ f.broken = r.broken
        /\ f.encoded = r.encoded /\ f.out = r.out /\ Same(r, f)
    BY <1>1 DEF UvSession, Same, d
  <2>7. f \in UvSession
    <3>1. f = [r EXCEPT !.queue = Tail(r.queue), !.done = d]
      BY DEF d
    <3> QED BY <1>1, <3>1, <2>2, <2>5, Zenon DEF UvSession, d
  <2>8. f.offset <= f.pos /\ QueueSound(f)
    <3>1. \A k \in 1 .. Len(f.queue) : k + 1 \in 1 .. Len(r.queue) /\ f.queue[k] = r.queue[k + 1]
      BY <2>2, <2>6
    <3> QED BY <1>1, <2>6, <3>1 DEF QueueSound
  \* The only request under way is finished.
  <2>9. Answers(r) /\ r.handle = "open" /\ ~r.overlap =>
          /\ f.queue = <<>> /\ d = r.pos - r.offset
          /\ \A i \in 1 .. Len(r.wire) : r.wire[i] = i
    <3> SUFFICES ASSUME Answers(r), r.handle = "open", ~r.overlap
                 PROVE  /\ f.queue = <<>> /\ d = r.pos - r.offset
                        /\ \A i \in 1 .. Len(r.wire) : r.wire[i] = i
      OBVIOUS
    <3>1. /\ Len(r.queue) = 1 /\ r.done = 0 /\ q.from = r.offset /\ q.to = r.pos
          /\ \A i \in 1 .. Len(r.wire) : r.wire[i] = i
      BY <1>3 DEF Answers, OneRequest, q
    <3>2. f.queue = <<>>
      BY <3>1, <2>2, <2>6, EmptySeq
    <3> QED BY <3>1, <3>2, <2>1 DEF d
  <2> HIDE DEF f
  <2> DEFINE w == x.to
  <2>10. CASE r.peer = "reset" /\ x.to = [f EXCEPT !.broken = TRUE, !.out = FALSE]
    <3>1. /\ w.queue = f.queue /\ w.done = d /\ w.wire = r.wire /\ w.offset = r.offset
          /\ w.pos = r.pos /\ w.overlap = r.overlap /\ w.encoded = r.encoded /\ Same(r, w)
      BY <2>6, <2>7, <2>10 DEF UvSession, Same
    <3>2. w \in UvSession
      BY <2>7, <2>10, Zenon DEF UvSession
    <3>3. QueueSound(w)
      BY <2>8, <3>1 DEF QueueSound
    <3>4. Answers(w)
      <4> SUFFICES ASSUME w.handle = "open", ~w.overlap
                   PROVE  /\ \A i \in 1 .. Len(w.wire) : w.wire[i] = i
                          /\ OneRequest(w) /\ w.peer = "reset"
        BY DEF Answers
      <4>1. /\ f.queue = <<>> /\ d = r.pos - r.offset
            /\ \A i \in 1 .. Len(r.wire) : r.wire[i] = i
        BY <1>1, <2>9, <3>1 DEF Same
      <4> QED BY <4>1, <3>1, <2>10 DEF OneRequest, Same
    <3> QED BY <2>6, <2>8, <3>1, <3>2, <3>3, <3>4 DEF Sound
  <2>11. CASE r.peer # "reset" /\ x.to = [f EXCEPT !.wire = wire(q.to - q.next)]
    <3> DEFINE n == q.to - q.next
    <3>1. n \in 0 .. r.queue[1].to - r.queue[1].next /\ n \in Nat
      BY <2>3 DEF q
    <3>2. /\ wire(n) \in Seq(0 .. MaxFrames) /\ Len(wire(n)) = Len(r.wire) + n
          /\ \A i \in 1 .. Len(r.wire) : wire(n)[i] = r.wire[i]
          /\ \A i \in Len(r.wire) + 1 .. Len(wire(n)) :
               wire(n)[i] = r.block[q.next + (i - Len(r.wire))]
      BY <1>3, <3>1, PartSent DEF q
    <3>3. /\ w.queue = f.queue /\ w.done = d /\ w.wire = wire(n) /\ w.offset = r.offset
          /\ w.pos = r.pos /\ w.overlap = r.overlap /\ w.encoded = r.encoded /\ Same(r, w)
      BY <2>6, <2>7, <2>11 DEF UvSession, Same
    <3>4. w \in UvSession
      BY <2>7, <2>11, <3>2, Zenon DEF UvSession
    <3>5. QueueSound(w)
      BY <2>8, <3>3 DEF QueueSound
    <3> HIDE DEF wire
    <3>6. Answers(w)
      <4> SUFFICES ASSUME w.handle = "open", ~w.overlap
                   PROVE  /\ \A i \in 1 .. Len(w.wire) : w.wire[i] = i
                          /\ OneRequest(w) /\ Unsent(w)
        BY DEF Answers
      <4>1. /\ f.queue = <<>> /\ d = r.pos - r.offset
            /\ \A i \in 1 .. Len(r.wire) : r.wire[i] = i
        BY <1>1, <2>9, <3>3 DEF Same
      <4>2. Unsent(r)
        BY <1>1, <2>11, <3>3 DEF Answers, Same
      <4>3. /\ Len(r.wire) + n = r.encoded
            /\ \A j \in q.next + 1 .. q.to : r.block[j] = r.encoded - (q.to - j)
        BY <1>3, <4>2 DEF Unsent, q
      <4>4. ASSUME NEW i \in 1 .. Len(w.wire) PROVE w.wire[i] = i
        <5> DEFINE l == Len(r.wire)
        <5>1. CASE i <= l
          BY <5>1, <4>1, <3>2, <3>3
        <5>2. CASE ~(i <= l)
          <6> DEFINE b == q.to
                     a == q.next
                     e == r.encoded
          <6>1. l \in Nat /\ n \in Nat /\ a \in Nat /\ b \in Nat /\ e \in Nat
            BY <2>1, <2>3, <3>1
          <6>2. n <= b - a /\ l + (b - a) = e /\ i \in 1 .. l + n /\ Len(wire(n)) = l + n
            BY <2>1, <2>3, <3>1, <3>2, <3>3, <4>3
          <6> HIDE DEF a, b, e, l
          <6>3. /\ i \in l + 1 .. l + n /\ a + (i - l) \in a + 1 .. b
                /\ e - (b - (a + (i - l))) = i
            BY <5>2, <6>1, <6>2, PlaceOf
          <6>4. w.wire[i] = r.block[a + (i - l)] /\ r.block[a + (i - l)] = e - (b - (a + (i - l)))
            BY <6>2, <6>3, <3>2, <3>3, <4>3 DEF a, b, e, l
          <6> QED BY <6>3, <6>4
        <5> QED BY <5>1, <5>2
      <4> QED BY <4>1, <4>3, <4>4, <3>2, <3>3 DEF OneRequest, Unsent
    <3> QED BY <2>6, <2>8, <3>3, <3>4, <3>5, <3>6 DEF Sound
  <2>12. ASSUME NEW n \in 0 .. q.to - q.next - 1, r.peer # "reset",
                x.to = [r EXCEPT !.wire = wire(n), !.queue[1].next = @ + n, !.out = TRUE]
         PROVE  Sound(x.to) /\ Same(r, x.to) /\ x.to.encoded = r.encoded
    <3> DEFINE m == q.next + n
               p == [q EXCEPT !.next = m]
               u == [r.queue EXCEPT ![1] = p]
    <3>1. n \in 0 .. r.queue[1].to - r.queue[1].next /\ n \in Nat /\ m \in 0 .. AnswerRoom
          /\ q.from <= m /\ m < q.to /\ n <= q.to - q.next
      BY <2>3, Constants DEF q
    <3>2. /\ wire(n) \in Seq(0 .. MaxFrames) /\ Len(wire(n)) = Len(r.wire) + n
          /\ \A i \in 1 .. Len(r.wire) : wire(n)[i] = r.wire[i]
          /\ \A i \in Len(r.wire) + 1 .. Len(wire(n)) :
               wire(n)[i] = r.block[q.next + (i - Len(r.wire))]
      BY <1>3, <3>1, PartSent DEF q
    <3>3. p \in WriteReq /\ p.from = q.from /\ p.to = q.to /\ p.next = m
      BY <2>2, <3>1, Zenon DEF WriteReq
    <3>4. u \in Seq(WriteReq) /\ Len(u) = Len(r.queue) /\ u # <<>>
          /\ \A k \in 1 .. Len(r.queue) : u[k] = IF k = 1 THEN p ELSE r.queue[k]
      <4>1. 1 \in 1 .. Len(r.queue)
        BY <2>2
      <4>2. u \in Seq(WriteReq) /\ Len(u) = Len(r.queue)
            /\ \A k \in 1 .. Len(r.queue) : u[k] = IF k = 1 THEN p ELSE r.queue[k]
        BY <4>1, <3>3, <2>1, ExceptSeq
      <4> QED BY <4>2, <2>2, EmptySeq
    <3>5. w = [r EXCEPT !.wire = wire(n), !.queue = u, !.out = TRUE]
      BY <2>12 DEF q
    <3> HIDE DEF wire, u, p, m
    <3>6. /\ w.queue = u /\ w.done = r.done /\ w.wire = wire(n) /\ w.offset = r.offset
          /\ w.pos = r.pos /\ w.overlap = r.overlap /\ w.encoded = r.encoded
          /\ w.block = r.block /\ Same(r, w)
      BY <1>1, <3>5 DEF UvSession, Same
    <3>7. w \in UvSession
      BY <1>1, <3>2, <3>4, <3>5, Zenon DEF UvSession
    <3>8. QueueSound(w)
      BY <1>1, <3>1, <3>3, <3>4, <3>6 DEF QueueSound
    <3>9. Answers(w)
      <4> SUFFICES ASSUME w.handle = "open", ~w.overlap
                   PROVE  /\ \A i \in 1 .. Len(w.wire) : w.wire[i] = i
                          /\ OneRequest(w) /\ Unsent(w)
        BY DEF Answers
      <4>1. OneRequest(r) /\ Unsent(r) /\ \A i \in 1 .. Len(r.wire) : r.wire[i] = i
        BY <1>1, <2>12, <3>6 DEF Answers, Same
      <4>2. /\ Len(r.wire) + (q.to - q.next) = r.encoded
            /\ \A j \in q.next + 1 .. q.to : r.block[j] = r.encoded - (q.to - j)
        BY <1>3, <4>1 DEF Unsent, q
      <4>3. ASSUME NEW i \in 1 .. Len(w.wire) PROVE w.wire[i] = i
        <5> DEFINE l == Len(r.wire)
        <5>1. CASE i <= l
          BY <5>1, <4>1, <3>2, <3>6
        <5>2. CASE ~(i <= l)
          <6> DEFINE b == q.to
                     a == q.next
                     e == r.encoded
          <6>1. l \in Nat /\ n \in Nat /\ a \in Nat /\ b \in Nat /\ e \in Nat
            BY <2>1, <2>3, <3>1
          <6>2. n <= b - a /\ l + (b - a) = e /\ i \in 1 .. l + n /\ Len(wire(n)) = l + n
            <7>1. /\ Len(w.wire) = Len(wire(n)) /\ Len(wire(n)) = Len(r.wire) + n
                  /\ Len(r.wire) + (q.to - q.next) = r.encoded /\ n <= q.to - q.next
              BY <3>1, <3>2, <3>6, <4>2, Zenon
            <7> QED BY <7>1
          <6> HIDE DEF a, b, e, l
          <6>3. /\ i \in l + 1 .. l + n /\ a + (i - l) \in a + 1 .. b
                /\ e - (b - (a + (i - l))) = i
            BY <5>2, <6>1, <6>2, PlaceOf
          <6>4. w.wire[i] = r.block[a + (i - l)] /\ r.block[a + (i - l)] = e - (b - (a + (i - l)))
            BY <6>2, <6>3, <3>2, <3>6, <4>2 DEF a, b, e, l
          <6> QED BY <6>3, <6>4
        <5> QED BY <5>1, <5>2
      <4>4. u[1] = p /\ Len(u) = 1 /\ r.done = 0
        BY <1>3, <2>2, <3>4, <4>1 DEF OneRequest
      <4>5. OneRequest(w)
        BY <1>3, <4>1, <4>4, <3>3, <3>4, <3>6 DEF OneRequest, q
      <4>6. Unsent(w)
        <5>1. Len(w.wire) + (q.to - m) = w.encoded
          <6>1. /\ Len(w.wire) = Len(r.wire) + n /\ w.encoded = r.encoded
                /\ Len(r.wire) + (q.to - q.next) = r.encoded
            BY <4>2, <3>2, <3>6
          <6>2. m = q.next + n
            BY DEF m
          <6>3. Len(r.wire) \in Nat /\ n \in Nat /\ q.to \in Nat /\ q.next \in Nat
            BY <2>1, <2>3, <3>1
          <6> DEFINE l == Len(r.wire)
                     v == Len(w.wire)
                     b == q.to
                     a == q.next
                     e == w.encoded
          <6>4. l \in Nat /\ n \in Nat /\ b \in Nat /\ a \in Nat /\ v = l + n /\ l + (b - a) = e
                /\ m = a + n
            BY <6>1, <6>2, <6>3
          <6> HIDE DEF l, v, b, a, e
          <6>5. v + (b - m) = e
            BY <6>4
          <6> QED BY <6>5 DEF v, b, e
        <5>2. \A j \in m + 1 .. q.to : j \in q.next + 1 .. q.to
          BY <3>1, <2>3 DEF m
        <5> QED BY <5>1, <5>2, <4>2, <4>4, <3>3, <3>4, <3>6 DEF Unsent
      <4> QED BY <4>3, <4>5, <4>6
    <3> QED BY <1>1, <3>6, <3>7, <3>8, <3>9 DEF Sound
  <2> QED BY <2>4, <2>10, <2>11, <2>12
<1> QED BY <1>2, <1>3

\* A record that differs only in what the loop sees of it is as sound.
SameData(r, w) == /\ w.queue = r.queue /\ w.done = r.done /\ w.wire = r.wire
                  /\ w.offset = r.offset /\ w.pos = r.pos /\ w.block = r.block
                  /\ w.encoded = r.encoded /\ w.overlap = r.overlap

LEMMA DataSound ==
  ASSUME NEW r, Sound(r), NEW w \in UvSession, SameData(r, w),
         w.handle = "open" => r.handle = "open",
         r.peer = "reset" => w.peer = "reset"
  PROVE  Sound(w)
<1>1. QueueSound(w) /\ w.offset <= w.pos
  BY DEF Sound, SameData, QueueSound
<1>2. Answers(w)
  <2> SUFFICES ASSUME w.handle = "open", ~w.overlap
               PROVE  /\ \A i \in 1 .. Len(w.wire) : w.wire[i] = i
                      /\ OneRequest(w)
                      /\ w.peer # "reset" => Unsent(w)
    BY DEF Answers
  <2>1. /\ \A i \in 1 .. Len(r.wire) : r.wire[i] = i
        /\ OneRequest(r)
        /\ r.peer # "reset" => Unsent(r)
    BY DEF SameData, Sound, Answers
  <2> QED BY <2>1 DEF SameData, OneRequest, Unsent
<1> QED BY <1>1, <1>2 DEF Sound

LEMMA AfterWritesSound ==
  ASSUME NEW r, Sound(r)
  PROVE  /\ Sound(AfterWrites(r)) /\ Same(r, AfterWrites(r))
         /\ AfterWrites(r).encoded = r.encoded /\ AfterWrites(r).queue = r.queue
<1> DEFINE o == IF r.offset + r.done > r.pos THEN r.pos ELSE r.offset + r.done
           w == AfterWrites(r)
<1>1. r \in UvSession /\ r.offset <= r.pos /\ QueueSound(r) /\ Answers(r)
  BY DEF Sound
<1>2. /\ r.offset \in Nat /\ r.pos \in Nat /\ r.pos <= AnswerRoom /\ r.done \in Nat
      /\ AnswerRoom \in Nat
  BY <1>1, SessionTypes, Constants
<1>3. o \in 0 .. AnswerRoom /\ o <= r.pos
  BY <1>1, <1>2
<1>4. w = [r EXCEPT !.offset = o, !.done = 0, !.broken = FALSE]
  BY DEF AfterWrites
<1>5. r.done = r.pos - r.offset => o = r.pos
  BY <1>1, <1>2
<1>6. r.done = 0 => o = r.offset
  BY <1>1, <1>2
<1> HIDE DEF o, w
<1>7. w \in UvSession
  BY <1>1, <1>3, <1>4, Zenon DEF UvSession
<1>8. /\ w.queue = r.queue /\ w.done = 0 /\ w.wire = r.wire /\ w.offset = o /\ w.pos = r.pos
      /\ w.block = r.block /\ w.encoded = r.encoded /\ w.overlap = r.overlap /\ Same(r, w)
  BY <1>1, <1>4 DEF UvSession, Same
<1>9. QueueSound(w) /\ w.offset <= w.pos
  BY <1>1, <1>3, <1>8 DEF QueueSound
<1>10. Answers(w)
  <2> SUFFICES ASSUME w.handle = "open", ~w.overlap
               PROVE  /\ \A i \in 1 .. Len(w.wire) : w.wire[i] = i
                      /\ OneRequest(w)
                      /\ w.peer # "reset" => Unsent(w)
    BY DEF Answers
  <2>1. /\ \A i \in 1 .. Len(r.wire) : r.wire[i] = i
        /\ OneRequest(r)
        /\ r.peer # "reset" => Unsent(r)
    BY <1>1, <1>8 DEF Answers, Same
  <2>2. CASE r.queue = <<>>
    BY <2>1, <2>2, <1>2, <1>5, <1>8 DEF OneRequest, Unsent, Same
  <2>3. CASE r.queue # <<>>
    BY <2>1, <2>3, <1>6, <1>8 DEF OneRequest, Unsent, Same
  <2> QED BY <2>2, <2>3
<1> QED BY <1>7, <1>8, <1>9, <1>10 DEF Sound, w

\* encode_on_before
LEMMA RewoundSound ==
  ASSUME NEW r, Sound(r)
  PROVE  /\ Sound(Rewound(r)) /\ Same(r, Rewound(r)) /\ Rewound(r).encoded = r.encoded
         /\ Rewound(r).queue = r.queue /\ Rewound(r).done = r.done /\ Rewound(r).wire = r.wire
         /\ Rewound(r).overlap = r.overlap /\ Rewound(r).broken = r.broken
         /\ Rewound(r).offset = Rewound(r).pos => Rewound(r).pos = 0
<1>1. r \in UvSession /\ r.offset <= r.pos /\ QueueSound(r) /\ Answers(r)
  BY DEF Sound
<1>2. r.offset \in Nat /\ r.pos \in Nat /\ r.queue \in Seq(WriteReq) /\ AnswerRoom \in Nat
  BY <1>1, SessionTypes, Constants
<1>3. CASE r.offset # r.pos
  BY <1>3 DEF Rewound, Same
<1>4. CASE r.offset = r.pos
  <2> DEFINE w == Rewound(r)
  <2>1. w = [r EXCEPT !.offset = 0, !.pos = 0]
    BY <1>4 DEF Rewound
  <2> HIDE DEF w
  <2>2. 0 \in 0 .. AnswerRoom
    BY <1>2
  <2>3. w \in UvSession
    BY <1>1, <2>1, <2>2, Zenon DEF UvSession
  <2>4. /\ w.queue = r.queue /\ w.done = r.done /\ w.wire = r.wire /\ w.offset = 0 /\ w.pos = 0
        /\ w.block = r.block /\ w.encoded = r.encoded /\ w.overlap = r.overlap
        /\ w.broken = r.broken /\ Same(r, w)
    BY <1>1, <2>1 DEF UvSession, Same
  <2>5. QueueSound(w) /\ w.offset <= w.pos
    BY <1>1, <2>4 DEF QueueSound
  <2>6. Answers(w)
    <3> SUFFICES ASSUME w.handle = "open", ~w.overlap
                 PROVE  /\ \A i \in 1 .. Len(w.wire) : w.wire[i] = i
                        /\ OneRequest(w)
                        /\ w.peer # "reset" => Unsent(w)
      BY DEF Answers
    <3>1. /\ \A i \in 1 .. Len(r.wire) : r.wire[i] = i
          /\ OneRequest(r)
          /\ r.peer # "reset" => Unsent(r)
      BY <1>1, <2>4 DEF Answers, Same
    \* A request that is under way would hold something of the cache.
    <3>2. r.queue = <<>>
      <4> SUFFICES ASSUME r.queue # <<>> PROVE FALSE
        OBVIOUS
      <4>1. 1 \in 1 .. Len(r.queue) /\ r.queue[1] \in WriteReq
        BY <1>2, EmptySeq, ElementOfSeq
      <4>2. r.queue[1].from = r.queue[1].to /\ r.queue[1].from < r.queue[1].to
        BY <4>1, <3>1, <1>1, <1>2, <1>4, RequestTypes DEF OneRequest, QueueSound
      <4> QED BY <4>2, <3>1, <1>2 DEF OneRequest
    <3> QED BY <3>1, <3>2, <1>2, <1>4, <2>4 DEF OneRequest, Unsent, Same
  <2> QED BY <2>3, <2>4, <2>5, <2>6 DEF Sound, w
<1> QED BY <1>3, <1>4

\* encode_process, of an answer that fits
LEMMA EncodedFacts ==
  ASSUME NEW r, Sound(r), r.pos # AnswerRoom, r.encoded < MaxFrames
  PROVE  LET w == Encoded(r)
         IN /\ w \in UvSession /\ Same(r, w)
            /\ w.block = [r.block EXCEPT ![r.pos + 1] = r.encoded + 1]
            /\ w.pos = r.pos + 1 /\ w.encoded = r.encoded + 1
            /\ w.queue = r.queue /\ w.done = r.done /\ w.wire = r.wire /\ w.offset = r.offset
            /\ w.overlap = r.overlap /\ w.broken = r.broken
<1> DEFINE w == Encoded(r)
           b == [r.block EXCEPT ![r.pos + 1] = r.encoded + 1]
           p == r.pos + 1
           e == r.encoded + 1
<1>1. r \in UvSession
  BY DEF Sound
<1>2. /\ r.block \in [1 .. AnswerRoom -> 0 .. MaxFrames]
      /\ r.pos \in Nat /\ r.pos <= AnswerRoom /\ r.encoded \in Nat
      /\ AnswerRoom \in Nat /\ MaxFrames \in Nat
  BY <1>1, SessionTypes, Constants
<1>3. p \in 0 .. AnswerRoom /\ e \in 0 .. MaxFrames /\ p \in 1 .. AnswerRoom
  BY <1>2
<1>4. b \in [1 .. AnswerRoom -> 0 .. MaxFrames]
  BY <1>2, <1>3
<1>5. w = [r EXCEPT !.block = b, !.pos = p, !.encoded = e]
  BY DEF Encoded
<1> HIDE DEF w, b, p, e
<1>6. w \in UvSession
  BY <1>1, <1>3, <1>4, <1>5, Zenon DEF UvSession
<1>7. /\ Same(r, w) /\ w.block = b /\ w.pos = p /\ w.encoded = e
      /\ w.queue = r.queue /\ w.done = r.done /\ w.wire = r.wire /\ w.offset = r.offset
      /\ w.overlap = r.overlap /\ w.broken = r.broken
  BY <1>1, <1>5 DEF UvSession, Same
<1> QED BY <1>6, <1>7 DEF w, b, p, e

\* The answer that fits is handed to uv_write with all the cache holds.
LEMMA QueuedSound ==
  ASSUME NEW r, Sound(r), NEW o \in {r.overlap \/ r.queue # <<>> \/ r.done # 0},
         r.pos # AnswerRoom, r.encoded < MaxFrames, r.offset = r.pos => r.pos = 0
  PROVE  LET f == Encoded(r)
             q == [from |-> f.offset, to |-> f.pos, next |-> f.offset]
             w == [f EXCEPT !.queue = Append(@, q), !.overlap = o]
         IN Sound(w) /\ Same(r, w) /\ w.encoded = r.encoded + 1
<1> DEFINE f == Encoded(r)
           q == [from |-> f.offset, to |-> f.pos, next |-> f.offset]
           u == Append(r.queue, q)
           w == [f EXCEPT !.queue = Append(@, q), !.overlap = o]
<1>1. r \in UvSession /\ r.offset <= r.pos /\ QueueSound(r) /\ Answers(r)
  BY DEF Sound
<1>2. /\ f \in UvSession /\ Same(r, f)
      /\ f.block = [r.block EXCEPT ![r.pos + 1] = r.encoded + 1]
      /\ f.pos = r.pos + 1 /\ f.encoded = r.encoded + 1
      /\ f.queue = r.queue /\ f.done = r.done /\ f.wire = r.wire /\ f.offset = r.offset
  BY EncodedFacts
<1> HIDE DEF f
<1>3. /\ r.block \in [1 .. AnswerRoom -> 0 .. MaxFrames] /\ r.queue \in Seq(WriteReq)
      /\ r.pos \in Nat /\ r.offset \in Nat /\ r.encoded \in Nat /\ r.done \in Nat
      /\ f.pos \in 0 .. AnswerRoom /\ f.offset \in 0 .. AnswerRoom
      /\ r.wire \in Seq(0 .. MaxFrames) /\ Len(r.wire) \in Nat /\ AnswerRoom \in Nat
  <2>1. AnswerRoom \in Nat /\ MaxFrames \in Nat
    BY Constants
  <2>2. /\ r.block \in [1 .. AnswerRoom -> 0 .. MaxFrames] /\ r.queue \in Seq(WriteReq)
        /\ r.pos \in 0 .. AnswerRoom /\ r.offset \in 0 .. AnswerRoom
        /\ r.encoded \in 0 .. MaxFrames /\ r.done \in Nat /\ r.wire \in Seq(0 .. MaxFrames)
    BY <1>1, SessionTypes
  <2>3. f.pos \in 0 .. AnswerRoom /\ f.offset \in 0 .. AnswerRoom
    BY <1>2, SessionTypes
  <2>4. Len(r.wire) \in Nat
    BY <2>2, LenProperties
  <2> QED BY <2>1, <2>2, <2>3, <2>4
<1>4. q \in WriteReq /\ q.from = r.offset /\ q.next = r.offset /\ q.to = r.pos + 1
  BY <1>2, <1>3 DEF WriteReq
<1> HIDE DEF q
<1>5. /\ u \in Seq(WriteReq) /\ Len(u) = Len(r.queue) + 1 /\ Len(r.queue) \in Nat /\ u # <<>>
      /\ \A k \in 1 .. Len(r.queue) : u[k] = r.queue[k]
      /\ u[Len(r.queue) + 1] = q
  <2>1. q \in WriteReq /\ r.queue \in Seq(WriteReq) /\ Len(r.queue) \in Nat
    BY <1>3, <1>4, LenProperties
  <2>2. /\ u \in Seq(WriteReq) /\ Len(u) = Len(r.queue) + 1
        /\ \A k \in 1 .. Len(r.queue) : u[k] = r.queue[k]
        /\ u[Len(r.queue) + 1] = q
    BY ONLY <2>1, AppendProperties
  <2>3. u # <<>>
    <3>1. Len(<<>>) = 0
      BY EmptySeq
    <3> HIDE DEF u
    <3> QED BY <2>1, <2>2, <3>1
  <2> QED BY <2>1, <2>2, <2>3, Zenon
<1>6. w = [f EXCEPT !.queue = u, !.overlap = o]
  BY <1>2
<1>7. o \in BOOLEAN
  OBVIOUS
<1> HIDE DEF u, w
<1>8. w \in UvSession
  BY <1>2, <1>5, <1>6, <1>7, Zenon DEF UvSession
<1>9. /\ w.queue = u /\ w.done = r.done /\ w.wire = r.wire /\ w.offset = r.offset
      /\ w.pos = r.pos + 1 /\ w.block = f.block /\ w.encoded = r.encoded + 1 /\ w.overlap = o
      /\ Same(r, w)
  BY <1>2, <1>6 DEF UvSession, Same
<1>10. w.offset <= w.pos /\ QueueSound(w)
  <2>1. w.offset <= w.pos
    BY <1>1, <1>3, <1>9
  <2>2. ASSUME NEW k \in 1 .. Len(u) PROVE u[k].from <= u[k].next /\ u[k].next < u[k].to
    <3>1. CASE k \in 1 .. Len(r.queue)
      BY <3>1, <1>1, <1>5 DEF QueueSound
    <3>2. CASE k = Len(r.queue) + 1
      BY <3>2, <1>1, <1>3, <1>4, <1>5
    <3> QED BY <3>1, <3>2, <1>5
  <2> QED BY <2>1, <2>2, <1>9 DEF QueueSound
<1>11. Answers(w)
  <2> SUFFICES ASSUME w.handle = "open", ~w.overlap
               PROVE  /\ \A i \in 1 .. Len(w.wire) : w.wire[i] = i
                      /\ OneRequest(w)
                      /\ w.peer # "reset" => Unsent(w)
    BY DEF Answers
  <2>1. r.queue = <<>> /\ r.done = 0 /\ ~r.overlap
    BY <1>9
  <2>2. /\ \A i \in 1 .. Len(r.wire) : r.wire[i] = i
        /\ OneRequest(r)
        /\ r.peer # "reset" => Unsent(r)
    BY <2>1, <1>1, <1>9 DEF Answers, Same
  \* The cache was empty, and holds this answer only.
  <2>3. r.offset = 0 /\ r.pos = 0
    BY <2>1, <2>2, <1>3 DEF OneRequest
  <2>4. Len(u) = 1 /\ u[1] = q /\ u # <<>>
    <3>1. Len(r.queue) = 0 /\ Len(<<>>) = 0
      BY <2>1, EmptySeq
    <3>2. Len(u) = 1 /\ u[1] = q
      BY <3>1, <1>5
    <3> QED BY <3>2, <1>5
  <2>5. w.peer # "reset" => Unsent(w)
    <3> SUFFICES ASSUME r.peer # "reset" PROVE Unsent(w)
      BY <1>9 DEF Same
    <3>1. Len(r.wire) = r.encoded
      BY <2>1, <2>2 DEF Unsent
    <3>2. ASSUME NEW j \in q.next + 1 .. q.to PROVE w.block[j] = w.encoded - (q.to - j)
      <4>1. j = 1 /\ q.to = 1
        BY <2>3, <1>4
      <4>2. f.block[1] = r.encoded + 1
        <5>1. 1 \in 1 .. AnswerRoom /\ r.pos + 1 = 1
          BY <2>3, <1>2, <1>3
        <5> QED BY <5>1, <1>2, <1>3
      <4> QED BY <4>1, <4>2, <1>3, <1>9
    <3> QED BY <3>1, <3>2, <2>3, <2>4, <1>3, <1>4, <1>9 DEF Unsent
  <2> QED BY <2>1, <2>2, <2>3, <2>4, <2>5, <1>4, <1>9 DEF OneRequest
<1> QED BY <1>8, <1>9, <1>10, <1>11 DEF Sound, w, q, f

\* send_data keeps a session as it should be, whatever the kernel takes.
LEMMA SendSound ==
  ASSUME NEW r, Sound(r), r.encoded < MaxFrames, NEW x \in Send(r)
  PROVE  /\ Sound(x.to) /\ Same(r, x.to)
         /\ x.to.encoded \in {r.encoded, r.encoded + 1}
         /\ x.feeds => r.handle = "open"
<1> DEFINE new == Rewound(r)
           o == r.overlap \/ r.queue # <<>> \/ r.done # 0
           full == Encoded(new)
           q == [from |-> full.offset, to |-> full.pos, next |-> full.offset]
           queued == [full EXCEPT !.queue = Append(@, q), !.overlap = o]
<1>1. /\ Sound(new) /\ Same(r, new) /\ new.encoded = r.encoded /\ new.queue = r.queue
      /\ new.done = r.done /\ new.overlap = r.overlap
      /\ new.offset = new.pos => new.pos = 0
  BY RewoundSound
<1> HIDE DEF new
<1>2. CASE new.pos = AnswerRoom
  <2>1. x = [to |-> new, feeds |-> FALSE]
    BY <1>2 DEF Send, new
  <2> QED BY <2>1, <1>1
<1>3. CASE new.pos # AnswerRoom
  <2>1. /\ full \in UvSession /\ Same(new, full)
        /\ full.pos = new.pos + 1 /\ full.encoded = new.encoded + 1
        /\ full.queue = new.queue /\ full.done = new.done /\ full.wire = new.wire
        /\ full.offset = new.offset /\ full.overlap = new.overlap
    BY <1>1, <1>3, EncodedFacts
  <2>2. Sound(queued) /\ Same(new, queued) /\ queued.encoded = new.encoded + 1
    <3>1. o \in {new.overlap \/ new.queue # <<>> \/ new.done # 0}
      BY <1>1
    <3> HIDE DEF o
    <3> QED BY <3>1, <1>1, <1>3, QueuedSound
  <2>3. x \in IF r.handle # "open" THEN {[to |-> full, feeds |-> FALSE]}
              ELSE IF r.queue = <<>> /\ ~r.broken THEN Write(queued)
              ELSE {[to |-> [queued EXCEPT !.out = TRUE], feeds |-> FALSE]}
    <3>1. full.overlap = r.overlap
      BY <2>1, <1>1
    <3>2. [full EXCEPT !.queue = Append(@, q), !.overlap = @ \/ r.queue # <<>> \/ r.done # 0] = queued
      BY <3>1
    <3> QED BY <1>3, <3>2, Zenon DEF Send, new
  <2> HIDE DEF queued
  <2>4. CASE r.handle # "open"
    <3>1. x = [to |-> full, feeds |-> FALSE]
      BY <2>3, <2>4
    <3>2. QueueSound(full) /\ full.offset <= full.pos
      <4>1. new.offset \in Nat /\ new.pos \in Nat
        BY <1>1, SessionTypes, Constants DEF Sound
      <4> QED BY <4>1, <2>1, <1>1 DEF Sound, QueueSound
    <3>3. Answers(full)
      BY <2>1, <2>4, <1>1 DEF Answers, Same
    <3> QED BY <3>1, <3>2, <3>3, <2>1, <1>1 DEF Sound, Same
  <2>5. CASE r.handle = "open" /\ r.queue = <<>> /\ ~r.broken
    <3>1. x \in Write(queued)
      BY <2>3, <2>5
    <3>2. Sound(x.to) /\ Same(queued, x.to) /\ x.to.encoded = queued.encoded
      BY <3>1, <2>2, WriteSound
    <3> QED BY <3>2, <2>2, <2>5, <1>1 DEF Same
  <2>6. CASE r.handle = "open" /\ ~(r.queue = <<>> /\ ~r.broken)
    <3> DEFINE w == [queued EXCEPT !.out = TRUE]
    <3>1. x = [to |-> w, feeds |-> FALSE]
      BY <2>3, <2>6
    <3>2. w \in UvSession
      BY <2>2, Zenon DEF Sound, UvSession
    <3>3. SameData(queued, w) /\ Same(queued, w)
      BY <2>2 DEF Sound, UvSession, SameData, Same
    <3> HIDE DEF w
    <3>4. Sound(w)
      BY <3>2, <3>3, <2>2, DataSound DEF Same
    <3> QED BY <3>1, <3>3, <3>4, <2>2, <1>1 DEF Same, SameData
  <2> QED BY <2>4, <2>5, <2>6
<1> QED BY <1>2, <1>3

-----------------------------------------------------------------------------
(* The server.  What holds in every state.                                 *)

NetInv == /\ arrivals \in [waiting : Nat, all : Nat]
          /\ arrivals.waiting <= arrivals.all /\ arrivals.all <= MaxConn
          /\ frames \in 0 .. MaxFrames

Early == {"new", "init", "ready"}

\* Where the caller is decides what the server can be; only a stop in the loop
\* closes the listening handle.
StagesInv ==
  /\ life \in {"unset", "init", "ready", "start", "stop", "closed", "uninit"}
  /\ stage \in {"new", "init", "ready", "loop", "ended", "closed", "done"}
  /\ listener \in {"none", "idle", "listening", "closing", "closed"}
  /\ turn \in {"pending", "poll", "closing"}
  /\ stage \in Early =>
       /\ life \in {"unset", "init", "ready"} /\ listener \notin {"closing", "closed"}
       /\ Allocated = {} /\ registry = {} /\ closings = <<>> /\ todo = {} /\ fed = {}
  /\ stage = "loop" => life \in {"start", "stop"}
  /\ life = "start" => listener \notin {"closing", "closed"}
  /\ life = "stop" => listener \in {"closing", "closed"}

\* The sessions are the connections that were accepted; until a stop the map
\* names them all, and then none.
MapInv ==
  /\ \A s \in Allocated : s \in 1 .. arrivals.all - arrivals.waiting
  /\ registry \subseteq Allocated
  /\ life = "start" => /\ Allocated \subseteq registry
                       /\ \A s \in Allocated : sessions[s].handle # "lost"
  /\ life = "stop" => registry = {} /\ \A s \in Allocated : sessions[s].handle # "open"

\* The loop has each handle that is closing once, and no other one.
ClosingsInv ==
  /\ closings \in Seq(Conn \cup {Listener})
  /\ \A k, l \in 1 .. Len(closings) : k # l => closings[k] # closings[l]
  /\ \A k \in 1 .. Len(closings) :
       IF closings[k] = Listener THEN listener = "closing"
       ELSE closings[k] \in Allocated /\ sessions[closings[k]].handle = "closing"
  /\ \A s \in Allocated :
       sessions[s].handle = "closing" => \E k \in 1 .. Len(closings) : closings[k] = s
  /\ listener = "closing" => \E k \in 1 .. Len(closings) : closings[k] = Listener

\* What the loop still has to handle concerns open handles.
LoopInv ==
  /\ fed \subseteq Opened
  /\ todo \subseteq (Conn \cup {Listener}) \X {"in", "out"}
  /\ \A e \in todo : e[1] # Listener => e[1] \in Opened
  /\ <<Listener, "in">> \in todo => listener = "listening"

ReadingInv ==
  /\ reading \in [id : Conn \cup {Listener}, rest : Seq({"echo", "stop"})]
  /\ reading.id = Listener => reading.rest = <<>>
  /\ reading.id # Listener => stage = "loop" /\ turn = "poll" /\ reading.id \in Allocated

\* An answer is sent for a frame: those not yet answered are counted.
Left(s) == IF reading.id = s THEN Len(reading.rest) ELSE 0
RecordsInv ==
  \A s \in Allocated :
    /\ Sound(sessions[s])
    /\ sessions[s].encoded + Len(sessions[s].inbox) + Left(s) <= frames

\* A loop that ends behind a stop has closed every handle.
EndedInv == (stage = "ended" /\ life = "stop") =>
              listener = "closed" /\ \A s \in Allocated : sessions[s].handle = "lost"

UvInv == /\ NetInv /\ StagesInv /\ MapInv /\ ClosingsInv /\ LoopInv /\ ReadingInv
         /\ RecordsInv /\ EndedInv

-----------------------------------------------------------------------------
(* Facts that the steps need.                                              *)

LEMMA SessionFacts ==
  ASSUME NetInv, MapInv
  PROVE  /\ Allocated \subseteq Conn /\ IsFiniteSet(registry)
         /\ \A s \in Allocated : s \in Conn /\ s # Listener
<1>1. \A s \in Allocated : s \in Conn
  BY Constants DEF NetInv, MapInv, Conn
<1>2. IsFiniteSet(Conn)
  BY Constants, FS_Interval DEF Conn
<1>3. registry \in SUBSET Conn
  BY <1>1 DEF MapInv
<1> QED BY <1>1, <1>2, <1>3, FS_Subset, Constants

LEMMA InitUv == UvInit => UvInv
<1> SUFFICES ASSUME UvInit PROVE UvInv
  OBVIOUS
<1>1. Allocated = {}
  <2>1. DOMAIN <<>> = {}
    OBVIOUS
  <2> QED BY <2>1 DEF UvInit, Allocated
<1>2. NetInv /\ StagesInv
  BY <1>1, Constants DEF UvInit, NetInv, StagesInv, Early
<1>3. MapInv /\ EndedInv /\ RecordsInv
  BY <1>1 DEF UvInit, MapInv, EndedInv, RecordsInv
<1>4. ClosingsInv
  <2>1. <<>> \in Seq(Conn \cup {Listener}) /\ Len(<<>>) = 0
    BY EmptySeq
  <2> QED BY <1>1, <2>1 DEF UvInit, ClosingsInv
<1>5. LoopInv
  BY DEF UvInit, LoopInv
<1>6. ReadingInv
  <2>1. <<>> \in Seq({"echo", "stop"})
    OBVIOUS
  <2> QED BY <2>1 DEF UvInit, ReadingInv, NotReading
<1> QED BY <1>2, <1>3, <1>4, <1>5, <1>6 DEF UvInv

LEMMA UnchangedUv ==
  ASSUME UvInv, UNCHANGED <<life, stage, listener, sessions, registry, loopVars, netVars>>
  PROVE  UvInv'
<1>1. /\ UNCHANGED <<life, stage, listener, sessions, registry, arrivals, frames>>
      /\ UNCHANGED <<turn, todo, fed, closings, reading>>
  BY DEF loopVars, netVars
<1>2. NetInv' /\ StagesInv'
  BY <1>1 DEF UvInv, NetInv, StagesInv, Allocated
<1>3. MapInv' /\ ClosingsInv'
  BY <1>1 DEF UvInv, MapInv, ClosingsInv, Allocated
<1>4. LoopInv'
  BY <1>1 DEF UvInv, LoopInv, Allocated, Opened
<1>5. ReadingInv' /\ EndedInv'
  BY <1>1 DEF UvInv, ReadingInv, EndedInv, Allocated
<1>6. RecordsInv'
  BY <1>1 DEF UvInv, RecordsInv, Left, Allocated
<1> QED BY <1>2, <1>3, <1>4, <1>5, <1>6 DEF UvInv

-----------------------------------------------------------------------------
(* The calls of the user.                                                  *)

LEMMA UserStep ==
  ASSUME UvInv, InitS \/ OpenS \/ StartS \/ CloseS \/ UninitS
  PROVE  UvInv'
<1>1. /\ UNCHANGED <<sessions, loopVars, netVars>> /\ stage # "loop"
      /\ stage' \in {"init", "ready", "loop", "ended", "closed", "done"}
  BY DEF InitS, OpenS, StartS, CloseS, UninitS
<1>2. /\ NetInv /\ StagesInv /\ MapInv /\ ClosingsInv /\ LoopInv /\ ReadingInv
      /\ RecordsInv /\ EndedInv
  BY DEF UvInv
<1>3. NetInv' /\ RecordsInv'
  BY <1>1, <1>2 DEF NetInv, RecordsInv, Left, Allocated, loopVars, netVars
<1>4. ReadingInv'
  BY <1>1, <1>2 DEF ReadingInv, Allocated, loopVars
<1>5. listener' = listener \/ (stage = "init" /\ listener' \in {"none", "idle", "listening"})
  BY DEF InitS, OpenS, StartS, CloseS, UninitS
<1>6. LoopInv'
  BY <1>1, <1>2, <1>5 DEF LoopInv, StagesInv, Early, Opened, Allocated, loopVars
<1>7. ClosingsInv'
  BY <1>1, <1>2, <1>5 DEF ClosingsInv, StagesInv, Early, Allocated, loopVars
<1>8. StagesInv' /\ MapInv' /\ EndedInv'
  <2>1. CASE InitS
    BY <2>1, <1>1, <1>2 DEF InitS, StagesInv, Early, MapInv, EndedInv, Allocated, loopVars, netVars
  <2>2. CASE OpenS
    BY <2>2, <1>1, <1>2 DEF OpenS, StagesInv, Early, MapInv, EndedInv, Allocated, loopVars, netVars
  <2>3. CASE StartS
    BY <2>3, <1>1, <1>2 DEF StartS, StagesInv, Early, MapInv, EndedInv, Allocated, loopVars, netVars
  <2>4. CASE CloseS
    <3>1. life' \in {life, "closed"} /\ stage' = "closed" /\ UNCHANGED <<listener, registry>>
      BY <2>4 DEF CloseS
    <3> QED BY <3>1, <1>1, <1>2 DEF StagesInv, Early, MapInv, EndedInv, Allocated, loopVars, netVars
  <2>5. CASE UninitS
    BY <2>5, <1>1, <1>2 DEF UninitS, StagesInv, Early, MapInv, EndedInv, Allocated, loopVars, netVars
  <2> QED BY <2>1, <2>2, <2>3, <2>4, <2>5
<1> QED BY <1>3, <1>4, <1>6, <1>7, <1>8 DEF UvInv

-----------------------------------------------------------------------------
(* The turns of the loop.                                                  *)

LEMMA InReadyFits ==
  ASSUME UvInv
  PROVE  /\ InReady \subseteq (Conn \cup {Listener}) \X {"in", "out"}
         /\ \A e \in InReady : e[1] # Listener => e[1] \in Opened
         /\ <<Listener, "in">> \in InReady => listener = "listening"
<1>1. Opened \subseteq Conn /\ Listener \notin Opened
  BY SessionFacts DEF UvInv, Opened
<1> DEFINE a == {s \in Opened : /\ ~sessions[s].eof
                                /\ \/ sessions[s].inbox # <<>>
                                   \/ sessions[s].peer # "open"}
           b == {l \in {Listener} : listener = "listening" /\ arrivals.waiting > 0}
<1>2. InReady = {<<s, "in">> : s \in a} \cup {<<l, "in">> : l \in b}
  BY DEF InReady
<1>3. a \subseteq Opened /\ \A l \in b : l = Listener /\ listener = "listening"
  OBVIOUS
<1> HIDE DEF a, b
<1>4. ASSUME NEW e \in InReady
      PROVE  \/ \E s \in Opened : e = <<s, "in">>
             \/ e = <<Listener, "in">> /\ listener = "listening"
  BY <1>2, <1>3
<1>5. ASSUME NEW e \in InReady
      PROVE  /\ e \in (Conn \cup {Listener}) \X {"in", "out"}
             /\ e[1] # Listener => e[1] \in Opened
             /\ e = <<Listener, "in">> => listener = "listening"
  BY <1>1, <1>4, <1>5
<1> QED BY <1>5

LEMMA OutReadyFits ==
  ASSUME UvInv, NEW room \in SUBSET Opened
  PROVE  \A e \in OutReady(room) : \E s \in Opened : e = <<s, "out">>
BY DEF OutReady, Waiting

LEMMA LoopStep ==
  ASSUME UvInv, PollS \/ PolledS \/ NextTurnS
  PROVE  UvInv'
<1>1. /\ NetInv /\ StagesInv /\ MapInv /\ ClosingsInv /\ LoopInv /\ ReadingInv
      /\ RecordsInv /\ EndedInv
  BY DEF UvInv
<1>2. /\ UNCHANGED <<life, listener, sessions, registry, closings, reading, arrivals, frames>>
      /\ stage = "loop" /\ stage' \in {"loop", "ended"} /\ turn' \in {"pending", "poll", "closing"}
      /\ stage' = "ended" => closings = <<>>
  BY <1>1 DEF PollS, PolledS, NextTurnS, InLoop, user, netVars, StagesInv
<1>3. NetInv' /\ MapInv' /\ ClosingsInv' /\ RecordsInv'
  <2>1. NetInv' /\ MapInv'
    BY <1>1, <1>2 DEF NetInv, MapInv, Allocated
  <2>2. ClosingsInv' /\ RecordsInv'
    BY <1>1, <1>2 DEF ClosingsInv, RecordsInv, Left, Allocated
  <2> QED BY <2>1, <2>2
<1>4. StagesInv'
  BY <1>1, <1>2 DEF StagesInv, Early
\* A handle that is closing would still be among the closings.
<1>5. EndedInv'
  <2> SUFFICES ASSUME stage' = "ended", life = "stop"
               PROVE  listener = "closed" /\ \A s \in Allocated : sessions[s].handle = "lost"
    BY <1>2 DEF EndedInv, Allocated
  <2>1. ~ \E k \in 1 .. Len(closings) : TRUE
    <3>1. Len(closings) = 0
      BY <1>2, EmptySeq
    <3> QED BY <3>1
  <2>2. listener = "closed"
    BY <1>1, <2>1 DEF StagesInv, ClosingsInv
  <2>3. ASSUME NEW s \in Allocated PROVE sessions[s].handle = "lost"
    <3>1. sessions[s].handle \in {"open", "closing", "lost"}
      BY <1>1, SessionTypes DEF RecordsInv, Sound
    <3> QED BY <3>1, <1>1, <2>1 DEF MapInv, ClosingsInv
  <2> QED BY <2>2, <2>3
<1>6. ReadingInv'
  <2>1. turn = "poll" => reading = NotReading \/ turn' = turn
    BY DEF PollS, PolledS, NextTurnS, InLoop
  <2>2. stage' = "ended" => turn = "closing"
    BY <1>2 DEF PollS, PolledS, NextTurnS, InLoop, user
  <2> QED BY <2>1, <2>2, <1>1, <1>2 DEF ReadingInv, NotReading, Allocated
<1>7. LoopInv'
  <2>1. CASE PollS
    <3> PICK room \in SUBSET Waiting : todo' = InReady \cup OutReady(room)
      BY <2>1 DEF PollS
    <3>1. room \in SUBSET Opened /\ Opened \subseteq Conn /\ Listener \notin Opened
      BY <1>1, SessionFacts DEF Waiting, Opened
    <3>2. \A e \in OutReady(room) : \E s \in Opened : e = <<s, "out">>
      BY <3>1, OutReadyFits
    <3>3. ASSUME NEW e \in todo'
          PROVE  /\ e \in (Conn \cup {Listener}) \X {"in", "out"}
                 /\ e[1] # Listener => e[1] \in Opened
                 /\ e = <<Listener, "in">> => listener = "listening"
      <4>1. CASE e \in InReady
        BY <4>1, InReadyFits
      <4>2. CASE e \in OutReady(room)
        BY <4>2, <3>1, <3>2
      <4> QED BY <4>1, <4>2
    <3>4. Opened' = Opened /\ fed' = fed
      BY <2>1, <1>2 DEF PollS, Opened, Allocated
    <3> QED BY <3>3, <3>4, <1>1, <1>2 DEF LoopInv
  <2>2. CASE PolledS
    BY <2>2, <1>1, <1>2 DEF PolledS, LoopInv, Opened, Allocated
  <2>3. CASE NextTurnS
    <3>1. Opened \subseteq Conn /\ Listener \notin Opened /\ Opened' = Opened
      BY <1>1, <1>2, SessionFacts DEF Opened, Allocated
    <3>2. CASE UNCHANGED <<todo, fed>>
      BY <3>1, <3>2, <1>1, <1>2 DEF LoopInv
    <3>3. CASE todo' = {<<s, "out">> : s \in fed} /\ fed' = {}
      BY <3>1, <3>3, <1>1, <1>2 DEF LoopInv
    <3> QED BY <2>3, <3>2, <3>3 DEF NextTurnS
  <2> QED BY <2>1, <2>2, <2>3
<1> QED BY <1>3, <1>4, <1>5, <1>6, <1>7 DEF UvInv

-----------------------------------------------------------------------------
(* Steps of one session.                                                   *)

\* Where no handle changes, neither do the map and the closings.
LEMMA QuietStep ==
  ASSUME UvInv, NEW s0 \in Allocated,
         UNCHANGED <<life, stage, listener, registry, arrivals, turn, closings>>,
         Allocated' = Allocated, \A s \in Allocated : sessions'[s].handle = sessions[s].handle
  PROVE  StagesInv' /\ MapInv' /\ ClosingsInv' /\ EndedInv' /\ Opened' = Opened
<1>1. StagesInv /\ MapInv /\ ClosingsInv /\ EndedInv /\ stage \notin Early
  BY DEF UvInv, StagesInv
<1>2. StagesInv'
  BY <1>1 DEF StagesInv, Early
<1>3. MapInv' /\ EndedInv'
  BY <1>1 DEF MapInv, EndedInv
<1>4. ClosingsInv'
  BY <1>1 DEF ClosingsInv
<1>5. Opened' = Opened
  BY DEF Opened
<1> QED BY <1>2, <1>3, <1>4, <1>5

\* Session s becomes r, and a frame that it counts one more was sent before.
LEMMA OneRecord ==
  ASSUME UvInv, NEW s \in Allocated, NEW r, sessions' = [sessions EXCEPT ![s] = r],
         Sound(r), frames' \in Nat, frames <= frames',
         \A t \in Allocated : t # s => Left(t)' = Left(t),
         r.encoded + Len(r.inbox) + Left(s)' <= frames'
  PROVE  /\ RecordsInv' /\ Allocated' = Allocated
         /\ sessions'[s] = r /\ \A t \in Allocated : t # s => sessions'[t] = sessions[t]
<1>1. /\ Allocated' = Allocated
      /\ sessions'[s] = r /\ \A t \in Allocated : t # s => sessions'[t] = sessions[t]
  BY DEF Allocated
<1>2. ASSUME NEW t \in Allocated
      PROVE  /\ Sound(sessions'[t])
             /\ sessions'[t].encoded + Len(sessions'[t].inbox) + Left(t)' <= frames'
  <2>1. CASE t = s
    <3>1. sessions'[t] = r /\ Left(t)' = Left(s)'
      BY <2>1, <1>1
    <3> QED BY <3>1
  <2>2. CASE t # s
    <3>1. sessions'[t] = sessions[t] /\ Left(t)' = Left(t)
      BY <2>2, <1>1
    <3>2. Sound(sessions[t]) /\ sessions[t].encoded + Len(sessions[t].inbox) + Left(t) <= frames
      BY DEF UvInv, RecordsInv
    <3>3. /\ sessions[t].encoded \in Nat /\ Len(sessions[t].inbox) \in Nat /\ Left(t) \in Nat
          /\ frames \in Nat
      <4>1. sessions[t].encoded \in Nat /\ sessions[t].inbox \in Seq({"echo", "stop"})
        <5>1. sessions[t] \in UvSession /\ MaxFrames \in Nat
          BY ONLY <3>2, Constants DEF Sound
        <5>2. sessions[t].encoded \in 0 .. MaxFrames /\ sessions[t].inbox \in Seq({"echo", "stop"})
          BY ONLY <5>1, SessionTypes
        <5> QED BY ONLY <5>1, <5>2
      <4>2. reading.rest \in Seq({"echo", "stop"}) /\ frames \in Nat
        BY Constants DEF UvInv, ReadingInv, NetInv
      <4>3. Len(sessions[t].inbox) \in Nat
        BY ONLY <4>1, LenProperties
      <4>4. Len(reading.rest) \in Nat
        BY ONLY <4>2, LenProperties
      <4>5. Left(t) \in Nat
        BY ONLY <4>4 DEF Left
      <4> QED BY ONLY <4>1, <4>2, <4>3, <4>5
    <3> DEFINE x == sessions[t].encoded
               y == Len(sessions[t].inbox)
               z == Left(t)
    <3>4. x + y + z <= frames'
      <4>1. x \in Nat /\ y \in Nat /\ z \in Nat /\ x + y + z <= frames /\ frames \in Nat
        BY <3>2, <3>3
      <4> HIDE DEF x, y, z
      <4> QED BY <4>1
    <3> QED BY <3>1, <3>2, <3>4
  <2> QED BY <2>1, <2>2
<1> QED BY <1>1, <1>2 DEF RecordsInv

\* The frames of a read that are left
LEMMA LeftNot ==
  ASSUME UvInv, reading = NotReading, NEW t \in Allocated
  PROVE  Left(t) = 0
BY SessionFacts DEF UvInv, Left, NotReading

LEMMA ReadsOnIs ==
  ASSUME UvInv, NEW s \in Allocated, NEW rest \in Seq({"echo", "stop"}), ReadsOn(s, rest),
         stage' = "loop", turn' = "poll", Allocated' = Allocated
  PROVE  /\ ReadingInv' /\ Left(s)' = Len(rest)
         /\ \A t \in Allocated : t # s => Left(t)' = 0
<1>1. /\ s \in Conn /\ s # Listener /\ <<>> \in Seq({"echo", "stop"}) /\ Len(<<>>) = 0
      /\ \A t \in Allocated : t # Listener
  BY SessionFacts, EmptySeq DEF UvInv
<1>2. CASE reading' = NotReading /\ rest = <<>>
  BY <1>1, <1>2 DEF ReadingInv, NotReading, Left
<1>3. CASE reading' = [id |-> s, rest |-> rest]
  BY <1>1, <1>3 DEF ReadingInv, Left
<1> QED BY <1>2, <1>3 DEF ReadsOn

\* What the invariant says of one session
LEMMA RecordFacts ==
  ASSUME UvInv, NEW s \in Allocated
  PROVE  /\ Sound(sessions[s]) /\ sessions[s] \in UvSession
         /\ sessions[s].encoded \in Nat /\ sessions[s].inbox \in Seq({"echo", "stop"})
         /\ Len(sessions[s].inbox) \in Nat /\ Left(s) \in Nat
         /\ frames \in Nat /\ frames <= MaxFrames /\ MaxFrames \in Nat
         /\ sessions[s].encoded + Len(sessions[s].inbox) + Left(s) <= frames
<1>1. /\ Sound(sessions[s]) /\ sessions[s] \in UvSession
      /\ sessions[s].encoded + Len(sessions[s].inbox) + Left(s) <= frames
  BY DEF UvInv, RecordsInv, Sound
<1>2. sessions[s].encoded \in Nat /\ sessions[s].inbox \in Seq({"echo", "stop"})
  BY <1>1, SessionTypes, Constants
<1>3. /\ reading.rest \in Seq({"echo", "stop"}) /\ frames \in Nat /\ frames <= MaxFrames
      /\ MaxFrames \in Nat
  BY Constants DEF UvInv, ReadingInv, NetInv
<1>4. Len(sessions[s].inbox) \in Nat /\ Left(s) \in Nat
  BY <1>2, <1>3, LenProperties DEF Left
<1> QED BY <1>1, <1>2, <1>3, <1>4

\* Events of open handles that are dropped from todo
LEMMA LessTodo ==
  ASSUME LoopInv, Opened' = Opened, listener' = listener, todo' \subseteq todo, fed' \subseteq Opened
  PROVE  LoopInv'
BY DEF LoopInv

LEMMA ReadFramesStep == ASSUME UvInv, ReadFrames PROVE UvInv'
<1> PICK s \in Opened : /\ InEvent(s) /\ sessions[s].inbox # <<>>
                        /\ todo' = todo \ {<<s, "in">>}
                        /\ sessions' = [sessions EXCEPT ![s].inbox = <<>>]
                        /\ ReadsOn(s, sessions[s].inbox)
  BY DEF ReadFrames
<1>1. /\ UNCHANGED <<life, stage, listener, registry, arrivals, frames, turn, fed, closings>>
      /\ stage = "loop" /\ turn = "poll" /\ reading = NotReading
  BY DEF ReadFrames, user, netVars, InEvent, InLoop
<1> DEFINE x == sessions[s]
           r == [x EXCEPT !.inbox = <<>>]
<1>2. s \in Allocated /\ sessions' = [sessions EXCEPT ![s] = r]
  BY DEF Opened
<1>3. /\ Sound(x) /\ x \in UvSession /\ x.inbox \in Seq({"echo", "stop"})
      /\ x.encoded + Len(x.inbox) + Left(s) <= frames
      /\ x.encoded \in Nat /\ Len(x.inbox) \in Nat /\ frames \in Nat
  BY <1>2, RecordFacts
<1>4. <<>> \in Seq({"echo", "stop"}) /\ Len(<<>>) = 0
  BY EmptySeq
<1> HIDE DEF x
<1>5. r \in UvSession
  BY <1>3, <1>4, Zenon DEF UvSession
<1>6. SameData(x, r) /\ r.handle = x.handle /\ r.peer = x.peer /\ r.inbox = <<>>
  BY <1>3 DEF UvSession, SameData
<1> HIDE DEF r
<1>7. Sound(r)
  BY <1>3, <1>5, <1>6, DataSound
<1>8. Allocated' = Allocated
  BY <1>2 DEF Allocated
<1>9. ReadingInv' /\ Left(s)' = Len(x.inbox) /\ \A t \in Allocated : t # s => Left(t)' = 0
  BY <1>1, <1>2, <1>3, <1>8, ReadsOnIs DEF x
<1>10. \A t \in Allocated : Left(t) = 0
  BY <1>1, LeftNot
<1>11. r.encoded + Len(r.inbox) + Left(s)' <= frames'
  <2>1. Len(r.inbox) = 0 /\ r.encoded = x.encoded /\ Left(s) = 0
    BY <1>2, <1>4, <1>6, <1>10 DEF SameData
  <2> QED BY <2>1, <1>1, <1>3, <1>9
<1>12. /\ RecordsInv'
       /\ sessions'[s] = r /\ \A t \in Allocated : t # s => sessions'[t] = sessions[t]
  <2>1. \A t \in Allocated : t # s => Left(t)' = Left(t)
    BY <1>9, <1>10
  <2>2. frames' \in Nat /\ frames <= frames'
    BY <1>1, <1>3
  <2> QED BY <2>1, <2>2, <1>2, <1>7, <1>11, OneRecord
<1>13. \A t \in Allocated : sessions'[t].handle = sessions[t].handle
  BY <1>6, <1>12 DEF x
<1>14. StagesInv' /\ MapInv' /\ ClosingsInv' /\ EndedInv' /\ Opened' = Opened
  BY <1>1, <1>2, <1>8, <1>13, QuietStep
<1>15. NetInv' /\ LoopInv'
  BY <1>1, <1>14, LessTodo DEF UvInv, NetInv, LoopInv
<1> QED BY <1>9, <1>12, <1>14, <1>15 DEF UvInv

LEMMA ReadEofStep == ASSUME UvInv, ReadEof PROVE UvInv'
<1> PICK s \in Opened :
      /\ InEvent(s) /\ todo' = todo \ {<<s, "in">>}
      /\ sessions' = [sessions EXCEPT ![s].eof = TRUE, ![s].shut = TRUE, ![s].out = TRUE]
      /\ ReadsOn(s, <<>>)
  BY DEF ReadEof
<1>1. /\ UNCHANGED <<life, stage, listener, registry, arrivals, frames, turn, fed, closings>>
      /\ stage = "loop" /\ turn = "poll" /\ reading = NotReading
  BY DEF ReadEof, user, netVars, InEvent, InLoop
<1> DEFINE x == sessions[s]
           r == [x EXCEPT !.eof = TRUE, !.shut = TRUE, !.out = TRUE]
<1>2. s \in Allocated /\ sessions' = [sessions EXCEPT ![s] = r]
  BY DEF Opened
<1>3. /\ Sound(x) /\ x \in UvSession /\ x.encoded + Len(x.inbox) + Left(s) <= frames
      /\ frames \in Nat
  BY <1>2, RecordFacts
<1> HIDE DEF x
<1>4. r \in UvSession
  BY <1>3, Zenon DEF UvSession
<1>5. SameData(x, r) /\ r.handle = x.handle /\ r.peer = x.peer /\ r.inbox = x.inbox
  BY <1>3 DEF UvSession, SameData
<1> HIDE DEF r
<1>6. Sound(r)
  BY <1>3, <1>4, <1>5, DataSound
<1>7. Allocated' = Allocated
  BY <1>2 DEF Allocated
<1>8. <<>> \in Seq({"echo", "stop"}) /\ Len(<<>>) = 0
  BY EmptySeq
<1>9. ReadingInv' /\ \A t \in Allocated : Left(t)' = 0
  BY <1>1, <1>2, <1>7, <1>8, ReadsOnIs
<1>10. \A t \in Allocated : Left(t) = 0
  BY <1>1, LeftNot
<1>11. r.encoded + Len(r.inbox) + Left(s)' <= frames'
  BY <1>1, <1>2, <1>3, <1>5, <1>9, <1>10 DEF SameData
<1>12. /\ RecordsInv'
       /\ sessions'[s] = r /\ \A t \in Allocated : t # s => sessions'[t] = sessions[t]
  <2>1. \A t \in Allocated : t # s => Left(t)' = Left(t)
    BY <1>9, <1>10
  <2>2. frames' \in Nat /\ frames <= frames'
    BY <1>1, <1>3
  <2> QED BY <2>1, <2>2, <1>2, <1>6, <1>11, OneRecord
<1>13. \A t \in Allocated : sessions'[t].handle = sessions[t].handle
  BY <1>5, <1>12 DEF x
<1>14. StagesInv' /\ MapInv' /\ ClosingsInv' /\ EndedInv' /\ Opened' = Opened
  BY <1>1, <1>2, <1>7, <1>13, QuietStep
<1>15. NetInv' /\ LoopInv'
  BY <1>1, <1>14, LessTodo DEF UvInv, NetInv, LoopInv
<1> QED BY <1>9, <1>12, <1>14, <1>15 DEF UvInv

\* A frame is answered: the frames left become one less, the answers at most
\* one more.
LEMMA EchoFrameStep == ASSUME UvInv, EchoFrame PROVE UvInv'
<1> PICK s : s = reading.id
  OBVIOUS
<1> DEFINE x == sessions[s]
           rest == Tail(reading.rest)
<1>1. /\ UNCHANGED <<life, stage, listener, registry, arrivals, frames, turn, todo, closings>>
      /\ stage = "loop" /\ turn = "poll" /\ reading.rest # <<>> /\ ReadsOn(s, rest)
  BY DEF EchoFrame, user, netVars, InLoop
<1>2. s \in Allocated
  BY <1>1 DEF UvInv, ReadingInv
<1>3. /\ Sound(x) /\ x \in UvSession /\ x.encoded + Len(x.inbox) + Left(s) <= frames
      /\ x.encoded \in Nat /\ Len(x.inbox) \in Nat
      /\ frames \in Nat /\ MaxFrames \in Nat /\ frames <= MaxFrames
  BY <1>2, RecordFacts
<1>4. rest \in Seq({"echo", "stop"}) /\ Left(s) = Len(rest) + 1 /\ Len(rest) \in Nat
  <2>1. reading.rest \in Seq({"echo", "stop"})
    BY DEF UvInv, ReadingInv
  <2>2. /\ rest \in Seq({"echo", "stop"}) /\ Len(rest) = Len(reading.rest) - 1
        /\ Len(reading.rest) \in Nat \ {0}
    BY <1>1, <2>1, HeadTailProperties, EmptySeq
  <2>3. Left(s) = Len(reading.rest)
    BY DEF Left
  <2> HIDE DEF rest
  <2> QED BY <2>2, <2>3
<1> PICK w \in Send(x) : /\ sessions' = [sessions EXCEPT ![s] = w.to]
                         /\ fed' = IF w.feeds THEN fed \cup {s} ELSE fed
  BY DEF EchoFrame
<1> DEFINE r == w.to
<1> HIDE DEF x, rest
<1>5. /\ Sound(r) /\ Same(x, r) /\ r.encoded \in {x.encoded, x.encoded + 1}
      /\ w.feeds => x.handle = "open"
  BY <1>3, <1>4, SendSound
<1> HIDE DEF r
<1>6. Allocated' = Allocated
  BY DEF Allocated
<1>7. ReadingInv' /\ Left(s)' = Len(rest) /\ \A t \in Allocated : t # s => Left(t)' = 0
  BY <1>1, <1>2, <1>4, <1>6, ReadsOnIs
<1>8. r.encoded + Len(r.inbox) + Left(s)' <= frames'
  <2> DEFINE a == x.encoded
             b == Len(x.inbox)
             c == Len(rest)
             e == r.encoded
  <2>1. a \in Nat /\ b \in Nat /\ c \in Nat /\ a + b + (c + 1) <= frames /\ e \in {a, a + 1}
    BY <1>3, <1>4, <1>5
  <2>2. r.inbox = x.inbox
    BY <1>5 DEF Same
  <2> HIDE DEF a, b, c, e
  <2>3. e + b + c <= frames
    BY <2>1, <1>3
  <2> QED BY <2>2, <2>3, <1>1, <1>7 DEF b, c, e
<1>9. /\ RecordsInv'
      /\ sessions'[s] = r /\ \A t \in Allocated : t # s => sessions'[t] = sessions[t]
  <2>1. \A t \in Allocated : t # s => Left(t)' = Left(t)
    <3>1. \A t \in Allocated : t # s => Left(t) = 0
      BY DEF Left
    <3> QED BY <3>1, <1>7
  <2>2. sessions' = [sessions EXCEPT ![s] = r]
    BY DEF r
  <2>3. frames' \in Nat /\ frames <= frames'
    BY <1>1, <1>3
  <2> QED BY <2>1, <2>2, <2>3, <1>2, <1>5, <1>8, OneRecord
<1>10. \A t \in Allocated : sessions'[t].handle = sessions[t].handle
  BY <1>5, <1>9 DEF x, Same
<1>11. StagesInv' /\ MapInv' /\ ClosingsInv' /\ EndedInv' /\ Opened' = Opened
  <2>1. stage \notin Early
    BY <1>1 DEF Early
  <2> QED BY <1>1, <1>2, <1>6, <1>10, QuietStep
<1>12. NetInv' /\ LoopInv'
  <2>1. fed' \subseteq Opened
    BY <1>2, <1>5 DEF UvInv, LoopInv, Opened, x
  <2> QED BY <2>1, <1>1, <1>11, LessTodo DEF UvInv, NetInv
<1> QED BY <1>7, <1>9, <1>11, <1>12 DEF UvInv

-----------------------------------------------------------------------------
(* The clients.                                                            *)

LEMMA ClientSendsStep == ASSUME UvInv, ClientSends PROVE UvInv'
<1> PICK s \in Opened, f \in {"echo", "stop"} :
      sessions' = [sessions EXCEPT ![s].inbox = Append(@, f)]
  BY DEF ClientSends
<1>1. /\ UNCHANGED <<life, stage, listener, registry, arrivals, turn, todo, fed, closings, reading>>
      /\ frames < MaxFrames /\ frames' = frames + 1
  BY DEF ClientSends, user, loopVars
<1> DEFINE x == sessions[s]
           u == Append(x.inbox, f)
           r == [x EXCEPT !.inbox = u]
<1>2. s \in Allocated /\ sessions' = [sessions EXCEPT ![s] = r]
  BY DEF Opened
<1>3. /\ Sound(x) /\ x \in UvSession /\ x.inbox \in Seq({"echo", "stop"})
      /\ x.encoded + Len(x.inbox) + Left(s) <= frames
      /\ x.encoded \in Nat /\ Len(x.inbox) \in Nat /\ Left(s) \in Nat
      /\ frames \in Nat /\ MaxFrames \in Nat
  BY <1>2, RecordFacts
<1> HIDE DEF x
<1>4. u \in Seq({"echo", "stop"}) /\ Len(u) = Len(x.inbox) + 1
  BY <1>3, AppendProperties
<1> HIDE DEF u
<1>5. r \in UvSession
  BY <1>3, <1>4, Zenon DEF UvSession
<1>6. SameData(x, r) /\ r.handle = x.handle /\ r.peer = x.peer /\ r.inbox = u
  BY <1>3 DEF UvSession, SameData
<1> HIDE DEF r
<1>7. Sound(r)
  BY <1>3, <1>5, <1>6, DataSound
<1>8. Allocated' = Allocated
  BY <1>2 DEF Allocated
<1>9. \A t \in Allocated : Left(t)' = Left(t)
  BY <1>1 DEF Left
<1>10. r.encoded + Len(r.inbox) + Left(s)' <= frames'
  <2> DEFINE a == x.encoded
             b == Len(x.inbox)
             c == Left(s)
  <2>1. a \in Nat /\ b \in Nat /\ c \in Nat /\ frames \in Nat /\ a + b + c <= frames
    BY <1>3
  <2>2. r.encoded = a /\ Len(r.inbox) = b + 1 /\ Left(s)' = c
    BY <1>2, <1>4, <1>6, <1>9 DEF SameData
  <2> HIDE DEF a, b, c
  <2> QED BY <2>1, <2>2, <1>1
<1>11. /\ RecordsInv'
       /\ sessions'[s] = r /\ \A t \in Allocated : t # s => sessions'[t] = sessions[t]
  <2>1. frames' \in Nat /\ frames <= frames'
    BY <1>1, <1>3
  <2> QED BY <2>1, <1>2, <1>7, <1>9, <1>10, OneRecord
<1>12. \A t \in Allocated : sessions'[t].handle = sessions[t].handle
  BY <1>6, <1>11 DEF x
<1>13. StagesInv' /\ MapInv' /\ ClosingsInv' /\ EndedInv' /\ Opened' = Opened
  <2>1. stage \notin Early
    BY <1>2 DEF UvInv, StagesInv
  <2> QED BY <2>1, <1>1, <1>2, <1>8, <1>12, QuietStep
<1>14. LoopInv' /\ ReadingInv'
  BY <1>1, <1>8, <1>13, LessTodo DEF UvInv, LoopInv, ReadingInv
<1>15. NetInv'
  BY <1>1, <1>3 DEF UvInv, NetInv
<1> QED BY <1>11, <1>13, <1>14, <1>15 DEF UvInv

LEMMA ClientLeavesStep == ASSUME UvInv, ClientLeaves PROVE UvInv'
<1> PICK s \in Opened :
      \/ /\ sessions[s].peer = "open"
         /\ sessions' = [sessions EXCEPT ![s].peer = "fin"]
      \/ /\ sessions[s].peer # "reset"
         /\ sessions' = [sessions EXCEPT ![s].peer = "reset", ![s].inbox = <<>>]
  BY DEF ClientLeaves
<1>1. UNCHANGED <<life, stage, listener, registry, arrivals, frames, turn, todo, fed, closings, reading>>
  BY DEF ClientLeaves, user, loopVars, netVars
<1> DEFINE x == sessions[s]
<1>2. s \in Allocated
  BY DEF Opened
<1>3. /\ Sound(x) /\ x \in UvSession
      /\ x.encoded + Len(x.inbox) + Left(s) <= frames
      /\ x.encoded \in Nat /\ Len(x.inbox) \in Nat /\ Left(s) \in Nat /\ frames \in Nat
  BY <1>2, RecordFacts
<1>4. <<>> \in Seq({"echo", "stop"}) /\ Len(<<>>) = 0
  BY EmptySeq
<1>5. PICK r : /\ sessions' = [sessions EXCEPT ![s] = r] /\ x.peer # "reset"
               /\ r \in {[x EXCEPT !.peer = "fin"], [x EXCEPT !.peer = "reset", !.inbox = <<>>]}
  OBVIOUS
<1> HIDE DEF x
<1>6. r \in UvSession
  <2>1. CASE r = [x EXCEPT !.peer = "fin"]
    BY <2>1, <1>3, Zenon DEF UvSession
  <2>2. CASE r = [x EXCEPT !.peer = "reset", !.inbox = <<>>]
    BY <2>2, <1>3, <1>4, Zenon DEF UvSession
  <2> QED BY <2>1, <2>2, <1>5
<1>7. SameData(x, r) /\ r.handle = x.handle /\ r.inbox \in {x.inbox, <<>>}
  <2>1. CASE r = [x EXCEPT !.peer = "fin"]
    BY <2>1, <1>3 DEF UvSession, SameData
  <2>2. CASE r = [x EXCEPT !.peer = "reset", !.inbox = <<>>]
    BY <2>2, <1>3 DEF UvSession, SameData
  <2> QED BY <2>1, <2>2, <1>5
<1>8. Sound(r)
  BY <1>3, <1>5, <1>6, <1>7, DataSound
<1>9. Allocated' = Allocated
  BY <1>5 DEF Allocated
<1>10. \A t \in Allocated : Left(t)' = Left(t)
  BY <1>1 DEF Left
<1>11. r.encoded + Len(r.inbox) + Left(s)' <= frames'
  <2> DEFINE a == x.encoded
             b == Len(x.inbox)
             c == Left(s)
             e == Len(r.inbox)
  <2>1. a \in Nat /\ b \in Nat /\ c \in Nat /\ frames \in Nat /\ a + b + c <= frames
    BY <1>3
  <2>2. r.encoded = a /\ e \in {b, 0} /\ Left(s)' = c
    BY <1>2, <1>4, <1>7, <1>10 DEF SameData
  <2> HIDE DEF a, b, c, e
  <2>3. a + e + c <= frames
    BY <2>1, <2>2
  <2> QED BY <2>2, <2>3, <1>1 DEF e
<1>12. /\ RecordsInv'
       /\ sessions'[s] = r /\ \A t \in Allocated : t # s => sessions'[t] = sessions[t]
  <2>1. frames' \in Nat /\ frames <= frames'
    BY <1>1, <1>3
  <2> QED BY <2>1, <1>2, <1>5, <1>8, <1>10, <1>11, OneRecord
<1>13. \A t \in Allocated : sessions'[t].handle = sessions[t].handle
  BY <1>7, <1>12 DEF x
<1>14. StagesInv' /\ MapInv' /\ ClosingsInv' /\ EndedInv' /\ Opened' = Opened
  <2>1. stage \notin Early
    BY <1>2 DEF UvInv, StagesInv
  <2> QED BY <2>1, <1>1, <1>2, <1>9, <1>13, QuietStep
<1>15. LoopInv' /\ ReadingInv' /\ NetInv'
  BY <1>1, <1>9, <1>14, LessTodo DEF UvInv, LoopInv, ReadingInv, NetInv
<1> QED BY <1>12, <1>14, <1>15 DEF UvInv

LEMMA ConnectsStep == ASSUME UvInv, Connects PROVE UvInv'
<1>1. /\ UNCHANGED <<life, stage, listener, sessions, registry, frames, turn, todo, fed, closings, reading>>
      /\ arrivals.all < MaxConn
      /\ arrivals' = [waiting |-> arrivals.waiting + 1, all |-> arrivals.all + 1]
  BY DEF Connects, user, loopVars
<1>2. /\ arrivals.all \in Nat /\ arrivals.waiting \in Nat /\ MaxConn \in Nat
      /\ arrivals.waiting <= arrivals.all
  BY Constants DEF UvInv, NetInv
<1>3. /\ arrivals'.all = arrivals.all + 1 /\ arrivals'.waiting = arrivals.waiting + 1
      /\ arrivals' \in [waiting : Nat, all : Nat]
  BY <1>1, <1>2
<1>4. NetInv'
  BY <1>1, <1>2, <1>3 DEF UvInv, NetInv
<1>5. MapInv'
  <2>1. arrivals'.all - arrivals'.waiting = arrivals.all - arrivals.waiting
    BY <1>2, <1>3
  <2> QED BY <2>1, <1>1 DEF UvInv, MapInv, Allocated
<1>6. StagesInv' /\ ClosingsInv' /\ LoopInv'
  BY <1>1 DEF UvInv, StagesInv, ClosingsInv, LoopInv, Allocated, Opened
<1>7. ReadingInv' /\ EndedInv'
  BY <1>1 DEF UvInv, ReadingInv, EndedInv, Allocated
<1>8. RecordsInv'
  BY <1>1 DEF UvInv, RecordsInv, Left, Allocated
<1> QED BY <1>4, <1>5, <1>6, <1>7, <1>8 DEF UvInv

-----------------------------------------------------------------------------
(* on_connection                                                           *)

LEMMA NewUvSessionSound == Sound(NewUvSession) /\ NewUvSession.handle = "open"
                           /\ NewUvSession.encoded = 0 /\ NewUvSession.inbox = <<>>
<1> DEFINE r == NewUvSession
           b == [i \in 1 .. AnswerRoom |-> 0]
<1>1. AnswerRoom \in Nat /\ MaxFrames \in Nat /\ 0 \in 0 .. MaxFrames /\ 0 \in 0 .. AnswerRoom
  BY Constants
<1>2. /\ <<>> \in Seq(WriteReq) /\ <<>> \in Seq({"echo", "stop"})
      /\ <<>> \in Seq(0 .. MaxFrames) /\ Len(<<>>) = 0
  BY EmptySeq
<1>3. b \in [1 .. AnswerRoom -> 0 .. MaxFrames]
  BY <1>1
<1> HIDE DEF b
<1>4. r \in UvSession
  BY <1>1, <1>2, <1>3 DEF UvSession, NewUvSession, b
<1>5. /\ r.queue = <<>> /\ r.wire = <<>> /\ r.done = 0 /\ r.offset = 0 /\ r.pos = 0
      /\ r.encoded = 0 /\ r.handle = "open" /\ r.inbox = <<>>
  BY DEF NewUvSession
<1> HIDE DEF r
<1>6. QueueSound(r) /\ Answers(r) /\ r.offset <= r.pos
  BY <1>2, <1>5 DEF QueueSound, Answers, OneRequest, Unsent
<1> QED BY <1>4, <1>5, <1>6 DEF Sound, r

LEMMA AcceptStep == ASSUME UvInv, AcceptS PROVE UvInv'
<1> PICK s : s = arrivals.all - arrivals.waiting + 1
  OBVIOUS
<1>1. /\ UNCHANGED <<life, stage, listener, frames, turn, todo, fed, closings, reading>>
      /\ stage = "loop" /\ turn = "poll" /\ reading = NotReading
      /\ <<Listener, "in">> \in todo /\ arrivals.waiting > 0
      /\ arrivals' = [arrivals EXCEPT !.waiting = @ - 1]
      /\ sessions' = [c \in Allocated \cup {s} |-> IF c = s THEN NewUvSession ELSE sessions[c]]
      /\ registry' = registry \cup {s}
  BY DEF AcceptS, user, loopVars, InLoop
<1>2. life = "start"
  BY <1>1 DEF UvInv, LoopInv, StagesInv
<1>3. /\ arrivals \in [waiting : Nat, all : Nat] /\ MaxConn \in Nat /\ frames \in Nat
      /\ arrivals.waiting \in Nat /\ arrivals.all \in Nat
      /\ arrivals.waiting <= arrivals.all /\ arrivals.all <= MaxConn
  BY Constants DEF UvInv, NetInv
<1>4. /\ arrivals'.all = arrivals.all /\ arrivals'.waiting = arrivals.waiting - 1
      /\ arrivals' \in [waiting : Nat, all : Nat]
  BY <1>1, <1>3
<1>5. NetInv'
  BY <1>1, <1>3, <1>4 DEF UvInv, NetInv
<1>6. /\ s \in Nat \ {0} /\ s \notin Allocated
      /\ \A t \in Allocated \cup {s} : t \in 1 .. arrivals'.all - arrivals'.waiting
  <2> DEFINE a == arrivals.all
             w == arrivals.waiting
  <2>1. a \in Nat /\ w \in Nat /\ w > 0 /\ w <= a /\ s = a - w + 1
        /\ \A t \in Allocated : t \in 1 .. a - w
    BY <1>1, <1>3 DEF UvInv, MapInv
  <2>2. arrivals'.all = a /\ arrivals'.waiting = w - 1
    BY <1>4
  <2> HIDE DEF a, w
  <2> QED BY <2>1, <2>2
<1>7. /\ Allocated' = Allocated \cup {s} /\ sessions'[s] = NewUvSession
      /\ \A t \in Allocated : sessions'[t] = sessions[t]
  BY <1>1, <1>6 DEF Allocated
<1>8. NewUvSession.handle = "open"
  BY NewUvSessionSound
<1>9. MapInv'
  <2>1. registry' \subseteq Allocated'
    BY <1>1, <1>7 DEF UvInv, MapInv
  <2>2. Allocated' \subseteq registry' /\ \A t \in Allocated' : sessions'[t].handle # "lost"
    BY <1>1, <1>2, <1>7, <1>8 DEF UvInv, MapInv
  <2>3. \A t \in Allocated' : t \in 1 .. arrivals'.all - arrivals'.waiting
    BY <1>6, <1>7
  <2>4. life' = "start"
    BY <1>1, <1>2
  <2> QED BY <2>1, <2>2, <2>3, <2>4 DEF MapInv
<1>10. StagesInv' /\ EndedInv'
  BY <1>1 DEF UvInv, StagesInv, EndedInv, Early
<1>11. ClosingsInv'
  <2>1. /\ closings \in Seq(Conn \cup {Listener})
        /\ \A k, l \in 1 .. Len(closings) : k # l => closings[k] # closings[l]
        /\ listener = "closing" => \E k \in 1 .. Len(closings) : closings[k] = Listener
    BY DEF UvInv, ClosingsInv
  <2>2. \A k \in 1 .. Len(closings) :
          IF closings[k] = Listener THEN listener = "closing"
          ELSE closings[k] \in Allocated' /\ sessions'[closings[k]].handle = "closing"
    BY <1>7 DEF UvInv, ClosingsInv
  <2>3. \A t \in Allocated' :
          sessions'[t].handle = "closing" => \E k \in 1 .. Len(closings) : closings[k] = t
    BY <1>7, <1>8 DEF UvInv, ClosingsInv
  <2> QED BY <2>1, <2>2, <2>3, <1>1 DEF ClosingsInv
<1>12. LoopInv'
  <2>1. Opened \subseteq Opened'
    BY <1>7 DEF Opened
  <2> QED BY <2>1, <1>1 DEF UvInv, LoopInv
<1>13. ReadingInv'
  BY <1>1, <1>7 DEF UvInv, ReadingInv
<1>14. RecordsInv'
  <2> SUFFICES ASSUME NEW t \in Allocated'
               PROVE  /\ Sound(sessions'[t])
                      /\ sessions'[t].encoded + Len(sessions'[t].inbox) + Left(t)' <= frames
    BY <1>1 DEF RecordsInv
  <2>1. Left(t)' = Left(t)
    BY <1>1 DEF Left
  <2>2. CASE t = s
    <3>1. Left(t) = 0
      BY <2>2, <1>1, <1>6, Constants DEF Left, NotReading
    <3>2. Len(<<>>) = 0
      BY EmptySeq
    <3> QED BY <2>1, <2>2, <3>1, <3>2, <1>3, <1>7, NewUvSessionSound
  <2>3. CASE t \in Allocated
    BY <2>1, <2>3, <1>7 DEF UvInv, RecordsInv
  <2> QED BY <2>2, <2>3, <1>7
<1> QED BY <1>5, <1>9, <1>10, <1>11, <1>12, <1>13, <1>14 DEF UvInv

LEMMA AcceptedStep == ASSUME UvInv, AcceptedS PROVE UvInv'
<1>1. /\ UNCHANGED <<life, stage, listener, sessions, registry, arrivals, frames, turn, fed, closings, reading>>
      /\ todo' \subseteq todo /\ stage = "loop"
  BY DEF AcceptedS, user, netVars, InLoop
<1>2. NetInv' /\ StagesInv' /\ MapInv' /\ ClosingsInv'
  BY <1>1 DEF UvInv, NetInv, StagesInv, MapInv, ClosingsInv, Allocated, Early
<1>3. LoopInv'
  BY <1>1 DEF UvInv, LoopInv, Allocated, Opened
<1>4. ReadingInv' /\ EndedInv'
  BY <1>1 DEF UvInv, ReadingInv, EndedInv, Allocated
<1>5. RecordsInv'
  BY <1>1 DEF UvInv, RecordsInv, Left, Allocated
<1> QED BY <1>2, <1>3, <1>4, <1>5 DEF UvInv

-----------------------------------------------------------------------------
(* Closing.                                                                *)

\* One more handle is closing.
LEMMA PushIs ==
  ASSUME NEW q \in Seq(Conn \cup {Listener}), NEW h \in Conn \cup {Listener}
  PROVE  LET p == <<h>> \o q
         IN /\ p \in Seq(Conn \cup {Listener}) /\ Len(p) = Len(q) + 1 /\ p[1] = h
            /\ \A k \in 1 .. Len(q) : p[k + 1] = q[k]
            /\ \A k \in 1 .. Len(p) : k = 1 \/ (k - 1 \in 1 .. Len(q) /\ p[k] = q[k - 1])
<1> DEFINE H == Conn \cup {Listener}
           a == <<h>>
           p == a \o q
<1>1. a \in Seq(H) /\ Len(a) = 1 /\ a[1] = h
  OBVIOUS
<1> HIDE DEF a, H
<1>2. q \in Seq(H)
  BY DEF H
<1>3. /\ p \in Seq(H) /\ Len(p) = 1 + Len(q) /\ Len(q) \in Nat
      /\ \A k \in 1 .. 1 + Len(q) : p[k] = IF k <= 1 THEN a[k] ELSE q[k - 1]
  <2>1. /\ p \in Seq(H) /\ Len(p) = Len(a) + Len(q)
        /\ \A k \in 1 .. Len(a) + Len(q) : p[k] = IF k <= Len(a) THEN a[k] ELSE q[k - Len(a)]
    BY <1>1, <1>2, ConcatProperties
  <2> HIDE DEF p
  <2>2. Len(q) \in Nat
    BY <1>2, LenProperties
  <2> QED BY <1>1, <2>1, <2>2
<1> HIDE DEF p
<1>4. p[1] = h /\ Len(p) = Len(q) + 1
  BY <1>1, <1>3
<1>5. ASSUME NEW k \in 1 .. Len(q) PROVE p[k + 1] = q[k]
  <2>1. k + 1 \in 1 .. 1 + Len(q) /\ ~(k + 1 <= 1) /\ k + 1 - 1 = k
    BY <1>3
  <2> QED BY <2>1, <1>3
<1>6. ASSUME NEW k \in 1 .. Len(p), k # 1 PROVE k - 1 \in 1 .. Len(q) /\ p[k] = q[k - 1]
  BY <1>3, <1>4, <1>6
<1> QED BY <1>3, <1>4, <1>5, <1>6 DEF p, a, H

LEMMA CloseStreamSound ==
  ASSUME NEW r, Sound(r)
  PROVE  LET w == CloseStream(r)
         IN Sound(w) /\ w.handle = "closing" /\ w.inbox = <<>> /\ w.encoded = r.encoded
<1> DEFINE w == CloseStream(r)
<1>1. r \in UvSession
  BY DEF Sound
<1>2. <<>> \in Seq({"echo", "stop"})
  BY EmptySeq
<1>3. w \in UvSession
  BY <1>1, <1>2, Zenon DEF UvSession, CloseStream
<1>4. SameData(r, w) /\ w.handle = "closing" /\ w.peer = r.peer /\ w.inbox = <<>>
  BY <1>1 DEF UvSession, CloseStream, SameData
<1> HIDE DEF w
<1>5. Sound(w)
  BY <1>3, <1>4, DataSound
<1> QED BY <1>4, <1>5 DEF SameData, w

\* uv_close of an open stream
LEMMA CloseOpen ==
  ASSUME UvInv, NEW s \in Opened, NEW r, Sound(r), r.encoded = sessions[s].encoded,
         UvClose(s, r), stage = "loop",
         UNCHANGED <<life, stage, listener, registry, arrivals, frames, turn>>,
         reading' = NotReading, \A t \in Allocated : Left(t) = 0
  PROVE  UvInv'
<1> DEFINE w == CloseStream(r)
<1>1. /\ sessions' = [sessions EXCEPT ![s] = w] /\ closings' = <<s>> \o closings
      /\ todo' = {e \in todo : e[1] # s} /\ fed' = fed \ {s}
  BY DEF UvClose
<1>2. s \in Allocated /\ s \in Conn /\ s # Listener /\ sessions[s].handle = "open"
  BY SessionFacts DEF Opened, UvInv
<1>3. Sound(w) /\ w.handle = "closing" /\ w.inbox = <<>> /\ w.encoded = sessions[s].encoded
  BY CloseStreamSound
<1> HIDE DEF w
<1>4. \A t \in Allocated : t # Listener /\ Left(t)' = 0
  BY SessionFacts DEF UvInv, Left, NotReading
<1>5. /\ RecordsInv' /\ Allocated' = Allocated /\ sessions'[s] = w
      /\ \A t \in Allocated : t # s => sessions'[t] = sessions[t]
  <2>1. w.encoded + Len(w.inbox) + Left(s)' <= frames'
    <3>1. /\ sessions[s].encoded \in Nat /\ Len(sessions[s].inbox) \in Nat /\ frames \in Nat
          /\ sessions[s].encoded + Len(sessions[s].inbox) + Left(s) <= frames
      BY <1>2, RecordFacts
    <3>2. Left(s) = 0 /\ Left(s)' = 0 /\ Len(w.inbox) = 0
      BY <1>2, <1>3, <1>4, EmptySeq
    <3> QED BY <3>1, <3>2, <1>3
  <2>2. frames' \in Nat /\ frames <= frames'
    BY <1>2, RecordFacts
  <2>3. \A t \in Allocated : t # s => Left(t)' = Left(t)
    BY <1>4
  <2> QED BY <2>1, <2>2, <2>3, <1>1, <1>2, <1>3, OneRecord
<1>6. NetInv' /\ StagesInv'
  BY <1>5 DEF UvInv, NetInv, StagesInv, Early
\* After a stop no session is open.
<1>7. life = "start"
  BY <1>2 DEF UvInv, StagesInv, MapInv
<1>8. MapInv'
  BY <1>3, <1>5, <1>7 DEF UvInv, MapInv
<1>9. EndedInv'
  BY <1>7 DEF EndedInv
<1>10. ReadingInv'
  <2>1. <<>> \in Seq({"echo", "stop"})
    BY EmptySeq
  <2> QED BY <2>1 DEF ReadingInv, NotReading
<1>11. /\ closings \in Seq(Conn \cup {Listener}) /\ Len(closings) \in Nat
       /\ \A k, l \in 1 .. Len(closings) : k # l => closings[k] # closings[l]
       /\ \A k \in 1 .. Len(closings) :
            IF closings[k] = Listener THEN listener = "closing"
            ELSE closings[k] \in Allocated /\ sessions[closings[k]].handle = "closing"
       /\ \A t \in Allocated :
            sessions[t].handle = "closing" => \E k \in 1 .. Len(closings) : closings[k] = t
       /\ listener = "closing" => \E k \in 1 .. Len(closings) : closings[k] = Listener
  BY LenProperties DEF UvInv, ClosingsInv
<1>12. /\ closings' \in Seq(Conn \cup {Listener}) /\ Len(closings') = Len(closings) + 1
       /\ closings'[1] = s
       /\ \A k \in 1 .. Len(closings) : closings'[k + 1] = closings[k]
       /\ \A k \in 1 .. Len(closings') :
            k = 1 \/ (k - 1 \in 1 .. Len(closings) /\ closings'[k] = closings[k - 1])
  BY <1>1, <1>2, <1>11, PushIs
<1>13. \A k \in 1 .. Len(closings) : k + 1 \in 1 .. Len(closings') /\ closings[k] # s
  <2>1. \A k \in 1 .. Len(closings) : closings[k] # s
    BY <1>2, <1>11
  <2> QED BY <2>1, <1>11, <1>12
<1>14. ClosingsInv'
  <2>1. ASSUME NEW k \in 1 .. Len(closings'), NEW l \in 1 .. Len(closings'), k # l
        PROVE  closings'[k] # closings'[l]
    <3>1. CASE k = 1
      <4>1. l - 1 \in 1 .. Len(closings) /\ closings'[l] = closings[l - 1]
        BY <2>1, <3>1, <1>12
      <4> QED BY <3>1, <4>1, <1>12, <1>13
    <3>2. CASE l = 1
      <4>1. k - 1 \in 1 .. Len(closings) /\ closings'[k] = closings[k - 1]
        BY <2>1, <3>2, <1>12
      <4> QED BY <3>2, <4>1, <1>12, <1>13
    <3>3. CASE k # 1 /\ l # 1
      <4>1. /\ k - 1 \in 1 .. Len(closings) /\ closings'[k] = closings[k - 1]
            /\ l - 1 \in 1 .. Len(closings) /\ closings'[l] = closings[l - 1]
        BY <3>3, <1>12
      <4>2. k - 1 # l - 1
        BY <2>1
      <4> QED BY <4>1, <4>2, <1>11
    <3> QED BY <3>1, <3>2, <3>3
  <2>2. ASSUME NEW k \in 1 .. Len(closings')
        PROVE  IF closings'[k] = Listener THEN listener' = "closing"
               ELSE closings'[k] \in Allocated' /\ sessions'[closings'[k]].handle = "closing"
    <3>1. CASE k = 1
      BY <3>1, <1>2, <1>3, <1>5, <1>12
    <3>2. CASE k # 1
      <4>1. k - 1 \in 1 .. Len(closings) /\ closings'[k] = closings[k - 1]
        BY <3>2, <1>12
      <4> QED BY <4>1, <1>5, <1>11, <1>13
    <3> QED BY <3>1, <3>2
  <2>3. ASSUME NEW t \in Allocated', sessions'[t].handle = "closing"
        PROVE  \E k \in 1 .. Len(closings') : closings'[k] = t
    <3>1. CASE t = s
      <4>1. 1 \in 1 .. Len(closings')
        BY <1>11, <1>12
      <4> QED BY <3>1, <4>1, <1>12
    <3>2. CASE t # s
      <4> PICK k \in 1 .. Len(closings) : closings[k] = t
        BY <2>3, <3>2, <1>5, <1>11
      <4> QED BY <1>12, <1>13
    <3> QED BY <3>1, <3>2
  <2>4. listener' = "closing" => \E k \in 1 .. Len(closings') : closings'[k] = Listener
    <3> SUFFICES ASSUME listener = "closing"
                 PROVE  \E k \in 1 .. Len(closings') : closings'[k] = Listener
      OBVIOUS
    <3> PICK k \in 1 .. Len(closings) : closings[k] = Listener
      BY <1>11
    <3> QED BY <1>12, <1>13
  <2> QED BY <2>1, <2>2, <2>3, <2>4, <1>12 DEF ClosingsInv
<1>15. LoopInv'
  <2>1. Opened' = Opened \ {s}
    BY <1>2, <1>3, <1>5 DEF Opened
  <2> QED BY <2>1, <1>1, <1>2 DEF UvInv, LoopInv
<1> QED BY <1>5, <1>6, <1>8, <1>9, <1>10, <1>14, <1>15 DEF UvInv

LEMMA ReadErrorStep == ASSUME UvInv, ReadError PROVE UvInv'
<1> PICK s \in Opened : InEvent(s) /\ UvClose(s, sessions[s])
  BY DEF ReadError
<1>1. /\ UNCHANGED <<life, stage, listener, registry, arrivals, frames, turn>>
      /\ stage = "loop" /\ reading' = NotReading /\ reading = NotReading
  BY DEF ReadError, user, netVars, InEvent, InLoop
<1>2. \A t \in Allocated : Left(t) = 0
  BY <1>1, LeftNot
<1>3. Sound(sessions[s])
  BY RecordFacts DEF Opened
<1> PICK r : r = sessions[s]
  OBVIOUS
<1>4. UvClose(s, r) /\ Sound(r) /\ r.encoded = sessions[s].encoded
  BY <1>3
<1> QED BY <1>1, <1>2, <1>4, CloseOpen

\* The part of uv__stream_io that writes
LEMMA WriteStep == ASSUME UvInv, WriteS PROVE UvInv'
<1> PICK s \in Opened : /\ reading \in {NotReading, [id |-> s, rest |-> <<>>]}
                        /\ WriteIo(s)
  BY DEF WriteS
<1>1. /\ UNCHANGED <<life, stage, listener, registry, arrivals, frames, turn>>
      /\ stage = "loop" /\ reading' = NotReading
  BY DEF WriteS, user, netVars, InLoop
<1> PICK x : x = sessions[s]
  OBVIOUS
<1>2. s \in Allocated /\ \A t \in Allocated : t # Listener
  BY SessionFacts DEF Opened, UvInv
<1>3. \A t \in Allocated : Left(t) = 0 /\ Left(t)' = 0
  <2>1. Len(<<>>) = 0
    BY EmptySeq
  <2> QED BY <2>1, <1>1, <1>2 DEF Left, NotReading
<1>4. /\ Sound(x) /\ x.encoded \in Nat /\ Len(x.inbox) \in Nat /\ frames \in Nat
      /\ x.encoded + Len(x.inbox) + Left(s) <= frames
  BY <1>2, RecordFacts
<1> PICK w \in Write(x) :
      LET r == AfterWrites(w.to)
          drained == [r EXCEPT !.out = FALSE, !.shut = FALSE]
      IN IF r.queue = <<>> /\ r.shut
         THEN UvClose(s, drained)
         ELSE /\ sessions' = [sessions EXCEPT ![s] = IF r.queue = <<>> THEN drained ELSE r]
              /\ fed' = IF w.feeds THEN fed \cup {s} ELSE fed
              /\ todo' = todo \ {<<s, "out">>}
              /\ UNCHANGED closings
  BY DEF WriteIo
<1> DEFINE r == AfterWrites(w.to)
           drained == [r EXCEPT !.out = FALSE, !.shut = FALSE]
<1>5. Sound(r) /\ r.handle = x.handle /\ r.inbox = x.inbox /\ r.encoded = x.encoded
  <2>1. Sound(w.to) /\ Same(x, w.to) /\ w.to.encoded = x.encoded
    BY <1>4, WriteSound
  <2> QED BY <2>1, AfterWritesSound DEF Same
<1> HIDE DEF r
<1>6. Sound(drained) /\ drained.handle = x.handle /\ drained.inbox = x.inbox /\ drained.encoded = x.encoded
  <2>1. r \in UvSession
    BY <1>5 DEF Sound
  <2>2. drained \in UvSession
    BY <2>1, Zenon DEF UvSession
  <2>3. /\ SameData(r, drained) /\ drained.handle = r.handle /\ drained.inbox = r.inbox
        /\ drained.peer = r.peer
    BY <2>1 DEF UvSession, SameData
  <2> HIDE DEF drained
  <2>4. Sound(drained)
    BY <1>5, <2>2, <2>3, DataSound
  <2> QED BY <2>3, <2>4, <1>5 DEF SameData
<1> HIDE DEF drained
<1>7. CASE UvClose(s, drained)
  BY <1>1, <1>3, <1>6, <1>7, CloseOpen
<1>8. CASE /\ sessions' = [sessions EXCEPT ![s] = IF r.queue = <<>> THEN drained ELSE r]
           /\ fed' = IF w.feeds THEN fed \cup {s} ELSE fed
           /\ todo' = todo \ {<<s, "out">>}
           /\ UNCHANGED closings
  <2> PICK v : v = IF r.queue = <<>> THEN drained ELSE r
    OBVIOUS
  <2>1. Sound(v) /\ v.handle = x.handle /\ v.inbox = x.inbox /\ v.encoded = x.encoded
    BY <1>5, <1>6
  <2>2. sessions' = [sessions EXCEPT ![s] = v]
    BY <1>8
  <2>3. v.encoded + Len(v.inbox) + Left(s)' <= frames'
    BY <1>1, <1>2, <1>3, <1>4, <2>1
  <2>4. /\ RecordsInv' /\ Allocated' = Allocated /\ sessions'[s] = v
        /\ \A t \in Allocated : t # s => sessions'[t] = sessions[t]
    <3>1. frames' \in Nat /\ frames <= frames' /\ \A t \in Allocated : t # s => Left(t)' = Left(t)
      BY <1>1, <1>3, <1>4
    <3>2. UvInv /\ s \in Allocated /\ Sound(v)
      BY <1>2, <2>1
    <3> QED BY ONLY <3>1, <3>2, <2>2, <2>3, OneRecord
  <2>5. \A t \in Allocated : sessions'[t].handle = sessions[t].handle
    BY <2>1, <2>4
  <2>6. StagesInv' /\ MapInv' /\ ClosingsInv' /\ EndedInv' /\ Opened' = Opened
    BY <1>1, <1>2, <1>8, <2>4, <2>5, QuietStep
  <2>7. LoopInv' /\ NetInv'
    <3>1. fed' \subseteq Opened /\ todo' \subseteq todo
      BY <1>8 DEF UvInv, LoopInv
    <3> QED BY <3>1, <1>1, <2>6, LessTodo DEF UvInv, NetInv
  <2>8. ReadingInv'
    <3>1. <<>> \in Seq({"echo", "stop"})
      BY EmptySeq
    <3> QED BY <3>1, <1>1 DEF ReadingInv, NotReading
  <2> QED BY <2>4, <2>6, <2>7, <2>8 DEF UvInv
<1> QED BY <1>7, <1>8 DEF r, drained

\* The handle that was closed last is done with.
LEMMA PopIs ==
  ASSUME UvInv, closings # <<>>, closings' = Tail(closings)
  PROVE  /\ Head(closings) \in Conn \cup {Listener}
         /\ 1 \in 1 .. Len(closings) /\ closings[1] = Head(closings)
         /\ closings' \in Seq(Conn \cup {Listener})
         /\ \A k, l \in 1 .. Len(closings') : k # l => closings'[k] # closings'[l]
         /\ \A k \in 1 .. Len(closings') :
              /\ k + 1 \in 1 .. Len(closings) /\ closings'[k] = closings[k + 1]
              /\ closings'[k] # Head(closings)
         /\ \A k \in 1 .. Len(closings) :
              closings[k] # Head(closings) =>
                \E l \in 1 .. Len(closings') : closings'[l] = closings[k]
<1>1. /\ closings \in Seq(Conn \cup {Listener})
      /\ \A k, l \in 1 .. Len(closings) : k # l => closings[k] # closings[l]
  BY DEF UvInv, ClosingsInv
<1>2. /\ Len(closings) \in Nat \ {0} /\ Head(closings) \in Conn \cup {Listener}
      /\ closings' \in Seq(Conn \cup {Listener}) /\ Len(closings') = Len(closings) - 1
      /\ \A k \in 1 .. Len(closings') : closings'[k] = closings[k + 1]
  BY <1>1, EmptySeq, HeadTailProperties
<1>3. closings[1] = Head(closings) /\ 1 \in 1 .. Len(closings)
  BY <1>1, <1>2
<1>4. ASSUME NEW k \in 1 .. Len(closings')
      PROVE  /\ k + 1 \in 1 .. Len(closings) /\ closings'[k] = closings[k + 1] /\ k + 1 # 1
             /\ closings'[k] # Head(closings)
  <2>1. k + 1 \in 1 .. Len(closings) /\ closings'[k] = closings[k + 1] /\ k + 1 # 1
    BY <1>2
  <2> QED BY <2>1, <1>1, <1>3
<1>5. ASSUME NEW k \in 1 .. Len(closings'), NEW l \in 1 .. Len(closings'), k # l
      PROVE  closings'[k] # closings'[l]
  <2>1. k + 1 # l + 1
    BY <1>5
  <2> QED BY <2>1, <1>1, <1>4
<1>6. ASSUME NEW k \in 1 .. Len(closings), closings[k] # Head(closings)
      PROVE  \E l \in 1 .. Len(closings') : closings'[l] = closings[k]
  <2>1. k # 1
    BY <1>3, <1>6
  <2>2. k - 1 \in 1 .. Len(closings') /\ (k - 1) + 1 = k
    BY <2>1, <1>2
  <2> QED BY <2>2, <1>4
<1> QED BY <1>2, <1>3, <1>4, <1>5, <1>6

LEMMA CloseListenerStep == ASSUME UvInv, CloseListener PROVE UvInv'
<1>1. /\ UNCHANGED <<life, stage, sessions, registry, arrivals, frames, turn, todo, fed, reading>>
      /\ stage = "loop" /\ closings # <<>> /\ Head(closings) = Listener
      /\ listener' = "closed" /\ closings' = Tail(closings)
  BY DEF CloseListener, netVars, InLoop
<1>2. /\ 1 \in 1 .. Len(closings) /\ closings[1] = Listener
      /\ closings' \in Seq(Conn \cup {Listener})
      /\ \A k, l \in 1 .. Len(closings') : k # l => closings'[k] # closings'[l]
      /\ \A k \in 1 .. Len(closings') :
           /\ k + 1 \in 1 .. Len(closings) /\ closings'[k] = closings[k + 1]
           /\ closings'[k] # Listener
      /\ \A k \in 1 .. Len(closings) :
           closings[k] # Listener => \E l \in 1 .. Len(closings') : closings'[l] = closings[k]
  BY <1>1, PopIs
<1>3. listener = "closing" /\ life = "stop"
  BY <1>1, <1>2 DEF UvInv, ClosingsInv, StagesInv
<1>4. NetInv' /\ MapInv' /\ EndedInv' /\ ReadingInv'
  BY <1>1 DEF UvInv, NetInv, MapInv, EndedInv, ReadingInv, Allocated
<1>5. StagesInv'
  BY <1>1, <1>3 DEF UvInv, StagesInv, Early
<1>6. RecordsInv'
  BY <1>1 DEF UvInv, RecordsInv, Left, Allocated
<1>7. LoopInv'
  BY <1>1, <1>3 DEF UvInv, LoopInv, Opened, Allocated
<1>8. ClosingsInv'
  <2>1. \A k \in 1 .. Len(closings') :
          closings'[k] \in Allocated /\ sessions[closings'[k]].handle = "closing"
    BY <1>2 DEF UvInv, ClosingsInv
  <2>2. ASSUME NEW t \in Allocated, sessions[t].handle = "closing"
        PROVE  \E k \in 1 .. Len(closings') : closings'[k] = t
    <3>1. PICK k \in 1 .. Len(closings) : closings[k] = t
      BY <2>2 DEF UvInv, ClosingsInv
    <3>2. t # Listener
      BY SessionFacts DEF UvInv
    <3> QED BY <3>1, <3>2, <1>2
  <2> QED BY <2>1, <2>2, <1>1, <1>2 DEF ClosingsInv, Allocated
<1> QED BY <1>4, <1>5, <1>6, <1>7, <1>8 DEF UvInv

\* What a close callback leaves of a session that no map names
LEMMA LostSound ==
  ASSUME NEW r, Sound(r)
  PROVE  LET w == [r EXCEPT !.handle = "lost", !.queue = <<>>, !.done = 0]
         IN Sound(w) /\ w.handle = "lost" /\ w.inbox = r.inbox /\ w.encoded = r.encoded
<1> DEFINE w == [r EXCEPT !.handle = "lost", !.queue = <<>>, !.done = 0]
<1>1. r \in UvSession /\ r.offset <= r.pos
  BY DEF Sound
<1>2. <<>> \in Seq(WriteReq) /\ Len(<<>>) = 0
  BY EmptySeq
<1>3. w \in UvSession
  BY <1>1, <1>2, Zenon DEF UvSession
<1>4. /\ w.handle = "lost" /\ w.inbox = r.inbox /\ w.encoded = r.encoded
      /\ w.offset = r.offset /\ w.pos = r.pos /\ w.queue = <<>>
  BY <1>1 DEF UvSession
<1> HIDE DEF w
<1>5. QueueSound(w)
  BY <1>2, <1>4 DEF QueueSound
<1>6. Answers(w)
  BY <1>4 DEF Answers
<1>7. Sound(w)
  BY <1>1, <1>3, <1>4, <1>5, <1>6 DEF Sound
<1> QED BY <1>4, <1>7 DEF w

LEMMA CloseSessionStep == ASSUME UvInv, CloseSessionS PROVE UvInv'
<1> PICK s : s = Head(closings)
  OBVIOUS
<1>1. /\ UNCHANGED <<life, stage, listener, arrivals, frames, turn, todo, fed, reading>>
      /\ stage = "loop" /\ turn = "closing" /\ closings # <<>>
      /\ closings' = Tail(closings) /\ s # Listener
      /\ sessions' = IF s \in registry THEN [t \in Allocated \ {s} |-> sessions[t]]
                     ELSE [sessions EXCEPT ![s].handle = "lost",
                                           ![s].queue = <<>>, ![s].done = 0]
      /\ registry' = registry \ {s}
  BY DEF CloseSessionS, netVars, InLoop, user
<1>2. /\ 1 \in 1 .. Len(closings) /\ closings[1] = s
      /\ closings' \in Seq(Conn \cup {Listener})
      /\ \A k, l \in 1 .. Len(closings') : k # l => closings'[k] # closings'[l]
      /\ \A k \in 1 .. Len(closings') :
           /\ k + 1 \in 1 .. Len(closings) /\ closings'[k] = closings[k + 1]
           /\ closings'[k] # s
      /\ \A k \in 1 .. Len(closings) :
           closings[k] # s => \E l \in 1 .. Len(closings') : closings'[l] = closings[k]
  BY <1>1, PopIs
<1>3. s \in Allocated /\ sessions[s].handle = "closing"
  BY <1>1, <1>2 DEF UvInv, ClosingsInv
<1>4. /\ life \in {"start", "stop"} /\ reading.id = Listener
      /\ \A t \in Allocated : t # Listener
  BY <1>1, SessionFacts DEF UvInv, StagesInv, ReadingInv
<1> DEFINE lost == [sessions[s] EXCEPT !.handle = "lost", !.queue = <<>>, !.done = 0]
<1>5. /\ Sound(lost) /\ lost.handle = "lost" /\ lost.inbox = sessions[s].inbox
      /\ lost.encoded = sessions[s].encoded
  <2>1. Sound(sessions[s])
    BY <1>3, RecordFacts
  <2> QED BY <2>1, LostSound
\* Before a stop the session is freed, behind it its memory is lost.
<1>6. /\ registry' \subseteq Allocated' /\ Allocated' \subseteq Allocated
      /\ \A t \in Allocated : t # s => t \in Allocated'
      /\ \A t \in Allocated' : t # s => sessions'[t] = sessions[t]
      /\ s \in Allocated' => sessions'[s] = lost
      /\ life = "start" => Allocated' \subseteq registry' /\ s \notin Allocated'
      /\ life = "stop" => registry' = {}
  <2>1. CASE life = "start"
    <3>1. registry = Allocated /\ s \in registry
      BY <2>1, <1>3 DEF UvInv, MapInv
    <3>2. sessions' = [t \in Allocated \ {s} |-> sessions[t]]
      BY <3>1, <1>1
    <3>3. Allocated' = Allocated \ {s}
      BY <3>2 DEF Allocated
    <3> QED BY <2>1, <3>1, <3>2, <3>3, <1>1
  <2>2. CASE life = "stop"
    <3>1. registry = {}
      BY <2>2 DEF UvInv, MapInv
    <3>2. sessions' = [sessions EXCEPT ![s] = lost]
      BY <3>1, <1>1
    <3> HIDE DEF lost
    <3>3. Allocated' = Allocated /\ sessions'[s] = lost
          /\ \A t \in Allocated : t # s => sessions'[t] = sessions[t]
      BY <3>2, <1>3 DEF Allocated
    <3> QED BY <2>2, <3>1, <3>3, <1>1
  <2> QED BY <2>1, <2>2, <1>4
<1> HIDE DEF lost
<1>7. NetInv' /\ StagesInv'
  <2>1. stage \notin Early
    BY <1>1 DEF Early
  <2> QED BY <2>1, <1>1 DEF UvInv, NetInv, StagesInv
<1>8. MapInv'
  BY <1>1, <1>5, <1>6 DEF UvInv, MapInv
<1>9. EndedInv' /\ ReadingInv'
  BY <1>1, <1>4 DEF UvInv, EndedInv, ReadingInv
<1>10. Opened' = Opened
  BY <1>3, <1>5, <1>6 DEF Opened
<1>11. LoopInv'
  BY <1>1, <1>10 DEF UvInv, LoopInv
<1>12. RecordsInv'
  <2>1. ASSUME NEW t \in Allocated'
        PROVE  /\ Sound(sessions'[t])
               /\ sessions'[t].encoded + Len(sessions'[t].inbox) + Left(t) <= frames
    <3>1. t \in Allocated
      BY <1>6
    <3>2. /\ Sound(sessions[t])
          /\ sessions[t].encoded + Len(sessions[t].inbox) + Left(t) <= frames
      BY <3>1 DEF UvInv, RecordsInv
    <3> QED BY <3>2, <1>5, <1>6
  <2>2. \A t \in Allocated' : Left(t)' = Left(t)
    BY <1>1 DEF Left
  <2> QED BY <2>1, <2>2, <1>1 DEF RecordsInv
<1>13. ClosingsInv'
  <2>1. ASSUME NEW k \in 1 .. Len(closings')
        PROVE  IF closings'[k] = Listener THEN listener' = "closing"
               ELSE closings'[k] \in Allocated' /\ sessions'[closings'[k]].handle = "closing"
    <3>1. k + 1 \in 1 .. Len(closings) /\ closings'[k] = closings[k + 1] /\ closings'[k] # s
      BY <1>2
    <3>2. IF closings[k + 1] = Listener THEN listener = "closing"
          ELSE closings[k + 1] \in Allocated /\ sessions[closings[k + 1]].handle = "closing"
      BY <3>1 DEF UvInv, ClosingsInv
    <3> QED BY <3>1, <3>2, <1>1, <1>6
  <2>2. ASSUME NEW t \in Allocated', sessions'[t].handle = "closing"
        PROVE  \E k \in 1 .. Len(closings') : closings'[k] = t
    <3>1. t # s /\ t \in Allocated /\ sessions[t].handle = "closing"
      BY <2>2, <1>5, <1>6
    <3>2. PICK k \in 1 .. Len(closings) : closings[k] = t
      BY <3>1 DEF UvInv, ClosingsInv
    <3> QED BY <3>1, <3>2, <1>2
  <2>3. listener' = "closing" => \E k \in 1 .. Len(closings') : closings'[k] = Listener
    <3> SUFFICES ASSUME listener = "closing"
                 PROVE  \E k \in 1 .. Len(closings') : closings'[k] = Listener
      BY <1>1
    <3>1. PICK k \in 1 .. Len(closings) : closings[k] = Listener
      BY DEF UvInv, ClosingsInv
    <3> QED BY <3>1, <1>1, <1>2
  <2> QED BY <2>1, <2>2, <2>3, <1>2 DEF ClosingsInv
<1> QED BY <1>7, <1>8, <1>9, <1>11, <1>12, <1>13 DEF UvInv
-----------------------------------------------------------------------------
(* The stop.                                                               *)

\* The order in which a map with the keys S is gone through
LEMMA OrderFacts ==
  ASSUME NEW S, IsFiniteSet(S), NEW o \in SetToSeqs(S)
  PROVE  /\ o \in Seq(S) /\ \A k, l \in 1 .. Len(o) : k # l => o[k] # o[l]
         /\ \A s \in S : \E k \in 1 .. Len(o) : o[k] = s
<1> DEFINE n == Cardinality(S)
           D == 1 .. n
<1>1. n \in Nat
  BY FS_CardinalityType
<1>2. o \in [D -> S] /\ \A i, j \in D : i # j => o[i] # o[j]
  BY DEF SetToSeqs
<1>3. o \in Seq(S) /\ Len(o) = n
  BY <1>1, <1>2
<1>4. o \in Injection(D, S)
  BY <1>2, Zenon DEF Injection, IsInjective
<1>5. Cardinality(D) = n
  BY <1>1, FS_Interval
<1> HIDE DEF D, n
<1>6. o \in Surjection(D, S)
  BY <1>4, <1>5, FS_Injection DEF n
<1>7. \A s \in S : \E k \in D : o[k] = s
  BY <1>6, Zenon DEF Surjection
<1> QED BY <1>2, <1>3, <1>7 DEF D

\* In a loop that nobody stopped nothing closes when all handles are open.
LEMMA NotBusy ==
  ASSUME UvInv, stage = "loop", ~Busy
  PROVE  /\ life = "start" /\ listener = "listening" /\ registry = Allocated /\ closings = <<>>
         /\ \A s \in Allocated : sessions[s].handle = "open"
<1>1. listener = "listening" /\ \A s \in registry : sessions[s].handle = "open"
  BY DEF Busy
<1>2. life = "start"
  BY <1>1 DEF UvInv, StagesInv
<1>3. registry = Allocated
  BY <1>2 DEF UvInv, MapInv
<1>4. closings \in Seq(Conn \cup {Listener}) /\ \A k \in 1 .. Len(closings) : FALSE
  BY <1>1, <1>3 DEF UvInv, ClosingsInv
<1>5. Len(closings) = 0
  BY <1>4, LenProperties
<1> QED BY <1>1, <1>2, <1>3, <1>4, <1>5, EmptySeq

\* Behind a stop the listening handle and all sessions are being closed.
LEMMA StopClosings ==
  ASSUME UvInv, NEW order \in SetToSeqs(registry), registry = Allocated,
         closings = <<>>, closings' = <<Listener>> \o order \o closings,
         listener' = "closing", Allocated' = Allocated,
         \A s \in Allocated : sessions'[s].handle = "closing"
  PROVE  ClosingsInv'
<1> DEFINE H == Conn \cup {Listener}
           n == Len(order)
<1>1. Allocated \subseteq Conn /\ IsFiniteSet(registry) /\ \A s \in Allocated : s # Listener
  BY SessionFacts DEF UvInv
<1>2. /\ order \in Seq(registry) /\ \A k, l \in 1 .. n : k # l => order[k] # order[l]
      /\ \A s \in Allocated : \E k \in 1 .. n : order[k] = s
  <2>1. /\ order \in Seq(registry) /\ \A k, l \in 1 .. Len(order) : k # l => order[k] # order[l]
        /\ \A s \in registry : \E k \in 1 .. Len(order) : order[k] = s
    BY ONLY <1>1, order \in SetToSeqs(registry), OrderFacts
  <2> QED BY <2>1, Zenon
<1>3. order \in Seq(Conn \cup {Listener}) /\ n \in Nat /\ Listener \in Conn \cup {Listener}
  <2>1. registry \subseteq Conn \cup {Listener}
    BY <1>1
  <2> QED BY <1>2, <2>1, SeqMonotonic, LenProperties
<1>4. \A k \in 1 .. n : order[k] \in Allocated
  BY <1>2, ElementOfSeq
<1> HIDE DEF n
<1>5. /\ <<Listener>> \o order \in Seq(Conn \cup {Listener})
      /\ Len(<<Listener>> \o order) = n + 1 /\ (<<Listener>> \o order)[1] = Listener
      /\ \A k \in 1 .. n : (<<Listener>> \o order)[k + 1] = order[k]
      /\ \A k \in 1 .. Len(<<Listener>> \o order) :
           k = 1 \/ (k - 1 \in 1 .. n /\ (<<Listener>> \o order)[k] = order[k - 1])
  BY <1>3, PushIs DEF n
<1>6. closings' = <<Listener>> \o order
  BY <1>5, ConcatEmptySeq
<1>7. /\ closings' \in Seq(Conn \cup {Listener}) /\ Len(closings') = n + 1 /\ closings'[1] = Listener
      /\ \A k \in 1 .. n : closings'[k + 1] = order[k]
      /\ \A k \in 1 .. Len(closings') : k = 1 \/ (k - 1 \in 1 .. n /\ closings'[k] = order[k - 1])
  BY <1>5, <1>6
<1>8. \A k \in 1 .. n : k + 1 \in 1 .. Len(closings')
  BY <1>3, <1>7
<1>9. 1 \in 1 .. Len(closings')
  BY <1>3, <1>7
<1>10. ASSUME NEW k \in 1 .. Len(closings'), NEW l \in 1 .. Len(closings'), k # l
       PROVE  closings'[k] # closings'[l]
  <2>1. CASE k = 1
    BY <2>1, <1>10, <1>7, <1>4, <1>1
  <2>2. CASE l = 1
    BY <2>2, <1>10, <1>7, <1>4, <1>1
  <2>3. CASE k # 1 /\ l # 1
    <3>1. /\ k - 1 \in 1 .. n /\ closings'[k] = order[k - 1]
          /\ l - 1 \in 1 .. n /\ closings'[l] = order[l - 1]
      BY <2>3, <1>7
    <3>2. k - 1 # l - 1
      BY <1>10
    <3>3. \A x, y \in 1 .. n : x # y => order[x] # order[y]
      BY <1>2 DEF n
    <3> QED BY ONLY <3>1, <3>2, <3>3
  <2> QED BY <2>1, <2>2, <2>3
<1>11. ASSUME NEW k \in 1 .. Len(closings')
       PROVE  IF closings'[k] = Listener THEN listener' = "closing"
              ELSE closings'[k] \in Allocated' /\ sessions'[closings'[k]].handle = "closing"
  BY <1>4, <1>7
<1>12. ASSUME NEW s \in Allocated'
       PROVE  \E k \in 1 .. Len(closings') : closings'[k] = s
  <2> PICK k \in 1 .. n : order[k] = s
    BY <1>2 DEF n
  <2> QED BY <1>7, <1>8
<1> QED BY <1>7, <1>9, <1>10, <1>11, <1>12 DEF ClosingsInv

LEMMA StopFrameStep == ASSUME UvInv, StopFrame PROVE UvInv'
<1> PICK s : s = reading.id
  OBVIOUS
<1> DEFINE x == sessions[s]
           rest == Tail(reading.rest)
<1>1. /\ UNCHANGED <<stage, turn, arrivals, frames>> /\ stage = "loop" /\ turn = "poll"
      /\ reading.rest # <<>> /\ ~Busy /\ ReadsOn(s, rest)
      /\ todo' = {e \in todo : e[1] \notin registry \cup {Listener}} /\ fed' = fed \ registry
      /\ registry' = {} /\ listener' = "closing" /\ life' = "stop"
  BY DEF StopFrame, netVars, InLoop
<1>2. s \in Allocated
  BY <1>1 DEF UvInv, ReadingInv
<1>3. /\ life = "start" /\ listener = "listening" /\ registry = Allocated /\ closings = <<>>
      /\ \A t \in Allocated : sessions[t].handle = "open"
  BY <1>1, NotBusy
<1>4. rest \in Seq({"echo", "stop"}) /\ Left(s) = Len(rest) + 1 /\ Len(rest) \in Nat
  <2>1. reading.rest \in Seq({"echo", "stop"})
    BY DEF UvInv, ReadingInv
  <2>2. /\ rest \in Seq({"echo", "stop"}) /\ Len(rest) = Len(reading.rest) - 1
        /\ Len(reading.rest) \in Nat \ {0}
    BY <1>1, <2>1, HeadTailProperties, EmptySeq
  <2>3. Left(s) = Len(reading.rest)
    BY DEF Left
  <2> HIDE DEF rest
  <2> QED BY <2>2, <2>3
<1>5. /\ Sound(x) /\ x.encoded + Len(x.inbox) + Left(s) <= frames
      /\ x.encoded \in Nat /\ Len(x.inbox) \in Nat
      /\ frames \in Nat /\ MaxFrames \in Nat /\ frames <= MaxFrames
  BY <1>2, RecordFacts
<1> PICK w \in Send(x) :
      sessions' = [t \in Allocated |->
                     LET r == IF t = s THEN w.to ELSE sessions[t]
                     IN IF t \in registry THEN CloseStream(r) ELSE r]
  BY DEF StopFrame
<1> PICK order \in SetToSeqs(registry) : closings' = <<Listener>> \o order \o closings
  BY DEF StopFrame
<1> DEFINE r == w.to
           after(t) == IF t = s THEN r ELSE sessions[t]
<1> HIDE DEF x, rest
<1>6. Sound(r) /\ r.encoded \in {x.encoded, x.encoded + 1}
  BY <1>4, <1>5, SendSound
<1>7. Allocated' = Allocated /\ \A t \in Allocated : sessions'[t] = CloseStream(after(t))
  <2>1. sessions' = [t \in Allocated |-> CloseStream(after(t))]
    BY <1>3
  <2> HIDE DEF after
  <2> QED BY <2>1 DEF Allocated
<1> HIDE DEF r
<1>8. ReadingInv' /\ Left(s)' = Len(rest) /\ \A t \in Allocated : t # s => Left(t)' = 0
  BY <1>1, <1>2, <1>4, <1>7, ReadsOnIs
\* The frame was counted, and its answer takes its place.
<1>9. ASSUME NEW t \in Allocated
      PROVE  Sound(after(t)) /\ after(t).encoded \in Nat /\ after(t).encoded + Left(t)' <= frames
  <2>1. CASE t = s
    <3> DEFINE a == x.encoded
               b == Len(x.inbox)
               c == Len(rest)
               e == r.encoded
    <3>1. a \in Nat /\ b \in Nat /\ c \in Nat /\ a + b + (c + 1) <= frames /\ e \in {a, a + 1}
      BY <1>4, <1>5, <1>6
    <3>2. after(t) = r /\ Left(t)' = c
      BY <2>1, <1>8
    <3> HIDE DEF a, b, c, e, after
    <3>3. e \in Nat /\ e + c <= frames
      BY <3>1, <1>5
    <3> QED BY <3>2, <3>3, <1>6 DEF e
  <2>2. CASE t # s
    <3> DEFINE a == sessions[t].encoded
               b == Len(sessions[t].inbox)
               c == Left(t)
    <3>1. /\ Sound(sessions[t]) /\ a \in Nat /\ b \in Nat /\ c \in Nat /\ a + b + c <= frames
      BY RecordFacts
    <3>2. after(t) = sessions[t] /\ Left(t)' = 0
      BY <2>2, <1>8
    <3> HIDE DEF a, b, c, after
    <3>3. a + 0 <= frames
      BY <3>1, <1>5
    <3> QED BY <3>1, <3>2, <3>3 DEF a
  <2> QED BY <2>1, <2>2
<1> HIDE DEF after
<1>10. ASSUME NEW t \in Allocated
       PROVE  /\ Sound(sessions'[t]) /\ sessions'[t].handle = "closing"
              /\ sessions'[t].encoded + Len(sessions'[t].inbox) + Left(t)' <= frames'
  <2> DEFINE v == CloseStream(after(t))
  <2>1. Sound(v) /\ v.handle = "closing" /\ v.inbox = <<>> /\ v.encoded = after(t).encoded
    BY <1>9, CloseStreamSound
  <2>2. sessions'[t] = v
    BY <1>7
  <2> HIDE DEF v
  <2>3. Len(v.inbox) = 0
    BY <2>1, EmptySeq
  <2>4. v.encoded + 0 + Left(t)' <= frames
    BY <2>1, <1>9
  <2> QED BY <2>1, <2>2, <2>3, <2>4, <1>1
<1>11. RecordsInv'
  BY <1>7, <1>10 DEF RecordsInv
<1>12. ClosingsInv'
  BY <1>1, <1>3, <1>7, <1>10, StopClosings
<1>13. NetInv' /\ StagesInv'
  <2>1. stage \notin Early
    BY <1>1 DEF Early
  <2> QED BY <2>1, <1>1 DEF UvInv, NetInv, StagesInv
<1>14. MapInv'
  BY <1>1, <1>7, <1>10 DEF UvInv, MapInv
<1>15. EndedInv'
  BY <1>1 DEF EndedInv
<1>16. LoopInv'
  <2>1. fed' = {}
    BY <1>1, <1>3 DEF UvInv, LoopInv, Opened
  <2>2. todo' = {}
    BY <1>1, <1>3 DEF UvInv, LoopInv, Opened
  <2> QED BY <2>1, <2>2 DEF LoopInv
<1> QED BY <1>8, <1>11, <1>12, <1>13, <1>14, <1>15, <1>16 DEF UvInv

-----------------------------------------------------------------------------
(* The invariant, and what it says of the server.                          *)

LEMMA UvStep == UvInv /\ [UvNext]_uvVars => UvInv'
<1> SUFFICES ASSUME UvInv, [UvNext]_uvVars PROVE UvInv'
  OBVIOUS
<1>1. CASE InitS \/ OpenS \/ StartS \/ CloseS \/ UninitS
  BY <1>1, UserStep
<1>2. CASE PollS \/ PolledS \/ NextTurnS
  BY <1>2, LoopStep
<1>3. CASE WriteS
  BY <1>3, WriteStep
<1>4. CASE AcceptS \/ AcceptedS
  BY <1>4, AcceptStep, AcceptedStep
<1>5. CASE ReadFrames \/ ReadEof \/ ReadError
  BY <1>5, ReadFramesStep, ReadEofStep, ReadErrorStep
<1>6. CASE EchoFrame \/ StopFrame
  BY <1>6, EchoFrameStep, StopFrameStep
<1>7. CASE CloseListener \/ CloseSessionS
  BY <1>7, CloseListenerStep, CloseSessionStep
<1>8. CASE Connects \/ ClientSends \/ ClientLeaves
  BY <1>8, ConnectsStep, ClientSendsStep, ClientLeavesStep
<1>9. CASE StopBusy \/ CloseShut \/ UNCHANGED uvVars
  <2>1. UNCHANGED <<life, stage, listener, sessions, registry, loopVars, netVars>>
    BY <1>9 DEF StopBusy, CloseShut, user, uvVars
  <2> QED BY <2>1, UnchangedUv
<1> QED
  BY <1>1, <1>2, <1>3, <1>4, <1>5, <1>6, <1>7, <1>8, <1>9 DEF UvNext, UvThread

LEMMA UvInductive == UvSpec => []UvInv
BY InitUv, UvStep, PTL DEF UvSpec

LEMMA TwiceIsBoolean == UvSpec => [](twice \in BOOLEAN)
<1>1. UvInit => twice \in BOOLEAN
  BY Zenon DEF UvInit
<1>2. twice \in BOOLEAN /\ [UvNext]_uvVars => (twice \in BOOLEAN)'
  <2> SUFFICES ASSUME twice \in BOOLEAN, [UvNext]_uvVars PROVE twice' \in BOOLEAN
    OBVIOUS
  <2>1. CASE StopBusy \/ CloseShut
    BY <2>1, Zenon DEF StopBusy, CloseShut
  <2>2. CASE UNCHANGED uvVars
    BY <2>2, Zenon DEF uvVars
  <2>3. CASE InitS \/ OpenS \/ StartS \/ CloseS \/ UninitS
    BY <2>3, Zenon DEF InitS, OpenS, StartS, CloseS, UninitS
  <2>4. CASE PollS \/ PolledS \/ NextTurnS \/ WriteS
    BY <2>4, Zenon DEF PollS, PolledS, NextTurnS, WriteS
  <2>5. CASE AcceptS \/ AcceptedS \/ ReadFrames \/ ReadEof \/ ReadError
    BY <2>5, Zenon DEF AcceptS, AcceptedS, ReadFrames, ReadEof, ReadError
  <2>6. CASE EchoFrame \/ StopFrame \/ CloseListener \/ CloseSessionS
    BY <2>6, Zenon DEF EchoFrame, StopFrame, CloseListener, CloseSessionS
  <2>7. CASE Connects \/ ClientSends \/ ClientLeaves
    BY <2>7, Zenon DEF Connects, ClientSends, ClientLeaves
  <2> QED BY <2>1, <2>2, <2>3, <2>4, <2>5, <2>6, <2>7, Zenon DEF UvNext, UvThread
<1> QED BY <1>1, <1>2, PTL DEF UvSpec

LEMMA UvTypes == UvInv /\ twice \in BOOLEAN => UvTypeOK
<1> SUFFICES ASSUME UvInv, twice \in BOOLEAN PROVE UvTypeOK
  OBVIOUS
<1>1. /\ life \in {"unset", "init", "ready", "start", "stop", "closed", "uninit"}
      /\ stage \in {"new", "init", "ready", "loop", "ended", "closed", "done"}
      /\ listener \in {"none", "idle", "listening", "closing", "closed"}
      /\ turn \in {"pending", "poll", "closing"}
      /\ closings \in Seq(Conn \cup {Listener})
      /\ reading \in [id : Conn \cup {Listener}, rest : Seq({"echo", "stop"})]
      /\ todo \subseteq (Conn \cup {Listener}) \X {"in", "out"}
  BY DEF UvInv, StagesInv, ClosingsInv, ReadingInv, LoopInv
<1>2. Allocated \subseteq Conn
  BY SessionFacts DEF UvInv
<1>3. \A s \in Allocated : sessions[s] \in UvSession
  BY RecordFacts
<1>4. registry \subseteq Conn /\ fed \subseteq Conn
  BY <1>2 DEF UvInv, MapInv, LoopInv, Opened
<1> QED BY <1>1, <1>2, <1>3, <1>4, Zenon DEF UvTypeOK

\* on_connection, the close callbacks, the stop and the turns of the loop keep
\* the map, the loop's queues and the handles consistent: until a stop the map
\* has exactly the sessions that are not freed, and none is lost; behind a stop
\* no session is open, and a loop that ends leaves no handle that is not closed.
THEOREM SessionsAreAccounted == UvSpec => []SessionsAccounted
<1>1. UvInv /\ twice \in BOOLEAN => SessionsAccounted
  <2> SUFFICES ASSUME UvInv, twice \in BOOLEAN PROVE SessionsAccounted
    OBVIOUS
  <2>1. UvTypeOK
    BY UvTypes
  <2>2. /\ life = "start" => registry = Allocated /\ \A s \in Allocated : sessions[s].handle # "lost"
        /\ life = "stop" => registry = {} /\ Opened = {}
    BY DEF UvInv, MapInv, Opened
  <2>3. fed \subseteq Opened /\ \A e \in todo : e[1] \in Opened \cup {Listener}
    BY DEF UvInv, LoopInv
  <2>4. (stage = "ended" /\ life = "stop") =>
          listener = "closed" /\ \A s \in Allocated : sessions[s].handle = "lost"
    BY DEF UvInv, EndedInv
  <2> QED BY <2>1, <2>2, <2>3, <2>4, Zenon DEF SessionsAccounted
<1> QED BY <1>1, UvInductive, TwiceIsBoolean, PTL

\* send_data, the writes of libuv and after_write: however the kernel splits the
\* requests, a client whose answers never overlap gets each one once, in order,
\* and all of them when nothing waits.
THEOREM AnswersAreExact == UvSpec => []AnswersExact
<1>1. UvInv => AnswersExact
  <2> SUFFICES ASSUME UvInv, NEW s \in Opened, ~sessions[s].overlap
               PROVE  LET r == sessions[s]
                      IN /\ \A i \in DOMAIN r.wire : r.wire[i] = i
                         /\ (r.queue = <<>> /\ r.done = 0 /\ r.peer # "reset") =>
                              Len(r.wire) = r.encoded
    BY DEF AnswersExact
  <2> DEFINE r == sessions[s]
  <2>1. s \in Allocated /\ r.handle = "open"
    BY DEF Opened
  <2>2. Sound(r) /\ r \in UvSession
    BY <2>1, RecordFacts
  <2> HIDE DEF r
  <2>3. /\ \A i \in 1 .. Len(r.wire) : r.wire[i] = i
        /\ r.peer # "reset" => Unsent(r)
    BY <2>1, <2>2 DEF Sound, Answers, r
  <2>4. DOMAIN r.wire = 1 .. Len(r.wire)
    BY <2>2, SessionTypes, LenProperties
  <2> QED BY <2>3, <2>4 DEF Unsent, r
<1> QED BY <1>1, UvInductive, PTL
=============================================================================
