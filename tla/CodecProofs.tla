----------------------------- MODULE CodecProofs -----------------------------
(***************************************************************************)
(* Theorems about Codec, for any number of requests of any lengths and any *)
(* size of the three buffers.                                              *)
(***************************************************************************)
EXTENDS Codec, SequenceTheorems, WellFoundedInduction, TLAPS

-----------------------------------------------------------------------------
(* One direction: what its sender d has not handed over yet, a, what its   *)
(* receiver has not decoded, b, the frames queued, q, and taken, t.        *)

Ahead(d) == pipe[d] \o wbuf[d]

\* Units of one frame stand next to each other, and frames in their order.
Ordered(s) == \A j, k \in 1 .. Len(s) : j < k =>
                \/ s[j].frame < s[k].frame
                \/ s[j].frame = s[k].frame /\ s[k].i = s[j].i + (k - j)

Less(u, v) == u.frame < v.frame \/ (u.frame = v.frame /\ u.i < v.i)

Increasing(q) == \A i, j \in 1 .. Len(q) : i < j => q[i] < q[j]

\* The units of s are units of frames in q.
OfFrames(d, s, q) ==
  \A k \in 1 .. Len(s) : Has(q, s[k].frame) /\ s[k].i <= FrameLen(d, s[k].frame)

\* s stands in x from o on.
Within(s, x, o) == /\ o + Len(s) <= Len(x)
                   /\ \A k \in 1 .. Len(s) : s[k] = x[o + k]

\* The frames of q, one after the other.
Whole(d, q) == FlattenSeq([j \in DOMAIN q |-> Units(d, q[j])])

\* s is what is left of w behind its beginning.
Ends(s, w) == /\ w \in Seq(Unit)
              /\ \E o \in Nat : o + Len(s) = Len(w) /\ Within(s, w, o)

DirInv(d, a, b, q, t) ==
  /\ Ends(a, Whole(d, q))
  /\ Ordered(a) /\ Ordered(b)
  /\ \A j \in 1 .. Len(b), k \in 1 .. Len(a) : Less(b[j], a[k])
  /\ OfFrames(d, a, q) /\ OfFrames(d, b, q)
  /\ \A i \in 1 .. Len(t) : /\ Has(q, t[i])
                            /\ \A k \in 1 .. Len(b) : t[i] < b[k].frame
                            /\ \A k \in 1 .. Len(a) : t[i] < a[k].frame
  /\ Increasing(q) /\ Increasing(t)

\* s begins with a frame, and every frame in it is there up to its end.
Complete(d, s) ==
  /\ s # <<>> => s[1].i = 1
  /\ \A k \in 1 .. Len(s) : \A i \in s[k].i .. FrameLen(d, s[k].frame) :
       /\ k + (i - s[k].i) <= Len(s)
       /\ s[k + (i - s[k].i)] = [frame |-> s[k].frame, i |-> i]
  /\ \A k \in 1 .. Len(s) - 1 : s[k].i = FrameLen(d, s[k].frame) => s[k + 1].i = 1

BeginsIn(s, r) == \E k \in 1 .. Len(s) : s[k].frame = r /\ s[k].i = 1

\* Without cuts no frame is lost.
FullInv(d, a, b, q, t) ==
  /\ Complete(d, a) /\ Complete(d, b)
  /\ \A j \in 1 .. Len(q) : Has(t, q[j]) \/ BeginsIn(b, q[j]) \/ BeginsIn(a, q[j])

-----------------------------------------------------------------------------
(* The inductive invariant.                                                *)

BuffersInv ==
  /\ wbuf \in [Side -> Seq(Unit)] /\ rbuf \in [Side -> Seq(Unit)] /\ pipe \in [Side -> Seq(Unit)]
  /\ woff \in [Side -> Nat]
  /\ \A d \in Side : woff[d] + Len(wbuf[d]) <= WriteCap /\ Len(rbuf[d]) < ReadCap
  /\ tried \in 0 .. Requests
  /\ queued \in [Side -> Seq(Request)] /\ taken \in [Side -> Seq(Request)]

FlagsInv ==
  /\ wanted \in [Side -> BOOLEAN] /\ decoding \in [Side -> BOOLEAN]
  /\ serving \in BOOLEAN /\ cuts \in BOOLEAN

WaitsInv ==
  /\ NoLostWakeup
  /\ \A d \in Side : ~decoding[d] => rbuf[d] = <<>>

Direction(d) == DirInv(d, Ahead(d), rbuf[Peer(d)], queued[d], taken[Peer(d)])
FullDirection(d) == FullInv(d, Ahead(d), rbuf[Peer(d)], queued[d], taken[Peer(d)])

FramesInv ==
  /\ \A d \in Side : Direction(d)
  /\ \A j \in 1 .. Len(queued[Client]) : queued[Client][j] <= tried
  /\ \A j \in 1 .. Len(queued[Server]) : Has(taken[Server], queued[Server][j])

UncutInv == ~cuts => \A d \in Side : FullDirection(d)

CodecInv == BuffersInv /\ FlagsInv /\ WaitsInv /\ FramesInv /\ UncutInv

-----------------------------------------------------------------------------
(* Frames, and sequences of units.                                         *)

LEMMA FrameLenIs ==
  ASSUME NEW d \in Side, NEW r \in Request
  PROVE  FrameLen(d, r) \in Nat \ {0} /\ FrameLen(d, r) >= HeaderLen
BY LengthAssumption DEF FrameLen, Payload, Request

LEMMA UnitsAre ==
  ASSUME NEW d \in Side, NEW r \in Request
  PROVE  /\ Units(d, r) \in Seq(Unit) /\ Len(Units(d, r)) = FrameLen(d, r)
         /\ \A i \in 1 .. FrameLen(d, r) : Units(d, r)[i] = [frame |-> r, i |-> i]
<1>1. FrameLen(d, r) \in Nat
  BY FrameLenIs
<1>2. \A i \in 1 .. FrameLen(d, r) : [frame |-> r, i |-> i] \in Unit
  BY <1>1 DEF Unit
<1>3. Units(d, r) \in [1 .. FrameLen(d, r) -> Unit]
  BY <1>2 DEF Units
<1>4. Units(d, r) \in Seq(Unit)
  BY <1>1, <1>3, SeqDef
<1>5. Len(Units(d, r)) = FrameLen(d, r)
  BY <1>1, <1>3, <1>4, LenProperties
<1> QED BY <1>4, <1>5 DEF Units

LEMMA HasIs ==
  ASSUME NEW q \in Seq(Request), NEW r
  PROVE  Has(q, r) <=> \E j \in 1 .. Len(q) : q[j] = r
BY LenProperties DEF Has

LEMMA HasAppend ==
  ASSUME NEW q \in Seq(Request), NEW r \in Request, NEW x
  PROVE  Has(Append(q, r), x) <=> Has(q, x) \/ x = r
<1>1. /\ Append(q, r) \in Seq(Request) /\ Len(Append(q, r)) = Len(q) + 1 /\ Len(q) \in Nat
      /\ \A i \in 1 .. Len(q) : Append(q, r)[i] = q[i]
      /\ Append(q, r)[Len(q) + 1] = r
  BY AppendProperties, LenProperties
<1> DEFINE p == Append(q, r)
<1> HIDE DEF p
<1>2. Has(p, x) <=> \E j \in 1 .. Len(p) : p[j] = x
  BY <1>1, HasIs DEF p
<1>3. Has(q, x) <=> \E j \in 1 .. Len(q) : q[j] = x
  BY HasIs
<1> QED BY <1>1, <1>2, <1>3 DEF p

LEMMA FrontIs ==
  ASSUME NEW s \in Seq(Unit), NEW n \in 0 .. Len(s)
  PROVE  /\ SubSeq(s, 1, n) \in Seq(Unit) /\ Len(SubSeq(s, 1, n)) = n
         /\ Within(SubSeq(s, 1, n), s, 0)
<1>1. Len(s) \in Nat /\ \A i \in 1 .. Len(s) : s[i] \in Unit
  BY LenProperties, ElementOfSeq
<1>2. /\ SubSeq(s, 1, n) \in Seq(Unit)
      /\ Len(SubSeq(s, 1, n)) = IF 1 <= n THEN n - 1 + 1 ELSE 0
      /\ \A i \in 1 .. n - 1 + 1 : SubSeq(s, 1, n)[i] = s[1 + i - 1]
  <2>1. \A i \in 1 .. n : s[i] \in Unit
    BY <1>1
  <2> QED BY <2>1, <1>1, SubSeqProperties
<1> DEFINE f == SubSeq(s, 1, n)
<1> HIDE DEF f
<1>3. Len(f) = n /\ \A i \in 1 .. n : f[i] = s[0 + i]
  <2>1. Len(f) = n
    BY <1>1, <1>2 DEF f
  <2>2. ASSUME NEW i \in 1 .. n PROVE f[i] = s[0 + i]
    BY <1>1, <1>2 DEF f
  <2> QED BY <2>1, <2>2
<1> QED BY <1>1, <1>2, <1>3 DEF Within, f

LEMMA RestIs ==
  ASSUME NEW s \in Seq(Unit), NEW n \in 0 .. Len(s)
  PROVE  /\ SubSeq(s, n + 1, Len(s)) \in Seq(Unit)
         /\ Len(SubSeq(s, n + 1, Len(s))) = Len(s) - n
         /\ Within(SubSeq(s, n + 1, Len(s)), s, n)
<1>1. Len(s) \in Nat /\ \A i \in 1 .. Len(s) : s[i] \in Unit
  BY LenProperties, ElementOfSeq
<1>2. /\ SubSeq(s, n + 1, Len(s)) \in Seq(Unit)
      /\ Len(SubSeq(s, n + 1, Len(s))) = IF n + 1 <= Len(s) THEN Len(s) - (n + 1) + 1 ELSE 0
      /\ \A i \in 1 .. Len(s) - (n + 1) + 1 : SubSeq(s, n + 1, Len(s))[i] = s[n + 1 + i - 1]
  <2>1. \A i \in n + 1 .. Len(s) : s[i] \in Unit
    BY <1>1
  <2> QED BY <2>1, <1>1, SubSeqProperties
<1> DEFINE f == SubSeq(s, n + 1, Len(s))
<1> HIDE DEF f
<1>3. Len(f) = Len(s) - n
  BY <1>1, <1>2 DEF f
<1>4. ASSUME NEW i \in 1 .. Len(s) - n PROVE f[i] = s[n + i]
  <2>1. i \in 1 .. Len(s) - (n + 1) + 1 /\ n + 1 + i - 1 = n + i
    BY <1>1
  <2> QED BY <2>1, <1>2 DEF f
<1> QED BY <1>1, <1>2, <1>3, <1>4 DEF Within, f

LEMMA JoinIs ==
  ASSUME NEW s \in Seq(Unit), NEW u \in Seq(Unit)
  PROVE  /\ s \o u \in Seq(Unit) /\ Len(s \o u) = Len(s) + Len(u)
         /\ Within(s, s \o u, 0) /\ Within(u, s \o u, Len(s))
<1>1. Len(s) \in Nat /\ Len(u) \in Nat
  BY LenProperties
<1>2. /\ s \o u \in Seq(Unit) /\ Len(s \o u) = Len(s) + Len(u)
      /\ \A i \in 1 .. Len(s) + Len(u) : (s \o u)[i] = IF i <= Len(s) THEN s[i] ELSE u[i - Len(s)]
  BY ConcatProperties
<1> DEFINE f == s \o u
           n == Len(s)
           m == Len(u)
<1>3. ASSUME NEW k \in 1 .. n PROVE s[k] = f[0 + k]
  <2> HIDE DEF f, n, m
  <2>1. k \in 1 .. n + m /\ k <= n /\ 0 + k = k
    BY <1>1 DEF n, m
  <2> QED BY <2>1, <1>2 DEF f, n, m
<1>4. ASSUME NEW k \in 1 .. m PROVE u[k] = f[n + k]
  <2> HIDE DEF f, n, m
  <2>1. n + k \in 1 .. n + m /\ ~(n + k <= n) /\ (n + k) - n = k
    BY <1>1 DEF n, m
  <2> QED BY <2>1, <1>2 DEF f, n, m
<1> QED BY <1>1, <1>2, <1>3, <1>4 DEF Within

LEMMA WithinKeeps ==
  ASSUME NEW d \in Side, NEW x \in Seq(Unit), NEW s \in Seq(Unit), NEW o \in Nat, NEW q,
         Within(s, x, o)
  PROVE  /\ Ordered(x) => Ordered(s)
         /\ OfFrames(d, x, q) => OfFrames(d, s, q)
<1>1. Len(x) \in Nat /\ Len(s) \in Nat
  BY LenProperties
<1>2. \A k \in 1 .. Len(s) : o + k \in 1 .. Len(x) /\ s[k] = x[o + k] /\ s[k] \in Unit
  <2>1. \A k \in 1 .. Len(s) : s[k] \in Unit
    BY ElementOfSeq
  <2> QED BY <1>1, <2>1 DEF Within
<1>3. ASSUME Ordered(x) PROVE Ordered(s)
  <2> SUFFICES ASSUME NEW j \in 1 .. Len(s), NEW k \in 1 .. Len(s), j < k
               PROVE  \/ s[j].frame < s[k].frame
                      \/ s[j].frame = s[k].frame /\ s[k].i = s[j].i + (k - j)
    BY DEF Ordered
  <2>1. o + j < o + k /\ (o + k) - (o + j) = k - j
    BY <1>1
  <2>2. \/ x[o + j].frame < x[o + k].frame
        \/ x[o + j].frame = x[o + k].frame /\ x[o + k].i = x[o + j].i + ((o + k) - (o + j))
    BY <1>2, <1>3, <2>1 DEF Ordered
  <2> QED BY <1>2, <2>1, <2>2
<1>4. ASSUME OfFrames(d, x, q) PROVE OfFrames(d, s, q)
  BY <1>2, <1>4 DEF OfFrames
<1> QED BY <1>3, <1>4

-----------------------------------------------------------------------------
(* Frames one after the other: what FlattenSeq makes of one frame more.    *)

LEMMA LeastExists ==
  ASSUME NEW T, T \subseteq Nat, T # {}
  PROVE  \E x \in T : \A y \in T : x <= y
<1>1. IsWellFoundedOn(OpToRel(<, Nat), Nat)
  BY NatLessThanWellFounded
<1>2. PICK x \in T : \A y \in T : <<y, x>> \notin OpToRel(<, Nat)
  BY <1>1, WFMin
<1>3. \A y \in T : ~(y < x)
  BY <1>2 DEF OpToRel
<1> QED BY <1>3

Flat(s) == CHOOSE f : f = [i \in 1 .. Len(s) |-> IF i = 1 THEN s[i] ELSE f[i - 1] \o s[i]]

LEMMA FlattenIs == ASSUME NEW s, Len(s) # 0 PROVE FlattenSeq(s) = Flat(s)[Len(s)]
BY Zenon DEF FlattenSeq, Flat

Joins(f, s, m) == f = [i \in 1 .. m |-> IF i = 1 THEN s[i] ELSE f[i - 1] \o s[i]]

LEMMA FlatIs ==
  ASSUME NEW s, Len(s) \in Nat
  PROVE  Joins(Flat(s), s, Len(s))
<1> DEFINE T == {m \in 0 .. Len(s) : ~ \E f : Joins(f, s, m)}
<1>1. T = {}
  <2> SUFFICES ASSUME T # {} PROVE FALSE
    OBVIOUS
  <2>1. PICK m \in T : \A x \in T : m <= x
    <3>1. T \subseteq Nat
      OBVIOUS
    <3> HIDE DEF T
    <3> QED BY <3>1, LeastExists
  <2>2. m \in 0 .. Len(s) /\ ~ \E f : Joins(f, s, m)
    BY <2>1
  <2>3. CASE m = 0
    <3> DEFINE g == [i \in 1 .. 0 |-> s[i]]
    <3>1. \A i \in 1 .. 0 : FALSE
      OBVIOUS
    <3>2. g = [i \in 1 .. 0 |-> IF i = 1 THEN s[i] ELSE g[i - 1] \o s[i]]
      BY <3>1
    <3> QED BY <3>2, <2>2, <2>3 DEF Joins
  <2>4. CASE m # 0
    <3>1. m - 1 \in 0 .. Len(s) /\ ~(m <= m - 1)
      BY <2>2, <2>4
    <3>2. PICK f : Joins(f, s, m - 1)
      BY <3>1, <2>1
    <3> DEFINE e(i) == IF i = 1 THEN s[i] ELSE f[i - 1] \o s[i]
               g == [i \in 1 .. m |-> e(i)]
    <3>3. f = [i \in 1 .. m - 1 |-> e(i)]
      BY <3>2 DEF Joins
    <3>4. ASSUME NEW i \in 1 .. m, i # 1 PROVE g[i - 1] = f[i - 1]
      <4>1. i - 1 \in 1 .. m /\ i - 1 \in 1 .. m - 1
        BY <3>4, <2>2
      <4>2. g[i - 1] = e(i - 1)
        BY <4>1
      <4>3. f[i - 1] = e(i - 1)
        <5> HIDE DEF e
        <5> QED BY <4>1, <3>3
      <4> QED BY <4>2, <4>3
    <3>5. \A i \in 1 .. m : e(i) = IF i = 1 THEN s[i] ELSE g[i - 1] \o s[i]
      <4> HIDE DEF g
      <4> QED BY <3>4
    <3>6. g = [i \in 1 .. m |-> IF i = 1 THEN s[i] ELSE g[i - 1] \o s[i]]
      <4> DEFINE h(i) == IF i = 1 THEN s[i] ELSE g[i - 1] \o s[i]
      <4>1. \A i \in 1 .. m : e(i) = h(i)
        BY <3>5
      <4> HIDE DEF h, e
      <4>2. [i \in 1 .. m |-> e(i)] = [i \in 1 .. m |-> h(i)]
        BY <4>1
      <4>3. g = [i \in 1 .. m |-> h(i)]
        BY <4>2
      <4> QED BY <4>3 DEF h
    <3>7. Joins(g, s, m)
      <4> HIDE DEF g
      <4> QED BY <3>6 DEF Joins
    <3> QED BY <3>7, <2>2
  <2> QED BY <2>3, <2>4
<1>2. \E f : Joins(f, s, Len(s))
  BY <1>1
<1> QED BY <1>2, Zenon DEF Joins, Flat

LEMMA JoinsValue ==
  ASSUME NEW f, NEW s, NEW m, Joins(f, s, m)
  PROVE  \A i \in 1 .. m : f[i] = IF i = 1 THEN s[i] ELSE f[i - 1] \o s[i]
<1> DEFINE e(k) == IF k = 1 THEN s[k] ELSE f[k - 1] \o s[k]
<1>1. f = [k \in 1 .. m |-> e(k)]
  BY DEF Joins
<1> HIDE DEF e
<1>2. \A i \in 1 .. m : f[i] = e(i)
  BY <1>1
<1> QED BY <1>2 DEF e

LEMMA FlattenAppend ==
  ASSUME NEW s \in Seq(Seq(Unit)), NEW u \in Seq(Unit), FlattenSeq(s) \in Seq(Unit)
  PROVE  /\ FlattenSeq(Append(s, u)) \in Seq(Unit)
         /\ FlattenSeq(Append(s, u)) = FlattenSeq(s) \o u
<1> DEFINE t == Append(s, u)
           n == Len(s)
           f == Flat(s)
           g == Flat(t)
<1>1. /\ t \in Seq(Seq(Unit)) /\ Len(t) = n + 1 /\ n \in Nat
      /\ \A i \in 1 .. n : t[i] = s[i]
      /\ t[n + 1] = u
  BY AppendProperties, LenProperties
<1> HIDE DEF t
<1>2. Joins(f, s, n) /\ Joins(g, t, n + 1)
  <2>1. Len(s) \in Nat /\ Len(t) \in Nat
    BY <1>1
  <2> QED BY <2>1, <1>1, FlatIs
<1>3. FlattenSeq(t) = g[n + 1]
  BY <1>1, FlattenIs
<1>4. g[n + 1] = IF n + 1 = 1 THEN t[n + 1] ELSE g[n + 1 - 1] \o t[n + 1]
  <2> HIDE DEF n, g
  <2>1. n + 1 \in 1 .. n + 1 /\ n + 1 \in 0 .. Len(t) /\ t \in Seq(Seq(Unit))
    BY <1>1
  <2>2. Joins(g, t, n + 1)
    BY <1>2
  <2> DEFINE m == n + 1
  <2>3. m \in 1 .. m /\ Joins(g, t, m)
    BY <2>1, <2>2
  <2> HIDE DEF m
  <2>4. g[m] = IF m = 1 THEN t[m] ELSE g[m - 1] \o t[m]
    BY ONLY <2>3, JoinsValue
  <2>5. m = n + 1
    BY DEF m
  <2> QED BY <2>4, <2>5, <1>1
<1>5. CASE n = 0
  <2>1. FlattenSeq(s) = s /\ s = <<>>
    BY <1>5, EmptySeq, Zenon DEF FlattenSeq
  <2>2. FlattenSeq(t) = u
    BY <1>1, <1>3, <1>4, <1>5
  <2>3. <<>> \o u = u
    BY ConcatEmptySeq
  <2> QED BY <2>1, <2>2, <2>3 DEF t
<1>6. CASE n # 0
  <2> HIDE DEF f, g
  <2>1. FlattenSeq(s) = f[n]
    BY <1>6, FlattenIs DEF f
  <2>2. f[n] = g[n]
    <3> DEFINE T == {i \in 1 .. n : ~(f[i] \in Seq(Unit) /\ f[i] = g[i])}
    <3>1. n \in Nat \ {0} /\ n \in 0 .. Len(s) /\ n + 1 \in 0 .. Len(t) /\ Len(s) = n
      BY <1>1, <1>6
    <3> HIDE DEF n
    <3>2. ASSUME T # {} PROVE FALSE
      <4>1. PICK i \in T : \A x \in T : i <= x
        <5>1. T \subseteq Nat
          BY <3>1
        <5> HIDE DEF T
        <5> QED BY <3>2, <5>1, LeastExists
      <4>2. i \in 1 .. n /\ i \in 1 .. n + 1 /\ i \in 1 .. Len(s)
        BY <3>1, <4>1
      <4>3. f[i] = IF i = 1 THEN s[i] ELSE f[i - 1] \o s[i]
        <5>1. Joins(f, s, n) /\ i \in 1 .. n
          BY <4>2, <1>2
        <5> HIDE DEF T
        <5> QED BY ONLY <5>1, JoinsValue
      <4>4. g[i] = IF i = 1 THEN t[i] ELSE g[i - 1] \o t[i]
        <5> DEFINE m == n + 1
        <5>1. Joins(g, t, m) /\ i \in 1 .. m
          BY <4>2, <1>2
        <5> HIDE DEF m, T, t
        <5> QED BY ONLY <5>1, JoinsValue
      <4>5. s[i] \in Seq(Unit) /\ s[i] = t[i]
        <5>1. s[i] \in Seq(Unit)
          BY <4>2, ElementOfSeq
        <5> QED BY <4>2, <5>1, <1>1
      <4>6. CASE i = 1
        BY <4>1, <4>3, <4>4, <4>5, <4>6
      <4>7. CASE i # 1
        <5>1. i - 1 \in 1 .. n /\ ~(i <= i - 1)
          BY <4>2, <4>7, <3>1
        <5>2. i - 1 \notin T
          BY <4>1, <5>1
        <5>3. f[i - 1] \in Seq(Unit) /\ f[i - 1] = g[i - 1]
          BY <5>1, <5>2
        <5>4. f[i] = f[i - 1] \o s[i] /\ g[i] = g[i - 1] \o t[i]
          BY <4>3, <4>4, <4>7
        <5>5. f[i] \in Seq(Unit) /\ f[i] = g[i]
          BY <5>3, <5>4, <4>5, ConcatProperties
        <5> QED BY <5>5, <4>1
      <4> QED BY <4>6, <4>7
    <3>3. n \in 1 .. n
      BY <3>1
    <3> QED BY <3>2, <3>3
  <2>3. n + 1 - 1 = n /\ n + 1 # 1
    BY <1>1, <1>6
  <2>4. FlattenSeq(t) = FlattenSeq(s) \o u
    BY <1>1, <1>3, <1>4, <2>1, <2>2, <2>3
  <2>5. FlattenSeq(s) \o u \in Seq(Unit)
    BY ConcatProperties
  <2> QED BY <2>4, <2>5 DEF t
<1> QED BY <1>5, <1>6

LEMMA WholeEmpty ==
  ASSUME NEW d
  PROVE  Whole(d, <<>>) \in Seq(Unit) /\ Len(Whole(d, <<>>)) = 0
<1> DEFINE s == [j \in DOMAIN <<>> |-> Units(d, <<>>[j])]
<1>1. DOMAIN <<>> = 1 .. 0 /\ \A j \in 1 .. 0 : FALSE
  OBVIOUS
<1>2. s \in [1 .. 0 -> Unit]
  BY <1>1
<1> HIDE DEF s
<1>3. s \in Seq(Unit) /\ Len(s) = 0
  <2>1. s \in Seq(Unit)
    BY <1>2, SeqDef
  <2> QED BY <2>1, <1>2, LenProperties
<1>4. FlattenSeq(s) = s
  BY <1>3, Zenon DEF FlattenSeq
<1> QED BY <1>3, <1>4 DEF Whole, s

LEMMA WholeAppend ==
  ASSUME NEW d \in Side, NEW q \in Seq(Request), NEW r \in Request, Whole(d, q) \in Seq(Unit)
  PROVE  /\ Whole(d, Append(q, r)) \in Seq(Unit)
         /\ Whole(d, Append(q, r)) = Whole(d, q) \o Units(d, r)
<1> DEFINE p == Append(q, r)
           n == Len(q)
           s == [j \in DOMAIN q |-> Units(d, q[j])]
           t == [j \in DOMAIN p |-> Units(d, p[j])]
           u == Units(d, r)
<1>1. /\ p \in Seq(Request) /\ Len(p) = n + 1 /\ n \in Nat
      /\ \A i \in 1 .. n : p[i] = q[i]
      /\ p[n + 1] = r
  BY AppendProperties, LenProperties
<1> HIDE DEF p
<1>2. DOMAIN q = 1 .. n /\ DOMAIN p = 1 .. n + 1
  BY <1>1, LenProperties
<1>3. (\A i \in 1 .. n : q[i] \in Request) /\ (\A i \in 1 .. n + 1 : p[i] \in Request)
  BY <1>1, ElementOfSeq
<1>4. u \in Seq(Unit)
  BY UnitsAre
<1>5. s \in [1 .. n -> Seq(Unit)] /\ t \in [1 .. n + 1 -> Seq(Unit)]
  BY <1>2, <1>3, UnitsAre
<1>6. (\A i \in 1 .. n : s[i] = Units(d, q[i])) /\ (\A i \in 1 .. n + 1 : t[i] = Units(d, p[i]))
  BY <1>2
<1> HIDE DEF s, t
<1>7. s \in Seq(Seq(Unit)) /\ t \in Seq(Seq(Unit)) /\ Len(s) = n /\ Len(t) = n + 1
  <2>1. s \in Seq(Seq(Unit)) /\ t \in Seq(Seq(Unit))
    <3> HIDE DEF n
    <3>1. n + 1 \in Nat
      BY <1>1
    <3> QED BY <3>1, <1>1, <1>5, SeqDef
  <2> QED BY <2>1, <1>1, <1>5, LenProperties
<1>8. t = Append(s, u)
  <2> HIDE DEF u, n
  <2>1. /\ Append(s, u) \in Seq(Seq(Unit)) /\ Len(Append(s, u)) = n + 1
        /\ \A i \in 1 .. n : Append(s, u)[i] = s[i]
        /\ Append(s, u)[n + 1] = u
    BY <1>4, <1>7, AppendProperties
  <2>2. ASSUME NEW i \in 1 .. n + 1 PROVE t[i] = Append(s, u)[i]
    <3>1. CASE i \in 1 .. n
      BY <3>1, <2>1, <1>1, <1>6
    <3>2. CASE i = n + 1
      BY <3>2, <2>1, <1>1, <1>6 DEF u
    <3>3. i \in 1 .. n \/ i = n + 1
      BY ONLY <1>1, i \in 1 .. n + 1
    <3> QED BY <3>1, <3>2, <3>3, Zenon
  <2> QED BY <2>1, <2>2, <1>7, SeqEqual
<1>9. FlattenSeq(s) \in Seq(Unit)
  BY DEF Whole, s
<1>10. /\ FlattenSeq(Append(s, u)) \in Seq(Unit)
       /\ FlattenSeq(Append(s, u)) = FlattenSeq(s) \o u
  BY <1>4, <1>7, <1>9, FlattenAppend
<1> QED BY <1>8, <1>10 DEF Whole, s, t, u, p

LEMMA EndsQueue ==
  ASSUME NEW d \in Side, NEW a \in Seq(Unit), NEW q \in Seq(Request), NEW r \in Request,
         Ends(a, Whole(d, q))
  PROVE  Ends(a \o Units(d, r), Whole(d, Append(q, r)))
<1> DEFINE u == Units(d, r)
           w == Whole(d, q)
           x == a \o u
           y == w \o u
<1>1. w \in Seq(Unit)
  BY DEF Ends
<1>2. Whole(d, Append(q, r)) = y
  BY <1>1, WholeAppend
<1>3. u \in Seq(Unit) /\ Len(u) \in Nat /\ Len(a) \in Nat /\ Len(w) \in Nat
  BY <1>1, UnitsAre, LenProperties
<1>4. PICK o \in Nat : o + Len(a) = Len(w) /\ Within(a, w, o)
  BY DEF Ends
<1> HIDE DEF u, w
<1>5. x \in Seq(Unit) /\ Len(x) = Len(a) + Len(u) /\ Within(a, x, 0) /\ Within(u, x, Len(a))
  BY <1>3, JoinIs
<1>6. y \in Seq(Unit) /\ Len(y) = Len(w) + Len(u) /\ Within(w, y, 0) /\ Within(u, y, Len(w))
  BY <1>1, <1>3, JoinIs
<1> HIDE DEF x, y
<1> DEFINE n == Len(a)
           m == Len(u)
           l == Len(w)
<1>7. /\ n \in Nat /\ m \in Nat /\ l \in Nat /\ o + n = l
      /\ Len(x) = n + m /\ Len(y) = l + m
  BY <1>3, <1>4, <1>5, <1>6
<1>8. \A k \in 1 .. n : x[k] = a[k] /\ a[k] = w[o + k]
  <2>1. \A k \in 1 .. n : a[k] = x[0 + k] /\ a[k] = w[o + k]
    BY <1>4, <1>5 DEF Within
  <2> HIDE DEF n
  <2>2. \A k \in 1 .. n : 0 + k = k
    BY <1>7
  <2> QED BY <2>1, <2>2
<1>9. \A k \in 1 .. l : w[k] = y[k]
  <2>1. \A k \in 1 .. l : w[k] = y[0 + k]
    BY <1>6 DEF Within
  <2> HIDE DEF l
  <2>2. \A k \in 1 .. l : 0 + k = k
    BY <1>7
  <2> QED BY <2>1, <2>2
<1>10. \A k \in 1 .. m : u[k] = x[n + k] /\ u[k] = y[l + k]
  BY <1>5, <1>6 DEF Within
<1> HIDE DEF n, m, l
<1>11. ASSUME NEW k \in 1 .. Len(x) PROVE x[k] = y[o + k]
  <2>1. CASE k \in 1 .. n
    <3>1. o + k \in 1 .. l
      BY <2>1, <1>7
    <3> QED BY <2>1, <3>1, <1>8, <1>9
  <2>2. CASE k \in n + 1 .. n + m
    <3> DEFINE j == k - n
    <3>1. j \in 1 .. m /\ n + j = k /\ l + j = o + k
      BY <2>2, <1>7
    <3> HIDE DEF j
    <3>2. u[j] = x[k] /\ u[j] = y[o + k]
      BY <3>1, <1>10
    <3> QED BY <3>2
  <2> QED BY <2>1, <2>2, <1>7
<1>12. Ends(x, y)
  <2>1. o + Len(x) = Len(y) /\ o + Len(x) <= Len(y)
    BY <1>7
  <2> QED BY <2>1, <1>6, <1>11 DEF Ends, Within
<1> QED BY <1>2, <1>12 DEF x, y, u, w

LEMMA EndsRest ==
  ASSUME NEW a \in Seq(Unit), NEW w, NEW n \in 0 .. Len(a), Ends(a, w)
  PROVE  Ends(SubSeq(a, n + 1, Len(a)), w)
<1> DEFINE c == SubSeq(a, n + 1, Len(a))
<1>1. Len(c) = Len(a) - n /\ Within(c, a, n) /\ Len(a) \in Nat /\ n \in Nat
  BY RestIs, LenProperties
<1> HIDE DEF c
<1>2. PICK o \in Nat : o + Len(a) = Len(w) /\ Within(a, w, o)
  BY DEF Ends
<1>3. o + n \in Nat /\ (o + n) + Len(c) = Len(w) /\ (o + n) + Len(c) <= Len(w)
  BY <1>1, <1>2
<1>4. ASSUME NEW k \in 1 .. Len(c) PROVE c[k] = w[(o + n) + k]
  <2>1. n + k \in 1 .. Len(a) /\ o + (n + k) = (o + n) + k
    BY <1>1
  <2>2. c[k] = a[n + k] /\ a[n + k] = w[o + (n + k)]
    BY <2>1, <1>1, <1>2 DEF Within
  <2> QED BY <2>1, <2>2
<1> QED BY <1>3, <1>4 DEF Ends, Within, c

LEMMA ReverseIs ==
  ASSUME NEW s \in Seq(Unit)
  PROVE  /\ Reverse(s) \in Seq(Unit) /\ Len(Reverse(s)) = Len(s)
         /\ \A i \in 1 .. Len(s) : Reverse(s)[i] = s[Len(s) - i + 1]
<1> DEFINE n == Len(s)
<1>1. n \in Nat /\ \A i \in 1 .. n : s[i] \in Unit
  BY LenProperties, ElementOfSeq
<1>2. \A i \in 1 .. n : n - i + 1 \in 1 .. n
  BY <1>1
<1>3. Reverse(s) \in [1 .. n -> Unit] /\ \A i \in 1 .. n : Reverse(s)[i] = s[n - i + 1]
  BY <1>1, <1>2 DEF Reverse
<1> HIDE DEF n
<1>4. Reverse(s) \in Seq(Unit)
  BY <1>1, <1>3, SeqDef
<1>5. Len(Reverse(s)) = n
  BY <1>1, <1>3, <1>4, LenProperties
<1> QED BY <1>3, <1>4, <1>5 DEF n

LEMMA EndsIsSuffix ==
  ASSUME NEW s \in Seq(Unit), NEW w, Ends(s, w)
  PROVE  IsSuffix(s, w)
<1> DEFINE n == Len(s)
           m == Len(w)
           x == Reverse(s)
           y == Reverse(w)
<1>1. w \in Seq(Unit)
  BY DEF Ends
<1>2. PICK o \in Nat : o + n = m /\ Within(s, w, o)
  BY DEF Ends
<1>3. n \in Nat /\ m \in Nat /\ n <= m /\ n \in 0 .. n /\ n \in 0 .. m
  BY <1>1, <1>2, LenProperties
<1>4. /\ x \in Seq(Unit) /\ Len(x) = n /\ \A i \in 1 .. n : x[i] = s[n - i + 1]
      /\ y \in Seq(Unit) /\ Len(y) = m /\ \A i \in 1 .. m : y[i] = w[m - i + 1]
  BY <1>1, ReverseIs
<1> HIDE DEF x, y
<1>5. /\ SubSeq(x, 1, n) \in Seq(Unit) /\ Len(SubSeq(x, 1, n)) = n
      /\ \A i \in 1 .. n : SubSeq(x, 1, n)[i] = x[0 + i]
  <2> HIDE DEF n
  <2>1. n \in 0 .. Len(x)
    BY <1>3, <1>4
  <2> QED BY <2>1, <1>4, FrontIs DEF Within
<1>6. /\ SubSeq(y, 1, n) \in Seq(Unit) /\ Len(SubSeq(y, 1, n)) = n
      /\ \A i \in 1 .. n : SubSeq(y, 1, n)[i] = y[0 + i]
  <2> HIDE DEF n, m
  <2>1. n \in 0 .. Len(y)
    BY <1>3, <1>4
  <2> QED BY <2>1, <1>4, FrontIs DEF Within
<1>7. ASSUME NEW i \in 1 .. n PROVE x[i] = y[i]
  <2> HIDE DEF n, m
  <2>1. n - i + 1 \in 1 .. n /\ i \in 1 .. m /\ o + (n - i + 1) = m - i + 1
    BY <1>2, <1>3
  <2>2. s[n - i + 1] = w[o + (n - i + 1)]
    BY <2>1, <1>2 DEF Within, n
  <2> QED BY <2>1, <2>2, <1>4
<1>8. SubSeq(x, 1, n) = SubSeq(y, 1, n)
  <2>1. \A i \in 1 .. n : SubSeq(x, 1, n)[i] = SubSeq(y, 1, n)[i]
    <3> SUFFICES ASSUME NEW i \in 1 .. n PROVE SubSeq(x, 1, n)[i] = SubSeq(y, 1, n)[i]
      OBVIOUS
    <3>1. 0 + i = i
      BY <1>3
    <3> QED BY <3>1, <1>5, <1>6, <1>7
  <2> QED BY <2>1, <1>5, <1>6, SeqEqual
<1>9. IsPrefix(x, y)
  BY <1>3, <1>4, <1>8 DEF IsPrefix
<1> QED BY <1>9 DEF IsSuffix, x, y

-----------------------------------------------------------------------------
(* One direction, step by step.                                            *)

LEMMA DirQueue ==
  ASSUME NEW d \in Side, NEW a \in Seq(Unit), NEW b \in Seq(Unit),
         NEW q \in Seq(Request), NEW t \in Seq(Request), NEW r \in Request,
         \A j \in 1 .. Len(q) : q[j] < r,
         DirInv(d, a, b, q, t)
  PROVE  DirInv(d, a \o Units(d, r), b, Append(q, r), t)
<1> DEFINE u == Units(d, r)
           c == a \o u
           p == Append(q, r)
           n == Len(a)
<1>1. /\ u \in Seq(Unit) /\ Len(u) = FrameLen(d, r) /\ FrameLen(d, r) \in Nat
      /\ \A i \in 1 .. FrameLen(d, r) : u[i].frame = r /\ u[i].i = i
  <2> HIDE DEF u
  <2>1. /\ u \in Seq(Unit) /\ Len(u) = FrameLen(d, r) /\ FrameLen(d, r) \in Nat
        /\ \A i \in 1 .. FrameLen(d, r) : u[i] = [frame |-> r, i |-> i]
    BY UnitsAre, FrameLenIs DEF u
  <2> QED BY <2>1
<1>2. c \in Seq(Unit) /\ Len(c) = n + FrameLen(d, r) /\ n \in Nat /\ Len(b) \in Nat /\ Len(t) \in Nat
  <2> HIDE DEF u
  <2> QED BY <1>1, JoinIs, LenProperties
<1>3. /\ \A k \in 1 .. n : c[k] = a[k] /\ c[k] \in Unit
      /\ \A k \in n + 1 .. Len(c) : c[k].frame = r /\ c[k].i = k - n
  <2>1. Within(a, c, 0) /\ Within(u, c, n)
    <3> HIDE DEF u
    <3> QED BY <1>1, JoinIs
  <2> HIDE DEF u, c, n
  <2>2. \A k \in 1 .. n : c[k] = a[k]
    BY <2>1, <1>2 DEF Within, n
  <2>3. ASSUME NEW k \in n + 1 .. Len(c) PROVE c[k].frame = r /\ c[k].i = k - n
    <3>1. k - n \in 1 .. FrameLen(d, r) /\ n + (k - n) = k
      BY <1>1, <1>2
    <3> QED BY <3>1, <2>1, <1>1 DEF Within
  <2>4. \A k \in 1 .. n : a[k] \in Unit
    BY ElementOfSeq DEF n
  <2> QED BY <2>2, <2>3, <2>4
<1>4. /\ \A x : Has(p, x) <=> Has(q, x) \/ x = r
      /\ p \in Seq(Request) /\ Len(p) = Len(q) + 1 /\ Len(q) \in Nat
      /\ \A i \in 1 .. Len(q) : p[i] = q[i]
      /\ p[Len(q) + 1] = r
  BY HasAppend, AppendProperties, LenProperties
<1>5. \A x : Has(q, x) => x < r
  BY HasIs
<1>6. \A k \in 1 .. n : c[k].frame < r /\ Has(q, c[k].frame) /\ c[k].i <= FrameLen(d, c[k].frame)
  BY <1>3, <1>5 DEF DirInv, OfFrames
<1>7. \A k \in 1 .. Len(b) : b[k].frame < r /\ Has(q, b[k].frame) /\ b[k].i <= FrameLen(d, b[k].frame)
  BY <1>5 DEF DirInv, OfFrames
<1>8. Request \subseteq Nat
  BY LengthAssumption DEF Request
<1> HIDE DEF u, c, p, n
<1>9. Ordered(c)
  <2> SUFFICES ASSUME NEW j \in 1 .. Len(c), NEW k \in 1 .. Len(c), j < k
               PROVE  \/ c[j].frame < c[k].frame
                      \/ c[j].frame = c[k].frame /\ c[k].i = c[j].i + (k - j)
    BY DEF Ordered
  <2>1. CASE k \in 1 .. n
    <3>1. j \in 1 .. n
      BY <2>1, <1>2
    <3>2. \/ a[j].frame < a[k].frame
          \/ a[j].frame = a[k].frame /\ a[k].i = a[j].i + (k - j)
      BY <2>1, <3>1 DEF DirInv, Ordered, n
    <3> QED BY <2>1, <3>1, <3>2, <1>3
  <2>2. CASE k \in n + 1 .. Len(c) /\ j \in 1 .. n
    BY <2>2, <1>3, <1>6
  <2>3. CASE k \in n + 1 .. Len(c) /\ j \in n + 1 .. Len(c)
    BY <2>3, <1>2, <1>3
  <2> QED BY <2>1, <2>2, <2>3, <1>2
<1>10. ASSUME NEW k \in 1 .. Len(c)
       PROVE  /\ Has(p, c[k].frame) /\ c[k].i <= FrameLen(d, c[k].frame)
              /\ \A j \in 1 .. Len(b) : Less(b[j], c[k])
              /\ \A i \in 1 .. Len(t) : t[i] < c[k].frame
  <2>1. CASE k \in 1 .. n
    BY <2>1, <1>3, <1>4, <1>6 DEF DirInv, n
  <2>2. CASE k \in n + 1 .. Len(c)
    <3>1. k - n <= FrameLen(d, r)
      BY <2>2, <1>1, <1>2
    <3>2. \A i \in 1 .. Len(t) : t[i] < r
      BY <1>5 DEF DirInv
    <3> QED BY <2>2, <3>1, <3>2, <1>3, <1>4, <1>7 DEF Less
  <2> QED BY <2>1, <2>2, <1>2
<1>11. Increasing(p)
  <2> SUFFICES ASSUME NEW i \in 1 .. Len(p), NEW j \in 1 .. Len(p), i < j PROVE p[i] < p[j]
    BY DEF Increasing
  <2>1. CASE j \in 1 .. Len(q)
    <3>1. i \in 1 .. Len(q)
      BY <2>1, <1>4
    <3>2. q[i] < q[j]
      BY <2>1, <3>1 DEF DirInv, Increasing
    <3> QED BY <2>1, <3>1, <3>2, <1>4
  <2>2. CASE j = Len(q) + 1
    <3>1. i \in 1 .. Len(q) /\ p[i] = q[i] /\ p[j] = r
      BY ONLY <2>2, <1>4, i \in 1 .. Len(p), i < j
    <3>2. q[i] < r
      BY <3>1, <1>5 DEF Has
    <3> QED BY <3>1, <3>2
  <2>3. j \in 1 .. Len(q) \/ j = Len(q) + 1
    BY ONLY <1>4, j \in 1 .. Len(p)
  <2> QED BY <2>1, <2>2, <2>3
<1>12. OfFrames(d, b, p) /\ \A i \in 1 .. Len(t) : Has(p, t[i])
  BY <1>4 DEF DirInv, OfFrames
<1>13. Ends(c, Whole(d, p))
  BY EndsQueue DEF DirInv, c, p, u
<1> QED BY <1>9, <1>10, <1>11, <1>12, <1>13 DEF DirInv, OfFrames, u, c, p

LEMMA DirReceive ==
  ASSUME NEW d \in Side, NEW a \in Seq(Unit), NEW q \in Seq(Request), NEW t \in Seq(Request),
         NEW n \in 1 .. Len(a), NEW m \in 0 .. n,
         DirInv(d, a, <<>>, q, t)
  PROVE  DirInv(d, SubSeq(a, n + 1, Len(a)), SubSeq(a, 1, m), q, t)
<1> DEFINE c == SubSeq(a, n + 1, Len(a))
           b == SubSeq(a, 1, m)
<1>1. Len(a) \in Nat /\ n \in 0 .. Len(a) /\ m \in 0 .. Len(a)
  BY LenProperties
<1>2. c \in Seq(Unit) /\ Len(c) = Len(a) - n /\ Within(c, a, n)
  BY <1>1, RestIs
<1>3. b \in Seq(Unit) /\ Len(b) = m /\ Within(b, a, 0)
  BY <1>1, FrontIs
<1> HIDE DEF b, c
<1>4. Ordered(c) /\ Ordered(b) /\ OfFrames(d, c, q) /\ OfFrames(d, b, q)
  BY <1>2, <1>3, WithinKeeps DEF DirInv
<1>5. ASSUME NEW j \in 1 .. Len(b) PROVE j \in 1 .. Len(a) /\ b[j] = a[j] /\ a[j] \in Unit
  BY <1>1, <1>3, ElementOfSeq DEF Within
<1>6. ASSUME NEW k \in 1 .. Len(c) PROVE n + k \in 1 .. Len(a) /\ c[k] = a[n + k] /\ a[n + k] \in Unit
  BY <1>1, <1>2, ElementOfSeq DEF Within
<1>7. ASSUME NEW j \in 1 .. Len(b), NEW k \in 1 .. Len(c) PROVE Less(b[j], c[k])
  <2>1. j < n + k
    BY <1>1, <1>3
  <2>2. \/ a[j].frame < a[n + k].frame
        \/ a[j].frame = a[n + k].frame /\ a[n + k].i = a[j].i + ((n + k) - j)
    BY <2>1, <1>5, <1>6 DEF DirInv, Ordered
  <2>3. a[j].i \in Nat /\ a[n + k].i \in Nat
    BY <1>5, <1>6 DEF Unit
  <2>4. ((n + k) - j) \in Nat \ {0}
    BY <2>1, <1>1, <1>5
  <2> DEFINE y == a[j]
             z == a[n + k]
             o == (n + k) - j
  <2>5. Less(a[j], a[n + k])
    <3>1. /\ y.frame < z.frame \/ (y.frame = z.frame /\ z.i = y.i + o)
          /\ y.i \in Nat /\ z.i \in Nat /\ o \in Nat \ {0}
      BY <2>2, <2>3, <2>4
    <3> HIDE DEF y, z, o
    <3>2. Less(y, z)
      BY ONLY <3>1 DEF Less
    <3> QED BY <3>2 DEF y, z
  <2>6. b[j] = a[j] /\ c[k] = a[n + k]
    BY <1>5, <1>6
  <2> QED BY ONLY <2>5, <2>6
<1>8. ASSUME NEW i \in 1 .. Len(t)
      PROVE  /\ Has(q, t[i])
             /\ \A k \in 1 .. Len(b) : t[i] < b[k].frame
             /\ \A k \in 1 .. Len(c) : t[i] < c[k].frame
  BY <1>5, <1>6 DEF DirInv
<1>9. Ends(c, Whole(d, q))
  BY <1>1, EndsRest DEF DirInv, c
<1> QED BY <1>4, <1>7, <1>8, <1>9 DEF DirInv, b, c

LEMMA DirDecode ==
  ASSUME NEW d \in Side, NEW a \in Seq(Unit), NEW b \in Seq(Unit),
         NEW q \in Seq(Request), NEW t \in Seq(Request),
         b # <<>>, b[1].i = 1, Len(b) >= FrameLen(d, b[1].frame),
         DirInv(d, a, b, q, t)
  PROVE  DirInv(d, a, SubSeq(b, FrameLen(d, b[1].frame) + 1, Len(b)), q, Append(t, b[1].frame))
<1> DEFINE r == b[1].frame
           n == FrameLen(d, r)
           c == SubSeq(b, n + 1, Len(b))
           p == Append(t, r)
<1>1. Len(b) \in Nat \ {0} /\ Len(a) \in Nat /\ 1 \in 1 .. Len(b) /\ b[1] \in Unit
  BY EmptySeq, LenProperties, ElementOfSeq
<1>2. r \in Request /\ Request \subseteq Nat
  <2>1. Request \subseteq Nat
    BY LengthAssumption DEF Request
  <2>2. \A u \in Unit : u.frame \in Request
    BY DEF Unit
  <2> QED BY ONLY <1>1, <2>1, <2>2 DEF r
<1> HIDE DEF r
<1>3. n \in 1 .. Len(b) /\ n \in Nat
  <2>1. n \in Nat \ {0}
    BY <1>2, FrameLenIs
  <2>2. Len(b) >= n
    BY DEF r
  <2> HIDE DEF n
  <2> QED BY <2>1, <2>2, <1>1
<1>4. c \in Seq(Unit) /\ Len(c) = Len(b) - n /\ Within(c, b, n)
  BY <1>1, <1>3, RestIs
<1>5. /\ p \in Seq(Request) /\ Len(p) = Len(t) + 1 /\ Len(t) \in Nat
      /\ \A i \in 1 .. Len(t) : p[i] = t[i]
      /\ p[Len(t) + 1] = r
  BY <1>2, AppendProperties, LenProperties
<1>6. /\ \A k \in 1 .. Len(b) : b[k] \in Unit /\ b[k].frame \in Nat /\ b[k].i \in Nat
      /\ \A k \in 1 .. Len(a) : a[k] \in Unit /\ a[k].frame \in Nat /\ a[k].i \in Nat
  <2>1. \A u \in Unit : u.frame \in Nat /\ u.i \in Nat
    BY <1>2 DEF Unit
  <2> QED BY <2>1, ElementOfSeq
<1>7. \A k \in 1 .. Len(b) : r < b[k].frame \/ (r = b[k].frame /\ b[k].i = k)
  <2> SUFFICES ASSUME NEW k \in 1 .. Len(b), k # 1
               PROVE  r < b[k].frame \/ (r = b[k].frame /\ b[k].i = k)
    BY <1>1 DEF r
  <2>1. 1 < k
    BY <1>1
  <2>2. Ordered(b)
    BY DEF DirInv
  <2>3. \/ b[1].frame < b[k].frame
        \/ b[1].frame = b[k].frame /\ b[k].i = b[1].i + (k - 1)
    BY <1>1, <2>1, <2>2 DEF Ordered
  <2> QED BY <2>1, <2>3 DEF r
<1> HIDE DEF n, c, p
<1>8. ASSUME NEW k \in 1 .. Len(c)
      PROVE  n + k \in 1 .. Len(b) /\ c[k] = b[n + k] /\ r < c[k].frame
  <2>1. n + k \in 1 .. Len(b) /\ c[k] = b[n + k]
    BY <1>3, <1>4 DEF Within
  <2>2. r = b[n + k].frame => b[n + k].i <= n
    BY <2>1 DEF DirInv, OfFrames, n
  <2>3. ~(n + k <= n)
    BY <1>3, <1>4
  <2>4. r < b[n + k].frame
    BY <2>1, <2>2, <2>3, <1>7
  <2> QED BY ONLY <2>1, <2>4
<1>9. ASSUME NEW k \in 1 .. Len(a) PROVE r < a[k].frame
  <2>1. Less(b[n], a[k])
    BY <1>3 DEF DirInv
  <2>2. r = a[k].frame => a[k].i <= n
    BY DEF DirInv, OfFrames, n
  <2>3. /\ b[n].frame \in Nat /\ b[n].i \in Nat /\ a[k].frame \in Nat /\ a[k].i \in Nat
        /\ r < b[n].frame \/ (r = b[n].frame /\ b[n].i = n)
    BY <1>3, <1>6, <1>7
  <2>4. b[n].frame < a[k].frame \/ (b[n].frame = a[k].frame /\ b[n].i < a[k].i)
    BY <2>1, Zenon DEF Less
  <2> QED BY <2>2, <2>3, <2>4, <1>2, <1>3
<1>10. Ordered(c) /\ OfFrames(d, c, q)
  BY <1>3, <1>4, WithinKeeps DEF DirInv
<1>11. ASSUME NEW i \in 1 .. Len(p)
       PROVE  /\ Has(q, p[i])
              /\ \A k \in 1 .. Len(c) : p[i] < c[k].frame
              /\ \A k \in 1 .. Len(a) : p[i] < a[k].frame
  <2>1. CASE i \in 1 .. Len(t)
    <3>1. p[i] = t[i]
      BY <2>1, <1>5
    <3>2. /\ Has(q, t[i])
          /\ \A k \in 1 .. Len(b) : t[i] < b[k].frame
          /\ \A k \in 1 .. Len(a) : t[i] < a[k].frame
      BY <2>1 DEF DirInv
    <3>3. ASSUME NEW k \in 1 .. Len(c) PROVE t[i] < c[k].frame
      BY <3>2, <1>8
    <3> QED BY <3>1, <3>2, <3>3, Zenon
  <2>2. CASE i = Len(t) + 1
    <3>1. Has(q, r)
      BY <1>1 DEF DirInv, OfFrames, r
    <3>2. p[i] = r
      BY <2>2, <1>5, Zenon
    <3> QED BY <3>1, <3>2, <1>8, <1>9, Zenon
  <2>3. i \in 1 .. Len(t) \/ i = Len(t) + 1
    BY <1>5
  <2> QED BY <2>1, <2>2, <2>3, Zenon
<1>12. Increasing(p)
  <2> SUFFICES ASSUME NEW i \in 1 .. Len(p), NEW j \in 1 .. Len(p), i < j PROVE p[i] < p[j]
    BY DEF Increasing
  <2>1. CASE j \in 1 .. Len(t)
    <3>1. i \in 1 .. Len(t)
      BY <2>1, <1>5
    <3>2. t[i] < t[j]
      BY <2>1, <3>1 DEF DirInv, Increasing
    <3> QED BY <2>1, <3>1, <3>2, <1>5
  <2>2. CASE j = Len(t) + 1
    <3>1. i \in 1 .. Len(t) /\ t[i] < r
      BY <2>2, <1>1, <1>5 DEF DirInv, r
    <3> QED BY <2>2, <3>1, <1>5
  <2> QED BY <2>1, <2>2, <1>5
<1>13. \A j \in 1 .. Len(c), k \in 1 .. Len(a) : Less(c[j], a[k])
  BY <1>8 DEF DirInv
<1> QED BY <1>10, <1>11, <1>12, <1>13 DEF DirInv, p, c, n, r

LEMMA DirDrop ==
  ASSUME NEW d \in Side, NEW a, NEW b, NEW q, NEW t, DirInv(d, a, b, q, t)
  PROVE  DirInv(d, a, <<>>, q, t)
<1>1. Len(<<>>) = 0
  OBVIOUS
<1> QED BY <1>1 DEF DirInv, Ordered, OfFrames

-----------------------------------------------------------------------------
(* The same without cuts.                                                  *)

LEMMA CompleteRest ==
  ASSUME NEW d \in Side, NEW s \in Seq(Unit), NEW n \in 1 .. Len(s),
         s[n].i = FrameLen(d, s[n].frame), Complete(d, s)
  PROVE  Complete(d, SubSeq(s, n + 1, Len(s)))
<1> DEFINE c == SubSeq(s, n + 1, Len(s))
<1>1. Len(s) \in Nat /\ n \in 0 .. Len(s) /\ n \in Nat
  BY LenProperties
<1>2. c \in Seq(Unit) /\ Len(c) = Len(s) - n /\ Within(c, s, n)
  BY <1>1, RestIs
<1> HIDE DEF c
<1>3. \A k \in 1 .. Len(s) : s[k] \in Unit /\ s[k].i \in Nat /\ FrameLen(d, s[k].frame) \in Nat
  <2>1. \A u \in Unit : u.i \in Nat /\ u.frame \in Request
    BY DEF Unit
  <2> QED BY <2>1, ElementOfSeq, FrameLenIs
<1>4. \A k \in 1 .. Len(c) : n + k \in 1 .. Len(s) /\ c[k] = s[n + k]
  BY <1>1, <1>2 DEF Within
<1>5. c # <<>> => c[1].i = 1
  <2> HAVE c # <<>>
  <2>1. Len(c) \in Nat \ {0}
    BY <1>2, EmptySeq
  <2>2. n \in 1 .. Len(s) - 1 /\ c[1] = s[n + 1]
    BY <1>1, <1>2, <1>4, <2>1
  <2>3. s[n + 1].i = 1
    BY <2>2 DEF Complete
  <2> QED BY <2>2, <2>3
<1>6. ASSUME NEW k \in 1 .. Len(c), NEW i \in c[k].i .. FrameLen(d, c[k].frame)
      PROVE  /\ k + (i - c[k].i) <= Len(c)
             /\ c[k + (i - c[k].i)] = [frame |-> c[k].frame, i |-> i]
  <2>1. /\ (n + k) + (i - s[n + k].i) <= Len(s)
        /\ s[(n + k) + (i - s[n + k].i)] = [frame |-> s[n + k].frame, i |-> i]
    BY <1>4 DEF Complete
  <2> DEFINE g == k + (i - c[k].i)
  <2>2. g \in 1 .. Len(c) /\ (n + k) + (i - s[n + k].i) = n + g
    <3> DEFINE j == c[k].i
               f == FrameLen(d, c[k].frame)
    <3>1. n + k \in 1 .. Len(s) /\ s[n + k] = c[k]
      BY <1>4
    <3>2. j \in Nat /\ f \in Nat /\ i \in j .. f
      BY <1>3, <3>1
    <3>3. (n + k) + (i - j) <= Len(s)
      BY <2>1, <3>1
    <3> HIDE DEF j, f
    <3>4. k + (i - j) \in 1 .. Len(c) /\ (n + k) + (i - j) = n + (k + (i - j))
      <4>1. k \in Nat \ {0} /\ n \in Nat /\ Len(s) \in Nat /\ Len(c) = Len(s) - n
        BY <1>1, <1>2
      <4>2. i - j \in Nat
        BY <3>2
      <4> QED BY <4>1, <4>2, <3>3
    <3> QED BY <3>1, <3>4 DEF j
  <2> HIDE DEF g
  <2>3. c[g] = s[n + g]
    BY <2>2, <1>4
  <2>4. g <= Len(c) /\ c[g] = [frame |-> c[k].frame, i |-> i]
    BY <2>1, <2>2, <2>3, <1>2, <1>4
  <2> QED BY <2>4 DEF g
<1>7. ASSUME NEW k \in 1 .. Len(c) - 1, c[k].i = FrameLen(d, c[k].frame) PROVE c[k + 1].i = 1
  <2>1. k \in 1 .. Len(c) /\ k + 1 \in 1 .. Len(c) /\ n + k \in 1 .. Len(s) - 1 /\ n + (k + 1) = (n + k) + 1
    BY <1>1, <1>2
  <2>2. s[(n + k) + 1].i = 1
    BY <2>1, <1>4, <1>7 DEF Complete
  <2> QED BY <2>1, <2>2, <1>4
<1> QED BY <1>5, <1>6, <1>7 DEF Complete, c

LEMMA CompleteFront ==
  ASSUME NEW d \in Side, NEW s \in Seq(Unit), NEW n \in 1 .. Len(s),
         s[n].i = FrameLen(d, s[n].frame), Complete(d, s)
  PROVE  Complete(d, SubSeq(s, 1, n))
<1> DEFINE b == SubSeq(s, 1, n)
<1>1. Len(s) \in Nat /\ n \in 0 .. Len(s) /\ n \in Nat /\ 1 \in 1 .. n
  BY LenProperties
<1>2. b \in Seq(Unit) /\ Len(b) = n /\ Within(b, s, 0)
  BY <1>1, FrontIs
<1> HIDE DEF b
<1>3. \A k \in 1 .. Len(s) : s[k] \in Unit /\ s[k].i \in Nat /\ FrameLen(d, s[k].frame) \in Nat
  <2>1. \A u \in Unit : u.i \in Nat /\ u.frame \in Request
    BY DEF Unit
  <2> QED BY <2>1, ElementOfSeq, FrameLenIs
<1>4. \A k \in 1 .. n : k \in 1 .. Len(s) /\ b[k] = s[k]
  BY <1>1, <1>2 DEF Within
<1>5. b[1].i = 1
  <2>1. s # <<>>
    BY <1>1, EmptySeq
  <2> QED BY <2>1, <1>1, <1>4 DEF Complete
<1>6. ASSUME NEW k \in 1 .. n, NEW i \in s[k].i .. FrameLen(d, s[k].frame)
      PROVE  /\ k + (i - s[k].i) <= n
             /\ b[k + (i - s[k].i)] = [frame |-> s[k].frame, i |-> i]
  <2> DEFINE g == k + (i - s[k].i)
  <2>1. g <= Len(s) /\ s[g] = [frame |-> s[k].frame, i |-> i]
    BY <1>4 DEF Complete
  <2>2. g \in Nat /\ k <= g /\ s[k].i \in Nat /\ i \in Nat
    <3>1. s[k].i \in Nat /\ FrameLen(d, s[k].frame) \in Nat
      BY <1>3, <1>4
    <3>2. i \in Nat /\ s[k].i <= i /\ k \in Nat
      BY <3>1
    <3> QED BY ONLY <3>1, <3>2 DEF g
  <2>3. g <= n
    <3> SUFFICES ASSUME n < g PROVE FALSE
      BY <2>2
    <3> DEFINE h == s[k].i + (n - k)
    <3>1. h \in s[k].i .. FrameLen(d, s[k].frame) /\ h < i /\ i <= FrameLen(d, s[k].frame)
      <4> DEFINE x == s[k].i
                 f == FrameLen(d, s[k].frame)
      <4>1. x \in Nat /\ f \in Nat /\ i \in x .. f /\ n < k + (i - x) /\ k \in 1 .. n /\ n \in Nat
        BY <1>1, <1>3, <1>4
      <4> HIDE DEF x, f
      <4>2. x + (n - k) \in x .. f /\ x + (n - k) < i /\ i <= f
        BY <4>1
      <4> QED BY <4>2 DEF x, f
    <3>2. s[k + (h - s[k].i)] = [frame |-> s[k].frame, i |-> h]
      BY <3>1, <1>4 DEF Complete
    <3>3. k + (h - s[k].i) = n
      BY <1>1, <1>3, <2>2
    <3> HIDE DEF h
    <3>4. s[n].frame = s[k].frame /\ s[n].i = h
      BY <3>2, <3>3
    <3>5. h = FrameLen(d, s[k].frame) /\ FrameLen(d, s[k].frame) \in Nat
      BY <3>4, <1>3
    <3> QED BY <3>1, <3>5, <2>2
  <2> HIDE DEF g
  <2>4. g \in 1 .. n
    BY <1>1, <2>2, <2>3
  <2> QED BY <2>1, <2>3, <2>4, <1>4 DEF g
<1>7. ASSUME NEW k \in 1 .. n - 1, b[k].i = FrameLen(d, b[k].frame) PROVE b[k + 1].i = 1
  <2>1. k \in 1 .. n /\ k + 1 \in 1 .. n /\ k \in 1 .. Len(s) - 1
    BY <1>1
  <2> QED BY <2>1, <1>4, <1>7 DEF Complete
<1>8. ASSUME NEW k \in 1 .. Len(b), NEW i \in b[k].i .. FrameLen(d, b[k].frame)
      PROVE  /\ k + (i - b[k].i) <= Len(b)
             /\ b[k + (i - b[k].i)] = [frame |-> b[k].frame, i |-> i]
  <2>1. k \in 1 .. n /\ b[k] = s[k]
    BY <1>2, <1>4
  <2> QED BY <2>1, <1>2, <1>6
<1> QED BY <1>2, <1>5, <1>7, <1>8 DEF Complete, b

LEMMA CompleteQueue ==
  ASSUME NEW d \in Side, NEW a \in Seq(Unit), NEW r \in Request, Complete(d, a)
  PROVE  Complete(d, a \o Units(d, r))
<1> DEFINE u == Units(d, r)
           c == a \o u
           n == Len(a)
           m == FrameLen(d, r)
<1>1. /\ u \in Seq(Unit) /\ Len(u) = m /\ m \in Nat \ {0}
      /\ \A i \in 1 .. m : u[i] = [frame |-> r, i |-> i]
  BY UnitsAre, FrameLenIs
<1> HIDE DEF u, m
<1>2. /\ c \in Seq(Unit) /\ Len(c) = n + m /\ n \in Nat
      /\ Within(a, c, 0) /\ Within(u, c, n)
  BY <1>1, JoinIs, LenProperties
<1> HIDE DEF c
<1>3. \A k \in 1 .. n : a[k] \in Unit /\ a[k].i \in Nat /\ FrameLen(d, a[k].frame) \in Nat
  <2>1. \A x \in Unit : x.i \in Nat /\ x.frame \in Request
    BY DEF Unit
  <2> QED BY <2>1, ElementOfSeq, FrameLenIs
<1>4. \A k \in 1 .. n : c[k] = a[k]
  BY <1>2 DEF Within
<1>5. \A i \in 1 .. m : c[n + i] = [frame |-> r, i |-> i]
  BY <1>1, <1>2 DEF Within
<1>6. c[1].i = 1
  <2>1. CASE n = 0
    <3>1. 1 \in 1 .. m /\ n + 1 = 1
      BY <2>1, <1>1
    <3>2. c[n + 1] = [frame |-> r, i |-> 1]
      BY <3>1, <1>5
    <3> QED BY <3>1, <3>2
  <2>2. CASE n # 0
    <3>1. 1 \in 1 .. n /\ a # <<>>
      BY <2>2, <1>2, EmptySeq
    <3> QED BY <3>1, <1>4 DEF Complete
  <2> QED BY <2>1, <2>2
<1>7. ASSUME NEW k \in 1 .. Len(c), NEW i \in c[k].i .. FrameLen(d, c[k].frame)
      PROVE  /\ k + (i - c[k].i) <= Len(c)
             /\ c[k + (i - c[k].i)] = [frame |-> c[k].frame, i |-> i]
  <2>1. CASE k \in 1 .. n
    <3> DEFINE g == k + (i - a[k].i)
    <3>1. c[k] = a[k]
      BY <2>1, <1>4
    <3>2. g <= n /\ a[g] = [frame |-> a[k].frame, i |-> i]
      BY <2>1, <3>1 DEF Complete
    <3>3. g \in 1 .. n /\ g <= Len(c)
      <4>1. i - a[k].i \in Nat
        <5>1. i \in a[k].i .. FrameLen(d, c[k].frame)
          BY <3>1
        <5>2. a[k].i \in Nat /\ FrameLen(d, c[k].frame) \in Nat
          BY <2>1, <3>1, <1>2, <1>3
        <5> QED BY <5>1, <5>2
      <4>2. k \in Nat \ {0} /\ n \in Nat /\ n <= Len(c) /\ Len(c) \in Nat
        BY <2>1, <1>1, <1>2, <1>3
      <4> QED BY <4>1, <4>2, <3>2
    <3> HIDE DEF g
    <3>4. c[g] = [frame |-> a[k].frame, i |-> i]
      BY <3>2, <3>3, <1>4
    <3> QED BY <3>1, <3>3, <3>4 DEF g
  <2>2. CASE k \in n + 1 .. n + m
    <3>1. k - n \in 1 .. m /\ n + (k - n) = k
      BY <2>2, <1>1, <1>2
    <3>2. c[k] = [frame |-> r, i |-> k - n]
      BY <3>1, <1>5
    <3>3. c[k].frame = r /\ c[k].i = k - n /\ i \in k - n .. m
      BY <3>2 DEF m
    <3>4. i \in 1 .. m /\ k + (i - (k - n)) = n + i /\ n + i <= Len(c)
      BY <3>1, <3>3, <1>1, <1>2
    <3> QED BY <3>3, <3>4, <1>5
  <2> HIDE DEF n
  <2> QED BY <2>1, <2>2, <1>1, <1>2
<1>8. ASSUME NEW k \in 1 .. Len(c) - 1, c[k].i = FrameLen(d, c[k].frame) PROVE c[k + 1].i = 1
  <2>1. CASE k \in 1 .. n - 1
    <3>1. k \in 1 .. n /\ k + 1 \in 1 .. n
      BY <2>1, <1>2
    <3>2. a[k + 1].i = 1
      BY <2>1, <3>1, <1>4, <1>8 DEF Complete
    <3> QED BY <3>1, <3>2, <1>4
  <2>2. CASE k = n
    <3>1. 1 \in 1 .. m
      BY <1>1
    <3>2. c[n + 1] = [frame |-> r, i |-> 1]
      BY <3>1, <1>5
    <3> QED BY <2>2, <3>2
  <2>3. CASE k \in n + 1 .. n + m - 1
    <3>1. k - n \in 1 .. m /\ n + (k - n) = k /\ k - n < m
      BY <2>3, <1>1, <1>2
    <3>2. c[k] = [frame |-> r, i |-> k - n]
      BY <3>1, <1>5
    <3>3. c[k].i = k - n /\ FrameLen(d, c[k].frame) = m
      BY <3>2 DEF m
    <3> QED BY <3>1, <3>3, <1>1, <1>2, <1>8
  <2> HIDE DEF n
  <2> QED BY <2>1, <2>2, <2>3, <1>1, <1>2
<1> QED BY <1>6, <1>7, <1>8 DEF Complete, c, u

LEMMA BeginsJoined ==
  ASSUME NEW s \in Seq(Unit), NEW u \in Seq(Unit), NEW r
  PROVE  /\ BeginsIn(s, r) => BeginsIn(s \o u, r)
         /\ BeginsIn(u, r) => BeginsIn(s \o u, r)
<1> DEFINE c == s \o u
<1>1. /\ Len(c) = Len(s) + Len(u) /\ Len(s) \in Nat /\ Len(u) \in Nat
      /\ Within(s, c, 0) /\ Within(u, c, Len(s))
  BY JoinIs, LenProperties
<1> HIDE DEF c
<1>2. \A k \in 1 .. Len(s) : k \in 1 .. Len(c) /\ c[k] = s[k]
  BY <1>1 DEF Within
<1>3. \A k \in 1 .. Len(u) : Len(s) + k \in 1 .. Len(c) /\ c[Len(s) + k] = u[k]
  BY <1>1 DEF Within
<1> QED BY <1>2, <1>3 DEF BeginsIn, c

LEMMA BeginsSplit ==
  ASSUME NEW s \in Seq(Unit), NEW n \in 0 .. Len(s), NEW r, BeginsIn(s, r)
  PROVE  BeginsIn(SubSeq(s, 1, n), r) \/ BeginsIn(SubSeq(s, n + 1, Len(s)), r)
<1> DEFINE b == SubSeq(s, 1, n)
           c == SubSeq(s, n + 1, Len(s))
<1>1. Len(s) \in Nat /\ n \in Nat
  BY LenProperties
<1>2. Len(b) = n /\ Within(b, s, 0) /\ Len(c) = Len(s) - n /\ Within(c, s, n)
  BY FrontIs, RestIs
<1> HIDE DEF b, c
<1>3. PICK k \in 1 .. Len(s) : s[k].frame = r /\ s[k].i = 1
  BY DEF BeginsIn
<1>4. CASE k \in 1 .. n
  <2>1. b[k] = s[0 + k] /\ 0 + k = k
    BY <1>1, <1>2, <1>4 DEF Within
  <2> QED BY <2>1, <1>2, <1>3, <1>4 DEF BeginsIn, b
<1>5. CASE k \in n + 1 .. Len(s)
  <2>1. k - n \in 1 .. Len(c) /\ n + (k - n) = k
    BY <1>1, <1>2, <1>5
  <2>2. c[k - n] = s[k]
    BY <2>1, <1>2 DEF Within
  <2> QED BY <2>1, <2>2, <1>3 DEF BeginsIn, c
<1> QED BY <1>1, <1>4, <1>5

LEMMA FullQueue ==
  ASSUME NEW d \in Side, NEW a \in Seq(Unit), NEW b, NEW q \in Seq(Request), NEW t,
         NEW r \in Request, FullInv(d, a, b, q, t)
  PROVE  FullInv(d, a \o Units(d, r), b, Append(q, r), t)
<1> DEFINE u == Units(d, r)
           c == a \o u
           p == Append(q, r)
<1>1. /\ u \in Seq(Unit) /\ Len(u) = FrameLen(d, r) /\ FrameLen(d, r) \in Nat \ {0}
      /\ \A i \in 1 .. FrameLen(d, r) : u[i] = [frame |-> r, i |-> i]
  BY UnitsAre, FrameLenIs
<1>2. /\ Len(p) = Len(q) + 1 /\ Len(q) \in Nat
      /\ \A i \in 1 .. Len(q) : p[i] = q[i]
      /\ p[Len(q) + 1] = r
  BY AppendProperties, LenProperties
<1>3. Complete(d, c)
  BY CompleteQueue DEF FullInv
<1> HIDE DEF u, p
<1>4. BeginsIn(u, r)
  BY <1>1 DEF BeginsIn
<1>5. \A x : BeginsIn(a, x) \/ BeginsIn(u, x) => BeginsIn(c, x)
  BY <1>1, BeginsJoined
<1> HIDE DEF c
<1>6. ASSUME NEW j \in 1 .. Len(p) PROVE Has(t, p[j]) \/ BeginsIn(b, p[j]) \/ BeginsIn(c, p[j])
  <2>1. CASE j \in 1 .. Len(q)
    BY <2>1, <1>2, <1>5 DEF FullInv
  <2>2. CASE j = Len(q) + 1
    BY <2>2, <1>2, <1>4, <1>5
  <2> QED BY <2>1, <2>2, <1>2
<1> QED BY <1>3, <1>6 DEF FullInv, c, u, p

LEMMA FullReceive ==
  ASSUME NEW d \in Side, NEW a \in Seq(Unit), NEW q, NEW t, NEW n \in 1 .. Len(a),
         a[n].i = FrameLen(d, a[n].frame), FullInv(d, a, <<>>, q, t)
  PROVE  FullInv(d, SubSeq(a, n + 1, Len(a)), SubSeq(a, 1, n), q, t)
<1>1. n \in 0 .. Len(a) /\ Complete(d, a) /\ Len(<<>>) = 0
  BY LenProperties DEF FullInv
<1>2. Complete(d, SubSeq(a, n + 1, Len(a))) /\ Complete(d, SubSeq(a, 1, n))
  BY <1>1, CompleteRest, CompleteFront
<1>3. \A x : ~BeginsIn(<<>>, x)
  BY <1>1 DEF BeginsIn
<1>4. \A x : BeginsIn(a, x) => BeginsIn(SubSeq(a, 1, n), x) \/ BeginsIn(SubSeq(a, n + 1, Len(a)), x)
  BY <1>1, BeginsSplit
<1> QED BY <1>2, <1>3, <1>4 DEF FullInv

LEMMA WholeFrame ==
  ASSUME NEW d \in Side, NEW b \in Seq(Unit), b # <<>>, Complete(d, b)
  PROVE  /\ b[1].i = 1 /\ b[1].frame \in Request
         /\ FrameLen(d, b[1].frame) \in 1 .. Len(b)
         /\ \A k \in 1 .. FrameLen(d, b[1].frame) : b[k] = [frame |-> b[1].frame, i |-> k]
<1> DEFINE r == b[1].frame
           n == FrameLen(d, r)
<1>1. Len(b) \in Nat \ {0} /\ 1 \in 1 .. Len(b) /\ b[1] \in Unit
  BY EmptySeq, LenProperties, ElementOfSeq
<1>2. r \in Request
  BY <1>1 DEF Unit
<1>3. b[1].i = 1
  BY DEF Complete
<1>4. n \in Nat \ {0}
  BY <1>2, FrameLenIs
<1>5. ASSUME NEW k \in 1 .. n PROVE k <= Len(b) /\ b[k] = [frame |-> r, i |-> k]
  <2>1. 1 + (k - b[1].i) <= Len(b) /\ b[1 + (k - b[1].i)] = [frame |-> r, i |-> k]
    BY <1>1, <1>3 DEF Complete
  <2>2. 1 + (k - b[1].i) = k
    BY <1>3, <1>4
  <2> QED BY <2>1, <2>2
<1> HIDE DEF n
<1>6. n \in 1 .. Len(b)
  <2>1. n \in 1 .. n
    BY <1>4
  <2>2. n <= Len(b)
    BY <2>1, <1>5
  <2> QED BY <2>2, <1>1, <1>4
<1> QED BY <1>2, <1>3, <1>5, <1>6 DEF n

LEMMA FullDecode ==
  ASSUME NEW d \in Side, NEW a, NEW b \in Seq(Unit), NEW q, NEW t \in Seq(Request),
         b # <<>>, FullInv(d, a, b, q, t)
  PROVE  FullInv(d, a, SubSeq(b, FrameLen(d, b[1].frame) + 1, Len(b)), q, Append(t, b[1].frame))
<1> DEFINE r == b[1].frame
           n == FrameLen(d, r)
           c == SubSeq(b, n + 1, Len(b))
           p == Append(t, r)
<1>1. /\ r \in Request /\ n \in 1 .. Len(b) /\ n \in 0 .. Len(b) /\ n \in Nat
      /\ \A k \in 1 .. n : b[k] = [frame |-> r, i |-> k]
  <2>1. Complete(d, b)
    BY DEF FullInv
  <2>2. /\ r \in Request /\ n \in 1 .. Len(b)
        /\ \A k \in 1 .. n : b[k] = [frame |-> r, i |-> k]
    BY <2>1, WholeFrame
  <2> HIDE DEF n, r
  <2> QED BY <2>2, LenProperties
<1> HIDE DEF r
<1>2. b[n].frame = r /\ b[n].i = n
  <2> HIDE DEF n
  <2>1. n \in 1 .. n
    BY <1>1
  <2>2. b[n] = [frame |-> r, i |-> n]
    BY <2>1, <1>1
  <2> QED BY <2>2
<1>3. Complete(d, c)
  <2>1. b[n].i = FrameLen(d, b[n].frame)
    BY <1>2
  <2> HIDE DEF n
  <2> QED BY <1>1, <2>1, CompleteRest DEF FullInv
<1>4. \A x : Has(p, x) <=> Has(t, x) \/ x = r
  BY <1>1, HasAppend
<1>5. ASSUME NEW x, BeginsIn(b, x) PROVE x = r \/ BeginsIn(c, x)
  <2> HIDE DEF n
  <2>1. BeginsIn(SubSeq(b, 1, n), x) \/ BeginsIn(c, x)
    BY <1>1, <1>5, BeginsSplit
  <2>2. ASSUME BeginsIn(SubSeq(b, 1, n), x) PROVE x = r
    <3>1. Len(SubSeq(b, 1, n)) = n /\ Within(SubSeq(b, 1, n), b, 0)
      BY <1>1, FrontIs
    <3> DEFINE f == SubSeq(b, 1, n)
    <3> HIDE DEF f
    <3>2. PICK k \in 1 .. n : f[k].frame = x
      BY <2>2, <3>1 DEF BeginsIn, f
    <3>3. f[k] = b[0 + k] /\ 0 + k = k
      BY <3>1, <1>1 DEF Within, f
    <3>4. b[k] = [frame |-> r, i |-> k]
      BY <1>1
    <3> QED BY <3>2, <3>3, <3>4
  <2> QED BY <2>1, <2>2
<1> HIDE DEF c, p
<1>6. ASSUME NEW j \in 1 .. Len(q) PROVE Has(p, q[j]) \/ BeginsIn(c, q[j]) \/ BeginsIn(a, q[j])
  BY <1>4, <1>5 DEF FullInv
<1> QED BY <1>3, <1>6 DEF FullInv, c, p, n, r

-----------------------------------------------------------------------------
(* The writing, the stream and the cache of a side.                        *)

LEMMA Sides ==
  /\ Client \in Side /\ Server \in Side
  /\ Peer(Client) = Server /\ Peer(Server) = Client
  /\ \A d \in Side : Peer(d) \in Side /\ Peer(d) # d /\ Peer(Peer(d)) = d
  /\ \A d, e \in Side : e # d => e = Peer(d)
BY SideAssumption DEF Side, Peer

LEMMA AheadIs ==
  ASSUME BuffersInv, NEW d \in Side
  PROVE  /\ wbuf[d] \in Seq(Unit) /\ pipe[d] \in Seq(Unit) /\ rbuf[d] \in Seq(Unit)
         /\ queued[d] \in Seq(Request) /\ taken[d] \in Seq(Request)
         /\ Ahead(d) \in Seq(Unit)
<1>1. wbuf[d] \in Seq(Unit) /\ pipe[d] \in Seq(Unit) /\ rbuf[d] \in Seq(Unit)
  BY DEF BuffersInv
<1>2. queued[d] \in Seq(Request) /\ taken[d] \in Seq(Request)
  BY DEF BuffersInv
<1>3. Ahead(d) \in Seq(Unit)
  BY <1>1, ConcatProperties DEF Ahead
<1> QED BY <1>1, <1>2, <1>3

LEMMA Parts ==
  ASSUME NEW p \in Seq(Unit), NEW w \in Seq(Unit), NEW n \in 0 .. Len(p)
  PROVE  /\ SubSeq(p, 1, n) = SubSeq(p \o w, 1, n)
         /\ SubSeq(p, n + 1, Len(p)) \o w = SubSeq(p \o w, n + 1, Len(p \o w))
<1> DEFINE a == p \o w
           f == SubSeq(p, 1, n)
           g == SubSeq(a, 1, n)
           h == SubSeq(p, n + 1, Len(p))
           x == h \o w
           y == SubSeq(a, n + 1, Len(a))
<1>1. Len(p) \in Nat /\ Len(w) \in Nat /\ n \in Nat
  BY LenProperties
<1>2. /\ a \in Seq(Unit) /\ Len(a) = Len(p) + Len(w)
      /\ \A i \in 1 .. Len(p) : p[i] = a[0 + i]
      /\ \A i \in 1 .. Len(w) : w[i] = a[Len(p) + i]
  BY JoinIs DEF Within
<1> HIDE DEF a
<1>3. n \in 0 .. Len(a)
  BY <1>1, <1>2
<1>4. f \in Seq(Unit) /\ Len(f) = n /\ \A i \in 1 .. Len(f) : f[i] = p[0 + i]
  BY FrontIs DEF Within
<1>5. g \in Seq(Unit) /\ Len(g) = n /\ \A i \in 1 .. Len(g) : g[i] = a[0 + i]
  BY <1>2, <1>3, FrontIs DEF Within
<1>6. h \in Seq(Unit) /\ Len(h) = Len(p) - n /\ \A i \in 1 .. Len(h) : h[i] = p[n + i]
  BY RestIs DEF Within
<1>7. y \in Seq(Unit) /\ Len(y) = Len(a) - n /\ \A i \in 1 .. Len(y) : y[i] = a[n + i]
  BY <1>2, <1>3, RestIs DEF Within
<1> HIDE DEF f, g, h, y
<1>8. /\ x \in Seq(Unit) /\ Len(x) = Len(h) + Len(w)
      /\ \A i \in 1 .. Len(h) : h[i] = x[0 + i]
      /\ \A i \in 1 .. Len(w) : w[i] = x[Len(h) + i]
  BY <1>6, JoinIs DEF Within
<1> HIDE DEF x
<1>9. f = g
  <2>1. ASSUME NEW i \in 1 .. n PROVE f[i] = g[i]
    <3>1. i \in 1 .. Len(p) /\ 0 + i = i
      BY <1>1
    <3> QED BY <3>1, <1>2, <1>4, <1>5
  <2> QED BY <2>1, <1>4, <1>5, SeqEqual
<1>10. x = y
  <2>1. Len(x) = Len(y)
    BY <1>1, <1>2, <1>6, <1>7, <1>8
  <2>2. ASSUME NEW i \in 1 .. Len(x) PROVE x[i] = y[i]
    <3>1. y[i] = a[n + i]
      BY <2>1, <1>7
    <3>2. CASE i \in 1 .. Len(h)
      <4>1. x[i] = h[i] /\ h[i] = p[n + i]
        BY <3>2, <1>6, <1>8
      <4>2. n + i \in 1 .. Len(p) /\ 0 + (n + i) = n + i
        BY <3>2, <1>1, <1>6
      <4> QED BY <3>1, <4>1, <4>2, <1>2
    <3>3. CASE i \in Len(h) + 1 .. Len(x)
      <4> DEFINE k == i - Len(h)
      <4>1. k \in 1 .. Len(w) /\ Len(h) + k = i /\ Len(p) + k = n + i
        BY <3>3, <1>1, <1>6, <1>8
      <4> HIDE DEF k
      <4>2. x[i] = w[k] /\ w[k] = a[n + i]
        BY <4>1, <1>2, <1>8
      <4> QED BY <3>1, <4>2
    <3> QED BY <3>2, <3>3, <1>1, <1>6
  <2> QED BY <2>1, <2>2, <1>7, <1>8, SeqEqual
<1> QED BY <1>9, <1>10 DEF a, f, g, h, x, y

LEMMA JoinAssociative ==
  ASSUME NEW s \in Seq(Unit), NEW u \in Seq(Unit), NEW v \in Seq(Unit)
  PROVE  (s \o u) \o v = s \o (u \o v)
<1> DEFINE f == s \o u
           g == f \o v
           h == u \o v
           k == s \o h
<1>1. /\ f \in Seq(Unit) /\ Len(f) = Len(s) + Len(u)
      /\ \A i \in 1 .. Len(s) : s[i] = f[0 + i]
      /\ \A i \in 1 .. Len(u) : u[i] = f[Len(s) + i]
  BY JoinIs DEF Within
<1>2. /\ h \in Seq(Unit) /\ Len(h) = Len(u) + Len(v)
      /\ \A i \in 1 .. Len(u) : u[i] = h[0 + i]
      /\ \A i \in 1 .. Len(v) : v[i] = h[Len(u) + i]
  BY JoinIs DEF Within
<1> HIDE DEF f, h
<1>3. /\ g \in Seq(Unit) /\ Len(g) = Len(f) + Len(v)
      /\ \A i \in 1 .. Len(f) : f[i] = g[0 + i]
      /\ \A i \in 1 .. Len(v) : v[i] = g[Len(f) + i]
  BY <1>1, JoinIs DEF Within
<1>4. /\ k \in Seq(Unit) /\ Len(k) = Len(s) + Len(h)
      /\ \A i \in 1 .. Len(s) : s[i] = k[0 + i]
      /\ \A i \in 1 .. Len(h) : h[i] = k[Len(s) + i]
  BY <1>2, JoinIs DEF Within
<1> HIDE DEF g, k
<1>5. Len(s) \in Nat /\ Len(u) \in Nat /\ Len(v) \in Nat
  BY LenProperties
<1>6. ASSUME NEW i \in 1 .. Len(g) PROVE g[i] = k[i]
  <2>1. CASE i \in 1 .. Len(s)
    <3>1. i \in 1 .. Len(f) /\ 0 + i = i
      BY <2>1, <1>1, <1>5
    <3> QED BY <2>1, <3>1, <1>1, <1>3, <1>4
  <2>2. CASE i \in Len(s) + 1 .. Len(f)
    <3> DEFINE j == i - Len(s)
    <3>1. /\ j \in 1 .. Len(u) /\ j \in 1 .. Len(h) /\ i \in 1 .. Len(f)
          /\ 0 + j = j /\ 0 + i = i /\ Len(s) + j = i
      BY <2>2, <1>1, <1>2, <1>5
    <3> HIDE DEF j
    <3>2. g[i] = f[i] /\ f[i] = u[j]
      BY <3>1, <1>1, <1>3
    <3>3. k[i] = h[j] /\ h[j] = u[j]
      BY <3>1, <1>2, <1>4
    <3> QED BY <3>2, <3>3
  <2>3. CASE i \in Len(f) + 1 .. Len(g)
    <3> DEFINE j == i - Len(f)
    <3>1. /\ j \in 1 .. Len(v) /\ Len(u) + j \in 1 .. Len(h)
          /\ Len(f) + j = i /\ Len(s) + (Len(u) + j) = i
      BY <2>3, <1>1, <1>2, <1>3, <1>5
    <3> HIDE DEF j
    <3> QED BY <3>1, <1>2, <1>3, <1>4
  <2> QED BY <2>1, <2>2, <2>3, <1>1, <1>3, <1>5
<1>7. Len(g) = Len(k)
  BY <1>1, <1>2, <1>3, <1>4, <1>5
<1>8. g = k
  BY <1>3, <1>4, <1>6, <1>7, SeqEqual
<1> QED BY <1>8 DEF f, g, h, k

LEMMA Moved ==
  ASSUME NEW p \in Seq(Unit), NEW w \in Seq(Unit), NEW n \in 1 .. Len(w)
  PROVE  (p \o SubSeq(w, 1, n)) \o SubSeq(w, n + 1, Len(w)) = p \o w
<1>1. Len(w) \in Nat /\ n \in 0 .. Len(w) /\ 1 \in 1 .. Len(w) + 1 /\ n \in 1 - 1 .. Len(w)
      /\ Len(w) \in n .. Len(w)
  BY LenProperties
<1>2. SubSeq(w, 1, n) \in Seq(Unit) /\ SubSeq(w, n + 1, Len(w)) \in Seq(Unit)
  BY <1>1, FrontIs, RestIs
<1>3. SubSeq(w, 1, n) \o SubSeq(w, n + 1, Len(w)) = SubSeq(w, 1, Len(w))
  BY <1>1, ConcatAdjacentSubSeq
<1>4. SubSeq(w, 1, Len(w)) = w
  BY SubSeqFull
<1> DEFINE x == SubSeq(w, 1, n)
           y == SubSeq(w, n + 1, Len(w))
<1> HIDE DEF x, y
<1>5. x \in Seq(Unit) /\ y \in Seq(Unit) /\ x \o y = w
  BY <1>2, <1>3, <1>4 DEF x, y
<1>6. (p \o x) \o y = p \o (x \o y)
  BY <1>5, JoinAssociative, Zenon
<1>7. (p \o x) \o y = p \o w
  BY <1>5, <1>6
<1> QED BY <1>7 DEF x, y

LEMMA DirectionStays ==
  ASSUME NEW d \in Side, wbuf'[d] = wbuf[d], pipe'[d] = pipe[d],
         rbuf'[Peer(d)] = rbuf[Peer(d)], queued'[d] = queued[d], taken'[Peer(d)] = taken[Peer(d)]
  PROVE  /\ Direction(d) => Direction(d)'
         /\ FullDirection(d) => FullDirection(d)'
<1>1. Ahead(d)' = Ahead(d)
  BY DEF Ahead
<1>2. ASSUME Direction(d) PROVE Direction(d)'
  <2> SUFFICES DirInv(d, Ahead(d)', rbuf'[Peer(d)], queued'[d], taken'[Peer(d)])
    BY DEF Direction, DirInv, Ordered, OfFrames, Increasing, Less, Has, FrameLen, Payload, Peer
  <2> QED BY <1>1, <1>2 DEF Direction
<1>3. ASSUME FullDirection(d) PROVE FullDirection(d)'
  <2> SUFFICES FullInv(d, Ahead(d)', rbuf'[Peer(d)], queued'[d], taken'[Peer(d)])
    BY DEF FullDirection
  <2> QED BY <1>1, <1>3 DEF FullDirection
<1> QED BY <1>2, <1>3

LEMMA QueueTypes ==
  ASSUME BuffersInv, NEW d \in Side, NEW r \in Request, Queue(d, r) \/ Refuse(d, r)
  PROVE  /\ wbuf' \in [Side -> Seq(Unit)] /\ woff' \in [Side -> Nat]
         /\ queued' \in [Side -> Seq(Request)]
         /\ \A e \in Side : woff'[e] + Len(wbuf'[e]) <= WriteCap
         /\ \A e \in Side : e # d => wbuf'[e] = wbuf[e] /\ queued'[e] = queued[e]
<1>1. Start(d) \in Nat /\ Start(d) <= woff[d] /\ Len(wbuf[d]) \in Nat /\ woff[d] \in Nat
  BY AheadIs, LenProperties DEF Start, BuffersInv
<1>2. Units(d, r) \in Seq(Unit) /\ Len(Units(d, r)) = FrameLen(d, r) /\ FrameLen(d, r) \in Nat
  BY UnitsAre, FrameLenIs
<1>3. /\ wbuf[d] \o Units(d, r) \in Seq(Unit)
      /\ Len(wbuf[d] \o Units(d, r)) = Len(wbuf[d]) + FrameLen(d, r)
  <2>1. wbuf[d] \in Seq(Unit)
    BY AheadIs
  <2> DEFINE x == wbuf[d]
             y == Units(d, r)
  <2>2. x \in Seq(Unit) /\ y \in Seq(Unit)
    BY <1>2, <2>1
  <2> HIDE DEF x, y
  <2>3. x \o y \in Seq(Unit) /\ Len(x \o y) = Len(x) + Len(y)
    BY <2>2, ConcatProperties
  <2> QED BY <1>2, <2>3 DEF x, y
<1>4. Append(queued[d], r) \in Seq(Request)
  BY AheadIs, AppendProperties
<1>5. WriteCap \in Nat
  BY LengthAssumption
<1>6. CASE Queue(d, r)
  <2>1. wbuf' \in [Side -> Seq(Unit)] /\ woff' \in [Side -> Nat]
    BY <1>1, <1>3, <1>6 DEF Queue, BuffersInv
  <2>2. queued' \in [Side -> Seq(Request)]
    BY <1>4, <1>6 DEF Queue, BuffersInv
  <2>3. \A e \in Side : e # d => wbuf'[e] = wbuf[e] /\ queued'[e] = queued[e] /\ woff'[e] = woff[e]
    BY <1>6 DEF Queue, BuffersInv
  <2>4. woff'[d] + Len(wbuf'[d]) <= WriteCap
    <3>1. woff'[d] = Start(d) /\ wbuf'[d] = wbuf[d] \o Units(d, r)
      BY <1>6 DEF Queue, BuffersInv
    <3>2. WriteCap - (Start(d) + Len(wbuf[d])) >= FrameLen(d, r)
      BY <1>6 DEF Queue, RoomFor
    <3> HIDE DEF Start
    <3> QED BY <3>1, <3>2, <1>1, <1>2, <1>3, <1>5
  <2> QED BY <2>1, <2>2, <2>3, <2>4 DEF BuffersInv
<1>7. CASE Refuse(d, r)
  <2>1. wbuf' = wbuf /\ queued' = queued /\ woff' \in [Side -> Nat]
    BY <1>1, <1>7 DEF Refuse, BuffersInv
  <2>2. \A e \in Side : e # d => woff'[e] = woff[e]
    BY <1>7 DEF Refuse, BuffersInv
  <2>3. woff'[d] = Start(d)
    BY <1>7 DEF Refuse, BuffersInv
  <2>4. woff'[d] + Len(wbuf'[d]) <= WriteCap
    BY <2>1, <2>3, <1>1, <1>5 DEF BuffersInv
  <2> QED BY <2>1, <2>2, <2>4 DEF BuffersInv
<1> QED BY <1>6, <1>7

LEMMA QueueWaits ==
  ASSUME BuffersInv, FlagsInv, NEW d \in Side, NEW r \in Request, Queue(d, r) \/ Refuse(d, r),
         NoLostWakeup
  PROVE  wanted' \in [Side -> BOOLEAN] /\ NoLostWakeup'
<1>1. CASE Queue(d, r)
  <2>1. wanted' = [wanted EXCEPT ![d] = TRUE]
    BY <1>1 DEF Queue
  <2>2. wanted' \in [Side -> BOOLEAN]
    BY <2>1, Zenon DEF FlagsInv
  <2>3. \A e \in Side : wanted'[e] = IF e = d THEN TRUE ELSE wanted[e]
    BY <2>1, Zenon DEF FlagsInv
  <2>4. \A e \in Side : e # d => wbuf'[e] = wbuf[e]
    BY QueueTypes
  <2> QED BY <2>2, <2>3, <2>4, Zenon DEF NoLostWakeup
<1>2. CASE Refuse(d, r)
  BY <1>2, Zenon DEF Refuse, FlagsInv, NoLostWakeup
<1> QED BY <1>1, <1>2

LEMMA QueueDirection ==
  ASSUME BuffersInv, NEW d \in Side, NEW r \in Request, Queue(d, r) \/ Refuse(d, r),
         pipe'[d] = pipe[d], rbuf'[Peer(d)] = rbuf[Peer(d)], taken'[Peer(d)] = taken[Peer(d)],
         \A j \in 1 .. Len(queued[d]) : queued[d][j] < r,
         Direction(d)
  PROVE  /\ Direction(d)' /\ (FullDirection(d) => FullDirection(d)')
         /\ \A x : Has(queued'[d], x) => Has(queued[d], x) \/ x = r
<1> USE Sides
<1>1. CASE Refuse(d, r)
  <2>1. wbuf'[d] = wbuf[d] /\ queued'[d] = queued[d]
    BY <1>1 DEF Refuse
  <2> QED BY <2>1, DirectionStays
<1>2. CASE Queue(d, r)
  <2>1. wbuf'[d] = wbuf[d] \o Units(d, r) /\ queued'[d] = Append(queued[d], r)
    BY <1>2 DEF Queue, BuffersInv
  <2>2. Units(d, r) \in Seq(Unit)
    BY UnitsAre
  <2>3. Ahead(d)' = Ahead(d) \o Units(d, r)
    <3>1. wbuf[d] \in Seq(Unit) /\ pipe[d] \in Seq(Unit)
      BY AheadIs
    <3>2. (pipe[d] \o wbuf[d]) \o Units(d, r) = pipe[d] \o (wbuf[d] \o Units(d, r))
      <4> DEFINE x == pipe[d]
                 y == wbuf[d]
                 z == Units(d, r)
      <4>1. x \in Seq(Unit) /\ y \in Seq(Unit) /\ z \in Seq(Unit)
        BY <2>2, <3>1
      <4> HIDE DEF x, y, z
      <4>2. (x \o y) \o z = x \o (y \o z)
        BY ONLY <4>1, JoinAssociative, Zenon
      <4> QED BY <4>2 DEF x, y, z
    <3> QED BY <2>1, <3>2 DEF Ahead
  <2>4. /\ Ahead(d) \in Seq(Unit) /\ rbuf[Peer(d)] \in Seq(Unit)
        /\ queued[d] \in Seq(Request) /\ taken[Peer(d)] \in Seq(Request)
    BY AheadIs
  <2>5. Direction(d)'
    <3>1. DirInv(d, Ahead(d) \o Units(d, r), rbuf[Peer(d)], Append(queued[d], r), taken[Peer(d)])
      <4>1. DirInv(d, Ahead(d), rbuf[Peer(d)], queued[d], taken[Peer(d)])
        BY DEF Direction
      <4> QED BY <4>1, <2>4, DirQueue, Zenon
    <3> QED BY <2>1, <2>3, <3>1 DEF Direction
  <2>6. FullDirection(d) => FullDirection(d)'
    BY <2>1, <2>3, <2>4, FullQueue DEF FullDirection
  <2>7. \A x : Has(queued'[d], x) => Has(queued[d], x) \/ x = r
    BY <2>1, <2>4, HasAppend
  <2> QED BY <2>5, <2>6, <2>7
<1> QED BY <1>1, <1>2

-----------------------------------------------------------------------------
(* Each action keeps the invariant.                                        *)

LEMMA InitCodec == CodecInit => CodecInv
<1> SUFFICES ASSUME CodecInit PROVE CodecInv
  OBVIOUS
<1>1. \A S : <<>> \in Seq(S) /\ Len(<<>>) = 0 /\ <<>> \o <<>> = <<>>
  BY EmptySeq, ConcatEmptySeq
<1>2. \A d \in Side : /\ Ahead(d) = <<>> /\ rbuf[Peer(d)] = <<>>
                      /\ queued[d] = <<>> /\ taken[Peer(d)] = <<>>
  BY <1>1, Sides DEF CodecInit, Ahead
<1>3. BuffersInv
  <2>1. WriteCap \in Nat /\ ReadCap \in Nat \ {0} /\ Requests \in Nat
    BY LengthAssumption
  <2> QED BY <1>1, <2>1 DEF CodecInit, BuffersInv
<1>4. FlagsInv
  BY Zenon DEF CodecInit, FlagsInv
<1>5. WaitsInv
  BY DEF CodecInit, WaitsInv, NoLostWakeup
<1>6. FramesInv
  <2>1. \A d \in Side : Direction(d)
    <3> SUFFICES ASSUME NEW d \in Side PROVE Direction(d)
      OBVIOUS
    <3>1. Ends(<<>>, Whole(d, <<>>))
      <4>1. Whole(d, <<>>) \in Seq(Unit) /\ Len(Whole(d, <<>>)) = 0
        BY WholeEmpty
      <4> QED BY <1>1, <4>1 DEF Ends, Within
    <3> QED BY <3>1, <1>1, <1>2 DEF Direction, DirInv, Ordered, OfFrames, Increasing
  <2> QED BY <2>1, <1>1, <1>2, Sides DEF FramesInv
<1>7. UncutInv
  BY <1>1, <1>2 DEF UncutInv, FullDirection, FullInv, Complete
<1> QED BY <1>3, <1>4, <1>5, <1>6, <1>7 DEF CodecInv

LEMMA SendRequestKeeps ==
  ASSUME CodecInv, SendRequest
  PROVE  CodecInv'
<1> DEFINE r == tried + 1
<1>1. /\ BuffersInv /\ FlagsInv /\ NoLostWakeup /\ FramesInv /\ UncutInv
      /\ \A d \in Side : ~decoding[d] => rbuf[d] = <<>>
  BY DEF CodecInv, WaitsInv
<1>2. r \in Request /\ tried' = r /\ r \in 0 .. Requests /\ tried \in Nat
  BY <1>1, LengthAssumption DEF BuffersInv, SendRequest, Request
<1>3. /\ UNCHANGED <<pipe, rbuf, decoding, serving, cuts, taken>>
      /\ Queue(Client, r) \/ Refuse(Client, r)
  BY DEF SendRequest
<1> HIDE DEF r
<1>4. /\ wbuf' \in [Side -> Seq(Unit)] /\ woff' \in [Side -> Nat]
      /\ queued' \in [Side -> Seq(Request)]
      /\ \A e \in Side : woff'[e] + Len(wbuf'[e]) <= WriteCap
      /\ \A e \in Side : e # Client => wbuf'[e] = wbuf[e] /\ queued'[e] = queued[e]
  BY <1>1, <1>2, <1>3, Sides, QueueTypes
<1>5. wanted' \in [Side -> BOOLEAN] /\ NoLostWakeup'
  BY <1>1, <1>2, <1>3, Sides, QueueWaits
<1>6. BuffersInv'
  BY <1>1, <1>2, <1>3, <1>4 DEF BuffersInv
<1>7. FlagsInv'
  BY <1>1, <1>3, <1>5, Zenon DEF FlagsInv
<1>8. WaitsInv'
  BY <1>1, <1>3, <1>5 DEF WaitsInv
<1>9. \A j \in 1 .. Len(queued[Client]) : queued[Client][j] < r
  <2>1. \A j \in 1 .. Len(queued[Client]) : queued[Client][j] <= tried /\ queued[Client][j] \in Nat
    <3>1. queued[Client] \in Seq(Request) /\ Request \subseteq Nat
      BY <1>1, AheadIs, Sides, LengthAssumption DEF Request
    <3> QED BY <1>1, <3>1, ElementOfSeq DEF FramesInv
  <2> QED BY <2>1, <1>2 DEF r
<1>10. /\ Direction(Client)' /\ (FullDirection(Client) => FullDirection(Client)')
       /\ \A x : Has(queued'[Client], x) => Has(queued[Client], x) \/ x = r
  BY <1>1, <1>2, <1>3, <1>9, Sides, QueueDirection DEF FramesInv
<1>11. Direction(Server)' /\ (FullDirection(Server) => FullDirection(Server)')
  BY <1>1, <1>3, <1>4, Sides, DirectionStays DEF FramesInv
<1>12. FramesInv'
  <2>1. \A d \in Side : Direction(d)'
    BY <1>10, <1>11 DEF Side
  <2>2. \A j \in 1 .. Len(queued'[Client]) : queued'[Client][j] <= tried'
    <3> SUFFICES ASSUME NEW j \in 1 .. Len(queued'[Client]) PROVE queued'[Client][j] <= tried'
      OBVIOUS
    <3>1. queued'[Client] \in Seq(Request) /\ queued[Client] \in Seq(Request) /\ Request \subseteq Nat
      BY <1>1, <1>4, AheadIs, Sides, LengthAssumption DEF Request
    <3>2. Has(queued'[Client], queued'[Client][j])
      BY <3>1, HasIs
    <3>3. Has(queued[Client], queued'[Client][j]) \/ queued'[Client][j] = r
      BY <3>2, <1>10
    <3>4. \A x : Has(queued[Client], x) => x < r
      BY <3>1, <1>9, HasIs
    <3>5. queued'[Client][j] \in Nat
      BY <3>1, ElementOfSeq
    <3> QED BY <3>3, <3>4, <3>5, <1>2
  <2>3. \A j \in 1 .. Len(queued'[Server]) : Has(taken'[Server], queued'[Server][j])
    BY <1>1, <1>3, <1>4, Sides DEF FramesInv
  <2> QED BY <2>1, <2>2, <2>3 DEF FramesInv
<1>13. UncutInv'
  <2>1. ~cuts => FullDirection(Client)' /\ FullDirection(Server)'
    BY <1>1, <1>10, <1>11, Sides DEF UncutInv
  <2> QED BY <2>1, <1>3 DEF UncutInv, Side
<1> QED BY <1>6, <1>7, <1>8, <1>12, <1>13 DEF CodecInv

LEMMA FlushKeeps ==
  ASSUME CodecInv, NEW d \in Side, NEW n \in 1 .. WriteCap, Flush(d, n)
  PROVE  CodecInv'
<1>1. /\ BuffersInv /\ FlagsInv /\ NoLostWakeup /\ FramesInv /\ UncutInv
      /\ \A e \in Side : ~decoding[e] => rbuf[e] = <<>>
  BY DEF CodecInv, WaitsInv
<1>2. /\ n \in 1 .. Len(wbuf[d]) /\ n \in 0 .. Len(wbuf[d]) /\ n \in Nat
      /\ UNCHANGED <<rbuf, decoding, serving, tried, cuts, queued, taken>>
  BY DEF Flush
<1> DEFINE x == pipe[d] \o SubSeq(wbuf[d], 1, n)
           y == SubSeq(wbuf[d], n + 1, Len(wbuf[d]))
<1>3. /\ wbuf' = [wbuf EXCEPT ![d] = y] /\ pipe' = [pipe EXCEPT ![d] = x]
      /\ woff' = [woff EXCEPT ![d] = @ + n]
  BY DEF Flush
<1>4. wbuf[d] \in Seq(Unit) /\ pipe[d] \in Seq(Unit) /\ Len(wbuf[d]) \in Nat
  BY <1>1, AheadIs, LenProperties
<1>5. y \in Seq(Unit) /\ Len(y) = Len(wbuf[d]) - n
  BY <1>2, <1>4, RestIs
<1>6. x \in Seq(Unit)
  BY <1>2, <1>4, FrontIs, ConcatProperties
<1>7. x \o y = pipe[d] \o wbuf[d]
  BY <1>2, <1>4, Moved
<1> HIDE DEF x, y
<1>8. wbuf'[d] = y /\ pipe'[d] = x /\ woff'[d] = woff[d] + n
  BY <1>1, <1>3 DEF BuffersInv
<1>9. \A e \in Side : e # d => wbuf'[e] = wbuf[e] /\ pipe'[e] = pipe[e] /\ woff'[e] = woff[e]
  BY <1>1, <1>3 DEF BuffersInv
<1>10. BuffersInv'
  <2>1. wbuf' \in [Side -> Seq(Unit)] /\ pipe' \in [Side -> Seq(Unit)] /\ woff' \in [Side -> Nat]
    BY <1>1, <1>2, <1>3, <1>5, <1>6 DEF BuffersInv
  <2>2. woff'[d] + Len(wbuf'[d]) <= WriteCap
    <3>1. woff[d] \in Nat /\ woff[d] + Len(wbuf[d]) <= WriteCap
      BY <1>1 DEF BuffersInv
    <3> QED BY <3>1, <1>2, <1>4, <1>5, <1>8, LengthAssumption
  <2> QED BY <2>1, <2>2, <1>1, <1>2, <1>9 DEF BuffersInv
<1>11. wanted' = [wanted EXCEPT ![d] = n < Len(wbuf[d])]
  BY DEF Flush
<1>12. FlagsInv'
  <2>1. (n < Len(wbuf[d])) \in BOOLEAN
    OBVIOUS
  <2>2. wanted' \in [Side -> BOOLEAN]
    BY <1>1, <1>11, <2>1, Zenon DEF FlagsInv
  <2> QED BY <2>2, <1>1, <1>2, Zenon DEF FlagsInv
<1>13. NoLostWakeup'
  <2>1. \A e \in Side : wanted'[e] = IF e = d THEN n < Len(wbuf[d]) ELSE wanted[e]
    BY <1>1, <1>11, Zenon DEF FlagsInv
  <2>2. y # <<>> => n < Len(wbuf[d])
    BY <1>2, <1>4, <1>5, EmptySeq
  <2> QED BY <2>1, <2>2, <1>1, <1>8, <1>9, Zenon DEF NoLostWakeup
<1>14. WaitsInv'
  BY <1>1, <1>2, <1>13 DEF WaitsInv
<1>15. ASSUME NEW e \in Side
       PROVE  Direction(e)' /\ (FullDirection(e) => FullDirection(e)')
  <2>1. Ahead(e)' = Ahead(e)
    BY <1>7, <1>8, <1>9 DEF Ahead
  <2>2. Direction(e)' = Direction(e)
    BY <2>1, <1>2 DEF Direction
  <2>3. FullDirection(e)' = FullDirection(e)
    BY <2>1, <1>2 DEF FullDirection
  <2> QED BY <2>2, <2>3, <1>1 DEF FramesInv
<1>16. FramesInv'
  BY <1>1, <1>2, <1>15 DEF FramesInv
<1>17. UncutInv'
  BY <1>1, <1>2, <1>15 DEF UncutInv
<1> QED BY <1>10, <1>12, <1>14, <1>16, <1>17 DEF CodecInv

LEMMA ReceivesKeeps ==
  ASSUME CodecInv, NEW e \in Side, NEW n \in 1 .. ReadCap, Receives(e, n)
  PROVE  CodecInv'
<1> DEFINE d == Peer(e)
           m == IF n < Room(e) THEN n ELSE n - 1
           x == SubSeq(pipe[d], n + 1, Len(pipe[d]))
           y == SubSeq(pipe[d], 1, m)
<1>1. /\ BuffersInv /\ FlagsInv /\ NoLostWakeup /\ FramesInv /\ UncutInv
      /\ \A c \in Side : ~decoding[c] => rbuf[c] = <<>>
  BY DEF CodecInv, WaitsInv
<1>2. d \in Side /\ d # e /\ Peer(d) = e /\ \A c \in Side : c # d => c = e
  BY Sides
<1>3. rbuf[e] = <<>> /\ Len(<<>>) = 0 /\ Room(e) = ReadCap /\ ReadCap \in Nat \ {0}
  <2>1. rbuf[e] = <<>> /\ Len(<<>>) = 0
    BY <1>1 DEF Receives
  <2> QED BY <2>1, LengthAssumption DEF Room
<1>4. n \in 1 .. Len(pipe[d]) /\ n \in 0 .. Len(pipe[d]) /\ n \in Nat /\ n <= ReadCap
  BY <1>3 DEF Receives
<1>5. m \in 0 .. n /\ m \in 0 .. Len(pipe[d]) /\ m < ReadCap
  BY <1>3, <1>4
<1> HIDE DEF d, m
<1>6. wbuf[d] \in Seq(Unit) /\ pipe[d] \in Seq(Unit) /\ Len(pipe[d]) \in Nat /\ Ahead(d) \in Seq(Unit)
  BY <1>1, <1>2, AheadIs, LenProperties
<1>7. x \in Seq(Unit) /\ y \in Seq(Unit) /\ Len(y) = m
  BY <1>4, <1>5, <1>6, FrontIs, RestIs
<1>8. /\ rbuf' = [rbuf EXCEPT ![e] = rbuf[e] \o y] /\ pipe' = [pipe EXCEPT ![d] = x]
      /\ decoding' = [decoding EXCEPT ![e] = TRUE]
      /\ UNCHANGED <<wbuf, woff, wanted, serving, tried, cuts, queued, taken>>
  BY DEF Receives, Received, writing, d, m
<1>9. rbuf[e] \o y = y
  BY <1>3, <1>7, ConcatEmptySeq
<1>10. /\ y = SubSeq(Ahead(d), 1, m)
       /\ x \o wbuf[d] = SubSeq(Ahead(d), n + 1, Len(Ahead(d)))
  BY <1>4, <1>5, <1>6, Parts DEF Ahead
<1>11. n \in 1 .. Len(Ahead(d)) /\ pipe[d][n] = Ahead(d)[n]
  <2>1. /\ Len(Ahead(d)) = Len(pipe[d]) + Len(wbuf[d])
        /\ \A i \in 1 .. Len(pipe[d]) : pipe[d][i] = Ahead(d)[0 + i]
    BY <1>6, JoinIs DEF Within, Ahead
  <2>2. Len(wbuf[d]) \in Nat
    BY <1>6, LenProperties
  <2>3. n \in 1 .. Len(Ahead(d)) /\ 0 + n = n
    <3> DEFINE k == Len(pipe[d])
               l == Len(wbuf[d])
    <3>1. k \in Nat /\ l \in Nat /\ n \in 1 .. k /\ Len(Ahead(d)) = k + l
      BY <2>1, <2>2, <1>4, <1>6
    <3> HIDE DEF k, l
    <3> QED BY <3>1
  <2>4. pipe[d][n] = Ahead(d)[0 + n]
    BY <2>1, <1>4
  <2>5. pipe[d][n] = Ahead(d)[n]
    BY <2>3, <2>4
  <2> QED BY <2>3, <2>5
<1> HIDE DEF x, y
<1>12. rbuf'[e] = y /\ pipe'[d] = x
  BY <1>1, <1>2, <1>8, <1>9 DEF BuffersInv
<1>13. (\A c \in Side : c # e => rbuf'[c] = rbuf[c]) /\ (\A c \in Side : c # d => pipe'[c] = pipe[c])
  BY <1>1, <1>8 DEF BuffersInv
<1>14. BuffersInv'
  <2>1. rbuf' \in [Side -> Seq(Unit)] /\ pipe' \in [Side -> Seq(Unit)]
    BY <1>1, <1>7, <1>8, <1>9 DEF BuffersInv
  <2>2. \A c \in Side : Len(rbuf'[c]) < ReadCap
    BY <1>1, <1>5, <1>7, <1>12, <1>13 DEF BuffersInv
  <2> QED BY <2>1, <2>2, <1>1, <1>8 DEF BuffersInv
<1>15. FlagsInv'
  BY <1>1, <1>8, Zenon DEF FlagsInv
<1>16. WaitsInv'
  <2>1. \A c \in Side : c # e => decoding'[c] = decoding[c]
    BY <1>1, <1>8, Zenon DEF FlagsInv
  <2>2. decoding'[e] = TRUE
    BY <1>1, <1>8, Zenon DEF FlagsInv
  <2>3. NoLostWakeup'
    BY <1>1, <1>8 DEF NoLostWakeup
  <2> QED BY <2>1, <2>2, <2>3, <1>1, <1>13, Zenon DEF WaitsInv
<1>17. Ahead(d)' = SubSeq(Ahead(d), n + 1, Len(Ahead(d)))
  BY <1>8, <1>10, <1>12 DEF Ahead
<1>18. queued[d] \in Seq(Request) /\ taken[e] \in Seq(Request)
  BY <1>1, <1>2, AheadIs
<1>19. Direction(d)'
  <2>1. DirInv(d, Ahead(d), <<>>, queued[d], taken[e])
    BY <1>1, <1>2, <1>3 DEF FramesInv, Direction
  <2>2. DirInv(d, SubSeq(Ahead(d), n + 1, Len(Ahead(d))), SubSeq(Ahead(d), 1, m), queued[d], taken[e])
    BY <2>1, <1>2, <1>5, <1>6, <1>11, <1>18, DirReceive
  <2> QED BY <2>2, <1>2, <1>8, <1>10, <1>12, <1>17 DEF Direction
<1>20. Direction(e)' /\ (FullDirection(e) => FullDirection(e)')
  <2>1. Peer(e) # e /\ Peer(e) \in Side
    BY Sides
  <2>2. wbuf'[e] = wbuf[e] /\ pipe'[e] = pipe[e] /\ queued'[e] = queued[e] /\ taken'[Peer(e)] = taken[Peer(e)]
    BY <1>2, <1>8, <1>13
  <2>3. rbuf'[Peer(e)] = rbuf[Peer(e)]
    BY <2>1, <1>13
  <2> QED BY <2>2, <2>3, <1>1, DirectionStays DEF FramesInv
<1>21. ~cuts => FullDirection(d)'
  <2> HAVE ~cuts
  <2>1. pipe[d][n].i = FrameLen(d, pipe[d][n].frame) /\ n < Room(e)
    BY DEF Receives, AtFrameEnd, d
  <2>2. m = n
    BY <2>1 DEF m
  <2>3. FullInv(d, Ahead(d), <<>>, queued[d], taken[e])
    BY <1>1, <1>2, <1>3 DEF UncutInv, FullDirection
  <2>4. FullInv(d, SubSeq(Ahead(d), n + 1, Len(Ahead(d))), SubSeq(Ahead(d), 1, n), queued[d], taken[e])
    BY <2>1, <2>3, <1>2, <1>6, <1>11, FullReceive
  <2> QED BY <2>2, <2>4, <1>2, <1>8, <1>10, <1>12, <1>17 DEF FullDirection
<1>22. FramesInv'
  <2>1. \A c \in Side : Direction(c)'
    BY <1>2, <1>19, <1>20
  <2> QED BY <2>1, <1>1, <1>8 DEF FramesInv
<1>23. UncutInv'
  <2>1. ~cuts => \A c \in Side : FullDirection(c)'
    BY <1>1, <1>2, <1>20, <1>21 DEF UncutInv
  <2> QED BY <2>1, <1>8 DEF UncutInv
<1> QED BY <1>14, <1>15, <1>16, <1>22, <1>23 DEF CodecInv

LEMMA DecodeFrameKeeps ==
  ASSUME CodecInv, NEW e \in Side, DecodeFrame(e)
  PROVE  CodecInv'
<1> DEFINE d == Peer(e)
           b == rbuf[e]
           r == b[1].frame
           n == FrameLen(d, r)
           c == SubSeq(b, n + 1, Len(b))
<1>1. /\ BuffersInv /\ FlagsInv /\ NoLostWakeup /\ FramesInv /\ UncutInv
      /\ \A s \in Side : ~decoding[s] => rbuf[s] = <<>>
  BY DEF CodecInv, WaitsInv
<1>2. d \in Side /\ d # e /\ Peer(d) = e /\ \A s \in Side : s # d => s = e
  BY Sides
<1> HIDE DEF d
<1>3. /\ b \in Seq(Unit) /\ Len(b) \in Nat /\ Ahead(d) \in Seq(Unit)
      /\ queued[d] \in Seq(Request) /\ taken[e] \in Seq(Request) /\ taken[d] \in Seq(Request)
  BY <1>1, <1>2, AheadIs, LenProperties
<1>4. b # <<>> /\ b[1].i = 1 /\ Len(b) >= n /\ decoding[e]
  <2>1. Len(b) >= HeaderLen /\ b[1].i = 1 /\ Len(b) >= n /\ decoding[e]
    BY DEF DecodeFrame, HasHeader, HasMagic, WantedLen, d
  <2>2. Len(<<>>) = 0 /\ HeaderLen \in Nat \ {0}
    BY LengthAssumption
  <2> QED BY <2>1, <2>2
<1>5. r \in Request
  <2>1. 1 \in 1 .. Len(b)
    BY <1>3, <1>4, EmptySeq
  <2>2. b[1] \in Unit
    BY <2>1, <1>3, ElementOfSeq
  <2> QED BY <2>2 DEF Unit
<1>6. c \in Seq(Unit) /\ Len(c) <= Len(b)
  <2>1. n \in 0 .. Len(b) /\ n \in Nat
    BY <1>2, <1>3, <1>4, <1>5, FrameLenIs
  <2>2. c \in Seq(Unit) /\ Len(c) = Len(b) - n
    BY <2>1, <1>3, RestIs
  <2> HIDE DEF n, c, b
  <2> QED BY <2>1, <2>2, <1>3
<1>7. /\ taken' = [taken EXCEPT ![e] = Append(@, r)]
      /\ rbuf' = [rbuf EXCEPT ![e] = c]
      /\ Respond(e, r)
      /\ UNCHANGED <<pipe, decoding, tried, cuts>>
  BY DEF DecodeFrame, Rest, WantedLen, d
<1>8. taken'[e] = Append(taken[e], r) /\ rbuf'[e] = c
  BY <1>1, <1>7 DEF BuffersInv
<1>9. \A s \in Side : s # e => taken'[s] = taken[s] /\ rbuf'[s] = rbuf[s]
  BY <1>1, <1>7 DEF BuffersInv
<1>10. DirInv(d, Ahead(d), c, queued[d], Append(taken[e], r))
  <2>1. DirInv(d, Ahead(d), b, queued[d], taken[e])
    BY <1>1, <1>2 DEF FramesInv, Direction
  <2> QED BY <2>1, <1>2, <1>3, <1>4, DirDecode
<1>11. ~cuts => FullInv(d, Ahead(d), c, queued[d], Append(taken[e], r))
  <2> HAVE ~cuts
  <2>1. FullInv(d, Ahead(d), b, queued[d], taken[e])
    BY <1>1, <1>2 DEF UncutInv, FullDirection
  <2> QED BY <2>1, <1>2, <1>3, <1>4, FullDecode
<1>12. \A x : Has(taken[e], x) \/ x = r => Has(taken'[e], x)
  BY <1>3, <1>5, <1>8, HasAppend
<1>13. taken' \in [Side -> Seq(Request)] /\ rbuf' \in [Side -> Seq(Unit)]
  <2>1. Append(taken[e], r) \in Seq(Request)
    BY <1>3, <1>5, AppendProperties
  <2> QED BY <2>1, <1>1, <1>6, <1>7 DEF BuffersInv
<1>14. \A s \in Side : Len(rbuf'[s]) < ReadCap
  <2>1. Len(rbuf'[e]) < ReadCap
    <3>1. Len(b) < ReadCap /\ ReadCap \in Nat /\ Len(c) \in Nat
      BY <1>1, <1>6, LengthAssumption, LenProperties DEF BuffersInv
    <3> HIDE DEF b, c
    <3> QED BY <3>1, <1>3, <1>6, <1>8
  <2> QED BY <2>1, <1>1, <1>9 DEF BuffersInv
<1>15. wbuf'[d] = wbuf[d] /\ queued'[d] = queued[d] => Direction(d)' /\ (~cuts => FullDirection(d)')
  <2> HAVE wbuf'[d] = wbuf[d] /\ queued'[d] = queued[d]
  <2>1. Ahead(d)' = Ahead(d)
    BY <1>7 DEF Ahead
  <2> QED BY <2>1, <1>2, <1>8, <1>10, <1>11 DEF Direction, FullDirection
<1> HIDE DEF c, n, r, b
<1>16. \A s \in Side : ~decoding'[s] => rbuf'[s] = <<>>
  BY <1>1, <1>4, <1>7, <1>9
<1>17. CASE e = Server
  <2>1. /\ Queue(Server, r) \/ Refuse(Server, r)
        /\ serving' \in {serving, FALSE} /\ d = Client
    BY <1>7, <1>17, Sides DEF Respond, d
  <2>2. /\ wbuf' \in [Side -> Seq(Unit)] /\ woff' \in [Side -> Nat]
        /\ queued' \in [Side -> Seq(Request)]
        /\ \A s \in Side : woff'[s] + Len(wbuf'[s]) <= WriteCap
        /\ \A s \in Side : s # Server => wbuf'[s] = wbuf[s] /\ queued'[s] = queued[s]
    BY <2>1, <1>1, <1>5, Sides, QueueTypes
  <2>3. wanted' \in [Side -> BOOLEAN] /\ NoLostWakeup'
    BY <2>1, <1>1, <1>5, Sides, QueueWaits
  <2>4. BuffersInv'
    BY <2>2, <1>1, <1>7, <1>13, <1>14 DEF BuffersInv
  <2>5. FlagsInv'
    <3>1. serving' \in BOOLEAN
      BY <2>1, <1>1, Zenon DEF FlagsInv
    <3> QED BY <2>3, <3>1, <1>1, <1>7, Zenon DEF FlagsInv
  <2>6. WaitsInv'
    BY <2>3, <1>16 DEF WaitsInv
  <2>7. \A j \in 1 .. Len(queued[Server]) : queued[Server][j] < r
    <3> SUFFICES ASSUME NEW j \in 1 .. Len(queued[Server]) PROVE queued[Server][j] < r
      OBVIOUS
    <3>1. Has(taken[e], queued[Server][j])
      BY <1>1, <1>17 DEF FramesInv
    <3>2. PICK i \in 1 .. Len(taken[e]) : taken[e][i] = queued[Server][j]
      BY <3>1, <1>3, HasIs
    <3>3. \A k \in 1 .. Len(b) : taken[e][i] < b[k].frame
      BY <1>1, <1>2 DEF FramesInv, Direction, DirInv, b
    <3>4. 1 \in 1 .. Len(b)
      BY <1>3, <1>4, EmptySeq
    <3> QED BY <3>2, <3>3, <3>4 DEF r
  <2>8. /\ Direction(Server)' /\ (FullDirection(Server) => FullDirection(Server)')
        /\ \A x : Has(queued'[Server], x) => Has(queued[Server], x) \/ x = r
    <3>1. pipe'[Server] = pipe[Server] /\ rbuf'[Peer(Server)] = rbuf[Peer(Server)]
          /\ taken'[Peer(Server)] = taken[Peer(Server)]
      BY <1>7, <1>9, <1>17, Sides
    <3> QED BY <2>1, <2>7, <3>1, <1>1, <1>5, Sides, QueueDirection DEF FramesInv
  <2>9. Direction(d)' /\ (~cuts => FullDirection(d)')
    BY <2>1, <2>2, <1>15, Sides
  <2>10. FramesInv'
    <3>1. \A s \in Side : Direction(s)'
      BY <2>8, <2>9, <1>2, <1>17
    <3>2. \A j \in 1 .. Len(queued'[Client]) : queued'[Client][j] <= tried'
      BY <2>2, <1>1, <1>7, Sides DEF FramesInv
    <3>3. ASSUME NEW j \in 1 .. Len(queued'[Server])
          PROVE  Has(taken'[Server], queued'[Server][j])
      <4>1. queued'[Server] \in Seq(Request) /\ queued[Server] \in Seq(Request)
        BY <2>2, <1>1, AheadIs, Sides
      <4>2. Has(queued[Server], queued'[Server][j]) \/ queued'[Server][j] = r
        BY <2>8, <4>1, HasIs
      <4>3. \A x : Has(queued[Server], x) => Has(taken[e], x)
        BY <4>1, <1>1, <1>17, HasIs DEF FramesInv
      <4> QED BY <4>2, <4>3, <1>12, <1>17
    <3> QED BY <3>1, <3>2, <3>3 DEF FramesInv
  <2>11. UncutInv'
    <3>1. ~cuts => \A s \in Side : FullDirection(s)'
      BY <2>8, <2>9, <1>1, <1>2, <1>17, Sides DEF UncutInv
    <3> QED BY <3>1, <1>7 DEF UncutInv
  <2> QED BY <2>4, <2>5, <2>6, <2>10, <2>11 DEF CodecInv
<1>18. CASE e = Client
  <2>1. UNCHANGED <<wbuf, woff, wanted, queued, serving>> /\ d = Server
    BY <1>7, <1>18, Sides DEF Respond, writing, d
  <2>2. BuffersInv'
    BY <2>1, <1>1, <1>7, <1>13, <1>14 DEF BuffersInv
  <2>3. FlagsInv'
    BY <2>1, <1>1, <1>7, Zenon DEF FlagsInv
  <2>4. WaitsInv'
    BY <2>1, <1>1, <1>16 DEF WaitsInv, NoLostWakeup
  <2>5. Direction(Client)' /\ (FullDirection(Client) => FullDirection(Client)')
    <3>1. rbuf'[Peer(Client)] = rbuf[Peer(Client)] /\ taken'[Peer(Client)] = taken[Peer(Client)]
      BY <1>9, <1>18, Sides
    <3> QED BY <2>1, <3>1, <1>1, <1>7, Sides, DirectionStays DEF FramesInv
  <2>6. Direction(d)' /\ (~cuts => FullDirection(d)')
    BY <2>1, <1>15
  <2>7. FramesInv'
    <3>1. \A s \in Side : Direction(s)'
      BY <2>5, <2>6, <1>2, <1>18
    <3>2. taken'[Server] = taken[Server]
      BY <1>9, <1>18, Sides
    <3> QED BY <2>1, <3>1, <3>2, <1>1, <1>7 DEF FramesInv
  <2>8. UncutInv'
    <3>1. ~cuts => \A s \in Side : FullDirection(s)'
      BY <2>5, <2>6, <1>1, <1>2, <1>18, Sides DEF UncutInv
    <3> QED BY <3>1, <1>7 DEF UncutInv
  <2> QED BY <2>2, <2>3, <2>4, <2>7, <2>8 DEF CodecInv
<1> QED BY <1>17, <1>18 DEF Side

\* What a drop loses is nothing where the stream is not cut.
LEMMA DropKeeps ==
  ASSUME CodecInv, NEW e \in Side, ShortHeader(e) \/ ShortPayload(e) \/ BadMagic(e)
  PROVE  CodecInv'
<1> DEFINE d == Peer(e)
<1>1. /\ BuffersInv /\ FlagsInv /\ NoLostWakeup /\ FramesInv /\ UncutInv
      /\ \A s \in Side : ~decoding[s] => rbuf[s] = <<>>
  BY DEF CodecInv, WaitsInv
<1>2. d \in Side /\ d # e /\ Peer(d) = e /\ \A s \in Side : s # d => s = e
  BY Sides
<1>3. /\ rbuf' = [rbuf EXCEPT ![e] = <<>>] /\ decoding' = [decoding EXCEPT ![e] = FALSE]
      /\ UNCHANGED <<wbuf, woff, wanted, pipe, serving, tried, cuts, queued, taken>>
  BY DEF ShortHeader, ShortPayload, BadMagic, Dropped, writing
<1>4. rbuf'[e] = <<>> /\ \A s \in Side : s # e => rbuf'[s] = rbuf[s]
  BY <1>1, <1>3 DEF BuffersInv
<1>5. <<>> \in Seq(Unit) /\ Len(<<>>) = 0 /\ ReadCap \in Nat \ {0}
  BY EmptySeq, LengthAssumption
<1>6. BuffersInv'
  BY <1>1, <1>3, <1>4, <1>5 DEF BuffersInv
<1>7. FlagsInv'
  BY <1>1, <1>3, Zenon DEF FlagsInv
<1>8. WaitsInv'
  <2>1. \A s \in Side : s # e => decoding'[s] = decoding[s]
    BY <1>1, <1>3, Zenon DEF FlagsInv
  <2> QED BY <2>1, <1>1, <1>3, <1>4 DEF WaitsInv, NoLostWakeup
<1>9. ~cuts => rbuf[e] = <<>>
  <2> SUFFICES ASSUME ~cuts, rbuf[e] # <<>> PROVE FALSE
    OBVIOUS
  <2>1. Complete(d, rbuf[e])
    BY <1>1, <1>2 DEF UncutInv, FullDirection, FullInv
  <2>2. rbuf[e] \in Seq(Unit) /\ Len(rbuf[e]) \in Nat
    BY <1>1, AheadIs, LenProperties
  <2>3. /\ rbuf[e][1].i = 1 /\ rbuf[e][1].frame \in Request
        /\ FrameLen(d, rbuf[e][1].frame) \in 1 .. Len(rbuf[e])
    BY <2>1, <2>2, <1>2, WholeFrame
  <2>4. FrameLen(d, rbuf[e][1].frame) >= HeaderLen /\ HeaderLen \in Nat
    BY <2>3, <1>2, FrameLenIs, LengthAssumption
  <2>5. Len(rbuf[e]) >= HeaderLen /\ ~(Len(rbuf[e]) < FrameLen(d, rbuf[e][1].frame))
    BY <2>2, <2>3, <2>4
  <2> QED BY <2>3, <2>5 DEF ShortHeader, ShortPayload, BadMagic, HasHeader, HasMagic, WantedLen
<1> HIDE DEF d
<1>10. Ahead(d)' = Ahead(d)
  BY <1>3 DEF Ahead
<1>11. Direction(d)'
  <2>1. DirInv(d, Ahead(d), rbuf[e], queued[d], taken[e])
    BY <1>1, <1>2 DEF FramesInv, Direction
  <2>2. DirInv(d, Ahead(d), <<>>, queued[d], taken[e])
    BY <2>1, <1>2, DirDrop
  <2> QED BY <2>2, <1>2, <1>3, <1>4, <1>10 DEF Direction
<1>12. ~cuts => FullDirection(d)'
  <2> HAVE ~cuts
  <2>1. FullInv(d, Ahead(d), <<>>, queued[d], taken[e])
    BY <1>1, <1>2, <1>9 DEF UncutInv, FullDirection
  <2> QED BY <2>1, <1>2, <1>3, <1>4, <1>10 DEF FullDirection
<1>13. Direction(e)' /\ (FullDirection(e) => FullDirection(e)')
  <2>1. rbuf'[Peer(e)] = rbuf[Peer(e)]
    BY <1>2, <1>4 DEF d
  <2> QED BY <2>1, <1>1, <1>3, DirectionStays DEF FramesInv
<1>14. FramesInv'
  <2>1. \A s \in Side : Direction(s)'
    BY <1>2, <1>11, <1>13
  <2> QED BY <2>1, <1>1, <1>3 DEF FramesInv
<1>15. UncutInv'
  <2>1. ~cuts => \A s \in Side : FullDirection(s)'
    BY <1>1, <1>2, <1>12, <1>13 DEF UncutInv
  <2> QED BY <2>1, <1>3 DEF UncutInv
<1> QED BY <1>6, <1>7, <1>8, <1>14, <1>15 DEF CodecInv

LEMMA CodecStays == ASSUME CodecInv, UNCHANGED codecVars PROVE CodecInv'
<1>1. /\ UNCHANGED <<wbuf, woff, wanted, pipe, rbuf, decoding, serving, tried, cuts>>
      /\ UNCHANGED <<queued, taken>>
  BY DEF codecVars, writing
<1>2. BuffersInv' /\ FlagsInv'
  BY <1>1, Zenon DEF CodecInv, BuffersInv, FlagsInv
<1>3. WaitsInv'
  BY <1>1, Zenon DEF CodecInv, WaitsInv, NoLostWakeup
<1>4. \A d \in Side : Direction(d)' = Direction(d) /\ FullDirection(d)' = FullDirection(d)
  BY <1>1 DEF Direction, FullDirection, Ahead
<1>5. FramesInv' /\ UncutInv'
  BY <1>1, <1>4 DEF CodecInv, FramesInv, UncutInv
<1> QED BY <1>2, <1>3, <1>5 DEF CodecInv

LEMMA CodecStep == CodecInv /\ [CodecNext]_codecVars => CodecInv'
<1> SUFFICES ASSUME CodecInv, [CodecNext]_codecVars PROVE CodecInv'
  OBVIOUS
<1>1. CASE SendRequest
  BY <1>1, SendRequestKeeps
<1>2. CASE \E d \in Side : \E n \in 1 .. WriteCap : Flush(d, n)
  BY <1>2, FlushKeeps
<1>3. CASE \E d \in Side : \E n \in 1 .. ReadCap : Receives(d, n)
  BY <1>3, ReceivesKeeps
<1>4. CASE \E d \in Side : Decode(d)
  BY <1>4, DecodeFrameKeeps, DropKeeps DEF Decode
<1>5. CASE UNCHANGED codecVars
  BY <1>5, CodecStays
<1> QED BY <1>1, <1>2, <1>3, <1>4, <1>5 DEF CodecNext

LEMMA CodecIsInv == CodecSpec => []CodecInv
BY InitCodec, CodecStep, PTL DEF CodecSpec

-----------------------------------------------------------------------------
(* What follows from it.                                                   *)

\* Whatever partial sends and responses meet in a writing, epoll is asked for
\* EPOLLOUT as long as something waits there: the one place that switches it
\* off, in ripc_send_data, does so only when the kernel took all of it.
THEOREM WakeupKept == CodecSpec => []NoLostWakeup
<1>1. CodecInv => NoLostWakeup
  BY DEF CodecInv, WaitsInv
<1> QED BY <1>1, CodecIsInv, PTL

\* However the kernel cuts the stream and whatever ends of it decode_process
\* throws away, the frames a side decodes are frames its peer queued, in their
\* order and none of them twice.
THEOREM FramesInOrder == CodecSpec => []InOrder
<1>1. CodecInv => InOrder
  <2> SUFFICES ASSUME CodecInv, NEW d \in Side, NEW i \in DOMAIN taken[d], NEW j \in DOMAIN taken[d]
               PROVE  /\ \E q \in DOMAIN queued[Peer(d)] : queued[Peer(d)][q] = taken[d][i]
                      /\ i < j => taken[d][i] < taken[d][j]
    BY DEF InOrder
  <2>1. taken[d] \in Seq(Request)
    BY AheadIs DEF CodecInv
  <2>2. i \in 1 .. Len(taken[d]) /\ j \in 1 .. Len(taken[d])
    BY <2>1, LenProperties
  <2>3. DirInv(Peer(d), Ahead(Peer(d)), rbuf[d], queued[Peer(d)], taken[d])
    BY Sides DEF CodecInv, FramesInv, Direction
  <2> QED BY <2>2, <2>3 DEF DirInv, Increasing, Has
<1> QED BY <1>1, CodecIsInv, PTL

LEMMA SameFrames ==
  ASSUME NEW p \in Seq(Request), NEW q \in Seq(Request), Increasing(p), Increasing(q),
         \A x : Has(p, x) <=> Has(q, x)
  PROVE  p = q
<1>1. Len(p) \in Nat /\ Len(q) \in Nat
  BY LenProperties
<1>2. Request \subseteq Nat
  BY LengthAssumption DEF Request
<1>3. (\A i \in 1 .. Len(p) : p[i] \in Nat) /\ (\A i \in 1 .. Len(q) : q[i] \in Nat)
  BY <1>2, ElementOfSeq
<1>4. /\ \A i \in 1 .. Len(p) : \E j \in 1 .. Len(q) : q[j] = p[i]
      /\ \A i \in 1 .. Len(q) : \E j \in 1 .. Len(p) : p[j] = q[i]
  BY HasIs
<1> DEFINE Both(i) == i \in 1 .. Len(p) /\ i \in 1 .. Len(q)
           T == {i \in Nat : Both(i) /\ p[i] # q[i]}
<1>5. T = {}
  <2> SUFFICES ASSUME T # {} PROVE FALSE
    OBVIOUS
  <2>1. PICK n \in T : \A i \in T : n <= i
    <3> HIDE DEF T
    <3> QED BY LeastExists DEF T
  <2>2. n \in 1 .. Len(p) /\ n \in 1 .. Len(q) /\ p[n] # q[n]
    BY <2>1
  <2>3. ASSUME NEW i \in 1 .. n - 1 PROVE i \in 1 .. Len(p) /\ i \in 1 .. Len(q) /\ p[i] = q[i]
    <3>1. i \in 1 .. Len(p) /\ i \in 1 .. Len(q) /\ i \in Nat /\ ~(n <= i)
      BY <2>2, <1>1
    <3> QED BY <2>1, <3>1
  <2>4. CASE p[n] < q[n]
    <3>1. PICK j \in 1 .. Len(q) : q[j] = p[n]
      BY <2>2, <1>4
    <3>2. CASE j < n
      <4>1. j \in 1 .. n - 1
        BY <3>2, <2>2, <1>1
      <4>2. p[j] = q[j] /\ j \in 1 .. Len(p)
        BY <4>1, <2>3
      <4>3. p[j] < p[n]
        BY <4>2, <3>2, <2>2 DEF Increasing
      <4> QED BY <4>2, <4>3, <3>1, <2>2, <1>3
    <3>3. CASE n < j
      <4>1. q[n] < q[j]
        BY <3>3, <2>2 DEF Increasing
      <4> QED BY <4>1, <3>1, <2>2, <2>4, <1>3
    <3> QED BY <3>1, <3>2, <3>3, <2>2, <1>1
  <2>5. CASE q[n] < p[n]
    <3>1. PICK j \in 1 .. Len(p) : p[j] = q[n]
      BY <2>2, <1>4
    <3>2. CASE j < n
      <4>1. j \in 1 .. n - 1
        BY <3>2, <2>2, <1>1
      <4>2. p[j] = q[j] /\ j \in 1 .. Len(q)
        BY <4>1, <2>3
      <4>3. q[j] < q[n]
        BY <4>2, <3>2, <2>2 DEF Increasing
      <4> QED BY <4>2, <4>3, <3>1, <2>2, <1>3
    <3>3. CASE n < j
      <4>1. p[n] < p[j]
        BY <3>3, <2>2 DEF Increasing
      <4> QED BY <4>1, <3>1, <2>2, <2>5, <1>3
    <3> QED BY <3>1, <3>2, <3>3, <2>2, <1>1
  <2> QED BY <2>2, <2>4, <2>5, <1>3
<1>6. \A i \in 1 .. Len(p) : i \in 1 .. Len(q) => p[i] = q[i]
  BY <1>5
<1>7. ~(Len(p) < Len(q))
  <2> SUFFICES ASSUME Len(p) < Len(q) PROVE FALSE
    OBVIOUS
  <2>1. Len(p) + 1 \in 1 .. Len(q)
    BY <1>1
  <2>2. PICK j \in 1 .. Len(p) : p[j] = q[Len(p) + 1]
    BY <2>1, <1>4
  <2>3. j \in 1 .. Len(q) /\ j < Len(p) + 1
    BY <2>2, <1>1
  <2>4. q[j] = p[j] /\ q[j] < q[Len(p) + 1]
    BY <2>1, <2>2, <2>3, <1>6 DEF Increasing
  <2> QED BY <2>1, <2>2, <2>3, <2>4, <1>3
<1>8. ~(Len(q) < Len(p))
  <2> SUFFICES ASSUME Len(q) < Len(p) PROVE FALSE
    OBVIOUS
  <2>1. Len(q) + 1 \in 1 .. Len(p)
    BY <1>1
  <2>2. PICK j \in 1 .. Len(q) : q[j] = p[Len(q) + 1]
    BY <2>1, <1>4
  <2>3. j \in 1 .. Len(p) /\ j < Len(q) + 1
    BY <2>2, <1>1
  <2>4. q[j] = p[j] /\ p[j] < p[Len(q) + 1]
    BY <2>1, <2>2, <2>3, <1>6 DEF Increasing
  <2> QED BY <2>1, <2>2, <2>3, <2>4, <1>3
<1>9. Len(p) = Len(q)
  BY <1>1, <1>7, <1>8
<1> QED BY <1>6, <1>9, SeqEqual

\* As long as no receive cuts a frame or fills the cache, nothing that
\* decode_process throws away is part of a frame: once the requests are all
\* received, those the server decoded are those the client queued.
THEOREM UncutIsWhole == CodecSpec => []AllDecodedUncut
<1>1. CodecInv => AllDecodedUncut
  <2> SUFFICES ASSUME CodecInv, ~cuts, Drained PROVE taken[Server] = queued[Client]
    BY DEF AllDecodedUncut, AllDecoded
  <2> DEFINE p == taken[Server]
             q == queued[Client]
  <2>1. p \in Seq(Request) /\ q \in Seq(Request)
    BY AheadIs, Sides DEF CodecInv
  <2>2. rbuf[Server] = <<>>
    BY Sides DEF CodecInv, WaitsInv, Drained
  <2>3. Ahead(Client) = <<>>
    BY ConcatEmptySeq, EmptySeq DEF Ahead, Drained
  <2>4. DirInv(Client, <<>>, <<>>, q, p)
    BY <2>2, <2>3, Sides DEF CodecInv, FramesInv, Direction
  <2>5. FullInv(Client, <<>>, <<>>, q, p)
    BY <2>2, <2>3, Sides DEF CodecInv, UncutInv, FullDirection
  <2> HIDE DEF p, q
  <2>6. \A j \in 1 .. Len(q) : Has(p, q[j])
    <3>1. \A x : ~BeginsIn(<<>>, x)
      BY DEF BeginsIn
    <3> QED BY <2>5, <3>1 DEF FullInv
  <2>7. \A j \in 1 .. Len(p) : Has(q, p[j])
    BY <2>4 DEF DirInv
  <2>8. \A x : Has(p, x) <=> Has(q, x)
    BY <2>1, <2>6, <2>7, HasIs
  <2>9. Increasing(p) /\ Increasing(q)
    BY <2>4 DEF DirInv
  <2>10. p = q
    BY <2>1, <2>8, <2>9, SameFrames
  <2> QED BY <2>10 DEF p, q
<1> QED BY <1>1, CodecIsInv, PTL

\* A write_buff holds no unit outside its block, a read_cache keeps the last
\* one of its own free, and no counter leaves its range.
THEOREM CodecTypeCorrect == CodecSpec => []CodecTypeOK
<1>1. CodecInv => CodecTypeOK
  <2> SUFFICES ASSUME CodecInv PROVE CodecTypeOK
    OBVIOUS
  <2>1. ASSUME NEW d \in Side PROVE woff[d] \in 0 .. WriteCap
    <3>1. woff[d] \in Nat /\ woff[d] + Len(wbuf[d]) <= WriteCap /\ Len(wbuf[d]) \in Nat /\ WriteCap \in Nat
      BY AheadIs, LenProperties, LengthAssumption DEF CodecInv, BuffersInv
    <3> QED BY <3>1
  <2>2. woff \in [Side -> 0 .. WriteCap]
    BY <2>1 DEF CodecInv, BuffersInv
  <2>3. /\ wanted \in [Side -> BOOLEAN] /\ decoding \in [Side -> BOOLEAN]
        /\ serving \in BOOLEAN /\ cuts \in BOOLEAN
    BY Zenon DEF CodecInv, FlagsInv
  <2> QED BY <2>2, <2>3, Zenon DEF CodecTypeOK, CodecInv, BuffersInv
<1> QED BY <1>1, CodecIsInv, PTL

\* Partial sends repeat, skip and interleave nothing: what is still in the
\* writing and in the stream are the last units of the frames that were queued.
THEOREM StreamIsIntact == CodecSpec => []StreamIntact
<1>1. CodecInv => \A d \in Side : IsSuffix(pipe[d] \o wbuf[d], Stream(d))
  <2> SUFFICES ASSUME CodecInv, NEW d \in Side PROVE IsSuffix(Ahead(d), Stream(d))
    BY DEF Ahead
  <2>1. Ends(Ahead(d), Whole(d, queued[d]))
    BY DEF CodecInv, FramesInv, Direction, DirInv
  <2>2. Stream(d) = Whole(d, queued[d])
    BY DEF Stream, Whole
  <2>3. Ahead(d) \in Seq(Unit)
    BY AheadIs DEF CodecInv
  <2> QED BY <2>1, <2>2, <2>3, EndsIsSuffix
<1>2. CodecInv /\ CodecTypeOK => StreamIntact
  BY <1>1 DEF StreamIntact
<1> QED BY <1>2, CodecIsInv, CodecTypeCorrect, PTL
=============================================================================
