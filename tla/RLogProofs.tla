----------------------------- MODULE RLogProofs ------------------------------
(***************************************************************************)
(* Theorems about RLog, for every set of threads and levels, every limit   *)
(* of a file, and mutexes that may be locked again or not.                 *)
(***************************************************************************)
EXTENDS RLog, FiniteSetTheorems, SequenceTheorems, TLAPS

-----------------------------------------------------------------------------
(* The inductive invariant.                                                *)

\* Where a call can have come from: a user, the message of a flush, a printf
\* that rolls, or a printf that rolls inside a flush.
FromUser == <<>>
FromFlush == <<"flushed">>
FromPrint == <<"unlock">>
FromBoth == <<"unlock", "flushed">>

Places == {"idle", "format", "lock", "write", "unlock", "out",
           "roll", "flush", "build", "to_flush", "flushed"}

ThreadsInv ==
  /\ pc \in [Thread -> Places]
  /\ DOMAIN back = Thread
  /\ cur \in [Thread -> [level : Level, line : Line]]
  /\ calls \in [Thread -> 0 .. MaxCalls]
  /\ \A t \in Thread :
       /\ pc[t] \in {"idle", "to_flush", "flushed"} => back[t] = FromUser
       /\ pc[t] \in {"format", "lock", "write", "unlock", "out"} => back[t] \in {FromUser, FromFlush}
       /\ pc[t] \in {"roll", "flush", "build"} => back[t] \in {FromUser, FromPrint, FromBoth}
       /\ cur[t].line[2] <= calls[t] + IF pc[t] = "to_flush" THEN 0 ELSE 1

\* How often a thread has locked the mutex: once at the places in between, and
\* once for every call it is nested in.
Owns(p) == IF p \in {"write", "unlock", "flush", "build", "flushed"} THEN 1 ELSE 0
Held(t) == Owns(pc[t]) + Len(back[t])

MutexInv ==
  /\ owner = {} \/ \E t \in Thread : owner = {t}
  /\ depth \in Nat /\ (depth = 0 <=> owner = {})
  /\ \A t \in Thread : Held(t) = IF t \in owner THEN depth ELSE 0

\* The file every level writes to.
Current == file[InfoLevel]

\* A pair for every line the levels wrote since the file was opened.
WrittenIn(sz) == {u \in Level \X Nat : 1 <= u[2] /\ u[2] <= sz[u[1]]}
Written == WrittenIn(size)

Limit == Cardinality(Level) * SizeMax + 1

\* A level is over its limit only while the call that wrote the last line is on
\* its way to close the file.
Due(t, l) == pc[t] \in {"roll", "flush"} /\ back[t] # FromUser /\ cur[t].level = l

FilesInv ==
  /\ state \in {"working", "roll_file"}
  /\ state = "roll_file" <=> \E t \in Thread : pc[t] \in {"flush", "build"}
  /\ \A t \in Thread : pc[t] = "build" => Current = NoFile
  /\ files \in Seq(Nat)
  /\ file \in [Level -> {NoFile} \cup DOMAIN files]
  /\ \A l \in Level : file[l] = Current
  /\ open = {Current} \ {NoFile}
  /\ size \in [Level -> Nat]
  /\ \A l \in Level : \/ size[l] <= SizeMax
                      \/ size[l] = SizeMax + 1 /\ \E t \in Thread : Due(t, l)
  /\ Current = NoFile => \A l \in Level : size[l] = 0
  /\ Current # NoFile => IsFiniteSet(Written) /\ files[Current] = Cardinality(Written)
  /\ \A f \in DOMAIN files : files[f] <= Limit

\* The calls of rlog_printf that own the buffer of their level.
InPrintf(t) == \/ pc[t] \in {"format", "lock", "write", "unlock", "out"}
               \/ pc[t] \in {"roll", "flush", "build"} /\ back[t] # FromUser

BuffersInv ==
  /\ buf \in [Level -> [line : Line \cup {NoLine}, whole : BOOLEAN]]
  /\ clash \in BOOLEAN /\ wild \in BOOLEAN
  /\ ~clash => \A t \in Thread : InPrintf(t) =>
       /\ \A u \in Thread \ {t} : InPrintf(u) => cur[u].level # cur[t].level
       /\ buf[cur[t].level] = IF pc[t] = "format" THEN Half(cur[t].line) ELSE Whole(cur[t].line)

LogInv == ThreadsInv /\ MutexInv /\ FilesInv /\ BuffersInv

-----------------------------------------------------------------------------
(* Calls, returns and the mutex.                                           *)

LEMMA Backs ==
  /\ Len(FromUser) = 0 /\ Len(FromFlush) = 1 /\ Len(FromPrint) = 1 /\ Len(FromBoth) = 2
  /\ FromFlush # FromUser /\ FromPrint # FromUser /\ FromBoth # FromUser
  /\ Head(FromFlush) = "flushed" /\ Tail(FromFlush) = FromUser
  /\ Head(FromPrint) = "unlock" /\ Tail(FromPrint) = FromUser
  /\ Head(FromBoth) = "unlock" /\ Tail(FromBoth) = FromFlush
  /\ <<"unlock">> \o FromUser = FromPrint /\ <<"unlock">> \o FromFlush = FromBoth
  /\ <<"flushed">> \o FromUser = FromFlush
<1>1. Len(FromUser) = 0 /\ Len(FromFlush) = 1 /\ Len(FromPrint) = 1 /\ Len(FromBoth) = 2
  BY DEF FromUser, FromFlush, FromPrint, FromBoth
<1>2. /\ Head(FromFlush) = "flushed" /\ Tail(FromFlush) = FromUser
      /\ Head(FromPrint) = "unlock" /\ Tail(FromPrint) = FromUser
  BY DEF FromUser, FromFlush, FromPrint
<1>3. Head(FromBoth) = "unlock" /\ Tail(FromBoth) = FromFlush
  BY DEF FromBoth, FromFlush
<1>4. /\ <<"unlock">> \o FromUser = FromPrint
      /\ <<"flushed">> \o FromUser = FromFlush
  BY DEF FromUser, FromFlush, FromPrint
<1>5. <<"unlock">> \o FromFlush = FromBoth
  <2> DEFINE S == {"unlock", "flushed"}
             a == <<"unlock">> \o <<"flushed">>
             b == <<"unlock", "flushed">>
  <2>1. a \in Seq(S) /\ Len(a) = 2 /\ a[1] = "unlock" /\ a[2] = "flushed"
    <3>1. <<"unlock">> \in Seq(S) /\ <<"flushed">> \in Seq(S)
      OBVIOUS
    <3>2. /\ a \in Seq(S) /\ Len(a) = Len(<<"unlock">>) + Len(<<"flushed">>)
          /\ \A i \in 1 .. Len(<<"unlock">>) + Len(<<"flushed">>) :
               a[i] = IF i <= Len(<<"unlock">>) THEN <<"unlock">>[i]
                      ELSE <<"flushed">>[i - Len(<<"unlock">>)]
      <4> HIDE DEF S
      <4> QED BY <3>1, ConcatProperties
    <3>3. Len(<<"unlock">>) = 1 /\ Len(<<"flushed">>) = 1
      OBVIOUS
    <3> HIDE DEF a, S
    <3> QED BY <3>2, <3>3
  <2>2. b \in Seq(S) /\ Len(b) = 2 /\ b[1] = "unlock" /\ b[2] = "flushed"
    <3>1. b \in Seq(S)
      OBVIOUS
    <3>2. Len(b) = 2
      OBVIOUS
    <3>3. b[1] = "unlock" /\ b[2] = "flushed"
      OBVIOUS
    <3> QED BY <3>1, <3>2, <3>3
  <2> HIDE DEF a, b
  <2>3. \A i \in 1 .. 2 : a[i] = b[i]
    <3>1. \A i \in 1 .. 2 : i = 1 \/ i = 2
      OBVIOUS
    <3> QED BY <2>1, <2>2, <3>1
  <2>4. a = b
    BY <2>1, <2>2, <2>3, SeqEqual
  <2> QED BY <2>4 DEF FromFlush, FromBoth, a, b
<1> QED BY <1>1, <1>2, <1>3, <1>4, <1>5

\* Where a call that returns goes on, and what it still holds there.
LEMMA Returning ==
  ASSUME ThreadsInv, NEW t \in Thread, Return(t)
  PROVE  /\ pc' = [pc EXCEPT ![t] = pc'[t]] /\ DOMAIN back' = Thread
         /\ \A u \in Thread \ {t} : pc'[u] = pc[u] /\ back'[u] = back[u]
         /\ back[t] = FromUser => pc'[t] = "idle" /\ back'[t] = FromUser
         /\ back[t] = FromFlush => pc'[t] = "flushed" /\ back'[t] = FromUser
         /\ back[t] = FromPrint => pc'[t] = "unlock" /\ back'[t] = FromUser
         /\ back[t] = FromBoth => pc'[t] = "unlock" /\ back'[t] = FromFlush
<1>1. pc \in [Thread -> Places] /\ DOMAIN back = Thread
  BY DEF ThreadsInv
<1>2. CASE back[t] = FromUser
  BY <1>1, <1>2, Backs DEF Return, Goto, FromUser
<1>3. CASE back[t] # FromUser
  <2>1. /\ pc' = [pc EXCEPT ![t] = Head(back[t])]
        /\ back' = [back EXCEPT ![t] = Tail(back[t])]
    BY <1>3 DEF Return, Goto, FromUser
  <2> QED BY <1>1, <1>3, <2>1, Backs
<1> QED BY <1>2, <1>3

LEMMA HeldType ==
  ASSUME ThreadsInv, NEW t \in Thread
  PROVE  /\ Len(back[t]) \in 0 .. 2 /\ Owns(pc[t]) \in {0, 1} /\ Held(t) \in Nat
         /\ Held(t) = 0 => Owns(pc[t]) = 0 /\ back[t] = FromUser
<1>1. back[t] \in {FromUser, FromFlush, FromPrint, FromBoth}
  BY DEF ThreadsInv, Places
<1>2. Len(back[t]) \in 0 .. 2 /\ (Len(back[t]) = 0 => back[t] = FromUser)
  BY <1>1, Backs
<1>3. Owns(pc[t]) \in {0, 1}
  BY DEF Owns
<1> QED BY <1>2, <1>3 DEF Held

\* While a thread may lock the mutex, no other is in between.
LEMMA OthersOut ==
  ASSUME ThreadsInv, MutexInv, NEW t \in Thread, CanLock(t) \/ Held(t) > 0
  PROVE  /\ owner \subseteq {t}
         /\ \A u \in Thread \ {t} :
              /\ pc[u] \notin {"write", "unlock", "flush", "build", "flushed"}
              /\ back[u] = FromUser /\ Held(u) = 0
<1>1. owner = {} \/ owner = {t}
  <2>1. CASE CanLock(t)
    BY <2>1 DEF CanLock
  <2>2. CASE Held(t) > 0
    BY <2>2 DEF MutexInv
  <2> QED BY <2>1, <2>2
<1>2. \A u \in Thread \ {t} : Held(u) = 0
  BY <1>1 DEF MutexInv
<1> QED BY <1>1, <1>2, HeldType DEF Owns

\* A thread moves, locks or unlocks: the mutex counts what the threads hold.
LEMMA MutexMoves ==
  ASSUME ThreadsInv, ThreadsInv', MutexInv, NEW t \in Thread,
         \A u \in Thread \ {t} : pc'[u] = pc[u] /\ back'[u] = back[u],
         \/ UNCHANGED mutex /\ Owns(pc'[t]) + Len(back'[t]) = Held(t)
         \/ Lock(t) /\ Owns(pc'[t]) + Len(back'[t]) = Held(t) + 1
         \/ Unlock /\ Owns(pc'[t]) + Len(back'[t]) = Held(t) - 1 /\ Held(t) > 0
  PROVE  MutexInv'
<1>1. Held(t)' = Owns(pc'[t]) + Len(back'[t]) /\ \A u \in Thread \ {t} : Held(u)' = Held(u)
  BY DEF Held
<1>2. Held(t) \in Nat /\ depth \in Nat
  BY HeldType DEF MutexInv
<1> DEFINE h(u) == Held(u)'
<1>3. /\ owner' = {} \/ \E u \in Thread : owner' = {u}
      /\ depth' \in Nat /\ (depth' = 0 <=> owner' = {})
      /\ \A u \in Thread : h(u) = IF u \in owner' THEN depth' ELSE 0
  <2>1. CASE UNCHANGED mutex /\ Owns(pc'[t]) + Len(back'[t]) = Held(t)
    BY <1>1, <2>1 DEF MutexInv, mutex
  <2>2. CASE Lock(t) /\ Owns(pc'[t]) + Len(back'[t]) = Held(t) + 1
    <3>1. owner' = {t} /\ depth' = depth + 1 /\ owner \subseteq {t}
      BY <2>2, OthersOut DEF Lock
    <3>2. h(t) = depth'
      BY <1>1, <1>2, <2>2, <3>1 DEF MutexInv
    <3>3. \A u \in Thread \ {t} : h(u) = 0
      BY <1>1, <2>2, OthersOut DEF Lock
    <3> QED BY <1>2, <3>1, <3>2, <3>3
  <2>3. CASE Unlock /\ Owns(pc'[t]) + Len(back'[t]) = Held(t) - 1 /\ Held(t) > 0
    <3>1. owner = {t} /\ depth = Held(t)
      BY <2>3 DEF MutexInv
    <3>2. depth' = depth - 1 /\ owner' = IF depth = 1 THEN {} ELSE {t}
      BY <2>3, <3>1 DEF Unlock
    <3>3. \A u \in Thread \ {t} : h(u) = 0
      BY <1>1, <2>3, OthersOut
    <3> QED BY <1>1, <1>2, <2>3, <3>1, <3>2, <3>3
  <2> QED BY <2>1, <2>2, <2>3
<1> QED BY <1>3 DEF MutexInv

\* Steps away from the file and the roll leave the files as they are.
LEMMA FilesStay ==
  ASSUME FilesInv, NEW t \in Thread, UNCHANGED <<state, disk>>,
         \A u \in Thread \ {t} : pc'[u] = pc[u] /\ back'[u] = back[u] /\ cur'[u] = cur[u],
         \/ pc[t] \notin {"roll", "flush", "build"} /\ pc'[t] \notin {"flush", "build"}
         \/ pc'[t] = pc[t] /\ back'[t] = back[t] /\ cur'[t] = cur[t]
  PROVE  FilesInv'
<1>1. UNCHANGED <<state, file, open, files, size>> /\ Current' = Current /\ Written' = Written
  BY DEF disk, Current, Written, WrittenIn
<1>2. \A u \in Thread, l \in Level : Due(u, l) => Due(u, l)'
  BY DEF Due
<1>3. \A u \in Thread : /\ pc[u] \in {"flush", "build"} <=> pc'[u] \in {"flush", "build"}
                        /\ pc[u] = "build" <=> pc'[u] = "build"
  OBVIOUS
<1>4. \A l \in Level : \/ size'[l] <= SizeMax
                       \/ size'[l] = SizeMax + 1 /\ \E u \in Thread : Due(u, l)'
  BY <1>1, <1>2 DEF FilesInv
<1> QED BY <1>1, <1>3, <1>4 DEF FilesInv

-----------------------------------------------------------------------------
(* Counting lines.                                                         *)

LEMMA NothingWritten ==
  ASSUME NEW sz, \A l \in Level : sz[l] = 0
  PROVE  IsFiniteSet(WrittenIn(sz)) /\ Cardinality(WrittenIn(sz)) = 0
<1>1. WrittenIn(sz) = {}
  BY DEF WrittenIn
<1> QED BY <1>1, FS_EmptySet

LEMMA WrittenGrows ==
  ASSUME NEW sz \in [Level -> Nat], IsFiniteSet(WrittenIn(sz)), NEW l \in Level,
         NEW sz1, sz1 = [sz EXCEPT ![l] = @ + 1]
  PROVE  IsFiniteSet(WrittenIn(sz1)) /\ Cardinality(WrittenIn(sz1)) = Cardinality(WrittenIn(sz)) + 1
<1> DEFINE x == <<l, sz[l] + 1>>
<1>1. \A k \in Level : sz1[k] = IF k = l THEN sz[l] + 1 ELSE sz[k]
  OBVIOUS
<1>2. WrittenIn(sz1) = WrittenIn(sz) \cup {x}
  <2>1. ASSUME NEW u \in WrittenIn(sz1) PROVE u \in WrittenIn(sz) \cup {x}
    <3>1. PICK k \in Level, n \in Nat : u = <<k, n>>
      BY DEF WrittenIn
    <3>2. 1 <= n /\ n <= sz1[k]
      BY <3>1 DEF WrittenIn
    <3>3. CASE k = l /\ n = sz[l] + 1
      BY <3>1, <3>3
    <3>4. CASE ~(k = l /\ n = sz[l] + 1)
      <4>1. n <= sz[k]
        BY <1>1, <3>2, <3>4
      <4> QED BY <3>1, <3>2, <4>1 DEF WrittenIn
    <3> QED BY <3>3, <3>4
  <2>2. ASSUME NEW u \in WrittenIn(sz) PROVE u \in WrittenIn(sz1)
    <3>1. PICK k \in Level, n \in Nat : u = <<k, n>>
      BY DEF WrittenIn
    <3>2. 1 <= n /\ n <= sz[k]
      BY <3>1 DEF WrittenIn
    <3>3. n <= sz1[k]
      BY <1>1, <3>2
    <3> QED BY <3>1, <3>2, <3>3 DEF WrittenIn
  <2>3. x \in WrittenIn(sz1)
    BY <1>1 DEF WrittenIn
  <2> QED BY <2>1, <2>2, <2>3
<1>3. x \notin WrittenIn(sz)
  BY DEF WrittenIn
<1>4. /\ IsFiniteSet(WrittenIn(sz) \cup {x})
      /\ Cardinality(WrittenIn(sz) \cup {x}) =
           IF x \in WrittenIn(sz) THEN Cardinality(WrittenIn(sz))
                                 ELSE Cardinality(WrittenIn(sz)) + 1
  <2> DEFINE W == WrittenIn(sz)
  <2> HIDE DEF W, x
  <2>1. IsFiniteSet(W)
    BY DEF W
  <2>2. /\ IsFiniteSet(W \cup {x})
        /\ Cardinality(W \cup {x}) = IF x \in W THEN Cardinality(W) ELSE Cardinality(W) + 1
    BY ONLY <2>1, FS_AddElement
  <2> QED BY <2>2 DEF W
<1> HIDE DEF x
<1> QED BY <1>2, <1>3, <1>4

\* Only one level is over its limit, by one line.
LEMMA WrittenBounded ==
  ASSUME NEW sz \in [Level -> Nat], NEW k \in Level, sz[k] <= SizeMax + 1,
         \A l \in Level \ {k} : sz[l] <= SizeMax
  PROVE  IsFiniteSet(WrittenIn(sz)) /\ Cardinality(WrittenIn(sz)) <= Limit
<1> DEFINE box == Level \X (1 .. SizeMax)
           x == <<k, SizeMax + 1>>
<1>1. SizeMax \in Nat /\ IsFiniteSet(Level)
  BY LogAssumption
<1>2. IsFiniteSet(1 .. SizeMax) /\ Cardinality(1 .. SizeMax) = SizeMax
  <2>1. IsFiniteSet(1 .. SizeMax)
        /\ Cardinality(1 .. SizeMax) = IF 1 > SizeMax THEN 0 ELSE SizeMax - 1 + 1
    <3>1. 1 \in Int /\ SizeMax \in Int
      BY <1>1
    <3> QED BY ONLY <3>1, FS_Interval
  <2> QED BY <1>1, <2>1
<1>3. IsFiniteSet(box) /\ Cardinality(box) = Cardinality(Level) * SizeMax
  BY <1>1, <1>2, FS_Product
<1>4. IsFiniteSet(box \cup {x}) /\ Cardinality(box \cup {x}) <= Cardinality(box) + 1
  <2>1. Cardinality(box) \in Nat
    BY <1>3, FS_CardinalityType
  <2> HIDE DEF box, x
  <2>2. IsFiniteSet(box \cup {x})
        /\ Cardinality(box \cup {x}) = IF x \in box THEN Cardinality(box) ELSE Cardinality(box) + 1
    BY <1>3, FS_AddElement
  <2> QED BY <2>1, <2>2
<1>5. WrittenIn(sz) \subseteq box \cup {x}
  <2> SUFFICES ASSUME NEW u \in WrittenIn(sz) PROVE u \in box \cup {x}
    OBVIOUS
  <2>1. PICK l \in Level, n \in Nat : u = <<l, n>>
    BY DEF WrittenIn
  <2>2. 1 <= n /\ n <= sz[l]
    BY <2>1 DEF WrittenIn
  <2>3. CASE n <= SizeMax
    BY <1>1, <2>1, <2>2, <2>3
  <2>4. CASE ~(n <= SizeMax)
    <3>1. sz[l] \in Nat /\ sz[l] > SizeMax
      BY <1>1, <2>2, <2>4
    <3>2. l = k
      BY <1>1, <3>1
    <3>3. n = SizeMax + 1
      BY <1>1, <2>2, <2>4, <3>1, <3>2
    <3> QED BY <2>1, <3>2, <3>3
  <2> QED BY <2>3, <2>4
<1> HIDE DEF box, x
<1>6. IsFiniteSet(WrittenIn(sz)) /\ Cardinality(WrittenIn(sz)) <= Cardinality(box \cup {x})
  BY <1>4, <1>5, FS_Subset
<1>7. Cardinality(WrittenIn(sz)) \in Nat /\ Cardinality(box \cup {x}) \in Nat /\ Cardinality(box) \in Nat
  BY <1>3, <1>4, <1>6, FS_CardinalityType
<1> QED BY <1>3, <1>4, <1>6, <1>7 DEF Limit

LEMMA LimitType == Limit \in Nat /\ 0 <= Limit
<1>1. Cardinality(Level) \in Nat /\ SizeMax \in Nat
  BY LogAssumption, FS_CardinalityType
<1>2. Cardinality(Level) * SizeMax \in Nat
  BY <1>1
<1> QED BY <1>2 DEF Limit

-----------------------------------------------------------------------------
(* Buffers.                                                                *)

LEMMA BuffersStay ==
  ASSUME BuffersInv, NEW t \in Thread, UNCHANGED <<buf, clash>>, wild' \in BOOLEAN,
         \A u \in Thread \ {t} : pc'[u] = pc[u] /\ back'[u] = back[u] /\ cur'[u] = cur[u],
         InPrintf(t)' => /\ InPrintf(t) /\ cur'[t] = cur[t]
                         /\ pc'[t] = "format" <=> pc[t] = "format"
  PROVE  BuffersInv'
<1>1. \A u \in Thread : InPrintf(u)' => InPrintf(u) /\ cur'[u] = cur[u]
                                        /\ (pc'[u] = "format" <=> pc[u] = "format")
  BY DEF InPrintf
<1> QED BY <1>1 DEF BuffersInv, Half, Whole

\* vsnprintf begins: it is a clash if another call is anywhere between there
\* and the console.
LEMMA FormatBegins ==
  ASSUME LogInv, NEW t \in Thread, NEW l \in Level, FormatBegin(t, l),
         pc[t] \in {"idle", "to_flush"}, cur'[t].line \in Line,
         \A u \in Thread \ {t} : back'[u] = back[u]
  PROVE  BuffersInv'
<1> DEFINE line == cur'[t].line
<1>1. /\ cur' = [cur EXCEPT ![t] = [level |-> l, line |-> line]]
      /\ buf' = [buf EXCEPT ![l] = Half(line)]
      /\ pc' = [pc EXCEPT ![t] = "format"] /\ wild' = wild
      /\ clash' = (clash \/ Printing(l) \ {t} # {})
  BY DEF FormatBegin, Goto, LogInv, ThreadsInv
<1> HIDE DEF line
<1>2. pc \in [Thread -> Places] /\ cur \in [Thread -> [level : Level, line : Line]]
  BY DEF LogInv, ThreadsInv
<1>3. clash' \in BOOLEAN /\ (~clash' => ~clash /\ Printing(l) \ {t} = {})
  BY <1>1, Zenon
<1>4. buf' \in [Level -> [line : Line \cup {NoLine}, whole : BOOLEAN]]
  BY <1>1 DEF LogInv, BuffersInv, Half, line
<1>5. \A u \in Thread \ {t} : pc'[u] = pc[u] /\ cur'[u] = cur[u] /\ (InPrintf(u)' <=> InPrintf(u))
  BY <1>1, <1>2 DEF InPrintf
<1>6. cur'[t].level = l /\ cur'[t].line = line /\ pc'[t] = "format"
  BY <1>1, <1>2
<1>7. ~InPrintf(t)
  BY DEF InPrintf
<1>8. ASSUME ~clash' PROVE \A u \in Thread \ {t} : InPrintf(u) => cur[u].level # l
  BY <1>3, <1>8 DEF Printing, InPrintf
<1>9. ASSUME ~clash', NEW u \in Thread, InPrintf(u)'
      PROVE  /\ \A v \in Thread \ {u} : InPrintf(v)' => cur'[v].level # cur'[u].level
             /\ buf'[cur'[u].level] = IF pc'[u] = "format" THEN Half(cur'[u].line)
                                                          ELSE Whole(cur'[u].line)
  <2>1. CASE u = t
    BY <2>1, <1>1, <1>5, <1>6, <1>8, <1>9 DEF LogInv, BuffersInv
  <2>2. CASE u # t
    <3>1. cur[u].level # l /\ InPrintf(u) /\ pc'[u] = pc[u] /\ cur'[u] = cur[u]
      BY <2>2, <1>5, <1>8, <1>9
    <3>2. buf'[cur[u].level] = buf[cur[u].level]
      BY <3>1, <1>1, <1>2 DEF LogInv, BuffersInv
    <3> QED BY <2>2, <3>1, <3>2, <1>3, <1>5, <1>6, <1>9 DEF LogInv, BuffersInv, Half, Whole
  <2> QED BY <2>1, <2>2
<1> QED BY <1>1, <1>3, <1>4, <1>9 DEF BuffersInv, LogInv, Half, Whole

-----------------------------------------------------------------------------
(* The steps that touch the file.                                          *)

\* While a thread holds the mutex at a place other than the roll, nobody rolls.
LEMMA NobodyRolls ==
  ASSUME LogInv, NEW t \in Thread, CanLock(t) \/ Held(t) > 0,
         pc[t] \notin {"flush", "build"}
  PROVE  state = "working" /\ \A u \in Thread : pc[u] \notin {"flush", "build"}
BY OthersOut DEF LogInv, FilesInv

LEMMA WriteFiles ==
  ASSUME LogInv, NEW t \in Thread, Write(t)
  PROVE  FilesInv' /\ cur' = cur /\ (\A u \in Thread \ {t} : pc'[u] = pc[u] /\ back'[u] = back[u])
         /\ DOMAIN back' = Thread
         /\ \/ pc'[t] = "roll" /\ back[t] = FromUser /\ back'[t] = FromPrint
            \/ pc'[t] = "roll" /\ back[t] = FromFlush /\ back'[t] = FromBoth
            \/ pc'[t] = "unlock" /\ back'[t] = back[t]
<1> DEFINE l == cur[t].level
           s == size[l] + 1
<1>1. /\ pc[t] = "write" /\ file[l] \in open
      /\ files' = [files EXCEPT ![file[l]] = @ + 1]
      /\ size' = [size EXCEPT ![l] = s]
      /\ UNCHANGED <<state, file, open, cur>>
      /\ IF s > SizeMax /\ state = "working"
         THEN pc' = [pc EXCEPT ![t] = "roll"] /\ back' = [back EXCEPT ![t] = <<"unlock">> \o back[t]]
         ELSE pc' = [pc EXCEPT ![t] = "unlock"] /\ back' = back
  BY DEF Write, Goto
<1>2. l \in Level /\ pc \in [Thread -> Places] /\ DOMAIN back = Thread
      /\ back[t] \in {FromUser, FromFlush}
  BY <1>1 DEF LogInv, ThreadsInv
<1>3. Held(t) > 0
  BY <1>1, HeldType DEF LogInv, Held, Owns
<1>4. state = "working" /\ \A u \in Thread : pc[u] \notin {"flush", "build"}
  BY <1>1, <1>3, NobodyRolls
<1>5. \A u \in Thread \ {t} : back[u] = FromUser
  BY <1>3, OthersOut DEF LogInv
<1>6. Current = file[l] /\ Current # NoFile /\ Current \in DOMAIN files /\ files \in Seq(Nat)
      /\ size \in [Level -> Nat] /\ IsFiniteSet(Written) /\ files[Current] = Cardinality(Written)
      /\ SizeMax \in Nat
  BY <1>1, <1>2, LogAssumption DEF LogInv, FilesInv, Current
<1>7. \A k \in Level : size[k] <= SizeMax
  BY <1>1, <1>5 DEF LogInv, FilesInv, Due
<1> HIDE DEF l
<1>8. \A k \in Level : size'[k] = IF k = l THEN s ELSE size[k]
  BY <1>1, <1>6
<1>9. size' \in [Level -> Nat] /\ s <= SizeMax + 1 /\ s \in Nat
  BY <1>1, <1>2, <1>6, <1>7
<1>10. IsFiniteSet(Written') /\ Cardinality(Written') = Cardinality(Written) + 1
  BY <1>1, <1>2, <1>6, WrittenGrows DEF Written
<1>11. Cardinality(Written') <= Limit
  <2>1. size'[l] <= SizeMax + 1 /\ \A k \in Level \ {l} : size'[k] <= SizeMax
    BY <1>2, <1>7, <1>8, <1>9
  <2> QED BY <1>2, <1>9, <2>1, WrittenBounded DEF Written
<1>12. /\ files' \in Seq(Nat) /\ DOMAIN files' = DOMAIN files
       /\ files'[Current] = Cardinality(Written')
       /\ \A f \in DOMAIN files : files'[f] <= Limit
  <2>1. files' = [files EXCEPT ![Current] = files[Current] + 1]
    BY <1>1, <1>6
  <2>2. files[Current] + 1 \in Nat /\ files[Current] + 1 = Cardinality(Written')
    BY <1>6, <1>10
  <2>3. files' \in Seq(Nat) /\ DOMAIN files' = DOMAIN files
        /\ \A f \in DOMAIN files : files'[f] = IF f = Current THEN files[Current] + 1 ELSE files[f]
    <3> DEFINE c == Current
               y == files[Current] + 1
    <3>1. files' = [files EXCEPT ![c] = y] /\ c \in DOMAIN files /\ y \in Nat
      BY <1>6, <2>1, <2>2
    <3> HIDE DEF c, y
    <3>2. files' \in Seq(Nat) /\ DOMAIN files' = DOMAIN files
          /\ \A f \in DOMAIN files : files'[f] = IF f = c THEN y ELSE files[f]
      BY <1>6, <3>1
    <3> QED BY <3>2 DEF c, y
  <2> QED BY <1>6, <1>11, <2>2, <2>3 DEF LogInv, FilesInv
<1>13. /\ \A u \in Thread \ {t} : pc'[u] = pc[u] /\ back'[u] = back[u]
       /\ DOMAIN back' = Thread
       /\ \/ pc'[t] = "roll" /\ back[t] = FromUser /\ back'[t] = FromPrint /\ s > SizeMax
          \/ pc'[t] = "roll" /\ back[t] = FromFlush /\ back'[t] = FromBoth /\ s > SizeMax
          \/ pc'[t] = "unlock" /\ back'[t] = back[t] /\ s <= SizeMax
  <2>1. CASE s > SizeMax
    <3>1. pc' = [pc EXCEPT ![t] = "roll"] /\ back' = [back EXCEPT ![t] = <<"unlock">> \o back[t]]
      BY <1>1, <1>4, <2>1
    <3> QED BY <1>2, <2>1, <3>1, Backs
  <2>2. CASE ~(s > SizeMax)
    <3>1. pc' = [pc EXCEPT ![t] = "unlock"] /\ back' = back
      BY <1>1, <2>2
    <3> QED BY <1>2, <1>6, <1>9, <2>2, <3>1
  <2> QED BY <2>1, <2>2
<1>14. \A k \in Level : \/ size'[k] <= SizeMax
                        \/ size'[k] = SizeMax + 1 /\ \E u \in Thread : Due(u, k)'
  <2> SUFFICES ASSUME NEW k \in Level, ~(size'[k] <= SizeMax)
               PROVE  size'[k] = SizeMax + 1 /\ \E u \in Thread : Due(u, k)'
    OBVIOUS
  <2>1. k = l /\ s > SizeMax
    BY <1>6, <1>7, <1>8, <1>9
  <2>2. s = SizeMax + 1
    BY <1>6, <1>9, <2>1
  <2>3. pc'[t] = "roll" /\ back'[t] # FromUser
    BY <1>6, <1>9, <1>13, <2>1, Backs
  <2>4. Due(t, k)'
    BY <1>1, <2>1, <2>3 DEF Due, l
  <2> QED BY <1>8, <2>1, <2>2, <2>4
<1>15. \A u \in Thread : pc'[u] \notin {"flush", "build"}
  BY <1>4, <1>13
<1>16. Current' = Current
  BY <1>1 DEF Current
<1>17. FilesInv'
  BY <1>1, <1>4, <1>6, <1>9, <1>10, <1>12, <1>14, <1>15, <1>16 DEF LogInv, FilesInv
<1> QED BY <1>1, <1>13, <1>17

LEMMA RollLockFiles ==
  ASSUME LogInv, NEW t \in Thread, RollLock(t)
  PROVE  FilesInv' /\ Lock(t) /\ pc' = [pc EXCEPT ![t] = "flush"] /\ back' = back
<1>1. pc[t] = "roll" /\ CanLock(t) /\ UNCHANGED <<disk, cur>>
  BY DEF RollLock
<1>2. state = "working" /\ \A u \in Thread : pc[u] \notin {"flush", "build"}
  BY <1>1, NobodyRolls
<1>3. Lock(t) /\ state' = "roll_file" /\ pc' = [pc EXCEPT ![t] = "flush"] /\ back' = back
  BY <1>2 DEF RollLock, Goto
<1>4. \A u \in Thread : pc'[u] = IF u = t THEN "flush" ELSE pc[u]
  BY <1>3 DEF LogInv, ThreadsInv
<1>5. UNCHANGED <<file, open, files, size>> /\ Current' = Current /\ Written' = Written
  BY <1>1 DEF disk, Current, Written, WrittenIn
<1>6. \A u \in Thread, l \in Level : Due(u, l) => Due(u, l)'
  BY <1>1, <1>3, <1>4 DEF Due
<1>7. \A l \in Level : \/ size'[l] <= SizeMax
                       \/ size'[l] = SizeMax + 1 /\ \E u \in Thread : Due(u, l)'
  BY <1>5, <1>6 DEF LogInv, FilesInv
<1>8. FilesInv'
  BY <1>2, <1>3, <1>4, <1>5, <1>7 DEF LogInv, FilesInv
<1> QED BY <1>3, <1>8

LEMMA RollFlushFiles ==
  ASSUME LogInv, NEW t \in Thread, RollFlush(t)
  PROVE  FilesInv'
<1>1. /\ pc[t] = "flush" /\ CanLock(t) /\ pc' = [pc EXCEPT ![t] = "build"]
      /\ open' = {} /\ file' = [l \in Level |-> NoFile] /\ size' = [l \in Level |-> 0]
      /\ UNCHANGED <<state, files>>
  BY DEF RollFlush, Goto
<1>2. \A u \in Thread : pc'[u] = IF u = t THEN "build" ELSE pc[u]
  BY <1>1 DEF LogInv, ThreadsInv
<1>3. Current' = NoFile /\ InfoLevel \in Level /\ SizeMax \in Nat
  BY <1>1, LogAssumption DEF Current
<1>4. state = "roll_file"
  BY <1>1 DEF LogInv, FilesInv
<1> QED BY <1>1, <1>2, <1>3, <1>4 DEF LogInv, FilesInv

LEMMA RollBuildFiles ==
  ASSUME LogInv, NEW t \in Thread, RollBuild(t)
  PROVE  FilesInv'
<1>1. /\ pc[t] = "build" /\ state' = "working" /\ size' = size /\ Unlock /\ Return(t)
      /\ \/ /\ files' = Append(files, 0) /\ open' = open \cup {Len(files')}
            /\ file' = [l \in Level |-> Len(files')]
         \/ UNCHANGED <<files, open, file>>
  BY DEF RollBuild
<1>2. Held(t) > 0
  BY <1>1, HeldType DEF LogInv, Held, Owns
<1>3. \A u \in Thread : pc'[u] \notin {"flush", "build"}
  <2>1. \A u \in Thread \ {t} : pc'[u] = pc[u] /\ pc[u] \notin {"flush", "build"}
    BY <1>1, <1>2, OthersOut, Returning DEF LogInv
  <2>2. pc'[t] \in {"idle", "unlock"}
    BY <1>1, Returning DEF LogInv, ThreadsInv
  <2> QED BY <2>1, <2>2
<1>4. Current = NoFile /\ open = {} /\ \A l \in Level : size[l] = 0
  BY <1>1 DEF LogInv, FilesInv
<1>5. SizeMax \in Nat /\ InfoLevel \in Level /\ files \in Seq(Nat) /\ NoFile = 0
  BY LogAssumption DEF LogInv, FilesInv, NoFile
<1>6. IsFiniteSet(Written') /\ Cardinality(Written') = 0
  BY <1>1, <1>4, NothingWritten DEF Written
<1>7. CASE /\ files' = Append(files, 0) /\ open' = open \cup {Len(files')}
           /\ file' = [l \in Level |-> Len(files')]
  <2>1. /\ files' \in Seq(Nat) /\ Len(files') = Len(files) + 1 /\ Len(files) \in Nat
        /\ DOMAIN files' = DOMAIN files \cup {Len(files')}
        /\ \A f \in DOMAIN files : files'[f] = files[f]
        /\ files'[Len(files')] = 0
    BY <1>5, <1>7
  <2>2. Current' = Len(files') /\ Len(files') # NoFile
    BY <1>5, <1>7, <2>1 DEF Current
  <2>3. \A f \in DOMAIN files' : files'[f] <= Limit
    BY <2>1, LimitType DEF LogInv, FilesInv
  <2>4. \A l \in Level : size'[l] <= SizeMax
    BY <1>1, <1>4, <1>5
  <2> HIDE DEF Limit
  <2> QED BY <1>1, <1>3, <1>4, <1>6, <1>7, <2>1, <2>2, <2>3, <2>4 DEF LogInv, FilesInv
<1>8. CASE UNCHANGED <<files, open, file>>
  <2>1. Current' = NoFile
    BY <1>4, <1>8 DEF Current
  <2>2. \A l \in Level : size'[l] <= SizeMax /\ size'[l] = 0
    BY <1>1, <1>4, <1>5
  <2> QED BY <1>1, <1>3, <1>4, <1>8, <2>1, <2>2 DEF LogInv, FilesInv
<1> QED BY <1>1, <1>7, <1>8

-----------------------------------------------------------------------------
(* The invariant is inductive.                                             *)

LEMMA InitLog == Init => LogInv
<1> SUFFICES ASSUME Init PROVE LogInv
  OBVIOUS
<1> USE LogAssumption DEF Init
<1>1. \A t \in Thread : <<t, 1>> \in Line
  BY DEF Line
<1>2. ThreadsInv
  <2>1. cur \in [Thread -> [level : Level, line : Line]]
    BY <1>1
  <2>2. \A t \in Thread : pc[t] = "idle" /\ back[t] = FromUser /\ cur[t].line[2] = 1 /\ calls[t] = 0
    BY DEF FromUser
  <2>3. pc \in [Thread -> Places] /\ DOMAIN back = Thread /\ calls \in [Thread -> 0 .. MaxCalls]
    BY DEF Places
  <2> QED BY <2>1, <2>2, <2>3 DEF ThreadsInv
<1>3. MutexInv
  BY Backs DEF MutexInv, Held, Owns, FromUser
<1>4. FilesInv
  <2>1. Current = 1 /\ NoFile = 0
    BY DEF Current, NoFile
  <2>2. IsFiniteSet(Written) /\ Cardinality(Written) = 0
    BY NothingWritten DEF Written
  <2>3. files \in Seq(Nat) /\ DOMAIN files = {1} /\ files[1] = 0
    BY DEF Init
  <2>4. \A f \in DOMAIN files : files[f] <= Limit
    BY <2>3, LimitType
  <2>5. \A t \in Thread : pc[t] = "idle"
    OBVIOUS
  <2>6. \A l \in Level : size[l] = 0 /\ file[l] = 1
    OBVIOUS
  <2>7. /\ file \in [Level -> {NoFile} \cup DOMAIN files]
        /\ size \in [Level -> Nat]
    BY <2>3
  <2>8. open = {Current} \ {NoFile}
    BY <2>1
  <2>9. state = "working"
    OBVIOUS
  <2> QED BY <2>1, <2>2, <2>3, <2>4, <2>5, <2>6, <2>7, <2>8, <2>9 DEF FilesInv
<1>5. BuffersInv
  BY DEF BuffersInv, InPrintf, Whole
<1> QED BY <1>2, <1>3, <1>4, <1>5 DEF LogInv

\* A thread moves within its call.
LEMMA ThreadMoves ==
  ASSUME ThreadsInv, NEW t \in Thread, pc' = [pc EXCEPT ![t] = pc'[t]], DOMAIN back' = Thread,
         \A u \in Thread \ {t} : back'[u] = back[u], UNCHANGED <<cur, calls>>,
         \/ pc'[t] \in {"idle", "flushed"} /\ back'[t] = FromUser
         \/ pc'[t] \in {"lock", "write", "unlock", "out"} /\ back'[t] \in {FromUser, FromFlush}
         \/ pc'[t] \in {"roll", "flush", "build"} /\ back'[t] \in {FromUser, FromPrint, FromBoth},
         pc[t] # "to_flush"
  PROVE  ThreadsInv'
<1>1. \A u \in Thread \ {t} : pc'[u] = pc[u]
  BY DEF ThreadsInv
<1>2. pc'[t] \in Places /\ pc'[t] # "to_flush"
  BY DEF Places
<1>3. pc' \in [Thread -> Places]
  BY <1>2 DEF ThreadsInv
<1>4. cur'[t].line[2] <= calls'[t] + 1
  BY DEF ThreadsInv
<1> QED BY <1>1, <1>2, <1>3, <1>4 DEF ThreadsInv

\* The line a call prints is one more than the thread's last.
LEMMA LineBegins ==
  ASSUME ThreadsInv, NEW t \in Thread, NEW l \in Level, FormatBegin(t, l),
         calls'[t] \in 0 .. MaxCalls, cur[t].line[2] <= calls'[t]
  PROVE  /\ cur' \in [Thread -> [level : Level, line : Line]]
         /\ cur'[t].line \in Line /\ cur'[t].line[2] <= calls'[t] + 1
         /\ pc' = [pc EXCEPT ![t] = "format"]
         /\ \A u \in Thread \ {t} : cur'[u] = cur[u]
<1> DEFINE n == cur[t].line[2] + 1
<1>1. cur' = [cur EXCEPT ![t] = [level |-> l, line |-> <<t, n>>]] /\ pc' = [pc EXCEPT ![t] = "format"]
  BY DEF FormatBegin, Goto
<1>2. cur \in [Thread -> [level : Level, line : Line]] /\ MaxCalls \in Nat \ {0}
  BY LogAssumption DEF ThreadsInv
<1>3. cur[t].line[2] \in 1 .. 2 * MaxCalls
  BY <1>2 DEF Line
<1>4. n \in 1 .. 2 * MaxCalls /\ n <= calls'[t] + 1
  BY <1>2, <1>3
<1>5. <<t, n>> \in Line /\ <<t, n>>[2] = n
  BY <1>4 DEF Line
<1> HIDE DEF n
<1>6. cur'[t].line = <<t, n>>
  BY <1>1, <1>2
<1> QED BY <1>1, <1>2, <1>4, <1>5, <1>6

LEMMA UserCalls ==
  ASSUME LogInv, NEW t \in Thread, (\E l \in Level : Printf(t, l)) \/ RollCall(t) \/ FlushCall(t)
  PROVE  LogInv'
<1> USE DEF LogInv
<1>1. /\ pc[t] = "idle" /\ back[t] = FromUser /\ back' = back
      /\ calls' = [calls EXCEPT ![t] = @ + 1] /\ calls[t] < MaxCalls
  BY DEF Printf, RollCall, FlushCall, Call, ThreadsInv
<1>2. MaxCalls \in Nat /\ calls[t] \in Nat /\ cur[t].line[2] <= calls[t] + 1
      /\ cur[t].line[2] \in Nat
  <2>1. cur[t].line \in Line
    BY DEF ThreadsInv
  <2>2. cur[t].line[2] \in Nat
    BY <2>1, LogAssumption DEF Line
  <2> QED BY <1>1, <2>2, LogAssumption DEF ThreadsInv
<1>3. calls' \in [Thread -> 0 .. MaxCalls] /\ calls'[t] = calls[t] + 1
      /\ \A u \in Thread \ {t} : calls'[u] = calls[u]
  BY <1>1, <1>2 DEF ThreadsInv
<1>4. CASE \E l \in Level : Printf(t, l)
  <2>1. PICK l \in Level : Printf(t, l)
    BY <1>4
  <2>2. CASE FormatBegin(t, l) /\ UNCHANGED mutex
    <3>1. /\ cur' \in [Thread -> [level : Level, line : Line]]
          /\ cur'[t].line \in Line /\ cur'[t].line[2] <= calls'[t] + 1
          /\ pc' = [pc EXCEPT ![t] = "format"]
          /\ \A u \in Thread \ {t} : cur'[u] = cur[u]
      BY <1>2, <1>3, <2>2, LineBegins
    <3>2. pc' \in [Thread -> Places] /\ pc'[t] = "format"
          /\ \A u \in Thread \ {t} : pc'[u] = pc[u]
      BY <3>1 DEF ThreadsInv, Places
    <3>3. ThreadsInv'
      BY <1>1, <1>3, <3>1, <3>2 DEF ThreadsInv
    <3>4. MutexInv'
      <4>1. Owns(pc'[t]) + Len(back'[t]) = Held(t)
        BY <1>1, <3>2 DEF Held, Owns
      <4> QED BY <1>1, <2>2, <3>2, <3>3, <4>1, MutexMoves
    <3>5. FilesInv'
      BY <1>1, <2>2, <3>1, <3>2, FilesStay DEF FormatBegin
    <3>6. BuffersInv'
      BY <1>1, <2>2, <3>1, FormatBegins
    <3> QED BY <3>3, <3>4, <3>5, <3>6
  <2>3. CASE NotReady(t) /\ UNCHANGED <<pc, cur>>
    <3>1. UNCHANGED <<state, mutex, disk, buf, clash, wild, pc, cur, back>>
      BY <1>1, <2>3 DEF NotReady
    <3>2. ThreadsInv'
      BY <1>1, <1>2, <1>3, <3>1 DEF ThreadsInv
    <3>3. MutexInv'
      BY <3>1 DEF MutexInv, Held, mutex
    <3>4. FilesInv'
      BY <1>1, <3>1, FilesStay
    <3>5. BuffersInv'
      BY <3>1 DEF BuffersInv, InPrintf
    <3> QED BY <3>2, <3>3, <3>4, <3>5
  <2> QED BY <2>1, <2>2, <2>3 DEF Printf
<1>5. CASE RollCall(t) \/ FlushCall(t)
  <2>1. /\ UNCHANGED <<state, mutex, disk, buf, cur, clash, wild>>
        /\ pc' = [pc EXCEPT ![t] = pc'[t]] /\ pc'[t] \in {"roll", "to_flush"}
        /\ pc' \in [Thread -> Places] /\ \A u \in Thread \ {t} : pc'[u] = pc[u]
    BY <1>5 DEF RollCall, FlushCall, Goto, ThreadsInv, Places
  <2>2. ThreadsInv'
    BY <1>1, <1>2, <1>3, <2>1 DEF ThreadsInv
  <2>3. MutexInv'
    <3>1. Owns(pc'[t]) + Len(back'[t]) = Held(t)
      BY <1>1, <2>1 DEF Held, Owns
    <3> QED BY <1>1, <2>1, <2>2, <3>1, MutexMoves
  <2>4. FilesInv'
    BY <1>1, <2>1, FilesStay
  <2>5. BuffersInv'
    <3>1. wild' \in BOOLEAN
      BY <2>1 DEF BuffersInv
    <3>2. ~InPrintf(t)'
      BY <1>1, <2>1 DEF InPrintf
    <3> QED BY <1>1, <2>1, <3>1, <3>2, BuffersStay
  <2> QED BY <2>2, <2>3, <2>4, <2>5
<1> QED BY <1>4, <1>5

\* The end of vsnprintf makes the line whole, unless another call meddled.
LEMMA FormatEnds ==
  ASSUME LogInv, NEW t \in Thread, FormatEnd(t)
  PROVE  LogInv'
<1> USE DEF LogInv
<1> DEFINE l == cur[t].level
<1>1. /\ pc[t] = "format" /\ pc' = [pc EXCEPT ![t] = "lock"]
      /\ buf' = [buf EXCEPT ![l] = IF buf[l] = Half(cur[t].line) THEN Whole(cur[t].line)
                                                              ELSE Half(NoLine)]
      /\ UNCHANGED <<state, mutex, disk, back, cur, calls, clash, wild>>
  BY DEF FormatEnd, Goto
<1>2. pc \in [Thread -> Places] /\ DOMAIN back = Thread /\ back[t] \in {FromUser, FromFlush}
      /\ l \in Level /\ cur[t].line \in Line
  BY <1>1 DEF ThreadsInv
<1>3. pc'[t] = "lock" /\ \A u \in Thread \ {t} : pc'[u] = pc[u]
  BY <1>1, <1>2
<1>4. ThreadsInv'
  BY <1>1, <1>2, <1>3, ThreadMoves
<1>5. MutexInv'
  <2>1. Owns(pc'[t]) + Len(back'[t]) = Held(t)
    BY <1>1, <1>3 DEF Held, Owns
  <2> QED BY <1>1, <1>3, <1>4, <2>1, MutexMoves
<1>6. FilesInv'
  BY <1>1, <1>3, FilesStay
<1>7. BuffersInv'
  <2>1. buf' \in [Level -> [line : Line \cup {NoLine}, whole : BOOLEAN]]
    BY <1>1, <1>2 DEF BuffersInv, Half, Whole
  <2>2. InPrintf(t) /\ \A u \in Thread : InPrintf(u)' => InPrintf(u)
    BY <1>1, <1>3 DEF InPrintf
  <2>3. ASSUME ~clash, NEW u \in Thread, InPrintf(u)
        PROVE  buf'[cur[u].level] = IF pc'[u] = "format" THEN Half(cur[u].line)
                                                        ELSE Whole(cur[u].line)
    <3>1. CASE u = t
      <4>1. buf[l] = Half(cur[t].line)
        BY <1>1, <2>2, <2>3 DEF BuffersInv
      <4>2. buf'[l] = Whole(cur[t].line)
        BY <1>1, <1>2, <4>1 DEF BuffersInv
      <4> QED BY <1>3, <3>1, <4>2
    <3>2. CASE u # t
      <4>1. cur[u].level # l
        BY <2>2, <2>3, <3>2 DEF BuffersInv
      <4>2. buf'[cur[u].level] = buf[cur[u].level] /\ pc'[u] = pc[u]
        BY <1>1, <1>3, <3>2, <4>1 DEF BuffersInv, ThreadsInv
      <4> QED BY <2>3, <4>2 DEF BuffersInv
    <3> QED BY <3>1, <3>2
  <2>4. ~clash => \A u \in Thread : InPrintf(u) =>
          \A v \in Thread \ {u} : InPrintf(v) => cur[v].level # cur[u].level
    BY DEF BuffersInv
  <2>5. clash' \in BOOLEAN /\ wild' \in BOOLEAN /\ clash' = clash
    BY <1>1 DEF BuffersInv
  <2> HIDE DEF l
  <2> QED BY <1>1, <2>1, <2>2, <2>3, <2>4, <2>5 DEF BuffersInv, Half, Whole
<1> QED BY <1>4, <1>5, <1>6, <1>7

\* The steps of a call that touch neither a line nor the file.
LEMMA OtherSteps ==
  ASSUME LogInv, NEW t \in Thread,
         \/ LockFile(t) \/ WriteNull(t) \/ UnlockFile(t) \/ Out(t) \/ Flushed(t)
  PROVE  LogInv'
<1> USE DEF LogInv
<1>1. UNCHANGED <<state, disk, buf, cur, calls, clash>>
  BY DEF LockFile, WriteNull, UnlockFile, Out, Flushed, control
<1>2. CASE WriteNull(t)
  <2>1. UNCHANGED <<state, mutex, disk, buf, control, clash>> /\ wild' \in BOOLEAN
    BY <1>2 DEF WriteNull
  <2>2. UNCHANGED <<pc, back, cur, calls>>
    BY <2>1 DEF control
  <2>3. ThreadsInv' /\ MutexInv'
    BY <2>1, <2>2 DEF ThreadsInv, MutexInv, Held, mutex
  <2>4. FilesInv' 
    BY <2>1, <2>2, FilesStay
  <2>5. BuffersInv'
    BY <2>1, <2>2 DEF BuffersInv, InPrintf
  <2> QED BY <2>3, <2>4, <2>5
<1>3. CASE LockFile(t) \/ UnlockFile(t) \/ Out(t) \/ Flushed(t)
  <2>1. /\ pc' = [pc EXCEPT ![t] = pc'[t]] /\ DOMAIN back' = Thread
        /\ \A u \in Thread \ {t} : pc'[u] = pc[u] /\ back'[u] = back[u]
        /\ wild' = wild
        /\ \/ pc[t] = "lock" /\ pc'[t] = "write" /\ back'[t] = back[t] /\ Lock(t)
           \/ pc[t] = "unlock" /\ pc'[t] = "out" /\ back'[t] = back[t] /\ Unlock
           \/ pc[t] = "out" /\ pc'[t] = "idle" /\ back[t] = FromUser /\ back'[t] = FromUser
              /\ UNCHANGED mutex
           \/ pc[t] = "out" /\ pc'[t] = "flushed" /\ back[t] = FromFlush /\ back'[t] = FromUser
              /\ UNCHANGED mutex
           \/ pc[t] = "flushed" /\ pc'[t] = "idle" /\ back[t] = FromUser /\ back'[t] = FromUser
              /\ Unlock
    <3>1. CASE LockFile(t)
      BY <3>1 DEF LockFile, Goto, ThreadsInv
    <3>2. CASE UnlockFile(t)
      BY <3>2 DEF UnlockFile, Goto, ThreadsInv
    <3>3. CASE Out(t)
      <4>1. pc[t] = "out" /\ Return(t) /\ UNCHANGED <<mutex, wild>> /\ back[t] \in {FromUser, FromFlush}
        BY <3>3 DEF Out, ThreadsInv
      <4> QED BY <4>1, Returning
    <3>4. CASE Flushed(t)
      <4>1. pc[t] = "flushed" /\ Return(t) /\ Unlock /\ wild' = wild /\ back[t] = FromUser
        BY <3>4 DEF Flushed, ThreadsInv
      <4> QED BY <4>1, Returning
    <3> QED BY <1>3, <3>1, <3>2, <3>3, <3>4
  <2>2. back[t] \in {FromUser, FromFlush}
    BY <2>1 DEF ThreadsInv
  <2>3. ThreadsInv'
    BY <1>1, <2>1, <2>2, ThreadMoves
  <2>4. MutexInv'
    <3>1. Len(back[t]) \in {0, 1} /\ Len(back'[t]) \in {0, 1} /\ Held(t) = Owns(pc[t]) + Len(back[t])
      BY <2>1, <2>2, Backs DEF Held
    <3>2. \/ UNCHANGED mutex /\ Owns(pc'[t]) + Len(back'[t]) = Held(t)
          \/ Lock(t) /\ Owns(pc'[t]) + Len(back'[t]) = Held(t) + 1
          \/ Unlock /\ Owns(pc'[t]) + Len(back'[t]) = Held(t) - 1 /\ Held(t) > 0
      <4>1. /\ pc[t] = "lock" => Owns(pc[t]) = 0
            /\ pc[t] = "out" => Owns(pc[t]) = 0
            /\ pc[t] \in {"unlock", "flushed"} => Owns(pc[t]) = 1
            /\ pc'[t] = "write" => Owns(pc'[t]) = 1
            /\ pc'[t] = "flushed" => Owns(pc'[t]) = 1
            /\ pc'[t] \in {"out", "idle"} => Owns(pc'[t]) = 0
        BY DEF Owns
      <4> QED BY <2>1, <3>1, <4>1, Backs
    <3> QED BY <2>1, <2>3, <3>2, MutexMoves
  <2>5. FilesInv'
    BY <1>1, <2>1, FilesStay
  <2>6. BuffersInv'
    <3>1. wild' \in BOOLEAN
      BY <2>1 DEF BuffersInv
    <3>2. InPrintf(t)' => InPrintf(t) /\ cur'[t] = cur[t] /\ (pc'[t] = "format" <=> pc[t] = "format")
      BY <1>1, <2>1 DEF InPrintf
    <3> QED BY <1>1, <2>1, <3>1, <3>2, BuffersStay
  <2> QED BY <2>3, <2>4, <2>5, <2>6
<1> QED BY <1>2, <1>3

\* A line is written, and the file rolled.
LEMMA FileSteps ==
  ASSUME LogInv, NEW t \in Thread, Write(t) \/ RollLock(t) \/ RollFlush(t) \/ RollBuild(t)
  PROVE  LogInv'
<1> USE DEF LogInv
<1>1. UNCHANGED <<buf, cur, calls, clash, wild>>
  BY DEF Write, RollLock, RollFlush, RollBuild
<1>2. /\ FilesInv' /\ pc' = [pc EXCEPT ![t] = pc'[t]] /\ DOMAIN back' = Thread
      /\ \A u \in Thread \ {t} : pc'[u] = pc[u] /\ back'[u] = back[u]
      /\ \/ pc[t] = "write" /\ pc'[t] = "roll" /\ back[t] = FromUser /\ back'[t] = FromPrint
            /\ UNCHANGED mutex
         \/ pc[t] = "write" /\ pc'[t] = "roll" /\ back[t] = FromFlush /\ back'[t] = FromBoth
            /\ UNCHANGED mutex
         \/ pc[t] = "write" /\ pc'[t] = "unlock" /\ back[t] \in {FromUser, FromFlush}
            /\ back'[t] = back[t] /\ UNCHANGED mutex
         \/ pc[t] = "roll" /\ pc'[t] = "flush" /\ back'[t] = back[t] /\ Lock(t)
            /\ back[t] \in {FromUser, FromPrint, FromBoth}
         \/ pc[t] = "flush" /\ pc'[t] = "build" /\ back'[t] = back[t] /\ UNCHANGED mutex
            /\ back[t] \in {FromUser, FromPrint, FromBoth}
         \/ pc[t] = "build" /\ pc'[t] = "idle" /\ back[t] = FromUser /\ back'[t] = FromUser /\ Unlock
         \/ pc[t] = "build" /\ pc'[t] = "unlock" /\ back[t] = FromPrint /\ back'[t] = FromUser /\ Unlock
         \/ pc[t] = "build" /\ pc'[t] = "unlock" /\ back[t] = FromBoth /\ back'[t] = FromFlush /\ Unlock
  <2>1. CASE Write(t)
    <3>1. pc[t] = "write" /\ UNCHANGED mutex /\ pc' = [pc EXCEPT ![t] = pc'[t]]
          /\ back[t] \in {FromUser, FromFlush}
      BY <2>1 DEF Write, Goto, ThreadsInv, mutex
    <3> QED BY <2>1, <3>1, WriteFiles
  <2>2. CASE RollLock(t)
    <3>1. pc[t] = "roll" /\ back[t] \in {FromUser, FromPrint, FromBoth}
      BY <2>2 DEF RollLock, ThreadsInv
    <3> QED BY <2>2, <3>1, RollLockFiles DEF ThreadsInv
  <2>3. CASE RollFlush(t)
    <3>1. pc[t] = "flush" /\ pc' = [pc EXCEPT ![t] = "build"] /\ UNCHANGED <<mutex, back>>
      BY <2>3 DEF RollFlush, Goto
    <3> QED BY <2>3, <3>1, RollFlushFiles DEF ThreadsInv
  <2>4. CASE RollBuild(t)
    <3>1. pc[t] = "build" /\ Return(t) /\ Unlock /\ back[t] \in {FromUser, FromPrint, FromBoth}
      BY <2>4 DEF RollBuild, ThreadsInv
    <3> QED BY <2>4, <3>1, RollBuildFiles, Returning
  <2> QED BY <2>1, <2>2, <2>3, <2>4
<1>3. ThreadsInv'
  BY <1>1, <1>2, ThreadMoves
<1>4. MutexInv'
  <2>1. Held(t) = Owns(pc[t]) + Len(back[t])
    BY DEF Held
  <2>2. \/ UNCHANGED mutex /\ Owns(pc'[t]) + Len(back'[t]) = Held(t)
        \/ Lock(t) /\ Owns(pc'[t]) + Len(back'[t]) = Held(t) + 1
        \/ Unlock /\ Owns(pc'[t]) + Len(back'[t]) = Held(t) - 1 /\ Held(t) > 0
    <3>1. CASE pc[t] = "write"
      <4>1. /\ Owns(pc[t]) = 1
            /\ pc'[t] = "roll" => Owns(pc'[t]) = 0
            /\ pc'[t] = "unlock" => Owns(pc'[t]) = 1
        BY <3>1 DEF Owns
      <4>2. /\ UNCHANGED mutex
            /\ \/ pc'[t] = "roll" /\ Len(back[t]) = 0 /\ Len(back'[t]) = 1
               \/ pc'[t] = "roll" /\ Len(back[t]) = 1 /\ Len(back'[t]) = 2
               \/ pc'[t] = "unlock" /\ Len(back[t]) = 0 /\ Len(back'[t]) = 0
               \/ pc'[t] = "unlock" /\ Len(back[t]) = 1 /\ Len(back'[t]) = 1
        BY <1>2, <3>1, Backs
      <4>3. CASE pc'[t] = "roll" /\ Len(back[t]) = 0 /\ Len(back'[t]) = 1
        BY <2>1, <4>1, <4>2, <4>3
      <4>4. CASE pc'[t] = "roll" /\ Len(back[t]) = 1 /\ Len(back'[t]) = 2
        BY <2>1, <4>1, <4>2, <4>4
      <4>5. CASE pc'[t] = "unlock" /\ Len(back'[t]) = Len(back[t])
        BY <2>1, <4>1, <4>2, <4>5
      <4> QED BY <4>2, <4>3, <4>4, <4>5
    <3>2. CASE pc[t] = "roll"
      <4>1. Owns(pc[t]) = 0 /\ Owns("flush") = 1
        BY <3>2 DEF Owns
      <4>2. Lock(t) /\ pc'[t] = "flush" /\ Len(back'[t]) = Len(back[t]) /\ Len(back[t]) \in {0, 1, 2}
        BY <1>2, <3>2, Backs
      <4> QED BY <2>1, <4>1, <4>2
    <3>3. CASE pc[t] = "flush"
      <4>1. Owns(pc[t]) = 1 /\ Owns("build") = 1
        BY <3>3 DEF Owns
      <4>2. UNCHANGED mutex /\ pc'[t] = "build" /\ Len(back'[t]) = Len(back[t])
        BY <1>2, <3>3
      <4> QED BY <2>1, <4>1, <4>2
    <3>4. CASE pc[t] = "build"
      <4>1. /\ Owns(pc[t]) = 1
            /\ pc'[t] = "idle" => Owns(pc'[t]) = 0
            /\ pc'[t] = "unlock" => Owns(pc'[t]) = 1
        BY <3>4 DEF Owns
      <4>2. /\ Unlock
            /\ \/ pc'[t] = "idle" /\ Len(back[t]) = 0 /\ Len(back'[t]) = 0
               \/ pc'[t] = "unlock" /\ Len(back[t]) = 1 /\ Len(back'[t]) = 0
               \/ pc'[t] = "unlock" /\ Len(back[t]) = 2 /\ Len(back'[t]) = 1
        BY <1>2, <3>4, Backs
      <4>3. CASE pc'[t] = "idle" /\ Len(back[t]) = 0 /\ Len(back'[t]) = 0
        BY <2>1, <4>1, <4>2, <4>3
      <4>4. CASE pc'[t] = "unlock" /\ Len(back[t]) = 1 /\ Len(back'[t]) = 0
        BY <2>1, <4>1, <4>2, <4>4
      <4>5. CASE pc'[t] = "unlock" /\ Len(back[t]) = 2 /\ Len(back'[t]) = 1
        BY <2>1, <4>1, <4>2, <4>5
      <4> QED BY <4>2, <4>3, <4>4, <4>5
    <3> QED BY <1>2, <3>1, <3>2, <3>3, <3>4
  <2> QED BY <1>2, <1>3, <2>2, MutexMoves
<1>5. BuffersInv'
  <2>1. wild' \in BOOLEAN
    BY <1>1 DEF BuffersInv
  <2>2. InPrintf(t)' => InPrintf(t) /\ cur'[t] = cur[t] /\ (pc'[t] = "format" <=> pc[t] = "format")
    BY <1>1, <1>2, Backs DEF InPrintf
  <2> QED BY <1>1, <1>2, <2>1, <2>2, BuffersStay
<1> QED BY <1>2, <1>3, <1>4, <1>5

LEMMA FlushLocks ==
  ASSUME LogInv, NEW t \in Thread, FlushLock(t)
  PROVE  LogInv'
<1> USE DEF LogInv
<1>1. /\ pc[t] = "to_flush" /\ Lock(t) /\ FormatBegin(t, InfoLevel) /\ calls' = calls
      /\ back' = [back EXCEPT ![t] = <<"flushed">> \o back[t]] /\ back[t] = FromUser
  BY DEF FlushLock, ThreadsInv
<1>2. back'[t] = FromFlush /\ DOMAIN back' = Thread /\ \A u \in Thread \ {t} : back'[u] = back[u]
  BY <1>1, Backs DEF ThreadsInv
<1>3. InfoLevel \in Level /\ calls'[t] \in 0 .. MaxCalls /\ cur[t].line[2] <= calls'[t]
  <2>1. cur[t].line[2] \in Nat /\ calls[t] \in Nat /\ cur[t].line[2] <= calls[t] + 0
    BY <1>1, LogAssumption DEF ThreadsInv, Line
  <2> QED BY <1>1, <2>1, LogAssumption DEF ThreadsInv
<1>4. /\ cur' \in [Thread -> [level : Level, line : Line]]
      /\ cur'[t].line \in Line /\ cur'[t].line[2] <= calls'[t] + 1
      /\ pc' = [pc EXCEPT ![t] = "format"]
      /\ \A u \in Thread \ {t} : cur'[u] = cur[u]
  BY <1>1, <1>3, LineBegins
<1>5. pc' \in [Thread -> Places] /\ pc'[t] = "format"
      /\ \A u \in Thread \ {t} : pc'[u] = pc[u]
  BY <1>4 DEF ThreadsInv, Places
<1>6. ThreadsInv'
  BY <1>1, <1>2, <1>4, <1>5 DEF ThreadsInv
<1>7. MutexInv'
  <2>1. Owns(pc'[t]) + Len(back'[t]) = Held(t) + 1
    BY <1>1, <1>2, <1>5, Backs DEF Held, Owns
  <2> QED BY <1>1, <1>2, <1>5, <1>6, <2>1, MutexMoves
<1>8. FilesInv'
  BY <1>1, <1>2, <1>4, <1>5, FilesStay DEF FormatBegin
<1>9. BuffersInv'
  BY <1>1, <1>2, <1>3, <1>4, FormatBegins
<1> QED BY <1>6, <1>7, <1>8, <1>9

LEMMA LogStep == LogInv /\ [Next]_vars => LogInv'
<1> SUFFICES ASSUME LogInv, [Next]_vars PROVE LogInv'
  OBVIOUS
<1>1. CASE Next
  <2>1. PICK t \in Thread : \/ \E l \in Level : Printf(t, l)
                            \/ RollCall(t) \/ FlushCall(t)
                            \/ Within(t)
    BY <1>1 DEF Next
  <2> QED BY <2>1, UserCalls, FormatEnds, OtherSteps, FileSteps, FlushLocks DEF Within
<1>2. CASE UNCHANGED vars
  BY <1>2 DEF LogInv, ThreadsInv, MutexInv, FilesInv, BuffersInv, Held, Due, InPrintf, Current,
              Written, WrittenIn, vars, mutex, disk, control
<1> QED BY <1>1, <1>2

LEMMA LogIsInv == Spec => []LogInv
BY InitLog, LogStep, PTL DEF Spec

-----------------------------------------------------------------------------
(* What follows from it.                                                   *)

\* Whoever rolls the log, at whatever level, and whoever prints meanwhile: all
\* levels write to the one open file, and a file holds no more than what the
\* counters of the levels allow together.
THEOREM LevelsShareFile == Spec => []OneFile
<1>1. LogInv => OneFile
  <2> SUFFICES ASSUME LogInv PROVE OneFile
    OBVIOUS
  <2> USE DEF LogInv
  <2>1. owner \subseteq Thread /\ Cardinality(owner) <= 1
    <3>1. CASE owner = {}
      BY <3>1, FS_EmptySet
    <3>2. CASE \E t \in Thread : owner = {t}
      BY <3>2, FS_Singleton
    <3> QED BY <3>1, <3>2 DEF MutexInv
  <2>2. ASSUME NEW t \in Thread PROVE Len(back[t]) <= 2
    <3> DEFINE n == Len(back[t])
    <3>1. n \in 0 .. 2
      BY HeldType
    <3> HIDE DEF n
    <3>2. n <= 2
      BY <3>1
    <3> QED BY <3>2 DEF n
  <2>3. open \subseteq DOMAIN files /\ open = {file[l] : l \in Level} \ {NoFile}
    <3>1. InfoLevel \in Level /\ Current \in {NoFile} \cup DOMAIN files
      BY LogAssumption DEF FilesInv, Current
    <3>2. {file[l] : l \in Level} = {Current}
      BY <3>1 DEF FilesInv
    <3> QED BY <3>1, <3>2 DEF FilesInv
  <2>4. TypeOK
    BY <2>1, <2>2, <2>3 DEF TypeOK, ThreadsInv, MutexInv, FilesInv, BuffersInv, Places
  <2>5. \A l, m \in Level : file[l] = file[m]
    BY DEF FilesInv
  <2>6. \A f \in DOMAIN files : files[f] <= Cardinality(Level) * SizeMax + 1
    BY DEF FilesInv, Limit
  <2> QED BY <2>3, <2>4, <2>5, <2>6 DEF OneFile
<1> QED BY <1>1, LogIsInv, PTL

\* Only two threads that print at one level at the same time can mix their lines;
\* rlog_rolling_file, the log's own messages and other levels never do.
THEOREM OnlyClashesMix == Spec => []LinesWhole
<1>1. LogInv => LinesWhole
  BY DEF LogInv, BuffersInv, LinesWhole, InPrintf
<1> QED BY <1>1, LogIsInv, PTL
=============================================================================
