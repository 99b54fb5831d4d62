---------------------------- MODULE RDictProofs -----------------------------
(***************************************************************************)
(* Theorems about RDict and the iterator over it, for every set of keys    *)
(* and values, every hash and every size of bucket and table.              *)
(***************************************************************************)
EXTENDS RDictIter, FiniteSetTheorems, TLAPS

\* The invariants of RDict are inductive together: a removal needs NoHoles
\* and InOwnBucket to find what it removes, the count of entries needs them
\* to find what it counts, and the type of `size` needs the count.
IInv == TypeOK /\ InOwnBucket /\ NoHoles /\ KeysUnique /\ SizeExact

-----------------------------------------------------------------------------
(* Buckets                                                                 *)

\* A bucket lies inside the table (_find_bucket).
LEMMA HomeInTable ==
  ASSUME NEW k \in Key, NEW n \in Nat \ {0}
  PROVE  /\ Home(k, n) \in Nat
         /\ Home(k, n) + BucketCapacity <= n * BucketCapacity
<1> DEFINE r == Hash[k] % n
<1>1. r \in Nat /\ r + 1 <= n
  BY HashAssumption
<1>2. r * BucketCapacity \in Nat /\ (r + 1) * BucketCapacity <= n * BucketCapacity
  <2> HIDE DEF r
  <2> QED BY <1>1, SizeAssumption
<1>3. (r + 1) * BucketCapacity = r * BucketCapacity + BucketCapacity
  <2> HIDE DEF r
  <2> QED BY <1>1, SizeAssumption
<1> QED BY <1>2, <1>3 DEF Home

\* Two buckets are the same or do not overlap.
LEMMA HomesApart ==
  ASSUME NEW k \in Key, NEW l \in Key, NEW n \in Nat \ {0},
         Home(k, n) < Home(l, n)
  PROVE  Home(k, n) + BucketCapacity <= Home(l, n)
<1> DEFINE r == Hash[k] % n
           q == Hash[l] % n
<1>1. r \in Nat /\ q \in Nat
  BY HashAssumption
<1>2. r * BucketCapacity < q * BucketCapacity
  BY DEF Home
<1>3. r + 1 <= q
  <2> HIDE DEF r, q
  <2> SUFFICES ASSUME q <= r PROVE FALSE
    BY <1>1
  <2>1. q * BucketCapacity <= r * BucketCapacity
    BY <1>1, SizeAssumption
  <2> QED BY <2>1, <1>1, <1>2, SizeAssumption
<1>4. (r + 1) * BucketCapacity <= q * BucketCapacity
  <2> HIDE DEF r, q
  <2> QED BY <1>1, <1>3, SizeAssumption
<1>5. (r + 1) * BucketCapacity = r * BucketCapacity + BucketCapacity
  <2> HIDE DEF r
  <2> QED BY <1>1, SizeAssumption
<1> QED BY <1>4, <1>5 DEF Home

\* The first slot of the bucket of a slot, the way the refill computes it.
LEMMA StartOfBucket ==
  ASSUME NEW k \in Key, NEW n \in Nat \ {0}, NEW i \in Bucket(k, n)
  PROVE  (i \div BucketCapacity) * BucketCapacity = Home(k, n)
<1> DEFINE r == Hash[k] % n
           d == i - Home(k, n)
<1>1. r \in Nat
  BY HashAssumption
<1>2. d \in 0 .. BucketCapacity - 1 /\ i = r * BucketCapacity + d
  BY HomeInTable, SizeAssumption DEF Bucket, Home
<1>3. i \div BucketCapacity = r
  <2> HIDE DEF r, d
  <2> QED BY <1>1, <1>2, SizeAssumption
<1> QED BY <1>3 DEF Home

-----------------------------------------------------------------------------
(* The refill                                                              *)

\* What the invariants say of the table that is refilled.
Structured == /\ buckets \in Nat \ {0}
              /\ table \in [0 .. Capacity - 1 -> Entry \cup {Empty}]
              /\ InOwnBucket /\ NoHoles /\ KeysUnique

\* The refill reaches every entry, because no entry hides behind a hole.
LEMMA WalkedAll ==
  ASSUME Structured
  PROVE  Walked = Occupied(table)
<1>1. ASSUME NEW i \in Walked PROVE i \in Occupied(table)
  <2>1. i \in DOMAIN table /\ i \in Nat
    BY DEF Walked, Structured
  <2>2. i \in (i \div BucketCapacity) * BucketCapacity .. i
    BY <2>1, SizeAssumption
  <2> QED BY <2>1, <2>2 DEF Walked, Occupied
<1>2. ASSUME NEW i \in Occupied(table) PROVE i \in Walked
  <2>1. table[i].key \in Key /\ i \in DOMAIN table
    BY DEF Occupied, Structured, Entry, Empty
  <2>2. i \in Bucket(table[i].key, buckets)
    BY DEF Structured, InOwnBucket
  <2>3. (i \div BucketCapacity) * BucketCapacity = Home(table[i].key, buckets)
    BY <2>1, <2>2, StartOfBucket DEF Structured
  <2> QED BY <2>1, <2>3 DEF Structured, NoHoles, Walked
<1> QED BY <1>1, <1>2

LEMMA OccupiedFacts ==
  ASSUME Structured
  PROVE  /\ Occupied(table) \subseteq 0 .. Capacity - 1
         /\ \A i \in Occupied(table) : table[i] \in Entry /\ table[i].key \in Key
         /\ IsFiniteSet(Occupied(table))
<1>1. Capacity \in Nat
  BY SizeAssumption DEF Capacity, Structured
<1>2. Occupied(table) \subseteq 0 .. Capacity - 1
  BY DEF Occupied, Structured
<1>3. IsFiniteSet(0 .. Capacity - 1)
  BY <1>1, FS_Interval
<1>4. \A i \in Occupied(table) : table[i] \in Entry /\ table[i].key \in Key
  BY DEF Occupied, Structured, Entry, Empty
<1> QED BY <1>2, <1>3, <1>4, FS_Subset

\* The entries that go to the new bucket of slot i.
Group(i, n) == {j \in Walked : Home(table[j].key, n) = Home(table[i].key, n)}
Before(i, n) == {j \in Walked :
                   j < i /\ Home(table[j].key, n) = Home(table[i].key, n)}

\* Ranks count from 0 inside a group and grow with the slot.
LEMMA RankGrows ==
  ASSUME Structured, NEW n \in Nat \ {0}, NEW i \in Walked
  PROVE  /\ Rank(i, n) \in Nat
         /\ IsFiniteSet(Group(i, n))
         /\ Rank(i, n) < Cardinality(Group(i, n))
         /\ \A j \in Group(i, n) : j < i => Rank(j, n) < Rank(i, n)
<1>1. Walked \subseteq 0 .. Capacity - 1 /\ IsFiniteSet(Walked)
  BY WalkedAll, OccupiedFacts
<1>2. IsFiniteSet(Group(i, n)) /\ i \in Group(i, n) /\ Before(i, n) \subseteq Group(i, n)
  BY <1>1, FS_Subset DEF Group, Before
<1>3. i \notin Before(i, n)
  BY <1>1 DEF Before
<1>4. ASSUME NEW S, IsFiniteSet(S), NEW T \in SUBSET S, NEW x \in S, x \notin T
      PROVE  Cardinality(T) \in Nat /\ Cardinality(T) < Cardinality(S)
  <2>1. IsFiniteSet(T) /\ Cardinality(T) <= Cardinality(S) /\ Cardinality(S) # Cardinality(T)
    BY <1>4, FS_Subset
  <2>2. Cardinality(T) \in Nat /\ Cardinality(S) \in Nat
    BY <1>4, <2>1, FS_CardinalityType
  <2> QED BY <2>1, <2>2
<1>5. Rank(i, n) = Cardinality(Before(i, n))
  BY DEF Rank, Before
<1>6. Rank(i, n) \in Nat /\ Rank(i, n) < Cardinality(Group(i, n))
  BY <1>2, <1>3, <1>4, <1>5
<1>7. ASSUME NEW j \in Group(i, n), j < i PROVE Rank(j, n) < Rank(i, n)
  <2>1. j \in Walked /\ j \in Before(i, n) /\ j \notin Before(j, n)
    BY <1>1, <1>7 DEF Group, Before
  <2>2. ASSUME NEW l \in Before(j, n) PROVE l \in Before(i, n)
    <3>1. l \in Walked /\ l < j /\ l \in Int /\ j \in Int /\ i \in Int
      BY <1>1, <2>1 DEF Before
    <3>2. Home(table[l].key, n) = Home(table[i].key, n)
      BY <1>7 DEF Group, Before
    <3> QED BY <3>1, <3>2, <1>7 DEF Before
  <2>3. IsFiniteSet(Before(i, n))
    BY <1>2, FS_Subset
  <2>4. Rank(j, n) = Cardinality(Before(j, n))
    BY DEF Rank, Before
  <2> QED BY <2>1, <2>2, <2>3, <2>4, <1>4, <1>5
<1> QED BY <1>2, <1>6, <1>7

\* No slot is skipped: every rank below a rank that is taken is taken, because
\* ranks map the group one to one into as many numbers.
LEMMA RanksTaken ==
  ASSUME Structured, NEW n \in Nat \ {0}, NEW i \in Walked,
         NEW q \in Nat, q <= Rank(i, n)
  PROVE  \E j \in Group(i, n) : Rank(j, n) = q
<1> DEFINE G == Group(i, n)
           c == Cardinality(G)
           f == [j \in G |-> Rank(j, n)]
<1>1. IsFiniteSet(G) /\ c \in Nat
  BY RankGrows, FS_CardinalityType
<1>2. Walked \subseteq Int
  BY WalkedAll, OccupiedFacts
<1>3. \A j \in G : j \in Walked /\ Group(j, n) = G
  BY DEF Group
<1>4. \A j \in G : Rank(j, n) \in 0 .. c - 1
  BY <1>1, <1>3, RankGrows
<1>5. ASSUME NEW j \in G, NEW l \in G, j < l PROVE Rank(j, n) # Rank(l, n)
  <2>1. j \in Group(l, n) /\ l \in Walked /\ j \in Walked
    BY <1>3
  <2>2. Rank(j, n) < Rank(l, n) /\ Rank(j, n) \in Nat /\ Rank(l, n) \in Nat
    BY <1>5, <2>1, RankGrows
  <2> QED BY <2>2
<1>6. \A j, l \in G : f[j] = f[l] => j = l
  <2> SUFFICES ASSUME NEW j \in G, NEW l \in G, f[j] = f[l], j # l PROVE FALSE
    OBVIOUS
  <2>1. j \in Int /\ l \in Int
    BY <1>2, <1>3
  <2>2. j < l \/ l < j
    BY <2>1
  <2> QED BY <2>2, <1>5
<1>7. f \in Injection(G, 0 .. c - 1)
  BY <1>4, <1>6 DEF Injection, IsInjective
<1>8. IsFiniteSet(0 .. c - 1) /\ Cardinality(0 .. c - 1) = c
  <2> HIDE DEF c
  <2> QED BY <1>1, FS_Interval
<1>9. f \in Surjection(G, 0 .. c - 1)
  <2> HIDE DEF f, c, G
  <2>1. Cardinality(G) = Cardinality(0 .. c - 1)
    BY <1>8 DEF c
  <2> QED BY <1>7, <1>8, <2>1, FS_Injection
<1>10. q \in 0 .. c - 1
  BY <1>1, RankGrows
<1> QED BY <1>9, <1>10 DEF Surjection


\* What a refill that fits leaves behind: every entry in a slot of the bucket
\* its key selects in the new table, no two entries in one slot, no hole.
LEMMA TargetFacts ==
  ASSUME Structured, NEW n \in Nat \ {0}, Fits(n)
  PROVE  /\ \A i \in Walked : Target(i, n) \in Bucket(table[i].key, n)
         /\ \A i \in Walked : Target(i, n) \in 0 .. n * BucketCapacity - 1
         /\ \A i, j \in Walked : Target(i, n) = Target(j, n) => i = j
         /\ \A i \in Walked : \A s \in Home(table[i].key, n) .. Target(i, n) :
              \E j \in Walked : Target(j, n) = s
<1>1. \A i \in Walked : i \in Int /\ table[i].key \in Key
  BY WalkedAll, OccupiedFacts
<1>2. ASSUME NEW i \in Walked
      PROVE  /\ Rank(i, n) \in 0 .. BucketCapacity - 1
             /\ Home(table[i].key, n) \in Nat
             /\ Home(table[i].key, n) + BucketCapacity <= n * BucketCapacity
  BY <1>1, RankGrows, HomeInTable, SizeAssumption DEF Fits
<1>3. ASSUME NEW i \in Walked
      PROVE  /\ Target(i, n) \in Bucket(table[i].key, n)
             /\ Target(i, n) \in 0 .. n * BucketCapacity - 1
  BY <1>2, SizeAssumption DEF Target, Bucket
<1>4. ASSUME NEW i \in Walked, NEW j \in Walked,
             Home(table[i].key, n) < Home(table[j].key, n)
      PROVE  Target(i, n) # Target(j, n)
  <2>1. Home(table[i].key, n) + BucketCapacity <= Home(table[j].key, n)
    BY <1>1, <1>4, HomesApart
  <2> QED BY <2>1, <1>2, SizeAssumption DEF Target
<1>5. ASSUME NEW i \in Walked, NEW j \in Walked, i < j,
             Home(table[i].key, n) = Home(table[j].key, n)
      PROVE  Target(i, n) # Target(j, n)
  <2>1. Rank(i, n) < Rank(j, n)
    BY <1>5, RankGrows DEF Group
  <2> QED BY <2>1, <1>2, <1>5 DEF Target
<1>6. ASSUME NEW i \in Walked, NEW j \in Walked, Target(i, n) = Target(j, n)
      PROVE  i = j
  <2>1. Home(table[i].key, n) = Home(table[j].key, n)
    BY <1>2, <1>4, <1>6
  <2>2. ~(i < j) /\ ~(j < i)
    BY <1>5, <1>6, <2>1
  <2> QED BY <1>1, <2>2
<1>7. ASSUME NEW i \in Walked, NEW s \in Home(table[i].key, n) .. Target(i, n)
      PROVE  \E j \in Walked : Target(j, n) = s
  <2>1. s - Home(table[i].key, n) \in Nat /\ s - Home(table[i].key, n) <= Rank(i, n)
    BY <1>2 DEF Target
  <2>2. PICK j \in Group(i, n) : Rank(j, n) = s - Home(table[i].key, n)
    BY <2>1, RanksTaken
  <2>3. j \in Walked /\ Home(table[j].key, n) = Home(table[i].key, n)
    BY DEF Group
  <2>4. Target(j, n) = s
    BY <1>2, <2>2, <2>3 DEF Target
  <2> QED BY <2>3, <2>4
<1> QED BY <1>3, <1>6, <1>7

LEMMA RefilledFacts ==
  ASSUME Structured, NEW n \in Nat \ {0}, Fits(n)
  PROVE  /\ Refilled(n) \in [0 .. n * BucketCapacity - 1 -> Entry \cup {Empty}]
         /\ \A i \in Walked : Refilled(n)[Target(i, n)] = table[i]
         /\ Occupied(Refilled(n)) = {Target(i, n) : i \in Walked}
         /\ Cardinality(Occupied(Refilled(n))) = Cardinality(Occupied(table))
<1> DEFINE R == Refilled(n)
           O == Occupied(R)
<1>1. \A i \in Walked : table[i] \in Entry /\ table[i].key \in Key
  BY WalkedAll, OccupiedFacts
<1>2. ASSUME NEW i \in Walked PROVE R[Target(i, n)] = table[i]
  <2>1. Target(i, n) \in 0 .. n * BucketCapacity - 1
    BY TargetFacts
  <2>2. (CHOOSE j \in Walked : Target(j, n) = Target(i, n)) = i
    BY TargetFacts
  <2> QED BY <2>1, <2>2 DEF Refilled
<1>3. ASSUME NEW s \in 0 .. n * BucketCapacity - 1
      PROVE  \/ R[s] = Empty /\ ~ \E i \in Walked : Target(i, n) = s
             \/ \E i \in Walked : Target(i, n) = s /\ R[s] = table[i]
  <2>1. CASE \E i \in Walked : Target(i, n) = s
    BY <1>2, <2>1
  <2>2. CASE ~ \E i \in Walked : Target(i, n) = s
    BY <2>2 DEF Refilled
  <2> QED BY <2>1, <2>2
<1>4. DOMAIN R = 0 .. n * BucketCapacity - 1
  BY DEF Refilled
<1>5. R \in [0 .. n * BucketCapacity - 1 -> Entry \cup {Empty}]
  <2>1. \A s \in 0 .. n * BucketCapacity - 1 : R[s] \in Entry \cup {Empty}
    BY <1>1, <1>3
  <2>2. R = [s \in 0 .. n * BucketCapacity - 1 |-> R[s]]
    BY DEF Refilled
  <2> HIDE DEF R
  <2> QED BY <2>1, <2>2
<1>6. O = {Target(i, n) : i \in Walked}
  <2>1. ASSUME NEW s \in O PROVE s \in {Target(i, n) : i \in Walked}
    BY <1>3, <1>4 DEF Occupied, Empty
  <2>2. ASSUME NEW i \in Walked PROVE Target(i, n) \in O
    <3>1. Target(i, n) \in DOMAIN R
      BY <1>4, TargetFacts
    <3>2. R[Target(i, n)].key # Null
      BY <1>1, <1>2, KeyAssumption
    <3> QED BY <3>1, <3>2 DEF Occupied
  <2> QED BY <2>1, <2>2
<1>7. Cardinality(O) = Cardinality(Occupied(table))
  <2> DEFINE f == [i \in Walked |-> Target(i, n)]
  <2>1. f \in [Walked -> O]
    BY <1>6
  <2>2. \A i, j \in Walked : f[i] = f[j] => i = j
    BY TargetFacts
  <2>3. \A s \in O : \E i \in Walked : f[i] = s
    BY <1>6
  <2>4. f \in Injection(Walked, O) /\ f \in Surjection(Walked, O)
    <3> HIDE DEF f, O
    <3> QED BY <2>1, <2>2, <2>3 DEF Injection, IsInjective, Surjection
  <2>5. ExistsBijection(Walked, O)
    BY <2>4 DEF ExistsBijection, Bijection
  <2>6. IsFiniteSet(Walked)
    BY WalkedAll, OccupiedFacts
  <2>7. Cardinality(O) = Cardinality(Walked)
    <3> HIDE DEF O
    <3> QED BY <2>5, <2>6, FS_Bijection
  <2> QED BY <2>7, WalkedAll
<1> QED BY <1>2, <1>5, <1>6, <1>7

-----------------------------------------------------------------------------
(* The steps                                                               *)

\* The part of the invariants that the slots decide.
SlotInv == /\ buckets \in Nat
           /\ table \in [0 .. Capacity - 1 -> Entry \cup {Empty}]
           /\ InOwnBucket /\ NoHoles /\ KeysUnique

\* The count of entries, apart from the one of the NULL key.
Count == Cardinality(Occupied(table))

LEMMA NoBuckets ==
  ASSUME SlotInv
  PROVE  /\ buckets = 0 => Occupied(table) = {}
         /\ buckets # 0 => Structured
         /\ IsFiniteSet(Occupied(table)) /\ Count \in Nat
         /\ \A i \in Occupied(table) : table[i] \in Entry /\ table[i].key \in Key
<1>1. Capacity \in Nat
  BY SizeAssumption DEF SlotInv, Capacity
<1>2. buckets = 0 => Capacity = 0
  BY SizeAssumption DEF Capacity
<1>3. Occupied(table) \subseteq 0 .. Capacity - 1
  BY DEF Occupied, SlotInv
<1>4. buckets = 0 => Occupied(table) = {}
  BY <1>2, <1>3
<1>5. IsFiniteSet(Occupied(table)) /\ Count \in Nat
  <2>1. IsFiniteSet(0 .. Capacity - 1)
    BY <1>1, FS_Interval
  <2>2. IsFiniteSet(Occupied(table))
    BY <1>3, <2>1, FS_Subset
  <2> QED BY <2>2, FS_CardinalityType DEF Count
<1>6. \A i \in Occupied(table) : table[i] \in Entry /\ table[i].key \in Key
  BY DEF Occupied, SlotInv, Entry, Empty
<1> QED BY <1>4, <1>5, <1>6 DEF SlotInv, Structured

\* The slots of the bucket of a key belong to the table.
LEMMA BucketInTable ==
  ASSUME SlotInv, buckets > 0, NEW k \in Key
  PROVE  /\ Home(k, buckets) \in Nat
         /\ Bucket(k, buckets) \subseteq 0 .. Capacity - 1
         /\ Bucket(k, buckets) \subseteq DOMAIN table
<1>1. buckets \in Nat \ {0}
  BY DEF SlotInv
<1>2. Home(k, buckets) \in Nat /\ Home(k, buckets) + BucketCapacity <= Capacity
  BY <1>1, HomeInTable DEF Capacity
<1>3. Capacity \in Nat
  BY <1>1, SizeAssumption DEF Capacity
<1> QED BY <1>2, <1>3, SizeAssumption DEF SlotInv, Bucket

\* A bucket that holds an entry of another key belongs to keys of that bucket
\* only: its slots are those of one Home.
LEMMA SameHome ==
  ASSUME NEW n \in Nat \ {0}, NEW k \in Key, NEW l \in Key,
         NEW i \in Bucket(k, n), i \in Bucket(l, n)
  PROVE  Home(k, n) = Home(l, n)
<1>1. Home(k, n) \in Nat /\ Home(l, n) \in Nat
  BY HomeInTable
<1>2. ~(Home(k, n) < Home(l, n))
  BY <1>1, HomesApart, SizeAssumption DEF Bucket
<1>3. ~(Home(l, n) < Home(k, n))
  BY <1>1, HomesApart, SizeAssumption DEF Bucket
<1> QED BY <1>1, <1>2, <1>3

\* rdict_add stores an entry behind the ones of its bucket, or over the entry
\* of the same key.
LEMMA StoreStep ==
  ASSUME SlotInv, buckets > 0, NEW k \in Key, NEW v \in Value,
         NEW i \in DOMAIN table, ScanStops(k, i),
         i < Home(k, buckets) + BucketCapacity - 1,
         table' = [table EXCEPT ![i] = [key |-> k, value |-> v]],
         buckets' = buckets
  PROVE  /\ SlotInv'
         /\ Count' = IF table[i].key = Null THEN Count + 1 ELSE Count
<1> DEFINE e == [key |-> k, value |-> v]
<1>1. /\ buckets \in Nat \ {0} /\ Capacity' = Capacity /\ Capacity \in Nat
      /\ DOMAIN table = 0 .. Capacity - 1 /\ DOMAIN table' = DOMAIN table
  BY SizeAssumption DEF SlotInv, Capacity
<1>2. /\ Home(k, buckets) \in Nat /\ i \in Bucket(k, buckets) /\ i \in Nat
      /\ table[i].key \in {Null, k}
      /\ \A j \in Home(k, buckets) .. i - 1 : table[j].key \notin {Null, k}
  BY <1>1, BucketInTable, SizeAssumption DEF ScanStops, Bucket
<1>3. table' \in [0 .. Capacity' - 1 -> Entry \cup {Empty}]
  BY <1>1 DEF SlotInv, Entry
<1>4. /\ table'[i] = e /\ e.key = k /\ k # Null
      /\ \A j \in DOMAIN table : j # i => table'[j] = table[j]
  BY KeyAssumption DEF SlotInv
<1>5. Occupied(table') = Occupied(table) \cup {i}
  BY <1>1, <1>4 DEF Occupied
<1>6. InOwnBucket'
  <2> SUFFICES ASSUME NEW j \in Occupied(table')
               PROVE  j \in Bucket(table'[j].key, buckets)
    BY DEF InOwnBucket, Bucket, Home
  <2>1. CASE j = i
    BY <2>1, <1>2, <1>4
  <2>2. CASE j # i
    BY <2>2, <1>4, <1>5 DEF SlotInv, InOwnBucket, Occupied
  <2> QED BY <2>1, <2>2
<1>7. NoHoles'
  <2> SUFFICES ASSUME NEW j \in Occupied(table'),
                      NEW h \in Home(table'[j].key, buckets) .. j
               PROVE  table'[h].key # Null
    BY DEF NoHoles, Home
  <2>1. CASE j = i
    <3>1. h = i \/ h \in Home(k, buckets) .. i - 1
      BY <2>1, <1>2, <1>4
    <3>2. h \in DOMAIN table
      BY <3>1, <1>1, <1>2
    <3> QED BY <3>1, <3>2, <1>2, <1>4
  <2>2. CASE j # i
    <3>1. j \in Occupied(table) /\ table'[j] = table[j]
      BY <2>2, <1>4, <1>5 DEF Occupied
    <3>2. table[h].key # Null /\ table[j].key \in Key
      BY <3>1, NoBuckets DEF SlotInv, NoHoles
    <3>3. h \in DOMAIN table
      <4>1. Home(table[j].key, buckets) \in Nat /\ j \in DOMAIN table
        BY <3>1, <3>2, BucketInTable DEF Occupied
      <4> QED BY <4>1, <3>1, <1>1
    <3> QED BY <3>2, <3>3, <1>4
  <2> QED BY <2>1, <2>2
<1>8. KeysUnique'
  <2>1. ASSUME NEW j \in Occupied(table), table[j].key = k PROVE j = i
    <3>1. j \in Bucket(k, buckets) /\ \A h \in Home(k, buckets) .. j : table[h].key # Null
      BY <2>1 DEF SlotInv, InOwnBucket, NoHoles
    <3>2. j \in Nat /\ Home(k, buckets) <= j
      BY <3>1, <1>2 DEF Bucket
    <3>3. ~(j < i)
      BY <3>2, <1>2, <2>1
    <3>4. ~(i < j)
      <4> SUFFICES ASSUME i < j PROVE FALSE
        OBVIOUS
      <4>1. table[i].key = k
        BY <3>1, <3>2, <1>2 DEF Bucket
      <4>2. i \in Occupied(table)
        BY <4>1, KeyAssumption DEF Occupied
      <4> QED BY <4>1, <4>2, <2>1, <1>2, <3>2 DEF SlotInv, KeysUnique
    <3> QED BY <3>2, <3>3, <3>4, <1>2
  <2> SUFFICES ASSUME NEW j \in Occupied(table'), NEW h \in Occupied(table'),
                      table'[j].key = table'[h].key
               PROVE  j = h
    BY DEF KeysUnique
  <2>2. CASE j = i \/ h = i
    BY <2>1, <2>2, <1>4, <1>5 DEF Occupied
  <2>3. CASE j # i /\ h # i
    BY <2>3, <1>4, <1>5 DEF SlotInv, KeysUnique, Occupied
  <2> QED BY <2>2, <2>3
<1>9. Count' = IF table[i].key = Null THEN Count + 1 ELSE Count
  <2>1. i \in Occupied(table) <=> table[i].key # Null
    BY DEF Occupied
  <2> DEFINE o == Occupied(table)
  <2>2. IsFiniteSet(o) /\ Cardinality(o) = Count
    BY NoBuckets DEF Count
  <2> HIDE DEF o
  <2>3. Cardinality(o \cup {i}) = IF i \in o THEN Cardinality(o) ELSE Cardinality(o) + 1
    BY <2>2, FS_AddElement
  <2>4. Count' = Cardinality(o \cup {i})
    BY <1>5 DEF Count, o
  <2> QED BY <2>1, <2>2, <2>3, <2>4 DEF o
<1> QED BY <1>1, <1>3, <1>6, <1>7, <1>8, <1>9 DEF SlotInv

\* rdict_remove moves the last entry of the bucket into the slot it frees.
LEMMA RemoveStep ==
  ASSUME SlotInv, buckets > 0, NEW k \in Key,
         NEW i \in Bucket(k, buckets), Holds(k, i),
         NEW last \in Bucket(k, buckets), last >= i, table[last].key # Null,
         \A j \in Bucket(k, buckets) : j > last => table[j].key = Null,
         table' = [table EXCEPT ![i] = table[last], ![last] = Empty],
         buckets' = buckets
  PROVE  SlotInv' /\ Count' = Count - 1 /\ Count > 0
<1>1. /\ buckets \in Nat \ {0} /\ Capacity' = Capacity /\ Capacity \in Nat
      /\ DOMAIN table = 0 .. Capacity - 1 /\ DOMAIN table' = DOMAIN table
      /\ Home(k, buckets) \in Nat
      /\ i \in DOMAIN table /\ last \in DOMAIN table
  BY BucketInTable, SizeAssumption DEF SlotInv, Capacity
<1>2. /\ table'[last].key = Null
      /\ i # last => table'[i] = table[last]
      /\ \A j \in DOMAIN table : j # i /\ j # last => table'[j] = table[j]
  BY <1>1 DEF Empty, SlotInv
<1>3. table' \in [0 .. Capacity' - 1 -> Entry \cup {Empty}]
  BY <1>1 DEF SlotInv
<1>4. table[i].key = k /\ i \in Occupied(table) /\ last \in Occupied(table)
  BY <1>1, KeyAssumption DEF Holds, Occupied
<1>5. Occupied(table') = Occupied(table) \ {last}
  BY <1>1, <1>2, <1>4 DEF Occupied
<1>6. /\ table[last].key \in Key
      /\ Home(table[last].key, buckets) = Home(k, buckets)
  <2>1. table[last].key \in Key /\ last \in Bucket(table[last].key, buckets)
    BY <1>4, NoBuckets DEF SlotInv, InOwnBucket
  <2> QED BY <1>1, <2>1, SameHome
<1> DEFINE from(j) == IF j = i THEN last ELSE j
<1>7. ASSUME NEW j \in Occupied(table')
      PROVE  /\ from(j) \in Occupied(table) /\ table'[j] = table[from(j)]
             /\ table'[j].key \in Key /\ j \in Nat
  BY <1>1, <1>2, <1>4, <1>5, NoBuckets DEF Occupied
<1>8. ASSUME NEW j \in Occupied(table')
      PROVE  j \in Bucket(table'[j].key, buckets)
  <2>1. CASE j = i
    BY <2>1, <1>6, <1>7 DEF Bucket
  <2>2. CASE j # i
    BY <2>2, <1>7 DEF SlotInv, InOwnBucket
  <2> QED BY <2>1, <2>2
<1>9. InOwnBucket'
  BY <1>8 DEF InOwnBucket, Bucket, Home
<1>10. NoHoles'
  <2> SUFFICES ASSUME NEW j \in Occupied(table'),
                      NEW h \in Home(table'[j].key, buckets) .. j
               PROVE  table'[h].key # Null
    BY DEF NoHoles, Home
  <2>1. /\ Home(table'[j].key, buckets) \in Nat /\ j \in 0 .. Capacity - 1
        /\ h \in Bucket(table'[j].key, buckets) /\ h \in DOMAIN table
    <3>1. Home(table'[j].key, buckets) \in Nat /\ j \in 0 .. Capacity - 1
      BY <1>1, <1>7, BucketInTable DEF Occupied
    <3>2. h \in Int /\ h <= j /\ Home(table'[j].key, buckets) <= h
      BY <3>1
    <3>3. h \in 0 .. Capacity - 1
      BY <3>1, <3>2, <1>1
    <3>4. h \in Bucket(table'[j].key, buckets)
      <4>1. j \in Bucket(table'[j].key, buckets)
        BY <1>8
      <4>2. j <= Home(table'[j].key, buckets) + BucketCapacity - 1
        BY <4>1, <3>1 DEF Bucket
      <4> QED BY <4>2, <3>1, <3>2, SizeAssumption DEF Bucket
    <3> QED BY <3>1, <3>3, <3>4, <1>1
  <2>2. table[h].key # Null
    <3>1. CASE j = i
      <4>1. Home(table'[j].key, buckets) = Home(table[i].key, buckets)
        BY <3>1, <1>4, <1>6, <1>7
      <4> QED BY <3>1, <4>1, <1>4 DEF SlotInv, NoHoles
    <3>2. CASE j # i
      BY <3>2, <1>7 DEF SlotInv, NoHoles
    <3> QED BY <3>1, <3>2
  <2>3. h # last
    <3> SUFFICES ASSUME h = last PROVE FALSE
      OBVIOUS
    <3>1. Home(table'[j].key, buckets) = Home(k, buckets)
      BY <2>1, <1>1, <1>7, SameHome
    <3>2. j \in Bucket(k, buckets)
      BY <3>1, <1>8 DEF Bucket
    <3>3. j # last /\ j \in Nat /\ last \in Nat /\ j >= last
      <4>1. j # last
        BY <1>5
      <4>2. h <= j /\ j \in Nat /\ last \in Nat
        BY <1>1, <1>7, <2>1
      <4> QED BY <4>1, <4>2
    <3>4. table[j].key = Null
      BY <3>2, <3>3
    <3>5. CASE j = i
      BY <3>5, <3>4, <1>4, KeyAssumption
    <3>6. CASE j # i
      BY <3>6, <3>4, <1>7 DEF Occupied
    <3> QED BY <3>5, <3>6
  <2>4. CASE h = i
    BY <2>3, <2>4, <1>2, <1>6, KeyAssumption
  <2>5. CASE h # i
    BY <2>1, <2>2, <2>3, <2>5, <1>2
  <2> QED BY <2>4, <2>5
<1>11. KeysUnique'
  <2> SUFFICES ASSUME NEW j \in Occupied(table'), NEW h \in Occupied(table'),
                      table'[j].key = table'[h].key
               PROVE  j = h
    BY DEF KeysUnique
  <2>1. from(j) = from(h)
    <3> HIDE DEF from
    <3>1. /\ from(j) \in Occupied(table) /\ from(h) \in Occupied(table)
          /\ table[from(j)].key = table[from(h)].key
      BY <1>7
    <3> QED BY <3>1 DEF SlotInv, KeysUnique
  <2>2. j # last /\ h # last
    BY <1>5
  <2> QED BY <2>1, <2>2
<1>12. Count' = Count - 1 /\ Count > 0
  <2>1. IsFiniteSet(Occupied(table)) /\ Count \in Nat /\ Occupied(table) # {}
    BY <1>4, NoBuckets
  <2>2. Count' = Count - 1
    <3>1. \A S : IsFiniteSet(S) /\ last \in S => Cardinality(S \ {last}) = Cardinality(S) - 1
      BY ONLY FS_RemoveElement
    <3>2. Cardinality(Occupied(table) \ {last}) = Cardinality(Occupied(table)) - 1
      BY ONLY <2>1, <1>4, <3>1
    <3> QED BY ONLY <3>2, <1>5 DEF Count
  <2>3. Count # 0
    BY <2>1, FS_EmptySet DEF Count
  <2> QED BY <2>1, <2>2, <2>3
<1> QED BY <1>1, <1>3, <1>9, <1>10, <1>11, <1>12 DEF SlotInv

\* _expand_buckets moves every entry to the table of n buckets.
LEMMA RefillStep ==
  ASSUME SlotInv, NEW n \in Nat \ {0}, Fits(n),
         buckets > 0, table' = Refilled(n), buckets' = n
  PROVE  SlotInv' /\ Count' = Count
<1>1. Structured
  BY DEF SlotInv, Structured
<1>2. Capacity' = n * BucketCapacity
  BY DEF Capacity
<1>3. table' \in [0 .. Capacity' - 1 -> Entry \cup {Empty}]
  BY <1>1, <1>2, RefilledFacts
<1>4. ASSUME NEW s \in Occupied(table')
      PROVE  \E i \in Walked : s = Target(i, n) /\ table'[s] = table[i]
  BY <1>1, RefilledFacts
<1>5. ASSUME NEW i \in Walked
      PROVE  Target(i, n) \in Occupied(table') /\ table'[Target(i, n)] = table[i]
  BY <1>1, RefilledFacts
<1>6. Walked = Occupied(table)
  BY <1>1, WalkedAll
<1>7. InOwnBucket'
  <2> SUFFICES ASSUME NEW s \in Occupied(table')
               PROVE  s \in Bucket(table'[s].key, n)
    BY DEF InOwnBucket, Bucket, Home
  <2> QED BY <1>1, <1>4, TargetFacts
<1>8. NoHoles'
  <2> SUFFICES ASSUME NEW s \in Occupied(table'),
                      NEW h \in Home(table'[s].key, n) .. s
               PROVE  table'[h].key # Null
    BY DEF NoHoles, Home
  <2>1. PICK i \in Walked : s = Target(i, n) /\ table'[s] = table[i]
    BY <1>4
  <2>2. PICK j \in Walked : Target(j, n) = h
    BY <1>1, <2>1, TargetFacts
  <2> QED BY <2>2, <1>5 DEF Occupied
<1>9. KeysUnique'
  <2> SUFFICES ASSUME NEW s \in Occupied(table'), NEW h \in Occupied(table'),
                      table'[s].key = table'[h].key
               PROVE  s = h
    BY DEF KeysUnique
  <2>1. PICK i \in Walked : s = Target(i, n) /\ table'[s] = table[i]
    BY <1>4
  <2>2. PICK j \in Walked : h = Target(j, n) /\ table'[h] = table[j]
    BY <1>4
  <2>3. i = j
    BY <2>1, <2>2, <1>6 DEF SlotInv, KeysUnique
  <2> QED BY <2>1, <2>2, <2>3
<1>10. Count' = Count
  BY <1>1, RefilledFacts DEF Count
<1> QED BY <1>3, <1>7, <1>8, <1>9, <1>10 DEF SlotInv

\* rdict_create, rdict_clear: a table of empty slots.
LEMMA EmptyStep ==
  ASSUME NEW n \in Nat, buckets' = n, table' = NewTable(n)
  PROVE  SlotInv' /\ Count' = 0
<1>1. Occupied(table') = {} /\ Capacity' = n * BucketCapacity
  BY DEF Occupied, NewTable, Empty, Capacity
<1>2. table' \in [0 .. Capacity' - 1 -> Entry \cup {Empty}]
  BY <1>1 DEF NewTable
<1>3. Cardinality(Occupied(table')) = 0
  BY <1>1, FS_EmptySet
<1> QED BY <1>1, <1>2, <1>3 DEF SlotInv, InOwnBucket, NoHoles, KeysUnique, Count

LEMMA BucketCountType ==
  ASSUME NEW c \in Nat
  PROVE  BucketCount(c) \in Nat /\ Expanded(c) \in Nat /\ Scaled(c) \in Nat
         /\ (c > 0 => BucketCount(c) > 0 /\ Expanded(c) > 0 /\ Scaled(c) > 0)
<1>1. Scaled(c) \in Nat /\ (c > 0 => Scaled(c) > 0)
  BY DEF Scaled
<1>2. ASSUME NEW d \in Nat
      PROVE  LET q == (d + BucketCapacity - 1) \div BucketCapacity
             IN  q \in Nat /\ (d > 0 => q > 0)
  BY SizeAssumption
<1>3. Expanded(c) \in Nat /\ (c > 0 => Expanded(c) > 0)
  BY SizeAssumption DEF Expanded
<1> QED BY <1>1, <1>2, <1>3 DEF BucketCount

-----------------------------------------------------------------------------
(* The invariants hold in every state.                                     *)

\* What a call answers has the type of an answer.
LEMMA AnswerType ==
  /\ Ok \in Answers
  /\ \A c \in Codes, k \in Key \cup {Null}, v \in Value \cup {Null} :
       Answer(c, k, v) \in Answers
BY DEF Ok, Answer, Answers, Codes

LEMMA InitInv == Init => IInv
<1> SUFFICES ASSUME Init PROVE IInv
  OBVIOUS
<1>1. buckets \in Nat /\ table = NewTable(buckets)
  BY BucketCountType, SizeAssumption DEF Init, FirstBuckets
<1>2. Occupied(table) = {}
  BY <1>1 DEF Occupied, NewTable, Empty
<1>3. table \in [0 .. Capacity - 1 -> Entry \cup {Empty}]
  BY <1>1 DEF NewTable, Capacity
<1>4. Cardinality(Occupied(table)) = 0
  BY <1>2, FS_EmptySet
<1>5. TypeOK
  BY <1>1, <1>3, AnswerType DEF Init, TypeOK
<1>6. SizeExact
  BY <1>4 DEF Init, SizeExact
<1> QED BY <1>2, <1>5, <1>6 DEF IInv, InOwnBucket, NoHoles, KeysUnique

\* What each step leaves to show once the slots are taken care of.
LEMMA Assemble ==
  ASSUME SlotInv', NEW c \in Nat, Count' = c,
         size' = c + (IF nullEntry' = Empty THEN 0 ELSE 1),
         live' \in BOOLEAN,
         nullEntry' \in NullKeyEntry \cup {Empty},
         call' \in {NoCall} \cup [key : Key, value : Value, want : Nat],
         ret' \in Answers,
         wild' \in {"none", "past_end", "no_table", "stale_iterator"}
  PROVE  IInv'
<1>1. size' \in Nat
  <2>1. (IF nullEntry' = Empty THEN 0 ELSE 1) \in Nat
    OBVIOUS
  <2> QED BY <2>1
<1>2. SizeExact'
  BY DEF SizeExact, Count, Empty
<1> QED BY <1>1, <1>2 DEF IInv, TypeOK, SlotInv, NullKeyEntry, Empty, NoCall, Entry

\* A call that leaves the dictionary as it is.
LEMMA SameDict ==
  ASSUME SlotInv, UNCHANGED <<table, buckets>>
  PROVE  SlotInv' /\ Count' = Count
BY DEF SlotInv, Count, InOwnBucket, NoHoles, KeysUnique, Occupied, Capacity,
       Bucket, Home

LEMMA StepInv == IInv /\ [Next]_vars => IInv'
<1> SUFFICES ASSUME IInv, [Next]_vars PROVE IInv'
  OBVIOUS
<1>1. /\ SlotInv /\ Count \in Nat
      /\ size = Count + (IF nullEntry = Empty THEN 0 ELSE 1)
  <2>1. SlotInv
    BY DEF IInv, TypeOK, SlotInv
  <2> QED BY <2>1, NoBuckets DEF IInv, SizeExact, Count
<1>2. /\ live \in BOOLEAN
      /\ nullEntry \in NullKeyEntry \cup {Empty}
      /\ call \in {NoCall} \cup [key : Key, value : Value, want : Nat]
      /\ ret \in Answers
      /\ wild \in {"none", "past_end", "no_table", "stale_iterator"}
  BY DEF IInv, TypeOK
<1>3. call.key # Null => call \in [key : Key, value : Value, want : Nat]
  BY <1>2 DEF NoCall
<1>4. NoCall \in {NoCall} \cup [key : Key, value : Value, want : Nat]
  OBVIOUS
<1>5. /\ Ok \in Answers
      /\ \A c \in Codes, k \in Key \cup {Null}, v \in Value \cup {Null} :
           Answer(c, k, v) \in Answers
  BY AnswerType
<1>6. \A n \in Nat : n * BucketCapacity \in Nat
  BY SizeAssumption
<1> DEFINE Keep == /\ live' \in BOOLEAN
                   /\ call' \in {NoCall} \cup [key : Key, value : Value, want : Nat]
                   /\ ret' \in Answers
                   /\ wild' \in {"none", "past_end", "no_table", "stale_iterator"}
<1>7. ASSUME UNCHANGED dict, Keep PROVE IInv'
  <2>1. SlotInv' /\ Count' = Count
    BY <1>1, <1>7, SameDict DEF dict
  <2> QED BY <2>1, <1>1, <1>2, <1>7, Assemble DEF dict
<1>8. CASE UNCHANGED vars
  BY <1>8, <1>7, <1>2 DEF vars
<1>9. CASE Create
  <2>1. buckets' \in Nat /\ table' = NewTable(buckets')
    BY <1>9, BucketCountType, SizeAssumption DEF Create, FirstBuckets
  <2>2. SlotInv' /\ Count' = 0
    BY <2>1, EmptyStep
  <2>3. Keep /\ nullEntry' = Empty /\ size' = 0
    BY <1>9, <1>2, <1>5 DEF Create
  <2> QED BY <2>2, <2>3, Assemble
<1>10. ASSUME NEW v \in Value, AddNullKey(v) PROVE IInv'
  <2>1. SlotInv' /\ Count' = Count
    BY <1>1, <1>10, SameDict DEF AddNullKey
  <2>2. nullEntry' \in NullKeyEntry /\ nullEntry' # Empty
    BY <1>10, KeyAssumption DEF AddNullKey, NullKeyEntry, Empty
  <2>3. Keep
    BY <1>10, <1>2, <1>5 DEF AddNullKey, Codes
  <2>4. size' = Count + 1
    BY <1>1, <1>10 DEF AddNullKey
  <2> QED BY <2>1, <2>2, <2>3, <2>4, <1>1, Assemble
<1>11. ASSUME NEW k \in Key, NEW v \in Value, AddCall(k, v) PROVE IInv'
  <2>1. call' \in [key : Key, value : Value, want : Nat]
    BY <1>11 DEF AddCall
  <2> QED BY <2>1, <1>7, <1>2, <1>11 DEF AddCall
<1>12. CASE AddNoTable \/ AddPastEnd
  <2>1. UNCHANGED <<dict, live, call, ret>> /\ wild' \in {"no_table", "past_end"}
    BY <1>12 DEF AddNoTable, AddPastEnd, Break
  <2> QED BY <2>1, <1>7, <1>2
<1>13. CASE AddNoRoom
  <2>1. Capacity \in Nat
    BY <1>1, <1>6 DEF SlotInv, Capacity
  <2>2. Expanded(Capacity) \in Nat
    BY <2>1, BucketCountType
  <2>3. call' = [call EXCEPT !.want = Expanded(Capacity)]
        /\ call \in [key : Key, value : Value, want : Nat]
    BY <1>13, <1>3 DEF AddNoRoom, Adding
  <2>4. call' \in [key : Key, value : Value, want : Nat]
    BY <2>2, <2>3
  <2> QED BY <2>4, <1>7, <1>2, <1>13 DEF AddNoRoom
<1>14. CASE AddStore
  <2>1. PICK i \in DOMAIN table :
          /\ ScanStops(call.key, i) /\ ~NoRoom(i)
          /\ table' = [table EXCEPT ![i] = [key |-> call.key, value |-> call.value]]
          /\ size' = IF table[i].key = Null THEN size + 1 ELSE size
    BY <1>14 DEF AddStore
  <2>2. call.key \in Key /\ call.value \in Value /\ buckets > 0
    BY <1>14, <1>3 DEF AddStore, Adding
  <2>3. i < Home(call.key, buckets) + BucketCapacity - 1
    <3>1. Home(call.key, buckets) \in Nat /\ i \in 0 .. Capacity - 1 /\ Capacity \in Nat
      BY <2>2, <1>1, <1>6, BucketInTable DEF SlotInv, Capacity
    <3> QED BY <2>1, <3>1, SizeAssumption DEF NoRoom
  <2>4. /\ SlotInv'
        /\ Count' = IF table[i].key = Null THEN Count + 1 ELSE Count
    BY <1>1, <1>14, <2>1, <2>2, <2>3, StoreStep DEF AddStore
  <2>5. Keep /\ nullEntry' = nullEntry
    BY <1>14, <2>2, <1>2, <1>5, <1>4 DEF AddStore, Codes
  <2> QED BY <2>1, <2>4, <2>5, <1>1, <1>2, Assemble
<1>15. CASE ExpandNoMemory
  <2>1. call.key \in Key
    BY <1>15, <1>3 DEF ExpandNoMemory, Expanding
  <2>2. Keep
    BY <2>1, <1>15, <1>2, <1>4, <1>5 DEF ExpandNoMemory, Codes
  <2> QED BY <2>2, <1>15, <1>7 DEF ExpandNoMemory
<1>16. CASE ExpandOverflow
  <2>1. call \in [key : Key, value : Value, want : Nat]
    BY <1>16, <1>3 DEF ExpandOverflow, Expanding
  <2>2. Scaled(call.want) \in Nat /\ 2 * Scaled(call.want) \in Nat
    BY <2>1, BucketCountType
  <2>3. Expanded(2 * Scaled(call.want)) \in Nat
    BY <2>2, BucketCountType
  <2>4. call' \in [key : Key, value : Value, want : Nat]
    BY <2>1, <2>3, <1>16 DEF ExpandOverflow
  <2> QED BY <2>4, <1>7, <1>2, <1>16 DEF ExpandOverflow
<1>17. CASE ExpandRefill
  <2> DEFINE n == BucketCount(call.want)
  <2>1. call \in [key : Key, value : Value, want : Nat] /\ call.want > 0
    BY <1>17, <1>3 DEF ExpandRefill, Expanding
  <2>2. n \in Nat \ {0}
    BY <2>1, BucketCountType
  <2>3. Fits(n) /\ table' = Refilled(n) /\ buckets' = n
    BY <1>17 DEF ExpandRefill
  <2>4. SlotInv' /\ Count' = Count
    <3>1. CASE buckets = 0
      <4>1. Occupied(table) = {} /\ DOMAIN table = {}
        BY <3>1, <1>1, NoBuckets, SizeAssumption DEF SlotInv, Capacity
      <4>2. Walked = {}
        BY <4>1 DEF Walked
      <4>3. table' = NewTable(n)
        BY <4>2, <2>3 DEF Refilled, NewTable
      <4>4. SlotInv' /\ Count' = 0
        BY <4>3, <2>2, <2>3, EmptyStep
      <4>5. Count = 0
        BY <4>1, FS_EmptySet DEF Count
      <4> QED BY <4>4, <4>5
    <3>2. CASE buckets # 0
      <4>1. buckets > 0
        BY <3>2, <1>1 DEF SlotInv
      <4> HIDE DEF n
      <4> QED BY <4>1, <1>1, <2>2, <2>3, RefillStep
    <3> QED BY <3>1, <3>2
  <2>5. call' \in [key : Key, value : Value, want : Nat]
    BY <2>1, <1>17 DEF ExpandRefill
  <2>6. Keep /\ size' = size /\ nullEntry' = nullEntry
    BY <2>5, <1>17, <1>2 DEF ExpandRefill
  <2> QED BY <2>4, <2>6, <1>1, <1>2, Assemble
<1>18. CASE NoTable
  BY <1>18, <1>7, <1>2 DEF NoTable, Break
<1>19. CASE RemoveNullKey
  <2>1. SlotInv' /\ Count' = Count
    BY <1>1, <1>19, SameDict DEF RemoveNullKey
  <2>2. Keep /\ nullEntry' = Empty
    BY <1>19, <1>2, <1>5 DEF RemoveNullKey, Codes
  <2>3. size' = Count
    BY <1>1, <1>19 DEF RemoveNullKey
  <2> QED BY <2>1, <2>2, <2>3, <1>1, Assemble
<1>20. ASSUME NEW k \in Key, Remove(k) PROVE IInv'
  <2>1. PICK i \in Bucket(k, buckets), last \in Bucket(k, buckets) :
          /\ Holds(k, i)
          /\ last >= i /\ table[last].key # Null
          /\ \A j \in Bucket(k, buckets) : j > last => table[j].key = Null
          /\ table' = [table EXCEPT ![i] = table[last], ![last] = Empty]
    BY <1>20 DEF Remove
  <2>2. SlotInv' /\ Count' = Count - 1 /\ Count > 0
    BY <1>1, <1>20, <2>1, RemoveStep DEF Remove
  <2>3. Keep /\ nullEntry' = nullEntry /\ size' = size - 1
    BY <1>20, <1>2, <1>5 DEF Remove, Codes
  <2>4. Count - 1 \in Nat
    BY <1>1, <2>2
  <2>5. size' = (Count - 1) + (IF nullEntry' = Empty THEN 0 ELSE 1)
    BY <1>1, <2>3
  <2> QED BY <2>2, <2>3, <2>4, <2>5, <1>2, Assemble
<1>21. ASSUME NEW k \in Key, RemoveMissing(k) PROVE IInv'
  BY <1>21, <1>7, <1>2, <1>5 DEF RemoveMissing, Codes
<1>22. CASE FindNullKey
  <2>1. nullEntry # Empty => nullEntry.value \in Value
    BY <1>2 DEF NullKeyEntry
  <2>2. Keep
    BY <2>1, <1>22, <1>2, <1>5 DEF FindNullKey, Codes
  <2> QED BY <2>2, <1>22, <1>7 DEF FindNullKey
<1>23. ASSUME NEW k \in Key, Find(k) PROVE IInv'
  <2>1. \A i \in DOMAIN table : table[i].value \in Value \cup {Null}
    BY <1>1 DEF SlotInv, Entry, Empty
  <2>2. Keep
    BY <2>1, <1>23, <1>2, <1>5 DEF Find, Codes
  <2> QED BY <2>2, <1>23, <1>7 DEF Find
<1>24. ASSUME NEW k \in Key, FindPastEnd(k) PROVE IInv'
  BY <1>24, <1>7, <1>2 DEF FindPastEnd, Break
<1>25. CASE Clear \/ Release
  <2>1. buckets' = buckets /\ buckets \in Nat /\ table' = NewTable(buckets)
    BY <1>1, <1>25 DEF Clear, Release, Emptied, SlotInv, NewTable, Capacity
  <2>2. SlotInv' /\ Count' = 0
    BY <2>1, EmptyStep
  <2>3. Keep /\ nullEntry' = Empty /\ size' = 0
    BY <1>25, <1>2, <1>5 DEF Clear, Release, Emptied
  <2> QED BY <2>2, <2>3, Assemble
<1> QED
  BY <1>8, <1>9, <1>10, <1>11, <1>12, <1>13, <1>14, <1>15, <1>16, <1>17, <1>18,
     <1>19, <1>20, <1>21, <1>22, <1>23, <1>24, <1>25 DEF Next, AddStep

LEMMA Inductive == Spec => []IInv
BY InitInv, StepInv, PTL DEF Spec

\* The variables of the dictionary keep their types; in particular size, an
\* unsigned counter, is never decremented at zero.
THEOREM TypeCorrect == Spec => []TypeOK
BY Inductive, PTL DEF IInv

\* Whatever calls are made, however keys collide and wherever a refill or a
\* removal moves an entry, every entry stays in the bucket its key selects,
\* behind no hole, and is the only one of its key.
THEOREM StructureCorrect == Spec => []Placement
BY Inductive, PTL DEF IInv, Placement

\* d->size is the number of entries, of the table and of the NULL key.
THEOREM SizeCorrect == Spec => []SizeExact
BY Inductive, PTL DEF IInv

-----------------------------------------------------------------------------
(* The dictionary is the map RDictMap describes.                           *)

\* The bindings, told by the slots.
BindingsSound ==
  /\ DOMAIN Bindings = KeysOf(table, nullEntry)
  /\ Bindings = [k \in DOMAIN Bindings |-> Bindings[k]]
  /\ \A i \in Occupied(table) : table[i].key \in Key /\ Bindings[table[i].key] = table[i].value
  /\ nullEntry # Empty => Bindings[Null] = nullEntry.value

LEMMA BindingsOfSlots == IInv => BindingsSound
<1> SUFFICES ASSUME IInv PROVE BindingsSound
  OBVIOUS
<1>1. \A i \in Occupied(table) : table[i].key \in Key
  BY DEF IInv, TypeOK, Occupied, Entry, Empty
<1>2. ASSUME NEW i \in Occupied(table) PROVE Bindings[table[i].key] = table[i].value
  <2>1. SlotOf(table[i].key) = i
    BY DEF IInv, KeysUnique, SlotOf
  <2>2. table[i].key \in KeysOf(table, nullEntry) /\ table[i].key # Null
    BY DEF KeysOf, Occupied
  <2> QED BY <2>1, <2>2 DEF Bindings
<1>3. nullEntry # Empty => Bindings[Null] = nullEntry.value
  BY DEF Bindings, KeysOf
<1> QED BY <1>1, <1>2, <1>3 DEF BindingsSound, Bindings

\* A function that agrees with the slots is the bindings.
LEMMA BindingsAre ==
  ASSUME IInv', NEW g, g = [k \in DOMAIN g |-> g[k]],
         DOMAIN g = KeysOf(table', nullEntry'),
         \A i \in Occupied(table') : g[table'[i].key] = table'[i].value,
         nullEntry' # Empty => g[Null] = nullEntry'.value
  PROVE  Bindings' = g
<1>1. BindingsSound'
  <2>1. (IInv => BindingsSound)'
    BY BindingsOfSlots, PTL
  <2> QED BY <2>1
<1>2. /\ DOMAIN Bindings' = KeysOf(table', nullEntry')
      /\ Bindings' = [k \in DOMAIN Bindings' |-> Bindings'[k]]
      /\ \A i \in Occupied(table') : Bindings'[table'[i].key] = table'[i].value
      /\ nullEntry' # Empty => Bindings'[Null] = nullEntry'.value
  BY <1>1 DEF BindingsSound, Empty
<1>3. ASSUME NEW k \in KeysOf(table', nullEntry') PROVE Bindings'[k] = g[k]
  BY <1>2 DEF KeysOf
<1> QED BY <1>2, <1>3

\* An entry that is there is met by the walk from its bucket: a walk that
\* ends at an empty slot proves that the key has no entry.
LEMMA WalkMeets ==
  ASSUME IInv, buckets > 0, NEW k \in Key, NEW i \in DOMAIN table, ScanStops(k, i)
  PROVE  table[i].key = Null => k \notin DOMAIN Bindings
<1> SUFFICES ASSUME table[i].key = Null, k \in DOMAIN Bindings PROVE FALSE
  OBVIOUS
<1>1. PICK j \in Occupied(table) : table[j].key = k
  BY KeyAssumption DEF Bindings, KeysOf
<1>2. j \in Home(k, buckets) .. Home(k, buckets) + BucketCapacity - 1
  BY <1>1 DEF IInv, InOwnBucket, Bucket
<1>3. \A h \in Home(k, buckets) .. j : table[h].key # Null
  BY <1>1 DEF IInv, NoHoles
<1>4. Home(k, buckets) \in Nat
  BY HomeInTable DEF IInv, TypeOK
<1>5. /\ i \in Nat /\ i >= Home(k, buckets)
      /\ \A h \in Home(k, buckets) .. i - 1 : table[h].key # k
  BY <1>4 DEF ScanStops, IInv, TypeOK
<1>6. ~(j < i)
  BY <1>1, <1>2, <1>4, <1>5
<1>7. i \in Home(k, buckets) .. j
  BY <1>2, <1>4, <1>5, <1>6, SizeAssumption
<1> QED BY <1>3, <1>7

LEMMA HoldsMeets ==
  ASSUME IInv, buckets > 0, NEW k \in Key,
         ~ \E i \in Bucket(k, buckets) : Holds(k, i)
  PROVE  k \notin DOMAIN Bindings
<1> SUFFICES ASSUME k \in DOMAIN Bindings PROVE FALSE
  OBVIOUS
<1>1. PICK j \in Occupied(table) : table[j].key = k
  BY KeyAssumption DEF Bindings, KeysOf
<1>2. j \in Bucket(k, buckets)
  BY <1>1 DEF IInv, InOwnBucket
<1>3. \A h \in Home(k, buckets) .. j : table[h].key # Null
  BY <1>1 DEF IInv, NoHoles
<1>4. Home(k, buckets) \in Nat
  BY HomeInTable DEF IInv, TypeOK
<1>5. \A h \in Home(k, buckets) .. j - 1 : table[h].key # Null
  BY <1>2, <1>3, <1>4, SizeAssumption DEF Bucket
<1> QED BY <1>1, <1>2, <1>5 DEF Holds

\* The steps that change what is stored.
LEMMA StoreMaps ==
  ASSUME IInv, IInv', AddStore
  PROVE  \E k \in Key, v \in Value : Map!Put(k, v)
<1> DEFINE k == call.key
           v == call.value
           g == [x \in DOMAIN Bindings \cup {k} |-> IF x = k THEN v ELSE Bindings[x]]
<1>1. PICK i \in DOMAIN table :
        /\ ScanStops(k, i) /\ ~NoRoom(i)
        /\ table' = [table EXCEPT ![i] = [key |-> k, value |-> v]]
  BY DEF AddStore
<1>2. /\ k \in Key /\ v \in Value /\ buckets > 0
      /\ nullEntry' = nullEntry /\ ret' = Answer("added", k, v)
  BY DEF AddStore, Adding, IInv, TypeOK, NoCall
<1>3. table[i].key \in {Null, k}
  <2>1. Capacity \in Nat /\ i \in 0 .. Capacity - 1
    BY <1>2, SizeAssumption DEF Capacity, IInv, TypeOK
  <2> QED BY <2>1, <1>1 DEF ScanStops
<1>4. /\ table'[i] = [key |-> k, value |-> v]
      /\ \A j \in DOMAIN table : j # i => table'[j] = table[j]
      /\ DOMAIN table' = DOMAIN table
  BY <1>1 DEF IInv, TypeOK
<1>5. Occupied(table') = Occupied(table) \cup {i}
  BY <1>2, <1>4, KeyAssumption DEF Occupied
<1>6. \A j \in Occupied(table) : j # i => table[j].key # k
  <2> SUFFICES ASSUME NEW j \in Occupied(table), j # i, table[j].key = k PROVE FALSE
    OBVIOUS
  <2>1. table[i].key = Null
    BY <1>2, <1>3, KeyAssumption DEF IInv, KeysUnique, Occupied
  <2> QED BY <2>1, <1>1, <1>2, WalkMeets DEF Bindings, KeysOf
<1>7. BindingsSound
  BY BindingsOfSlots
<1>8. DOMAIN g = KeysOf(table', nullEntry')
  <2>1. {table'[j].key : j \in Occupied(table')} = {table[j].key : j \in Occupied(table)} \cup {k}
    BY <1>3, <1>4, <1>5 DEF Occupied
  <2> QED BY <2>1, <1>2, <1>7 DEF BindingsSound, KeysOf
<1>9. \A j \in Occupied(table') : g[table'[j].key] = table'[j].value
  BY <1>2, <1>4, <1>5, <1>6, <1>7 DEF BindingsSound, KeysOf, Occupied
<1>10. nullEntry' # Empty => g[Null] = nullEntry'.value
  BY <1>2, <1>7, KeyAssumption DEF BindingsSound, KeysOf
<1>11. Bindings' = g
  <2>1. g = [x \in DOMAIN g |-> g[x]]
    OBVIOUS
  <2> HIDE DEF g
  <2> QED BY <1>8, <1>9, <1>10, <2>1, BindingsAre
<1> QED BY <1>2, <1>11 DEF Map!Put, Map!Answer, Answer

LEMMA RemoveMaps ==
  ASSUME IInv, IInv', NEW k \in Key, Remove(k)
  PROVE  Map!Del(k)
<1> DEFINE g == [x \in DOMAIN Bindings \ {k} |-> Bindings[x]]
<1>1. PICK i \in Bucket(k, buckets), last \in Bucket(k, buckets) :
        /\ Holds(k, i)
        /\ last >= i /\ table[last].key # Null
        /\ table' = [table EXCEPT ![i] = table[last], ![last] = Empty]
  BY DEF Remove
<1>2. nullEntry' = nullEntry /\ ret' = Answer("removed", k, Null) /\ buckets > 0
  BY DEF Remove
<1>3. i \in DOMAIN table /\ last \in DOMAIN table
  BY <1>2, BucketInTable DEF IInv, TypeOK, SlotInv
<1>4. table[i].key = k /\ i \in Occupied(table) /\ last \in Occupied(table)
  BY <1>1, <1>3, KeyAssumption DEF Holds, Occupied
<1>5. /\ DOMAIN table' = DOMAIN table
      /\ table'[last] = Empty
      /\ i # last => table'[i] = table[last]
      /\ \A j \in DOMAIN table : j # i /\ j # last => table'[j] = table[j]
  BY <1>1, <1>3 DEF IInv, TypeOK
<1>6. Occupied(table') = Occupied(table) \ {last}
  BY <1>4, <1>5 DEF Occupied, Empty
<1>7. BindingsSound
  BY BindingsOfSlots
<1>8. \A j \in Occupied(table) : j # i => table[j].key # k
  BY <1>4 DEF IInv, KeysUnique
<1>9. ASSUME NEW j \in Occupied(table')
      PROVE  \E h \in Occupied(table) \ {i} : table'[j] = table[h]
  BY <1>4, <1>5, <1>6 DEF Occupied
<1>10. ASSUME NEW h \in Occupied(table) \ {i}
       PROVE  \E j \in Occupied(table') : table'[j] = table[h]
  <2>1. CASE h = last
    BY <2>1, <1>4, <1>5, <1>6
  <2>2. CASE h # last
    BY <2>2, <1>5, <1>6 DEF Occupied
  <2> QED BY <2>1, <2>2
<1>11. DOMAIN g = KeysOf(table', nullEntry')
  <2>1. {table'[j].key : j \in Occupied(table')} = {table[h].key : h \in Occupied(table) \ {i}}
    BY <1>9, <1>10
  <2>2. {table[h].key : h \in Occupied(table) \ {i}} = {table[h].key : h \in Occupied(table)} \ {k}
    BY <1>4, <1>8
  <2> QED BY <2>1, <2>2, <1>2, <1>7, KeyAssumption DEF BindingsSound, KeysOf
<1>12. \A j \in Occupied(table') : g[table'[j].key] = table'[j].value
  <2> SUFFICES ASSUME NEW j \in Occupied(table') PROVE g[table'[j].key] = table'[j].value
    OBVIOUS
  <2>1. PICK h \in Occupied(table) \ {i} : table'[j] = table[h]
    BY <1>9
  <2>2. table[h].key # k /\ Bindings[table[h].key] = table[h].value
    BY <1>7, <1>8 DEF BindingsSound
  <2>3. table[h].key \in DOMAIN Bindings
    BY <1>7 DEF BindingsSound, KeysOf
  <2> QED BY <2>1, <2>2, <2>3
<1>13. nullEntry' # Empty => g[Null] = nullEntry'.value
  BY <1>2, <1>7, KeyAssumption DEF BindingsSound, KeysOf
<1>14. Bindings' = g
  <2>1. g = [x \in DOMAIN g |-> g[x]]
    OBVIOUS
  <2> HIDE DEF g
  <2> QED BY <1>11, <1>12, <1>13, <2>1, BindingsAre
<1>15. k \in DOMAIN Bindings
  BY <1>4, <1>7 DEF BindingsSound, KeysOf
<1> QED BY <1>2, <1>14, <1>15 DEF Map!Del, Map!Answer, Answer

LEMMA RefillMaps ==
  ASSUME IInv, IInv', ExpandRefill
  PROVE  Bindings' = Bindings /\ ret' = ret
<1> DEFINE n == BucketCount(call.want)
<1>1. nullEntry' = nullEntry /\ ret' = ret
  BY DEF ExpandRefill
<1>2. BindingsSound
  BY BindingsOfSlots
<1>3. \A s \in Occupied(table') : \E i \in Occupied(table) : table'[s] = table[i]
  <2>1. n \in Nat \ {0} /\ Fits(n) /\ table' = Refilled(n)
    BY BucketCountType DEF ExpandRefill, Expanding, IInv, TypeOK, NoCall
  <2>2. CASE buckets = 0
    <3>1. Occupied(table) = {} /\ DOMAIN table = {}
      BY <2>2, NoBuckets, SizeAssumption DEF IInv, TypeOK, SlotInv, Capacity
    <3>2. Walked = {}
      BY <3>1 DEF Walked
    <3> QED BY <3>2, <2>1 DEF Refilled, Occupied, Empty
  <2>3. CASE buckets # 0
    <3>1. Structured
      BY <2>3 DEF IInv, TypeOK, Structured
    <3> HIDE DEF n
    <3> QED BY <3>1, <2>1, RefilledFacts, WalkedAll
  <2> QED BY <2>2, <2>3
<1>4. \A i \in Occupied(table) : \E s \in Occupied(table') : table'[s] = table[i]
  <2>1. n \in Nat \ {0} /\ Fits(n) /\ table' = Refilled(n)
    BY BucketCountType DEF ExpandRefill, Expanding, IInv, TypeOK, NoCall
  <2>2. CASE buckets = 0
    BY <2>2, NoBuckets DEF IInv, TypeOK, SlotInv
  <2>3. CASE buckets # 0
    <3>1. Structured
      BY <2>3 DEF IInv, TypeOK, Structured
    <3> HIDE DEF n
    <3> QED BY <3>1, <2>1, RefilledFacts, WalkedAll
  <2> QED BY <2>2, <2>3
<1>5. KeysOf(table', nullEntry') = KeysOf(table, nullEntry)
  BY <1>1, <1>3, <1>4 DEF KeysOf
<1> QED BY <1>1, <1>2, <1>3, <1>5, BindingsAre DEF BindingsSound


\* The steps that leave the dictionary alone, or empty it.
LEMMA EmptiedMaps ==
  ASSUME Occupied(table') = {}, nullEntry' = Empty
  PROVE  Bindings' = <<>>
<1>1. KeysOf(table', nullEntry') = {}
  BY DEF KeysOf, Empty
<1> QED BY <1>1 DEF Bindings, Empty, KeysOf

LEMMA SameBindings ==
  ASSUME UNCHANGED dict
  PROVE  Bindings' = Bindings
BY DEF dict, Bindings, SlotOf

LEMMA InitMaps == Init => Map!Init
<1> SUFFICES ASSUME Init PROVE Bindings = <<>> /\ ret = Ok
  BY DEF Map!Init, Map!Ok, Map!Answer, Ok, Answer
<1>1. Occupied(table) = {} /\ nullEntry = Empty
  BY DEF Init, NewTable, Occupied, Empty
<1>2. KeysOf(table, nullEntry) = {}
  BY <1>1 DEF KeysOf
<1> QED BY <1>2 DEF Init, Bindings

LEMMA StepMaps == IInv /\ IInv' /\ [Next]_vars => [Map!Next]_(Map!vars)
<1> SUFFICES ASSUME IInv, IInv', [Next]_vars
             PROVE  Map!Next \/ (Bindings' = Bindings /\ ret' = ret)
  BY DEF Map!vars
<1> USE DEF Map!Next
<1>1. CASE UNCHANGED <<dict, ret>>
  BY <1>1, SameBindings
<1>2. CASE Create
  BY <1>2, EmptiedMaps DEF Create, NewTable, Occupied, Empty, Map!Clear, Map!Ok, Map!Answer, Ok, Answer
<1>3. CASE AddStore
  BY <1>3, StoreMaps
<1>4. CASE ExpandRefill
  BY <1>4, RefillMaps
<1>5. CASE ExpandNoMemory
  <2>1. call.key \in Key
    BY <1>5 DEF ExpandNoMemory, Expanding, IInv, TypeOK, NoCall
  <2> QED BY <2>1, <1>5, SameBindings DEF ExpandNoMemory, Map!PutFails, Map!Answer, Answer
<1>6. CASE RemoveNullKey
  <2>1. nullEntry' = Empty /\ ret' = Answer("removed", Null, Null) /\ table' = table
    BY <1>6 DEF RemoveNullKey
  <2>2. Bindings' = [x \in DOMAIN Bindings \ {Null} |-> Bindings[x]]
    BY <2>1, KeyAssumption DEF Bindings, KeysOf, SlotOf, Occupied
  <2> QED BY <2>1, <2>2 DEF Map!Del, Map!Answer, Answer
<1>7. CASE FindNullKey
  <2>1. Bindings' = Bindings
    BY <1>7, SameBindings DEF FindNullKey
  <2>2. Null \in DOMAIN Bindings <=> nullEntry # Empty
    BY DEF Bindings, KeysOf, Occupied
  <2>3. nullEntry # Empty => Bindings[Null] = nullEntry.value
    BY BindingsOfSlots DEF BindingsSound
  <2> QED BY <1>7, <2>1, <2>2, <2>3
          DEF FindNullKey, Map!Get, Map!GetMissing, Map!Answer, Answer
<1>8. CASE Clear \/ Release
  <2>1. Occupied(table') = {} /\ nullEntry' = Empty /\ ret' = Ok
    BY <1>8 DEF Clear, Release, Emptied, Occupied, Empty
  <2> QED BY <2>1, EmptiedMaps DEF Map!Clear, Map!Ok, Map!Answer, Ok, Answer
<1>9. ASSUME NEW v \in Value, AddNullKey(v) PROVE Map!Next
  <2> DEFINE g == [x \in DOMAIN Bindings \cup {Null} |-> IF x = Null THEN v ELSE Bindings[x]]
  <2>1. /\ nullEntry' # Empty /\ nullEntry'.value = v
        /\ ret' = Answer("added", Null, v) /\ table' = table
    BY <1>9, KeyAssumption DEF AddNullKey, Empty
  <2>2. Bindings' = g
    BY <2>1, KeyAssumption DEF Bindings, KeysOf, SlotOf, Occupied, Empty
  <2> QED BY <2>1, <2>2 DEF Map!Put, Map!Answer, Answer
<1>10. ASSUME NEW k \in Key, Remove(k) PROVE Map!Next
  BY <1>10, RemoveMaps
<1>11. ASSUME NEW k \in Key, RemoveMissing(k) PROVE Map!Next
  BY <1>11, SameBindings, HoldsMeets DEF RemoveMissing, Map!DelMissing, Map!Answer, Answer
<1>12. ASSUME NEW k \in Key, Find(k) PROVE Map!Next
  <2>1. PICK i \in DOMAIN table :
          /\ ScanStops(k, i)
          /\ ret' = IF table[i].key = k THEN Answer("item", k, table[i].value)
                                        ELSE Answer("null", k, Null)
    BY <1>12 DEF Find
  <2>2. Bindings' = Bindings /\ buckets > 0
    BY <1>12, SameBindings DEF Find
  <2>3. CASE table[i].key = k
    <3>1. k \in DOMAIN Bindings /\ Bindings[k] = table[i].value
      BY <2>3, BindingsOfSlots, KeyAssumption DEF BindingsSound, KeysOf, Occupied
    <3> QED BY <2>1, <2>2, <2>3, <3>1 DEF Map!Get, Map!Answer, Answer
  <2>4. CASE table[i].key # k
    <3>1. Capacity \in Nat /\ i \in 0 .. Capacity - 1
      BY SizeAssumption DEF Capacity, IInv, TypeOK
    <3>2. k \notin DOMAIN Bindings
      BY <2>1, <2>2, <2>4, <3>1, WalkMeets DEF ScanStops
    <3> QED BY <2>1, <2>2, <2>4, <3>2 DEF Map!GetMissing, Map!Answer, Answer
  <2> QED BY <2>3, <2>4
<1>13. CASE AddNoTable \/ AddPastEnd \/ AddNoRoom \/ ExpandOverflow \/ NoTable
  BY <1>13, <1>1 DEF AddNoTable, AddPastEnd, AddNoRoom, ExpandOverflow, NoTable, Break
<1>14. ASSUME NEW k \in Key, (\E v \in Value : AddCall(k, v)) \/ FindPastEnd(k)
       PROVE  Bindings' = Bindings /\ ret' = ret
  <2>1. UNCHANGED <<dict, ret>>
    BY <1>14 DEF AddCall, FindPastEnd, Break
  <2> QED BY <2>1, SameBindings
<1>15. CASE UNCHANGED vars
  BY <1>15, <1>1 DEF vars
<1> QED BY <1>2, <1>3, <1>4, <1>5, <1>6, <1>7, <1>8, <1>9, <1>10, <1>11, <1>12, <1>13, <1>14, <1>15
        DEF Next, AddStep

\* Seen from its callers the dictionary is a plain map: every call takes
\* effect in one step, on the key it was made with, or reports its error for
\* that key and changes nothing; a refill, however many entries it moves,
\* changes no binding; a find of a key that is bound answers with its value,
\* and only a find of one that is not answers with NULL.
THEOREM MapRefined == Spec => ImplementsMap
<1>1. Init => Map!Init
  BY InitMaps
<1>2. Spec => []IInv
  BY Inductive
<1>3. IInv /\ IInv' /\ [Next]_vars => [Map!Next]_(Map!vars)
  BY StepMaps
<1> QED BY <1>1, <1>2, <1>3, PTL DEF Spec, ImplementsMap, Map!Spec

-----------------------------------------------------------------------------
(* The table an iterator walks                                             *)

\* What an iterator needs of the dictionary besides: a refill always makes the
\* table larger, so that it is noticed; and with buckets of one slot nothing is
\* ever stored, so that the last bucket, which rdict_next does not look at, is
\* empty then.
RoomInv ==
  /\ call.want > 0 => call.want > Capacity
  /\ ~live => call = NoCall
  /\ BucketCapacity = 1 => Occupied(table) = {}

\* The keys from slot p on, and those rdict_next has returned when it stands on p
Ahead(t, p) == {t[i].key : i \in {i \in Occupied(t) : i >= p}}
Passed(t, e, p) ==
  {t[i].key : i \in {i \in Occupied(t) : i < p}} \cup IF e = Empty THEN {} ELSE {Null}

WalkInv ==
  /\ IterTypeOK /\ IsFiniteSet(iter.seen)
  /\ ~live => iter.phase = "none"
  /\ iter.phase \in {"none", "start"} => iter.pos = 0 /\ iter.seen = {} /\ iter.returned = 0
  /\ iter.phase = "none" => iter.touched = {}
  /\ "add" \notin iter.touched => iter.returned = Cardinality(iter.seen)
  /\ iter.phase = "in" /\ "add" \notin iter.touched => Ahead(table, iter.pos) \cap iter.seen = {}
  /\ iter.phase = "in" /\ iter.touched = {} => iter.seen = Passed(table, nullEntry, iter.pos)
  /\ iter.phase = "done" /\ iter.touched = {} => iter.seen = StoredKeys

LEMMA CapacityType == \A n \in Nat : n * BucketCapacity \in Nat
BY SizeAssumption

\* A refill makes the table larger: rdict_expand asks for more slots than there
\* are, and _expand_buckets never allocates fewer than it was asked for.
LEMMA Grows ==
  ASSUME NEW c \in Nat, c > 0
  PROVE  /\ Scaled(c) \in Nat /\ Scaled(c) >= c /\ Expanded(c) > c
         /\ Expanded(2 * Scaled(c)) > c
         /\ BucketCount(c) * BucketCapacity >= c
<1>1. Scaled(c) \in Nat /\ Scaled(c) >= c
  BY DEF Scaled
<1>2. \A d \in Nat : d > 0 => Expanded(d) > d
  BY SizeAssumption DEF Expanded
<1> DEFINE s == Scaled(c)
           b == BucketCapacity
<1>3. s \in Nat /\ s >= c /\ b \in Nat \ {0}
  BY <1>1, SizeAssumption
<1> HIDE DEF s, b
<1>4. Expanded(2 * s) > c
  <2> DEFINE d == 2 * s
  <2>1. d \in Nat /\ d > c
    BY <1>3
  <2> HIDE DEF d
  <2>2. Expanded(d) > d /\ Expanded(d) \in Nat
    BY <1>2, <2>1, BucketCountType
  <2> QED BY <2>1, <2>2 DEF d
<1>5. ((s + b - 1) \div b) * b >= s
  <2> DEFINE n == s + b - 1
             x == (n \div b) * b
  <2>1. n \in Nat
    BY <1>3
  <2>2. n < x + b /\ n \div b \in Nat
    <3> HIDE DEF n
    <3> QED BY <1>3, <2>1
  <2>3. x \in Nat
    <3> DEFINE m == n \div b
    <3>1. m \in Nat
      BY <2>2
    <3> HIDE DEF m
    <3>2. m * b \in Nat
      BY <3>1, <1>3
    <3> QED BY <3>2 DEF m
  <2> HIDE DEF x
  <2>4. x >= s
    BY <1>3, <2>2, <2>3
  <2> QED BY <2>4 DEF x
<1>6. BucketCount(c) * BucketCapacity >= c
  <2> DEFINE x == BucketCount(c) * BucketCapacity
  <2>1. x >= s
    BY <1>5 DEF BucketCount, s, b
  <2>2. x \in Nat
    <3> DEFINE m == BucketCount(c)
    <3>1. m \in Nat
      BY BucketCountType
    <3> HIDE DEF m
    <3> QED BY <3>1, SizeAssumption DEF m
  <2> HIDE DEF x
  <2>3. x >= c
    BY <2>1, <2>2, <1>3
  <2> QED BY <2>3 DEF x
<1> QED BY <1>1, <1>2, <1>4, <1>6 DEF s

LEMMA RefillGrows ==
  ASSUME IInv, RoomInv, ExpandRefill
  PROVE  Capacity' > Capacity /\ Capacity' \in Nat /\ Capacity \in Nat
<1> DEFINE c == call.want
           x == BucketCount(c) * BucketCapacity
<1>1. c \in Nat /\ c > 0 /\ c > Capacity
  BY DEF ExpandRefill, Expanding, IInv, TypeOK, NoCall, RoomInv
<1>2. Capacity \in Nat
  BY SizeAssumption DEF IInv, TypeOK, Capacity
<1>3. x >= c
  <2> HIDE DEF c
  <2> QED BY <1>1, Grows
<1>4. x \in Nat
  <2> DEFINE m == BucketCount(c)
  <2>1. m \in Nat
    BY <1>1, BucketCountType
  <2> HIDE DEF m
  <2> QED BY <2>1, SizeAssumption DEF m
<1>5. Capacity' = x
  BY DEF ExpandRefill, Capacity
<1>6. x > Capacity
  <2> HIDE DEF x, c
  <2> QED BY <1>1, <1>2, <1>3, <1>4
<1> QED BY <1>2, <1>4, <1>5, <1>6

LEMMA RoomInit == Init => RoomInv
BY DEF Init, RoomInv, NoCall, NewTable, Occupied, Empty

LEMMA RoomStep == IInv /\ RoomInv /\ [Next]_vars => RoomInv'
<1> SUFFICES ASSUME IInv, RoomInv, [Next]_vars PROVE RoomInv'
  OBVIOUS
<1>1. Capacity \in Nat /\ IInv'
  BY StepInv, SizeAssumption DEF IInv, TypeOK, Capacity
<1>2. call.key # Null => call \in [key : Key, value : Value, want : Nat] /\ live
  BY DEF IInv, TypeOK, NoCall, RoomInv
<1>3. NoCall.want = 0
  BY DEF NoCall
<1>4. ASSUME UNCHANGED <<table, buckets, live>>, call' = call PROVE RoomInv'
  BY <1>4 DEF RoomInv, Capacity, Occupied
<1>5. ASSUME call' = NoCall, Occupied(table') \subseteq Occupied(table) \/ BucketCapacity # 1
      PROVE  RoomInv'
  BY <1>5, <1>3 DEF RoomInv
<1>6. CASE Create
  <2>1. call' = call /\ call = NoCall /\ Occupied(table') = {}
    BY <1>6 DEF Create, RoomInv, NewTable, Occupied, Empty
  <2> QED BY <2>1, <1>5
<1>7. ASSUME NEW v \in Value, NEW k \in Key, AddCall(k, v) PROVE RoomInv'
  BY <1>7 DEF AddCall, dict, Ready, RoomInv, Capacity, Occupied
<1>8. CASE AddNoRoom
  <2>1. call.key # Null /\ call' = [call EXCEPT !.want = Expanded(Capacity)] /\ buckets > 0
        /\ UNCHANGED <<table, buckets, live>>
    BY <1>8 DEF AddNoRoom, Adding, dict
  <2>2. call' = [call EXCEPT !.want = Expanded(Capacity)] /\ call.key # Null /\ live /\ Capacity > 0
    <3>1. buckets * BucketCapacity > 0
      BY <2>1, SizeAssumption DEF IInv, TypeOK
    <3> QED BY <3>1, <2>1, <1>2 DEF Capacity
  <2>3. Expanded(Capacity) > Capacity
    BY <1>1, <2>2, Grows
  <2>4. call'.want = Expanded(Capacity)
    BY <1>2, <2>2
  <2>5. Capacity' = Capacity /\ Occupied(table') = Occupied(table)
    BY <2>1 DEF Capacity, Occupied
  <2> QED BY <2>1, <2>2, <2>3, <2>4, <2>5 DEF RoomInv
<1>9. CASE AddStore
  <2>1. PICK i \in DOMAIN table : ScanStops(call.key, i) /\ ~NoRoom(i)
    BY <1>9 DEF AddStore
  <2>2. call.key \in Key /\ buckets > 0 /\ call' = NoCall
    BY <1>9, <1>2 DEF AddStore, Adding
  <2>3. BucketCapacity # 1
    <3>1. Home(call.key, buckets) \in Nat /\ i \in Nat
      BY <2>2, HomeInTable DEF IInv, TypeOK
    <3> QED BY <3>1, <2>1 DEF ScanStops, NoRoom
  <2> QED BY <2>2, <2>3, <1>5
<1>10. CASE ExpandNoMemory
  BY <1>10, <1>5 DEF ExpandNoMemory, dict, Occupied
<1>11. CASE ExpandOverflow
  <2> DEFINE w == call.want
  <2>1. /\ call.key # Null /\ w \in Nat /\ w > 0 /\ w > Capacity /\ live
        /\ call' = [call EXCEPT !.want = Expanded(2 * Scaled(w))]
        /\ UNCHANGED <<table, buckets, live>>
    BY <1>11, <1>2 DEF ExpandOverflow, Expanding, dict, RoomInv
  <2>2. call'.want = Expanded(2 * Scaled(w))
    BY <2>1, <1>2
  <2>3. Expanded(2 * Scaled(w)) > w /\ Expanded(2 * Scaled(w)) \in Nat
    <3> HIDE DEF w
    <3>1. 2 * Scaled(w) \in Nat
      BY <2>1, Grows
    <3>2. Expanded(2 * Scaled(w)) \in Nat
      BY <3>1, BucketCountType
    <3> QED BY <3>2, <2>1, Grows
  <2>4. Capacity' = Capacity /\ Occupied(table') = Occupied(table)
    BY <2>1 DEF Capacity, Occupied
  <2>5. call'.want > Capacity'
    <3> DEFINE y == Expanded(2 * Scaled(w))
    <3>1. y \in Nat /\ y > w /\ w \in Nat /\ w > Capacity
      BY <2>1, <2>3
    <3> HIDE DEF y, w
    <3>2. y > Capacity
      BY <3>1, <1>1
    <3> QED BY <3>2, <2>2, <2>4 DEF y, w
  <2> QED BY <2>1, <2>4, <2>5 DEF RoomInv
<1>12. CASE ExpandRefill
  <2>1. call.key # Null /\ call' = [call EXCEPT !.want = 0] /\ live' = live
    BY <1>12 DEF ExpandRefill, Expanding
  <2>2. call'.want = 0 /\ live'
    BY <2>1, <1>2
  <2>3. BucketCapacity = 1 => Occupied(table') = {}
    <3> SUFFICES ASSUME BucketCapacity = 1 PROVE Occupied(table') = {}
      OBVIOUS
    <3>1. Occupied(table) = {}
      BY DEF RoomInv
    <3>2. KeysOf(table', nullEntry') = KeysOf(table, nullEntry)
      <4>1. Bindings' = Bindings
        BY <1>1, <1>12, RefillMaps
      <4> QED BY <4>1 DEF Bindings, KeysOf, Empty
    <3>3. KeysOf(table, nullEntry) \subseteq {Null}
      BY <3>1 DEF KeysOf
    <3> QED BY <3>2, <3>3 DEF KeysOf, Occupied
  <2> QED BY <2>2, <2>3 DEF RoomInv
<1>13. ASSUME NEW k \in Key, Remove(k) PROVE RoomInv'
  <2>1. PICK i \in Bucket(k, buckets), last \in Bucket(k, buckets) :
          /\ Holds(k, i)
          /\ table[last].key # Null
          /\ table' = [table EXCEPT ![i] = table[last], ![last] = Empty]
    BY <1>13 DEF Remove
  <2>2. i \in DOMAIN table /\ last \in DOMAIN table /\ call' = NoCall /\ i \in Occupied(table)
    BY <1>13, <2>1, BucketInTable, KeyAssumption
       DEF Remove, Ready, IInv, TypeOK, SlotInv, Holds, Occupied
  <2>3. Occupied(table') \subseteq Occupied(table)
    BY <2>1, <2>2 DEF Occupied, IInv, TypeOK
  <2> QED BY <2>2, <2>3, <1>5
<1>14. CASE Clear \/ Release
  <2>1. call' = NoCall /\ Occupied(table') = {}
    BY <1>14 DEF Clear, Release, Ready, Emptied, Occupied, Empty
  <2> QED BY <2>1, <1>5
<1>15. CASE UNCHANGED <<table, buckets, live, call>>
  BY <1>15, <1>4
<1>16. CASE AddNoTable \/ AddPastEnd \/ NoTable \/ RemoveNullKey \/ FindNullKey \/ UNCHANGED vars
  BY <1>16, <1>15 DEF AddNoTable, AddPastEnd, NoTable, RemoveNullKey, FindNullKey, Break, dict, vars
<1>17. ASSUME NEW v \in Value, AddNullKey(v) PROVE RoomInv'
  BY <1>17, <1>15 DEF AddNullKey
<1>18. ASSUME NEW k \in Key, RemoveMissing(k) \/ Find(k) \/ FindPastEnd(k) PROVE RoomInv'
  BY <1>18, <1>15 DEF RemoveMissing, Find, FindPastEnd, Break, dict
<1> QED
  BY <1>6, <1>7, <1>8, <1>9, <1>10, <1>11, <1>12, <1>13, <1>14, <1>16, <1>17, <1>18
     DEF Next, AddStep

-----------------------------------------------------------------------------
(* The walk of rdict_next                                                  *)

\* No entry hides between the slot it.next stands on and the first candidate:
\* the entry, the slot rdict_next stands on when that is in the same bucket, or
\* the first slot of the entry's bucket is a candidate, and none of them is
\* behind the entry.
LEMMA CandidateBefore ==
  ASSUME IInv, RoomInv, iter.pos \in Nat, NEW j \in Occupied(table), j >= iter.pos
  PROVE  \E c \in Candidates : c <= j
<1> DEFINE p == iter.pos
           k == table[j].key
           h == Home(k, buckets)
<1>1. Structured /\ BucketCapacity # 1
  BY NoBuckets DEF IInv, TypeOK, SlotInv, RoomInv
<1>2. k \in Key /\ j \in 0 .. Capacity - 1 /\ DOMAIN table = 0 .. Capacity - 1
  BY <1>1, OccupiedFacts DEF Structured
<1>3. h \in Nat /\ h + BucketCapacity <= Capacity /\ Capacity \in Nat
  BY <1>1, <1>2, HomeInTable, SizeAssumption DEF Structured, Capacity
<1>4. h <= j /\ \A i \in h .. j : table[i].key # Null
  BY <1>2, <1>3 DEF IInv, InOwnBucket, Bucket, NoHoles
<1>5. \A i \in h .. j : i \in Occupied(table)
  <2> HIDE DEF h
  <2> QED BY <1>2, <1>3, <1>4 DEF Occupied
<1>6. h % BucketCapacity = 0
  <2> DEFINE r == Hash[k] % buckets
  <2>1. r \in Nat
    BY <1>1, <1>2, HashAssumption DEF Structured
  <2> HIDE DEF r
  <2>2. (r * BucketCapacity) % BucketCapacity = 0
    BY <2>1, SizeAssumption
  <2> QED BY <2>2 DEF r, Home
<1>7. CASE h > p
  <2>1. h < Capacity - 1
    <3> HIDE DEF h
    <3> QED BY <1>1, <1>3, SizeAssumption
  <2>2. h \in Candidates
    BY <1>3, <1>4, <1>5, <1>6, <1>7, <2>1 DEF Candidates
  <2> QED BY <2>2, <1>4
<1>8. CASE ~(h > p)
  <2>1. p \in h .. j
    <3> HIDE DEF h
    <3> QED BY <1>2, <1>3, <1>8
  <2>2. p \in Candidates
    BY <2>1, <1>5 DEF Candidates
  <2> QED BY <2>1, <2>2
<1> QED BY <1>7, <1>8

LEMMA CandidateAhead ==
  ASSUME IInv, iter.pos \in Nat, NEW c \in Candidates
  PROVE  c \in Occupied(table) /\ c >= iter.pos /\ c \in 0 .. Capacity - 1
<1>1. c \in Occupied(table) /\ (c = iter.pos \/ c > iter.pos)
  BY DEF Candidates
<1>2. c \in 0 .. Capacity - 1
  BY <1>1 DEF Occupied, IInv, TypeOK
<1> QED BY <1>1, <1>2

\* A store that adds no key overwrites the entry of its key.
LEMMA OverwriteKeeps ==
  ASSUME IInv, AddStore, StoredKeys' \subseteq StoredKeys
  PROVE  /\ Occupied(table') = Occupied(table)
         /\ \A j \in Occupied(table) : table'[j].key = table[j].key
<1> DEFINE k == call.key
<1>0. Capacity \in Nat /\ DOMAIN table = 0 .. Capacity - 1
  BY SizeAssumption DEF IInv, TypeOK, Capacity
<1>1. PICK i \in DOMAIN table :
        /\ ScanStops(k, i)
        /\ table' = [table EXCEPT ![i] = [key |-> k, value |-> call.value]]
  BY DEF AddStore
<1>2. k \in Key /\ buckets > 0 /\ k # Null
  BY KeyAssumption DEF AddStore, Adding, IInv, TypeOK, NoCall
<1>3. DOMAIN table' = DOMAIN table /\ table'[i].key = k
      /\ \A j \in DOMAIN table : j # i => table'[j] = table[j]
  BY <1>1 DEF IInv, TypeOK
<1>4. k \in StoredKeys
  BY <1>2, <1>3 DEF StoredKeys, KeysOf, Occupied, Empty
<1>5. table[i].key = k
  <2>1. table[i].key \in {Null, k}
    BY <1>0, <1>1 DEF ScanStops
  <2>2. table[i].key # Null
    BY <1>1, <1>2, <1>4, WalkMeets DEF Bindings, StoredKeys
  <2> QED BY <2>1, <2>2
<1> QED BY <1>2, <1>3, <1>5 DEF Occupied

\* What a call that keeps the table leaves an iterator: unless a key was added,
\* nothing comes to lie ahead of a slot that was not ahead of it before, since
\* a removal only moves the last entry of a bucket forward.
LEMMA AheadShrinks ==
  ASSUME IInv, RoomInv, live, Next, buckets' = buckets, StoredKeys' \subseteq StoredKeys,
         NEW p \in Nat
  PROVE  Ahead(table', p) \subseteq Ahead(table, p)
<1>1. Capacity \in Nat /\ DOMAIN table = 0 .. Capacity - 1
  BY SizeAssumption DEF IInv, TypeOK, Capacity
<1>2. CASE table' = table
  BY <1>2
<1>3. CASE Occupied(table') = {}
  BY <1>3 DEF Ahead
<1>4. CASE AddStore
  BY <1>4, OverwriteKeeps DEF Ahead
<1>5. ASSUME NEW k \in Key, Remove(k) PROVE Ahead(table', p) \subseteq Ahead(table, p)
  <2>1. PICK i \in Bucket(k, buckets), last \in Bucket(k, buckets) :
          /\ Holds(k, i) /\ last >= i /\ table[last].key # Null
          /\ table' = [table EXCEPT ![i] = table[last], ![last] = Empty]
    BY <1>5 DEF Remove
  <2>2. i \in DOMAIN table /\ last \in DOMAIN table /\ i \in Nat /\ last \in Nat
    BY <1>1, <1>5, <2>1, BucketInTable DEF Remove, IInv, TypeOK, SlotInv
  <2>3. /\ DOMAIN table' = DOMAIN table /\ table'[last] = Empty
        /\ i # last => table'[i] = table[last]
        /\ \A j \in DOMAIN table : j # i /\ j # last => table'[j] = table[j]
    BY <2>1, <2>2 DEF IInv, TypeOK
  <2>4. ASSUME NEW j \in Occupied(table'), j >= p
        PROVE  \E h \in Occupied(table) : h >= p /\ table'[j].key = table[h].key
    <3>1. j # last /\ j \in DOMAIN table
      BY <2>3 DEF Occupied, Empty
    <3>2. CASE j = i
      <4>1. last \in Occupied(table) /\ last >= p /\ table'[j].key = table[last].key
        BY <3>1, <3>2, <2>1, <2>2, <2>3, <2>4 DEF Occupied
      <4> QED BY <4>1
    <3>3. CASE j # i
      <4>1. table'[j] = table[j] /\ j \in Occupied(table)
        BY <3>1, <3>3, <2>3 DEF Occupied
      <4> QED BY <4>1, <2>4
    <3> QED BY <3>2, <3>3
  <2> QED BY <2>4 DEF Ahead
<1>6. CASE ExpandRefill
  <2>1. Capacity' = Capacity
    BY DEF Capacity
  <2> QED BY <2>1, <1>6, RefillGrows
<1>7. CASE Create
  BY <1>7 DEF Create
<1>8. CASE Clear \/ Release
  <2>1. Occupied(table') = {}
    BY ONLY <1>8 DEF Clear, Release, Emptied, Occupied, Empty
  <2> QED BY <2>1, <1>3
<1>9. CASE AddNoTable \/ AddPastEnd \/ AddNoRoom \/ ExpandNoMemory \/ ExpandOverflow
           \/ NoTable \/ RemoveNullKey \/ FindNullKey
  BY <1>9, <1>2 DEF AddNoTable, AddPastEnd, AddNoRoom, ExpandNoMemory, ExpandOverflow,
                    NoTable, RemoveNullKey, FindNullKey, Break, dict
<1>10. ASSUME NEW k \in Key, RemoveMissing(k) \/ Find(k) \/ FindPastEnd(k)
       PROVE  table' = table
  BY <1>10 DEF RemoveMissing, Find, FindPastEnd, Break, dict
<1>11. ASSUME NEW v \in Value, AddNullKey(v) \/ \E k \in Key : AddCall(k, v)
       PROVE  table' = table
  BY <1>11 DEF AddNullKey, AddCall, dict
<1> QED BY <1>2, <1>4, <1>5, <1>6, <1>7, <1>8, <1>9, <1>10, <1>11 DEF Next, AddStep

\* And when the keys are the same ones, those of the slots behind p are.
LEMMA PassedStays ==
  ASSUME IInv, RoomInv, live, Next, buckets' = buckets, StoredKeys' = StoredKeys,
         NEW p \in Nat
  PROVE  Passed(table', nullEntry', p) = Passed(table, nullEntry, p)
<1>1. Capacity \in Nat /\ DOMAIN table = 0 .. Capacity - 1
  BY SizeAssumption DEF IInv, TypeOK, Capacity
<1>2. (nullEntry' = Empty) = (nullEntry = Empty)
  BY DEF StoredKeys, KeysOf, Occupied, Empty
<1>3. CASE table' = table
  BY <1>2, <1>3 DEF Passed
<1>4. CASE Occupied(table') = {}
  <2>1. Occupied(table) = {}
    BY <1>2, <1>4 DEF StoredKeys, KeysOf, Occupied, Empty
  <2> QED BY <2>1, <1>2, <1>4 DEF Passed
<1>5. CASE AddStore
  BY <1>2, <1>5, OverwriteKeeps DEF Passed
<1>6. ASSUME NEW k \in Key, Remove(k) PROVE FALSE
  <2>1. k \in DOMAIN Bindings /\ Bindings' = [x \in DOMAIN Bindings \ {k} |-> Bindings[x]]
    <3>1. IInv'
      BY StepInv
    <3>2. Map!Del(k)
      BY <3>1, <1>6, RemoveMaps
    <3> QED BY <3>2, KeyAssumption DEF Map!Del
  <2>2. StoredKeys' = DOMAIN Bindings' /\ StoredKeys = DOMAIN Bindings
    BY DEF Bindings, StoredKeys
  <2> QED BY <2>1, <2>2
<1>7. CASE ExpandRefill
  <2>1. Capacity' = Capacity
    BY DEF Capacity
  <2> QED BY <2>1, <1>7, RefillGrows
<1>8. CASE Create
  BY <1>8 DEF Create
<1>9. CASE Clear \/ Release
  <2>1. Occupied(table') = {}
    BY ONLY <1>9 DEF Clear, Release, Emptied, Occupied, Empty
  <2> QED BY <2>1, <1>4
<1>10. CASE AddNoTable \/ AddPastEnd \/ AddNoRoom \/ ExpandNoMemory \/ ExpandOverflow
            \/ NoTable \/ RemoveNullKey \/ FindNullKey
  BY <1>10, <1>3 DEF AddNoTable, AddPastEnd, AddNoRoom, ExpandNoMemory, ExpandOverflow,
                     NoTable, RemoveNullKey, FindNullKey, Break, dict
<1>11. ASSUME NEW k \in Key, RemoveMissing(k) \/ Find(k) \/ FindPastEnd(k)
       PROVE  table' = table
  BY <1>11 DEF RemoveMissing, Find, FindPastEnd, Break, dict
<1>12. ASSUME NEW v \in Value, AddNullKey(v) \/ \E k \in Key : AddCall(k, v)
       PROVE  table' = table
  BY <1>12 DEF AddNullKey, AddCall, dict
<1> QED BY <1>3, <1>5, <1>6, <1>7, <1>8, <1>9, <1>10, <1>11, <1>12 DEF Next, AddStep

\* A table is replaced by rdict_create or a refill only, and never by a smaller one.
LEMMA TableKept ==
  ASSUME IInv, RoomInv, live, Next
  PROVE  Capacity' >= Capacity /\ Capacity \in Nat /\ Capacity' \in Nat
<1>1. Capacity \in Nat
  BY SizeAssumption DEF IInv, TypeOK, Capacity
<1>2. CASE buckets' = buckets
  BY <1>1, <1>2 DEF Capacity
<1>3. CASE ExpandRefill
  BY <1>3, RefillGrows
<1> QED BY <1>2, <1>3
        DEF Next, AddStep, Create, AddNoTable, AddPastEnd, AddNoRoom, AddStore,
            ExpandNoMemory, ExpandOverflow, NoTable, RemoveNullKey, FindNullKey, Clear,
            Release, AddNullKey, AddCall, Remove, RemoveMissing, Find, FindPastEnd, Break, dict

-----------------------------------------------------------------------------
(* IterationSound                                                          *)

IterInv == IInv /\ RoomInv /\ WalkInv

LEMMA IterInitInv == IterInit => IterInv
<1> SUFFICES ASSUME IterInit PROVE IterInv
  OBVIOUS
<1>1. IInv /\ RoomInv
  BY InitInv, RoomInit DEF IterInit
<1>2. Capacity \in Nat
  BY <1>1, SizeAssumption DEF IInv, TypeOK, Capacity
<1>3. iter = NoIter /\ NoIter.phase = "none" /\ NoIter.pos = 0 /\ NoIter.seen = {}
      /\ NoIter.returned = 0 /\ NoIter.touched = {}
  BY DEF IterInit, NoIter
<1>4. IterTypeOK
  BY <1>2, <1>3 DEF IterTypeOK, NoIter
<1>5. IsFiniteSet({}) /\ Cardinality({}) = 0
  BY FS_EmptySet
<1> QED BY <1>1, <1>3, <1>4, <1>5 DEF IterInv, WalkInv

\* The caller's calls to the dictionary.
LEMMA DictStepWalk ==
  ASSUME IterInv, DictStep
  PROVE  IterInv'
<1>1. IInv /\ RoomInv /\ Next /\ WalkInv
  BY DEF IterInv, DictStep
<1>2. IInv' /\ RoomInv'
  BY <1>1, StepInv, RoomStep
<1>3. Capacity' \in Nat
  BY <1>2, CapacityType DEF IInv, TypeOK, Capacity
<1>4. IterTypeOK /\ IsFiniteSet(iter.seen)
  BY <1>1 DEF WalkInv
<1>5. IsFiniteSet({}) /\ Cardinality({}) = 0
  BY FS_EmptySet
<1>6. CASE ~live'
  <2>1. iter' = NoIter
    BY <1>6 DEF DictStep
  <2>2. NoIter.phase = "none" /\ NoIter.pos = 0 /\ NoIter.seen = {}
        /\ NoIter.returned = 0 /\ NoIter.touched = {}
    BY DEF NoIter
  <2>3. IterTypeOK'
    BY <1>3, <2>1 DEF IterTypeOK, NoIter
  <2> QED BY <1>2, <1>5, <2>1, <2>2, <2>3 DEF IterInv, WalkInv
<1>7. CASE live'
  <2> DEFINE t == IF iter.phase = "none" THEN iter.touched ELSE iter.touched \cup Touched
             f == IF iter.phase \in {"start", "in", "done"} /\ Dangles
                  THEN "stale" ELSE iter.phase
  <2>1. iter' = [iter EXCEPT !.touched = t, !.phase = f]
    BY <1>7 DEF DictStep
  <2>2. Touched \subseteq {"add", "remove"}
    BY DEF Touched
  <2>3. t \subseteq {"add", "remove"} /\ f \in {"none", "start", "in", "done", "stale"}
    BY <1>4, <2>2 DEF IterTypeOK
  <2>4. /\ iter'.phase = f /\ iter'.touched = t
        /\ iter'.pos = iter.pos /\ iter'.seen = iter.seen /\ iter'.returned = iter.returned
    <3> HIDE DEF t, f
    <3> QED BY <1>4, <2>1 DEF IterTypeOK
  <2>5. iter.pos \in 0 .. Capacity'
    <3>1. CASE live
      <4>1. Capacity' >= Capacity /\ Capacity \in Nat
        BY <3>1, <1>1, TableKept
      <4>2. iter.pos \in 0 .. Capacity
        BY <1>4 DEF IterTypeOK
      <4> QED BY <4>1, <4>2, <1>3
    <3>2. CASE ~live
      BY <3>2, <1>1, <1>3 DEF WalkInv
    <3> QED BY <3>1, <3>2
  <2>6. IterTypeOK'
    <3>1. iter' \in [phase : {"none", "start", "in", "done", "stale"}, pos : 0 .. Capacity',
                     seen : SUBSET (Key \cup {Null}), returned : Nat,
                     touched : SUBSET {"add", "remove"}]
      <4> HIDE DEF t, f
      <4> QED BY <1>4, <2>1, <2>3, <2>5 DEF IterTypeOK
    <3> QED BY <3>1 DEF IterTypeOK, Capacity
  <2>7. f = "none" => iter.phase = "none"
    OBVIOUS
  <2>8. f \in {"start", "in", "done"} => f = iter.phase /\ live /\ buckets' = buckets
    BY <1>1 DEF WalkInv, Dangles
  <2>9. "add" \notin t => "add" \notin iter.touched /\ (f # "none" => StoredKeys' \subseteq StoredKeys)
    BY <2>7 DEF Touched
  <2>10. t = {} => iter.touched = {} /\ (f # "none" => StoredKeys' = StoredKeys)
    <3> SUFFICES ASSUME t = {} PROVE iter.touched = {} /\ (f # "none" => StoredKeys' = StoredKeys)
      OBVIOUS
    <3>1. iter.touched = {} /\ (f # "none" => Touched = {})
      BY <2>7
    <3>2. Touched = {} => StoredKeys' \subseteq StoredKeys /\ StoredKeys \subseteq StoredKeys'
      BY DEF Touched
    <3> QED BY <3>1, <3>2
  <2>11. iter.pos \in Nat
    BY <2>5, <1>3
  <2> HIDE DEF t, f
  <2>12. f = "in" /\ "add" \notin t => Ahead(table', iter.pos) \cap iter.seen = {}
    <3> SUFFICES ASSUME f = "in", "add" \notin t PROVE Ahead(table', iter.pos) \cap iter.seen = {}
      OBVIOUS
    <3>1. live /\ buckets' = buckets /\ StoredKeys' \subseteq StoredKeys
      BY <2>8, <2>9
    <3>2. PICK p : p = iter.pos
      OBVIOUS
    <3>3. Ahead(table', p) \subseteq Ahead(table, p)
      BY <3>1, <3>2, <1>1, <2>11, AheadShrinks
    <3>4. Ahead(table, p) \cap iter.seen = {}
      BY <3>2, <1>1, <2>8, <2>9 DEF WalkInv
    <3> QED BY <3>2, <3>3, <3>4
  <2>13. f = "in" /\ t = {} => iter.seen = Passed(table', nullEntry', iter.pos)
    <3> SUFFICES ASSUME f = "in", t = {} PROVE iter.seen = Passed(table', nullEntry', iter.pos)
      OBVIOUS
    <3>1. live /\ buckets' = buckets /\ StoredKeys' = StoredKeys
      BY <2>8, <2>10
    <3>2. PICK p : p = iter.pos
      OBVIOUS
    <3>3. Passed(table', nullEntry', p) = Passed(table, nullEntry, p)
      BY <3>1, <3>2, <1>1, <2>11, PassedStays
    <3>4. iter.seen = Passed(table, nullEntry, p)
      BY <3>2, <1>1, <2>8, <2>10 DEF WalkInv
    <3> QED BY <3>2, <3>3, <3>4
  <2>14. f = "done" /\ t = {} => iter.seen = StoredKeys'
    BY <1>1, <2>8, <2>10 DEF WalkInv
  <2>15. "add" \notin t => iter.returned = Cardinality(iter.seen)
    BY <1>1, <2>9 DEF WalkInv
  <2>16. f \in {"none", "start"} => iter.pos = 0 /\ iter.seen = {} /\ iter.returned = 0
    BY <1>1, <2>7, <2>8 DEF WalkInv
  <2>17. f = "none" => t = {}
    BY <1>1, <2>7 DEF WalkInv, t
  <2>18. WalkInv'
    <3>1. IterTypeOK' /\ IsFiniteSet(iter'.seen) /\ (~live' => iter'.phase = "none")
      BY <1>4, <1>7, <2>4, <2>6
    <3> QED BY <3>1, <2>4, <2>12, <2>13, <2>14, <2>15, <2>16, <2>17
            DEF WalkInv, Ahead, Passed, Occupied, StoredKeys, KeysOf, Empty
  <2> QED BY <1>2, <2>18 DEF IterInv
<1> QED BY <1>6, <1>7

\* What a walk needs when rdict_next looks for the next entry: nothing was
\* returned yet when it has not begun.
LEMMA AtScan ==
  ASSUME IterInv, Scanning
  PROVE  /\ iter.pos \in Nat /\ iter.pos <= Capacity /\ Capacity \in Nat
         /\ "add" \notin iter.touched => Ahead(table, iter.pos) \cap iter.seen = {}
         /\ iter.touched = {} => iter.seen = Passed(table, nullEntry, iter.pos)
<1>1. Capacity \in Nat
  BY SizeAssumption DEF IterInv, IInv, TypeOK, Capacity
<1>2. iter.pos \in 0 .. Capacity
  BY DEF IterInv, WalkInv, IterTypeOK
<1>3. CASE iter.phase = "in"
  BY <1>1, <1>2, <1>3 DEF IterInv, WalkInv
<1>4. CASE iter.phase = "start" /\ nullEntry = Empty
  <2>1. iter.pos = 0 /\ iter.seen = {}
    BY <1>4 DEF IterInv, WalkInv
  <2>2. \A i \in Occupied(table) : ~(i < 0)
    BY <1>1 DEF Occupied, IterInv, IInv, TypeOK
  <2>3. Passed(table, nullEntry, 0) = {}
    BY <1>4, <2>2 DEF Passed
  <2> QED BY <1>1, <2>1, <2>3
<1> QED BY <1>3, <1>4 DEF Scanning

\* rdict_next: the dictionary stays as it is.
LEMMA YieldKeeps ==
  ASSUME IterInv, UNCHANGED <<dict, live, call, wild>>,
         ret' \in Answers
  PROVE  IInv' /\ RoomInv'
<1>1. SlotInv
  BY DEF IterInv, IInv, TypeOK, SlotInv
<1>2. SlotInv' /\ Count' = Count
  BY <1>1, SameDict DEF dict
<1>3. Count \in Nat /\ size = Count + (IF nullEntry = Empty THEN 0 ELSE 1)
  BY <1>1, NoBuckets DEF IterInv, IInv, SizeExact, Count
<1>4. IInv'
  BY <1>2, <1>3, Assemble DEF dict, IterInv, IInv, TypeOK
<1>5. RoomInv'
  BY DEF IterInv, RoomInv, dict, Capacity, Occupied
<1> QED BY <1>4, <1>5

LEMMA YieldWalk ==
  ASSUME IterInv, live, NEW k \in Key \cup {Null}, NEW v, NEW p \in 0 .. Capacity, Yield(k, v, p),
         v \in Value \cup {Null},
         "add" \notin iter.touched => k \notin iter.seen /\ Ahead(table, p) \cap (iter.seen \cup {k}) = {},
         iter.touched = {} => iter.seen \cup {k} = Passed(table, nullEntry, p)
  PROVE  IterInv'
<1>1. /\ iter' = [iter EXCEPT !.phase = "in", !.pos = p,
                              !.seen = @ \cup {k}, !.returned = @ + 1]
      /\ UNCHANGED <<dict, live, call, wild>>
      /\ ret' = Answer("next", k, v)
  BY DEF Yield
<1>2. IInv' /\ RoomInv'
  <2>1. ret' \in Answers
    BY <1>1, AnswerType DEF Codes
  <2> QED BY <1>1, <2>1, YieldKeeps
<1>3. IterTypeOK /\ IsFiniteSet(iter.seen)
  BY DEF IterInv, WalkInv
<1>4. /\ iter'.phase = "in" /\ iter'.touched = iter.touched /\ iter'.pos = p
      /\ iter'.seen = iter.seen \cup {k} /\ iter'.returned = iter.returned + 1
  BY <1>1, <1>3 DEF IterTypeOK
<1>5. table' = table /\ nullEntry' = nullEntry /\ buckets' = buckets /\ live'
  BY <1>1 DEF dict
<1>6. IterTypeOK'
  <2>1. iter' \in [phase : {"none", "start", "in", "done", "stale"}, pos : 0 .. Capacity,
                   seen : SUBSET (Key \cup {Null}), returned : Nat,
                   touched : SUBSET {"add", "remove"}]
    <3>1. iter \in [phase : {"none", "start", "in", "done", "stale"}, pos : 0 .. Capacity,
                     seen : SUBSET (Key \cup {Null}), returned : Nat,
                     touched : SUBSET {"add", "remove"}]
      BY <1>3 DEF IterTypeOK
    <3>2. iter' = [iter EXCEPT !.phase = "in", !.pos = p,
                               !.seen = iter.seen \cup {k}, !.returned = iter.returned + 1]
      BY <1>1
    <3>3. iter.seen \cup {k} \in SUBSET (Key \cup {Null}) /\ iter.returned + 1 \in Nat
      BY <3>1
    <3> QED BY ONLY <3>1, <3>2, <3>3, p \in 0 .. Capacity
  <2> QED BY <2>1, <1>5 DEF IterTypeOK, Capacity
<1>7. IsFiniteSet(iter.seen \cup {k})
      /\ (k \notin iter.seen => Cardinality(iter.seen \cup {k}) = Cardinality(iter.seen) + 1)
  <2> DEFINE s == iter.seen
  <2>1. IsFiniteSet(s)
    BY <1>3
  <2> HIDE DEF s
  <2>2. IsFiniteSet(s \cup {k})
        /\ (k \notin s => Cardinality(s \cup {k}) = Cardinality(s) + 1)
    BY <2>1, FS_AddElement
  <2> QED BY <2>2 DEF s
<1>8. "add" \notin iter.touched => iter.returned + 1 = Cardinality(iter.seen \cup {k})
  BY <1>7 DEF IterInv, WalkInv
<1>9. WalkInv'
  BY <1>4, <1>5, <1>6, <1>7, <1>8 DEF WalkInv, Ahead, Passed, Occupied
<1> QED BY <1>2, <1>9 DEF IterInv

LEMMA NullKeyWalk ==
  ASSUME IterInv, NextNullKey
  PROVE  IterInv'
<1>1. live /\ iter.phase = "start" /\ nullEntry # Empty /\ Yield(Null, nullEntry.value, 0)
  BY DEF NextNullKey, Ready
<1>2. Capacity \in Nat /\ 0 \in 0 .. Capacity
  BY SizeAssumption DEF IterInv, IInv, TypeOK, Capacity
<1>3. nullEntry.value \in Value
  BY <1>1 DEF IterInv, IInv, TypeOK, NullKeyEntry
<1>4. iter.seen = {}
  BY <1>1 DEF IterInv, WalkInv
<1>5. \A i \in Occupied(table) : ~(i < 0) /\ table[i].key # Null
  BY <1>2 DEF Occupied, IterInv, IInv, TypeOK
<1>6. Passed(table, nullEntry, 0) = {Null} /\ Null \notin Ahead(table, 0)
  BY <1>1, <1>5 DEF Passed, Ahead
<1> QED BY <1>1, <1>2, <1>3, <1>4, <1>6, YieldWalk

LEMMA ItemWalk ==
  ASSUME IterInv, NextItem
  PROVE  IterInv'
<1>1. live /\ Scanning
  BY DEF NextItem, Scanning, Ready
<1>2. PICK c \in Candidates : (\A j \in Candidates : c <= j)
                              /\ Yield(table[c].key, table[c].value, c + 1)
  BY DEF NextItem
<1> DEFINE k == table[c].key
<1>3. IInv /\ RoomInv /\ iter.pos \in Nat /\ Capacity \in Nat
  BY <1>1, AtScan DEF IterInv
<1>4. c \in Occupied(table) /\ c >= iter.pos /\ c \in 0 .. Capacity - 1
  BY <1>3, CandidateAhead
<1>5. k \in Key /\ table[c].value \in Value
  BY <1>4, NoBuckets DEF IterInv, IInv, TypeOK, SlotInv, Entry
<1>6. Occupied(table) \subseteq 0 .. Capacity - 1
  BY <1>3 DEF Occupied, IInv, TypeOK
<1>7. \A j \in Occupied(table) : j >= iter.pos => j >= c
  <2> SUFFICES ASSUME NEW j \in Occupied(table), j >= iter.pos PROVE j >= c
    OBVIOUS
  <2>1. PICK b \in Candidates : b <= j
    BY <1>3, CandidateBefore
  <2>2. c <= b /\ b \in Nat /\ j \in Nat /\ c \in Nat
    BY <1>2, <1>3, <1>4, <1>6, CandidateAhead
  <2> QED BY <2>1, <2>2
<1>8. \A j \in Occupied(table) : j # c => table[j].key # k
  BY <1>3, <1>4 DEF IInv, KeysUnique
<1>9. Ahead(table, c + 1) \subseteq Ahead(table, iter.pos) \ {k} /\ k \in Ahead(table, iter.pos)
  <2>1. ASSUME NEW j \in Occupied(table), j >= c + 1
        PROVE  j >= iter.pos /\ table[j].key # k
    BY <2>1, <1>3, <1>4, <1>6, <1>8
  <2> QED BY <2>1, <1>4 DEF Ahead
<1>10. Passed(table, nullEntry, c + 1) = Passed(table, nullEntry, iter.pos) \cup {k}
  <2>1. ASSUME NEW j \in Occupied(table) PROVE (j < c + 1) <=> (j < iter.pos \/ j = c)
    <3>1. j \in Nat /\ c \in Nat
      BY <1>4, <1>6
    <3> QED BY <3>1, <1>3, <1>4, <1>7
  <2>2. {i \in Occupied(table) : i < c + 1} = {i \in Occupied(table) : i < iter.pos} \cup {c}
    BY <2>1, <1>4
  <2> QED BY <2>2 DEF Passed
<1>11. "add" \notin iter.touched => Ahead(table, iter.pos) \cap iter.seen = {}
  BY <1>1, AtScan
<1>12. iter.touched = {} => iter.seen = Passed(table, nullEntry, iter.pos)
  BY <1>1, AtScan
<1>13. "add" \notin iter.touched => k \notin iter.seen /\ Ahead(table, c + 1) \cap (iter.seen \cup {k}) = {}
  BY <1>9, <1>11
<1>14. iter.touched = {} => iter.seen \cup {k} = Passed(table, nullEntry, c + 1)
  BY <1>10, <1>12
<1>15. c + 1 \in 0 .. Capacity /\ k \in Key \cup {Null} /\ table[c].value \in Value \cup {Null}
  BY <1>3, <1>4, <1>5
<1> HIDE DEF k
<1> QED BY <1>1, <1>2, <1>13, <1>14, <1>15, YieldWalk DEF k

LEMMA EndWalk ==
  ASSUME IterInv, NextEnd
  PROVE  IterInv'
<1>1. /\ Scanning /\ Candidates = {} /\ live
      /\ iter' = [iter EXCEPT !.phase = "done", !.pos = 0]
      /\ ret' = Answer("end", Null, Null)
      /\ UNCHANGED <<dict, live, call, wild>>
  BY DEF NextEnd, Scanning, Ready
<1>2. IInv' /\ RoomInv'
  <2>1. ret' \in Answers
    BY <1>1, AnswerType DEF Codes
  <2> QED BY <1>1, <2>1, YieldKeeps
<1>3. IInv /\ RoomInv /\ iter.pos \in Nat /\ Capacity \in Nat
  BY <1>1, AtScan DEF IterInv
<1>4. IterTypeOK /\ IsFiniteSet(iter.seen)
  BY DEF IterInv, WalkInv
<1>5. /\ iter'.phase = "done" /\ iter'.touched = iter.touched /\ iter'.pos = 0
      /\ iter'.seen = iter.seen /\ iter'.returned = iter.returned
  BY <1>1, <1>4 DEF IterTypeOK
<1>6. table' = table /\ nullEntry' = nullEntry /\ buckets' = buckets /\ live'
  BY <1>1 DEF dict
<1>7. IterTypeOK'
  <2>1. iter' \in [phase : {"none", "start", "in", "done", "stale"}, pos : 0 .. Capacity,
                   seen : SUBSET (Key \cup {Null}), returned : Nat,
                   touched : SUBSET {"add", "remove"}]
    <3>1. iter \in [phase : {"none", "start", "in", "done", "stale"}, pos : 0 .. Capacity,
                     seen : SUBSET (Key \cup {Null}), returned : Nat,
                     touched : SUBSET {"add", "remove"}]
      BY <1>4 DEF IterTypeOK
    <3>2. iter' = [iter EXCEPT !.phase = "done", !.pos = 0] /\ 0 \in 0 .. Capacity
      BY <1>1, <1>3
    <3> QED BY ONLY <3>1, <3>2
  <2> QED BY <2>1, <1>6 DEF IterTypeOK, Capacity
<1>8. \A j \in Occupied(table) : j < iter.pos
  <2> SUFFICES ASSUME NEW j \in Occupied(table), ~(j < iter.pos) PROVE FALSE
    OBVIOUS
  <2>1. j >= iter.pos
    BY <1>3 DEF Occupied, IInv, TypeOK
  <2> QED BY <2>1, <1>1, <1>3, CandidateBefore
<1>9. iter.touched = {} => iter.seen = StoredKeys
  <2>1. {i \in Occupied(table) : i < iter.pos} = Occupied(table)
    BY <1>8
  <2>2. Passed(table, nullEntry, iter.pos) = StoredKeys
    BY <2>1 DEF Passed, StoredKeys, KeysOf
  <2> QED BY <1>1, <2>2, AtScan
<1>10. "add" \notin iter.touched => iter.returned = Cardinality(iter.seen)
  BY DEF IterInv, WalkInv
<1>11. WalkInv'
  BY <1>4, <1>5, <1>6, <1>7, <1>9, <1>10 DEF WalkInv, StoredKeys, KeysOf, Occupied
<1> QED BY <1>2, <1>11 DEF IterInv

LEMMA OpenWalk ==
  ASSUME IterInv, IterOpen
  PROVE  IterInv'
<1>1. live /\ iter' = [NoIter EXCEPT !.phase = "start"] /\ UNCHANGED vars
  BY DEF IterOpen, Ready
<1>2. IInv' /\ RoomInv'
  BY <1>1, StepInv, RoomStep DEF IterInv
<1>3. Capacity' \in Nat
  BY <1>2, CapacityType DEF IInv, TypeOK, Capacity
<1>4. iter'.phase = "start" /\ iter'.pos = 0 /\ iter'.seen = {}
      /\ iter'.returned = 0 /\ iter'.touched = {}
  BY <1>1 DEF NoIter
<1>5. IterTypeOK'
  BY <1>1, <1>3 DEF IterTypeOK, NoIter
<1>6. IsFiniteSet({}) /\ Cardinality({}) = 0
  BY FS_EmptySet
<1>7. live'
  BY <1>1 DEF vars
<1>8. WalkInv'
  BY <1>4, <1>5, <1>6, <1>7 DEF WalkInv
<1> QED BY <1>2, <1>8 DEF IterInv

LEMMA QuietWalk ==
  ASSUME IterInv, UNCHANGED itVars \/ NextWild
  PROVE  IterInv'
<1>1. UNCHANGED <<dict, live, call, ret, iter>>
      /\ wild' \in {"none", "past_end", "no_table", "stale_iterator"}
  BY DEF NextWild, Break, itVars, vars, IterInv, IInv, TypeOK
<1>2. SlotInv
  BY DEF IterInv, IInv, TypeOK, SlotInv
<1>3. SlotInv' /\ Count' = Count
  BY <1>1, <1>2, SameDict DEF dict
<1>4. Count \in Nat /\ size = Count + (IF nullEntry = Empty THEN 0 ELSE 1)
  BY <1>2, NoBuckets DEF IterInv, IInv, SizeExact, Count
<1>5. IInv'
  BY <1>1, <1>3, <1>4, Assemble DEF dict, IterInv, IInv, TypeOK
<1>6. RoomInv'
  BY <1>1 DEF IterInv, RoomInv, dict, Capacity, Occupied
<1>7. WalkInv'
  BY <1>1 DEF IterInv, WalkInv, IterTypeOK, dict, Capacity, Ahead, Passed, Occupied, StoredKeys, KeysOf
<1> QED BY <1>5, <1>6, <1>7 DEF IterInv

LEMMA IterStep == IterInv /\ [IterNext]_itVars => IterInv'
BY DictStepWalk, OpenWalk, NullKeyWalk, ItemWalk, EndWalk, QuietWalk DEF IterNext

\* An iterator over a dictionary nobody changes answers NULL only after it
\* returned every key, each of them once, the NULL key first; whatever is
\* removed on the way, it returns no key twice (rdict_it, rdict_next).
THEOREM IterationCorrect == IterSpec => []IterationSound
<1>1. IterInv => IterationSound
  BY DEF IterInv, WalkInv, IterationSound
<1> QED BY <1>1, IterInitInv, IterStep, PTL DEF IterSpec
=============================================================================
