---------------------------- MODULE MemoryProofs -----------------------------
(***************************************************************************)
(* Theorems about RPool, for every set of addresses and every size of a    *)
(* block; about RPoolChain, for every set of types; and about RBuffer, for *)
(* every size of the block and every value of its bytes.                   *)
(***************************************************************************)
EXTENDS RPool, RPoolChain, RBuffer, FiniteSetTheorems, SequenceTheorems, WellFoundedInduction, TLAPS

\* A set of naturals that is not empty has a least member.
LEMMA LeastMember ==
  ASSUME NEW T, T \subseteq Nat, T # {}
  PROVE  \E m \in T : \A k \in T : m <= k
<1> DEFINE R == {ss \in Nat \X Nat : ss[1] < ss[2]}
<1>1. R = OpToRel(<, Nat)
  BY DEF OpToRel
<1>2. IsWellFoundedOn(R, Nat)
  BY <1>1, NatLessThanWellFounded
<1> HIDE DEF R
<1>3. PICK x \in T : \A y \in T : ~ (<<y, x>> \in R)
  BY <1>2, WFMin
<1>4. ASSUME NEW y \in T PROVE ~(y < x)
  <2> SUFFICES ASSUME y < x PROVE <<y, x>> \in R
    BY <1>3
  <2>1. <<y, x>> \in Nat \X Nat
    OBVIOUS
  <2>2. <<y, x>>[1] = y /\ <<y, x>>[2] = x
    OBVIOUS
  <2> QED BY <2>1, <2>2, Zenon DEF R
<1> QED BY <1>4

-----------------------------------------------------------------------------
(* Sums                                                                    *)

\* One turn of the recursion that SumOf stands for, and what it leads to.
Picked(s) == CHOOSE x \in s : TRUE
SumTurn(f, g) == [s \in SUBSET DOMAIN f |-> IF s = {} THEN 0 ELSE f[Picked(s)] + g[s \ {Picked(s)}]]
Sums(f) == CHOOSE g : g = SumTurn(f, g)

\* A finite set without one of its members is smaller.
LEMMA Smaller ==
  ASSUME NEW S, IsFiniteSet(S), NEW x \in S
  PROVE  /\ IsFiniteSet(S \ {x}) /\ Cardinality(S \ {x}) \in Nat
         /\ Cardinality(S) \in Nat /\ Cardinality(S \ {x}) + 1 = Cardinality(S)
<1>1. Cardinality(S) \in Nat /\ Cardinality(S \ {x}) = Cardinality(S) - 1 /\ IsFiniteSet(S \ {x})
  BY FS_CardinalityType, FS_RemoveElement
<1>2. Cardinality(S \ {x}) \in Nat
  BY <1>1, FS_CardinalityType
<1> QED BY <1>1, <1>2

\* Two solutions agree on the sets on which what they sum agrees.
LEMMA TurnAgree ==
  ASSUME NEW f, NEW g, NEW f2, NEW g2, NEW S,
         g = SumTurn(f, g), g2 = SumTurn(f2, g2), IsFiniteSet(S),
         S \subseteq DOMAIN f, S \subseteq DOMAIN f2, \A x \in S : f[x] = f2[x]
  PROVE  g[S] = g2[S]
<1> DEFINE T == {Cardinality(s) : s \in {s \in SUBSET S : g[s] # g2[s]}}
<1>1. \A s \in SUBSET S : IsFiniteSet(s) /\ Cardinality(s) \in Nat
  BY FS_Subset, FS_CardinalityType
<1>2. ASSUME NEW s \in SUBSET S
      PROVE  /\ g[s] = IF s = {} THEN 0 ELSE f[Picked(s)] + g[s \ {Picked(s)}]
             /\ g2[s] = IF s = {} THEN 0 ELSE f2[Picked(s)] + g2[s \ {Picked(s)}]
  <2>1. s \in SUBSET DOMAIN f /\ s \in SUBSET DOMAIN f2
    OBVIOUS
  <2>2. g[s] = SumTurn(f, g)[s] /\ g2[s] = SumTurn(f2, g2)[s]
    OBVIOUS
  <2> QED BY <2>1, <2>2 DEF SumTurn
<1>3. T = {}
  <2> SUFFICES ASSUME T # {} PROVE FALSE
    OBVIOUS
  <2>1. T \subseteq Nat
    BY <1>1
  <2>2. PICK n \in T : \A k \in T : n <= k
    <3> HIDE DEF T
    <3> QED BY <2>1, LeastMember
  <2>3. PICK s \in SUBSET S : g[s] # g2[s] /\ n = Cardinality(s)
    BY <2>2
  <2>4. s # {}
    BY <1>2, <2>3
  <2> DEFINE x == Picked(s)
             t == s \ {x}
  <2>5. x \in s /\ t \in SUBSET S
    BY <2>4 DEF Picked
  <2>6. Cardinality(t) < n /\ Cardinality(t) \in Nat /\ n \in Nat
    BY <1>1, <2>3, <2>5, Smaller
  <2>7. Cardinality(t) \notin T
    <3> HIDE DEF T, t
    <3> QED BY <2>2, <2>6
  <2>8. g[t] = g2[t]
    BY <2>5, <2>7
  <2> HIDE DEF T
  <2> QED BY <1>2, <2>3, <2>4, <2>5, <2>8
<1> QED BY <1>3

\* The recursion has a solution: there is one for the sets of up to n members, for
\* every n.
LEMMA SumsExist ==
  ASSUME NEW f, IsFiniteSet(DOMAIN f), \A x \in DOMAIN f : f[x] \in Nat
  PROVE  /\ SumOf(f) = Sums(f)[DOMAIN f]
         /\ Sums(f) = SumTurn(f, Sums(f))
         /\ Sums(f) \in [SUBSET DOMAIN f -> Nat]
<1> DEFINE D == DOMAIN f
           Solves(g, n) == /\ g \in [SUBSET D -> Nat]
                           /\ \A s \in SUBSET D : Cardinality(s) <= n => g[s] = SumTurn(f, g)[s]
           T == {n \in Nat : ~ \E g : Solves(g, n)}
<1>1. \A s \in SUBSET D : IsFiniteSet(s) /\ Cardinality(s) \in Nat
  BY FS_Subset, FS_CardinalityType
<1>2. \A s \in SUBSET D : s # {} => Picked(s) \in s /\ s \ {Picked(s)} \in SUBSET D
                                    /\ f[Picked(s)] \in Nat
  BY DEF Picked
<1>3. ASSUME NEW g \in [SUBSET D -> Nat] PROVE SumTurn(f, g) \in [SUBSET D -> Nat]
  BY <1>2 DEF SumTurn
<1>4. \E g : Solves(g, 0)
  <2> DEFINE g == [s \in SUBSET D |-> 0]
  <2>1. ASSUME NEW s \in SUBSET D, Cardinality(s) <= 0 PROVE s = {}
    BY <1>1, <2>1, FS_EmptySet
  <2>2. g \in [SUBSET D -> Nat]
    OBVIOUS
  <2>3. \A s \in SUBSET D : Cardinality(s) <= 0 => g[s] = SumTurn(f, g)[s]
    BY <2>1 DEF SumTurn
  <2> HIDE DEF g
  <2> QED BY <2>2, <2>3
<1>5. ASSUME NEW n \in Nat, NEW g, Solves(g, n) PROVE Solves(SumTurn(f, g), n + 1)
  <2> DEFINE h == SumTurn(f, g)
  <2>1. h \in [SUBSET D -> Nat]
    BY <1>3, <1>5
  <2>2. ASSUME NEW s \in SUBSET D, Cardinality(s) <= n + 1 PROVE h[s] = SumTurn(f, h)[s]
    <3>1. CASE s = {}
      BY <3>1 DEF SumTurn
    <3>2. CASE s # {}
      <4> DEFINE x == Picked(s)
                 t == s \ {x}
      <4>1. x \in s /\ t \in SUBSET D
        BY <1>2, <3>2
      <4>2. Cardinality(t) <= n
        BY <1>1, <2>2, <4>1, Smaller
      <4>3. g[t] = h[t]
        BY <1>5, <4>1, <4>2
      <4>4. h[s] = f[x] + g[t]
        BY <3>2 DEF SumTurn
      <4>5. SumTurn(f, h)[s] = f[x] + h[t]
        <5> HIDE DEF h
        <5> QED BY <3>2 DEF SumTurn
      <4> QED BY <4>3, <4>4, <4>5
    <3> QED BY <3>1, <3>2
  <2> HIDE DEF h
  <2>3. Solves(h, n + 1)
    BY <2>1, <2>2
  <2> QED BY <2>3 DEF h
<1>6. T = {}
  <2> SUFFICES ASSUME T # {} PROVE FALSE
    OBVIOUS
  <2>1. PICK n \in T : \A k \in T : n <= k
    <3> HIDE DEF Solves
    <3> QED BY LeastMember
  <2>2. n # 0
    BY <1>4, <2>1
  <2>3. n - 1 \in Nat /\ n - 1 \notin T
    <3> HIDE DEF Solves
    <3> QED BY <2>1, <2>2
  <2> HIDE DEF Solves
  <2>4. \E g : Solves(g, n - 1)
    BY <2>3
  <2>5. \E g : Solves(g, (n - 1) + 1)
    BY <1>5, <2>3, <2>4
  <2>6. (n - 1) + 1 = n
    BY <2>1
  <2> QED BY <2>1, <2>5, <2>6
<1>7. PICK g : Solves(g, Cardinality(D))
  <2> HIDE DEF Solves
  <2>1. Cardinality(D) \in Nat
    BY FS_CardinalityType
  <2> QED BY <1>6, <2>1
<1>8. g = SumTurn(f, g)
  <2>1. \A s \in SUBSET D : Cardinality(s) <= Cardinality(D)
    BY FS_Subset
  <2>2. \A s \in SUBSET D : g[s] = SumTurn(f, g)[s]
    BY <1>7, <2>1
  <2>3. SumTurn(f, g) \in [SUBSET D -> Nat]
    BY <1>3, <1>7
  <2> QED BY <1>7, <2>2, <2>3
<1>9. Sums(f) = SumTurn(f, Sums(f))
  BY <1>8 DEF Sums
<1>10. SumOf(f) = Sums(f)[DOMAIN f]
  BY DEF SumOf, MapThenSumSet, MapThenFoldSet, Sums, SumTurn, Picked
<1>11. Sums(f) \in [SUBSET DOMAIN f -> Nat]
  <2> DEFINE h == Sums(f)
  <2>1. h = SumTurn(f, h) /\ g \in [SUBSET DOMAIN f -> Nat]
    BY <1>7, <1>9
  <2> HIDE DEF h
  <2>2. ASSUME NEW s \in SUBSET DOMAIN f PROVE h[s] = g[s]
    BY <1>1, <1>8, <2>1, TurnAgree
  <2>3. h = [s \in SUBSET DOMAIN f |-> h[s]]
    BY <2>1 DEF SumTurn
  <2>4. \A s \in SUBSET DOMAIN f : h[s] \in Nat
    BY <2>1, <2>2
  <2>5. h \in [SUBSET DOMAIN f -> Nat]
    BY ONLY <2>3, <2>4
  <2> QED BY <2>5 DEF h
<1> QED BY <1>9, <1>10, <1>11

\* Whichever member is counted first, the sum is the same.
LEMMA SumsOfMember ==
  ASSUME NEW f, IsFiniteSet(DOMAIN f), \A x \in DOMAIN f : f[x] \in Nat,
         NEW S \in SUBSET DOMAIN f, NEW y \in S
  PROVE  Sums(f)[S] = f[y] + Sums(f)[S \ {y}]
<1> DEFINE g == Sums(f)
           Wrong(s) == \E z \in s : g[s] # f[z] + g[s \ {z}]
           T == {Cardinality(s) : s \in {s \in SUBSET DOMAIN f : Wrong(s)}}
<1>1. g = SumTurn(f, g) /\ g \in [SUBSET DOMAIN f -> Nat]
  BY SumsExist
<1> HIDE DEF g
<1>2. \A s \in SUBSET DOMAIN f : IsFiniteSet(s) /\ Cardinality(s) \in Nat
  BY FS_Subset, FS_CardinalityType
<1>3. ASSUME NEW s \in SUBSET DOMAIN f, s # {}
      PROVE  Picked(s) \in s /\ g[s] = f[Picked(s)] + g[s \ {Picked(s)}]
  <2>1. g[s] = SumTurn(f, g)[s]
    BY <1>1
  <2> QED BY <1>3, <2>1 DEF SumTurn, Picked
<1>4. T = {}
  <2> SUFFICES ASSUME T # {} PROVE FALSE
    OBVIOUS
  <2>1. T \subseteq Nat
    BY <1>2
  <2>2. PICK n \in T : \A k \in T : n <= k
    <3> HIDE DEF T
    <3> QED BY <2>1, LeastMember
  <2>3. PICK s \in SUBSET DOMAIN f : Wrong(s) /\ n = Cardinality(s)
    BY <2>2
  <2>4. PICK z \in s : g[s] # f[z] + g[s \ {z}]
    BY <2>3
  <2>5. ASSUME NEW t \in SUBSET s, NEW w \in s, w \notin t, NEW v \in t
        PROVE  g[t] = f[v] + g[t \ {v}]
    <3>1. t \in SUBSET DOMAIN f /\ t \subseteq s \ {w}
      BY <2>5
    <3>2. Cardinality(t) < n /\ Cardinality(t) \in Nat
      <4>1. Cardinality(s \ {w}) + 1 = n /\ Cardinality(s \ {w}) \in Nat /\ IsFiniteSet(s \ {w})
        BY <1>2, <2>3, Smaller
      <4>2. Cardinality(t) <= Cardinality(s \ {w}) /\ Cardinality(t) \in Nat
        BY <1>2, <3>1, <4>1, FS_Subset
      <4> QED BY <4>1, <4>2
    <3>3. Cardinality(t) \notin T
      <4> HIDE DEF T
      <4>1. n \in Nat
        BY <2>1, <2>2
      <4> QED BY <2>2, <3>2, <4>1
    <3>4. ~ Wrong(t)
      <4> HIDE DEF Wrong
      <4> QED BY <3>1, <3>3
    <3> QED BY <3>4, <2>5
  <2> HIDE DEF T, Wrong
  <2> DEFINE x == Picked(s)
  <2>6. x \in s /\ g[s] = f[x] + g[s \ {x}]
    BY <1>3
  <2> HIDE DEF x
  <2>7. CASE x = z
    BY <2>4, <2>6, <2>7
  <2>8. CASE x # z
    <3> DEFINE r == (s \ {x}) \ {z}
    <3>1. r = (s \ {z}) \ {x} /\ r \in SUBSET DOMAIN f
      BY <2>8
    <3>2. g[s \ {x}] = f[z] + g[r]
      <4>1. s \ {x} \in SUBSET s /\ x \notin s \ {x} /\ z \in s \ {x}
        BY <2>8
      <4> QED BY <4>1, <2>5, <2>6
    <3>3. g[s \ {z}] = f[x] + g[r]
      <4>1. s \ {z} \in SUBSET s /\ z \notin s \ {z} /\ x \in s \ {z}
        BY <2>6, <2>8
      <4> QED BY <4>1, <2>5, <3>1
    <3>4. g[r] \in Nat /\ f[x] \in Nat /\ f[z] \in Nat
      BY <1>1, <2>6, <3>1
    <3> HIDE DEF r
    <3> QED BY <2>4, <2>6, <3>2, <3>3, <3>4
  <2> QED BY <2>7, <2>8
<1>5. ~ Wrong(S)
  <2> HIDE DEF Wrong
  <2> QED BY <1>4
<1> QED BY <1>5 DEF g

LEMMA SumType ==
  ASSUME NEW f, IsFiniteSet(DOMAIN f), \A x \in DOMAIN f : f[x] \in Nat
  PROVE  SumOf(f) \in Nat
<1>1. SumOf(f) = Sums(f)[DOMAIN f] /\ Sums(f) \in [SUBSET DOMAIN f -> Nat]
  BY SumsExist
<1>2. DOMAIN f \in SUBSET DOMAIN f
  OBVIOUS
<1> QED BY <1>1, <1>2

\* A member and the rest
LEMMA SumSplit ==
  ASSUME NEW f, IsFiniteSet(DOMAIN f), \A x \in DOMAIN f : f[x] \in Nat,
         NEW y \in DOMAIN f,
         NEW h, DOMAIN h = DOMAIN f \ {y}, \A x \in DOMAIN h : h[x] = f[x]
  PROVE  SumOf(f) = f[y] + SumOf(h) /\ SumOf(h) \in Nat /\ SumOf(f) \in Nat
<1> DEFINE g == Sums(f)
           e == Sums(h)
           S == DOMAIN f \ {y}
<1>1. IsFiniteSet(DOMAIN h) /\ \A x \in DOMAIN h : h[x] \in Nat
  BY FS_Subset
<1>2. SumOf(f) = g[DOMAIN f] /\ g = SumTurn(f, g)
  BY SumsExist
<1>3. SumOf(h) = e[DOMAIN h] /\ e = SumTurn(h, e)
  BY <1>1, SumsExist
<1>4. g[DOMAIN f] = f[y] + g[S]
  BY SumsOfMember
<1>5. g[S] = e[S]
  <2> HIDE DEF g, e
  <2>1. IsFiniteSet(S) /\ S \subseteq DOMAIN f /\ S \subseteq DOMAIN h /\ \A x \in S : f[x] = h[x]
    BY <1>1
  <2> QED BY <1>2, <1>3, <2>1, TurnAgree
<1>6. SumOf(f) \in Nat /\ SumOf(h) \in Nat
  BY <1>1, SumType
<1> QED BY <1>2, <1>3, <1>4, <1>5, <1>6

\* One summand changes.
LEMMA SumChange ==
  ASSUME NEW f, IsFiniteSet(DOMAIN f), \A x \in DOMAIN f : f[x] \in Nat,
         NEW y \in DOMAIN f,
         NEW h, DOMAIN h = DOMAIN f, \A x \in DOMAIN f \ {y} : h[x] = f[x], h[y] \in Nat
  PROVE  SumOf(h) + f[y] = SumOf(f) + h[y] /\ SumOf(h) \in Nat /\ SumOf(f) \in Nat
<1> DEFINE r == [x \in DOMAIN f \ {y} |-> f[x]]
<1>1. DOMAIN r = DOMAIN f \ {y} /\ (\A x \in DOMAIN r : r[x] = f[x]) /\ \A x \in DOMAIN r : r[x] = h[x]
  OBVIOUS
<1> HIDE DEF r
<1>2. SumOf(f) = f[y] + SumOf(r) /\ SumOf(r) \in Nat /\ SumOf(f) \in Nat
  BY <1>1, SumSplit
<1>3. \A x \in DOMAIN h : h[x] \in Nat
  OBVIOUS
<1>4. SumOf(h) = h[y] + SumOf(r) /\ SumOf(h) \in Nat
  BY <1>1, <1>3, SumSplit
<1> QED BY <1>2, <1>4

LEMMA SumEmpty == ASSUME NEW f, DOMAIN f = {} PROVE SumOf(f) = 0
<1>1. IsFiniteSet(DOMAIN f) /\ \A x \in DOMAIN f : f[x] \in Nat
  BY FS_EmptySet
<1>2. SumOf(f) = Sums(f)[{}] /\ Sums(f) = SumTurn(f, Sums(f))
  BY <1>1, SumsExist
<1>3. SumTurn(f, Sums(f))[{}] = 0
  BY DEF SumTurn
<1> QED BY <1>2, <1>3

\* Three members that count m each
LEMMA SumOfThree ==
  ASSUME NEW f, IsFiniteSet(DOMAIN f), \A x \in DOMAIN f : f[x] \in Nat,
         NEW a \in DOMAIN f, NEW b \in DOMAIN f, NEW c \in DOMAIN f,
         a # b, b # c, a # c, NEW m \in Nat, f[a] = m, f[b] = m, f[c] = m
  PROVE  SumOf(f) >= 3 * m
<1> DEFINE f1 == [x \in DOMAIN f \ {a} |-> f[x]]
           f2 == [x \in (DOMAIN f \ {a}) \ {b} |-> f[x]]
           f3 == [x \in ((DOMAIN f \ {a}) \ {b}) \ {c} |-> f[x]]
<1>1. /\ DOMAIN f1 = DOMAIN f \ {a} /\ \A x \in DOMAIN f1 : f1[x] = f[x] /\ f1[x] \in Nat
      /\ DOMAIN f2 = DOMAIN f1 \ {b} /\ \A x \in DOMAIN f2 : f2[x] = f1[x] /\ f2[x] \in Nat
      /\ DOMAIN f3 = DOMAIN f2 \ {c} /\ \A x \in DOMAIN f3 : f3[x] = f2[x] /\ f3[x] \in Nat
      /\ b \in DOMAIN f1 /\ f1[b] = m /\ c \in DOMAIN f2 /\ f2[c] = m
  OBVIOUS
<1> HIDE DEF f1, f2, f3
<1>2. IsFiniteSet(DOMAIN f1) /\ IsFiniteSet(DOMAIN f2)
  BY <1>1, FS_Subset
<1>3. SumOf(f) = m + SumOf(f1) /\ SumOf(f1) \in Nat
  BY <1>1, SumSplit
<1>4. SumOf(f1) = m + SumOf(f2) /\ SumOf(f2) \in Nat
  <2>1. /\ IsFiniteSet(DOMAIN f1) /\ \A x \in DOMAIN f1 : f1[x] \in Nat
        /\ b \in DOMAIN f1 /\ f1[b] = m
        /\ DOMAIN f2 = DOMAIN f1 \ {b} /\ \A x \in DOMAIN f2 : f2[x] = f1[x]
    BY <1>1, <1>2
  <2> QED BY ONLY <2>1, SumSplit
<1>5. SumOf(f2) = m + SumOf(f3) /\ SumOf(f3) \in Nat
  <2>1. /\ IsFiniteSet(DOMAIN f2) /\ \A x \in DOMAIN f2 : f2[x] \in Nat
        /\ c \in DOMAIN f2 /\ f2[c] = m
        /\ DOMAIN f3 = DOMAIN f2 \ {c} /\ \A x \in DOMAIN f3 : f3[x] = f2[x]
    BY <1>1, <1>2
  <2> QED BY ONLY <2>1, SumSplit
<1> QED BY <1>3, <1>4, <1>5

-----------------------------------------------------------------------------
(* A block                                                                 *)

BlockType == [total : {InitElems, AdjustElems}, free : Seq(Nat), count : Nat,
              next : Block \cup {NoBlock}, prev : Block \cup {NoBlock}]

Idle(r) == {r.free[n] : n \in DOMAIN r.free}

\* The list of a block holds numbers of its items, none of them twice, and the
\* count is its length.
BlockOK(r) == /\ r \in BlockType
              /\ r.free \in Seq(1 .. r.total) /\ r.count = Len(r.free) /\ r.count <= r.total
              /\ \A n, m \in 1 .. Len(r.free) : r.free[n] = r.free[m] => n = m

LEMMA ElemsFacts ==
  /\ InitElems \in Nat \ {0} /\ AdjustElems \in Nat \ {0}
  /\ \A n \in {InitElems, AdjustElems} : n \in Nat \ {0} /\ 1 .. n \subseteq 1 .. MaxElems
BY PoolAssumption DEF MaxElems

LEMMA NewBlockOK ==
  ASSUME NEW num \in {InitElems, AdjustElems},
         NEW before \in Block \cup {NoBlock}, NEW after \in Block \cup {NoBlock}
  PROVE  /\ BlockOK(NewBlock(num, before, after))
         /\ Idle(NewBlock(num, before, after)) = 1 .. num
         /\ NewBlock(num, before, after).free # <<>>
         /\ Head(NewBlock(num, before, after).free) = 1
<1> DEFINE l == [i \in 1 .. num |-> i]
           r == NewBlock(num, before, after)
<1>1. num \in Nat \ {0}
  BY ElemsFacts
<1>2. l \in [1 .. num -> 1 .. num] /\ l \in [1 .. num -> Nat]
  BY <1>1
<1>3. l \in Seq(1 .. num) /\ l \in Seq(Nat) /\ Len(l) = num
  BY <1>1, <1>2, SeqDef
<1>4. l # <<>> /\ Head(l) = 1
  BY <1>1, <1>3
<1>5. \A n \in 1 .. num : l[n] = n
  OBVIOUS
<1>6. {l[n] : n \in DOMAIN l} = 1 .. num
  BY <1>2, <1>5
<1> HIDE DEF l
<1>7. /\ r \in BlockType /\ r.total = num /\ r.free = l /\ r.count = num
  BY <1>1, <1>3 DEF NewBlock, BlockType, l
<1> HIDE DEF r
<1>8. BlockOK(r)
  BY <1>1, <1>3, <1>5, <1>7 DEF BlockOK
<1> QED BY <1>4, <1>6, <1>7, <1>8 DEF Idle, r

\* What rpool_get makes of the block it takes an item of, and what rpool_free makes of
\* the one it puts an item back into
Taken(r) == [r EXCEPT !.free = Tail(@), !.count = @ - 1]
Given(r, x) == [r EXCEPT !.free = <<x>> \o @, !.count = @ + 1]

LEMMA TakenOK ==
  ASSUME NEW r, BlockOK(r), r.free # <<>>
  PROVE  /\ BlockOK(Taken(r)) /\ Taken(r).total = r.total
         /\ Taken(r).next = r.next /\ Taken(r).prev = r.prev
         /\ Taken(r).count = r.count - 1 /\ Taken(r).count # r.total
         /\ Head(r.free) \in 1 .. r.total /\ Head(r.free) \in Idle(r)
         /\ Idle(Taken(r)) = Idle(r) \ {Head(r.free)}
<1> DEFINE q == Taken(r)
           l == r.free
           t == Tail(l)
           S == 1 .. r.total
<1>1. l \in Seq(S) /\ l # <<>> /\ r \in BlockType /\ r.count = Len(l) /\ r.count <= r.total
  BY DEF BlockOK
<1>2. Len(l) \in Nat \ {0} /\ DOMAIN l = 1 .. Len(l)
  BY <1>1, EmptySeq, LenProperties
<1>3. Head(l) = l[1] /\ Head(l) \in S
  <2> HIDE DEF l, S
  <2>1. 1 \in 1 .. Len(l)
    BY <1>2
  <2> QED BY <1>1, <2>1, ElementOfSeq
<1>4. /\ t \in Seq(S) /\ Len(t) = Len(l) - 1 /\ DOMAIN t = 1 .. Len(l) - 1
      /\ \A i \in 1 .. Len(l) - 1 : t[i] = l[i + 1]
  <2>1. t \in Seq(S) /\ Len(t) = Len(l) - 1 /\ \A i \in 1 .. Len(l) - 1 : t[i] = l[i + 1]
    <3> HIDE DEF l, S
    <3> QED BY <1>1, <1>2
  <2> HIDE DEF l, S, t
  <2> QED BY <2>1, LenProperties
<1>5. r.total \in Nat /\ r.count \in Nat
  BY <1>1, ElemsFacts DEF BlockType
<1>6. t \in Seq(Nat)
  <2>1. S \subseteq Nat
    OBVIOUS
  <2> HIDE DEF t, S
  <2> QED BY <1>4, <2>1, SeqMonotonic
<1> HIDE DEF t
<1>7. q = [r EXCEPT !.free = t, !.count = r.count - 1] /\ r.count - 1 \in Nat
  BY <1>1, <1>2, <1>5 DEF t, Taken
<1> HIDE DEF q
<1>8. /\ q \in BlockType /\ q.total = r.total /\ q.next = r.next /\ q.prev = r.prev
      /\ q.count = r.count - 1 /\ q.free = t
  BY ONLY <1>1, <1>6, <1>7 DEF BlockType
<1>9. \A n, m \in 1 .. Len(l) : l[n] = l[m] => n = m
  BY DEF BlockOK
<1>10. \A n, m \in 1 .. Len(t) : t[n] = t[m] => n = m
  <2> SUFFICES ASSUME NEW n \in 1 .. Len(l) - 1, NEW m \in 1 .. Len(l) - 1, l[n + 1] = l[m + 1]
               PROVE  n = m
    BY <1>4
  <2>1. n + 1 \in 1 .. Len(l) /\ m + 1 \in 1 .. Len(l)
    BY <1>2
  <2> QED BY <1>9, <2>1
<1>11. BlockOK(q)
  <2>1. r.count - 1 <= r.total /\ Len(t) = r.count - 1
    BY <1>1, <1>2, <1>4, <1>5
  <2>2. /\ q \in BlockType /\ q.free \in Seq(1 .. q.total)
        /\ q.count = Len(q.free) /\ q.count <= q.total
    BY <1>4, <1>8, <2>1
  <2>3. \A n, m \in 1 .. Len(q.free) : q.free[n] = q.free[m] => n = m
    BY <1>8, <1>10
  <2> QED BY ONLY <2>2, <2>3 DEF BlockOK
<1>12. Idle(q) = {l[n] : n \in 2 .. Len(l)}
  <2>1. \A i \in 1 .. Len(l) - 1 : i + 1 \in 2 .. Len(l)
    BY <1>2
  <2>2. \A i \in 2 .. Len(l) : i - 1 \in 1 .. Len(l) - 1 /\ (i - 1) + 1 = i
    BY <1>2
  <2>3. Idle(q) = {t[n] : n \in 1 .. Len(l) - 1}
    BY <1>4, <1>8 DEF Idle
  <2> HIDE DEF l
  <2>4. ASSUME NEW i \in 1 .. Len(l) - 1 PROVE \E n \in 2 .. Len(l) : t[i] = l[n]
    BY <1>4, <2>1
  <2>5. ASSUME NEW n \in 2 .. Len(l) PROVE \E i \in 1 .. Len(l) - 1 : l[n] = t[i]
    BY <1>4, <2>2
  <2>6. ASSUME NEW z \in Idle(q) PROVE z \in {l[n] : n \in 2 .. Len(l)}
    BY ONLY <2>3, <2>4, <2>6
  <2>7. ASSUME NEW n \in 2 .. Len(l) PROVE l[n] \in Idle(q)
    BY ONLY <2>3, <2>5, <2>7
  <2> QED BY ONLY <2>6, <2>7
<1>13. Idle(q) = Idle(r) \ {Head(r.free)}
  <2>1. Idle(r) = {l[n] : n \in 1 .. Len(l)}
    BY <1>2 DEF Idle
  <2>2. \A n \in 1 .. Len(l) : n = 1 \/ n \in 2 .. Len(l)
    BY <1>2
  <2>3. \A n \in 2 .. Len(l) : n \in 1 .. Len(l) /\ n # 1
    BY <1>2
  <2>4. 1 \in 1 .. Len(l)
    BY <1>2
  <2> HIDE DEF l
  <2> QED BY <1>3, <1>9, <1>12, <2>1, <2>2, <2>3, <2>4 DEF l
<1>14. Head(r.free) \in Idle(r)
  BY <1>2, <1>3 DEF Idle
<1>15. q.count # r.total
  BY <1>1, <1>5, <1>8
<1> QED BY <1>3, <1>8, <1>11, <1>13, <1>14, <1>15 DEF q

\* The list leaves room for an item that is in use, and when it lacks one item only,
\* that is the one.
LEMMA ListRoom ==
  ASSUME NEW r, BlockOK(r), NEW x \in 1 .. r.total, x \notin Idle(r)
  PROVE  /\ r.count < r.total
         /\ r.total = r.count + 1 => Idle(r) = 1 .. r.total \ {x}
<1> DEFINE l == r.free
           S == 1 .. r.total
           U == S \ {x}
<1>1. l \in Seq(S) /\ r.count = Len(l) /\ r.count <= r.total /\ r \in BlockType
      /\ \A n, m \in 1 .. Len(l) : l[n] = l[m] => n = m
  BY DEF BlockOK
<1>2. r.total \in Nat /\ Len(l) \in Nat
  BY <1>1, ElemsFacts DEF BlockType
<1>3. IsFiniteSet(S) /\ Cardinality(S) = r.total
  <2> DEFINE k == r.total
  <2>1. k \in Nat
    BY <1>2
  <2> HIDE DEF k
  <2>2. IsFiniteSet(1 .. k) /\ Cardinality(1 .. k) = k
    BY <2>1, FS_Interval
  <2> QED BY <2>2 DEF k
<1>4. IsFiniteSet(U) /\ Cardinality(U) = r.total - 1
  BY <1>3, FS_RemoveElement
<1>5. DOMAIN l = 1 .. Len(l) /\ \A n \in 1 .. Len(l) : l[n] \in S
  <2> HIDE DEF l, S
  <2> QED BY <1>1, LenProperties, ElementOfSeq
<1>6. \A n \in 1 .. Len(l) : l[n] \in U
  BY <1>5 DEF Idle
<1> DEFINE D == 1 .. Len(l)
           f == [n \in D |-> l[n]]
<1>7. f \in Injection(D, U)
  <2> HIDE DEF U, S, l
  <2>1. f \in [D -> U]
    BY <1>6
  <2>2. \A n, m \in D : f[n] = f[m] => n = m
    BY <1>1
  <2> HIDE DEF f, D
  <2> QED BY <2>1, <2>2 DEF Injection, IsInjective
<1>8. IsFiniteSet(D) /\ Cardinality(D) = Len(l)
  <2> DEFINE k == Len(l)
  <2>1. k \in Nat
    BY <1>2
  <2> HIDE DEF k
  <2>2. IsFiniteSet(1 .. k) /\ Cardinality(1 .. k) = k
    BY <2>1, FS_Interval
  <2> QED BY <2>2 DEF k
<1> HIDE DEF f
<1>9. Cardinality(D) <= Cardinality(U)
  <2> HIDE DEF D, U
  <2> QED BY <1>4, <1>7, FS_Injection
<1>10. r.count < r.total
  BY <1>1, <1>2, <1>4, <1>8, <1>9
<1>11. ASSUME r.total = r.count + 1 PROVE Idle(r) = U
  <2>1. Cardinality(D) = Cardinality(U)
    BY <1>1, <1>2, <1>4, <1>8, <1>11
  <2>2. f \in Surjection(D, U)
    <3> HIDE DEF D, U
    <3> QED BY <1>4, <1>7, <2>1, FS_Injection
  <2>3. \A u \in U : \E n \in D : f[n] = u
    <3> HIDE DEF D, U
    <3> QED BY <2>2 DEF Surjection
  <2> QED BY <2>3, <1>5, <1>6 DEF f, Idle
<1> QED BY <1>10, <1>11

LEMMA GivenOK ==
  ASSUME NEW r, BlockOK(r), NEW x \in 1 .. r.total, x \notin Idle(r)
  PROVE  /\ BlockOK(Given(r, x)) /\ Given(r, x).total = r.total
         /\ Given(r, x).next = r.next /\ Given(r, x).prev = r.prev
         /\ Given(r, x).count = r.count + 1 /\ Idle(Given(r, x)) = Idle(r) \cup {x}
<1> DEFINE q == Given(r, x)
           l == r.free
           t == <<x>> \o l
           S == 1 .. r.total
<1>1. l \in Seq(S) /\ r.count = Len(l) /\ r.count < r.total /\ r \in BlockType
      /\ \A n, m \in 1 .. Len(l) : l[n] = l[m] => n = m
  BY ListRoom DEF BlockOK
<1>2. r.total \in Nat /\ Len(l) \in Nat /\ DOMAIN l = 1 .. Len(l)
  <2>1. Len(l) \in Nat /\ DOMAIN l = 1 .. Len(l)
    <3> HIDE DEF l, S
    <3> QED BY <1>1, LenProperties
  <2> QED BY <2>1, <1>1, ElemsFacts DEF BlockType
<1>3. /\ t \in Seq(S) /\ Len(t) = Len(l) + 1
      /\ \A i \in 1 .. Len(l) + 1 : t[i] = IF i = 1 THEN x ELSE l[i - 1]
  <2> DEFINE e == <<x>>
  <2>1. e \in Seq(S) /\ Len(e) = 1 /\ e[1] = x
    OBVIOUS
  <2> HIDE DEF e
  <2>2. /\ e \o l \in Seq(S) /\ Len(e \o l) = Len(e) + Len(l)
        /\ \A i \in 1 .. Len(e) + Len(l) : (e \o l)[i] = IF i <= Len(e) THEN e[i] ELSE l[i - Len(e)]
    <3> HIDE DEF S, l
    <3> QED BY <1>1, <2>1, ConcatProperties
  <2> DEFINE y == e \o l
  <2>3. y \in Seq(S) /\ Len(y) = 1 + Len(l)
        /\ \A i \in 1 .. 1 + Len(l) : y[i] = IF i <= 1 THEN e[i] ELSE l[i - 1]
    BY <2>1, <2>2
  <2> HIDE DEF y, l, S
  <2>4. Len(y) = Len(l) + 1 /\ \A i \in 1 .. Len(l) + 1 : y[i] = IF i = 1 THEN x ELSE l[i - 1]
    <3>1. 1 + Len(l) = Len(l) + 1 /\ \A i \in 1 .. Len(l) + 1 : (i <= 1) <=> (i = 1)
      BY <1>2
    <3> QED BY <2>1, <2>3, <3>1
  <2> QED BY <2>3, <2>4 DEF y, e, l
<1>4. DOMAIN t = 1 .. Len(l) + 1
  <2> HIDE DEF t, S, l
  <2> QED BY <1>3, LenProperties
<1>5. t \in Seq(Nat)
  <2>1. S \subseteq Nat
    OBVIOUS
  <2> HIDE DEF t, S
  <2> QED BY <1>3, <2>1, SeqMonotonic
<1> HIDE DEF t
<1>6. q = [r EXCEPT !.free = t, !.count = r.count + 1] /\ r.count + 1 \in Nat
  BY <1>1, <1>2 DEF t, Given
<1> HIDE DEF q
<1>7. /\ q \in BlockType /\ q.total = r.total /\ q.next = r.next /\ q.prev = r.prev
      /\ q.count = r.count + 1 /\ q.free = t
  <2>1. q.free = t /\ q.count = r.count + 1 /\ q.total = r.total /\ q.next = r.next /\ q.prev = r.prev
    BY ONLY <1>1, <1>6 DEF BlockType
  <2>2. q \in BlockType
    BY ONLY <1>1, <1>5, <1>6 DEF BlockType
  <2> QED BY <2>1, <2>2
<1>8. x \notin {l[n] : n \in 1 .. Len(l)}
  BY <1>2 DEF Idle
<1>9. \A n, m \in 1 .. Len(l) + 1 : t[n] = t[m] => n = m
  <2> SUFFICES ASSUME NEW n \in 1 .. Len(l) + 1, NEW m \in 1 .. Len(l) + 1, t[n] = t[m]
               PROVE  n = m
    OBVIOUS
  <2> HIDE DEF l
  <2>1. n # 1 => n - 1 \in 1 .. Len(l)
    BY <1>2
  <2>2. m # 1 => m - 1 \in 1 .. Len(l)
    BY <1>2
  <2>3. CASE n = 1 \/ m = 1
    <3>1. n # 1 => t[n] # x
      BY <2>1, <1>3, <1>8
    <3>2. m # 1 => t[m] # x
      BY <2>2, <1>3, <1>8
    <3> QED BY <2>3, <3>1, <3>2, <1>3
  <2>4. CASE n # 1 /\ m # 1
    <3>1. l[n - 1] = l[m - 1]
      BY <2>4, <1>3
    <3>2. n - 1 = m - 1
      BY <2>1, <2>2, <2>4, <3>1, <1>1 DEF l
    <3> QED BY <3>2, <1>2
  <2> QED BY <2>3, <2>4
<1>10. BlockOK(q)
  <2>1. /\ q \in BlockType /\ q.free \in Seq(1 .. q.total)
        /\ q.count = Len(q.free) /\ q.count <= q.total
    BY <1>1, <1>2, <1>3, <1>7
  <2>2. \A n, m \in 1 .. Len(q.free) : q.free[n] = q.free[m] => n = m
    BY <1>3, <1>7, <1>9
  <2> QED BY ONLY <2>1, <2>2 DEF BlockOK
<1>11. Idle(q) = Idle(r) \cup {x}
  <2>1. Idle(r) = {l[n] : n \in 1 .. Len(l)} /\ Idle(q) = {t[n] : n \in 1 .. Len(l) + 1}
    BY <1>2, <1>4, <1>7 DEF Idle
  <2> HIDE DEF l
  <2>2. 1 \in 1 .. Len(l) + 1 /\ \A n \in 1 .. Len(l) : n + 1 \in 1 .. Len(l) + 1 /\ n + 1 # 1
                                                         /\ (n + 1) - 1 = n
    BY <1>2
  <2>3. \A n \in 1 .. Len(l) + 1 : n # 1 => n - 1 \in 1 .. Len(l)
    BY <1>2
  <2>4. t[1] = x /\ \A n \in 1 .. Len(l) : t[n + 1] = l[n]
    BY <1>3, <2>2
  <2>5. \A n \in 1 .. Len(l) + 1 : t[n] = x \/ \E m \in 1 .. Len(l) : t[n] = l[m]
    BY <1>3, <2>3
  <2>6. ASSUME NEW z \in Idle(q) PROVE z \in Idle(r) \cup {x}
    BY ONLY <2>1, <2>5, <2>6
  <2>7. ASSUME NEW n \in 1 .. Len(l) PROVE l[n] \in Idle(q)
    <3>1. n + 1 \in 1 .. Len(l) + 1 /\ t[n + 1] = l[n]
      BY <2>2, <2>4
    <3> QED BY ONLY <3>1, <2>1
  <2>8. x \in Idle(q)
    BY <2>1, <2>2, <2>4
  <2>9. Idle(r) \cup {x} \subseteq Idle(q)
    BY ONLY <2>1, <2>7, <2>8
  <2> QED BY ONLY <2>6, <2>9
<1> QED BY <1>7, <1>10, <1>11 DEF q

\* A block that is linked anew
LEMMA RelinkedOK ==
  ASSUME NEW r, BlockOK(r), NEW c \in Block \cup {NoBlock},
         NEW q, q = [r EXCEPT !.next = c] \/ q = [r EXCEPT !.prev = c]
  PROVE  /\ BlockOK(q) /\ q.total = r.total /\ q.count = r.count /\ Idle(q) = Idle(r)
         /\ q = [r EXCEPT !.next = c] => q.next = c /\ q.prev = r.prev
         /\ q = [r EXCEPT !.prev = c] => q.prev = c /\ q.next = r.next
<1>1. r \in BlockType
  BY DEF BlockOK
<1>2. /\ q \in BlockType /\ q.total = r.total /\ q.count = r.count /\ q.free = r.free
      /\ q = [r EXCEPT !.next = c] => q.next = c /\ q.prev = r.prev
      /\ q = [r EXCEPT !.prev = c] => q.prev = c /\ q.next = r.next
  BY <1>1 DEF BlockType
<1> QED BY <1>2 DEF BlockOK, Idle

-----------------------------------------------------------------------------
(* The list of the blocks                                                  *)

\* The blocks of L, in the order p in which links in bl lead from f to the end and
\* back
Chain(bl, f, L, p, n) ==
  /\ n \in Nat /\ p \in [1 .. n -> L]
  /\ \A i, j \in 1 .. n : p[i] = p[j] => i = j
  /\ \A b \in L : \E i \in 1 .. n : p[i] = b
  /\ f = (IF n = 0 THEN NoBlock ELSE p[1])
  /\ \A i \in 1 .. n : bl[p[i]].next = IF i = n THEN NoBlock ELSE p[i + 1]
  /\ \A i \in 1 .. n : bl[p[i]].prev = IF i = 1 THEN NoBlock ELSE p[i - 1]

LEMMA BlockFacts == /\ IsFiniteSet(Block) /\ Cardinality(Block) \in Nat
                    /\ NoBlock \notin Block
BY PoolAssumption, FS_CardinalityType

\* There are no more blocks in a list than addresses.
LEMMA ChainLength ==
  ASSUME NEW bl, NEW f, NEW L, L \subseteq Block, NEW p, NEW n, Chain(bl, f, L, p, n)
  PROVE  n <= Cardinality(Block)
<1>1. n \in Nat /\ p \in [1 .. n -> L] /\ \A i, j \in 1 .. n : p[i] = p[j] => i = j
  BY DEF Chain
<1>2. p \in Injection(1 .. n, Block)
  BY <1>1 DEF Injection, IsInjective
<1>3. IsFiniteSet(1 .. n) /\ Cardinality(1 .. n) = n
  BY <1>1, FS_Interval
<1>4. Cardinality(1 .. n) <= Cardinality(Block)
  BY <1>2, BlockFacts, FS_Injection
<1> QED BY <1>3, <1>4

\* Following the links from the first block on leads through the list.
LEMMA NthOfChain ==
  ASSUME NEW L, L \subseteq Block, NEW p, NEW n, Chain(blocks, first, L, p, n)
  PROVE  /\ DOMAIN Nth = 0 .. Cardinality(Block)
         /\ \A k \in 0 .. Cardinality(Block) : Nth[k] = IF k < n THEN p[k + 1] ELSE NoBlock
<1> DEFINE D == 0 .. Cardinality(Block)
           Step(g, k) == IF k = 0 THEN first
                         ELSE IF g[k - 1] = NoBlock THEN NoBlock ELSE blocks[g[k - 1]].next
           w == [k \in D |-> IF k < n THEN p[k + 1] ELSE NoBlock]
<1>1. n \in Nat /\ n <= Cardinality(Block) /\ Cardinality(Block) \in Nat
  <2>1. n \in Nat
    BY DEF Chain
  <2>2. n <= Cardinality(Block)
    BY ChainLength
  <2> QED BY <2>1, <2>2, BlockFacts
<1>2. \A i \in 1 .. n : p[i] # NoBlock
  BY BlockFacts DEF Chain
<1>3. ASSUME NEW k \in D PROVE w[k] = Step(w, k)
  <2>1. CASE k = 0
    BY <1>1, <2>1 DEF Chain
  <2>2. CASE k # 0
    <3>1. k - 1 \in D /\ w[k - 1] = IF k - 1 < n THEN p[k] ELSE NoBlock
      BY <2>2, <1>1
    <3>2. CASE k - 1 < n
      <4>1. k \in 1 .. n
        BY <1>1, <2>2, <3>2
      <4>2. w[k - 1] = p[k] /\ p[k] # NoBlock
        BY <1>2, <3>1, <3>2, <4>1
      <4>3. blocks[p[k]].next = IF k = n THEN NoBlock ELSE p[k + 1]
        BY <4>1 DEF Chain
      <4>4. w[k] = IF k = n THEN NoBlock ELSE p[k + 1]
        BY <1>1, <4>1
      <4> HIDE DEF w
      <4> QED BY <2>2, <4>2, <4>3, <4>4
    <3>3. CASE ~(k - 1 < n)
      <4>1. w[k - 1] = NoBlock /\ w[k] = NoBlock
        BY <1>1, <3>1, <3>3
      <4> HIDE DEF w
      <4> QED BY <2>2, <4>1
    <3> QED BY <3>2, <3>3
  <2> QED BY <2>1, <2>2
<1> HIDE DEF Step
<1>4. w = [k \in D |-> Step(w, k)]
  <2>1. w = [k \in D |-> w[k]]
    OBVIOUS
  <2> HIDE DEF w
  <2> QED BY <1>3, <2>1
<1>5. Nth = [k \in D |-> Step(Nth, k)]
  <2>1. Nth = CHOOSE g : g = [k \in D |-> Step(g, k)]
    BY DEF Nth, Step
  <2> HIDE DEF w, D
  <2> QED BY <1>4, <2>1
<1> DEFINE h == Nth
<1>6. h = [k \in D |-> Step(h, k)]
  BY <1>5
<1> HIDE DEF h
<1> DEFINE T == {k \in D : h[k] # w[k]}
<1>7. T = {}
  <2> SUFFICES ASSUME T # {} PROVE FALSE
    OBVIOUS
  <2> HIDE DEF w
  <2>1. T \subseteq Nat
    BY <1>1
  <2>2. PICK m \in T : \A k \in T : m <= k
    <3> HIDE DEF T
    <3> QED BY <2>1, LeastMember
  <2>3. m \in D /\ h[m] = Step(h, m) /\ w[m] = Step(w, m) /\ h[m] # w[m]
    BY <1>3, <1>6
  <2>4. m # 0
    BY <2>3 DEF Step
  <2>5. m - 1 \in D /\ m - 1 \notin T
    <3> HIDE DEF T
    <3> QED BY <1>1, <2>2, <2>3, <2>4
  <2>6. h[m - 1] = w[m - 1]
    BY <2>5
  <2> QED BY <2>3, <2>4, <2>6 DEF Step
<1>8. DOMAIN h = D /\ \A k \in D : h[k] = w[k]
  BY <1>6, <1>7
<1> QED BY <1>8 DEF h

\* The blocks of the pool are those the links lead to, both ways.
LEMMA ListedAll ==
  ASSUME NEW L, L \subseteq Block, NEW p, NEW n, Chain(blocks, first, L, p, n)
  PROVE  /\ Listed = L
         /\ first \in L \cup {NoBlock}
         /\ first \in L => blocks[first].prev = NoBlock
         /\ \A b \in L : /\ blocks[b].next # NoBlock =>
                              blocks[b].next \in L /\ blocks[blocks[b].next].prev = b
                         /\ b # first =>
                              blocks[b].prev \in L /\ blocks[blocks[b].prev].next = b
<1>1. n \in Nat /\ n <= Cardinality(Block) /\ Cardinality(Block) \in Nat
  <2>1. n \in Nat
    BY DEF Chain
  <2>2. n <= Cardinality(Block)
    BY ChainLength
  <2> QED BY <2>1, <2>2, BlockFacts
<1>2. \A k \in 0 .. Cardinality(Block) : Nth[k] = IF k < n THEN p[k + 1] ELSE NoBlock
  BY NthOfChain
<1>3. \A i \in 1 .. n : p[i] \in L /\ p[i] # NoBlock
  BY BlockFacts DEF Chain
<1>4. ASSUME NEW b \in L PROVE b \in Listed
  <2>1. PICK i \in 1 .. n : p[i] = b
    BY DEF Chain
  <2>2. i - 1 \in 0 .. Cardinality(Block) /\ i - 1 < n /\ (i - 1) + 1 = i
    BY <1>1
  <2>3. Nth[i - 1] = b
    BY <1>2, <2>1, <2>2
  <2> QED BY <1>3, <2>1, <2>2, <2>3 DEF Listed
<1>5. ASSUME NEW b \in Listed PROVE b \in L
  <2>1. PICK k \in 0 .. Cardinality(Block) : Nth[k] = b /\ b # NoBlock
    BY DEF Listed
  <2>2. k < n /\ b = p[k + 1]
    BY <1>2, <2>1
  <2>3. k + 1 \in 1 .. n
    BY <1>1, <2>2
  <2> QED BY <1>3, <2>2, <2>3
<1>6. first = (IF n = 0 THEN NoBlock ELSE p[1]) /\ (n # 0 => 1 \in 1 .. n)
  BY <1>1 DEF Chain
<1>7. first \in L => n # 0 /\ first = p[1] /\ 1 \in 1 .. n
  BY <1>6, BlockFacts
<1>8. first \in L => blocks[first].prev = NoBlock
  BY <1>7 DEF Chain
<1>9. ASSUME NEW b \in L
      PROVE  /\ blocks[b].next # NoBlock =>
                  blocks[b].next \in L /\ blocks[blocks[b].next].prev = b
             /\ b # first =>
                  blocks[b].prev \in L /\ blocks[blocks[b].prev].next = b
  <2>1. PICK i \in 1 .. n : p[i] = b
    BY DEF Chain
  <2>2. blocks[b].next = IF i = n THEN NoBlock ELSE p[i + 1]
    BY <2>1 DEF Chain
  <2>3. blocks[b].prev = IF i = 1 THEN NoBlock ELSE p[i - 1]
    BY <2>1 DEF Chain
  <2>4. ASSUME i # n PROVE p[i + 1] \in L /\ blocks[p[i + 1]].prev = b
    <3>1. i + 1 \in 1 .. n /\ i + 1 # 1 /\ (i + 1) - 1 = i
      BY <1>1, <2>4
    <3> QED BY <1>3, <2>1, <3>1 DEF Chain
  <2>5. ASSUME i # 1 PROVE p[i - 1] \in L /\ blocks[p[i - 1]].next = b
    <3>1. i - 1 \in 1 .. n /\ i - 1 # n /\ (i - 1) + 1 = i
      BY <1>1, <2>5
    <3> QED BY <1>3, <2>1, <3>1 DEF Chain
  <2>6. b # first => i # 1
    BY <2>1, <1>6
  <2> QED BY <2>2, <2>3, <2>4, <2>5, <2>6
<1>10. first \in L \cup {NoBlock}
  BY <1>3, <1>6
<1> QED BY <1>4, <1>5, <1>8, <1>9, <1>10

\* The first free block of a pool that has one
LEMMA FirstFreeIsListed ==
  ASSUME NEW L, L \subseteq Block, NEW p, NEW n, Chain(blocks, first, L, p, n),
         \E k \in DOMAIN Nth : HasFree(k)
  PROVE  FirstFree \in L /\ blocks[FirstFree].free # <<>>
<1> DEFINE T == {k \in DOMAIN Nth : HasFree(k)}
<1>1. DOMAIN Nth = 0 .. Cardinality(Block)
  BY NthOfChain
<1>2. T \subseteq Nat /\ T # {}
  BY <1>1, BlockFacts
<1>3. PICK m \in T : \A k \in T : m <= k
  <2> HIDE DEF T
  <2> QED BY <1>2, LeastMember
<1>4. m \in DOMAIN Nth /\ HasFree(m) /\ \A k \in 0 .. m - 1 : ~HasFree(k)
  <2>1. ASSUME NEW k \in 0 .. m - 1 PROVE ~HasFree(k)
    <3>1. k \in DOMAIN Nth /\ ~(m <= k)
      BY <1>1, <1>2, BlockFacts
    <3> HIDE DEF HasFree
    <3> QED BY <1>3, <3>1
  <2> QED BY <2>1
<1> DEFINE c == CHOOSE k \in DOMAIN Nth : HasFree(k) /\ \A j \in 0 .. k - 1 : ~HasFree(j)
<1>5. c \in DOMAIN Nth /\ HasFree(c)
  <2> HIDE DEF HasFree
  <2> QED BY <1>4
<1>6. FirstFree = Nth[c]
  BY DEF FirstFree
<1> HIDE DEF c
<1>7. FirstFree # NoBlock /\ blocks[FirstFree].free # <<>>
  BY <1>5, <1>6 DEF HasFree
<1>8. FirstFree \in Listed
  BY <1>1, <1>5, <1>6, <1>7 DEF Listed
<1> QED BY <1>7, <1>8, ListedAll

\* The links stay as they are.
LEMMA ChainKept ==
  ASSUME NEW bl, NEW f, NEW L, NEW p, NEW n, Chain(bl, f, L, p, n),
         NEW bm, \A b \in L : bm[b].next = bl[b].next /\ bm[b].prev = bl[b].prev
  PROVE  Chain(bm, f, L, p, n)
<1>1. \A i \in 1 .. n : p[i] \in L
  BY DEF Chain
<1> QED BY <1>1 DEF Chain

\* A pool without blocks, and one with its first block
LEMMA ChainShort ==
  /\ \A bl : Chain(bl, NoBlock, {}, <<>>, 0)
  /\ \A bl, b : bl[b].next = NoBlock /\ bl[b].prev = NoBlock
                => Chain(bl, b, {b}, <<b>>, 1)
<1>1. ASSUME NEW bl PROVE Chain(bl, NoBlock, {}, <<>>, 0)
  BY DEF Chain
<1>2. ASSUME NEW bl, NEW b, bl[b].next = NoBlock /\ bl[b].prev = NoBlock
      PROVE  Chain(bl, b, {b}, <<b>>, 1)
  <2> DEFINE p == <<b>>
  <2>1. p \in [1 .. 1 -> {b}] /\ p[1] = b
    OBVIOUS
  <2> HIDE DEF p
  <2>2. 1 .. 1 = {1}
    OBVIOUS
  <2>3. Chain(bl, b, {b}, p, 1)
    BY <1>2, <2>1, <2>2 DEF Chain
  <2> QED BY <2>3 DEF p
<1> QED BY <1>1, <1>2

\* A block is linked in behind the first.
LEMMA ChainGrown ==
  ASSUME NEW bl, NEW f, NEW L, NEW p, NEW n, Chain(bl, f, L, p, n), NoBlock \notin L, n # 0,
         NEW b, b \notin L, b # NoBlock, NEW bm,
         bm[b].next = bl[f].next, bm[b].prev = f,
         bm[f].next = b, bm[f].prev = bl[f].prev,
         \A c \in L \ {f} : /\ bm[c].next = bl[c].next
                            /\ bm[c].prev = IF c = bl[f].next THEN b ELSE bl[c].prev
  PROVE  \E q : Chain(bm, f, L \cup {b}, q, n + 1)
<1>1. /\ n \in Nat /\ p \in [1 .. n -> L] /\ 1 \in 1 .. n /\ f = p[1]
      /\ \A i, j \in 1 .. n : p[i] = p[j] => i = j
      /\ \A c \in L : \E i \in 1 .. n : p[i] = c
      /\ \A i \in 1 .. n : bl[p[i]].next = IF i = n THEN NoBlock ELSE p[i + 1]
      /\ \A i \in 1 .. n : bl[p[i]].prev = IF i = 1 THEN NoBlock ELSE p[i - 1]
  BY DEF Chain
<1> DEFINE q == [i \in 1 .. n + 1 |-> IF i = 1 THEN f ELSE IF i = 2 THEN b ELSE p[i - 1]]
<1>2. /\ n + 1 \in Nat /\ n + 1 # 0 /\ 1 \in 1 .. n + 1 /\ 2 \in 1 .. n + 1
      /\ \A i \in 1 .. n + 1 : i = 1 \/ i = 2 \/ (i # 1 /\ i # 2 /\ i - 1 \in 2 .. n)
      /\ \A i \in 2 .. n : i \in 1 .. n /\ i # 1 /\ i + 1 \in 1 .. n + 1 /\ i + 1 # 1 /\ i + 1 # 2
                           /\ (i + 1) - 1 = i
  BY <1>1
<1>3. q[1] = f /\ q[2] = b /\ \A i \in 2 .. n : q[i + 1] = p[i]
  BY <1>2
<1>4. \A i \in 1 .. n + 1 : q[i] = IF i = 1 THEN f ELSE IF i = 2 THEN b ELSE p[i - 1]
  OBVIOUS
<1>5. q \in [1 .. n + 1 -> L \cup {b}]
  BY <1>1, <1>2
<1> HIDE DEF q
<1>6. ASSUME NEW i \in 1 .. n + 1, NEW j \in 1 .. n + 1, q[i] = q[j] PROVE i = j
  <2>1. \A k \in 2 .. n : p[k] \in L /\ p[k] # f /\ p[k] # b /\ f # b
    BY <1>1, <1>2
  <2>2. CASE i \in {1, 2} \/ j \in {1, 2}
    BY <1>1, <1>2, <1>4, <1>6, <2>1, <2>2
  <2>3. CASE i \notin {1, 2} /\ j \notin {1, 2}
    <3>1. i - 1 \in 2 .. n /\ j - 1 \in 2 .. n /\ p[i - 1] = p[j - 1]
      BY <1>2, <1>4, <1>6, <2>3
    <3>2. i - 1 = j - 1
      BY <1>1, <1>2, <3>1
    <3> QED BY <3>2
  <2> QED BY <2>2, <2>3
<1>7. ASSUME NEW c \in L \cup {b} PROVE \E i \in 1 .. n + 1 : q[i] = c
  <2>1. CASE c \in {f, b}
    BY <1>2, <1>3, <2>1
  <2>2. CASE c \notin {f, b}
    <3>1. PICK i \in 1 .. n : p[i] = c
      BY <1>1, <2>2
    <3>2. i # 1
      BY <1>1, <2>2, <3>1
    <3>3. i \in 2 .. n
      BY <3>2, <1>1
    <3> QED BY <1>2, <1>3, <3>1, <3>3
  <2> QED BY <2>1, <2>2
<1>8. bl[f].next = (IF n = 1 THEN NoBlock ELSE p[2]) /\ bl[f].prev = NoBlock
  BY <1>1
<1>9. \A i \in 2 .. n : p[i] \in L \ {f} /\ (p[i] = bl[f].next <=> i = 2)
  <2> SUFFICES ASSUME NEW i \in 2 .. n PROVE p[i] \in L \ {f} /\ (p[i] = bl[f].next <=> i = 2)
    OBVIOUS
  <2>1. i \in 1 .. n /\ 2 \in 1 .. n /\ n # 1 /\ i # 1
    BY <1>1
  <2> QED BY <1>1, <1>8, <2>1
<1>10. ASSUME NEW i \in 1 .. n + 1
       PROVE  /\ bm[q[i]].next = IF i = n + 1 THEN NoBlock ELSE q[i + 1]
              /\ bm[q[i]].prev = IF i = 1 THEN NoBlock ELSE q[i - 1]
  <2>1. CASE i = 1
    <3>1. i # n + 1 /\ i + 1 = 2
      BY <1>1, <2>1
    <3> QED BY <1>3, <1>8, <2>1, <3>1
  <2>2. CASE i = 2
    <3>1. i - 1 = 1 /\ i # 1 /\ i + 1 = 3 /\ (i = n + 1 <=> n = 1)
      BY <1>1, <2>2
    <3>2. n # 1 => 2 \in 2 .. n /\ 2 + 1 = 3
      BY <1>1
    <3>3. n # 1 => q[3] = p[2]
      BY <3>2, <1>3
    <3> QED BY <1>3, <1>8, <2>2, <3>1, <3>3
  <2>3. CASE i # 1 /\ i # 2
    <3> DEFINE k == i - 1
    <3>1. k \in 2 .. n /\ k \in 1 .. n /\ k # 1 /\ i = k + 1 /\ (i = n + 1 <=> k = n)
          /\ (k = 2 => k - 1 = 1) /\ (k # 2 => k - 1 \in 2 .. n /\ (k - 1) + 1 = k) /\ i - 1 = k
          /\ (k # n => k + 1 \in 2 .. n /\ i + 1 = (k + 1) + 1)
      BY <1>1, <1>2, <2>3
    <3> HIDE DEF k
    <3>2. q[i] = p[k]
      BY <1>3, <3>1
    <3>3. bm[p[k]].next = bl[p[k]].next
          /\ bm[p[k]].prev = IF k = 2 THEN b ELSE bl[p[k]].prev
      BY <1>9, <3>1
    <3>4. bl[p[k]].next = (IF k = n THEN NoBlock ELSE p[k + 1]) /\ bl[p[k]].prev = p[k - 1]
      BY <1>1, <3>1
    <3>5. k # n => q[i + 1] = p[k + 1]
      BY <1>3, <3>1
    <3>6. q[i - 1] = IF k = 2 THEN b ELSE p[k - 1]
      <4>1. CASE k = 2
        BY <1>3, <3>1, <4>1
      <4>2. CASE k # 2
        <5>1. q[(k - 1) + 1] = p[k - 1]
          BY <1>3, <3>1, <4>2
        <5> QED BY <3>1, <4>2, <5>1
      <4> QED BY <4>1, <4>2
    <3> QED BY <2>3, <3>1, <3>2, <3>3, <3>4, <3>5, <3>6
  <2> QED BY <2>1, <2>2, <2>3
<1>11. Chain(bm, f, L \cup {b}, q, n + 1)
  BY <1>2, <1>3, <1>5, <1>6, <1>7, <1>10 DEF Chain
<1> QED BY <1>11

\* A block behind the first is taken out.
LEMMA ChainShrunk ==
  ASSUME NEW bl, NEW f, NEW L, NEW p, NEW n, Chain(bl, f, L, p, n), NoBlock \notin L,
         NEW b \in L, b # f, NEW bm,
         \A c \in L \ {b} :
           /\ bm[c].next = IF c = bl[b].prev THEN bl[b].next ELSE bl[c].next
           /\ bm[c].prev = IF c # bl[b].prev /\ c = bl[b].next THEN bl[b].prev ELSE bl[c].prev
  PROVE  \E q : Chain(bm, f, L \ {b}, q, n - 1)
<1>1. /\ n \in Nat /\ p \in [1 .. n -> L]
      /\ \A i, j \in 1 .. n : p[i] = p[j] => i = j
      /\ \A c \in L : \E i \in 1 .. n : p[i] = c
      /\ f = (IF n = 0 THEN NoBlock ELSE p[1])
      /\ \A i \in 1 .. n : bl[p[i]].next = IF i = n THEN NoBlock ELSE p[i + 1]
      /\ \A i \in 1 .. n : bl[p[i]].prev = IF i = 1 THEN NoBlock ELSE p[i - 1]
  BY DEF Chain
<1>2. PICK k \in 1 .. n : p[k] = b
  BY <1>1
<1>3. k # 1 /\ n # 0 /\ f = p[1]
  BY <1>1, <1>2
<1> DEFINE q == [i \in 1 .. n - 1 |-> IF i < k THEN p[i] ELSE p[i + 1]]
<1>4. /\ n - 1 \in Nat /\ n - 1 # 0 /\ k \in Nat /\ 1 < k /\ 1 \in 1 .. n - 1
      /\ k - 1 \in 1 .. n - 1
      /\ \A i \in 1 .. n - 1 : i \in 1 .. n /\ i + 1 \in 1 .. n /\ (i < k => i # k) /\ (~(i < k) => i + 1 # k)
  BY <1>1, <1>2, <1>3
<1>5. \A i \in 1 .. n - 1 : q[i] = IF i < k THEN p[i] ELSE p[i + 1]
  OBVIOUS
<1>6. q \in [1 .. n - 1 -> L \ {b}]
  BY <1>1, <1>2, <1>4
<1> HIDE DEF q
<1>7. ASSUME NEW i \in 1 .. n - 1, NEW j \in 1 .. n - 1, q[i] = q[j] PROVE i = j
  <2> DEFINE u == IF i < k THEN i ELSE i + 1
             v == IF j < k THEN j ELSE j + 1
  <2>1. u \in 1 .. n /\ v \in 1 .. n
    BY <1>4
  <2>2. q[i] = p[u] /\ q[j] = p[v]
    BY <1>5
  <2>3. u = v
    <3>1. p[u] = p[v]
      BY <1>7, <2>2
    <3>2. \A x, y \in 1 .. n : p[x] = p[y] => x = y
      BY <1>1
    <3> HIDE DEF u, v
    <3> QED BY ONLY <2>1, <3>1, <3>2
  <2> QED BY <2>3, <1>4
<1>8. ASSUME NEW c \in L \ {b} PROVE \E i \in 1 .. n - 1 : q[i] = c
  <2>1. PICK j \in 1 .. n : p[j] = c
    BY <1>1
  <2>2. j # k
    BY <1>2, <1>8, <2>1
  <2>3. CASE j < k
    <3>1. j \in 1 .. n - 1
      BY <1>1, <1>2, <2>3
    <3> QED BY <1>5, <2>1, <2>3, <3>1
  <2>4. CASE ~(j < k)
    <3>1. j - 1 \in 1 .. n - 1 /\ ~(j - 1 < k) /\ (j - 1) + 1 = j
      BY <1>1, <1>2, <1>4, <2>2, <2>4
    <3>2. q[j - 1] = p[j]
      BY <1>5, <3>1
    <3> QED BY <2>1, <3>1, <3>2
  <2> QED BY <2>3, <2>4
<1>9. bl[b].next = (IF k = n THEN NoBlock ELSE p[k + 1]) /\ bl[b].prev = p[k - 1]
  BY <1>1, <1>2, <1>3
<1>10. \A j \in 1 .. n : j # k => /\ p[j] \in L \ {b}
                                  /\ (p[j] = bl[b].prev <=> j = k - 1)
                                  /\ (p[j] = bl[b].next <=> j = k + 1)
  <2> SUFFICES ASSUME NEW j \in 1 .. n, j # k
               PROVE  /\ p[j] \in L \ {b}
                      /\ (p[j] = bl[b].prev <=> j = k - 1)
                      /\ (p[j] = bl[b].next <=> j = k + 1)
    OBVIOUS
  <2>1. p[j] \in L \ {b}
    BY <1>1, <1>2
  <2>2. p[j] = bl[b].prev <=> j = k - 1
    <3>1. k - 1 \in 1 .. n
      BY <1>4
    <3> QED BY <1>1, <1>9, <3>1
  <2>3. p[j] = bl[b].next <=> j = k + 1
    <3>1. CASE k = n
      BY <1>9, <2>1, <3>1
    <3>2. CASE k # n
      <4>1. k + 1 \in 1 .. n
        BY <1>1, <1>2, <3>2
      <4>2. \A x, y \in 1 .. n : p[x] = p[y] => x = y
        BY <1>1
      <4>3. bl[b].next = p[k + 1]
        BY <1>9, <3>2
      <4> QED BY ONLY <4>1, <4>2, <4>3, j \in 1 .. n
    <3> QED BY <3>1, <3>2
  <2> QED BY <2>1, <2>2, <2>3
<1>11. \A j \in 1 .. n : j # k =>
         /\ bm[p[j]].next = IF j = k - 1 THEN bl[b].next ELSE bl[p[j]].next
         /\ bm[p[j]].prev = IF j = k + 1 THEN bl[b].prev ELSE bl[p[j]].prev
  <2>1. \A j \in 1 .. n : j = k + 1 => j # k - 1
    BY <1>4
  <2> QED BY <1>10, <2>1
<1>12. ASSUME NEW i \in 1 .. n - 1
       PROVE  /\ bm[q[i]].next = IF i = n - 1 THEN NoBlock ELSE q[i + 1]
              /\ bm[q[i]].prev = IF i = 1 THEN NoBlock ELSE q[i - 1]
  <2>1. CASE i < k
    <3>1. i \in 1 .. n /\ i # k /\ i # k + 1 /\ q[i] = p[i]
      BY <1>4, <1>5, <2>1
    <3>2. bm[q[i]].prev = IF i = 1 THEN NoBlock ELSE q[i - 1]
      <4>1. bm[q[i]].prev = bl[p[i]].prev
        BY <1>11, <3>1
      <4>2. i # 1 => i - 1 \in 1 .. n - 1 /\ i - 1 < k
        BY <1>1, <1>2, <2>1
      <4>3. i # 1 => q[i - 1] = p[i - 1]
        BY <1>5, <4>2
      <4>4. bl[p[i]].prev = IF i = 1 THEN NoBlock ELSE p[i - 1]
        BY <1>1, <3>1
      <4> QED BY <4>1, <4>3, <4>4
    <3>3. CASE i = k - 1
      <4>1. bm[q[i]].next = IF k = n THEN NoBlock ELSE p[k + 1]
        BY <1>9, <1>11, <3>1, <3>3
      <4>2. i = n - 1 <=> k = n
        BY <1>1, <1>2, <3>3
      <4>3. k # n => k \in 1 .. n - 1 /\ ~(k < k) /\ i + 1 = k
        BY <1>1, <1>2, <3>3
      <4>4. k # n => q[i + 1] = p[k + 1]
        BY <1>5, <4>3
      <4> QED BY <3>2, <4>1, <4>2, <4>4
    <3>4. CASE i # k - 1
      <4>1. bm[q[i]].next = bl[p[i]].next
        BY <1>11, <3>1, <3>4
      <4>2. i # n - 1 /\ i # n /\ i + 1 \in 1 .. n - 1 /\ i + 1 < k
        BY <1>1, <1>2, <2>1, <3>4
      <4>3. q[i + 1] = p[i + 1]
        BY <1>5, <4>2
      <4> QED BY <1>1, <3>1, <3>2, <4>1, <4>2, <4>3
    <3> QED BY <3>3, <3>4
  <2>2. CASE ~(i < k)
    <3> DEFINE j == i + 1
    <3>0. i \in Nat /\ i <= n - 1 /\ k <= i /\ k \in Nat /\ 1 < k /\ n \in Nat
      BY <1>1, <1>4, <2>2
    <3>1. /\ j \in 1 .. n /\ j # k /\ j # k - 1 /\ j # 1 /\ i # 1 /\ j - 1 = i /\ (j = k + 1 <=> i = k)
          /\ (i = n - 1 <=> j = n) /\ i - 1 \in 1 .. n - 1 /\ (i = k => i - 1 < k) /\ (i # k => ~(i - 1 < k))
          /\ (j # n => j \in 1 .. n - 1 /\ ~(j < k)) /\ (i - 1) + 1 = i /\ i + 1 = j
      BY ONLY <3>0
    <3> HIDE DEF j
    <3>2. q[i] = p[j]
      BY <1>5, <2>2, <3>1
    <3>3. bm[q[i]].next = IF i = n - 1 THEN NoBlock ELSE q[i + 1]
      <4>1. bm[p[j]].next = IF j = n THEN NoBlock ELSE p[j + 1]
        BY <1>1, <1>11, <3>1
      <4>2. j # n => q[j] = p[j + 1]
        BY <1>5, <3>1
      <4> QED BY <3>1, <3>2, <4>1, <4>2
    <3>4. bm[q[i]].prev = IF i = 1 THEN NoBlock ELSE q[i - 1]
      <4>1. CASE i = k
        <5>1. bm[p[j]].prev = p[k - 1]
          BY <1>9, <1>11, <3>1, <4>1
        <5>2. q[i - 1] = p[i - 1]
          BY <1>5, <3>1, <4>1
        <5> QED BY <3>1, <3>2, <4>1, <5>1, <5>2
      <4>2. CASE i # k
        <5>1. bm[p[j]].prev = p[j - 1]
          BY <1>1, <1>11, <3>1, <4>2
        <5>2. q[i - 1] = p[(i - 1) + 1]
          BY <1>5, <3>1, <4>2
        <5> QED BY <3>1, <3>2, <5>1, <5>2
      <4> QED BY <4>1, <4>2
    <3> QED BY <3>3, <3>4
  <2> QED BY <2>1, <2>2
<1>13. f = q[1]
  BY <1>3, <1>4, <1>5
<1>14. Chain(bm, f, L \ {b}, q, n - 1)
  BY <1>4, <1>6, <1>7, <1>8, <1>12, <1>13 DEF Chain
<1> QED BY <1>14

-----------------------------------------------------------------------------
(* The inductive invariant                                                 *)

Present == DOMAIN blocks \ lost
IsIdle(r) == r.count = r.total

BlocksInv == /\ DOMAIN blocks \subseteq Block /\ lost \subseteq DOMAIN blocks
             /\ \A b \in DOMAIN blocks : BlockOK(blocks[b])

UserInv == /\ exists \in BOOLEAN /\ (exists <=> first # NoBlock)
           /\ got \in Item \cup {NoItem} /\ (exists \/ got = NoItem)

LinksInv == \E p, n : Chain(blocks, first, Present, p, n)

CountsInv == /\ \A b \in Present : blocks[b].total = IF b = first THEN InitElems ELSE AdjustElems
             /\ capacity = SumOf([b \in Present |-> blocks[b].total])
             /\ totalFree = SumOf([b \in Present |-> blocks[b].count])

\* A third block is never idle: when the last item of a second one came back and it
\* was kept, no more was free than the items of two.
FewIdle == \A a, b, c \in Present \ {first} :
             IsIdle(blocks[a]) /\ IsIdle(blocks[b]) /\ IsIdle(blocks[c]) => a = b \/ b = c \/ a = c

PoolInv == BlocksInv /\ UserInv /\ LinksInv /\ CountsInv /\ FewIdle

-----------------------------------------------------------------------------
(* The items in use                                                        *)

Used(L, bl) == {i \in Item : /\ i[1] \in L /\ i[2] \in 1 .. bl[i[1]].total
                             /\ i[2] \notin Idle(bl[i[1]])}

\* The blocks of L have the same items in use in bl and in bm.
Same(L, bl, bm) == \A c \in L : bm[c].total = bl[c].total /\ Idle(bm[c]) = Idle(bl[c])

\* All items of a block are free but this one.
OnlyUsed(r, x) == x \in 1 .. r.total /\ Idle(r) = 1 .. r.total \ {x}

LEMMA InUseIsUsed == InUse = Used(Present, blocks) /\ InUse' = Used(Present', blocks')
<1>1. InUse = Used(Present, blocks)
  BY DEF InUse, Used, Present, Idle
<1>2. InUse' = Used(Present', blocks')
  BY DEF InUse, Used, Present, Idle
<1> QED BY <1>1, <1>2

LEMMA ItemPairs == \A i \in Item : \A b, x : i = <<b, x>> <=> i[1] = b /\ i[2] = x
<1> SUFFICES ASSUME NEW i \in Item, NEW b, NEW x PROVE i = <<b, x>> <=> i[1] = b /\ i[2] = x
  OBVIOUS
<1>1. PICK c \in Block, y \in 1 .. MaxElems : i = <<c, y>>
  BY DEF Item
<1> QED BY <1>1

\* An item is taken from a list.
LEMMA UsedTaken ==
  ASSUME NEW L, NEW bl, NEW b \in L, NEW x \in 1 .. bl[b].total, NEW j \in Item, j = <<b, x>>,
         x \in Idle(bl[b]), NEW bm, bm[b].total = bl[b].total,
         Idle(bm[b]) = Idle(bl[b]) \ {x},
         Same(L \ {b}, bl, bm)
  PROVE  j \in Item \ Used(L, bl) /\ Used(L, bm) = Used(L, bl) \cup {j}
<1>1. j \in Item /\ j[1] = b /\ j[2] = x /\ \A i \in Item : i = j <=> i[1] = b /\ i[2] = x
  BY ItemPairs
<1>2. j \notin Used(L, bl)
  BY <1>1 DEF Used, Same
<1>3. ASSUME NEW i \in Item PROVE i \in Used(L, bm) <=> i \in Used(L, bl) \/ i = j
  BY <1>1 DEF Used, Same
<1>4. Used(L, bm) \subseteq Item /\ Used(L, bl) \subseteq Item
  BY DEF Used
<1>5. Used(L, bm) = Used(L, bl) \cup {j}
  BY <1>1, <1>3, <1>4
<1> QED BY <1>1, <1>2, <1>5

\* An item is put back into a list.
LEMMA UsedGiven ==
  ASSUME NEW L, NEW bl, NEW b \in L, NEW x, NEW j, j = <<b, x>>, NEW bm, bm[b].total = bl[b].total,
         Idle(bm[b]) = Idle(bl[b]) \cup {x},
         Same(L \ {b}, bl, bm)
  PROVE  Used(L, bm) = Used(L, bl) \ {j}
<1>1. \A i \in Item : i = j <=> i[1] = b /\ i[2] = x
  BY ItemPairs
<1>2. ASSUME NEW i \in Item PROVE i \in Used(L, bm) <=> i \in Used(L, bl) /\ i # j
  BY <1>1 DEF Used, Same
<1>3. Used(L, bm) \subseteq Item /\ Used(L, bl) \subseteq Item
  BY DEF Used
<1> QED BY <1>2, <1>3

\* A block is added of which one item is in use.
LEMMA UsedAdded ==
  ASSUME NEW L, NEW bl, NEW b, b \notin L, NEW bm, NEW x, NEW j \in Item, j = <<b, x>>,
         OnlyUsed(bm[b], x), Same(L, bl, bm)
  PROVE  j \in Item \ Used(L, bl) /\ Used(L \cup {b}, bm) = Used(L, bl) \cup {j}
<1>1. j \in Item /\ j[1] = b /\ j[2] = x /\ \A i \in Item : i = j <=> i[1] = b /\ i[2] = x
  BY ItemPairs
<1>2. j \notin Used(L, bl)
  BY <1>1 DEF Used, Same, OnlyUsed
<1>3. ASSUME NEW i \in Item PROVE i \in Used(L \cup {b}, bm) <=> i \in Used(L, bl) \/ i = j
  <2>1. CASE i[1] = b
    BY <1>1, <2>1 DEF Used, Same, OnlyUsed
  <2>2. CASE i[1] # b
    BY <1>1, <2>2 DEF Used, Same, OnlyUsed
  <2> QED BY <2>1, <2>2
<1>4. Used(L \cup {b}, bm) \subseteq Item /\ Used(L, bl) \subseteq Item
  BY DEF Used
<1>5. Used(L \cup {b}, bm) = Used(L, bl) \cup {j}
  BY <1>1, <1>3, <1>4
<1> QED BY <1>1, <1>2, <1>5

\* A block is given back of which one item was in use.
LEMMA UsedDropped ==
  ASSUME NEW L, NEW bl, NEW b \in L, NEW bm, NEW x, NEW j, j = <<b, x>>,
         OnlyUsed(bl[b], x), Same(L \ {b}, bl, bm)
  PROVE  Used(L \ {b}, bm) = Used(L, bl) \ {j}
<1>1. \A i \in Item : i = j <=> i[1] = b /\ i[2] = x
  BY ItemPairs
<1>2. ASSUME NEW i \in Item PROVE i \in Used(L \ {b}, bm) <=> i \in Used(L, bl) /\ i # j
  <2>1. CASE i[1] = b
    BY <1>1, <2>1 DEF Used, Same, OnlyUsed
  <2>2. CASE i[1] # b
    BY <1>1, <2>2 DEF Used, Same, OnlyUsed
  <2> QED BY <2>1, <2>2
<1>3. Used(L \ {b}, bm) \subseteq Item /\ Used(L, bl) \subseteq Item
  BY DEF Used
<1> QED BY <1>2, <1>3

-----------------------------------------------------------------------------
(* Every call keeps the invariant                                          *)

LEMMA PresentFacts ==
  ASSUME BlocksInv
  PROVE  /\ Present \subseteq Block /\ Present \subseteq DOMAIN blocks /\ IsFiniteSet(Present)
         /\ NoBlock \notin Present
         /\ \A b \in Present : /\ BlockOK(blocks[b]) /\ blocks[b].total \in {InitElems, AdjustElems}
                               /\ blocks[b].total \in Nat \ {0}
                               /\ blocks[b].count \in Nat /\ blocks[b].count <= blocks[b].total
                               /\ blocks[b].next \in Block \cup {NoBlock}
                               /\ blocks[b].prev \in Block \cup {NoBlock}
<1>1. Present \subseteq Block /\ Present \subseteq DOMAIN blocks
  BY DEF BlocksInv, Present
<1>2. IsFiniteSet(Present)
  BY <1>1, BlockFacts, FS_Subset
<1>3. ASSUME NEW b \in Present
      PROVE  /\ BlockOK(blocks[b]) /\ blocks[b].total \in {InitElems, AdjustElems}
             /\ blocks[b].total \in Nat \ {0}
             /\ blocks[b].count \in Nat /\ blocks[b].count <= blocks[b].total
             /\ blocks[b].next \in Block \cup {NoBlock}
             /\ blocks[b].prev \in Block \cup {NoBlock}
  <2>1. BlockOK(blocks[b])
    BY <1>1, <1>3 DEF BlocksInv
  <2>2. blocks[b] \in BlockType /\ blocks[b].count <= blocks[b].total
    BY <2>1 DEF BlockOK
  <2>3. blocks[b].total \in {InitElems, AdjustElems} /\ blocks[b].count \in Nat
        /\ blocks[b].next \in Block \cup {NoBlock} /\ blocks[b].prev \in Block \cup {NoBlock}
    BY <2>2 DEF BlockType
  <2> QED BY <2>1, <2>2, <2>3, ElemsFacts
<1> QED BY <1>1, <1>2, <1>3, BlockFacts

\* What the invariant says of one block
LEMMA OfOneBlock ==
  ASSUME BlocksInv, CountsInv, NEW b \in Present
  PROVE  /\ capacity \in Nat /\ totalFree \in Nat
         /\ blocks[b].count <= totalFree
<1> DEFINE f == [c \in Present |-> blocks[c].total]
           g == [c \in Present |-> blocks[c].count]
           h == [c \in Present \ {b} |-> blocks[c].count]
<1>1. /\ DOMAIN f = Present /\ \A x \in DOMAIN f : f[x] \in Nat
      /\ DOMAIN g = Present /\ (\A x \in DOMAIN g : g[x] \in Nat) /\ g[b] = blocks[b].count
      /\ DOMAIN h = DOMAIN g \ {b} /\ \A x \in DOMAIN h : h[x] = g[x]
  BY PresentFacts
<1>2. capacity = SumOf(f) /\ totalFree = SumOf(g) /\ IsFiniteSet(Present)
  BY PresentFacts DEF CountsInv
<1> HIDE DEF f, g, h
<1>3. SumOf(f) \in Nat
  BY <1>1, <1>2, SumType
<1>4. SumOf(g) = g[b] + SumOf(h) /\ SumOf(h) \in Nat /\ SumOf(g) \in Nat
  BY <1>1, <1>2, SumSplit
<1>5. blocks[b].count \in Nat
  BY PresentFacts
<1> QED BY <1>1, <1>2, <1>3, <1>4, <1>5

\* The list of one block changes.
LEMMA OneBlock ==
  ASSUME BlocksInv, LinksInv, CountsInv, NEW b \in Present, NEW q, BlockOK(q),
         q.total = blocks[b].total, q.next = blocks[b].next, q.prev = blocks[b].prev,
         DOMAIN blocks' = DOMAIN blocks, blocks'[b] = q,
         \A c \in DOMAIN blocks \ {b} : blocks'[c] = blocks[c],
         UNCHANGED <<first, lost, capacity>>,
         totalFree' = totalFree + q.count - blocks[b].count
  PROVE  Present' = Present /\ BlocksInv' /\ LinksInv' /\ CountsInv'
<1>1. Present' = Present /\ first' = first
  BY DEF Present
<1>2. BlocksInv'
  <2>1. ASSUME NEW c \in DOMAIN blocks PROVE BlockOK(blocks'[c])
    BY <2>1 DEF BlocksInv
  <2> QED BY <2>1 DEF BlocksInv
<1>3. \A c \in Present : /\ blocks'[c].next = blocks[c].next /\ blocks'[c].prev = blocks[c].prev
                         /\ blocks'[c].total = blocks[c].total
                         /\ c # b => blocks'[c].count = blocks[c].count
  BY PresentFacts
<1>4. LinksInv'
  <2>1. PICK p, n : Chain(blocks, first, Present, p, n)
    BY DEF LinksInv
  <2>2. PICK bl, bm, L, f : bl = blocks /\ bm = blocks' /\ L = Present /\ f = first
    OBVIOUS
  <2>3. Chain(bm, f, L, p, n)
    <3>1. Chain(bl, f, L, p, n) /\ \A c \in L : bm[c].next = bl[c].next /\ bm[c].prev = bl[c].prev
      BY <1>3, <2>1, <2>2
    <3> QED BY ONLY <3>1, ChainKept
  <2>4. Chain(blocks', first', Present', p, n)
    BY <1>1, <2>2, <2>3
  <2> QED BY <2>4 DEF LinksInv
<1>5. CountsInv'
  <2> DEFINE f == [c \in Present |-> blocks[c].count]
             h == [c \in Present |-> blocks'[c].count]
  <2>1. /\ DOMAIN f = Present /\ (\A x \in DOMAIN f : f[x] \in Nat) /\ f[b] = blocks[b].count
        /\ DOMAIN h = DOMAIN f /\ (\A x \in DOMAIN f \ {b} : h[x] = f[x]) /\ h[b] = q.count
    BY <1>3, PresentFacts
  <2>2. q.count \in Nat /\ blocks[b].count \in Nat
    BY PresentFacts DEF BlockOK, BlockType
  <2>3. totalFree = SumOf(f) /\ IsFiniteSet(Present)
    BY PresentFacts DEF CountsInv
  <2> HIDE DEF f, h
  <2>4. SumOf(h) + f[b] = SumOf(f) + h[b] /\ SumOf(h) \in Nat /\ SumOf(f) \in Nat
    BY <2>1, <2>2, <2>3, SumChange
  <2>5. totalFree' = SumOf(h)
    BY <2>1, <2>2, <2>3, <2>4
  <2>6. [c \in Present |-> blocks'[c].total] = [c \in Present |-> blocks[c].total]
    BY <1>3
  <2>7. \A c \in Present : blocks'[c].total = IF c = first THEN InitElems ELSE AdjustElems
    BY <1>3 DEF CountsInv
  <2>8. capacity' = SumOf([c \in Present |-> blocks'[c].total])
    BY <2>6 DEF CountsInv
  <2>9. totalFree' = SumOf([c \in Present |-> blocks'[c].count])
    BY <2>5 DEF h
  <2> QED BY <1>1, <2>7, <2>8, <2>9 DEF CountsInv
<1> QED BY <1>1, <1>2, <1>4, <1>5

LEMMA SumSingle == ASSUME NEW f, NEW b, DOMAIN f = {b}, f[b] \in Nat PROVE SumOf(f) = f[b]
<1> DEFINE h == [x \in {} |-> 0]
<1>1. DOMAIN h = {}
  OBVIOUS
<1>2. DOMAIN h = DOMAIN f \ {b} /\ \A x \in DOMAIN h : h[x] = f[x]
  OBVIOUS
<1> HIDE DEF h
<1>3. SumOf(f) = f[b] + SumOf(h)
  <2>1. IsFiniteSet(DOMAIN f) /\ (\A x \in DOMAIN f : f[x] \in Nat) /\ b \in DOMAIN f
    BY FS_Singleton
  <2> QED BY ONLY <1>2, <2>1, SumSplit
<1>4. SumOf(h) = 0
  BY <1>1, SumEmpty
<1> QED BY <1>3, <1>4

\* The first block; when the pool cannot be entered in the chain, it is lost.
LEMMA CreateStep ==
  ASSUME PoolInv, PoolCreate
  PROVE  /\ PoolInv' /\ InUse' = InUse /\ got' = got
         /\ ~exists /\ got = NoItem
<1>1. /\ ~exists /\ got' = got /\ got = NoItem /\ first = NoBlock
      /\ BlocksInv /\ exists \in BOOLEAN
  BY DEF PoolCreate, PoolInv, UserInv
<1>2. PICK b, r :
           /\ b \in Unused /\ r = NewBlock(InitElems, NoBlock, NoBlock)
           /\ blocks' = With(b, r)
           /\ \/ /\ exists' = TRUE /\ first' = b
                 /\ capacity' = InitElems /\ totalFree' = InitElems
                 /\ lost' = lost
              \/ /\ lost' = lost \cup {b} /\ exists' = exists /\ first' = first
                 /\ capacity' = capacity /\ totalFree' = totalFree
  BY DEF PoolCreate
<1>3. /\ b \in Block /\ b \notin DOMAIN blocks /\ b \notin lost /\ b # NoBlock
      /\ DOMAIN blocks' = DOMAIN blocks \cup {b} /\ blocks'[b] = r
      /\ \A c \in DOMAIN blocks : blocks'[c] = blocks[c]
  BY <1>1, <1>2, BlockFacts DEF Unused, With, BlocksInv
<1>4. /\ BlockOK(r) /\ Idle(r) = 1 .. InitElems
      /\ r.total = InitElems /\ r.count = InitElems /\ r.next = NoBlock /\ r.prev = NoBlock
  BY <1>2, NewBlockOK DEF NewBlock
<1>5. BlocksInv'
  <2>1. \A c \in DOMAIN blocks' : BlockOK(blocks'[c])
    BY <1>1, <1>3, <1>4 DEF BlocksInv
  <2> QED BY <1>1, <1>2, <1>3, <2>1 DEF BlocksInv
<1>6. Present = {}
  <2>1. PICK p, n : Chain(blocks, first, Present, p, n)
    BY DEF PoolInv, LinksInv
  <2>2. n = 0
    <3>1. n # 0 => p[1] \in Present
      BY <2>1 DEF Chain
    <3>2. first = IF n = 0 THEN NoBlock ELSE p[1]
      BY <2>1 DEF Chain
    <3> QED BY <1>1, <3>1, <3>2, PresentFacts
  <2> QED BY <2>1, <2>2 DEF Chain
<1>7. InUse = {}
  BY <1>6, InUseIsUsed DEF Used
<1>8. CASE exists' = TRUE /\ first' = b /\ capacity' = InitElems /\ totalFree' = InitElems /\ lost' = lost
  <2>1. Present' = {b}
    BY <1>3, <1>6, <1>8 DEF Present
  <2>2. UserInv'
    BY <1>1, <1>3, <1>8 DEF UserInv
  <2>3. LinksInv'
    <3>1. blocks'[b].next = NoBlock /\ blocks'[b].prev = NoBlock
      BY <1>3, <1>4
    <3>2. PICK bl : bl = blocks'
      OBVIOUS
    <3>3. Chain(bl, b, {b}, <<b>>, 1)
      BY <3>1, <3>2, ChainShort
    <3>4. Chain(blocks', first', Present', <<b>>, 1)
      BY <1>8, <2>1, <3>2, <3>3
    <3> QED BY <3>4 DEF LinksInv
  <2>4. CountsInv'
    <3>1. \A c \in Present' : blocks'[c].total = IF c = first' THEN InitElems ELSE AdjustElems
      BY <1>3, <1>4, <1>8, <2>1
    <3> DEFINE f == [c \in Present' |-> blocks'[c].total]
               g == [c \in Present' |-> blocks'[c].count]
    <3>2. DOMAIN f = {b} /\ f[b] = InitElems /\ DOMAIN g = {b} /\ g[b] = InitElems
      BY <1>3, <1>4, <2>1
    <3> HIDE DEF f, g
    <3>3. SumOf(f) = InitElems /\ SumOf(g) = InitElems
      BY <3>2, ElemsFacts, SumSingle
    <3> QED BY <1>8, <3>1, <3>3 DEF f, g, CountsInv
  <2>5. FewIdle'
    BY <2>1 DEF FewIdle
  <2>6. InUse' = {}
    <3>1. \A i \in Item : ~(i[1] \in {b} /\ i[2] \in 1 .. r.total /\ i[2] \notin Idle(r))
      BY <1>4
    <3>2. InUse' = Used({b}, blocks')
      BY <2>1, InUseIsUsed
    <3> QED BY <1>3, <3>1, <3>2 DEF Used
  <2> QED BY <1>1, <1>5, <1>7, <2>2, <2>3, <2>4, <2>5, <2>6 DEF PoolInv
<1>9. CASE /\ lost' = lost \cup {b} /\ exists' = exists /\ first' = first
           /\ capacity' = capacity /\ totalFree' = totalFree
  <2>1. Present' = {}
    BY <1>3, <1>6, <1>9 DEF Present
  <2>2. UserInv'
    BY <1>1, <1>9 DEF UserInv, PoolInv
  <2>3. LinksInv'
    <3>1. PICK bl : bl = blocks'
      OBVIOUS
    <3>2. Chain(bl, NoBlock, {}, <<>>, 0)
      BY ChainShort
    <3>3. Chain(blocks', first', Present', <<>>, 0)
      BY <1>1, <1>9, <2>1, <3>1, <3>2
    <3> QED BY <3>3 DEF LinksInv
  <2>4. CountsInv'
    <3>1. [c \in Present' |-> blocks'[c].total] = [c \in Present |-> blocks[c].total]
      BY <1>6, <2>1
    <3>2. [c \in Present' |-> blocks'[c].count] = [c \in Present |-> blocks[c].count]
      BY <1>6, <2>1
    <3> QED BY <1>9, <2>1, <3>1, <3>2 DEF CountsInv, PoolInv
  <2>5. FewIdle'
    BY <2>1 DEF FewIdle
  <2>6. InUse' = {}
    BY <2>1, InUseIsUsed DEF Used
  <2> QED BY <1>1, <1>5, <1>7, <2>2, <2>3, <2>4, <2>5, <2>6 DEF PoolInv
<1> QED BY <1>2, <1>8, <1>9

LEMMA DestroyStep ==
  ASSUME PoolInv, PoolDestroy
  PROVE  PoolInv' /\ exists /\ ~exists' /\ InUse' = {} /\ got' = NoItem
<1>1. /\ exists /\ exists' = FALSE /\ first' = NoBlock
      /\ blocks' = Without(Listed)
      /\ capacity' = 0 /\ totalFree' = 0 /\ got' = NoItem
      /\ lost' = lost /\ BlocksInv
  BY DEF PoolDestroy, PoolInv
<1>2. Listed = Present
  BY PresentFacts, ListedAll DEF PoolInv, LinksInv
<1>3. DOMAIN blocks' = lost /\ \A c \in lost : blocks'[c] = blocks[c]
  <2>1. DOMAIN blocks \ Present = lost
    BY <1>1 DEF Present, BlocksInv
  <2> QED BY <1>1, <1>2, <2>1 DEF Without
<1>4. Present' = {}
  BY <1>1, <1>3 DEF Present
<1>5. BlocksInv'
  BY <1>1, <1>3 DEF BlocksInv
<1>6. UserInv'
  BY <1>1 DEF UserInv
<1>7. LinksInv'
  <2>1. PICK bl : bl = blocks'
    OBVIOUS
  <2>2. Chain(bl, NoBlock, {}, <<>>, 0)
    BY ChainShort
  <2>3. Chain(blocks', first', Present', <<>>, 0)
    BY <1>1, <1>4, <2>1, <2>2
  <2> QED BY <2>3 DEF LinksInv
<1>8. CountsInv'
  <2> DEFINE f == [c \in Present' |-> blocks'[c].total]
             g == [c \in Present' |-> blocks'[c].count]
  <2>1. DOMAIN f = {} /\ DOMAIN g = {}
    BY <1>4
  <2> HIDE DEF f, g
  <2>2. SumOf(f) = 0 /\ SumOf(g) = 0
    BY <2>1, SumEmpty
  <2> QED BY <1>1, <1>4, <2>2 DEF CountsInv, f, g
<1>9. FewIdle'
  BY <1>4 DEF FewIdle
<1>10. InUse' = {}
  BY <1>4, InUseIsUsed DEF Used
<1> QED BY <1>1, <1>5, <1>6, <1>7, <1>8, <1>9, <1>10 DEF PoolInv

LEMMA ItemOf ==
  ASSUME NEW b \in Block, NEW n \in {InitElems, AdjustElems}, NEW x \in 1 .. n
  PROVE  <<b, x>> \in Item
<1>1. x \in 1 .. MaxElems
  BY ElemsFacts
<1> QED BY <1>1 DEF Item

LEMMA GetListedStep ==
  ASSUME PoolInv, GetListed
  PROVE  /\ PoolInv' /\ exists /\ exists' = exists
         /\ \E i \in Item \ InUse : InUse' = InUse \cup {i} /\ got' = i
<1>1. /\ exists /\ exists' = exists /\ first' = first /\ lost' = lost /\ capacity' = capacity
      /\ totalFree' = totalFree - 1
      /\ \E n \in DOMAIN Nth : HasFree(n)
  BY DEF GetListed
<1>2. BlocksInv /\ LinksInv /\ CountsInv /\ UserInv /\ FewIdle
  BY DEF PoolInv
<1>3. FirstFree \in Present /\ blocks[FirstFree].free # <<>>
  BY <1>1, <1>2, PresentFacts, FirstFreeIsListed DEF LinksInv
<1>4. PICK b, r, q, x : /\ b = FirstFree /\ r = blocks[b] /\ x = Head(r.free)
                        /\ q = Taken(r)
  OBVIOUS
<1>5. b \in Present /\ r.free # <<>> /\ b \in DOMAIN blocks /\ b \in Block /\ BlockOK(r)
      /\ r.total \in {InitElems, AdjustElems} /\ r.count \in Nat
  BY <1>2, <1>3, <1>4, PresentFacts
<1>6. /\ BlockOK(q) /\ q.total = r.total /\ q.next = r.next /\ q.prev = r.prev
      /\ q.count = r.count - 1 /\ q.count # q.total
      /\ x \in 1 .. r.total /\ x \in Idle(r) /\ Idle(q) = Idle(r) \ {x}
  BY <1>4, <1>5, TakenOK
<1>7. got' = <<b, x>> /\ blocks' = [blocks EXCEPT ![b] = q]
  BY <1>4 DEF GetListed, Taken
<1>8. /\ DOMAIN blocks' = DOMAIN blocks /\ blocks'[b] = q
      /\ \A c \in DOMAIN blocks \ {b} : blocks'[c] = blocks[c]
  BY <1>5, <1>7
<1>9. Present' = Present /\ BlocksInv' /\ LinksInv' /\ CountsInv'
  <2>1. totalFree' = totalFree + q.count - blocks[b].count
    BY <1>1, <1>2, <1>4, <1>5, <1>6, OfOneBlock
  <2> QED BY <1>1, <1>2, <1>4, <1>5, <1>6, <1>8, <2>1, OneBlock
<1>10. <<b, x>> \in Item
  BY <1>5, <1>6, ItemOf
<1>11. UserInv'
  BY <1>1, <1>2, <1>7, <1>10 DEF UserInv
<1>12. FewIdle'
  <2>1. \A c \in Present : IsIdle(blocks'[c]) => IsIdle(blocks[c])
    BY <1>5, <1>6, <1>8, <1>2, PresentFacts DEF IsIdle
  <2> QED BY <1>1, <1>2, <1>9, <2>1 DEF FewIdle
<1>13. <<b, x>> \in Item \ InUse /\ InUse' = InUse \cup {<<b, x>>}
  <2>1. PICK L, bl, bm : L = Present /\ bl = blocks /\ bm = blocks'
    OBVIOUS
  <2>2. /\ b \in L /\ x \in 1 .. bl[b].total /\ x \in Idle(bl[b]) /\ bm[b].total = bl[b].total
        /\ Idle(bm[b]) = Idle(bl[b]) \ {x}
        /\ Same(L \ {b}, bl, bm)
    BY <1>2, <1>4, <1>5, <1>6, <1>8, <2>1, PresentFacts DEF Same
  <2>3. PICK j : j = <<b, x>>
    OBVIOUS
  <2>4. j \in Item
    BY <1>10, <2>3
  <2>5. j \in Item \ Used(L, bl) /\ Used(L, bm) = Used(L, bl) \cup {j}
    BY ONLY <2>2, <2>3, <2>4, UsedTaken
  <2>6. InUse = Used(L, bl) /\ InUse' = Used(L, bm)
    BY <1>9, <2>1, InUseIsUsed
  <2> QED BY <2>3, <2>5, <2>6
<1>14. PoolInv'
  BY <1>9, <1>11, <1>12 DEF PoolInv
<1> QED BY <1>1, <1>7, <1>13, <1>14

LEMMA GetNoMemoryStep ==
  ASSUME PoolInv, GetNoMemory
  PROVE  PoolInv' /\ exists /\ exists' = exists /\ got' = NoItem /\ InUse' = InUse
<1>1. /\ exists /\ exists' = exists /\ first' = first /\ blocks' = blocks /\ lost' = lost
      /\ capacity' = capacity /\ totalFree' = totalFree /\ got' = NoItem
  BY DEF GetNoMemory
<1>2. Present' = Present
  BY <1>1 DEF Present
<1>3. BlocksInv' /\ LinksInv' /\ CountsInv' /\ FewIdle'
  BY <1>1, <1>2 DEF PoolInv, BlocksInv, LinksInv, CountsInv, FewIdle
<1>4. UserInv'
  BY <1>1 DEF PoolInv, UserInv
<1>5. InUse' = InUse
  BY <1>1, <1>2, InUseIsUsed
<1> QED BY <1>1, <1>3, <1>4, <1>5 DEF PoolInv

LEMMA GetExpandedStep ==
  ASSUME PoolInv, GetExpanded
  PROVE  /\ PoolInv' /\ exists /\ exists' = exists
         /\ \E i \in Item \ InUse : InUse' = InUse \cup {i} /\ got' = i
<1>1. /\ exists /\ exists' = exists /\ first' = first /\ lost' = lost
      /\ capacity' = capacity + AdjustElems
      /\ totalFree' = totalFree + AdjustElems - 1
  BY DEF GetExpanded
<1>2. BlocksInv /\ LinksInv /\ CountsInv /\ UserInv /\ FewIdle
  BY DEF PoolInv
<1>31. PICK b \in Unused :
       LET second == blocks[first].next
           new == NewBlock(AdjustElems, first, second)
           taken == [new EXCEPT !.free = Tail(@), !.count = @ - 1]
       IN  /\ blocks' = [c \in DOMAIN blocks \cup {b} |->
                           IF c = b THEN taken
                           ELSE IF c = first THEN [blocks[c] EXCEPT !.next = b]
                           ELSE IF c = second THEN [blocks[c] EXCEPT !.prev = b]
                           ELSE blocks[c]]
           /\ got' = <<b, Head(new.free)>>
  BY DEF GetExpanded
<1>32. PICK second, new, taken :
        /\ second = blocks[first].next
        /\ new = NewBlock(AdjustElems, first, second)
        /\ taken = [new EXCEPT !.free = Tail(@), !.count = @ - 1]
  OBVIOUS
<1>3. /\ second = blocks[first].next
        /\ new = NewBlock(AdjustElems, first, second)
        /\ taken = [new EXCEPT !.free = Tail(@), !.count = @ - 1]
        /\ blocks' = [c \in DOMAIN blocks \cup {b} |->
                        IF c = b THEN taken
                        ELSE IF c = first THEN [blocks[c] EXCEPT !.next = b]
                        ELSE IF c = second THEN [blocks[c] EXCEPT !.prev = b]
                        ELSE blocks[c]]
        /\ got' = <<b, Head(new.free)>>
  BY <1>31, <1>32
<1>4. first \in Present /\ first \in DOMAIN blocks /\ first \in Block
  <2>1. first # NoBlock
    BY <1>1, <1>2 DEF UserInv
  <2>2. first \in Present \cup {NoBlock}
    BY <1>2, PresentFacts, ListedAll DEF LinksInv
  <2> QED BY <1>2, <2>1, <2>2, PresentFacts
<1>5. second \in Block \cup {NoBlock}
  BY <1>2, <1>3, <1>4, PresentFacts
<1>6. /\ b \in Block /\ b \notin DOMAIN blocks /\ b \notin lost
      /\ b # NoBlock /\ b # first /\ b \notin Present
      /\ DOMAIN blocks' = DOMAIN blocks \cup {b} /\ blocks'[b] = taken
      /\ blocks'[first] = [blocks[first] EXCEPT !.next = b]
      /\ \A c \in DOMAIN blocks \ {first} :
           blocks'[c] = IF c = second THEN [blocks[c] EXCEPT !.prev = b] ELSE blocks[c]
  BY <1>2, <1>3, <1>4, BlockFacts DEF Unused, BlocksInv, Present
<1>7. /\ BlockOK(new) /\ Idle(new) = 1 .. AdjustElems /\ new.free # <<>> /\ Head(new.free) = 1
      /\ new.total = AdjustElems /\ new.count = AdjustElems /\ new.next = second /\ new.prev = first
  BY <1>3, <1>4, <1>5, NewBlockOK DEF NewBlock
<1>8. /\ BlockOK(taken) /\ taken.total = AdjustElems /\ taken.next = second /\ taken.prev = first
      /\ taken.count = AdjustElems - 1 /\ taken.count # taken.total
      /\ Idle(taken) = 1 .. AdjustElems \ {1}
  <2>1. taken = Taken(new)
    BY <1>3 DEF Taken
  <2> QED BY <1>7, <2>1, TakenOK
<1>9. \A c \in DOMAIN blocks : BlockOK(blocks[c])
  BY <1>2 DEF BlocksInv
<1>10. ASSUME NEW c \in DOMAIN blocks
       PROVE  /\ BlockOK(blocks'[c]) /\ blocks'[c].total = blocks[c].total
              /\ blocks'[c].count = blocks[c].count /\ Idle(blocks'[c]) = Idle(blocks[c])
              /\ blocks'[c].next = (IF c = first THEN b ELSE blocks[c].next)
              /\ blocks'[c].prev = (IF c # first /\ c = second THEN b ELSE blocks[c].prev)
  <2>1. PICK r, q : r = blocks[c] /\ q = blocks'[c]
    OBVIOUS
  <2>2. BlockOK(r) /\ b \in Block \cup {NoBlock}
    BY <1>6, <1>9, <2>1
  <2>3. CASE c = first
    <3>1. q = [r EXCEPT !.next = b]
      BY <1>6, <2>1, <2>3
    <3> QED BY <2>1, <2>2, <2>3, <3>1, RelinkedOK
  <2>4. CASE c # first /\ c = second
    <3>1. q = [r EXCEPT !.prev = b]
      BY <1>6, <1>10, <2>1, <2>4
    <3> QED BY <2>1, <2>2, <2>4, <3>1, RelinkedOK
  <2>5. CASE c # first /\ c # second
    <3>1. q = r
      BY <1>6, <1>10, <2>1, <2>5
    <3> QED BY <2>1, <2>2, <2>5, <3>1
  <2> QED BY <2>3, <2>4, <2>5
<1>11. Present' = Present \cup {b}
  BY <1>1, <1>6 DEF Present
<1>12. BlocksInv'
  <2>1. \A c \in DOMAIN blocks' : BlockOK(blocks'[c])
    BY <1>6, <1>8, <1>10
  <2> QED BY <1>1, <1>2, <1>6, <2>1 DEF BlocksInv
<1>13. LinksInv'
  <2>1. PICK p, n : Chain(blocks, first, Present, p, n)
    BY <1>2 DEF LinksInv
  <2>2. n # 0
    <3>1. n = 0 => first = NoBlock
      BY <2>1 DEF Chain
    <3> QED BY <1>4, <3>1, BlockFacts
  <2>3. PICK bl, bm, f, L : bl = blocks /\ bm = blocks' /\ f = first /\ L = Present
    OBVIOUS
  <2>4. /\ Chain(bl, f, L, p, n) /\ NoBlock \notin L /\ b \notin L
        /\ bm[b].next = bl[f].next /\ bm[b].prev = f
        /\ bm[f].next = b /\ bm[f].prev = bl[f].prev
    <3>1. Chain(bl, f, L, p, n) /\ NoBlock \notin L /\ b \notin L
      BY <1>2, <1>6, <2>1, <2>3, PresentFacts
    <3>2. bm[b].next = bl[f].next /\ bm[b].prev = f
      BY <1>3, <1>6, <1>8, <2>3
    <3>3. blocks'[first].next = b /\ blocks'[first].prev = blocks[first].prev
      BY <1>4, <1>10
    <3> QED BY <2>3, <3>1, <3>2, <3>3
  <2>5. \A c \in L \ {f} : /\ bm[c].next = bl[c].next
                           /\ bm[c].prev = IF c = bl[f].next THEN b ELSE bl[c].prev
    <3>1. \A c \in Present \ {first} :
            /\ blocks'[c].next = blocks[c].next
            /\ blocks'[c].prev = IF c = second THEN b ELSE blocks[c].prev
      BY <1>10 DEF Present
    <3> QED BY <1>3, <2>3, <3>1
  <2>6. \E q : Chain(bm, f, L \cup {b}, q, n + 1)
    BY ONLY <1>6, <2>2, <2>4, <2>5, ChainGrown
  <2>7. \E q : Chain(blocks', first', Present', q, n + 1)
    BY <1>1, <1>11, <2>3, <2>6
  <2> QED BY <2>7 DEF LinksInv
<1>14. CountsInv'
  <2> DEFINE f == [c \in Present |-> blocks[c].total]
             h == [c \in Present' |-> blocks'[c].total]
             g == [c \in Present |-> blocks[c].count]
             k == [c \in Present' |-> blocks'[c].count]
  <2>1. /\ DOMAIN f = Present /\ DOMAIN g = Present
        /\ DOMAIN h = Present \cup {b} /\ DOMAIN k = Present \cup {b}
    BY <1>11
  <2>2. /\ (\A c \in Present : h[c] = f[c] /\ k[c] = g[c] /\ f[c] \in Nat /\ g[c] \in Nat)
        /\ h[b] = AdjustElems /\ k[b] = AdjustElems - 1
    BY <1>2, <1>6, <1>8, <1>10, <1>11, PresentFacts
  <2>3. capacity = SumOf(f) /\ totalFree = SumOf(g) /\ IsFiniteSet(Present)
    BY <1>2, PresentFacts DEF CountsInv
  <2>4. AdjustElems \in Nat \ {0} /\ AdjustElems - 1 \in Nat
    BY ElemsFacts
  <2> HIDE DEF f, g, h, k
  <2>5. IsFiniteSet(Present \cup {b}) /\ (Present \cup {b}) \ {b} = Present
    BY <1>6, <2>3, FS_AddElement
  <2>6. SumOf(h) = h[b] + SumOf(f) /\ SumOf(f) \in Nat
    <3>1. /\ IsFiniteSet(DOMAIN h) /\ (\A x \in DOMAIN h : h[x] \in Nat) /\ b \in DOMAIN h
          /\ DOMAIN f = DOMAIN h \ {b} /\ \A x \in DOMAIN f : f[x] = h[x]
      BY <2>1, <2>2, <2>4, <2>5
    <3> QED BY ONLY <3>1, SumSplit
  <2>7. SumOf(k) = k[b] + SumOf(g) /\ SumOf(g) \in Nat
    <3>1. /\ IsFiniteSet(DOMAIN k) /\ (\A x \in DOMAIN k : k[x] \in Nat) /\ b \in DOMAIN k
          /\ DOMAIN g = DOMAIN k \ {b} /\ \A x \in DOMAIN g : g[x] = k[x]
      BY <2>1, <2>2, <2>4, <2>5
    <3> QED BY ONLY <3>1, SumSplit
  <2>8. capacity' = SumOf(h) /\ totalFree' = SumOf(k)
    BY <1>1, <2>2, <2>3, <2>4, <2>6, <2>7
  <2>9. \A c \in Present' : blocks'[c].total = IF c = first' THEN InitElems ELSE AdjustElems
    BY <1>1, <1>2, <1>6, <1>8, <1>10, <1>11, PresentFacts DEF CountsInv
  <2> QED BY <2>8, <2>9 DEF CountsInv, h, k
<1>15. FewIdle'
  <2>1. \A c \in Present' : IsIdle(blocks'[c]) => c \in Present /\ IsIdle(blocks[c])
    BY <1>2, <1>6, <1>8, <1>10, <1>11, PresentFacts DEF IsIdle
  <2> QED BY <1>1, <1>2, <2>1 DEF FewIdle
<1>16. got' = <<b, 1>> /\ <<b, 1>> \in Item
  BY <1>3, <1>6, <1>7, ElemsFacts, ItemOf
<1>17. UserInv'
  BY <1>1, <1>2, <1>16 DEF UserInv
<1>18. <<b, 1>> \in Item \ InUse /\ InUse' = InUse \cup {<<b, 1>>}
  <2>1. PICK L, bl, bm, x : L = Present /\ bl = blocks /\ bm = blocks' /\ x = 1
    OBVIOUS
  <2>2. b \notin L /\ OnlyUsed(bm[b], x) /\ Same(L, bl, bm)
    BY <1>2, <1>6, <1>8, <1>10, <2>1, ElemsFacts, PresentFacts DEF Same, OnlyUsed
  <2>3. PICK j \in Item : j = <<b, x>>
    BY <1>16, <2>1
  <2>4. j \in Item \ Used(L, bl) /\ Used(L \cup {b}, bm) = Used(L, bl) \cup {j}
    BY ONLY <2>2, <2>3, UsedAdded
  <2>5. InUse = Used(L, bl) /\ InUse' = Used(L \cup {b}, bm)
    BY <1>11, <2>1, InUseIsUsed
  <2> QED BY <2>1, <2>3, <2>4, <2>5
<1>19. PoolInv'
  BY <1>12, <1>13, <1>14, <1>15, <1>17 DEF PoolInv
<1> QED BY <1>1, <1>16, <1>18, <1>19

\* What rpool_free finds: the block of an item in use is one of the pool, and the item
\* is not in its list.
LEMMA UsedItem ==
  ASSUME BlocksInv, NEW i \in InUse
  PROVE  /\ i[1] \in Present /\ i[2] \in 1 .. blocks[i[1]].total
         /\ i[2] \notin Idle(blocks[i[1]]) /\ i = <<i[1], i[2]>>
<1>1. i \in Used(Present, blocks)
  BY InUseIsUsed
<1>2. i \in Item
  BY <1>1 DEF Used
<1>3. i = <<i[1], i[2]>>
  BY <1>2, ItemPairs
<1> QED BY <1>1, <1>3 DEF Used

LEMMA FreeKeptStep ==
  ASSUME PoolInv, FreeKept
  PROVE  /\ PoolInv' /\ exists /\ exists' = exists /\ got' = NoItem
         /\ \E i \in InUse : InUse' = InUse \ {i}
<1>1. /\ exists /\ exists' = exists /\ first' = first /\ lost' = lost /\ capacity' = capacity
      /\ totalFree' = totalFree + 1 /\ got' = NoItem
  BY DEF FreeKept
<1>2. BlocksInv /\ LinksInv /\ CountsInv /\ UserInv /\ FewIdle
  BY DEF PoolInv
<1>3. PICK i \in InUse : /\ ~Spare(i[1])
                         /\ blocks' = [blocks EXCEPT ![i[1]].free = <<i[2]>> \o @, ![i[1]].count = @ + 1]
  BY DEF FreeKept
<1>4. PICK b, x, r, q : /\ b = i[1] /\ x = i[2] /\ r = blocks[b]
                        /\ q = Given(r, x)
  OBVIOUS
<1>5. /\ b \in Present /\ x \in 1 .. r.total /\ x \notin Idle(r) /\ i = <<b, x>>
      /\ b \in DOMAIN blocks /\ BlockOK(r) /\ r.count \in Nat /\ r.total \in Nat
  BY <1>2, <1>4, UsedItem, PresentFacts
<1>6. /\ BlockOK(q) /\ q.total = r.total /\ q.next = r.next /\ q.prev = r.prev
      /\ q.count = r.count + 1 /\ Idle(q) = Idle(r) \cup {x}
  BY <1>4, <1>5, GivenOK
<1>7. blocks' = [blocks EXCEPT ![b] = q]
  BY <1>3, <1>4 DEF Given
<1>8. /\ DOMAIN blocks' = DOMAIN blocks /\ blocks'[b] = q
      /\ \A c \in DOMAIN blocks \ {b} : blocks'[c] = blocks[c]
  BY <1>5, <1>7
<1>9. Present' = Present /\ BlocksInv' /\ LinksInv' /\ CountsInv'
  <2>1. totalFree' = totalFree + q.count - blocks[b].count
    BY <1>1, <1>2, <1>4, <1>5, <1>6, OfOneBlock
  <2> QED BY <1>1, <1>2, <1>4, <1>5, <1>6, <1>8, <2>1, OneBlock
<1>10. UserInv'
  BY <1>1, <1>2 DEF UserInv
<1>11. FewIdle'
  <2>1. CASE IsIdle(q) /\ b # first
    <3>1. r.total = r.count + 1 /\ r.total = AdjustElems
      BY <1>2, <1>4, <1>5, <1>6, <2>1 DEF IsIdle, CountsInv
    <3>2. totalFree + 1 <= 2 * AdjustElems
      <4>1. ~(totalFree + 1 > 2 * (r.count + 1))
        BY <1>3, <1>4, <2>1, <3>1 DEF Spare
      <4>2. totalFree \in Nat
        BY <1>2, <1>5, OfOneBlock
      <4> QED BY <1>5, <3>1, <4>1, <4>2
    <3>3. SUFFICES ASSUME NEW u \in Present \ {first}, NEW v \in Present \ {first},
                          NEW w \in Present \ {first},
                          IsIdle(blocks'[u]), IsIdle(blocks'[v]), IsIdle(blocks'[w]),
                          u # v, v # w, u # w
                   PROVE  FALSE
      BY <1>1, <1>9 DEF FewIdle
    <3>4. \A c \in Present \ {first} : blocks'[c].total = AdjustElems
      BY <1>1, <1>9 DEF CountsInv
    <3> DEFINE g == [c \in Present |-> blocks'[c].count]
    <3>5. /\ DOMAIN g = Present /\ IsFiniteSet(Present) /\ \A c \in Present : g[c] \in Nat
          /\ g[u] = AdjustElems /\ g[v] = AdjustElems /\ g[w] = AdjustElems
      <4>1. \A c \in Present : blocks'[c].count \in Nat
        <5>1. \A c \in Present \ {b} : blocks'[c] = blocks[c]
          BY <1>8 DEF Present
        <5> QED BY <1>2, <1>5, <1>6, <1>8, <5>1, PresentFacts
      <4>2. IsFiniteSet(Present)
        BY <1>2, PresentFacts
      <4> QED BY <3>3, <3>4, <4>1, <4>2 DEF IsIdle
    <3>6. totalFree' = SumOf(g)
      BY <1>9 DEF CountsInv
    <3> HIDE DEF g
    <3>7. AdjustElems \in Nat \ {0} /\ AdjustElems \in Nat
      BY ElemsFacts
    <3>8. SumOf(g) >= 3 * AdjustElems
      <4>1. u \in DOMAIN g /\ v \in DOMAIN g /\ w \in DOMAIN g /\ u # v /\ v # w /\ u # w
            /\ IsFiniteSet(DOMAIN g) /\ \A c \in DOMAIN g : g[c] \in Nat
        BY <3>3, <3>5
      <4> QED BY ONLY <4>1, <3>5, <3>7, SumOfThree
    <3>9. totalFree \in Nat
      BY <1>2, <1>5, OfOneBlock
    <3> QED BY <1>1, <3>2, <3>6, <3>7, <3>8, <3>9
  <2>2. CASE ~(IsIdle(q) /\ b # first)
    <3>1. \A c \in Present \ {first} : IsIdle(blocks'[c]) => IsIdle(blocks[c])
      BY <1>8, <2>2 DEF Present
    <3> QED BY <1>1, <1>2, <1>9, <3>1 DEF FewIdle
  <2> QED BY <2>1, <2>2
<1>12. InUse' = InUse \ {i}
  <2>1. PICK L, bl, bm : L = Present /\ bl = blocks /\ bm = blocks'
    OBVIOUS
  <2>2. /\ b \in L /\ bm[b].total = bl[b].total /\ Idle(bm[b]) = Idle(bl[b]) \cup {x}
        /\ Same(L \ {b}, bl, bm)
    BY <1>2, <1>4, <1>5, <1>6, <1>8, <2>1, PresentFacts DEF Same, OnlyUsed
  <2>3. Used(L, bm) = Used(L, bl) \ {i}
    BY ONLY <1>5, <2>2, UsedGiven
  <2>4. InUse = Used(L, bl) /\ InUse' = Used(L, bm)
    BY <1>9, <2>1, InUseIsUsed
  <2> QED BY <1>5, <2>3, <2>4
<1>13. PoolInv'
  BY <1>9, <1>10, <1>11 DEF PoolInv
<1> QED BY <1>1, <1>12, <1>13

LEMMA FreeReleasedStep ==
  ASSUME PoolInv, FreeReleased
  PROVE  /\ PoolInv' /\ exists /\ exists' = exists /\ got' = NoItem
         /\ \E i \in InUse : InUse' = InUse \ {i}
<1>1. exists /\ exists' = exists /\ first' = first /\ lost' = lost /\ got' = NoItem
  BY DEF FreeReleased
<1>2. BlocksInv /\ LinksInv /\ CountsInv /\ UserInv /\ FewIdle
  BY DEF PoolInv
<1>3. PICK i \in InUse : /\ Spare(i[1]) /\ blocks' = Unlinked(i[1])
                         /\ capacity' = capacity - blocks[i[1]].total
                         /\ totalFree' = totalFree + 1 - blocks[i[1]].total
  BY DEF FreeReleased
<1>4. PICK b, x, r : b = i[1] /\ x = i[2] /\ r = blocks[b]
  OBVIOUS
<1>5. /\ b \in Present /\ x \in 1 .. r.total /\ x \notin Idle(r) /\ i = <<b, x>>
      /\ b \in DOMAIN blocks /\ BlockOK(r) /\ r.count \in Nat /\ r.total \in Nat
      /\ b \notin lost
      /\ r.next \in Block \cup {NoBlock} /\ r.prev \in Block \cup {NoBlock}
  BY <1>2, <1>4, UsedItem, PresentFacts DEF Present
<1>6. b # first /\ r.total = r.count + 1
  BY <1>3, <1>4 DEF Spare
<1>7. Idle(r) = 1 .. r.total \ {x}
  BY <1>5, <1>6, ListRoom
<1>8. /\ DOMAIN blocks' = DOMAIN blocks \ {b}
      /\ \A c \in DOMAIN blocks \ {b} :
           blocks'[c] = IF c = r.prev THEN [blocks[c] EXCEPT !.next = r.next]
                        ELSE IF c = r.next THEN [blocks[c] EXCEPT !.prev = r.prev]
                        ELSE blocks[c]
  BY <1>3, <1>4 DEF Unlinked
<1>9. ASSUME NEW c \in DOMAIN blocks \ {b}
      PROVE  /\ BlockOK(blocks'[c]) /\ blocks'[c].total = blocks[c].total
             /\ blocks'[c].count = blocks[c].count /\ Idle(blocks'[c]) = Idle(blocks[c])
             /\ blocks'[c].next = (IF c = r.prev THEN r.next ELSE blocks[c].next)
             /\ blocks'[c].prev = (IF c # r.prev /\ c = r.next THEN r.prev ELSE blocks[c].prev)
  <2>1. PICK e, q : e = blocks[c] /\ q = blocks'[c]
    OBVIOUS
  <2>2. BlockOK(e)
    BY <1>2, <2>1 DEF BlocksInv
  <2>3. CASE c = r.prev
    <3>1. q = [e EXCEPT !.next = r.next]
      BY <1>8, <1>9, <2>1, <2>3
    <3> QED BY <1>5, <2>1, <2>2, <2>3, <3>1, RelinkedOK
  <2>4. CASE c # r.prev /\ c = r.next
    <3>1. q = [e EXCEPT !.prev = r.prev]
      BY <1>8, <1>9, <2>1, <2>4
    <3> QED BY <1>5, <2>1, <2>2, <2>4, <3>1, RelinkedOK
  <2>5. CASE c # r.prev /\ c # r.next
    <3>1. q = e
      BY <1>8, <1>9, <2>1, <2>5
    <3> QED BY <2>1, <2>2, <2>5, <3>1
  <2> QED BY <2>3, <2>4, <2>5
<1>10. Present' = Present \ {b}
  BY <1>1, <1>5, <1>8 DEF Present
<1>11. \A c \in Present \ {b} : c \in DOMAIN blocks \ {b}
  BY DEF Present
<1>12. BlocksInv'
  <2>1. \A c \in DOMAIN blocks' : BlockOK(blocks'[c])
    BY <1>8, <1>9
  <2> QED BY <1>1, <1>2, <1>5, <1>8, <2>1 DEF BlocksInv
<1>13. LinksInv'
  <2>1. PICK p, n : Chain(blocks, first, Present, p, n)
    BY <1>2 DEF LinksInv
  <2>2. PICK bl, bm, f, L : bl = blocks /\ bm = blocks' /\ f = first /\ L = Present
    OBVIOUS
  <2>3. Chain(bl, f, L, p, n) /\ NoBlock \notin L /\ b \in L /\ b # f
    BY <1>2, <1>5, <1>6, <2>1, <2>2, PresentFacts
  <2>4. \A c \in L \ {b} :
           /\ bm[c].next = IF c = bl[b].prev THEN bl[b].next ELSE bl[c].next
           /\ bm[c].prev = IF c # bl[b].prev /\ c = bl[b].next THEN bl[b].prev ELSE bl[c].prev
    BY <1>4, <1>9, <1>11, <2>2
  <2>5. \E q : Chain(bm, f, L \ {b}, q, n - 1)
    BY ONLY <2>3, <2>4, ChainShrunk
  <2>6. \E q : Chain(blocks', first', Present', q, n - 1)
    BY <1>1, <1>10, <2>2, <2>5
  <2> QED BY <2>6 DEF LinksInv
<1>14. CountsInv'
  <2> DEFINE f == [c \in Present |-> blocks[c].total]
             h == [c \in Present' |-> blocks'[c].total]
             g == [c \in Present |-> blocks[c].count]
             k == [c \in Present' |-> blocks'[c].count]
  <2>1. /\ DOMAIN f = Present /\ DOMAIN g = Present
        /\ DOMAIN h = Present \ {b} /\ DOMAIN k = Present \ {b}
        /\ f[b] = r.total /\ g[b] = r.count
    BY <1>4, <1>5, <1>10
  <2>2. /\ \A c \in Present : f[c] \in Nat /\ g[c] \in Nat
        /\ \A c \in Present \ {b} : h[c] = f[c] /\ k[c] = g[c]
    BY <1>2, <1>9, <1>10, <1>11, PresentFacts
  <2>3. capacity = SumOf(f) /\ totalFree = SumOf(g) /\ IsFiniteSet(Present)
    BY <1>2, PresentFacts DEF CountsInv
  <2> HIDE DEF f, g, h, k
  <2>4. SumOf(f) = f[b] + SumOf(h) /\ SumOf(h) \in Nat
    <3>1. /\ IsFiniteSet(DOMAIN f) /\ (\A c \in DOMAIN f : f[c] \in Nat) /\ b \in DOMAIN f
          /\ DOMAIN h = DOMAIN f \ {b} /\ \A c \in DOMAIN h : h[c] = f[c]
      BY <1>5, <2>1, <2>2, <2>3
    <3> QED BY ONLY <3>1, SumSplit
  <2>5. SumOf(g) = g[b] + SumOf(k) /\ SumOf(k) \in Nat
    <3>1. /\ IsFiniteSet(DOMAIN g) /\ (\A c \in DOMAIN g : g[c] \in Nat) /\ b \in DOMAIN g
          /\ DOMAIN k = DOMAIN g \ {b} /\ \A c \in DOMAIN k : k[c] = g[c]
      BY <1>5, <2>1, <2>2, <2>3
    <3> QED BY ONLY <3>1, SumSplit
  <2>6. capacity' = SumOf(h) /\ totalFree' = SumOf(k)
    <3>1. capacity' = capacity - r.total /\ totalFree' = totalFree + 1 - r.total
      BY <1>3, <1>4
    <3>2. capacity = r.total + SumOf(h) /\ totalFree = r.count + SumOf(k)
      BY ONLY <2>1, <2>3, <2>4, <2>5
    <3>3. r.total \in Nat /\ r.count \in Nat /\ r.total = r.count + 1
      BY <1>5, <1>6
    <3> QED BY ONLY <3>1, <3>2, <3>3, <2>4, <2>5
  <2>7. \A c \in Present' : blocks'[c].total = IF c = first' THEN InitElems ELSE AdjustElems
    BY <1>1, <1>2, <1>9, <1>10, <1>11 DEF CountsInv
  <2> QED BY <2>6, <2>7 DEF CountsInv, h, k
<1>15. FewIdle'
  <2>1. \A c \in Present' : c \in Present /\ (IsIdle(blocks'[c]) => IsIdle(blocks[c]))
    BY <1>9, <1>10, <1>11 DEF IsIdle
  <2> QED BY <1>1, <1>2, <2>1 DEF FewIdle
<1>16. UserInv'
  BY <1>1, <1>2 DEF UserInv
<1>17. InUse' = InUse \ {i}
  <2>1. PICK L, bl, bm : L = Present /\ bl = blocks /\ bm = blocks'
    OBVIOUS
  <2>2. b \in L /\ OnlyUsed(bl[b], x) /\ Same(L \ {b}, bl, bm)
    BY <1>4, <1>5, <1>7, <1>9, <1>11, <2>1 DEF Same, OnlyUsed
  <2>3. Used(L \ {b}, bm) = Used(L, bl) \ {i}
    BY ONLY <1>5, <2>2, UsedDropped
  <2>4. InUse = Used(L, bl) /\ InUse' = Used(L \ {b}, bm)
    BY <1>10, <2>1, InUseIsUsed
  <2> QED BY <1>5, <2>3, <2>4
<1>18. PoolInv'
  BY <1>12, <1>13, <1>14, <1>15, <1>16 DEF PoolInv
<1> QED BY <1>1, <1>17, <1>18

-----------------------------------------------------------------------------
(* The theorems                                                            *)

LEMMA AtMostTwo ==
  ASSUME NEW S, IsFiniteSet(S), \A a, b, c \in S : a = b \/ b = c \/ a = c
  PROVE  Cardinality(S) <= 2
<1>1. Cardinality(S) \in Nat
  BY FS_CardinalityType
<1>2. CASE S = {}
  BY <1>2, FS_EmptySet
<1>3. CASE S # {}
  <2>1. PICK a \in S : TRUE
    BY <1>3
  <2> DEFINE A == S \ {a}
  <2>2. IsFiniteSet(A) /\ Cardinality(A) \in Nat /\ Cardinality(A) + 1 = Cardinality(S)
    BY <2>1, Smaller
  <2>3. CASE A = {}
    <3>1. Cardinality(A) = 0
      BY <2>3, FS_EmptySet
    <3> HIDE DEF A
    <3> QED BY <1>1, <2>2, <3>1
  <2>4. CASE A # {}
    <3>1. PICK b \in A : TRUE
      BY <2>4
    <3>2. A \ {b} = {}
      BY <2>1, <3>1
    <3> HIDE DEF A
    <3>3. Cardinality(A \ {b}) + 1 = Cardinality(A)
      BY <2>2, <3>1, Smaller
    <3>4. Cardinality(A \ {b}) = 0
      BY <3>2, FS_EmptySet
    <3> QED BY <1>1, <2>2, <3>3, <3>4
  <2> QED BY <2>3, <2>4
<1> QED BY <1>2, <1>3

LEMMA PoolInitInv == PoolInit => PoolInv /\ InUse = {}
<1> SUFFICES ASSUME PoolInit PROVE PoolInv /\ InUse = {}
  OBVIOUS
<1>1. /\ exists = FALSE /\ first = NoBlock /\ blocks = <<>> /\ lost = {}
      /\ capacity = 0 /\ totalFree = 0 /\ got = NoItem
  BY DEF PoolInit
<1>2. DOMAIN blocks = {} /\ Present = {}
  BY <1>1 DEF Present
<1>3. BlocksInv /\ UserInv /\ FewIdle
  BY <1>1, <1>2 DEF BlocksInv, UserInv, FewIdle
<1>4. LinksInv
  <2>1. PICK bl : bl = blocks
    OBVIOUS
  <2>2. Chain(bl, NoBlock, {}, <<>>, 0)
    BY ChainShort
  <2>3. Chain(blocks, first, Present, <<>>, 0)
    BY <1>1, <1>2, <2>1, <2>2
  <2> QED BY <2>3 DEF LinksInv
<1>5. CountsInv
  <2> DEFINE f == [c \in Present |-> blocks[c].total]
             g == [c \in Present |-> blocks[c].count]
  <2>1. DOMAIN f = {} /\ DOMAIN g = {}
    BY <1>2
  <2> HIDE DEF f, g
  <2>2. SumOf(f) = 0 /\ SumOf(g) = 0
    BY <2>1, SumEmpty
  <2> QED BY <1>1, <1>2, <2>2 DEF CountsInv, f, g
<1>6. InUse = {}
  BY <1>2, InUseIsUsed DEF Used
<1> QED BY <1>3, <1>4, <1>5, <1>6 DEF PoolInv

LEMMA PoolNextInv == PoolInv /\ [PoolNext]_poolVars => PoolInv'
<1> SUFFICES ASSUME PoolInv, [PoolNext]_poolVars PROVE PoolInv'
  OBVIOUS
<1>1. CASE PoolCreate
  BY <1>1, CreateStep
<1>2. CASE PoolDestroy
  BY <1>2, DestroyStep
<1>3. CASE Get
  BY <1>3, GetListedStep, GetExpandedStep, GetNoMemoryStep DEF Get
<1>4. CASE Free
  BY <1>4, FreeKeptStep, FreeReleasedStep DEF Free
<1>5. CASE UNCHANGED poolVars
  BY <1>5 DEF poolVars, PoolInv, BlocksInv, UserInv, LinksInv, CountsInv, FewIdle, Present
<1> QED BY <1>1, <1>2, <1>3, <1>4, <1>5 DEF PoolNext

LEMMA PoolInvSound == PoolInv => ListSound
<1> SUFFICES ASSUME PoolInv PROVE ListSound
  OBVIOUS
<1>1. BlocksInv /\ UserInv /\ LinksInv /\ CountsInv /\ FewIdle
  BY DEF PoolInv
<1>2. /\ Listed = Present
      /\ first \in Present \cup {NoBlock}
      /\ first \in Present => blocks[first].prev = NoBlock
      /\ \A b \in Present : /\ blocks[b].next # NoBlock =>
                                 blocks[b].next \in Present /\ blocks[blocks[b].next].prev = b
                            /\ b # first =>
                                 blocks[b].prev \in Present /\ blocks[blocks[b].prev].next = b
  <2>1. PICK p, n : Chain(blocks, first, Present, p, n)
    BY <1>1 DEF LinksInv
  <2> QED BY <1>1, <2>1, PresentFacts, ListedAll
<1>3. capacity \in Nat /\ totalFree \in Nat
  <2> DEFINE f == [c \in Present |-> blocks[c].total]
             g == [c \in Present |-> blocks[c].count]
  <2>1. /\ DOMAIN f = Present /\ (\A c \in DOMAIN f : f[c] \in Nat)
        /\ DOMAIN g = Present /\ (\A c \in DOMAIN g : g[c] \in Nat)
    BY <1>1, PresentFacts
  <2>2. capacity = SumOf(f) /\ totalFree = SumOf(g) /\ IsFiniteSet(Present)
    BY <1>1, PresentFacts DEF CountsInv
  <2> HIDE DEF f, g
  <2> QED BY <2>1, <2>2, SumType
<1>4. ASSUME NEW b \in DOMAIN blocks
      PROVE  /\ blocks[b].total \in {InitElems, AdjustElems}
             /\ blocks[b].count \in 0 .. blocks[b].total
             /\ blocks[b].free \in Seq(1 .. blocks[b].total)
             /\ blocks[b].next \in Block \cup {NoBlock} /\ blocks[b].prev \in Block \cup {NoBlock}
             /\ blocks[b].count = Len(blocks[b].free)
  <2>1. PICK r : r = blocks[b]
    OBVIOUS
  <2>2. BlockOK(r)
    BY <1>1, <2>1 DEF BlocksInv
  <2>3. /\ r \in BlockType /\ r.free \in Seq(1 .. r.total) /\ r.count = Len(r.free)
        /\ r.count <= r.total
    BY <2>2 DEF BlockOK
  <2>4. /\ r.total \in {InitElems, AdjustElems} /\ r.count \in Nat
        /\ r.next \in Block \cup {NoBlock} /\ r.prev \in Block \cup {NoBlock}
    BY <2>3 DEF BlockType
  <2>5. r.count \in 0 .. r.total
    BY <2>3, <2>4, ElemsFacts
  <2> QED BY <2>1, <2>3, <2>4, <2>5
<1>5. PoolTypeOK
  <2>1. first \in DOMAIN blocks \cup {NoBlock}
    BY <1>1, <1>2, PresentFacts
  <2>2. \A b \in DOMAIN blocks : {blocks[b].next, blocks[b].prev} \subseteq Block \cup {NoBlock}
    BY <1>4
  <2>3. /\ exists \in BOOLEAN /\ (exists <=> first # NoBlock) /\ got \in Item \cup {NoItem}
        /\ DOMAIN blocks \subseteq Block /\ lost \subseteq DOMAIN blocks
    BY <1>1 DEF UserInv, BlocksInv
  <2> QED BY <1>3, <1>4, <2>1, <2>2, <2>3 DEF PoolTypeOK
<1>6. LinksSound
  <2>1. exists => first \in Present
    BY <1>1, <1>2 DEF UserInv
  <2> QED BY <1>2, <1>5, <2>1 DEF LinksSound, Present
<1>7. CountsExact
  <2>1. \A b \in Listed : blocks[b].count = Len(blocks[b].free)
    BY <1>1, <1>2, <1>4, PresentFacts
  <2>2. /\ capacity = SumOf([b \in Listed |-> blocks[b].total])
        /\ totalFree = SumOf([b \in Listed |-> blocks[b].count])
    BY <1>1, <1>2 DEF CountsInv
  <2> DEFINE S == {b \in Listed \ {first} : blocks[b].count = blocks[b].total}
  <2>3. Cardinality(S) <= 2
    <3>1. IsFiniteSet(S)
      BY <1>1, <1>2, PresentFacts, FS_Subset
    <3>2. \A a, b, c \in S : a = b \/ b = c \/ a = c
      BY <1>1, <1>2 DEF FewIdle, IsIdle
    <3> HIDE DEF S
    <3> QED BY <3>1, <3>2, AtMostTwo
  <2> QED BY <2>1, <2>2, <2>3 DEF CountsExact
<1> QED BY <1>6, <1>7 DEF ListSound

\* Through every order of gets and frees, creations and destructions: the links of a
\* pool lead through all its blocks and back, its three counts are exact, and it has
\* at most two idle blocks besides the first (rpool.h, rpool_expand to
\* rpool_free_to_pool).
THEOREM ListsAreSound == PoolSpec => []ListSound
<1>1. PoolInit => PoolInv
  BY PoolInitInv
<1>2. PoolInv /\ [PoolNext]_poolVars => PoolInv'
  BY PoolNextInv
<1>3. PoolInv => ListSound
  BY PoolInvSound
<1> QED BY <1>1, <1>2, <1>3, PTL DEF PoolSpec

\* Every call of the pool is a step of an abstract allocator: no item is handed out
\* twice, and none is taken from its user with a block that is given back.
THEOREM AllocatorRefined == PoolSpec => ImplementsAllocator
<1>1. PoolInit => Allocator!Init
  BY PoolInitInv DEF PoolInit, Allocator!Init
<1>2. PoolInv /\ [PoolNext]_poolVars => [Allocator!Next]_<<exists, InUse, got>>
  <2> SUFFICES ASSUME PoolInv, [PoolNext]_poolVars
               PROVE  Allocator!Next \/ (exists' = exists /\ InUse' = InUse /\ got' = got)
    OBVIOUS
  <2>1. CASE PoolCreate
    <3>1. InUse' = InUse /\ got' = got /\ ~exists /\ got = NoItem /\ (exists' = TRUE \/ exists' = exists)
      BY <2>1, CreateStep DEF PoolCreate
    <3> QED BY <3>1 DEF Allocator!Next, Allocator!Create
  <2>2. CASE PoolDestroy
    <3>1. exists /\ exists' = FALSE /\ InUse' = {} /\ got' = NoItem
      BY <2>2, DestroyStep DEF PoolDestroy
    <3> QED BY <3>1 DEF Allocator!Next, Allocator!Destroy
  <2>3. CASE GetListed \/ GetExpanded
    <3>1. exists /\ exists' = exists /\ \E i \in Item \ InUse : InUse' = InUse \cup {i} /\ got' = i
      BY <2>3, GetListedStep, GetExpandedStep
    <3> QED BY <3>1 DEF Allocator!Next, Allocator!Get
  <2>4. CASE GetNoMemory
    <3>1. exists /\ exists' = exists /\ got' = NoItem /\ InUse' = InUse
      BY <2>4, GetNoMemoryStep
    <3> QED BY <3>1 DEF Allocator!Next, Allocator!Get
  <2>5. CASE Free
    <3>1. exists /\ exists' = exists /\ got' = NoItem /\ \E i \in InUse : InUse' = InUse \ {i}
      BY <2>5, FreeKeptStep, FreeReleasedStep DEF Free
    <3> QED BY <3>1 DEF Allocator!Next, Allocator!Free
  <2>6. CASE UNCHANGED poolVars
    <3>1. exists' = exists /\ got' = got /\ blocks' = blocks /\ lost' = lost
      BY <2>6 DEF poolVars
    <3>2. InUse' = InUse
      BY <3>1, InUseIsUsed DEF Present
    <3> QED BY <3>1, <3>2
  <2> QED BY <2>1, <2>2, <2>3, <2>4, <2>5, <2>6 DEF PoolNext, Get
<1>3. PoolInit => PoolInv
  BY PoolInitInv
<1>4. PoolInv /\ [PoolNext]_poolVars => PoolInv'
  BY PoolNextInv
<1> QED BY <1>1, <1>2, <1>3, <1>4, PTL DEF PoolSpec, ImplementsAllocator, Allocator!Spec

-----------------------------------------------------------------------------
(* The chain of the pools                                                  *)

\* The nodes behind the head in the order of the chain, p: the links lead through them,
\* prev of each is the head, and those in front are the newer ones.
Way(L, p, n) ==
  /\ n \in Nat /\ p \in [1 .. n -> L]
  /\ \A i, j \in 1 .. n : p[i] = p[j] => i = j
  /\ \A t \in L : \E i \in 1 .. n : p[i] = t
  /\ next[ChainHead] = (IF n = 0 THEN NoNode ELSE p[1])
  /\ \A i \in 1 .. n : /\ p[i] \in DOMAIN next \cap DOMAIN prev
                       /\ next[p[i]] = IF i = n THEN NoNode ELSE p[i + 1]
                       /\ prev[p[i]] = ChainHead
  /\ \A i, j \in 1 .. n : p[i] \in newer[p[j]] <=> i < j

ChainInv == /\ Pools \subseteq Type /\ overtaken \subseteq Pools
            /\ \A t \in Pools : newer[t] \subseteq Pools
            /\ ChainHead \in DOMAIN next
            /\ \E p, n : Way(Pools \ overtaken, p, n)

LEMMA TypeFacts == /\ IsFiniteSet(Type) /\ Cardinality(Type) \in Nat
                   /\ ChainHead \notin Type /\ NoNode \notin Type /\ NoNode # ChainHead
BY ChainAssumption, FS_CardinalityType

LEMMA WayLength ==
  ASSUME NEW L, L \subseteq Type, NEW p, NEW n, Way(L, p, n)
  PROVE  n \in Nat /\ n <= Cardinality(Type)
<1>1. n \in Nat /\ p \in [1 .. n -> L] /\ \A i, j \in 1 .. n : p[i] = p[j] => i = j
  BY DEF Way
<1>2. p \in Injection(1 .. n, Type)
  BY <1>1 DEF Injection, IsInjective
<1>3. IsFiniteSet(1 .. n) /\ Cardinality(1 .. n) = n
  BY <1>1, FS_Interval
<1>4. Cardinality(1 .. n) <= Cardinality(Type)
  BY <1>2, TypeFacts, FS_Injection
<1> QED BY <1>1, <1>3, <1>4

\* The walks of rpool_destroy and rpool_uninit_global meet exactly those nodes.
LEMMA ChainedAll ==
  ASSUME NEW L, L \subseteq Type, NEW p, NEW n, Way(L, p, n)
  PROVE  Chained = L
<1> DEFINE D == 0 .. Cardinality(Type) + 1
           Step(g, k) == IF k = 0 THEN ChainHead
                         ELSE IF g[k - 1] = NoNode THEN NoNode ELSE next[g[k - 1]]
           w == [k \in D |-> IF k = 0 THEN ChainHead ELSE IF k <= n THEN p[k] ELSE NoNode]
<1>1. n \in Nat /\ n <= Cardinality(Type) /\ Cardinality(Type) \in Nat
  BY WayLength, TypeFacts
<1>2. \A i \in 1 .. n : p[i] # NoNode /\ p[i] \in L
  BY TypeFacts DEF Way
<1>3. ASSUME NEW k \in D PROVE w[k] = Step(w, k)
  <2>1. CASE k = 0
    BY <1>1, <2>1
  <2>2. CASE k = 1
    <3>1. w[0] = ChainHead /\ w[1] = IF 1 <= n THEN p[1] ELSE NoNode
      BY <1>1
    <3>2. next[ChainHead] = IF n = 0 THEN NoNode ELSE p[1]
      BY DEF Way
    <3>3. 1 <= n <=> n # 0
      BY <1>1
    <3>4. k # 0 /\ k - 1 = 0
      BY <2>2
    <3> HIDE DEF w
    <3> QED BY <2>2, <3>1, <3>2, <3>3, <3>4, TypeFacts
  <2>3. CASE k # 0 /\ k # 1
    <3>1. k - 1 \in D /\ k - 1 # 0 /\ k # 0 /\ w[k - 1] = IF k - 1 <= n THEN p[k - 1] ELSE NoNode
      BY <2>3, <1>1
    <3>2. CASE k - 1 <= n
      <4>1. k - 1 \in 1 .. n /\ (k - 1) + 1 = k
        BY <1>1, <2>3, <3>2
      <4>2. w[k - 1] = p[k - 1] /\ p[k - 1] # NoNode
        BY <1>2, <3>1, <3>2, <4>1
      <4>3. next[p[k - 1]] = IF k - 1 = n THEN NoNode ELSE p[k]
        BY <4>1 DEF Way
      <4>4. w[k] = IF k - 1 = n THEN NoNode ELSE p[k]
        BY <1>1, <2>3, <3>2
      <4> HIDE DEF w
      <4> QED BY <3>1, <4>2, <4>3, <4>4
    <3>3. CASE ~(k - 1 <= n)
      <4>1. w[k - 1] = NoNode /\ w[k] = NoNode
        BY <1>1, <2>3, <3>1, <3>3
      <4> HIDE DEF w
      <4> QED BY <3>1, <4>1
    <3> QED BY <3>2, <3>3
  <2> QED BY <2>1, <2>2, <2>3
<1> HIDE DEF Step
<1>4. w = [k \in D |-> Step(w, k)]
  <2>1. w = [k \in D |-> w[k]]
    OBVIOUS
  <2> HIDE DEF w
  <2> QED BY <1>3, <2>1
<1>5. Link = [k \in D |-> Step(Link, k)]
  <2>1. Link = CHOOSE g : g = [k \in D |-> Step(g, k)]
    BY DEF Link, Step
  <2> HIDE DEF w, D
  <2> QED BY <1>4, <2>1
<1> DEFINE h == Link
<1>6. h = [k \in D |-> Step(h, k)]
  BY <1>5
<1> HIDE DEF h
<1> DEFINE T == {k \in D : h[k] # w[k]}
<1>7. T = {}
  <2> SUFFICES ASSUME T # {} PROVE FALSE
    OBVIOUS
  <2> HIDE DEF w
  <2>1. T \subseteq Nat
    BY <1>1
  <2>2. PICK m \in T : \A k \in T : m <= k
    <3> HIDE DEF T
    <3> QED BY <2>1, LeastMember
  <2>3. m \in D /\ h[m] = Step(h, m) /\ w[m] = Step(w, m) /\ h[m] # w[m]
    BY <1>3, <1>6
  <2>4. m # 0
    BY <2>3 DEF Step
  <2>5. m - 1 \in D /\ m - 1 \notin T
    <3> HIDE DEF T
    <3> QED BY <1>1, <2>2, <2>3, <2>4
  <2>6. h[m - 1] = w[m - 1]
    BY <2>5
  <2> QED BY <2>3, <2>4, <2>6 DEF Step
<1>8. \A k \in 1 .. Cardinality(Type) + 1 : h[k] = IF k <= n THEN p[k] ELSE NoNode
  <2>1. ASSUME NEW k \in 1 .. Cardinality(Type) + 1 PROVE h[k] = IF k <= n THEN p[k] ELSE NoNode
    <3>1. k \in D /\ k # 0
      BY <1>1
    <3>2. w[k] = IF k <= n THEN p[k] ELSE NoNode
      BY <3>1
    <3> HIDE DEF w
    <3> QED BY <1>7, <3>1, <3>2
  <2> QED BY <2>1
<1>9. ASSUME NEW t \in Chained PROVE t \in L
  <2>1. PICK k \in 1 .. Cardinality(Type) + 1 : h[k] = t /\ t # NoNode
    BY DEF Chained, h
  <2>2. k <= n /\ t = p[k]
    BY <1>8, <2>1
  <2>3. k \in 1 .. n
    BY <1>1, <2>2
  <2> QED BY <1>2, <2>2, <2>3
<1>10. ASSUME NEW t \in L PROVE t \in Chained
  <2>1. PICK i \in 1 .. n : p[i] = t
    BY DEF Way
  <2>2. i \in 1 .. Cardinality(Type) + 1 /\ i <= n
    BY <1>1
  <2>3. h[i] = t /\ t # NoNode
    BY <1>2, <1>8, <2>1, <2>2
  <2> QED BY <2>2, <2>3 DEF Chained, h
<1> QED BY <1>9, <1>10

LEMMA ChainInvExact == ChainInv => ChainExact
<1> SUFFICES ASSUME ChainInv PROVE ChainExact
  OBVIOUS
<1>1. PICK p, n : Way(Pools \ overtaken, p, n)
  BY DEF ChainInv
<1>2. Pools \ overtaken \subseteq Type
  BY DEF ChainInv
<1> QED BY <1>1, <1>2, ChainedAll DEF ChainExact

LEMMA ChainInitInv == ChainInit => ChainInv
<1> SUFFICES ASSUME ChainInit PROVE ChainInv
  OBVIOUS
<1>1. Pools = {} /\ overtaken = {} /\ ChainHead \in DOMAIN next /\ next[ChainHead] = NoNode
  BY DEF ChainInit, Pools
<1>2. Way(Pools \ overtaken, <<>>, 0)
  BY <1>1 DEF Way
<1> QED BY <1>1, <1>2 DEF ChainInv

\* A new pool comes first.
LEMMA EnterStep == ASSUME ChainInv, Enter PROVE ChainInv'
<1>1. PICK t \in Type \ Pools :
           /\ newer' = [u \in Pools \cup {t} |-> IF u = t THEN {} ELSE newer[u] \cup {t}]
           /\ next' = Linked(Linked(next, t, next[ChainHead]), ChainHead, t)
           /\ prev' = Linked(prev, t, ChainHead)
           /\ overtaken' = overtaken
  BY DEF Enter
<1>2. PICK p, n : Way(Pools \ overtaken, p, n)
  BY DEF ChainInv
<1> DEFINE L == Pools \ overtaken
           q == [i \in 1 .. n + 1 |-> IF i = 1 THEN t ELSE p[i - 1]]
<1>3. /\ Pools \subseteq Type /\ overtaken \subseteq Pools /\ t \in Type /\ t \notin Pools /\ t # ChainHead
      /\ \A u \in Pools : newer[u] \subseteq Pools
      /\ ChainHead \in DOMAIN next /\ ChainHead \notin Pools
  BY TypeFacts DEF ChainInv
<1>4. Pools' = Pools \cup {t} /\ Pools' \ overtaken' = L \cup {t}
  BY <1>1, <1>3 DEF Pools
<1>5. /\ newer'[t] = {} /\ \A u \in Pools : newer'[u] = newer[u] \cup {t}
  BY <1>1, <1>3
<1>6. /\ ChainHead \in DOMAIN next' /\ t \in DOMAIN next' /\ t \in DOMAIN prev'
      /\ next'[ChainHead] = t /\ next'[t] = next[ChainHead] /\ prev'[t] = ChainHead
      /\ \A u \in DOMAIN next \cap DOMAIN prev :
           u # t /\ u # ChainHead =>
             u \in DOMAIN next' \cap DOMAIN prev' /\ next'[u] = next[u] /\ prev'[u] = prev[u]
  BY <1>1, <1>3 DEF Linked
<1>7. /\ n \in Nat /\ p \in [1 .. n -> L]
      /\ \A i, j \in 1 .. n : p[i] = p[j] => i = j
      /\ \A u \in L : \E i \in 1 .. n : p[i] = u
      /\ next[ChainHead] = (IF n = 0 THEN NoNode ELSE p[1])
      /\ \A i \in 1 .. n : /\ p[i] \in DOMAIN next \cap DOMAIN prev
                           /\ next[p[i]] = IF i = n THEN NoNode ELSE p[i + 1]
                           /\ prev[p[i]] = ChainHead
      /\ \A i, j \in 1 .. n : p[i] \in newer[p[j]] <=> i < j
  BY <1>2 DEF Way
<1>8. /\ \A i \in 1 .. n + 1 : q[i] = IF i = 1 THEN t ELSE p[i - 1]
      /\ \A i \in 1 .. n + 1 : i # 1 => i - 1 \in 1 .. n /\ (i - 1) + 1 = i /\ (i = n + 1 <=> i - 1 = n)
      /\ \A i \in 1 .. n : i + 1 \in 1 .. n + 1 /\ i + 1 # 1 /\ (i + 1) - 1 = i
      /\ n + 1 \in Nat /\ n + 1 # 0 /\ 1 \in 1 .. n + 1 /\ (1 = n + 1 <=> n = 0)
  BY <1>7
<1>9. \A i \in 1 .. n : p[i] \in L /\ p[i] \in Pools /\ p[i] # t /\ p[i] # ChainHead
  BY <1>3, <1>7
<1>10. q \in [1 .. n + 1 -> L \cup {t}]
  BY <1>8, <1>9
<1> HIDE DEF q, L
<1>11. ASSUME NEW i \in 1 .. n + 1, NEW j \in 1 .. n + 1, q[i] = q[j] PROVE i = j
  <2>1. CASE i = 1 \/ j = 1
    BY <1>8, <1>9, <1>11, <2>1
  <2>2. CASE i # 1 /\ j # 1
    <3>1. i - 1 = j - 1
      BY <1>7, <1>8, <1>11, <2>2
    <3> QED BY <3>1
  <2> QED BY <2>1, <2>2
<1>12. ASSUME NEW u \in L \cup {t} PROVE \E i \in 1 .. n + 1 : q[i] = u
  <2>1. CASE u = t
    BY <1>8, <2>1
  <2>2. CASE u # t
    <3>1. PICK i \in 1 .. n : p[i] = u
      BY <1>7, <2>2
    <3> QED BY <1>8, <3>1
  <2> QED BY <2>1, <2>2
<1>13. ASSUME NEW i \in 1 .. n + 1
       PROVE  /\ q[i] \in DOMAIN next' \cap DOMAIN prev'
              /\ next'[q[i]] = IF i = n + 1 THEN NoNode ELSE q[i + 1]
              /\ prev'[q[i]] = ChainHead
  <2>1. CASE i = 1
    <3>1. n # 0 => q[1 + 1] = p[1]
      BY <1>7, <1>8
    <3> QED BY <1>6, <1>7, <1>8, <2>1, <3>1
  <2>2. CASE i # 1
    <3> DEFINE k == i - 1
    <3>1. k \in 1 .. n /\ q[i] = p[k] /\ (i = n + 1 <=> k = n) /\ k + 1 = i
      BY <1>8, <2>2
    <3>2. k # n => i + 1 \in 1 .. n + 1 /\ q[i + 1] = p[k + 1]
      BY <1>7, <1>8, <2>2
    <3> HIDE DEF k
    <3>3. /\ p[k] \in DOMAIN next' \cap DOMAIN prev'
          /\ next'[p[k]] = next[p[k]] /\ prev'[p[k]] = prev[p[k]]
      BY <1>6, <1>7, <1>9, <3>1
    <3> QED BY <1>7, <3>1, <3>2, <3>3
  <2> QED BY <2>1, <2>2
<1>14. ASSUME NEW i \in 1 .. n + 1, NEW j \in 1 .. n + 1 PROVE q[i] \in newer'[q[j]] <=> i < j
  <2>1. CASE j = 1
    BY <1>5, <1>8, <2>1
  <2>2. CASE j # 1 /\ i = 1
    <3>1. 1 < j
      BY <1>7, <2>2
    <3> QED BY <1>5, <1>8, <1>9, <2>2, <3>1
  <2>3. CASE j # 1 /\ i # 1
    <3>1. /\ i - 1 \in 1 .. n /\ j - 1 \in 1 .. n /\ q[i] = p[i - 1] /\ q[j] = p[j - 1]
      BY <1>8, <2>3
    <3>2. p[i - 1] \in newer[p[j - 1]] <=> i - 1 < j - 1
      BY <1>7, <3>1
    <3>3. p[i - 1] \in newer'[p[j - 1]] <=> p[i - 1] \in newer[p[j - 1]]
      BY <1>5, <1>9, <3>1
    <3>4. i - 1 < j - 1 <=> i < j
      BY <1>7
    <3> QED BY <3>1, <3>2, <3>3, <3>4
  <2> QED BY <2>1, <2>2, <2>3
<1>15. Way(Pools \ overtaken, q, n + 1)'
  BY <1>4, <1>6, <1>8, <1>10, <1>11, <1>12, <1>13, <1>14 DEF Way
<1>16. /\ Pools' \subseteq Type /\ overtaken' \subseteq Pools'
       /\ \A u \in Pools' : newer'[u] \subseteq Pools'
  BY <1>1, <1>3, <1>4, <1>5
<1> QED BY <1>6, <1>15, <1>16 DEF ChainInv

\* The pool that is taken out takes those in front of it along.
LEMMA TakeOutStep == ASSUME ChainInv, TakeOut PROVE ChainInv'
<1>1. PICK t \in Pools :
        /\ newer' = [u \in Pools \ {t} |-> newer[u] \ {t}]
        /\ IF t \in Chained
           THEN /\ next' = Linked(next, prev[t], Behind(t))
                /\ prev' = IF next[t] = NoNode THEN prev ELSE Linked(prev, next[t], prev[t])
           ELSE next' = next /\ prev' = prev
        /\ overtaken' = (IF t \in overtaken THEN overtaken ELSE overtaken \cup newer[t]) \ {t}
  BY DEF TakeOut
<1>2. PICK p, n : Way(Pools \ overtaken, p, n)
  BY DEF ChainInv
<1>3. /\ Pools \subseteq Type /\ overtaken \subseteq Pools
      /\ \A u \in Pools : newer[u] \subseteq Pools
      /\ ChainHead \in DOMAIN next /\ ChainHead \notin Pools
  BY TypeFacts DEF ChainInv
<1>4. Chained = Pools \ overtaken
  <2>1. Pools \ overtaken \subseteq Type
    BY <1>3
  <2> QED BY <1>2, <2>1, ChainedAll
<1>5. Pools' = Pools \ {t} /\ \A u \in Pools \ {t} : newer'[u] = newer[u] \ {t}
  BY <1>1 DEF Pools
<1>6. /\ Pools' \subseteq Type /\ overtaken' \subseteq Pools'
      /\ \A u \in Pools' : newer'[u] \subseteq Pools'
  BY <1>1, <1>3, <1>5
<1>7. /\ n \in Nat /\ p \in [1 .. n -> Pools \ overtaken]
      /\ \A i, j \in 1 .. n : p[i] = p[j] => i = j
      /\ \A u \in Pools \ overtaken : \E i \in 1 .. n : p[i] = u
      /\ next[ChainHead] = (IF n = 0 THEN NoNode ELSE p[1])
      /\ \A i \in 1 .. n : /\ p[i] \in DOMAIN next \cap DOMAIN prev
                           /\ next[p[i]] = IF i = n THEN NoNode ELSE p[i + 1]
                           /\ prev[p[i]] = ChainHead
      /\ \A i, j \in 1 .. n : p[i] \in newer[p[j]] <=> i < j
  BY <1>2 DEF Way
<1>8. \A i \in 1 .. n : p[i] \in Pools \ overtaken /\ p[i] \in Pools /\ p[i] # ChainHead
  BY <1>3, <1>7
<1>9. CASE t \in overtaken
  <2>1. next' = next /\ prev' = prev /\ Pools' \ overtaken' = Pools \ overtaken
    BY <1>1, <1>4, <1>5, <1>9
  <2>2. \A i, j \in 1 .. n : p[i] \in newer'[p[j]] <=> i < j
    <3>1. \A i \in 1 .. n : p[i] # t /\ p[i] \in Pools \ {t}
      BY <1>8, <1>9
    <3> QED BY <1>5, <1>7, <3>1
  <2>3. Way(Pools \ overtaken, p, n)'
    BY <1>7, <2>1, <2>2 DEF Way
  <2> QED BY <1>3, <1>6, <2>1, <2>3 DEF ChainInv
<1>10. CASE t \notin overtaken
  <2>1. PICK k \in 1 .. n : p[k] = t
    BY <1>7, <1>10
  <2> DEFINE m == n - k
             q == [i \in 1 .. m |-> p[k + i]]
             L == {p[i] : i \in k + 1 .. n}
  <2>2. /\ m \in Nat /\ k \in Nat /\ k > 0 /\ (m = 0 <=> k = n)
        /\ \A i \in 1 .. m : /\ k + i \in 1 .. n /\ k + i \in k + 1 .. n /\ k + i # k /\ k < k + i
                             /\ (k + i = n <=> i = m)
        /\ \A i \in 1 .. m : i # m => i + 1 \in 1 .. m /\ k + (i + 1) = (k + i) + 1
        /\ \A i \in k + 1 .. n : i \in 1 .. n /\ i - k \in 1 .. m /\ k + (i - k) = i
        /\ (m # 0 => 1 \in 1 .. m)
    BY <1>7
  <2>3. \A i \in 1 .. m : q[i] = p[k + i]
    OBVIOUS
  <2>4. \A i \in 1 .. m : q[i] \in L /\ q[i] \in Pools \ {t} /\ q[i] # ChainHead
    <3>1. \A i \in 1 .. m : p[k + i] # t
      BY <1>7, <2>1, <2>2
    <3> QED BY <1>8, <2>2, <2>3, <3>1
  <2>5. Pools' \ overtaken' = L
    <3>1. ASSUME NEW u \in L PROVE u \in Pools' \ overtaken'
      <4>1. PICK i \in k + 1 .. n : u = p[i]
        OBVIOUS
      <4>2. i \in 1 .. n /\ i # k /\ ~(i < k)
        BY <2>2
      <4>3. u \notin newer[t] /\ u # t /\ u \in Pools \ overtaken
        BY <1>7, <1>8, <2>1, <4>1, <4>2
      <4> QED BY <1>1, <1>5, <1>10, <4>3
    <3>2. ASSUME NEW u \in Pools' \ overtaken' PROVE u \in L
      <4>1. u \in Pools \ overtaken /\ u # t /\ u \notin newer[t]
        BY <1>1, <1>5, <1>10, <3>2
      <4>2. PICK i \in 1 .. n : u = p[i]
        BY <1>7, <4>1
      <4>3. i # k /\ ~(i < k)
        BY <1>7, <2>1, <4>1, <4>2
      <4>4. i \in k + 1 .. n
        BY <1>7, <4>3
      <4> QED BY <4>2, <4>4
    <3> QED BY <3>1, <3>2
  <2>6. next[t] = (IF k = n THEN NoNode ELSE p[k + 1]) /\ prev[t] = ChainHead
    BY <1>7, <2>1
  <2>7. /\ next' = Linked(next, ChainHead, next[t])
        /\ prev' = IF next[t] = NoNode THEN prev ELSE Linked(prev, next[t], ChainHead)
    BY <1>1, <1>4, <1>10, <2>6 DEF Behind
  <2>8. /\ next'[ChainHead] = next[t] /\ DOMAIN next' = DOMAIN next
        /\ \A u \in DOMAIN next : u # ChainHead => next'[u] = next[u]
    BY <1>3, <2>7 DEF Linked
  <2>9. \A u \in DOMAIN prev : u \in DOMAIN prev' /\ (prev[u] = ChainHead => prev'[u] = ChainHead)
    BY <2>7 DEF Linked
  <2>10. q \in [1 .. m -> L]
    BY <2>4
  <2> HIDE DEF q, m
  <2>11. ASSUME NEW i \in 1 .. m, NEW j \in 1 .. m, q[i] = q[j] PROVE i = j
    <3>1. p[k + i] = p[k + j] /\ k + i \in 1 .. n /\ k + j \in 1 .. n
      BY <2>2, <2>3, <2>11
    <3>2. \A x, y \in 1 .. n : p[x] = p[y] => x = y
      BY <1>7
    <3>3. k + i = k + j
      BY ONLY <3>1, <3>2
    <3>4. i \in Int /\ j \in Int /\ k \in Int
      BY <2>2
    <3> QED BY ONLY <3>3, <3>4
  <2>12. ASSUME NEW u \in L PROVE \E i \in 1 .. m : q[i] = u
    <3>1. PICK i \in k + 1 .. n : u = p[i]
      OBVIOUS
    <3>2. i - k \in 1 .. m /\ q[i - k] = p[i]
      BY <2>2, <2>3
    <3> QED BY <3>1, <3>2
  <2>13. ASSUME NEW i \in 1 .. m
         PROVE  /\ q[i] \in DOMAIN next' \cap DOMAIN prev'
                /\ next'[q[i]] = IF i = m THEN NoNode ELSE q[i + 1]
                /\ prev'[q[i]] = ChainHead
    <3>1. k + i \in 1 .. n /\ q[i] = p[k + i]
      BY <2>2, <2>3
    <3>2. next'[q[i]] = next[p[k + i]] /\ q[i] \in DOMAIN next' \cap DOMAIN prev' /\ prev'[q[i]] = ChainHead
      BY <1>7, <1>8, <2>8, <2>9, <3>1
    <3>3. next[p[k + i]] = IF i = m THEN NoNode ELSE p[(k + i) + 1]
      BY <1>7, <2>2, <3>1
    <3>4. i # m => q[i + 1] = p[(k + i) + 1]
      BY <2>2, <2>3
    <3> QED BY <3>2, <3>3, <3>4
  <2>14. ASSUME NEW i \in 1 .. m, NEW j \in 1 .. m PROVE q[i] \in newer'[q[j]] <=> i < j
    <3>1. k + i \in 1 .. n /\ q[i] = p[k + i] /\ k + j \in 1 .. n /\ q[j] = p[k + j]
      BY <2>2, <2>3
    <3>2. q[i] \in newer[q[j]] <=> k + i < k + j
      <4>1. \A x, y \in 1 .. n : p[x] \in newer[p[y]] <=> x < y
        BY <1>7
      <4>2. p[k + i] \in newer[p[k + j]] <=> k + i < k + j
        BY ONLY <3>1, <4>1
      <4> QED BY ONLY <3>1, <4>2
    <3>3. q[i] \in newer'[q[j]] <=> q[i] \in newer[q[j]]
      BY <1>5, <2>4
    <3>4. k + i < k + j <=> i < j
      BY <2>2
    <3> QED BY <3>2, <3>3, <3>4
  <2>15. next'[ChainHead] = IF m = 0 THEN NoNode ELSE q[1]
    BY <2>2, <2>3, <2>6, <2>8
  <2> HIDE DEF L
  <2>16. Way(Pools \ overtaken, q, m)'
    BY <2>2, <2>5, <2>10, <2>11, <2>12, <2>13, <2>14, <2>15 DEF Way
  <2> QED BY <1>3, <1>6, <2>8, <2>16 DEF ChainInv
<1> QED BY <1>9, <1>10

LEMMA DestroyAllStep == ASSUME ChainInv, DestroyAll PROVE ChainInv'
<1>1. /\ newer' = [u \in Pools \ Chained |-> newer[u] \ Chained]
      /\ next' = Linked(next, ChainHead, NoNode)
      /\ prev' = prev /\ overtaken' = overtaken
  BY DEF DestroyAll
<1>2. /\ Pools \subseteq Type /\ overtaken \subseteq Pools
      /\ \A u \in Pools : newer[u] \subseteq Pools
      /\ ChainHead \in DOMAIN next /\ Chained = Pools \ overtaken
  BY ChainInvExact DEF ChainInv, ChainExact
<1>3. Pools' = overtaken /\ \A u \in overtaken : newer'[u] = newer[u] \ Chained
  BY <1>1, <1>2 DEF Pools
<1>4. Pools' \ overtaken' = {}
  BY <1>1, <1>3
<1>5. ChainHead \in DOMAIN next' /\ next'[ChainHead] = NoNode
  BY <1>1, <1>2 DEF Linked
<1>6. Way(Pools \ overtaken, <<>>, 0)'
  BY <1>4, <1>5 DEF Way
<1>7. /\ Pools' \subseteq Type /\ overtaken' \subseteq Pools'
      /\ \A u \in Pools' : newer'[u] \subseteq Pools'
  BY <1>1, <1>2, <1>3
<1> QED BY <1>5, <1>6, <1>7 DEF ChainInv

\* In whatever order pools are created and destroyed, the chain leads to exactly the
\* pools that exist and were not newer than one that was destroyed on its own
\* (rpool_create, rpool_destroy and rpool_uninit_global).
THEOREM ChainIsExact == ChainSpec => []ChainExact
<1>1. ChainInit => ChainInv
  BY ChainInitInv
<1>2. ChainInv /\ [ChainNext]_chainVars => ChainInv'
  <2> SUFFICES ASSUME ChainInv, [ChainNext]_chainVars PROVE ChainInv'
    OBVIOUS
  <2>1. CASE Enter
    BY <2>1, EnterStep
  <2>2. CASE TakeOut
    BY <2>2, TakeOutStep
  <2>3. CASE DestroyAll
    BY <2>3, DestroyAllStep
  <2>4. CASE UNCHANGED chainVars
    BY <2>4 DEF chainVars, ChainInv, Pools, Way
  <2> QED BY <2>1, <2>2, <2>3, <2>4 DEF ChainNext
<1>3. ChainInv => ChainExact
  BY ChainInvExact
<1> QED BY <1>1, <1>2, <1>3, PTL DEF ChainSpec

-----------------------------------------------------------------------------
(* The loop of rbuffer_rewind                                              *)

\* The block after j turns of the loop: the first j blocks are in place.
AfterTurns(j) ==
  [i \in DOMAIN mem |-> IF i < Least(j * offset, Size) THEN mem[i + offset] ELSE mem[i]]

LEMMA OneTurn ==
  ASSUME BufferTypeOK, offset > 0, NEW j \in Nat, j # 0
  PROVE  AfterTurns(j) = Moved(AfterTurns(j - 1), (j - 1) * offset, j * offset, BlockSize(j - 1))
<1> DEFINE a == (j - 1) * offset
           b == j * offset
<1>1. a \in Nat /\ b = a + offset /\ b \in Nat /\ offset \in Nat /\ Size \in Nat
  BY DEF BufferTypeOK, Size
<1>2. DOMAIN mem = 0 .. BufferSize - 1 /\ offset + Size <= BufferSize
      /\ \A i \in DOMAIN mem : i \in Nat
  BY SizesAssumption DEF BufferTypeOK, Size
<1> HIDE DEF a, b
<1>3. BlockSize(j - 1) = Least(offset, Size - a)
  BY DEF BlockSize, a
<1> DEFINE m == AfterTurns(j - 1)
           n == Least(offset, Size - a)
<1>4. /\ DOMAIN m = DOMAIN mem
      /\ \A i \in DOMAIN mem : m[i] = IF i < Least(a, Size) THEN mem[i + offset] ELSE mem[i]
  BY DEF AfterTurns, a
<1> HIDE DEF m
<1>5. ASSUME NEW i \in DOMAIN mem
      PROVE  (IF i < Least(b, Size) THEN mem[i + offset] ELSE mem[i])
             = (IF i \in a .. a + n - 1 THEN m[i - a + b] ELSE m[i])
  <2>1. CASE i \in a .. a + n - 1
    <3>1. n <= offset /\ n <= Size - a /\ n \in Int
      BY <1>1 DEF Least
    <3> HIDE DEF n
    <3>2. i \in Nat /\ a <= i /\ i <= a + n - 1
      BY <1>1, <1>2, <2>1, <3>1
    <3>3. i - a + b = i + offset /\ i < Size /\ i < b /\ ~(i + offset < a)
      BY <1>1, <3>1, <3>2
    <3>4. i + offset \in DOMAIN mem
      BY <1>1, <1>2, <3>2, <3>3, SizesAssumption
    <3>5. i < Least(b, Size) /\ ~(i + offset < Least(a, Size))
      BY <3>2, <3>3, <1>1 DEF Least
    <3> QED BY <2>1, <3>3, <3>4, <3>5, <1>4
  <2>2. CASE ~(i \in a .. a + n - 1)
    <3>1. (i < Least(b, Size)) <=> (i < Least(a, Size))
      BY <1>1, <1>2, <2>2 DEF Least
    <3> QED BY <2>2, <3>1, <1>4
  <2> QED BY <2>1, <2>2
<1>6. AfterTurns(j) = [i \in DOMAIN mem |-> IF i < Least(b, Size) THEN mem[i + offset] ELSE mem[i]]
  BY DEF AfterTurns, b
<1>7. Moved(m, a, b, n) = [i \in DOMAIN mem |-> IF i \in a .. a + n - 1 THEN m[i - a + b] ELSE m[i]]
  BY <1>4 DEF Moved
<1>8. AfterTurns(j) = Moved(m, a, b, n)
  <2> HIDE DEF n
  <2> QED BY <1>5, <1>6, <1>7
<1> QED BY <1>3, <1>8 DEF a, b, m

LEMMA TurnsOf ==
  ASSUME BufferTypeOK, offset > 0, NEW j \in Nat
  PROVE  MovedBlocks[j] = AfterTurns(j)
<1> DEFINE G == [k \in Nat |-> AfterTurns(k)]
           Turn(g) == [k \in Nat |->
              IF k = 0 THEN mem
              ELSE Moved(g[k - 1], (k - 1) * offset, k * offset, BlockSize(k - 1))]
<1>1. G[0] = mem
  <2>1. \A i \in DOMAIN mem : ~(i < Least(0 * offset, Size))
    BY SizesAssumption DEF BufferTypeOK, Size, Least
  <2>2. AfterTurns(0) = [i \in DOMAIN mem |-> mem[i]]
    BY <2>1 DEF AfterTurns
  <2> QED BY <2>2 DEF BufferTypeOK
<1>2. G = Turn(G)
  <2>1. ASSUME NEW k \in Nat PROVE G[k] = Turn(G)[k]
    BY <1>1, OneTurn
  <2> QED BY <2>1
<1>3. MovedBlocks = Turn(MovedBlocks)
  <2>1. MovedBlocks = CHOOSE g : g = Turn(g)
    BY DEF MovedBlocks
  <2> HIDE DEF G, Turn
  <2> QED BY <1>2, <2>1
<1> DEFINE T == {k \in Nat : MovedBlocks[k] # G[k]}
<1>4. T = {}
  <2> SUFFICES ASSUME T # {} PROVE FALSE
    OBVIOUS
  <2>1. PICK k \in T : \A l \in T : k <= l
    BY LeastMember
  <2>2. k # 0
    BY <1>1, <1>3, <2>1
  <2>3. k - 1 \in Nat /\ k - 1 \notin T
    BY <2>1, <2>2
  <2>4. MovedBlocks[k - 1] = G[k - 1]
    BY <2>3
  <2> HIDE DEF G
  <2>5. MovedBlocks[k] = G[k]
    BY <1>2, <1>3, <2>1, <2>2, <2>4
  <2> QED BY <2>1, <2>5
<1> QED BY <1>4

\* After the loop what was waiting lies at the head of the block, in its order.
LEMMA RewoundFacts ==
  ASSUME BufferTypeOK
  PROVE  /\ Rewound \in [0 .. BufferSize - 1 -> Byte]
         /\ \A i \in 0 .. Size - 1 : Rewound[i] = mem[i + offset]
<1>1. Size \in Nat /\ offset \in Nat /\ Size + offset <= BufferSize
      /\ DOMAIN mem = 0 .. BufferSize - 1 /\ \A i \in DOMAIN mem : mem[i] \in Byte
  BY SizesAssumption DEF BufferTypeOK, Size
<1>2. CASE offset = 0
  <2>1. Rewound = mem
    BY <1>1, <1>2 DEF Rewound
  <2> QED BY <1>2, <2>1, <1>1 DEF BufferTypeOK
<1>3. CASE offset > 0
  <2> DEFINE t == Turns
  <2>1. t \in Nat /\ t * offset >= Size /\ t * offset \in Nat
    <3> DEFINE o == offset
               n == Size + o - 1
    <3>1. n \in Nat /\ o \in Nat \ {0} /\ n = Size + o - 1
      BY <1>1, <1>3
    <3>2. t = n \div o
      BY DEF Turns
    <3> HIDE DEF n, o, t
    <3>3. n < (n \div o) * o + o /\ n \div o \in Nat
      BY <3>1
    <3>4. (n \div o) * o \in Nat
      <4> DEFINE m == n \div o
      <4>1. m \in Nat
        BY <3>3
      <4> HIDE DEF m
      <4> QED BY <4>1, <3>1 DEF m
    <3>5. t * o \in Nat /\ n < t * o + o /\ t \in Nat
      BY <3>2, <3>3, <3>4
    <3> DEFINE x == t * o
    <3>6. x \in Nat /\ n < x + o
      BY <3>5
    <3> HIDE DEF x
    <3>7. x >= Size
      BY <3>1, <3>6, <1>1
    <3> QED BY <3>5, <3>7 DEF x, o
  <2> HIDE DEF t
  <2>2. Rewound = AfterTurns(t)
    BY <1>3, <2>1, TurnsOf DEF Rewound, t
  <2>3. Least(t * offset, Size) = Size
    <3> DEFINE x == t * offset
    <3>1. x \in Nat /\ x >= Size
      BY <2>1
    <3> HIDE DEF x
    <3>2. Least(x, Size) = Size
      BY <3>1, <1>1 DEF Least
    <3> QED BY <3>2 DEF x
  <2>4. Rewound = [i \in DOMAIN mem |-> IF i < Size THEN mem[i + offset] ELSE mem[i]]
    BY <2>2, <2>3 DEF AfterTurns
  <2>5. \A i \in DOMAIN mem : i < Size => i + offset \in DOMAIN mem
    BY <1>1, SizesAssumption
  <2>6. Rewound \in [0 .. BufferSize - 1 -> Byte]
    BY <2>4, <2>5, <1>1
  <2>7. \A i \in 0 .. Size - 1 : i \in DOMAIN mem /\ i < Size
    BY <1>1, SizesAssumption
  <2> QED BY <2>4, <2>6, <2>7
<1> QED BY <1>1, <1>2, <1>3

-----------------------------------------------------------------------------
(* What is waiting, as a sequence                                          *)

\* The n bytes of m from place a on; Waiting and Peek are of this form.
Slice(m, a, n) == [i \in 1 .. n |-> m[a + i - 1]]

LEMMA SliceType ==
  ASSUME NEW m \in [0 .. BufferSize - 1 -> Byte], NEW a \in Nat, NEW n \in Nat,
         a + n <= BufferSize
  PROVE  /\ Slice(m, a, n) \in Seq(Byte) /\ Len(Slice(m, a, n)) = n
         /\ \A i \in 1 .. n : Slice(m, a, n)[i] = m[a + i - 1]
<1>1. \A i \in 1 .. n : a + i - 1 \in 0 .. BufferSize - 1
  BY SizesAssumption
<1>2. Slice(m, a, n) \in [1 .. n -> Byte]
  BY <1>1 DEF Slice
<1>3. Slice(m, a, n) \in Seq(Byte)
  BY <1>2, SeqDef
<1> QED BY <1>2, <1>3 DEF Slice

\* Taking from the front, and what is left.
LEMMA SliceTaken ==
  ASSUME NEW m \in [0 .. BufferSize - 1 -> Byte], NEW a \in Nat, NEW n \in Nat,
         a + n <= BufferSize, NEW k \in 0 .. n
  PROVE  /\ SubSeq(Slice(m, a, n), 1, k) = Slice(m, a, k)
         /\ SubSeq(Slice(m, a, n), k + 1, n) = Slice(m, a + k, n - k)
<1> DEFINE w == Slice(m, a, n)
           s == SubSeq(w, 1, k)
           t == SubSeq(w, k + 1, n)
           u == Slice(m, a, k)
           v == Slice(m, a + k, n - k)
<1>1. w \in Seq(Byte) /\ Len(w) = n /\ \A i \in 1 .. n : w[i] = m[a + i - 1] /\ w[i] \in Byte
  <2>1. \A i \in 1 .. n : a + i - 1 \in 0 .. BufferSize - 1
    BY SizesAssumption
  <2>2. \A i \in 1 .. n : m[a + i - 1] \in Byte
    BY <2>1
  <2>3. w \in Seq(Byte) /\ Len(w) = n /\ \A i \in 1 .. n : w[i] = m[a + i - 1]
    BY SliceType
  <2> HIDE DEF w
  <2> QED BY <2>2, <2>3
<1>2. u \in Seq(Byte) /\ Len(u) = k /\ \A i \in 1 .. k : u[i] = m[a + i - 1]
  <2>1. k \in Nat /\ a + k <= BufferSize
    BY SizesAssumption
  <2> QED BY <2>1, SliceType
<1>3. v \in Seq(Byte) /\ Len(v) = n - k /\ \A i \in 1 .. n - k : v[i] = m[a + k + i - 1]
  <2>1. n - k \in Nat /\ a + k \in Nat /\ (a + k) + (n - k) <= BufferSize
    BY SizesAssumption
  <2> QED BY <2>1, SliceType
<1> HIDE DEF w, u, v
<1>4. s \in Seq(Byte) /\ Len(s) = k /\ \A i \in 1 .. k : s[i] = w[i]
  <2>1. \A i \in 1 .. k : w[i] \in Byte
    BY <1>1
  <2>2. /\ s \in Seq(Byte) /\ Len(s) = IF 1 <= k THEN k - 1 + 1 ELSE 0
        /\ \A i \in 1 .. k - 1 + 1 : s[i] = w[1 + i - 1]
    BY <2>1, SubSeqProperties
  <2> HIDE DEF s
  <2> QED BY <2>2
<1>5. t \in Seq(Byte) /\ Len(t) = n - k /\ \A i \in 1 .. n - k : t[i] = w[k + i]
  <2>1. \A i \in k + 1 .. n : w[i] \in Byte
    BY <1>1
  <2>2. /\ t \in Seq(Byte) /\ Len(t) = IF k + 1 <= n THEN n - (k + 1) + 1 ELSE 0
        /\ \A i \in 1 .. n - (k + 1) + 1 : t[i] = w[(k + 1) + i - 1]
    <3>1. k + 1 \in Int /\ n \in Int
      OBVIOUS
    <3> QED BY <2>1, <3>1, SubSeqProperties
  <2> HIDE DEF t
  <2>3. Len(t) = n - k
    BY <2>2
  <2>4. \A i \in 1 .. n - k : i \in 1 .. n - (k + 1) + 1 /\ (k + 1) + i - 1 = k + i
    OBVIOUS
  <2> QED BY <2>2, <2>3, <2>4
<1>6. s = u
  <2> HIDE DEF s
  <2>1. \A i \in 1 .. k : s[i] = u[i]
    BY <1>1, <1>2, <1>4
  <2> QED BY <2>1, <1>2, <1>4, SeqEqual
<1>7. t = v
  <2> HIDE DEF t
  <2>1. \A i \in 1 .. n - k : k + i \in 1 .. n /\ a + (k + i) - 1 = a + k + i - 1
    OBVIOUS
  <2>2. \A i \in 1 .. n - k : t[i] = v[i]
    BY <2>1, <1>1, <1>3, <1>5
  <2>3. /\ t \in Seq(Byte) /\ v \in Seq(Byte) /\ Len(t) = Len(v)
        /\ \A i \in 1 .. Len(t) : t[i] = v[i]
    BY ONLY <2>2, <1>3, <1>5
  <2> QED BY ONLY <2>3, SeqEqual
<1> QED BY <1>6, <1>7 DEF s, t, u, v, w

\* Appending: memcpy behind what is waiting.
LEMMA SliceAppended ==
  ASSUME NEW m \in [0 .. BufferSize - 1 -> Byte], NEW a \in Nat, NEW n \in Nat,
         NEW s \in Seq(Byte), a + n + Len(s) <= BufferSize
  PROVE  /\ Copied(m, a + n, s, Len(s)) \in [0 .. BufferSize - 1 -> Byte]
         /\ Slice(Copied(m, a + n, s, Len(s)), a, n + Len(s)) = Slice(m, a, n) \o s
<1> DEFINE l == Len(s)
           c == Copied(m, a + n, s, l)
           u == Slice(m, a, n)
           v == Slice(c, a, n + l)
<1>1. l \in Nat /\ \A i \in 1 .. l : s[i] \in Byte
  BY LenProperties, ElementOfSeq
<1>2. DOMAIN m = 0 .. BufferSize - 1
  OBVIOUS
<1>3. c = [i \in 0 .. BufferSize - 1 |-> IF i \in a + n .. a + n + l - 1 THEN s[i - (a + n) + 1] ELSE m[i]]
  BY <1>2 DEF Copied
<1> HIDE DEF l
<1>4. \A i \in a + n .. a + n + l - 1 : i - (a + n) + 1 \in 1 .. l
  BY <1>1
<1>5. c \in [0 .. BufferSize - 1 -> Byte]
  <2> HIDE DEF c
  <2> QED BY <1>1, <1>3, <1>4
<1> HIDE DEF c
<1>6. a + n + l <= BufferSize /\ n + l \in Nat
  BY <1>1 DEF l
<1>7. u \in Seq(Byte) /\ Len(u) = n /\ \A i \in 1 .. n : u[i] = m[a + i - 1]
  <2>1. a + n <= BufferSize
    BY <1>1, <1>6, SizesAssumption
  <2> QED BY <2>1, SliceType
<1>8. v \in Seq(Byte) /\ Len(v) = n + l /\ \A i \in 1 .. n + l : v[i] = c[a + i - 1]
  <2>1. a + (n + l) <= BufferSize
    BY <1>1, <1>6, SizesAssumption
  <2> QED BY <2>1, <1>5, <1>6, SliceType
<1>9. /\ u \o s \in Seq(Byte) /\ Len(u \o s) = n + l
      /\ \A i \in 1 .. n + l : (u \o s)[i] = IF i <= n THEN u[i] ELSE s[i - n]
  <2>1. u \in Seq(Byte) /\ s \in Seq(Byte) /\ Len(u) = n /\ Len(s) = l
    BY <1>7 DEF l
  <2> HIDE DEF u
  <2>2. /\ u \o s \in Seq(Byte) /\ Len(u \o s) = Len(u) + Len(s)
        /\ \A i \in 1 .. Len(u) + Len(s) : (u \o s)[i] = IF i <= Len(u) THEN u[i] ELSE s[i - Len(u)]
    BY ONLY <2>1, ConcatProperties
  <2> QED BY <2>1, <2>2
<1> HIDE DEF u, v
<1>10. ASSUME NEW i \in 1 .. n + l PROVE v[i] = (u \o s)[i]
  <2>1. v[i] = c[a + i - 1] /\ a + i - 1 \in 0 .. BufferSize - 1
    BY <1>1, <1>6, <1>8, SizesAssumption
  <2>2. CASE i <= n
    <3>1. ~(a + i - 1 \in a + n .. a + n + l - 1) /\ i \in 1 .. n
      BY <2>2, <1>1
    <3> QED BY <3>1, <2>1, <2>2, <1>3, <1>7, <1>9
  <2>3. CASE ~(i <= n)
    <3>1. a + i - 1 \in a + n .. a + n + l - 1 /\ (a + i - 1) - (a + n) + 1 = i - n
      BY <2>3, <1>1
    <3> QED BY <3>1, <2>1, <2>3, <1>3, <1>9
  <2> QED BY <2>2, <2>3
<1>11. v = u \o s
  BY <1>8, <1>9, <1>10, SeqEqual
<1> QED BY <1>5, <1>11 DEF c, l, u, v

-----------------------------------------------------------------------------
(* The calls                                                               *)

LEMMA ChunkFacts ==
  ASSUME NEW s \in Chunks
  PROVE  s \in Seq(Byte) /\ Len(s) \in Nat /\ Len(s) > 0
<1>1. PICK n \in 1 .. MaxChunk : s \in [1 .. n -> Byte]
  BY DEF Chunks
<1>2. n \in Nat /\ n > 0
  BY SizesAssumption
<1> QED BY <1>1, <1>2, SeqDef

LEMMA BufferFacts ==
  ASSUME BufferTypeOK
  PROVE  /\ mem \in [0 .. BufferSize - 1 -> Byte] /\ BufferSize \in Nat
         /\ offset \in Nat /\ pos \in Nat /\ Size \in Nat /\ offset <= pos
         /\ pos <= BufferSize /\ offset + Size = pos /\ Left = BufferSize - pos
         /\ Waiting = Slice(mem, offset, Size)
         /\ Waiting \in Seq(Byte) /\ Len(Waiting) = Size
<1>1. /\ mem \in [0 .. BufferSize - 1 -> Byte] /\ BufferSize \in Nat
      /\ offset \in Nat /\ pos \in Nat /\ Size \in Nat /\ offset <= pos
      /\ pos <= BufferSize /\ offset + Size = pos /\ Left = BufferSize - pos
  BY SizesAssumption DEF BufferTypeOK, Size, Left
<1>2. Waiting = Slice(mem, offset, Size)
  BY DEF Waiting, Slice
<1>3. offset + Size <= BufferSize
  BY <1>1
<1> QED BY <1>1, <1>2, <1>3, SliceType

\* The queue after a step, told by where it lies then.
LEMMA NextQueue ==
  ASSUME NEW m, NEW a \in Nat, NEW n \in Nat, mem' = m, offset' = a, pos' = a + n
  PROVE  Waiting' = Slice(m, a, n)
<1>1. Size' = n
  BY DEF Size
<1> QED BY <1>1 DEF Waiting, Slice

LEMMA TypeNext ==
  ASSUME NEW m \in [0 .. BufferSize - 1 -> Byte], NEW a \in Nat, NEW n \in Nat,
         mem' = m, offset' = a, pos' = a + n, a + n <= BufferSize, moved' \in Seq(Byte),
         asked' \in Calls
  PROVE  BufferTypeOK'
BY SizesAssumption DEF BufferTypeOK

\* What a call was given has the type of a call.
LEMMA CallType ==
  ASSUME NEW name \in CallNames, NEW s \in Seq(Byte), NEW n \in Nat
  PROVE  Call(name, s, n) \in Calls
BY DEF Call, Calls

\* Bytes are appended to what lies in m from place a on: the end of every write.
LEMMA Appends ==
  ASSUME BufferTypeOK,
         NEW m \in [0 .. BufferSize - 1 -> Byte], NEW a \in Nat, NEW s \in Seq(Byte),
         a + Size + Len(s) <= BufferSize,
         Slice(m, a, Size) = Waiting,
         mem' = Copied(m, a + Size, s, Len(s)), offset' = a, pos' = a + Size + Len(s),
         moved' = s, asked' \in Calls
  PROVE  BufferTypeOK' /\ Waiting' = Waiting \o s
<1> DEFINE c == Copied(m, a + Size, s, Len(s))
<1>1. Size \in Nat /\ Len(s) \in Nat
  BY BufferFacts, LenProperties
<1>2. c \in [0 .. BufferSize - 1 -> Byte] /\ Slice(c, a, Size + Len(s)) = Slice(m, a, Size) \o s
  BY <1>1, SliceAppended
<1>3. PICK n \in Nat : n = Size + Len(s)
  BY <1>1
<1>4. pos' = a + n /\ a + n <= BufferSize
  BY <1>1, <1>3
<1>5. Waiting' = Slice(c, a, n)
  <2> HIDE DEF c
  <2>1. mem' = c
    BY DEF c
  <2> QED BY <2>1, <1>4, NextQueue
<1>6. BufferTypeOK'
  <2>1. mem' = c
    OBVIOUS
  <2> HIDE DEF c
  <2> QED BY <2>1, <1>2, <1>4, TypeNext
<1> QED BY <1>2, <1>3, <1>5, <1>6

\* A part of a chunk that goes to the block, as rbuffer_write cuts it.
LEMMA ChunkCut ==
  ASSUME NEW s \in Seq(Byte), NEW n \in 0 .. Len(s)
  PROVE  SubSeq(s, 1, n) \in Seq(Byte) /\ Len(SubSeq(s, 1, n)) = n
         /\ \A i \in 1 .. n : SubSeq(s, 1, n)[i] = s[i]
<1>1. \A i \in 1 .. n : s[i] \in Byte
  BY ElementOfSeq, LenProperties
<1>2. n \in Int /\ 1 \in Int
  BY LenProperties
<1>3. /\ SubSeq(s, 1, n) \in Seq(Byte)
      /\ Len(SubSeq(s, 1, n)) = IF 1 <= n THEN n - 1 + 1 ELSE 0
      /\ \A i \in 1 .. n - 1 + 1 : SubSeq(s, 1, n)[i] = s[1 + i - 1]
  BY <1>1, <1>2, SubSeqProperties
<1>4. n \in Nat /\ n - 1 + 1 = n /\ \A i \in 1 .. n : 1 + i - 1 = i
  BY <1>2
<1> QED BY <1>3, <1>4

\* memcpy looks at the bytes it copies only.
LEMMA CopiedCut ==
  ASSUME NEW m, NEW a \in Nat, NEW s \in Seq(Byte), NEW n \in 0 .. Len(s),
         \A i \in DOMAIN m : i \in Nat
  PROVE  Copied(m, a, s, n) = Copied(m, a, SubSeq(s, 1, n), n)
<1>1. \A i \in DOMAIN m : i \in a .. a + n - 1 => i - a + 1 \in 1 .. n
  BY LenProperties
<1>2. \A i \in 1 .. n : SubSeq(s, 1, n)[i] = s[i]
  BY ChunkCut
<1> QED BY <1>1, <1>2 DEF Copied

LEMMA WriteMaps ==
  ASSUME BufferTypeOK, NEW s \in Chunks, Write(s)
  PROVE  BufferTypeOK' /\ Queue!Write(s)
<1>1. s \in Seq(Byte) /\ Len(s) \in Nat /\ Len(s) > 0
  BY ChunkFacts
<1> DEFINE room == BufferSize - Len(Waiting)
           k == Least(Len(s), BufferSize - Size)
<1>2. k = Queue!Least(Len(s), Queue!Room)
  BY BufferFacts DEF Queue!Least, Queue!Room, Least
<1>3. k \in 0 .. Len(s) /\ k <= BufferSize - Size
  BY <1>1, BufferFacts DEF Least
<1> DEFINE t == SubSeq(s, 1, k)
<1>4. t \in Seq(Byte) /\ Len(t) = k
  BY <1>1, <1>3, ChunkCut
<1> DEFINE e == IF offset + Len(Waiting) + Len(s) <= BufferSize THEN offset ELSE 0
<1>8. asked' = Call("write", s, 0) /\ asked' \in Calls
  BY <1>1, CallType DEF Write, CallNames
<1>9. offset + Len(Waiting) + Len(s) <= BufferSize <=> Len(s) <= Left
  BY <1>1, BufferFacts
<1>5. SUFFICES BufferTypeOK' /\ moved' = t /\ Waiting' = Waiting \o t /\ offset' = e
  BY <1>2, <1>8 DEF Queue!Write, Queue!Enqueue, Queue!End, Queue!Call, Call
<1>6. CASE WriteBehind(s)
  <2>1. k = Len(s)
    BY <1>1, <1>6, BufferFacts DEF WriteBehind, Least
  <2>2. t = s
    BY <1>1, <2>1, SubSeqFull
  <2>3. /\ mem' = Copied(mem, offset + Size, s, Len(s)) /\ offset' = offset
        /\ pos' = offset + Size + Len(s) /\ moved' = s
    BY <1>6, BufferFacts DEF WriteBehind
  <2>4. offset + Size + Len(s) <= BufferSize
    BY <1>1, <1>6, BufferFacts DEF WriteBehind
  <2>5. Slice(mem, offset, Size) = Waiting
    BY BufferFacts
  <2>6. BufferTypeOK' /\ Waiting' = Waiting \o s
    <3>1. PICK m \in [0 .. BufferSize - 1 -> Byte], a \in Nat : m = mem /\ a = offset
      BY BufferFacts
    <3> QED BY <3>1, <1>1, <1>8, <2>3, <2>4, <2>5, Appends
  <2>7. offset' = e
    BY <1>6, <1>9 DEF WriteBehind
  <2> QED BY <2>2, <2>3, <2>6, <2>7
<1>7. CASE WriteRewound(s)
  <2>1. /\ mem' = Copied(Rewound, Size, s, k) /\ offset' = 0
        /\ pos' = Size + k /\ moved' = t
    BY <1>7 DEF WriteRewound
  <2>2. Rewound \in [0 .. BufferSize - 1 -> Byte]
        /\ \A i \in 0 .. Size - 1 : Rewound[i] = mem[i + offset]
    BY RewoundFacts
  <2>3. Slice(Rewound, 0, Size) = Waiting
    <3>1. \A i \in 1 .. Size : Rewound[0 + i - 1] = mem[offset + i - 1]
      <4> SUFFICES ASSUME NEW i \in 1 .. Size PROVE Rewound[0 + i - 1] = mem[offset + i - 1]
        OBVIOUS
      <4>1. i - 1 \in 0 .. Size - 1 /\ 0 + i - 1 = i - 1 /\ (i - 1) + offset = offset + i - 1
        BY BufferFacts
      <4> QED BY <4>1, <2>2
    <3> QED BY <3>1 DEF Slice, Waiting
  <2>4. Copied(Rewound, Size, s, k) = Copied(Rewound, Size, t, k)
    <3>1. \A i \in DOMAIN Rewound : i \in Nat
      BY <2>2
    <3> HIDE DEF k
    <3> QED BY <3>1, <1>1, <1>3, BufferFacts, CopiedCut
  <2> HIDE DEF t, k
  <2>5. /\ mem' = Copied(Rewound, 0 + Size, t, Len(t)) /\ offset' = 0
        /\ pos' = 0 + Size + Len(t) /\ moved' = t /\ 0 + Size + Len(t) <= BufferSize
    <3>1. 0 + Size = Size /\ Size + k <= BufferSize
      BY <1>1, <1>3, BufferFacts
    <3> QED BY <3>1, <2>1, <2>4, <1>4
  <2>6. BufferTypeOK' /\ Waiting' = Waiting \o t
    <3>1. PICK m \in [0 .. BufferSize - 1 -> Byte] : m = Rewound
      BY <2>2
    <3> QED BY <3>1, <1>4, <1>8, <2>3, <2>5, Appends
  <2>7. offset' = e
    <3>1. ~(Len(s) <= Left)
      BY <1>1, <1>7, BufferFacts DEF WriteRewound
    <3> QED BY <3>1, <1>9, <2>1
  <2> QED BY <2>1, <2>6, <2>7
<1> QED BY <1>6, <1>7 DEF Write

\* n bytes leave at the front: the state after a read or a skip.
LEMMA Takes ==
  ASSUME BufferTypeOK, asked' \in Calls, NEW n \in Nat, NEW k \in 0 .. Size, k = Least(n, Size),
         mem' = mem, moved' = Peek(k),
         NEW a \in Nat, offset' = a, pos' = a + (Size - k),
         a = offset + k \/ (k = Size /\ a = 0)
  PROVE  BufferTypeOK' /\ Queue!Take(n) /\ Len(moved') = k
<1> DEFINE w == Waiting
           r == Size - k
<1>0. Size \in Nat /\ offset \in Nat /\ pos \in Nat /\ BufferSize \in Nat
      /\ offset + Size = pos /\ pos <= BufferSize
  BY BufferFacts
<1>1. /\ Size \in Nat /\ k \in Nat /\ r \in Nat /\ offset \in Nat /\ offset + Size <= BufferSize
      /\ a + r <= BufferSize /\ BufferSize \in Nat
  BY <1>0
<1>2. PICK m \in [0 .. BufferSize - 1 -> Byte] : m = mem
  BY BufferFacts
<1>3. w = Slice(m, offset, Size) /\ Len(w) = Size
  BY <1>2, BufferFacts
<1>4. moved' = Slice(m, offset, k)
  BY <1>2 DEF Peek, Slice
<1>5. SubSeq(w, 1, k) = Slice(m, offset, k) /\ SubSeq(w, k + 1, Size) = Slice(m, offset + k, r)
  <2>1. k \in 0 .. Size
    OBVIOUS
  <2>2. /\ SubSeq(Slice(m, offset, Size), 1, k) = Slice(m, offset, k)
        /\ SubSeq(Slice(m, offset, Size), k + 1, Size) = Slice(m, offset + k, Size - k)
    BY ONLY <1>1, <2>1, m \in [0 .. BufferSize - 1 -> Byte], SliceTaken
  <2> QED BY <2>2, <1>3
<1>6. offset + k <= BufferSize
  BY <1>1
<1>7. moved' \in Seq(Byte) /\ Len(moved') = k
  <2>1. Slice(m, offset, k) \in Seq(Byte) /\ Len(Slice(m, offset, k)) = k
    BY ONLY <1>1, <1>6, m \in [0 .. BufferSize - 1 -> Byte], SliceType
  <2> QED BY <1>4, <2>1
<1> HIDE DEF r
<1>8. BufferTypeOK'
  BY <1>1, <1>2, <1>7, TypeNext DEF r
<1>9. Waiting' = Slice(m, a, r)
  BY <1>1, <1>2, NextQueue DEF r
<1>10. Slice(m, a, r) = Slice(m, offset + k, r)
  <2>1. CASE a = offset + k
    BY <2>1
  <2>2. CASE k = Size
    <3>1. r = 0
      BY <2>2, <1>1 DEF r
    <3> QED BY <3>1 DEF Slice
  <2> QED BY <2>1, <2>2
<1>11. Waiting' = SubSeq(w, k + 1, Size)
  BY <1>5, <1>9, <1>10
<1>12. Queue!Least(n, Len(w)) = k
  BY <1>3 DEF Queue!Least, Least
<1> QED BY <1>3, <1>4, <1>5, <1>7, <1>8, <1>11, <1>12 DEF Queue!Take

LEMMA ReadMaps ==
  ASSUME BufferTypeOK, NEW n \in 0 .. BufferSize, Read(n) \/ Skip(n)
  PROVE  BufferTypeOK' /\ (Queue!Read(n) \/ Queue!Skip(n))
<1>1. n \in Nat /\ Size \in Nat /\ offset \in Nat /\ pos \in Nat /\ offset + Size = pos
  BY BufferFacts
<1>2. PICK k \in 0 .. Size : k = Least(n, Size)
  BY <1>1 DEF Least
<1>3. mem' = mem /\ moved' = Peek(k)
  BY <1>2 DEF Read, Skip
<1>7. asked' \in Calls
  BY <1>1, EmptySeq, CallType DEF Read, Skip, CallNames
<1>8. Len(Waiting) = Size
  BY BufferFacts
<1> USE DEF Queue!Read, Queue!Skip, Queue!Call, Call
<1>4. CASE Read(n) /\ n >= Size
  <2>1. k = Size /\ offset' = 0 /\ pos' = 0 + (Size - k)
    BY <1>1, <1>2, <1>4 DEF Read, Least
  <2>2. BufferTypeOK' /\ Queue!Take(n)
    BY <2>1, <1>1, <1>2, <1>3, <1>7, Takes
  <2> QED BY <2>1, <2>2, <1>4, <1>8 DEF Read
<1>5. CASE Read(n) /\ ~(n >= Size)
  <2>1. k = n /\ offset' = offset + k /\ pos' = (offset + k) + (Size - k) /\ offset + k \in Nat
    BY <1>1, <1>2, <1>5 DEF Read, Least
  <2>2. PICK a \in Nat : a = offset + k
    BY <2>1
  <2>3. BufferTypeOK' /\ Queue!Take(n)
    BY <2>1, <2>2, <1>1, <1>2, <1>3, <1>7, Takes
  <2> QED BY <2>1, <2>3, <1>5, <1>8 DEF Read
<1>6. CASE Skip(n)
  <2>1. offset' = offset + k /\ pos' = (offset + k) + (Size - k) /\ offset + k \in Nat
    BY <1>1, <1>2, <1>6 DEF Skip, Least
  <2>2. PICK a \in Nat : a = offset + k
    BY <2>1
  <2>3. BufferTypeOK' /\ Queue!Take(n) /\ Len(moved') = k
    BY <2>1, <2>2, <1>1, <1>2, <1>3, <1>7, Takes
  <2> QED BY <2>1, <2>3, <1>6 DEF Skip
<1> QED BY <1>4, <1>5, <1>6

\* rbuffer_rewind: nothing is taken.
LEMMA RewindMaps ==
  ASSUME BufferTypeOK, Rewind
  PROVE  BufferTypeOK' /\ Queue!Rewind
<1>1. Size \in Nat /\ Size <= BufferSize /\ Waiting \in Seq(Byte) /\ Len(Waiting) = Size
  BY BufferFacts
<1>2. PICK m \in [0 .. BufferSize - 1 -> Byte] :
        m = Rewound /\ \A i \in 0 .. Size - 1 : m[i] = mem[i + offset]
  BY RewoundFacts
<1>3. mem' = m /\ offset' = 0 /\ pos' = 0 + Size /\ moved' = <<>> /\ 0 + Size <= BufferSize
  BY <1>1, <1>2 DEF Rewind
<1>4. BufferTypeOK'
  <2>1. moved' \in Seq(Byte)
    BY <1>3, EmptySeq
  <2>2. asked' \in Calls
    BY EmptySeq, CallType DEF Rewind, CallNames
  <2> QED BY <2>1, <2>2, <1>1, <1>3, TypeNext
<1>5. Waiting' = Slice(m, 0, Size)
  BY <1>1, <1>3, NextQueue
<1>6. \A i \in 1 .. Size : m[0 + i - 1] = mem[offset + i - 1]
  <2> SUFFICES ASSUME NEW i \in 1 .. Size PROVE m[0 + i - 1] = mem[offset + i - 1]
    OBVIOUS
  <2>1. i - 1 \in 0 .. Size - 1 /\ 0 + i - 1 = i - 1 /\ (i - 1) + offset = offset + i - 1
    BY BufferFacts
  <2> QED BY <2>1, <1>2
<1>7. Waiting' = Waiting
  BY <1>5, <1>6 DEF Slice, Waiting
<1>8. Queue!Least(0, Len(Waiting)) = 0
  BY <1>1 DEF Queue!Least
<1>9. SubSeq(Waiting, 1, 0) = <<>> /\ Len(<<>>) = 0 /\ SubSeq(Waiting, 0 + 1, Len(Waiting)) = Waiting
  BY <1>1, SubSeqEmpty, SubSeqFull
<1> QED BY <1>3, <1>4, <1>7, <1>8, <1>9
        DEF Rewind, Queue!Rewind, Queue!Take, Queue!Call, Call

\* rbuffer_write_ext and the rbuffer_seek of its caller: all the bytes are taken
\* when they end in front of the end of the block, all but the last when they
\* reach it.
LEMMA WriteExtMaps ==
  ASSUME BufferTypeOK, NEW s \in Chunks, WriteExt(s)
  PROVE  BufferTypeOK' /\ Queue!WriteExt(s)
<1> DEFINE l == Len(s)
<1>1. s \in Seq(Byte) /\ l \in Nat /\ l > 0
  BY ChunkFacts
<1>2. /\ Size \in Nat /\ offset \in Nat /\ pos \in Nat /\ BufferSize \in Nat
      /\ offset + Size = pos /\ Left = BufferSize - pos
      /\ Waiting = Slice(mem, offset, Size) /\ Len(Waiting) = Size
      /\ Size <= pos
  BY BufferFacts
<1>3. PICK m \in [0 .. BufferSize - 1 -> Byte], a \in Nat : m = mem /\ a = offset
  BY BufferFacts
<1>4. /\ l <= BufferSize - pos
      /\ mem' = Copied(mem, pos, s, l) /\ offset' = offset
      /\ pos' = (IF pos + l < BufferSize THEN pos + l ELSE BufferSize - 1)
      /\ moved' = SubSeq(s, 1, pos' - pos)
  BY <1>2 DEF WriteExt
<1>5. Queue!End = pos
  BY <1>2 DEF Queue!End
<1>8. asked' = Call("write_ext", s, 0) /\ asked' \in Calls
  BY <1>1, CallType DEF WriteExt, CallNames
<1>9. Queue!End + Len(s) <= BufferSize
  <2> HIDE DEF l
  <2>1. pos + l <= BufferSize
    BY <1>1, <1>2, <1>4
  <2> QED BY <2>1, <1>5 DEF l
<1>10. SUFFICES BufferTypeOK' /\ Queue!Enqueue(Queue!Received(s))
  BY <1>4, <1>8, <1>9 DEF Queue!WriteExt, Queue!Call, Call
<1>6. CASE pos + l < BufferSize
  <2>1. pos' - pos = l /\ pos' = a + Size + l /\ a + Size + l <= BufferSize
    <3>1. pos' = pos + l /\ pos = a + Size
      BY <1>2, <1>3, <1>4, <1>6
    <3>2. pos \in Nat /\ l \in Nat /\ a \in Nat /\ Size \in Nat /\ BufferSize \in Nat
      BY <1>1, <1>2
    <3> HIDE DEF l
    <3> QED BY ONLY <3>1, <3>2, <1>6
  <2>2. moved' = s
    BY <2>1, <1>1, <1>4, SubSeqFull
  <2>3. Slice(m, a, Size) = Waiting /\ mem' = Copied(m, a + Size, s, Len(s)) /\ offset' = a
    BY <1>2, <1>3, <1>4
  <2>4. BufferTypeOK' /\ Waiting' = Waiting \o s
    BY <2>1, <2>2, <2>3, <1>1, <1>8, Appends
  <2>5. Queue!Received(s) = s
    BY <1>5, <1>6 DEF Queue!Received
  <2> QED BY <2>2, <2>4, <2>5 DEF Queue!Enqueue
<1>7. CASE ~(pos + l < BufferSize)
  <2> DEFINE t == SubSeq(s, 1, l - 1)
             c == Copied(m, a + Size, s, l)
  <2>1. pos' = BufferSize - 1 /\ pos + l = BufferSize /\ pos' - pos = l - 1
        /\ l - 1 \in Nat /\ l - 1 \in 0 .. Len(s)
    <3>1. pos' = BufferSize - 1
      BY <1>4, <1>7
    <3> HIDE DEF l
    <3>2. pos + l = BufferSize /\ l - 1 \in Nat /\ l - 1 \in 0 .. l
      BY <1>1, <1>2, <1>4, <1>7
    <3>3. pos' - pos = l - 1
      BY <1>1, <1>2, <3>1, <3>2
    <3> QED BY <3>1, <3>2, <3>3 DEF l
  <2>2. moved' = t
    BY <2>1, <1>4
  <2>3. t \in Seq(Byte) /\ Len(t) = l - 1 /\ \A i \in 1 .. l - 1 : t[i] = s[i]
    BY <2>1, <1>1, ChunkCut
  <2>4. mem' = c /\ offset' = a /\ pos' = a + (Size + (l - 1)) /\ a + Size + l <= BufferSize
        /\ a + (Size + (l - 1)) <= BufferSize /\ a + (Size + l) <= BufferSize
        /\ Size + (l - 1) \in Nat /\ Size + l \in Nat /\ Size + (l - 1) \in 0 .. Size + l
    <3>1. mem' = c /\ offset' = a
      BY <1>2, <1>3, <1>4
    <3> HIDE DEF c, l
    <3>2. pos' = BufferSize - 1 /\ pos + l = BufferSize /\ pos = a + Size
      BY <1>2, <1>3, <2>1
    <3> QED BY <3>1, <3>2, <1>1, <1>2
  <2>5. c \in [0 .. BufferSize - 1 -> Byte] /\ Slice(c, a, Size + l) = Slice(m, a, Size) \o s
    <3>1. Size \in Nat /\ s \in Seq(Byte) /\ a + Size + Len(s) <= BufferSize
      BY <1>1, <1>2, <2>4
    <3> QED BY ONLY <3>1, m \in [0 .. BufferSize - 1 -> Byte], a \in Nat, SliceAppended
  <2> HIDE DEF c, t
  <2>6. BufferTypeOK'
    BY <2>2, <2>3, <2>4, <2>5, <1>8, TypeNext
  <2>7. Waiting' = Slice(c, a, Size + (l - 1))
    BY <2>4, NextQueue
  <2>8. Slice(c, a, Size + (l - 1)) = SubSeq(Waiting \o s, 1, Size + (l - 1))
    <3>1. Slice(c, a, Size + l) = Waiting \o s
      BY <2>5, <1>2, <1>3
    <3>2. SubSeq(Slice(c, a, Size + l), 1, Size + (l - 1)) = Slice(c, a, Size + (l - 1))
      BY <2>4, <2>5, SliceTaken
    <3> QED BY <3>1, <3>2
  <2>9. SubSeq(Waiting \o s, 1, Size + (l - 1)) = Waiting \o t
    <3> DEFINE x == Waiting \o s
               n == Size + (l - 1)
               y == SubSeq(x, 1, n)
               z == Waiting \o t
    <3>1. Waiting \in Seq(Byte) /\ s \in Seq(Byte) /\ t \in Seq(Byte) /\ Len(Waiting) = Size
          /\ Len(s) = l /\ Len(t) = l - 1
      BY <1>1, <2>3, BufferFacts
    <3> HIDE DEF l
    <3>2. /\ x \in Seq(Byte) /\ Len(x) = Size + l
          /\ \A i \in 1 .. Size + l : x[i] = IF i <= Size THEN Waiting[i] ELSE s[i - Size]
      BY <3>1, ConcatProperties
    <3>3. /\ z \in Seq(Byte) /\ Len(z) = n
          /\ \A i \in 1 .. n : z[i] = IF i <= Size THEN Waiting[i] ELSE t[i - Size]
      BY <3>1, ConcatProperties
    <3> HIDE DEF x, z
    <3>4. n \in 0 .. Len(x) /\ n \in Nat
      BY <3>2, <2>4
    <3> HIDE DEF n
    <3>5. y \in Seq(Byte) /\ Len(y) = n /\ \A i \in 1 .. n : y[i] = x[i]
      BY <3>2, <3>4, ChunkCut
    <3> HIDE DEF y
    <3>6. ASSUME NEW i \in 1 .. n PROVE y[i] = z[i]
      <4>1. i \in 1 .. Size + l /\ (~(i <= Size) => i - Size \in 1 .. l - 1)
        BY <1>1, <1>2, <2>1, <2>4 DEF n
      <4> QED BY <4>1, <3>2, <3>3, <3>5, <2>3
    <3>7. y = z
      BY <3>3, <3>5, <3>6, SeqEqual
    <3> QED BY <3>7 DEF x, y, z, n
  <2>10. Queue!Received(s) = t
    BY <1>5, <1>7 DEF Queue!Received, t
  <2> QED BY <2>2, <2>6, <2>7, <2>8, <2>9, <2>10 DEF Queue!Enqueue
<1> QED BY <1>6, <1>7

\* rbuffer_revert, rbuffer_clear
LEMMA ForgetMaps ==
  ASSUME BufferTypeOK, Revert \/ ClearAll
  PROVE  BufferTypeOK' /\ (Queue!Revert \/ Queue!Clear)
<1>1. PICK a \in Nat : offset' = a /\ pos' = a + 0 /\ a <= BufferSize /\ a + 0 <= BufferSize
  BY BufferFacts DEF Revert, ClearAll
<1>2. PICK m \in [0 .. BufferSize - 1 -> Byte] : mem' = m
  BY BufferFacts DEF Revert, ClearAll
<1>3. moved' = <<>> /\ moved' \in Seq(Byte)
  BY EmptySeq DEF Revert, ClearAll
<1>7. asked' \in Calls
  BY EmptySeq, CallType DEF Revert, ClearAll, CallNames
<1>4. BufferTypeOK'
  BY <1>1, <1>2, <1>3, <1>7, TypeNext
<1>8. offset + Len(Waiting) = pos
  BY BufferFacts
<1>5. Waiting' = Slice(m, a, 0)
  BY <1>1, <1>2, NextQueue
<1>6. Waiting' = <<>>
  BY <1>5 DEF Slice
<1> QED BY <1>3, <1>4, <1>6, <1>8
        DEF Revert, ClearAll, Queue!Revert, Queue!Clear, Queue!Forget, Queue!End, Queue!Call, Call

-----------------------------------------------------------------------------
(* The buffer is the queue RQueue describes.                               *)

LEMMA BufferInitMaps == BufferInit => BufferTypeOK /\ Queue!Init
<1> SUFFICES ASSUME BufferInit PROVE BufferTypeOK /\ Queue!Init
  OBVIOUS
<1>1. BufferTypeOK
  BY SizesAssumption, EmptySeq, CallType DEF BufferInit, BufferTypeOK, CallNames
<1>2. Waiting = <<>>
  BY DEF BufferInit, Waiting, Size
<1> QED BY <1>1, <1>2 DEF Queue!Init, BufferInit, Queue!Call, Call

LEMMA BufferStep == BufferTypeOK /\ [BufferNext]_bufferVars => BufferTypeOK' /\ [Queue!Next]_(Queue!vars)
<1> SUFFICES ASSUME BufferTypeOK, [BufferNext]_bufferVars
             PROVE  BufferTypeOK' /\ [Queue!Next]_(Queue!vars)
  OBVIOUS
<1>1. CASE UNCHANGED bufferVars
  <2>1. BufferTypeOK'
    BY <1>1 DEF bufferVars, BufferTypeOK
  <2>2. Waiting' = Waiting /\ moved' = moved /\ offset' = offset /\ asked' = asked
    BY <1>1 DEF bufferVars, Waiting, Size
  <2> QED BY <2>1, <2>2 DEF Queue!vars
<1>2. ASSUME NEW s \in Chunks, Write(s) \/ WriteExt(s) PROVE BufferTypeOK' /\ Queue!Next
  <2>1. s \in Queue!Chunks
    BY DEF Chunks, Queue!Chunks
  <2> QED BY <2>1, <1>2, WriteMaps, WriteExtMaps DEF Queue!Next
<1>3. ASSUME NEW n \in 0 .. BufferSize, Read(n) \/ Skip(n) PROVE BufferTypeOK' /\ Queue!Next
  BY <1>3, ReadMaps DEF Queue!Next
<1>4. CASE Rewind
  BY <1>4, RewindMaps DEF Queue!Next
<1>5. CASE Revert \/ ClearAll
  BY <1>5, ForgetMaps DEF Queue!Next
<1> QED BY <1>1, <1>2, <1>3, <1>4, <1>5 DEF BufferNext

\* Wherever the waiting bytes lie in the block, and whatever overlaps when
\* rbuffer_rewind moves them to its head block by block, the buffer is a bounded
\* queue of bytes: in any sequence of calls each one takes the bytes it is given,
\* as far as there is room, or gives those at the front, in order.  Only a
\* receive up to the very end of the block loses a byte, its last.
THEOREM QueueRefined == BufferSpec => ImplementsQueue
<1>1. BufferInit => BufferTypeOK /\ Queue!Init
  BY BufferInitMaps
<1>2. BufferTypeOK /\ [BufferNext]_bufferVars => BufferTypeOK' /\ [Queue!Next]_(Queue!vars)
  BY BufferStep
<1> QED BY <1>1, <1>2, PTL DEF BufferSpec, ImplementsQueue, Queue!Spec
=============================================================================
