---------------------------- MODULE RStringProofs ----------------------------
(***************************************************************************)
(* Theorems about RString, for all strings, separators and replacements    *)
(* and every size of the first block.                                      *)
(***************************************************************************)
EXTENDS RString, SequenceTheorems, WellFoundedInduction, TLAPS

-----------------------------------------------------------------------------
(* Strings                                                                 *)

LEMMA LeastExists ==
  ASSUME NEW T, T \subseteq Nat, T # {}
  PROVE  \E m \in T : \A k \in T : m <= k
<1>1. PICK m \in T : \A k \in T : <<k, m>> \notin OpToRel(<, Nat)
  BY NatLessThanWellFounded, WFMin
<1>2. \A k \in T : ~(k < m)
  BY <1>1 DEF OpToRel
<1> QED BY <1>2

\* What lies between two places, character by character
LEMMA SliceIs ==
  ASSUME NEW s \in Seq(Char), NEW a \in 0 .. Len(s), NEW b \in a .. Len(s)
  PROVE  /\ SubSeq(s, a + 1, b) \in Seq(Char)
         /\ Len(SubSeq(s, a + 1, b)) = b - a
         /\ \A k \in 1 .. b - a : SubSeq(s, a + 1, b)[k] = s[a + k]
<1> DEFINE c == a + 1
<1>1. Len(s) \in Nat /\ a \in Nat /\ b \in Nat /\ a <= b /\ c = a + 1 /\ c \in Int /\ b \in Int
  BY LenProperties
<1>2. \A k \in c .. b : s[k] \in Char
  <2> SUFFICES ASSUME NEW k \in c .. b PROVE s[k] \in Char
    OBVIOUS
  <2>1. k \in 1 .. Len(s)
    BY <1>1
  <2> QED BY <2>1, ElementOfSeq
<1> HIDE DEF c
<1>3. /\ SubSeq(s, c, b) \in Seq(Char)
      /\ Len(SubSeq(s, c, b)) = IF c <= b THEN b - c + 1 ELSE 0
      /\ \A k \in 1 .. b - c + 1 : SubSeq(s, c, b)[k] = s[c + k - 1]
  BY ONLY <1>1, <1>2, SubSeqProperties
<1>4. b - c + 1 = b - a /\ (~(c <= b) => b - a = 0) /\ \A k \in 1 .. b - a : c + k - 1 = a + k
  BY <1>1
<1> QED BY <1>3, <1>4, <1>1 DEF c

\* Slices that meet are one slice.
LEMMA SlicesJoin ==
  ASSUME NEW s \in Seq(Char), NEW a \in 0 .. Len(s), NEW b \in a .. Len(s), NEW c \in b .. Len(s)
  PROVE  SubSeq(s, a + 1, b) \o SubSeq(s, b + 1, c) = SubSeq(s, a + 1, c)
<1> DEFINE m == a + 1
<1>1. Len(s) \in Nat
  BY LenProperties
<1>2. m \in 1 .. Len(s) + 1 /\ b \in m - 1 .. Len(s) /\ c \in b .. Len(s)
  BY <1>1
<1> HIDE DEF m
<1>3. SubSeq(s, m, b) \o SubSeq(s, b + 1, c) = SubSeq(s, m, c)
  BY ONLY <1>2, ConcatAdjacentSubSeq, s \in Seq(Char)
<1> QED BY <1>3 DEF m

\* Three strings joined in either order are the same string.
Associates(x, y, z) == (x \o y) \o z = x \o (y \o z)

LEMMA JoinsAssociate ==
  ASSUME NEW x \in Seq(Char), NEW y \in Seq(Char), NEW z \in Seq(Char)
  PROVE  Associates(x, y, z)
<1>1. (x \o y) \o z = x \o (y \o z)
  BY ONLY x \in Seq(Char), y \in Seq(Char), z \in Seq(Char), ConcatAssociative
<1> QED BY <1>1 DEF Associates

\* p lies in s at offset a.
Match(s, p, a) == \A k \in 1 .. Len(p) : s[a + k] = p[k]
Places(s, p) == {k \in 0 .. Len(s) - Len(p) : SubSeq(s, k + 1, k + Len(p)) = p}

LEMMA OccurrencesAre == Occurrences = Places(src, pat)
BY DEF Occurrences, Found, Places

LEMMA PlaceIs ==
  ASSUME NEW s \in Seq(Char), NEW p \in Seq(Char), NEW a
  PROVE  a \in Places(s, p) <=> a \in 0 .. Len(s) - Len(p) /\ Match(s, p, a)
<1>1. Len(s) \in Nat /\ Len(p) \in Nat
  BY LenProperties
<1> SUFFICES ASSUME a \in 0 .. Len(s) - Len(p)
             PROVE  SubSeq(s, a + 1, a + Len(p)) = p <=> Match(s, p, a)
  BY DEF Places
<1> DEFINE b == a + Len(p)
           t == SubSeq(s, a + 1, b)
<1>2. a \in 0 .. Len(s) /\ b \in a .. Len(s) /\ b - a = Len(p)
  BY <1>1
<1>3. t \in Seq(Char) /\ Len(t) = Len(p) /\ \A k \in 1 .. Len(p) : t[k] = s[a + k]
  <2> HIDE DEF b
  <2>1. t \in Seq(Char) /\ Len(t) = b - a /\ \A k \in 1 .. b - a : t[k] = s[a + k]
    BY <1>2, SliceIs
  <2> QED BY <2>1, <1>2
<1> HIDE DEF t
<1>4. ASSUME t = p PROVE Match(s, p, a)
  BY <1>3, <1>4 DEF Match
<1>5. ASSUME Match(s, p, a) PROVE t = p
  <2>1. \A k \in 1 .. Len(t) : t[k] = p[k]
    BY <1>3, <1>5 DEF Match
  <2> QED BY ONLY <2>1, <1>3, p \in Seq(Char), SeqEqual
<1> QED BY <1>4, <1>5 DEF t

-----------------------------------------------------------------------------
(* The table of borders that _kmp_next_array_init finishes: up to place d  *)
(* no character is the first one, and from there on the pattern repeats    *)
(* itself.                                                                 *)

Tabled(p, b, n, d) ==
  /\ d \in 1 .. n /\ n <= Len(p)
  /\ b \in Seq(Nat) /\ Len(b) = n
  /\ \A k \in 1 .. d - 1 : p[k + 1] # p[1]
  /\ \A k \in d .. n - 1 : p[k + 1] = p[(k - d) + 1]
  /\ \A k \in 1 .. n : b[k] = IF k <= d THEN 0 ELSE k - d

\* One more entry
LEMMA TabledNext ==
  ASSUME NEW p \in Seq(Char), NEW b, NEW n \in Nat, NEW d, NEW x \in Nat, NEW m,
         Tabled(p, b, n, d), n < Len(p), m = n + 1,
         \/ x # 0 /\ x = m - d /\ p[m] = p[x]
         \/ x = 0 /\ d = n /\ p[m] # p[1]
  PROVE  Tabled(p, Append(b, x), m, IF x = 0 THEN m ELSE d)
<1> DEFINE c == Append(b, x)
           e == IF x = 0 THEN m ELSE d
<1>1. /\ Len(p) \in Nat /\ d \in Nat /\ 1 <= d /\ d <= n /\ m \in Nat /\ e \in 1 .. m /\ m <= Len(p)
  BY LenProperties DEF Tabled
<1>2. /\ c \in Seq(Nat) /\ Len(c) = m /\ c[m] = x
      /\ \A k \in 1 .. n : c[k] = b[k]
  <2>1. b \in Seq(Nat) /\ Len(b) = n
    BY DEF Tabled
  <2> QED BY ONLY <2>1, AppendProperties, x \in Nat, m = n + 1
<1> HIDE DEF c
<1>3. ASSUME NEW k \in 1 .. e - 1 PROVE p[k + 1] # p[1]
  <2>1. CASE x = 0 /\ k = n
    BY <2>1
  <2>2. CASE ~(x = 0 /\ k = n)
    <3>1. k \in 1 .. d - 1
      BY <1>1, <2>2
    <3> QED BY <3>1 DEF Tabled
  <2> QED BY <2>1, <2>2
<1>4. ASSUME NEW k \in e .. m - 1 PROVE p[k + 1] = p[(k - e) + 1]
  <2>1. x # 0 /\ e = d
    BY <1>1
  <2>2. CASE k = n
    <3>1. k + 1 = m /\ (k - e) + 1 = x
      BY <2>1, <2>2, <1>1
    <3> QED BY <2>1, <3>1
  <2>3. CASE k # n
    <3>1. k \in d .. n - 1
      BY <1>1, <2>1, <2>3
    <3> QED BY <2>1, <3>1 DEF Tabled
  <2> QED BY <2>2, <2>3
<1>5. ASSUME NEW k \in 1 .. m PROVE c[k] = IF k <= e THEN 0 ELSE k - e
  <2>1. CASE k = m
    BY <2>1, <1>1, <1>2
  <2>2. CASE k # m
    <3>1. k \in 1 .. n
      BY <1>1, <2>2
    <3>2. c[k] = IF k <= d THEN 0 ELSE k - d
      BY <1>2, <3>1 DEF Tabled
    <3>3. x = 0 => k <= e /\ k <= d
      BY <1>1, <3>1
    <3> QED BY <3>2, <3>3
  <2> QED BY <2>1, <2>2
<1> HIDE DEF e
<1>6. Tabled(p, c, m, e)
  BY ONLY <1>1, <1>2, <1>3, <1>4, <1>5 DEF Tabled
<1> QED BY <1>6 DEF c, e

\* The first n characters of p lie in s at offset a.
Begins(s, p, a, n) == \A k \in 1 .. n : s[a + k] = p[k]

\* After n characters that match, the pattern is moved on to where its border
\* lies; no place is left out.
LEMMA Moved ==
  ASSUME NEW s \in Seq(Char), NEW p \in Seq(Char), NEW b, NEW d, NEW a \in Nat, NEW n \in 1 .. Len(p),
         Tabled(p, b, Len(p), d), Begins(s, p, a, n)
  PROVE  /\ b[n] \in 0 .. n - 1
         /\ Begins(s, p, a + n - b[n], b[n])
         /\ \A o \in Places(s, p) : o < a + n - b[n] => o <= a
<1> DEFINE c == b[n]
           m == a + n - c
<1>1. /\ Len(p) \in Nat /\ n \in Nat /\ 1 <= n /\ n <= Len(p) /\ d \in Nat /\ 1 <= d /\ d <= Len(p)
      /\ c = IF n <= d THEN 0 ELSE n - d
  BY LenProperties DEF Tabled
<1> HIDE DEF c
<1>2. c \in 0 .. n - 1
  BY <1>1
<1>3. ASSUME NEW k \in 1 .. c PROVE s[m + k] = p[k]
  <2>1. n > d /\ c = n - d /\ m = a + d
    BY <1>1, <1>2
  <2>2. d + k \in 1 .. n /\ m + k = a + (d + k)
    BY <1>1, <2>1
  <2>3. s[m + k] = p[d + k]
    BY <2>2 DEF Begins
  <2> DEFINE x == (d + k) - 1
  <2>4. x \in d .. Len(p) - 1 /\ x + 1 = d + k /\ (x - d) + 1 = k
    BY <1>1, <2>1
  <2>5. p[x + 1] = p[(x - d) + 1]
    BY <2>4 DEF Tabled
  <2> QED BY <2>3, <2>4, <2>5
<1>4. ASSUME NEW o \in Places(s, p), o < m, ~(o <= a) PROVE FALSE
  <2> DEFINE x == o - a
  <2>1. o \in Nat /\ Match(s, p, o)
    BY PlaceIs, <1>1, LenProperties
  <2>2. x \in 1 .. (n - c) - 1 /\ a + (x + 1) = o + 1
    BY <1>1, <1>2, <1>4, <2>1
  <2>3. x \in 1 .. d - 1 /\ x + 1 \in 1 .. n
    BY <1>1, <1>2, <2>2
  <2>4. p[x + 1] # p[1]
    BY <2>3 DEF Tabled
  <2>5. s[a + (x + 1)] = p[x + 1]
    BY <2>3 DEF Begins
  <2>6. s[o + 1] = p[1]
    BY <1>1, <2>1 DEF Match
  <2> QED BY <2>2, <2>4, <2>5, <2>6
<1> QED BY <1>2, <1>3, <1>4 DEF Begins, c

-----------------------------------------------------------------------------
(* The hits: every place in front of offset x, in ascending order.         *)

HitsTo(h, s, p, x) ==
  /\ h \in Seq(Nat)
  /\ \A k \in 1 .. Len(h) : h[k] \in Places(s, p) /\ h[k] < x
  /\ \A o \in Places(s, p) : o < x => \E k \in 1 .. Len(h) : h[k] = o
  /\ \A k \in 1 .. Len(h) - 1 : h[k] < h[k + 1]

LEMMA PlacesNat ==
  ASSUME NEW s \in Seq(Char), NEW p \in Seq(Char)
  PROVE  Places(s, p) \subseteq Nat /\ Places(s, p) \subseteq 0 .. Len(s) - Len(p)
BY LenProperties DEF Places

LEMMA HitsNone ==
  ASSUME NEW s \in Seq(Char), NEW p \in Seq(Char)
  PROVE  HitsTo(<<>>, s, p, 0)
<1>1. \A o \in Places(s, p) : ~(o < 0)
  BY PlacesNat
<1>2. <<>> \in Seq(Nat) /\ Len(<<>>) = 0
  BY EmptySeq
<1> QED BY <1>1, <1>2 DEF HitsTo

\* No place is passed.
LEMMA HitsSame ==
  ASSUME NEW s \in Seq(Char), NEW p \in Seq(Char), NEW h, NEW x \in Nat, NEW y \in Nat,
         HitsTo(h, s, p, x), x <= y, \A o \in Places(s, p) : o < y => o < x
  PROVE  HitsTo(h, s, p, y)
<1>1. \A k \in 1 .. Len(h) : h[k] \in Places(s, p) /\ h[k] < y
  BY PlacesNat DEF HitsTo
<1> QED BY <1>1 DEF HitsTo

\* Place x is passed.
LEMMA HitsMore ==
  ASSUME NEW s \in Seq(Char), NEW p \in Seq(Char), NEW h, NEW x \in Nat, NEW y \in Nat,
         HitsTo(h, s, p, x), x \in Places(s, p), x < y, \A o \in Places(s, p) : o < y => o <= x
  PROVE  HitsTo(Append(h, x), s, p, y)
<1> DEFINE g == Append(h, x)
           n == Len(h)
<1>1. /\ g \in Seq(Nat) /\ Len(g) = n + 1 /\ g[n + 1] = x /\ n \in Nat
      /\ \A k \in 1 .. n : g[k] = h[k]
  BY AppendProperties, LenProperties DEF HitsTo
<1> HIDE DEF g
<1>2. ASSUME NEW k \in 1 .. n + 1 PROVE g[k] \in Places(s, p) /\ g[k] < y
  <2>1. CASE k = n + 1
    BY <2>1, <1>1
  <2>2. CASE k # n + 1
    <3>1. k \in 1 .. n /\ g[k] = h[k]
      BY <1>1, <2>2
    <3>2. h[k] \in Places(s, p) /\ h[k] < x /\ h[k] \in Nat
      BY <3>1, PlacesNat DEF HitsTo
    <3> QED BY <3>1, <3>2
  <2> QED BY <2>1, <2>2
<1>3. ASSUME NEW o \in Places(s, p), o < y PROVE \E k \in 1 .. n + 1 : g[k] = o
  <2>1. CASE o = x
    BY <2>1, <1>1
  <2>2. CASE o # x
    <3>1. o < x
      BY <1>3, <2>2, PlacesNat
    <3>2. PICK k \in 1 .. n : h[k] = o
      BY <3>1 DEF HitsTo
    <3>3. k \in 1 .. n + 1 /\ g[k] = o
      BY <3>2, <1>1
    <3> QED BY <3>3
  <2> QED BY <2>1, <2>2
<1>4. ASSUME NEW k \in 1 .. (n + 1) - 1 PROVE g[k] < g[k + 1]
  <2>1. k \in 1 .. n /\ g[k] = h[k]
    BY <1>1
  <2>2. CASE k = n
    <3>1. h[k] < x
      BY <2>1 DEF HitsTo
    <3> QED BY <3>1, <2>1, <2>2, <1>1
  <2>3. CASE k # n
    <3>1. k \in 1 .. n - 1 /\ k + 1 \in 1 .. n
      BY <1>1, <2>1, <2>3
    <3>2. h[k] < h[k + 1]
      BY <3>1 DEF HitsTo
    <3> QED BY <3>1, <3>2, <2>1, <1>1
  <2> QED BY <2>2, <2>3
<1> QED BY <1>1, <1>2, <1>3, <1>4 DEF HitsTo, g

-----------------------------------------------------------------------------
(* The inductive invariant of a call.                                      *)

TextInv == /\ src \in Source /\ pat \in Pattern /\ new \in Fresh \cup {<<>>}
           /\ borders \in Seq(Nat) /\ Len(borders) <= MaxTable + 1

\* A table that is not one of borders is never finished.
TableInv == pc = "table" =>
  /\ i \in 1 .. Len(pat) /\ j \in 0 .. i - 1
  /\ \/ Tabled(pat, borders, i, i - j)
     \/ j # 0 /\ i < Len(pat) /\ At(pat, i) # At(pat, j)
  /\ hits = <<>> /\ out = <<>>

SearchInv == pc = "search" =>
  /\ i \in 0 .. Len(src) /\ j \in 0 .. Len(pat) - 1 /\ j <= i
  /\ \E d : Tabled(pat, borders, Len(pat), d)
  /\ Begins(src, pat, i - j, j)
  /\ HitsTo(hits, src, pat, i - j)
  /\ out = <<>>

Behind(k) == IF k = 0 THEN 0 ELSE hits[k] + Len(pat)
Before(k) == IF k < Len(hits) THEN hits[k + 1] ELSE Len(src)

CutInv == pc \in {"null", "cut", "tokens", "crashed"} =>
  /\ HitsTo(hits, src, pat, Len(src) + 1) /\ j \in 0 .. Len(pat)
  /\ i \in 0 .. Len(hits) + 1 /\ (pc \in {"null", "cut"} => i <= Len(hits))
  /\ out \in Seq(Seq(Char)) /\ Len(out) = i /\ (pc = "tokens" => i = Len(hits) + 1)
  /\ \A k \in 0 .. i - 1 : /\ Behind(k) \in 0 .. Len(src) /\ Before(k) \in Behind(k) .. Len(src)
                           /\ out[k + 1] = SubSeq(src, Behind(k) + 1, Before(k))
  /\ pc = "crashed" => \E k, l \in Occurrences : k < l /\ l < k + Len(pat)

ReplaceInv == pc \in {"repl", "expand", "replaced"} =>
  /\ i \in 0 .. Len(src) /\ j = 0 /\ hits = <<>>
  /\ out \in Seq(Char) /\ room \in Nat /\ MaxLen <= room
  /\ Len(out) + 1 <= IF room = MaxLen THEN MaxLen ELSE room + 1
  /\ IF pc = "replaced" THEN out = Replaced[0] ELSE out \o Replaced[i] = Replaced[0]

StringsInv ==
  /\ pc \in {"table", "search", "cut", "repl", "expand"} \cup Ended
  /\ TextInv /\ TableInv /\ SearchInv /\ CutInv /\ ReplaceInv

LEMMA Texts ==
  ASSUME TextInv
  PROVE  /\ src \in Seq(Char) /\ pat \in Seq(Char) /\ new \in Seq(Char)
         /\ Len(src) \in Nat /\ Len(pat) \in Nat \ {0} /\ Len(pat) <= MaxTable
         /\ MaxTable \in Nat /\ MaxLen \in Nat \ {0} /\ NUL \notin Char
<1>1. src \in Seq(Char) /\ pat \in Seq(Char) /\ pat # <<>> /\ (new \in Seq(Char) \/ new = <<>>)
  BY StringsAssumption DEF TextInv
<1>2. Len(pat) <= MaxTable /\ MaxTable \in Nat /\ MaxLen \in Nat \ {0} /\ NUL \notin Char
  BY StringsAssumption DEF TextInv
<1>3. new \in Seq(Char)
  BY <1>1, EmptySeq
<1> QED BY ONLY <1>1, <1>2, <1>3, EmptySeq, LenProperties

LEMMA BordersGrow ==
  ASSUME TextInv, NEW x \in Nat, borders' = Grown(x)
  PROVE  /\ borders' \in Seq(Nat) /\ Len(borders') <= MaxTable + 1
         /\ Len(borders) < MaxTable => borders' = Append(borders, x)
<1>1. borders \in Seq(Nat) /\ MaxTable \in Nat /\ Len(borders) <= MaxTable + 1
  BY Texts DEF TextInv
<1>2. CASE Len(borders) < MaxTable
  <2>1. borders' = Append(borders, x)
    BY <1>2 DEF Grown
  <2>2. Len(borders) \in Nat /\ Append(borders, x) \in Seq(Nat) /\ Len(Append(borders, x)) = Len(borders) + 1
    BY <1>1, AppendProperties, LenProperties
  <2> QED BY <2>1, <2>2, <1>1, <1>2
<1>3. CASE ~(Len(borders) < MaxTable)
  BY <1>1, <1>3 DEF Grown
<1> QED BY <1>2, <1>3

LEMMA TableMatchStep ==
  ASSUME StringsInv, TableMatch
  PROVE  StringsInv'
<1>1. /\ pc = "table" /\ pc' = "table" /\ i < Len(pat) /\ At(pat, i) = At(pat, j)
      /\ j' = j + 1 /\ i' = i + 1 /\ borders' = Grown(j + 1)
      /\ UNCHANGED <<src, pat, new, hits, out>>
  BY DEF TableMatch, strings
<1>2. /\ TextInv /\ i \in 1 .. Len(pat) /\ j \in 0 .. i - 1 /\ hits = <<>> /\ out = <<>>
      /\ Tabled(pat, borders, i, i - j)
  BY <1>1 DEF StringsInv, TableInv
<1>3. pat \in Seq(Char) /\ Len(pat) \in Nat /\ Len(pat) <= MaxTable /\ MaxTable \in Nat
  BY <1>2, Texts
<1>4. i \in Nat /\ j \in Nat /\ j < i /\ i + 1 \in 1 .. Len(pat) /\ j + 1 \in Nat \ {0}
      /\ (i + 1) - (j + 1) = i - j
  BY <1>1, <1>2, <1>3
<1>5. borders' = Append(borders, j + 1) /\ borders' \in Seq(Nat) /\ Len(borders') <= MaxTable + 1
  <2>1. Len(borders) < MaxTable
    BY <1>1, <1>2, <1>3, <1>4 DEF Tabled
  <2> QED BY <2>1, <1>1, <1>2, <1>4, BordersGrow
<1>6. pat[i + 1] = pat[j + 1]
  BY <1>1, <1>3, <1>4 DEF At
<1>7. Tabled(pat, borders', i + 1, i - j)
  <2> DEFINE m == i + 1
             x == j + 1
             d == i - j
  <2>1. /\ x \in Nat /\ x # 0 /\ m = i + 1 /\ x = m - d /\ pat[m] = pat[x] /\ i \in Nat /\ i < Len(pat)
        /\ Tabled(pat, borders, i, d) /\ pat \in Seq(Char)
    BY <1>1, <1>2, <1>3, <1>4, <1>6
  <2> HIDE DEF m, x, d
  <2>2. Tabled(pat, Append(borders, x), m, IF x = 0 THEN m ELSE d)
    BY ONLY <2>1, TabledNext
  <2>3. Tabled(pat, Append(borders, x), m, d)
    BY <2>1, <2>2
  <2> QED BY <2>3, <1>5 DEF m, x, d
<1>8. TextInv'
  BY <1>1, <1>2, <1>5 DEF TextInv
<1>9. TableInv'
  BY <1>1, <1>2, <1>4, <1>7 DEF TableInv
<1> QED BY <1>1, <1>8, <1>9 DEF StringsInv, SearchInv, CutInv, ReplaceInv

LEMMA TableMismatchStep ==
  ASSUME StringsInv, TableMismatch
  PROVE  StringsInv'
<1>1. /\ pc = "table" /\ pc' = "table" /\ i < Len(pat) /\ At(pat, i) # At(pat, j)
      /\ borders' = Grown(IF j # 0 THEN j - 1 ELSE 0)
      /\ i' = (IF j # 0 THEN i ELSE i + 1)
      /\ UNCHANGED <<src, pat, new, j, hits, out>>
  BY DEF TableMismatch, strings
<1>2. /\ TextInv /\ i \in 1 .. Len(pat) /\ j \in 0 .. i - 1 /\ hits = <<>> /\ out = <<>>
      /\ Tabled(pat, borders, i, i - j) \/ j # 0
  BY <1>1 DEF StringsInv, TableInv
<1>3. pat \in Seq(Char) /\ Len(pat) \in Nat /\ Len(pat) <= MaxTable /\ MaxTable \in Nat
  BY <1>2, Texts
<1>4. (IF j # 0 THEN j - 1 ELSE 0) \in Nat
  BY <1>2
<1>5. /\ borders' \in Seq(Nat) /\ Len(borders') <= MaxTable + 1
      /\ Len(borders) < MaxTable => borders' = Append(borders, IF j # 0 THEN j - 1 ELSE 0)
  BY ONLY <1>1, <1>2, <1>4, BordersGrow
<1>6. TextInv'
  BY <1>1, <1>2, <1>5 DEF TextInv
<1>7. TableInv'
  <2>1. CASE j # 0
    BY <1>1, <1>2, <2>1 DEF TableInv, At
  <2>2. CASE j = 0
    <3> DEFINE m == i + 1
               x == 0
    <3>1. Tabled(pat, borders, i, i) /\ i \in Nat /\ i < Len(pat) /\ 1 <= i
      BY <1>1, <1>2, <1>3, <2>2
    <3>2. borders' = Append(borders, 0)
      <4>1. Len(borders) < MaxTable
        BY <3>1, <1>3 DEF Tabled
      <4> QED BY <4>1, <1>5, <2>2
    <3>3. pat[m] # pat[1]
      BY <1>1, <1>3, <2>2, <3>1 DEF At
    <3>4. m = i + 1 /\ x \in Nat /\ x = 0 /\ pat \in Seq(Char) /\ m \in 1 .. Len(pat)
      BY <3>1, <1>3
    <3> HIDE DEF m, x
    <3>5. Tabled(pat, Append(borders, x), m, IF x = 0 THEN m ELSE i)
      BY ONLY <3>1, <3>3, <3>4, TabledNext
    <3>6. Tabled(pat, borders', i', i' - j')
      <4>1. i' = m /\ i' - j' = m
        BY <1>1, <2>2, <3>4
      <4> QED BY <4>1, <3>2, <3>4, <3>5
    <3>7. i' \in 1 .. Len(pat) /\ j' \in 0 .. i' - 1
      BY <1>1, <2>2, <3>4
    <3> QED BY <3>6, <3>7, <1>1, <1>2 DEF TableInv
  <2> QED BY <2>1, <2>2
<1> QED BY <1>1, <1>6, <1>7 DEF StringsInv, SearchInv, CutInv, ReplaceInv

LEMMA TableReadyStep ==
  ASSUME StringsInv, TableReady
  PROVE  StringsInv'
<1>1. /\ pc = "table" /\ i >= Len(pat) /\ pc' = "search" /\ i' = 0 /\ j' = 0
      /\ UNCHANGED <<src, pat, new, borders, hits, out>>
  BY DEF TableReady, strings
<1>2. /\ TextInv /\ i \in 1 .. Len(pat) /\ j \in 0 .. i - 1 /\ hits = <<>> /\ out = <<>>
      /\ Tabled(pat, borders, i, i - j) \/ i < Len(pat)
  BY <1>1 DEF StringsInv, TableInv
<1>3. src \in Seq(Char) /\ pat \in Seq(Char) /\ Len(pat) \in Nat \ {0} /\ Len(src) \in Nat
  BY <1>2, Texts
<1>4. Tabled(pat, borders, Len(pat), Len(pat) - j)
  BY <1>1, <1>2, <1>3
<1>5. Begins(src, pat, 0, 0) /\ HitsTo(<<>>, src, pat, 0)
  BY <1>3, HitsNone DEF Begins
<1>6. SearchInv'
  <2>1. i' - j' = 0 /\ i' \in 0 .. Len(src) /\ j' \in 0 .. Len(pat) - 1 /\ j' <= i' /\ j' = 0
    BY <1>1, <1>3
  <2> QED BY <2>1, <1>1, <1>2, <1>4, <1>5 DEF SearchInv
<1>7. TextInv'
  BY <1>1, <1>2 DEF TextInv
<1> QED BY <1>1, <1>6, <1>7 DEF StringsInv, TableInv, CutInv, ReplaceInv

\* Where the search goes on: at offset y of the string, after a pattern of which
\* n characters match there.
Goes(y, n) == /\ y \in Nat /\ n \in 0 .. Len(pat) - 1 /\ y + n <= Len(src)
              /\ Begins(src, pat, y, n) /\ HitsTo(hits', src, pat, y)
              /\ i' = y + n /\ j' = n

LEMMA GoesOn ==
  ASSUME StringsInv, pc = "search", NEW y, NEW n, Goes(y, n),
         UNCHANGED <<pc, src, pat, new, borders, out>>
  PROVE  StringsInv'
<1>1. TextInv /\ SearchInv
  BY DEF StringsInv
<1>2. Len(pat) \in Nat \ {0} /\ Len(src) \in Nat
  BY <1>1, Texts
<1>3. /\ i' - j' = y /\ i' \in 0 .. Len(src) /\ j' \in 0 .. Len(pat) - 1 /\ j' <= i' /\ j' = n
  BY <1>2 DEF Goes
<1>4. SearchInv'
  BY <1>1, <1>3 DEF SearchInv, Goes
<1>5. TextInv'
  BY <1>1 DEF TextInv
<1> QED BY <1>4, <1>5 DEF StringsInv, TableInv, CutInv, ReplaceInv

LEMMA BorderIs ==
  ASSUME NEW d, Tabled(pat, borders, Len(pat), d), Len(pat) \in Nat, NEW n \in 1 .. Len(pat)
  PROVE  Border(n - 1) = borders[n]
<1>1. DOMAIN borders = 1 .. Len(borders) /\ Len(borders) = Len(pat)
  BY LenProperties DEF Tabled
<1>2. (n - 1) + 1 = n /\ n \in DOMAIN borders
  BY <1>1
<1> QED BY <1>2 DEF Border

\* n characters match and the next one does not.
LEMMA FallsBack ==
  ASSUME StringsInv, pc = "search", NEW a \in Nat, NEW n \in 1 .. Len(pat) - 1, a + n < Len(src),
         Begins(src, pat, a, n), HitsTo(hits, src, pat, a), pat[n + 1] # src[(a + n) + 1],
         hits' = hits, i' = a + n, j' = FallBack(n)
  PROVE  \E y, m : Goes(y, m)
<1>1. TextInv /\ SearchInv
  BY DEF StringsInv
<1>2. src \in Seq(Char) /\ pat \in Seq(Char) /\ Len(pat) \in Nat \ {0} /\ Len(src) \in Nat
  BY <1>1, Texts
<1>3. PICK d : Tabled(pat, borders, Len(pat), d)
  BY <1>1 DEF SearchInv
<1> DEFINE c == borders[n]
           y == a + n - c
<1>4. n \in 1 .. Len(pat) /\ n \in Nat
  BY <1>2
<1>5. c \in 0 .. n - 1 /\ Begins(src, pat, y, c) /\ \A o \in Places(src, pat) : o < y => o <= a
  BY <1>2, <1>3, <1>4, Moved
<1>6. j' = c
  BY <1>2, <1>3, <1>4, BorderIs DEF FallBack
<1> HIDE DEF c
<1>7. y \in Nat /\ y + c = a + n /\ a <= y /\ c \in 0 .. Len(pat) - 1 /\ y + c <= Len(src)
  BY <1>2, <1>4, <1>5
<1>8. a \notin Places(src, pat)
  <2> SUFFICES ASSUME Match(src, pat, a) PROVE FALSE
    BY <1>2, PlaceIs
  <2>1. n + 1 \in 1 .. Len(pat) /\ a + (n + 1) = (a + n) + 1
    BY <1>2, <1>4
  <2> QED BY <2>1 DEF Match
<1>9. HitsTo(hits, src, pat, y)
  <2> HIDE DEF y
  <2>1. \A o \in Places(src, pat) : o < y => o < a
    BY <1>2, <1>5, <1>8, PlacesNat
  <2> QED BY ONLY <2>1, <1>2, <1>7, HitsSame, a \in Nat, HitsTo(hits, src, pat, a)
<1>10. Goes(y, c)
  BY <1>5, <1>6, <1>7, <1>9 DEF Goes
<1> QED BY <1>10

LEMMA SearchStep ==
  ASSUME StringsInv, Search
  PROVE  StringsInv'
<1> DEFINE a == i - j
<1>1. /\ pc = "search" /\ i < Len(src)
      /\ LET d == IF Same THEN 1 ELSE 0
         IN  IF j + d = Len(pat) THEN SearchHit(i + d, j + d) ELSE SearchMiss(i + d, j + d)
      /\ UNCHANGED <<pc, src, pat, new, borders, out>>
  BY DEF Search, strings
<1>2. /\ TextInv /\ i \in 0 .. Len(src) /\ j \in 0 .. Len(pat) - 1 /\ j <= i
      /\ Begins(src, pat, a, j) /\ HitsTo(hits, src, pat, a)
  BY <1>1 DEF StringsInv, SearchInv
<1>3. PICK d : Tabled(pat, borders, Len(pat), d)
  BY <1>1 DEF StringsInv, SearchInv
<1>4. src \in Seq(Char) /\ pat \in Seq(Char) /\ Len(pat) \in Nat \ {0} /\ Len(src) \in Nat
  BY <1>2, Texts
<1>5. i \in Nat /\ j \in Nat /\ a \in Nat /\ a + j = i /\ a <= i /\ j < Len(pat)
  BY <1>2, <1>4
<1>6. Same <=> pat[j + 1] = src[i + 1]
  BY <1>1, <1>4, <1>5 DEF Same, At
<1> SUFFICES \E y, m : Goes(y, m)
  BY <1>1, GoesOn
<1>7. CASE Same
  <2> DEFINE n == j + 1
  <2>1. n \in 1 .. Len(pat) /\ n \in Nat /\ a + n = i + 1 /\ i + 1 <= Len(src)
    BY <1>1, <1>4, <1>5
  <2>2. Begins(src, pat, a, n)
    <3> SUFFICES ASSUME NEW k \in 1 .. n PROVE src[a + k] = pat[k]
      BY DEF Begins
    <3>1. k = j + 1 \/ k \in 1 .. j
      BY <1>5
    <3>2. CASE k = j + 1
      <4>1. a + k = i + 1
        BY <2>1, <3>2
      <4> QED BY <4>1, <3>2, <1>6, <1>7
    <3>3. CASE k \in 1 .. j
      BY <3>3, <1>2 DEF Begins
    <3> QED BY <3>1, <3>2, <3>3
  <2>3. IF n = Len(pat) THEN SearchHit(i + 1, n) ELSE SearchMiss(i + 1, n)
    BY <1>1, <1>7
  <2> HIDE DEF n, a
  <2>4. CASE n = Len(pat)
    <3> DEFINE c == borders[n]
               y == a + n - c
    <3>1. hits' = Append(hits, (i + 1) - n) /\ i' = i + 1 /\ j' = Border(n - 1)
      BY <2>3, <2>4 DEF SearchHit, HitAt, AfterHit
    <3>2. c \in 0 .. n - 1 /\ Begins(src, pat, y, c) /\ \A o \in Places(src, pat) : o < y => o <= a
      BY <1>3, <1>4, <1>5, <2>1, <2>2, Moved
    <3>3. j' = c /\ (i + 1) - n = a
      BY <1>3, <1>4, <1>5, <2>1, <3>1, BorderIs
    <3>4. a \in Places(src, pat)
      <4>1. Match(src, pat, a) /\ a \in 0 .. Len(src) - Len(pat)
        BY <1>4, <1>5, <2>1, <2>2, <2>4 DEF Match, Begins
      <4> QED BY <4>1, <1>4, PlaceIs
    <3> HIDE DEF c
    <3>5. y \in Nat /\ y + c = i + 1 /\ a < y /\ c \in 0 .. Len(pat) - 1 /\ y + c <= Len(src)
      BY <1>4, <1>5, <2>1, <3>2
    <3>6. HitsTo(hits', src, pat, y)
      <4> HIDE DEF y
      <4>1. HitsTo(Append(hits, a), src, pat, y)
        BY ONLY <1>2, <1>4, <1>5, <3>2, <3>4, <3>5, HitsMore
      <4> QED BY <4>1, <3>1, <3>3
    <3>7. Goes(y, c)
      BY <3>1, <3>2, <3>3, <3>5, <3>6 DEF Goes
    <3> QED BY <3>7
  <2>5. CASE n # Len(pat)
    <3>1. /\ hits' = hits /\ n # 0 /\ n \in 1 .. Len(pat) - 1
          /\ IF i + 1 < Len(src) /\ At(pat, n) # At(src, i + 1)
             THEN i' = i + 1 /\ j' = FallBack(n) ELSE i' = i + 1 /\ j' = n
      BY <2>1, <2>3, <2>5, <1>4 DEF SearchMiss
    <3>2. CASE i + 1 < Len(src) /\ At(pat, n) # At(src, i + 1)
      <4>1. pat[n + 1] # src[(a + n) + 1]
        BY <3>1, <3>2, <2>1, <1>4 DEF At
      <4> QED BY <4>1, <3>1, <3>2, <2>1, <2>2, <1>1, <1>2, <1>5, FallsBack
    <3>3. CASE ~(i + 1 < Len(src) /\ At(pat, n) # At(src, i + 1))
      <4>1. Goes(a, n)
        BY <3>1, <3>3, <2>1, <2>2, <1>2, <1>4, <1>5 DEF Goes
      <4> QED BY <4>1
    <3> QED BY <3>2, <3>3
  <2> QED BY <2>4, <2>5
<1>8. CASE ~Same
  <2> HIDE DEF a
  <2>1. /\ hits' = hits /\ pat[j + 1] # src[i + 1] /\ At(pat, j) # At(src, i)
        /\ IF j # 0 THEN i' = i /\ j' = FallBack(j) ELSE i' = i + 1 /\ j' = 0
    BY <1>1, <1>4, <1>5, <1>6, <1>8 DEF SearchMiss, Same
  <2>2. CASE j # 0
    <3>1. PICK n : n = j
      OBVIOUS
    <3>2. n \in 1 .. Len(pat) - 1 /\ a + n < Len(src) /\ i' = a + n /\ j' = FallBack(n)
          /\ Begins(src, pat, a, n) /\ pat[n + 1] # src[(a + n) + 1]
      BY <3>1, <2>1, <2>2, <1>1, <1>2, <1>4, <1>5
    <3> QED BY ONLY <3>2, <2>1, <1>1, <1>2, <1>5, FallsBack, StringsInv
  <2>3. CASE j = 0
    <3> DEFINE y == a + 1
    <3>1. a = i /\ y \in Nat /\ i' = y /\ j' = 0 /\ y <= Len(src) /\ a <= y
      BY <2>1, <2>3, <1>1, <1>4, <1>5
    <3>2. a \notin Places(src, pat)
      <4> SUFFICES ASSUME Match(src, pat, a) PROVE FALSE
        BY <1>4, PlaceIs
      <4>1. src[a + 1] = pat[1]
        BY <1>4 DEF Match
      <4> QED BY <4>1, <3>1, <2>1, <2>3
    <3>3. \A o \in Places(src, pat) : o < y => o < a
      BY <1>4, <1>5, <3>2, PlacesNat
    <3> HIDE DEF y
    <3>4. HitsTo(hits, src, pat, y)
      BY ONLY <3>1, <3>3, <1>2, <1>4, <1>5, HitsSame
    <3>5. Begins(src, pat, y, 0) /\ 0 \in 0 .. Len(pat) - 1 /\ y + 0 = y
      BY <1>4, <3>1 DEF Begins
    <3>6. Goes(y, 0)
      BY <3>1, <3>4, <3>5, <2>1 DEF Goes
    <3> QED BY <3>6
  <2> QED BY <2>2, <2>3
<1> QED BY <1>7, <1>8

-----------------------------------------------------------------------------
(* The tokens.                                                             *)

LEMMA Ascending ==
  ASSUME NEW s \in Seq(Char), NEW p \in Seq(Char), NEW h, NEW x, HitsTo(h, s, p, x), p # <<>>
  PROVE  /\ \A k \in 1 .. Len(h) : h[k] \in Nat /\ k - 1 <= h[k] /\ h[k] + Len(p) <= Len(s)
         /\ Len(h) <= Len(s) /\ Len(h) \in Nat
<1>1. /\ Len(h) \in Nat /\ Len(s) \in Nat /\ Len(p) \in Nat \ {0}
      /\ \A k \in 1 .. Len(h) : h[k] \in Nat /\ h[k] + Len(p) <= Len(s)
  <2>1. Len(h) \in Nat /\ Len(s) \in Nat /\ Len(p) \in Nat \ {0}
    BY LenProperties, EmptySeq DEF HitsTo
  <2>2. \A k \in 1 .. Len(h) : h[k] \in 0 .. Len(s) - Len(p)
    BY PlacesNat DEF HitsTo
  <2> QED BY <2>1, <2>2
<1> DEFINE T == {k \in 1 .. Len(h) : ~(k - 1 <= h[k])}
<1>2. ASSUME T # {} PROVE FALSE
  <2>1. PICK m \in T : \A k \in T : m <= k
    <3>1. T \subseteq Nat
      OBVIOUS
    <3> HIDE DEF T
    <3> QED BY <1>2, <3>1, LeastExists
  <2>2. m \in 1 .. Len(h) /\ ~(m - 1 <= h[m])
    BY <2>1
  <2>3. m # 1
    BY <1>1, <2>2
  <2>4. m - 1 \in 1 .. Len(h) - 1 /\ m - 1 \in 1 .. Len(h) /\ ~(m <= m - 1) /\ (m - 1) + 1 = m
    BY <1>1, <2>2, <2>3
  <2>5. (m - 1) - 1 <= h[m - 1]
    BY <2>1, <2>4
  <2>6. h[m - 1] < h[m]
    BY <2>4 DEF HitsTo
  <2>7. h[m - 1] \in Nat /\ h[m] \in Nat /\ m \in Nat
    BY <1>1, <2>2, <2>4
  <2> HIDE DEF T
  <2> QED BY ONLY <2>2, <2>5, <2>6, <2>7
<1>3. \A k \in 1 .. Len(h) : k - 1 <= h[k]
  BY <1>2
<1>4. Len(h) <= Len(s)
  <2>1. CASE Len(h) = 0
    BY <1>1, <2>1
  <2>2. CASE Len(h) # 0
    <3>1. Len(h) \in 1 .. Len(h)
      BY <1>1, <2>2
    <3> QED BY <1>1, <1>3, <3>1
  <2> QED BY <2>1, <2>2
<1> QED BY <1>1, <1>3, <1>4

LEMMA SearchedStep ==
  ASSUME StringsInv, Searched
  PROVE  StringsInv'
<1>1. /\ pc = "search" /\ i >= Len(src) /\ i' = 0
      /\ pc' = (IF hits = <<>> THEN "null" ELSE "cut")
      /\ UNCHANGED <<src, pat, new, j, borders, hits, out>>
  BY DEF Searched, strings
<1>2. /\ TextInv /\ i \in 0 .. Len(src) /\ j \in 0 .. Len(pat) - 1 /\ out = <<>> /\ j <= i
      /\ HitsTo(hits, src, pat, i - j)
  BY <1>1 DEF StringsInv, SearchInv
<1>3. src \in Seq(Char) /\ pat \in Seq(Char) /\ Len(pat) \in Nat \ {0} /\ Len(src) \in Nat
  BY <1>2, Texts
<1>4. HitsTo(hits, src, pat, Len(src) + 1)
  <2> DEFINE x == i - j
             y == Len(src) + 1
  <2>1. x \in Nat /\ y \in Nat /\ x <= y /\ Len(src) - Len(pat) < x
    BY <1>1, <1>2, <1>3
  <2>2. \A o \in Places(src, pat) : o < x
    <3> HIDE DEF x
    <3> QED BY <2>1, <1>3, PlacesNat
  <2>3. HitsTo(hits, src, pat, x)
    BY <1>2
  <2> HIDE DEF x, y
  <2>4. HitsTo(hits, src, pat, y)
    BY ONLY <2>1, <2>2, <2>3, <1>3, HitsSame
  <2> QED BY <2>4 DEF y
<1>5. <<>> \in Seq(Seq(Char)) /\ Len(<<>>) = 0
  BY EmptySeq
<1>6. Len(hits) \in Nat /\ hits \in Seq(Nat)
  BY <1>2, LenProperties DEF HitsTo
<1>7. CutInv'
  <2>1. i' \in 0 .. Len(hits) + 1 /\ i' <= Len(hits) /\ i' = 0 /\ j \in 0 .. Len(pat)
    BY <1>1, <1>2, <1>3, <1>6
  <2>2. \A k \in 0 .. i' - 1 : FALSE
    BY <2>1
  <2>3. pc' \notin {"tokens", "crashed"}
    BY <1>1
  <2> QED BY ONLY <1>1, <1>2, <1>4, <1>5, <2>1, <2>2, <2>3 DEF CutInv
<1>8. TextInv'
  BY <1>1, <1>2 DEF TextInv
<1> QED BY <1>1, <1>7, <1>8 DEF StringsInv, TableInv, SearchInv, ReplaceInv, Ended

LEMMA CutStep ==
  ASSUME StringsInv, Cut
  PROVE  StringsInv'
<1>1. /\ pc = "cut" /\ i <= Len(hits) /\ UNCHANGED <<src, pat, new, j, borders, hits>>
      /\ IF From <= To
         THEN /\ out' = Append(out, SubSeq(src, From + 1, To)) /\ i' = i + 1
              /\ pc' = IF i' > Len(hits) THEN "tokens" ELSE "cut"
         ELSE pc' = "crashed" /\ out' = out /\ i' = i
  BY DEF Cut, strings
<1>2. /\ TextInv /\ HitsTo(hits, src, pat, Len(src) + 1) /\ j \in 0 .. Len(pat)
      /\ i \in 0 .. Len(hits) + 1 /\ out \in Seq(Seq(Char)) /\ Len(out) = i
      /\ \A k \in 0 .. i - 1 : /\ Behind(k) \in 0 .. Len(src) /\ Before(k) \in Behind(k) .. Len(src)
                               /\ out[k + 1] = SubSeq(src, Behind(k) + 1, Before(k))
  BY <1>1 DEF StringsInv, CutInv
<1>3. /\ src \in Seq(Char) /\ pat \in Seq(Char) /\ pat # <<>>
      /\ Len(pat) \in Nat \ {0} /\ Len(src) \in Nat
  BY <1>2, Texts, EmptySeq
<1>4. /\ Len(hits) \in Nat /\ i \in Nat
      /\ \A k \in 1 .. Len(hits) : hits[k] \in Nat /\ hits[k] + Len(pat) <= Len(src)
  BY <1>2, <1>3, Ascending
<1>5. From = Behind(i) /\ To = Before(i)
  BY DEF From, To, Behind, Before
<1>6. From \in 0 .. Len(src) /\ To \in 0 .. Len(src)
  <2>1. i # 0 => i \in 1 .. Len(hits)
    BY <1>1, <1>4
  <2>2. From \in 0 .. Len(src)
    BY <2>1, <1>3, <1>4 DEF From
  <2>3. i < Len(hits) => i + 1 \in 1 .. Len(hits)
    BY <1>4
  <2>4. To \in 0 .. Len(src)
    BY <2>3, <1>3, <1>4 DEF To
  <2> QED BY <2>2, <2>4
<1>7. TextInv'
  BY <1>1, <1>2 DEF TextInv
<1>8. \A k \in 0 .. i : Behind(k)' = Behind(k) /\ Before(k)' = Before(k)
  BY <1>1 DEF Behind, Before
<1>9. CASE From <= To
  <2> DEFINE t == SubSeq(src, From + 1, To)
  <2>1. To \in From .. Len(src)
    BY <1>3, <1>6, <1>9
  <2>2. t \in Seq(Char)
    BY <2>1, <1>3, <1>6, SliceIs
  <2> HIDE DEF t
  <2>3. out' = Append(out, t) /\ i' = i + 1 /\ pc' = IF i' > Len(hits) THEN "tokens" ELSE "cut"
    BY <1>1, <1>9 DEF t
  <2>4. /\ out' \in Seq(Seq(Char)) /\ Len(out') = i + 1 /\ out'[i + 1] = t
        /\ \A k \in 1 .. i : out'[k] = out[k]
    BY <1>2, <2>2, <2>3, AppendProperties
  <2>5. ASSUME NEW k \in 0 .. i' - 1
        PROVE  /\ Behind(k)' \in 0 .. Len(src) /\ Before(k)' \in Behind(k)' .. Len(src)
               /\ out'[k + 1] = SubSeq(src, Behind(k)' + 1, Before(k)')
    <3>1. k \in 0 .. i
      BY <2>3, <1>4
    <3>2. CASE k = i
      <4>1. Behind(k) = From /\ Before(k) = To
        BY <3>2 DEF Behind, Before, From, To
      <4>2. Behind(k)' = From /\ Before(k)' = To
        BY <4>1, <3>1, <1>8
      <4> QED BY <4>2, <3>2, <1>6, <2>1, <2>4 DEF t
    <3>3. CASE k # i
      <4>1. k \in 0 .. i - 1 /\ k + 1 \in 1 .. i
        BY <3>1, <3>3, <1>4
      <4> QED BY <4>1, <3>1, <1>2, <1>8, <2>4
    <3> QED BY <3>2, <3>3
  <2>6. /\ i' \in 0 .. Len(hits) + 1 /\ (pc' = "cut" => i' <= Len(hits))
        /\ (pc' = "tokens" => i' = Len(hits) + 1) /\ pc' \notin {"null", "crashed"}
    BY <2>3, <1>1, <1>4
  <2>7. CutInv'
    BY <2>3, <2>4, <2>5, <2>6, <1>1, <1>2 DEF CutInv
  <2>8. pc' \in {"cut", "tokens"}
    BY <2>3
  <2> QED BY <2>7, <2>8, <1>7 DEF StringsInv, TableInv, SearchInv, ReplaceInv, Ended
<1>10. CASE ~(From <= To)
  <2>1. i \in 1 .. Len(hits) /\ From = hits[i] + Len(pat)
    <3>1. i # 0
      BY <1>6, <1>10 DEF From
    <3> QED BY <3>1, <1>1, <1>4 DEF From
  <2>2. i \in 1 .. Len(hits) - 1 /\ i + 1 \in 1 .. Len(hits) /\ To = hits[i + 1]
    <3>1. i < Len(hits)
      BY <2>1, <1>3, <1>4, <1>10 DEF To
    <3> QED BY <3>1, <2>1, <1>4 DEF To
  <2>3. /\ hits[i] < hits[i + 1] /\ hits[i + 1] < hits[i] + Len(pat)
        /\ hits[i] \in Places(src, pat) /\ hits[i + 1] \in Places(src, pat)
    <3>1. hits[i] < hits[i + 1] /\ hits[i] \in Places(src, pat) /\ hits[i + 1] \in Places(src, pat)
      BY <2>1, <2>2, <1>2 DEF HitsTo
    <3>2. hits[i] \in Nat /\ hits[i + 1] \in Nat
      BY <2>1, <2>2, <1>4
    <3> QED BY <3>1, <3>2, <2>1, <2>2, <1>3, <1>10
  <2>4. \E k, l \in Occurrences' : k < l /\ l < k + Len(pat')
    <3>1. Occurrences' = Places(src, pat)
      BY <1>1, OccurrencesAre DEF Occurrences, Found, Places
    <3> QED BY <3>1, <2>3, <1>1
  <2>5. CutInv'
    <3>1. /\ pc' = "crashed" /\ i' = i /\ out' = out
          /\ UNCHANGED <<src, pat, j, hits>>
      BY <1>1, <1>10
    <3>2. i \in 0 .. Len(hits) + 1 /\ \A k \in 0 .. i - 1 : k \in 0 .. i
      BY <1>2, <1>4
    <3>3. \A k \in 0 .. i - 1 : /\ Behind(k)' \in 0 .. Len(src) /\ Before(k)' \in Behind(k)' .. Len(src)
                                /\ out[k + 1] = SubSeq(src, Behind(k)' + 1, Before(k)')
      BY <3>2, <1>2, <1>8
    <3> QED BY <3>1, <3>2, <3>3, <1>2, <2>4 DEF CutInv
  <2> QED BY <2>5, <1>1, <1>7, <1>10 DEF StringsInv, TableInv, SearchInv, ReplaceInv, Ended
<1> QED BY <1>9, <1>10

-----------------------------------------------------------------------------
(* The string with every place replaced, from an offset on.                *)

Turn(s, p, w, f, k) ==
  IF k = Len(s) THEN <<>>
  ELSE IF k \in Places(s, p) THEN w \o f[k + Len(p)]
  ELSE <<s[k + 1]>> \o f[k + 1]

Builds(f, s, p, w, m) == f = [k \in m .. Len(s) |-> Turn(s, p, w, f, k)]
Rebuilt(s, p, w) == CHOOSE f : Builds(f, s, p, w, 0)

LEMMA ReplacedIs == Replaced = Rebuilt(src, pat, new)
BY Zenon DEF Replaced, Rebuilt, Builds, Turn, Occurrences, Found, Places

LEMMA BuildsAt ==
  ASSUME NEW f, NEW s, NEW p, NEW w, NEW m, Builds(f, s, p, w, m)
  PROVE  \A k \in m .. Len(s) : f[k] = Turn(s, p, w, f, k)
<1> DEFINE e(k) == Turn(s, p, w, f, k)
<1>1. f = [k \in m .. Len(s) |-> e(k)]
  BY DEF Builds
<1> HIDE DEF e
<1>2. \A k \in m .. Len(s) : f[k] = e(k)
  BY <1>1
<1> QED BY <1>2 DEF e

LEMMA BuildsExists ==
  ASSUME NEW s \in Seq(Char), NEW p \in Seq(Char), p # <<>>, NEW w
  PROVE  Builds(Rebuilt(s, p, w), s, p, w, 0)
<1>1. Len(s) \in Nat /\ Len(p) \in Nat \ {0}
  BY LenProperties, EmptySeq
<1> DEFINE N == Len(s)
           T == {n \in 0 .. N : ~ \E f : Builds(f, s, p, w, N - n)}
<1>2. ASSUME T # {} PROVE FALSE
  <2>1. PICK n \in T : \A k \in T : n <= k
    <3>1. T \subseteq Nat
      OBVIOUS
    <3> HIDE DEF T
    <3> QED BY <1>2, <3>1, LeastExists
  <2>2. n \in 0 .. N /\ ~ \E f : Builds(f, s, p, w, N - n)
    BY <2>1
  <2>3. PICK f : n # 0 => Builds(f, s, p, w, (N - n) + 1)
    <3>1. CASE n # 0
      <4>1. n - 1 \in 0 .. N /\ ~(n <= n - 1) /\ N - (n - 1) = (N - n) + 1
        BY <1>1, <2>2, <3>1
      <4>2. n - 1 \notin T
        BY <2>1, <4>1
      <4> QED BY <4>1, <4>2
    <3> QED BY <3>1
  <2> DEFINE m == N - n
             g == [k \in m .. N |-> Turn(s, p, w, f, k)]
  <2>4. m \in 0 .. N /\ m \in Nat /\ N \in Nat /\ (n = 0 <=> m = N)
    BY <1>1, <2>2
  <2>5. ASSUME NEW k \in m + 1 .. N PROVE g[k] = f[k]
    <3>1. k \in m .. N /\ n # 0
      BY <2>4
    <3>2. Builds(f, s, p, w, m + 1)
      BY <2>3, <3>1
    <3> HIDE DEF m
    <3> DEFINE c == m + 1
    <3>3. Builds(f, s, p, w, c) /\ k \in c .. N
      BY <3>2
    <3> HIDE DEF c
    <3>4. f[k] = Turn(s, p, w, f, k)
      BY ONLY <3>3, BuildsAt
    <3> QED BY <3>1, <3>4
  <2> HIDE DEF m
  <2>6. ASSUME NEW k \in m .. N PROVE Turn(s, p, w, f, k) = Turn(s, p, w, g, k)
    <3>1. CASE k = N
      BY <3>1 DEF Turn
    <3>2. CASE k # N /\ k \in Places(s, p)
      <4>1. k \in 0 .. N - Len(p)
        BY <3>2, PlacesNat
      <4>2. k + Len(p) \in m + 1 .. N
        BY <4>1, <1>1, <2>4
      <4>3. g[k + Len(p)] = f[k + Len(p)]
        BY <4>2, <2>5
      <4> HIDE DEF g
      <4> QED BY <4>3, <3>2 DEF Turn
    <3>3. CASE k # N /\ k \notin Places(s, p)
      <4>1. k + 1 \in m + 1 .. N
        BY <3>3, <1>1, <2>4
      <4>2. g[k + 1] = f[k + 1]
        BY <4>1, <2>5
      <4> HIDE DEF g
      <4> QED BY <4>2, <3>3 DEF Turn
    <3> QED BY <3>1, <3>2, <3>3
  <2>7. Builds(g, s, p, w, m)
    <3> DEFINE e(k) == Turn(s, p, w, f, k)
               h(k) == Turn(s, p, w, g, k)
    <3>1. \A k \in m .. N : e(k) = h(k)
      BY <2>6
    <3>2. g = [k \in m .. N |-> e(k)]
      OBVIOUS
    <3>3. [k \in m .. N |-> e(k)] = [k \in m .. N |-> h(k)]
      <4> HIDE DEF e, h
      <4> QED BY <3>1
    <3>4. g = [k \in m .. N |-> h(k)]
      <4> HIDE DEF e, h, g
      <4> QED BY <3>2, <3>3
    <3> HIDE DEF g
    <3> QED BY <3>4 DEF Builds
  <2> QED BY <2>2, <2>7 DEF m
<1>3. \E f : Builds(f, s, p, w, 0)
  <2>1. N \in 0 .. N /\ N - N = 0
    BY <1>1
  <2>2. N \notin T
    BY <1>2
  <2> QED BY <2>1, <2>2
<1> QED BY <1>3, Zenon DEF Rebuilt

LEMMA RebuiltType ==
  ASSUME NEW s \in Seq(Char), NEW p \in Seq(Char), p # <<>>, NEW w \in Seq(Char),
         NEW f, Builds(f, s, p, w, 0)
  PROVE  \A k \in 0 .. Len(s) : f[k] \in Seq(Char)
<1>1. Len(s) \in Nat /\ Len(p) \in Nat \ {0}
  BY LenProperties, EmptySeq
<1> DEFINE T == {n \in 0 .. Len(s) : ~(f[Len(s) - n] \in Seq(Char))}
<1>2. ASSUME T # {} PROVE FALSE
  <2>1. PICK n \in T : \A k \in T : n <= k
    <3>1. T \subseteq Nat
      OBVIOUS
    <3> HIDE DEF T
    <3> QED BY <1>2, <3>1, LeastExists
  <2> DEFINE m == Len(s) - n
  <2>2. n \in 0 .. Len(s) /\ m \in 0 .. Len(s) /\ m \in Nat /\ ~(f[m] \in Seq(Char))
    <3>1. n \in 0 .. Len(s) /\ ~(f[m] \in Seq(Char))
      BY <2>1
    <3>2. m \in 0 .. Len(s) /\ m \in Nat
      BY ONLY <3>1, <1>1
    <3> QED BY <3>1, <3>2
  <2>3. ASSUME NEW k \in 0 .. Len(s), m < k PROVE f[k] \in Seq(Char)
    <3>1. Len(s) - k \in 0 .. Len(s) /\ ~(n <= Len(s) - k) /\ Len(s) - (Len(s) - k) = k
      BY <2>2, <2>3, <1>1
    <3>2. Len(s) - k \notin T
      BY <2>1, <3>1
    <3> QED BY <3>1, <3>2
  <2> HIDE DEF m
  <2>4. f[m] = Turn(s, p, w, f, m)
    BY <2>2, BuildsAt
  <2>5. CASE m = Len(s)
    BY <2>2, <2>4, <2>5, EmptySeq DEF Turn
  <2>6. CASE m # Len(s) /\ m \in Places(s, p)
    <3> DEFINE k == m + Len(p)
    <3>1. k \in 0 .. Len(s) /\ m < k
      <4>1. m \in 0 .. Len(s) - Len(p)
        BY <2>6, PlacesNat
      <4> QED BY <4>1, <1>1
    <3>2. f[m] = w \o f[k]
      BY <2>4, <2>6 DEF Turn
    <3> HIDE DEF k
    <3>3. f[k] \in Seq(Char)
      BY <3>1, <2>3
    <3> QED BY ONLY <3>2, <3>3, <2>2, ConcatProperties, w \in Seq(Char)
  <2>7. CASE m # Len(s) /\ m \notin Places(s, p)
    <3> DEFINE k == m + 1
               x == <<s[k]>>
    <3>1. k \in 1 .. Len(s) /\ m < k /\ k \in 0 .. Len(s)
      BY <2>2, <2>7, <1>1
    <3>2. f[m] = x \o f[k]
      BY <2>4, <2>7 DEF Turn
    <3> HIDE DEF k
    <3>3. f[k] \in Seq(Char) /\ x \in Seq(Char)
      <4>1. s[k] \in Char
        BY <3>1, ElementOfSeq
      <4> QED BY <4>1, <3>1, <2>3
    <3> HIDE DEF x
    <3> QED BY ONLY <3>2, <3>3, <2>2, ConcatProperties
  <2> QED BY <2>5, <2>6, <2>7
<1>3. ASSUME NEW k \in 0 .. Len(s) PROVE f[k] \in Seq(Char)
  <2>1. Len(s) - k \in 0 .. Len(s) /\ Len(s) - (Len(s) - k) = k
    BY <1>1
  <2>2. Len(s) - k \notin T
    BY <1>2
  <2> QED BY <2>1, <2>2
<1> QED BY <1>3

NoPlace(s, p, a, m) == \A o \in Places(s, p) : ~(a <= o /\ o < m)
Skips(f, s, a, m) == f[a] = SubSeq(s, a + 1, m) \o f[m]

\* Up to the next place the string stays as it is.
LEMMA RebuiltSkips ==
  ASSUME NEW s \in Seq(Char), NEW p \in Seq(Char), p # <<>>, NEW w \in Seq(Char),
         NEW f, Builds(f, s, p, w, 0), NEW m \in 0 .. Len(s), NEW a \in 0 .. m,
         NoPlace(s, p, a, m)
  PROVE  Skips(f, s, a, m)
<1>1. Len(s) \in Nat /\ m \in Nat /\ a \in Nat /\ a <= m /\ m <= Len(s)
  BY LenProperties
<1>2. f[m] \in Seq(Char)
  BY RebuiltType
<1> DEFINE Holds(k) == Skips(f, s, k, m)
           T == {n \in 0 .. m - a : ~Holds(m - n)}
<1>3. ASSUME T # {} PROVE FALSE
  <2>1. PICK n \in T : \A k \in T : n <= k
    <3>1. T \subseteq Nat
      OBVIOUS
    <3> HIDE DEF T
    <3> QED BY <1>3, <3>1, LeastExists
  <2> DEFINE b == m - n
  <2>2. n \in 0 .. m - a /\ b \in a .. m /\ ~Holds(b)
    <3>1. n \in 0 .. m - a /\ ~Holds(b)
      BY <2>1
    <3>2. b \in a .. m
      BY ONLY <3>1, <1>1
    <3> QED BY <3>1, <3>2
  <2>3. CASE n = 0
    <3>1. b = m /\ SubSeq(s, b + 1, m) = <<>>
      <4>1. b = m
        BY <2>3, <1>1
      <4>2. m + 1 \in Int /\ m \in Int /\ m < m + 1
        BY <1>1
      <4>3. SubSeq(s, m + 1, m) = <<>>
        BY ONLY <4>2, SubSeqEmpty
      <4> QED BY <4>1, <4>3
    <3>2. <<>> \o f[m] = f[m]
      BY <1>2, ConcatEmptySeq
    <3> QED BY <2>2, <3>1, <3>2 DEF Skips
  <2>4. CASE n # 0
    <3> DEFINE c == b + 1
               x == SubSeq(s, b + 1, c)
               y == SubSeq(s, c + 1, m)
    <3>1. /\ n - 1 \in 0 .. m - a /\ ~(n <= n - 1) /\ m - (n - 1) = c
          /\ b \in 0 .. Len(s) /\ b # Len(s) /\ c \in b .. Len(s) /\ m \in c .. Len(s) /\ c \in 0 .. Len(s)
          /\ a <= b /\ b < m /\ b \in Nat /\ c \in 1 .. Len(s) /\ c - b = 1
      BY <2>2, <2>4, <1>1
    <3>2. Holds(c)
      <4>1. n - 1 \notin T
        BY <2>1, <3>1
      <4> QED BY <4>1, <3>1
    <3>3. f[b] = <<s[c]>> \o f[c]
      <4>1. b \notin Places(s, p)
        BY <3>1 DEF NoPlace
      <4>2. f[b] = Turn(s, p, w, f, b)
        <5> HIDE DEF b
        <5> QED BY <3>1, BuildsAt
      <4> QED BY <4>1, <4>2, <3>1 DEF Turn
    <3>4. x \in Seq(Char) /\ Len(x) = 1 /\ x[1] = s[c]
      <4>1. x \in Seq(Char) /\ Len(x) = c - b /\ \A k \in 1 .. c - b : x[k] = s[b + k]
        <5> HIDE DEF c, b
        <5> QED BY <3>1, SliceIs
      <4> HIDE DEF x
      <4> QED BY <4>1, <3>1
    <3>5. <<s[c]>> = x
      <4> HIDE DEF x, c
      <4>1. s[c] \in Char
        BY <3>1, ElementOfSeq
      <4> DEFINE z == <<s[c]>>
      <4>2. z \in Seq(Char) /\ Len(z) = 1 /\ z[1] = s[c]
        BY <4>1
      <4> HIDE DEF z
      <4>3. Len(z) = Len(x) /\ \A k \in 1 .. Len(z) : z[k] = x[k]
        BY <4>2, <3>4
      <4>4. z = x
        BY ONLY <3>4, <4>2, <4>3, SeqEqual
      <4> QED BY <4>4 DEF z
    <3>6. y \in Seq(Char) /\ x \o y = SubSeq(s, b + 1, m)
      <4>1. y \in Seq(Char)
        <5> HIDE DEF c
        <5> QED BY <3>1, SliceIs
      <4>2. x \o y = SubSeq(s, b + 1, m)
        <5> HIDE DEF b, c
        <5> QED BY <3>1, SlicesJoin
      <4> QED BY <4>1, <4>2
    <3>7. f[b] = x \o (y \o f[m])
      BY <3>2, <3>3, <3>5 DEF Skips
    <3> HIDE DEF x, y
    <3>8. (x \o y) \o f[m] = x \o (y \o f[m])
      <4> DEFINE z == f[m]
      <4>1. x \in Seq(Char) /\ y \in Seq(Char) /\ z \in Seq(Char)
        BY <3>4, <3>6, <1>2
      <4> HIDE DEF z
      <4>2. Associates(x, y, z)
        BY ONLY <4>1, JoinsAssociate
      <4> QED BY <4>2 DEF z, Associates
    <3>9. Holds(b)
      BY ONLY <3>6, <3>7, <3>8 DEF Holds, Skips
    <3> QED BY <3>9, <2>2
  <2> QED BY <2>3, <2>4
<1>4. m - a \in 0 .. m - a /\ m - (m - a) = a
  BY <1>1
<1>5. Holds(m - (m - a))
  <2> HIDE DEF Holds
  <2> QED BY <1>3, <1>4
<1> QED BY <1>4, <1>5

-----------------------------------------------------------------------------
(* rstr_repl.                                                              *)

LEMMA ReplacedValue ==
  ASSUME TextInv
  PROVE  /\ Builds(Replaced, src, pat, new, 0)
         /\ \A k \in 0 .. Len(src) : Replaced[k] \in Seq(Char)
         /\ src \in Seq(Char) /\ pat \in Seq(Char) /\ new \in Seq(Char) /\ pat # <<>>
         /\ Len(src) \in Nat /\ Len(pat) \in Nat \ {0}
<1>1. /\ src \in Seq(Char) /\ pat \in Seq(Char) /\ new \in Seq(Char) /\ pat # <<>>
      /\ Len(src) \in Nat /\ Len(pat) \in Nat \ {0}
  BY Texts, EmptySeq
<1>2. Builds(Replaced, src, pat, new, 0)
  BY <1>1, ReplacedIs, BuildsExists
<1>3. \A k \in 0 .. Len(src) : Replaced[k] \in Seq(Char)
  BY <1>1, <1>2, RebuiltType
<1> QED BY <1>1, <1>2, <1>3

LEMMA ReplacedSame ==
  ASSUME UNCHANGED strings
  PROVE  Replaced' = Replaced
<1>1. src' = src /\ pat' = pat /\ new' = new
  BY DEF strings
<1>2. Replaced' = Rebuilt(src', pat', new')
  BY Zenon DEF Replaced, Rebuilt, Builds, Turn, Occurrences, Found, Places
<1> QED BY <1>1, <1>2, ReplacedIs

\* What is copied takes the call on to offset n of the string.
After == IF NextFound # {} THEN Place + Len(pat) ELSE Len(src)

LEMMA PieceIs ==
  ASSUME TextInv, i \in 0 .. Len(src)
  PROVE  /\ Piece \in Seq(Char) /\ After \in 0 .. Len(src)
         /\ Replaced[i] = Piece \o Replaced[After]
<1> DEFINE f == Replaced
           m == IF NextFound # {} THEN Place ELSE Len(src)
           x == SubSeq(src, i + 1, m)
<1>1. /\ Builds(f, src, pat, new, 0) /\ \A k \in 0 .. Len(src) : f[k] \in Seq(Char)
      /\ src \in Seq(Char) /\ pat \in Seq(Char) /\ new \in Seq(Char) /\ pat # <<>>
      /\ Len(src) \in Nat /\ Len(pat) \in Nat \ {0}
  BY ReplacedValue
<1> HIDE DEF f
<1>2. NextFound = {k \in Places(src, pat) : k >= i} /\ Places(src, pat) \subseteq 0 .. Len(src) - Len(pat)
  BY <1>1, OccurrencesAre, PlacesNat DEF NextFound
<1>3. NextFound # {} => Place \in NextFound /\ \A k \in NextFound : Place <= k
  <2> SUFFICES ASSUME NextFound # {} PROVE \E k \in NextFound : \A l \in NextFound : k <= l
    BY Zenon DEF Place
  <2>1. NextFound \subseteq Nat
    BY <1>1, <1>2
  <2> QED BY ONLY <2>1, LeastExists, NextFound # {}
<1>4. /\ m \in i .. Len(src) /\ m \in 0 .. Len(src) /\ i \in 0 .. m /\ i \in 0 .. Len(src)
      /\ After \in 0 .. Len(src)
  <2>1. CASE NextFound # {}
    <3>1. m = Place /\ m \in Places(src, pat) /\ m >= i /\ After = m + Len(pat)
      BY <2>1, <1>2, <1>3 DEF After
    <3>2. m \in 0 .. Len(src) - Len(pat)
      BY <3>1, <1>2
    <3> HIDE DEF m
    <3> QED BY <3>1, <3>2, <1>1
  <2>2. CASE NextFound = {}
    BY <2>2, <1>1 DEF After
  <2> QED BY <2>1, <2>2
<1>5. NoPlace(src, pat, i, m)
  <2> SUFFICES ASSUME NEW o \in Places(src, pat), i <= o, o < m PROVE FALSE
    BY DEF NoPlace
  <2>1. o \in 0 .. Len(src) - Len(pat) /\ o \in NextFound
    BY <1>1, <1>2
  <2>2. m <= o
    BY <2>1, <1>3
  <2> HIDE DEF m
  <2> QED BY <2>1, <2>2, <1>1, <1>4
<1> HIDE DEF m
<1>6. x \in Seq(Char)
  BY <1>1, <1>4, SliceIs
<1>7. f[i] = x \o f[m]
  <2>1. PICK a : a = i
    OBVIOUS
  <2>2. a \in 0 .. m /\ NoPlace(src, pat, a, m)
    BY <2>1, <1>4, <1>5
  <2>3. Skips(f, src, a, m)
    <3>1. /\ src \in Seq(Char) /\ pat \in Seq(Char) /\ pat # <<>> /\ new \in Seq(Char)
          /\ Builds(f, src, pat, new, 0) /\ m \in 0 .. Len(src)
      BY <1>1, <1>4
    <3> QED BY ONLY <3>1, <2>2, RebuiltSkips
  <2> QED BY <2>1, <2>3 DEF Skips
<1>8. f[m] = Turn(src, pat, new, f, m)
  BY ONLY <1>1, <1>4, BuildsAt
<1>9. f[m] \in Seq(Char) /\ f[After] \in Seq(Char)
  BY <1>1, <1>4
<1>10. CASE NextFound # {}
  <2>1. m = Place /\ m \in Places(src, pat) /\ m \in 0 .. Len(src) - Len(pat)
    BY <1>2, <1>3, <1>10 DEF m
  <2>2. f[m] = new \o f[After]
    <3>1. m # Len(src)
      BY <2>1, <1>1
    <3>2. After = m + Len(pat)
      BY <2>1, <1>10 DEF After
    <3> QED BY <3>1, <3>2, <2>1, <1>8 DEF Turn
  <2>3. Piece = x \o new
    BY <2>1, <1>10 DEF Piece
  <2> DEFINE z == f[After]
  <2>4. x \in Seq(Char) /\ new \in Seq(Char) /\ z \in Seq(Char)
    BY <1>1, <1>6, <1>9
  <2> HIDE DEF x, z
  <2>5. (x \o new) \o z = x \o (new \o z) /\ x \o new \in Seq(Char)
    <3>1. Associates(x, new, z)
      BY ONLY <2>4, JoinsAssociate
    <3>2. x \o new \in Seq(Char)
      BY ONLY <2>4, ConcatProperties
    <3> QED BY ONLY <3>1, <3>2 DEF Associates
  <2>6. f[i] = Piece \o z /\ Piece \in Seq(Char)
    BY <2>2, <2>3, <2>5, <1>7 DEF z
  <2> QED BY <2>6, <1>4 DEF f, z
<1>11. CASE NextFound = {}
  <2>1. m = Len(src) /\ After = m /\ Piece = x
    BY <1>11 DEF m, After, Piece
  <2> QED BY <2>1, <1>4, <1>6, <1>7 DEF f
<1> QED BY <1>10, <1>11

\* Nothing is left behind the last piece.
LEMMA NothingLeft ==
  ASSUME TextInv
  PROVE  Replaced[Len(src)] = <<>>
<1>1. Builds(Replaced, src, pat, new, 0) /\ Len(src) \in 0 .. Len(src)
  BY ReplacedValue
<1>2. Replaced[Len(src)] = Turn(src, pat, new, Replaced, Len(src))
  BY ONLY <1>1, BuildsAt
<1> QED BY <1>2 DEF Turn

LEMMA Copied ==
  ASSUME StringsInv, pc \in {"repl", "expand"}, CopyPiece
  PROVE  /\ out' \in Seq(Char) /\ Len(out') = Needed /\ i' \in 0 .. Len(src)
         /\ IF pc' = "replaced" THEN out' = Replaced[0] ELSE out' \o Replaced[i'] = Replaced[0]
         /\ pc' \in {"repl", "replaced"}
<1>1. TextInv /\ i \in 0 .. Len(src) /\ out \in Seq(Char) /\ out \o Replaced[i] = Replaced[0]
  BY DEF StringsInv, ReplaceInv
<1>2. Piece \in Seq(Char) /\ After \in 0 .. Len(src) /\ Replaced[i] = Piece \o Replaced[After]
  BY ONLY <1>1, PieceIs
<1>3. Replaced[After] \in Seq(Char)
  BY <1>1, <1>2, ReplacedValue
<1>4. out' = out \o Piece
  BY DEF CopyPiece, Kept
<1>5. out' \in Seq(Char) /\ Len(out') = Len(out) + Len(Piece)
  BY ONLY <1>1, <1>2, <1>4, ConcatProperties
<1>6. out' \o Replaced[After] = Replaced[0]
  <2> DEFINE z == Replaced[After]
             y == Piece
  <2>1. z \in Seq(Char) /\ y \in Seq(Char) /\ out \in Seq(Char)
    BY <1>1, <1>2, <1>3
  <2> HIDE DEF z, y
  <2>2. Associates(out, y, z)
    BY ONLY <2>1, JoinsAssociate
  <2> QED BY <2>2, <1>1, <1>2, <1>4 DEF y, z, Associates
<1>7. CASE NextFound # {}
  <2>1. i' = After /\ pc' = "repl"
    BY <1>7 DEF CopyPiece, After
  <2> QED BY <2>1, <1>2, <1>5, <1>6 DEF Needed
<1>8. CASE NextFound = {}
  <2>1. i' = i /\ pc' = "replaced" /\ After = Len(src)
    BY <1>8 DEF CopyPiece, After
  <2>2. out' \o <<>> = Replaced[0]
    BY <2>1, <1>1, <1>6, NothingLeft
  <2>3. out' = Replaced[0]
    BY ONLY <2>2, <1>5, ConcatEmptySeq
  <2> QED BY <2>1, <2>3, <1>1, <1>5 DEF Needed
<1> QED BY <1>7, <1>8

LEMMA ReplaceStep ==
  ASSUME StringsInv, Replace
  PROVE  StringsInv'
<1>1. /\ pc = "repl" /\ UNCHANGED <<src, pat, new, j, borders, hits, room>> /\ UNCHANGED strings
      /\ \/ NextFound = {} /\ Piece = <<>> /\ pc' = "replaced" /\ i' = i /\ out' = out
         \/ HasRoom(Needed) /\ CopyPiece
         \/ pc' = "expand" /\ i' = i /\ out' = out
  BY DEF Replace, strings
<1>2. /\ TextInv /\ i \in 0 .. Len(src) /\ j = 0 /\ hits = <<>> /\ out \in Seq(Char)
      /\ room \in Nat /\ MaxLen <= room
      /\ Len(out) + 1 <= IF room = MaxLen THEN MaxLen ELSE room + 1
      /\ out \o Replaced[i] = Replaced[0]
  BY <1>1 DEF StringsInv, ReplaceInv
<1>3. Replaced' = Replaced /\ Replaced[0]' = Replaced[0] /\ MaxLen \in Nat \ {0}
  <2>1. Replaced' = Replaced
    BY ONLY <1>1, ReplacedSame
  <2> QED BY <2>1, <1>2, Texts
<1>4. TextInv'
  BY <1>1, <1>2 DEF TextInv
<1>5. ReplaceInv' /\ pc' \in {"repl", "expand", "replaced"}
  <2>1. CASE NextFound = {} /\ Piece = <<>> /\ pc' = "replaced" /\ i' = i /\ out' = out
    <3>1. Replaced[i] = <<>> \o Replaced[Len(src)] /\ Replaced[Len(src)] = <<>>
      <4>1. Replaced[i] = Piece \o Replaced[After] /\ After = Len(src)
        BY <1>2, <2>1, PieceIs DEF After
      <4> QED BY <4>1, <1>2, <2>1, NothingLeft
    <3>2. <<>> \o <<>> = <<>> /\ out \o <<>> = out
      BY <1>2, EmptySeq, ConcatEmptySeq
    <3>3. out = Replaced[0]
      BY ONLY <3>1, <3>2, <1>2
    <3> QED BY <3>3, <2>1, <1>1, <1>2, <1>3 DEF ReplaceInv
  <2>2. CASE HasRoom(Needed) /\ CopyPiece
    <3>1. /\ out' \in Seq(Char) /\ Len(out') = Needed /\ i' \in 0 .. Len(src)
          /\ IF pc' = "replaced" THEN out' = Replaced[0] ELSE out' \o Replaced[i'] = Replaced[0]
          /\ pc' \in {"repl", "replaced"}
      BY <1>1, <2>2, Copied
    <3>2. Len(out') + 1 <= IF room = MaxLen THEN MaxLen ELSE room + 1
      <4>1. Len(out') < room /\ Len(out') \in Nat
        BY <3>1, <2>2, LenProperties DEF HasRoom
      <4> QED BY ONLY <4>1, <1>2, <1>3
    <3>3. Replaced'[i'] = Replaced[i'] /\ Replaced'[0] = Replaced[0]
      BY <1>3
    <3> QED BY ONLY <3>1, <3>2, <3>3, <1>1, <1>2 DEF ReplaceInv
  <2>3. CASE pc' = "expand" /\ i' = i /\ out' = out
    BY <2>3, <1>1, <1>2, <1>3 DEF ReplaceInv
  <2> QED BY <1>1, <2>1, <2>2, <2>3
<1> QED BY <1>1, <1>4, <1>5 DEF StringsInv, TableInv, SearchInv, CutInv, Ended

LEMMA ExpandStep ==
  ASSUME StringsInv, Expand
  PROVE  StringsInv'
<1>1. /\ pc = "expand" /\ room' = 2 * room /\ UNCHANGED <<src, pat, new, j, borders, hits>>
      /\ UNCHANGED strings
      /\ IF 2 * room < Needed THEN UNCHANGED <<pc, i, out>> ELSE CopyPiece
  BY DEF Expand, strings
<1>2. /\ TextInv /\ i \in 0 .. Len(src) /\ j = 0 /\ hits = <<>> /\ out \in Seq(Char)
      /\ room \in Nat /\ MaxLen <= room
      /\ Len(out) + 1 <= IF room = MaxLen THEN MaxLen ELSE room + 1
      /\ out \o Replaced[i] = Replaced[0]
  BY <1>1 DEF StringsInv, ReplaceInv
<1>3. Replaced' = Replaced
  BY ONLY <1>1, ReplacedSame
<1>4. MaxLen \in Nat \ {0} /\ room' \in Nat /\ MaxLen <= room' /\ room' # MaxLen /\ room <= room'
  BY <1>1, <1>2, Texts
<1>5. TextInv'
  BY <1>1, <1>2 DEF TextInv
<1>6. Replaced'[i'] = Replaced[i'] /\ Replaced'[0] = Replaced[0]
  BY <1>3
<1>7. ReplaceInv' /\ pc' \in {"repl", "expand", "replaced"}
  <2>1. CASE 2 * room < Needed
    <3>1. pc' = "expand" /\ i' = i /\ out' = out
      BY <1>1, <2>1
    <3>2. Len(out') + 1 <= room' + 1
      <4>1. Len(out) \in Nat /\ Len(out') = Len(out)
        BY <1>2, <3>1, LenProperties
      <4> QED BY ONLY <4>1, <1>2, <1>4
    <3> QED BY ONLY <3>1, <3>2, <1>1, <1>2, <1>4, <1>6 DEF ReplaceInv
  <2>2. CASE ~(2 * room < Needed)
    <3>1. /\ out' \in Seq(Char) /\ Len(out') = Needed /\ i' \in 0 .. Len(src)
          /\ IF pc' = "replaced" THEN out' = Replaced[0] ELSE out' \o Replaced[i'] = Replaced[0]
          /\ pc' \in {"repl", "replaced"}
      BY <1>1, <2>2, Copied
    <3>2. Len(out') + 1 <= room' + 1
      <4>1. Len(out') \in Nat /\ Len(out') = Needed
        BY <3>1, LenProperties
      <4> QED BY ONLY <4>1, <2>2, <1>1, <1>2, <1>4
    <3> QED BY ONLY <3>1, <3>2, <1>1, <1>2, <1>4, <1>6 DEF ReplaceInv
  <2> QED BY <2>1, <2>2
<1> QED BY <1>1, <1>5, <1>7 DEF StringsInv, TableInv, SearchInv, CutInv, Ended

-----------------------------------------------------------------------------
(* The tokens put together again: what FlattenSeq makes of them.           *)

Flat(s) == CHOOSE f : f = [k \in 1 .. Len(s) |-> IF k = 1 THEN s[k] ELSE f[k - 1] \o s[k]]

LEMMA FlattenIs == ASSUME NEW s, Len(s) # 0 PROVE Seqs!FlattenSeq(s) = Flat(s)[Len(s)]
BY Zenon DEF Seqs!FlattenSeq, Flat

Joins(f, s, m) == f = [k \in 1 .. m |-> IF k = 1 THEN s[k] ELSE f[k - 1] \o s[k]]

LEMMA FlatIs ==
  ASSUME NEW s, Len(s) \in Nat
  PROVE  Joins(Flat(s), s, Len(s))
<1> DEFINE T == {m \in 0 .. Len(s) : ~ \E f : Joins(f, s, m)}
<1>1. T = {}
  <2> SUFFICES ASSUME T # {} PROVE FALSE
    OBVIOUS
  <2>1. PICK m \in T : \A x \in T : m <= x
    <3>1. T \subseteq Nat
      OBVIOUS
    <3> HIDE DEF T
    <3> QED BY <3>1, LeastExists
  <2>2. m \in 0 .. Len(s) /\ ~ \E f : Joins(f, s, m)
    BY <2>1
  <2>3. CASE m = 0
    <3> DEFINE g == [k \in 1 .. 0 |-> s[k]]
    <3>1. \A k \in 1 .. 0 : FALSE
      OBVIOUS
    <3>2. g = [k \in 1 .. 0 |-> IF k = 1 THEN s[k] ELSE g[k - 1] \o s[k]]
      BY <3>1
    <3> QED BY <3>2, <2>2, <2>3 DEF Joins
  <2>4. CASE m # 0
    <3>1. m - 1 \in 0 .. Len(s) /\ ~(m <= m - 1)
      BY <2>2, <2>4
    <3>2. PICK f : Joins(f, s, m - 1)
      BY <3>1, <2>1
    <3> DEFINE e(k) == IF k = 1 THEN s[k] ELSE f[k - 1] \o s[k]
               g == [k \in 1 .. m |-> e(k)]
    <3>3. f = [k \in 1 .. m - 1 |-> e(k)]
      BY <3>2 DEF Joins
    <3>4. ASSUME NEW k \in 1 .. m, k # 1 PROVE g[k - 1] = f[k - 1]
      <4>1. k - 1 \in 1 .. m /\ k - 1 \in 1 .. m - 1
        BY <3>4, <2>2
      <4>2. g[k - 1] = e(k - 1)
        BY <4>1
      <4>3. f[k - 1] = e(k - 1)
        <5> HIDE DEF e
        <5> QED BY <4>1, <3>3
      <4> QED BY <4>2, <4>3
    <3>5. \A k \in 1 .. m : e(k) = IF k = 1 THEN s[k] ELSE g[k - 1] \o s[k]
      <4> HIDE DEF g
      <4> QED BY <3>4
    <3>6. g = [k \in 1 .. m |-> IF k = 1 THEN s[k] ELSE g[k - 1] \o s[k]]
      <4> DEFINE h(k) == IF k = 1 THEN s[k] ELSE g[k - 1] \o s[k]
      <4>1. \A k \in 1 .. m : e(k) = h(k)
        BY <3>5
      <4> HIDE DEF h, e
      <4>2. [k \in 1 .. m |-> e(k)] = [k \in 1 .. m |-> h(k)]
        BY <4>1
      <4>3. g = [k \in 1 .. m |-> h(k)]
        BY <4>2
      <4> QED BY <4>3 DEF h
    <3>7. Joins(g, s, m)
      <4> HIDE DEF g
      <4> QED BY <3>6 DEF Joins
    <3> QED BY <3>7, <2>2
  <2> QED BY <2>3, <2>4
<1>2. \E f : Joins(f, s, Len(s))
  BY <1>1
<1> QED BY <1>2, Zenon DEF Joins, Flat

LEMMA JoinsValue ==
  ASSUME NEW f, NEW s, NEW m, Joins(f, s, m)
  PROVE  \A k \in 1 .. m : f[k] = IF k = 1 THEN s[k] ELSE f[k - 1] \o s[k]
<1> DEFINE e(k) == IF k = 1 THEN s[k] ELSE f[k - 1] \o s[k]
<1>1. f = [k \in 1 .. m |-> e(k)]
  BY DEF Joins
<1> HIDE DEF e
<1>2. \A k \in 1 .. m : f[k] = e(k)
  BY <1>1
<1> QED BY <1>2 DEF e

\* Where token k and the separator behind it end
EndOf(k) == IF k <= Len(hits) THEN Behind(k) ELSE Len(src)

LEMMA TokensJoin ==
  ASSUME StringsInv, pc = "tokens"
  PROVE  Joined = src
<1> DEFINE n == Len(out)
           t == [k \in DOMAIN out |-> IF k < Len(out) THEN out[k] \o pat ELSE out[k]]
           f == Flat(t)
<1>1. /\ TextInv /\ HitsTo(hits, src, pat, Len(src) + 1) /\ i = Len(hits) + 1
      /\ out \in Seq(Seq(Char)) /\ n = i
      /\ \A k \in 0 .. i - 1 : /\ Behind(k) \in 0 .. Len(src) /\ Before(k) \in Behind(k) .. Len(src)
                               /\ out[k + 1] = SubSeq(src, Behind(k) + 1, Before(k))
  BY DEF StringsInv, CutInv
<1>2. /\ src \in Seq(Char) /\ pat \in Seq(Char) /\ pat # <<>>
      /\ Len(pat) \in Nat \ {0} /\ Len(src) \in Nat
  BY <1>1, Texts, EmptySeq
<1>3. /\ Len(hits) \in Nat
      /\ \A k \in 1 .. Len(hits) : hits[k] \in Nat /\ hits[k] + Len(pat) <= Len(src)
  BY <1>1, <1>2, Ascending
<1>4. n \in Nat /\ n # 0 /\ n = Len(hits) + 1 /\ DOMAIN out = 1 .. n
  BY <1>1, <1>3, LenProperties
<1>5. /\ Len(t) = n
      /\ \A k \in 1 .. n : t[k] = IF k < n THEN out[k] \o pat ELSE out[k]
  BY <1>4
<1>6. Joined = f[n] /\ Joins(f, t, n)
  <2>1. Joined = Seqs!FlattenSeq(t)
    BY Zenon DEF Joined
  <2> HIDE DEF t, n
  <2>2. Len(t) # 0 /\ Len(t) \in Nat
    BY <1>4, <1>5
  <2>3. Seqs!FlattenSeq(t) = f[Len(t)] /\ Joins(f, t, Len(t))
    BY ONLY <2>2, FlattenIs, FlatIs
  <2> QED BY <2>1, <2>3, <1>5
<1> HIDE DEF t, f, n
<1>7. ASSUME NEW k \in 1 .. n
      PROVE  /\ Behind(k - 1) \in 0 .. Len(src) /\ EndOf(k) \in Behind(k - 1) .. Len(src)
             /\ t[k] = SubSeq(src, Behind(k - 1) + 1, EndOf(k))
  <2> DEFINE l == k - 1
             a == Behind(l)
             b == Before(l)
  <2>1. l \in 0 .. i - 1 /\ l + 1 = k /\ k \in Nat
    BY <1>1, <1>4
  <2>2. a \in 0 .. Len(src) /\ b \in a .. Len(src) /\ out[k] = SubSeq(src, a + 1, b)
    <3> HIDE DEF l
    <3>1. out[l + 1] = SubSeq(src, a + 1, b)
      BY <1>1, <2>1
    <3> QED BY <3>1, <1>1, <2>1
  <2>3. CASE k = n
    <3>1. ~(k <= Len(hits)) /\ ~(l < Len(hits))
      BY <1>3, <1>4, <2>3
    <3>2. b = Len(src) /\ EndOf(k) = Len(src)
      <4> HIDE DEF l
      <4> QED BY <3>1 DEF Before, EndOf
    <3> HIDE DEF a, b
    <3>3. t[k] = SubSeq(src, a + 1, b)
      BY <2>2, <2>3, <1>4, <1>5
    <3> QED BY <3>2, <3>3, <2>2 DEF a
  <2>4. CASE k # n
    <3> DEFINE c == b + Len(pat)
    <3>1. k \in 1 .. Len(hits) /\ l < Len(hits) /\ k < n
      BY <1>3, <1>4, <2>4
    <3>2. b = hits[k]
      <4> HIDE DEF l
      <4> QED BY <3>1, <2>1 DEF Before
    <3>3. EndOf(k) = c
      BY <3>1, <3>2 DEF EndOf, Behind
    <3> HIDE DEF a, b
    <3>4. b \in Places(src, pat) /\ b \in 0 .. Len(src) - Len(pat)
      <4>1. b \in Places(src, pat)
        BY <3>1, <3>2, <1>1 DEF HitsTo
      <4> QED BY <4>1, <1>2, PlacesNat
    <3>5. pat = SubSeq(src, b + 1, c)
      BY <3>4 DEF Places
    <3>6. c \in b .. Len(src) /\ c \in a .. Len(src)
      BY <3>4, <2>2, <1>2
    <3>7. t[k] = out[k] \o pat
      BY <3>1, <1>5
    <3> HIDE DEF c
    <3>8. SubSeq(src, a + 1, b) \o SubSeq(src, b + 1, c) = SubSeq(src, a + 1, c)
      BY ONLY <1>2, <2>2, <3>6, SlicesJoin
    <3>9. t[k] = SubSeq(src, a + 1, c)
      BY ONLY <3>5, <3>7, <3>8, <2>2
    <3> QED BY <3>3, <3>6, <3>9, <2>2 DEF a
  <2> QED BY <2>3, <2>4
<1> DEFINE T == {k \in 1 .. n : ~(f[k] = SubSeq(src, 1, EndOf(k)))}
<1>8. ASSUME T # {} PROVE FALSE
  <2>1. PICK k \in T : \A m \in T : k <= m
    <3>1. T \subseteq Nat
      BY <1>4
    <3> HIDE DEF T
    <3> QED BY <1>8, <3>1, LeastExists
  <2>2. k \in 1 .. n /\ k \in Nat /\ ~(f[k] = SubSeq(src, 1, EndOf(k)))
    BY <2>1, <1>4
  <2>3. f[k] = IF k = 1 THEN t[k] ELSE f[k - 1] \o t[k]
    BY ONLY <1>6, <2>2, JoinsValue
  <2> DEFINE a == Behind(k - 1)
             b == EndOf(k)
  <2>4. a \in 0 .. Len(src) /\ b \in a .. Len(src) /\ t[k] = SubSeq(src, a + 1, b)
    BY <1>7, <2>2
  <2>5. CASE k = 1
    <3>1. a = 0
      BY <2>5 DEF Behind
    <3> HIDE DEF a, b
    <3>2. t[k] = SubSeq(src, 1, b)
      BY <2>4, <3>1
    <3> QED BY <3>2, <2>2, <2>3, <2>5 DEF b
  <2>6. CASE k # 1
    <3>1. k - 1 \in 1 .. n /\ ~(k <= k - 1) /\ k - 1 <= Len(hits)
      BY <2>2, <2>6, <1>3, <1>4
    <3>2. k - 1 \notin T
      BY <2>1, <3>1
    <3>3. f[k - 1] = SubSeq(src, 1, EndOf(k - 1)) /\ EndOf(k - 1) = a
      <4>1. f[k - 1] = SubSeq(src, 1, EndOf(k - 1))
        BY <3>1, <3>2
      <4> DEFINE l == k - 1
      <4>2. l <= Len(hits)
        BY <3>1
      <4> HIDE DEF l
      <4>3. EndOf(l) = Behind(l)
        BY <4>2 DEF EndOf
      <4> QED BY <4>1, <4>3 DEF l
    <3> HIDE DEF a, b
    <3>4. 0 \in 0 .. Len(src) /\ a \in 0 .. Len(src)
      BY <1>2, <2>4
    <3> DEFINE o == 0
    <3>5. o \in 0 .. Len(src) /\ a \in o .. Len(src) /\ b \in a .. Len(src)
      BY <2>4, <3>4
    <3> HIDE DEF o
    <3>6. SubSeq(src, o + 1, a) \o SubSeq(src, a + 1, b) = SubSeq(src, o + 1, b)
      BY ONLY <1>2, <3>5, SlicesJoin
    <3>7. o + 1 = 1
      BY DEF o
    <3>8. f[k] = SubSeq(src, 1, b)
      BY ONLY <2>3, <2>4, <2>6, <3>3, <3>6, <3>7
    <3> QED BY <3>8, <2>2 DEF b
  <2> QED BY <2>5, <2>6
<1>9. n \in 1 .. n /\ EndOf(n) = Len(src)
  <2>1. ~(n <= Len(hits))
    BY <1>3, <1>4
  <2> QED BY <2>1, <1>4 DEF EndOf
<1>10. f[n] = SubSeq(src, 1, Len(src))
  BY <1>8, <1>9
<1> QED BY <1>2, <1>6, <1>10, SubSeqFull

-----------------------------------------------------------------------------
(* Every call, of either function.                                         *)

LEMMA InitStrings == StringsInit => StringsInv
<1> SUFFICES ASSUME StringsInit PROVE StringsInv
  OBVIOUS
<1>1. /\ src \in Source /\ pat \in Pattern /\ j = 0 /\ hits = <<>> /\ out = <<>> /\ room = MaxLen
      /\ \/ pc = "table" /\ new = <<>> /\ i = 1 /\ borders = <<0>>
         \/ pc = "repl" /\ new \in Fresh /\ i = 0 /\ borders = <<>>
  BY DEF StringsInit
<1>2. TextInv
  <2>1. MaxTable \in Nat
    BY StringsAssumption
  <2>2. borders \in Seq(Nat) /\ Len(borders) <= MaxTable + 1
    <3>1. CASE borders = <<0>>
      BY <2>1, <3>1
    <3>2. CASE borders = <<>>
      BY <2>1, <3>2, EmptySeq
    <3> QED BY <1>1, <3>1, <3>2
  <2> QED BY <1>1, <2>2 DEF TextInv
<1>3. /\ src \in Seq(Char) /\ pat \in Seq(Char) /\ new \in Seq(Char) /\ pat # <<>>
      /\ Len(src) \in Nat /\ Len(pat) \in Nat \ {0} /\ MaxLen \in Nat \ {0}
  BY <1>2, Texts, EmptySeq
<1>4. CASE pc = "table"
  <2>1. i = 1 /\ borders = <<0>>
    BY <1>1, <1>4
  <2>2. Tabled(pat, <<0>>, 1, 1)
    <3> DEFINE b == <<0>>
    <3>1. b \in Seq(Nat) /\ Len(b) = 1 /\ b[1] = 0
      OBVIOUS
    <3> HIDE DEF b
    <3>2. \A k \in 1 .. 1 : b[k] = IF k <= 1 THEN 0 ELSE k - 1
      BY <3>1
    <3>3. Tabled(pat, b, 1, 1)
      BY <3>1, <3>2, <1>3 DEF Tabled
    <3> QED BY <3>3 DEF b
  <2>3. i - j = 1 /\ i \in 1 .. Len(pat) /\ j \in 0 .. i - 1
    BY <2>1, <1>1, <1>3
  <2>4. TableInv
    BY <2>1, <2>2, <2>3, <1>1 DEF TableInv
  <2> QED BY <2>4, <1>2, <1>4 DEF StringsInv, SearchInv, CutInv, ReplaceInv
<1>5. CASE pc = "repl"
  <2>1. Replaced[0] \in Seq(Char) /\ 0 \in 0 .. Len(src)
    BY <1>2, <1>3, ReplacedValue
  <2>2. <<>> \o Replaced[0] = Replaced[0]
    BY ONLY <2>1, ConcatEmptySeq
  <2>3. i = 0
    BY <1>1, <1>5
  <2>4. <<>> \in Seq(Char) /\ Len(<<>>) = 0
    BY EmptySeq
  <2>5. ReplaceInv
    BY <2>1, <2>2, <2>3, <2>4, <1>1, <1>3, <1>5 DEF ReplaceInv
  <2> QED BY <2>5, <1>2, <1>5 DEF StringsInv, TableInv, SearchInv, CutInv
<1> QED BY <1>1, <1>4, <1>5

LEMMA StringsStep == StringsInv /\ [StringsNext]_stringVars => StringsInv'
<1> SUFFICES ASSUME StringsInv, [StringsNext]_stringVars PROVE StringsInv'
  OBVIOUS
<1>1. CASE UNCHANGED stringVars
  <2>1. UNCHANGED <<pc, src, pat, new, i, j, borders, hits, out, room>> /\ UNCHANGED strings
    BY <1>1 DEF stringVars, strings
  <2>2. Replaced' = Replaced
    BY ONLY <2>1, ReplacedSame
  <2>3. Replaced'[i'] = Replaced[i] /\ Replaced'[0] = Replaced[0]
    BY <2>1, <2>2
  <2>4. ReplaceInv'
    BY <2>1, <2>3 DEF StringsInv, ReplaceInv
  <2>5. Occurrences' = Occurrences
    BY <2>1 DEF Occurrences, Found
  <2>6. CutInv'
    <3>1. \A k \in 0 .. i - 1 : Behind(k)' = Behind(k) /\ Before(k)' = Before(k)
      BY <2>1 DEF Behind, Before
    <3> QED BY <2>1, <2>5, <3>1 DEF StringsInv, CutInv
  <2>7. TextInv' /\ TableInv' /\ SearchInv'
    BY <2>1 DEF StringsInv, TextInv, TableInv, SearchInv, At
  <2> QED BY <2>1, <2>4, <2>6, <2>7 DEF StringsInv, Ended
<1>2. CASE StringsNext
  BY <1>2, TableMatchStep, TableMismatchStep, TableReadyStep, SearchStep, SearchedStep, CutStep,
     ReplaceStep, ExpandStep DEF StringsNext
<1> QED BY <1>1, <1>2

LEMMA HitsRange ==
  ASSUME TextInv, NEW x, HitsTo(hits, src, pat, x)
  PROVE  /\ Range(hits) \subseteq Occurrences /\ Range(hits) \subseteq 0 .. Len(src)
         /\ x = Len(src) + 1 => Range(hits) = Occurrences
<1>1. src \in Seq(Char) /\ pat \in Seq(Char) /\ Len(src) \in Nat /\ Len(pat) \in Nat
  BY Texts
<1>2. DOMAIN hits = 1 .. Len(hits) /\ Occurrences = Places(src, pat)
  BY LenProperties, OccurrencesAre DEF HitsTo
<1>3. Range(hits) \subseteq Occurrences
  BY <1>2 DEF HitsTo, Range
<1>4. Occurrences \subseteq 0 .. Len(src) /\ Occurrences \subseteq Nat
  <2>1. Occurrences \subseteq 0 .. Len(src) - Len(pat)
    BY <1>1, <1>2, PlacesNat
  <2> QED BY <2>1, <1>1
<1>5. ASSUME x = Len(src) + 1 PROVE Occurrences \subseteq Range(hits)
  <2> SUFFICES ASSUME NEW o \in Occurrences PROVE o \in Range(hits)
    OBVIOUS
  <2>1. o < x
    BY <1>1, <1>4, <1>5
  <2>2. \E k \in 1 .. Len(hits) : hits[k] = o
    BY <2>1, <1>2 DEF HitsTo
  <2> QED BY <2>2, <1>2 DEF Range
<1> QED BY <1>3, <1>4, <1>5

LEMMA InvExact == StringsInv => StringsExact
<1> SUFFICES ASSUME StringsInv PROVE StringsExact
  OBVIOUS
<1> USE DEF StringsInv
<1>1. /\ TextInv /\ src \in Seq(Char) /\ pat \in Seq(Char) /\ pat # <<>>
      /\ Len(src) \in Nat /\ Len(pat) \in Nat \ {0}
  BY Texts, EmptySeq
<1>2. CASE pc = "table"
  <2>1. i \in 0 .. Len(src) + Len(pat) /\ j \in 0 .. Len(pat)
    BY <1>1, <1>2 DEF TableInv
  <2>2. Range(hits) \subseteq 0 .. Len(src)
    BY <1>2 DEF TableInv, Range
  <2> QED BY <1>1, <1>2, <2>1, <2>2
          DEF StringsExact, SplitExact, ReplExact, StringsTypeOK, TextInv
<1>3. CASE pc = "search"
  <2>1. i \in 0 .. Len(src) + Len(pat) /\ j \in 0 .. Len(pat) /\ j < Len(pat)
    BY <1>1, <1>3 DEF SearchInv
  <2>2. Range(hits) \subseteq 0 .. Len(src)
    BY <1>1, <1>3, HitsRange DEF SearchInv
  <2> QED BY <1>1, <1>3, <2>1, <2>2
          DEF StringsExact, SplitExact, ReplExact, StringsTypeOK, TextInv
<1>4. CASE pc \in {"null", "cut", "tokens", "crashed"}
  <2>1. HitsTo(hits, src, pat, Len(src) + 1) /\ i \in 0 .. Len(hits) + 1 /\ j \in 0 .. Len(pat)
        /\ (pc = "crashed" => \E k, l \in Occurrences : k < l /\ l < k + Len(pat))
    BY <1>4 DEF CutInv
  <2>2. Len(hits) <= Len(src) /\ Len(hits) \in Nat
    BY ONLY <1>1, <2>1, Ascending
  <2>3. i \in 0 .. Len(src) + Len(pat)
    BY ONLY <1>1, <2>1, <2>2
  <2>4. Range(hits) = Occurrences /\ Range(hits) \subseteq 0 .. Len(src)
    BY <1>1, <2>1, HitsRange
  <2>5. \A k \in 1 .. Len(hits) - 1 : hits[k] < hits[k + 1]
    BY <2>1 DEF HitsTo
  <2>6. pc = "tokens" => Joined = src
    BY TokensJoin
  <2> QED BY ONLY <1>1, <1>4, <2>1, <2>3, <2>4, <2>5, <2>6
          DEF StringsExact, SplitExact, ReplExact, StringsTypeOK, TextInv, Ended
<1>5. CASE pc \in {"repl", "expand", "replaced"}
  <2>1. i \in 0 .. Len(src) + Len(pat) /\ j \in 0 .. Len(pat)
        /\ Len(out) + 1 <= (IF room = MaxLen THEN MaxLen ELSE room + 1)
        /\ (pc = "replaced" => out = Replaced[0])
    BY <1>1, <1>5 DEF ReplaceInv
  <2>2. Range(hits) \subseteq 0 .. Len(src)
    BY <1>5 DEF ReplaceInv, Range
  <2> QED BY ONLY <1>1, <1>5, <2>1, <2>2
          DEF StringsExact, SplitExact, ReplExact, StringsTypeOK, TextInv, Ended
<1> QED BY <1>2, <1>3, <1>4, <1>5 DEF Ended

LEMMA StringsInductive == StringsSpec => []StringsInv
BY InitStrings, StringsStep, PTL DEF StringsSpec

\* Whatever the strings: a separator whose table of borders comes to an end is found
\* at every place, in ascending order and once each; the tokens rstr_split returns
\* joined by it are the string again, and only overlapping places make it run off
\* the string; rstr_repl returns the string with the leftmost places replaced, in a
\* block that has room for it, however often it was doubled.
THEOREM StringsAreExact == StringsSpec => []StringsExact
BY StringsInductive, InvExact, PTL

-----------------------------------------------------------------------------
(* Which separators a search ever comes to.                                *)

\* The first character of p does not come again before offset d, and from there
\* on p repeats itself.
RepeatsFrom(p, d) ==
  /\ \A k \in 1 .. d - 1 : p[k + 1] # p[1]
  /\ \A k \in d .. Len(p) - 1 : p[k + 1] = p[(k - d) + 1]

SearchesRepeating == pc \in {"search", "null", "cut", "tokens", "crashed"} =>
  \E d \in 1 .. Len(pat) : RepeatsFrom(pat, d)

LEMMA RepeatingStep ==
  ASSUME StringsInv, SearchesRepeating, [StringsNext]_stringVars
  PROVE  SearchesRepeating'
<1>1. CASE TableReady
  <2>1. Len(pat) \in Nat /\ i \in 1 .. Len(pat) /\ i = Len(pat)
    BY <1>1, Texts DEF TableReady, StringsInv, TableInv
  <2>2. Tabled(pat, borders, Len(pat), i - j)
    BY <1>1, <2>1 DEF TableReady, StringsInv, TableInv
  <2>3. \E d \in 1 .. Len(pat) : RepeatsFrom(pat, d)
    BY <2>2 DEF Tabled, RepeatsFrom
  <2> QED BY <1>1, <2>3 DEF TableReady, SearchesRepeating, strings
<1>2. CASE TableMatch \/ TableMismatch \/ Replace \/ Expand
  <2>1. pc' \notin {"search", "null", "cut", "tokens", "crashed"}
    BY <1>2 DEF TableMatch, TableMismatch, Replace, Expand, CopyPiece
  <2> QED BY <2>1 DEF SearchesRepeating
<1>3. CASE Search \/ Searched \/ Cut \/ UNCHANGED stringVars
  <2>1. pat' = pat /\ (pc \in {"search", "null", "cut", "tokens", "crashed"} \/ pc' = pc)
    BY <1>3 DEF Search, Searched, Cut, strings, stringVars
  <2> QED BY <2>1 DEF SearchesRepeating
<1> QED BY <1>1, <1>2, <1>3 DEF StringsNext

\* rstr_split begins to search, and so returns, for such separators only.  For every
\* other one _kmp_next_array_init appends to its table for ever: at a mismatch behind
\* a border neither of its cursors moves.
THEOREM OthersNeverReturn == StringsSpec => []SearchesRepeating
<1>1. StringsInit => SearchesRepeating
  BY DEF StringsInit, SearchesRepeating
<1>2. StringsInv /\ SearchesRepeating /\ [StringsNext]_stringVars => SearchesRepeating'
  BY RepeatingStep
<1> QED BY <1>1, <1>2, StringsInductive, PTL DEF StringsSpec
==============================================================================
