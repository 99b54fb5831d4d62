------------------------------ MODULE RString -------------------------------
(***************************************************************************)
(* Splitting and replacing in rbase/common (rstring.c).  rstr_split finds  *)
(* the separator with a Knuth-Morris-Pratt search, whose table of borders  *)
(* and whose hits are kept in growing arrays; rstr_repl copies piece by    *)
(* piece into a block that starts on the stack and is doubled on demand.   *)
(* A behaviour is one call, of either function, for one choice of strings. *)
(***************************************************************************)
EXTENDS Integers, Sequences, Functions

Seqs == INSTANCE SequencesExt

CONSTANTS Char,      \* the characters but '\0'
          Source,    \* the strings searched in
          Pattern,   \* the separators, or the strings to replace
          Fresh,     \* what rstr_repl puts in their place
          MaxLen,    \* max_len of rstr_repl, 256 in the code
          MaxTable   \* bound: entries of the table that are told apart

NUL == "end"         \* rstr_end, the '\0' behind the last character

\* An empty separator or old string makes both loops stand still.  The bound on
\* the table cuts only a table that is never finished.
ASSUME StringsAssumption ==
  /\ Source \cup Pattern \cup Fresh \subseteq Seq(Char) /\ NUL \notin Char
  /\ <<>> \notin Pattern
  /\ MaxLen \in Nat \ {0}
  /\ MaxTable \in Nat /\ \A p \in Pattern : Len(p) <= MaxTable

VARIABLES pc,     \* "table", "search", "cut", "repl", "expand", then how the call ended
          src, pat, new,
          i, j,   \* the cursors of the search; of the table, i and its length
          borders,  \* array_key
          hits,   \* array_ret
          out,    \* the tokens, or the characters copied so far
          room    \* max_len * expand_count

strings == <<src, pat, new>>
stringVars == <<pc, src, pat, new, i, j, borders, hits, out, room>>

-----------------------------------------------------------------------------
At(s, k) == IF k < Len(s) THEN s[k + 1] ELSE NUL            \* s[k] in C
Found(s, k) == SubSeq(s, k + 1, k + Len(pat)) = pat         \* pat at offset k
Occurrences == {k \in 0 .. Len(src) - Len(pat) : Found(src, k)}
\* rarray_at: NULL, read as 0, behind the block; the block is zeroed
Border(k) == IF k + 1 \in DOMAIN borders THEN borders[k + 1] ELSE 0
Grown(e) == IF Len(borders) < MaxTable THEN Append(borders, e) ELSE borders

StringsInit == /\ src \in Source
        /\ pat \in Pattern
        /\ \/ pc = "table" /\ new = <<>> /\ i = 1 /\ borders = <<0>>
           \/ pc = "repl" /\ new \in Fresh /\ i = 0 /\ borders = <<>>
        /\ j = 0
        /\ hits = <<>>
        /\ out = <<>>
        /\ room = MaxLen

-----------------------------------------------------------------------------
(* _kmp_next_array_init; j is its `length`.                                *)

TableMatch ==
  /\ pc = "table" /\ i < Len(pat)
  /\ At(pat, i) = At(pat, j)
  /\ j' = j + 1
  /\ borders' = Grown(j')
  /\ i' = i + 1
  /\ UNCHANGED <<pc, strings, hits, out, room>>

\* Neither `length` nor `i` moves when the border is not empty.
TableMismatch ==
  /\ pc = "table" /\ i < Len(pat)
  /\ At(pat, i) # At(pat, j)
  /\ borders' = Grown(IF j # 0 THEN j - 1 ELSE 0)
  /\ i' = IF j # 0 THEN i ELSE i + 1
  /\ UNCHANGED <<pc, strings, j, hits, out, room>>

TableReady ==
  /\ pc = "table" /\ i >= Len(pat)
  /\ pc' = "search" /\ i' = 0 /\ j' = 0
  /\ UNCHANGED <<strings, borders, hits, out, room>>

-----------------------------------------------------------------------------
(* The loop of _kmp_search: one turn.  rstr_split asks for every hit.      *)

Same == At(pat, j) = At(src, i)

\* Where the search goes on after a hit that ends in front of character n
AfterHit(n) == Border(n - 1)

\* Mutant: the search compares the same two characters again.
FallBack_Stay(j1) == j1

\* How much of the pattern still matches when its character j1 does not
FallBack(j1) == Border(j1 - 1)

HitAt(i1, j1) == i1 - j1

SearchHit(i1, j1) ==
  /\ hits' = Append(hits, HitAt(i1, j1))
  /\ i' = i1
  /\ j' = AfterHit(j1)

SearchMiss(i1, j1) ==
  /\ hits' = hits
  /\ IF i1 < Len(src) /\ At(pat, j1) # At(src, i1)
     THEN IF j1 # 0 THEN i' = i1 /\ j' = FallBack(j1)
                    ELSE i' = i1 + 1 /\ j' = j1
     ELSE i' = i1 /\ j' = j1

Search ==
  /\ pc = "search" /\ i < Len(src)
  /\ LET d == IF Same THEN 1 ELSE 0
     IN  IF j + d = Len(pat) THEN SearchHit(i + d, j + d)
                             ELSE SearchMiss(i + d, j + d)
  /\ UNCHANGED <<pc, strings, borders, out, room>>

Searched ==
  /\ pc = "search" /\ i >= Len(src)
  /\ pc' = IF hits = <<>> THEN "null" ELSE "cut"
  /\ i' = 0
  /\ UNCHANGED <<strings, j, borders, hits, out, room>>

-----------------------------------------------------------------------------
(* rstr_split: token i lies between hit i-1 and hit i.  rstr_sub is given  *)
(* its length as a size_t, so a hit that overlaps the one before asks for  *)
(* nearly 2^64 characters; the sum in its range check wraps back into the  *)
(* string and the copy runs off the end of memory.                         *)

From == IF i = 0 THEN 0 ELSE hits[i] + Len(pat)
To == IF i < Len(hits) THEN hits[i + 1] ELSE Len(src)

Cut ==
  /\ pc = "cut" /\ i <= Len(hits)
  /\ IF From <= To
     THEN /\ out' = Append(out, SubSeq(src, From + 1, To))
          /\ i' = i + 1
          /\ pc' = IF i' > Len(hits) THEN "tokens" ELSE pc
     ELSE pc' = "crashed" /\ UNCHANGED <<out, i>>
  /\ UNCHANGED <<strings, j, borders, hits, room>>

-----------------------------------------------------------------------------
(* rstr_repl; i is how far `src` has been moved on.  While room is MaxLen  *)
(* the block is buf[256] itself, then it is room + 1 bytes of the heap.    *)

\* Mutant: a full block is taken for one that still has room.
HasRoom_Equal(n) == n <= room

HasRoom(n) == n < room

NextFound == {k \in Occurrences : k >= i}          \* rstr_index(src, old_str)
Place == CHOOSE k \in NextFound : \A l \in NextFound : k <= l

\* What is copied next: up to a place and the string put there, or the rest
Piece == IF NextFound # {} THEN SubSeq(src, i + 1, Place) \o new ELSE SubSeq(src, i + 1, Len(src))
Needed == Len(out) + Len(Piece)
Kept(piece) == out \o piece

CopyPiece ==
  /\ out' = Kept(Piece)
  /\ IF NextFound # {} THEN i' = Place + Len(pat) /\ pc' = "repl"
                       ELSE i' = i /\ pc' = "replaced"

\* One turn, or the end; a rest that is empty is not copied.
Replace ==
  /\ pc = "repl"
  /\ \/ NextFound = {} /\ Piece = <<>> /\ pc' = "replaced" /\ UNCHANGED <<i, out>>
     \/ (NextFound # {} \/ Piece # <<>>) /\ HasRoom(Needed) /\ CopyPiece
     \/ (NextFound # {} \/ Piece # <<>>) /\ ~HasRoom(Needed) /\ pc' = "expand" /\ UNCHANGED <<i, out>>
  /\ UNCHANGED <<strings, j, borders, hits, room>>

\* One turn of the loop that doubles expand_count, and the copy behind it
Expand ==
  /\ pc = "expand"
  /\ room' = 2 * room
  /\ IF 2 * room < Needed THEN UNCHANGED <<pc, i, out>> ELSE CopyPiece
  /\ UNCHANGED <<strings, j, borders, hits>>

-----------------------------------------------------------------------------
StringsNext == \/ TableMatch \/ TableMismatch \/ TableReady
        \/ Search \/ Searched \/ Cut
        \/ Replace \/ Expand

\* The calling thread runs on.
StringsFair == WF_stringVars(StringsNext)
StringsSpec == StringsInit /\ [][StringsNext]_stringVars /\ StringsFair

-----------------------------------------------------------------------------
Ended == {"null", "tokens", "crashed", "replaced"}

StringsTypeOK ==
  /\ pc \in {"table", "search", "cut", "repl", "expand"} \cup Ended
  /\ src \in Source /\ pat \in Pattern
  /\ i \in 0 .. Len(src) + Len(pat)
  /\ j \in 0 .. Len(pat) /\ (pc = "search" => j < Len(pat))
  /\ Len(borders) <= MaxTable + 1
  /\ Range(hits) \subseteq 0 .. Len(src)

\* rstr_concat_array(out, pat, false)
Joined == Seqs!FlattenSeq([k \in DOMAIN out |->
            IF k < Len(out) THEN out[k] \o pat ELSE out[k]])

\* Every place where the separator occurs is found, overlapping ones too, in
\* ascending order and once each.  The tokens put together again with the separator
\* are the string that was split (rtest_rstring.c:77), and only overlapping places
\* keep rstr_split from returning them.
SplitExact == pc # "unused" =>
  /\ StringsTypeOK
  /\ pc \in {"null", "cut", "tokens"} =>
       /\ Range(hits) = Occurrences
       /\ \A k \in 1 .. Len(hits) - 1 : hits[k] < hits[k + 1]
  /\ pc = "tokens" => Joined = src
  /\ pc = "crashed" => \E k, l \in Occurrences : k < l /\ l < k + Len(pat)

\* The leftmost non-overlapping places, from offset k on, replaced
Replaced[k \in 0 .. Len(src)] ==
  IF k = Len(src) THEN <<>>
  ELSE IF k \in Occurrences THEN new \o Replaced[k + Len(pat)]
  ELSE <<src[k + 1]>> \o Replaced[k + 1]

\* rstr_repl returns the string with every place replaced, whatever doublings of
\* the block it needed on the way, and the characters with the rstr_end behind
\* them fit in the block: MaxLen bytes while it is the one on the stack, else
\* room + 1.
ReplExact ==
  /\ pc = "replaced" => out = Replaced[0]
  /\ pc \in {"repl", "expand", "replaced"} =>
       Len(out) + 1 <= IF room = MaxLen THEN MaxLen ELSE room + 1

\* Both calls, on every string and pattern.
StringsExact == SplitExact /\ ReplExact

\* A call comes back, whatever the strings, once the table is one that
\* _kmp_next_array_init finishes.
Returns == (pc \in {"table", "repl"}) ~> (pc \in Ended)

\* What rtest_rstring.c:77-78 asserts of rstr_split, for any separator: it
\* returns, and the tokens joined by the separator are the string again.
SplitRoundTrip ==
  (pc = "table") ~> (pc = "null" \/ (pc = "tokens" /\ Joined = src))
=============================================================================
