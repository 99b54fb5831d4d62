----------------------------- MODULE MC_RString -----------------------------
(***************************************************************************)
(* Strings over two characters: sources of up to five, patterns of up to   *)
(* four, replacements of up to two, and a first block of two bytes, so     *)
(* that a replacement needs none, one or several doublings.                *)
(***************************************************************************)
EXTENDS RString

CONSTANT SourceLen

MCChar == {"a", "b"}
Strings(lo, hi) == UNION {[1 .. n -> MCChar] : n \in lo .. hi}

MCSource == Strings(0, SourceLen)
MCFresh == Strings(0, 2)

AllPatterns == Strings(1, 4)

\* The patterns whose table _kmp_next_array_init finishes: from where their
\* first character comes again, they repeat themselves up to the end.
Repeats(p) == {k \in 2 .. Len(p) : p[k] = p[1]}
TablePatterns ==
  {p \in AllPatterns :
     Repeats(p) # {} =>
       LET k == CHOOSE k \in Repeats(p) : \A l \in Repeats(p) : k <= l
       IN  \A l \in k .. Len(p) : p[l] = p[l - k + 1]}
=============================================================================
