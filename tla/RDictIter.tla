----------------------------- MODULE RDictIter ------------------------------
(***************************************************************************)
(* An rdict_iterator_t over an RDict.  The dictionary does not know the    *)
(* iterators over it: rdict.h warns that a rehash invalidates them, and    *)
(* nothing says what a removal does.  Here one caller holds one iterator   *)
(* and calls the dictionary between its rdict_next.                        *)
(***************************************************************************)
EXTENDS RDict

VARIABLE iter  \* phase: what it.next points at; pos: the slot, in phase "in"
               \* seen, returned: the keys rdict_next returned, and how many
               \* touched: what was done to the dictionary since rdict_it

itVars == <<vars, iter>>

NoIter == [phase |-> "none", pos |-> 0, seen |-> {}, returned |-> 0, touched |-> {}]

StoredKeys == KeysOf(table, nullEntry)

IterInit == Init /\ iter = NoIter

-----------------------------------------------------------------------------
(* What a step of the dictionary does to an iterator the caller holds: a   *)
(* new table leaves it.entry dangling, and so does a change of entry_null  *)
(* before the first rdict_next, which compares it.next with entry_null.    *)

Dangles == \/ buckets' # buckets
           \/ iter.phase = "start" /\ (nullEntry = Empty) # (nullEntry = Empty)'

Touched == {how \in {"add", "remove"} :
              IF how = "add" THEN ~ StoredKeys' \subseteq StoredKeys
                             ELSE ~ StoredKeys \subseteq StoredKeys'}

DictStep ==
  /\ Next
  /\ iter' = IF ~live' THEN NoIter
             ELSE [iter EXCEPT
                     !.touched = IF iter.phase = "none" THEN @ ELSE @ \cup Touched,
                     !.phase = IF @ \in {"start", "in", "done"} /\ Dangles
                               THEN "stale" ELSE @]

-----------------------------------------------------------------------------
(* rdict_it and rdict_next                                                 *)

IterOpen ==
  /\ Ready /\ iter.phase # "start"
  /\ iter' = [NoIter EXCEPT !.phase = "start"]
  /\ UNCHANGED vars

Yield(k, v, pos) ==
  /\ iter' = [iter EXCEPT !.phase = "in", !.pos = pos,
                          !.seen = @ \cup {k}, !.returned = @ + 1]
  /\ ret' = Answer("next", k, v)
  /\ UNCHANGED <<dict, live, call, wild>>

NextNullKey ==
  /\ Ready /\ iter.phase = "start" /\ nullEntry # Empty
  /\ Yield(Null, nullEntry.value, 0)

\* it->next walks the slots: the one it stands on, or else the first slot of
\* a later bucket that holds a key.
Scanning == /\ Ready
            /\ iter.phase = "in" \/ (iter.phase = "start" /\ nullEntry = Empty)
\* Mutant: the last bucket is never looked at.
Candidates_ShortWalk == {i \in Occupied(table) :
                 \/ i = iter.pos
                 \/ (i > iter.pos /\ i % BucketCapacity = 0
                                  /\ i < Capacity - BucketCapacity)}

Candidates == {i \in Occupied(table) :
                 \/ i = iter.pos
                 \/ (i > iter.pos /\ i % BucketCapacity = 0 /\ i < Capacity - 1)}

NextItem ==
  /\ Scanning /\ buckets > 0
  /\ \E i \in Candidates :
       /\ \A j \in Candidates : i <= j
       /\ Yield(table[i].key, table[i].value, i + 1)

NextEnd ==
  /\ Scanning /\ buckets > 0 /\ Candidates = {}
  /\ iter' = [iter EXCEPT !.phase = "done", !.pos = 0]
  /\ ret' = Answer("end", Null, Null)
  /\ UNCHANGED <<dict, live, call, wild>>

\* The table that rdict_create did not get, or that a rehash freed.
NextWild == /\ Ready
            /\ \/ iter.phase = "stale" /\ Break("stale_iterator")
               \/ Scanning /\ buckets = 0 /\ Break("no_table")
            /\ UNCHANGED iter

IterNext == DictStep \/ IterOpen \/ NextNullKey \/ NextItem \/ NextEnd \/ NextWild

IterSpec == IterInit /\ [][IterNext]_itVars

-----------------------------------------------------------------------------
(* Properties                                                              *)

IterTypeOK ==
  iter \in [phase : {"none", "start", "in", "done", "stale"}, pos : 0 .. Capacity,
            seen : SUBSET (Key \cup {Null}), returned : Nat,
            touched : SUBSET {"add", "remove"}]

\* An iteration nothing changed answers NULL only after it returned every
\* key, each of them once (rdict_next jumps from bucket to bucket, and returns
\* the entry of the NULL key first).  Removals on the way may hide entries from
\* it (the last entry of a bucket moves into a slot already passed) but never
\* show one twice.
IterationSound ==
  /\ IterTypeOK
  /\ (iter.phase = "done" /\ iter.touched = {})
       => iter.seen = StoredKeys /\ iter.returned = Cardinality(StoredKeys)
  /\ "add" \notin iter.touched => iter.returned = Cardinality(iter.seen)
=============================================================================
