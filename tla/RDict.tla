------------------------------- MODULE RDict --------------------------------
(***************************************************************************)
(* The dictionary of rbase/common (rdict.c, rdict.h): one array of         *)
(* `buckets` buckets of BucketCapacity slots each.  A key lives in the     *)
(* bucket its hash selects; the entries of a bucket are meant to fill a    *)
(* prefix of its slots.  The NULL key has an entry of its own.             *)
(*                                                                         *)
(* rdict_add calls itself after every expansion and _expand_buckets calls  *)
(* rdict_expand when a bucket overflows while it is being refilled.  That  *)
(* recursion is the control state `call`: no other call can come between.  *)
(***************************************************************************)
EXTENDS Integers, FiniteSets

CONSTANTS Key,             \* the non-NULL keys callers use
          Value,           \* the values callers store
          Null,            \* the NULL pointer
          Hash,            \* d->hash_func
          BucketCapacity,  \* d->bucket_capacity
          InitCapacity,    \* the capacity handed to rdict_create
          HillCapacity,    \* rdict_hill_expand_capacity
          HillAdd,         \* rdict_hill_add_capacity
          MaxCapacity      \* bound: calloc of more slots than this fails

ASSUME KeyAssumption == Null \notin Key /\ Null \notin Value
ASSUME HashAssumption == Hash \in [Key -> Nat]
ASSUME SizeAssumption == /\ BucketCapacity \in Nat \ {0}
                         /\ InitCapacity \in Nat \ {0}
                         /\ HillCapacity \in Nat
                         /\ HillAdd \in Nat \ {0}
                         /\ MaxCapacity \in Nat

VARIABLES table,      \* d->entry: slot -> entry
          buckets,    \* d->buckets; 0 when rdict_create got no table
          size,       \* d->size
          live,       \* between rdict_create and rdict_release
          nullEntry,  \* d->entry_null: Empty when there is none
          call,       \* the rdict_add that is running, or none
          ret,        \* what the last call was asked and answered
          wild        \* the memory access that broke the contract, "none" so far

dict == <<table, buckets, size, nullEntry>>
vars == <<dict, live, call, ret, wild>>

-----------------------------------------------------------------------------
(* Entries, slots and buckets.                                             *)

Entry == [key : Key, value : Value]
Empty == [key |-> Null, value |-> Null]
NullKeyEntry == [key : {Null}, value : Value]

Occupied(t) == {i \in DOMAIN t : t[i].key # Null}

\* _find_bucket and _find_bucket_raw: the first slot of the bucket of k
\* in a table of n buckets
Home(k, n) == (Hash[k] % n) * BucketCapacity
Bucket(k, n) == Home(k, n) .. Home(k, n) + BucketCapacity - 1

Capacity == buckets * BucketCapacity

\* The loop of rdict_add and rdict_find: from the bucket of k up to the first
\* slot that is empty or holds k.  Nothing stops it at the end of the
\* bucket; Capacity stands for the first slot past the table.
ScanStops(k, i) ==
  /\ i \in Home(k, buckets) .. Capacity
  /\ i < Capacity => table[i].key \in {Null, k}
  /\ \A j \in Home(k, buckets) .. i - 1 : table[j].key \notin {Null, k}

\* The loop of rdict_remove never leaves the bucket.
Holds(k, i) ==
  /\ i \in Bucket(k, buckets)
  /\ table[i].key = k
  /\ \A j \in Home(k, buckets) .. i - 1 : table[j].key # Null

-----------------------------------------------------------------------------
(* Refilling: _expand_buckets copies the old table slot by slot into n new *)
(* buckets, each entry into the first free slot of its new bucket.         *)

\* The refill leaves a bucket at the first slot without a key.
Walked == {i \in DOMAIN table :
             \A j \in (i \div BucketCapacity) * BucketCapacity .. i :
               table[j].key # Null}

\* How many entries are copied into the new bucket of slot i before slot i is.
Rank(i, n) == Cardinality({j \in Walked :
                 j < i /\ Home(table[j].key, n) = Home(table[i].key, n)})

Target(i, n) == Home(table[i].key, n) + Rank(i, n)

\* Mutant: the bound of the refill is off by one.
Fits_OffByOne(n) == \A i \in Walked : Rank(i, n) <= BucketCapacity

Fits(n) == \A i \in Walked : Rank(i, n) < BucketCapacity

Refilled(n) ==
  [s \in 0 .. n * BucketCapacity - 1 |->
     IF \E i \in Walked : Target(i, n) = s
     THEN table[CHOOSE i \in Walked : Target(i, n) = s]
     ELSE Empty]

\* scale_factor 0.75
Scaled(c) == (c * 4) \div 3
BucketCount(c) == (Scaled(c) + BucketCapacity - 1) \div BucketCapacity

\* rdict_expand: double below the hill, grow linearly above it
Expanded(c) == IF c < HillCapacity THEN 2 * c ELSE c + HillAdd

-----------------------------------------------------------------------------
NoCall == [key |-> Null, value |-> Null, want |-> 0]
Ready == live /\ call = NoCall /\ wild = "none"

\* The answer of a call, with the key and the value it was called with or
\* gives back.  The code says which call it was, besides what it returns.
Codes == {"ok", "added", "error", "removed", "not_exist", "item", "null", "next", "end"}
Answers == [code : Codes, key : Key \cup {Null}, value : Value \cup {Null}]
Answer(code, k, v) == [code |-> code, key |-> k, value |-> v]
Ok == Answer("ok", Null, Null)

Break(how) == /\ wild' = how
              /\ UNCHANGED <<dict, live, call, ret>>

\* rdict_create, whose table comes from _expand_buckets.  The result of that
\* call is ignored: when calloc fails the dictionary has no bucket.
FirstBuckets == {BucketCount(InitCapacity), 0}
NewTable(n) == [s \in 0 .. n * BucketCapacity - 1 |-> Empty]

Init == /\ buckets \in FirstBuckets
        /\ table = NewTable(buckets)
        /\ size = 0
        /\ nullEntry = Empty
        /\ live = TRUE
        /\ call = NoCall
        /\ ret = Ok
        /\ wild = "none"

Create == /\ ~live /\ wild = "none"
          /\ buckets' \in FirstBuckets
          /\ table' = NewTable(buckets')
          /\ size' = 0
          /\ nullEntry' = Empty
          /\ live' = TRUE
          /\ ret' = Ok
          /\ UNCHANGED <<call, wild>>

-----------------------------------------------------------------------------
(* rdict_add                                                               *)

AddNullKey(v) ==
  /\ Ready
  /\ size' = IF nullEntry = Empty THEN size + 1 ELSE size
  /\ nullEntry' = [key |-> Null, value |-> v]
  /\ ret' = Answer("added", Null, v)
  /\ UNCHANGED <<table, buckets, live, call, wild>>

AddCall(k, v) ==
  /\ Ready
  /\ call' = [key |-> k, value |-> v, want |-> 0]
  /\ UNCHANGED <<dict, live, ret, wild>>

Adding == call.key # Null /\ call.want = 0 /\ wild = "none"

\* hash % 0: rdict_create got no table
AddNoTable == /\ Adding /\ buckets = 0
              /\ Break("no_table")

AddPastEnd == /\ Adding /\ buckets > 0
              /\ ScanStops(call.key, Capacity)
              /\ Break("past_end")

\* entry_cur >= entry_start + bucket_capacity - 1
NoRoom(i) == i >= Home(call.key, buckets) + BucketCapacity - 1

AddNoRoom ==
  /\ Adding /\ buckets > 0
  /\ \E i \in DOMAIN table : ScanStops(call.key, i) /\ NoRoom(i)
  /\ call' = [call EXCEPT !.want = Expanded(Capacity)]
  /\ UNCHANGED <<dict, live, ret, wild>>

\* Mutant: an overwrite counts as a new entry.
AddStore_CountAll ==
  /\ Adding /\ buckets > 0
  /\ \E i \in DOMAIN table :
       /\ ScanStops(call.key, i) /\ ~NoRoom(i)
       /\ table' = [table EXCEPT ![i] = [key |-> call.key, value |-> call.value]]
  /\ size' = size + 1
  /\ call' = NoCall
  /\ ret' = Answer("added", call.key, call.value)
  /\ UNCHANGED <<buckets, nullEntry, live, wild>>

AddStore ==
  /\ Adding /\ buckets > 0
  /\ \E i \in DOMAIN table :
       /\ ScanStops(call.key, i) /\ ~NoRoom(i)
       /\ table' = [table EXCEPT ![i] = [key |-> call.key, value |-> call.value]]
       /\ size' = IF table[i].key = Null THEN size + 1 ELSE size
  /\ call' = NoCall
  /\ ret' = Answer("added", call.key, call.value)
  /\ UNCHANGED <<buckets, nullEntry, live, wild>>

Expanding == call.key # Null /\ call.want > 0
HasMemory == BucketCount(call.want) * BucketCapacity <= MaxCapacity

\* Mutant: a failed calloc is tried again.
ExpandNoMemory_Retry == Expanding /\ UNCHANGED vars

\* calloc answers NULL: the old table stays, the new entry is lost
ExpandNoMemory ==
  /\ Expanding
  /\ call' = NoCall
  /\ ret' = Answer("error", call.key, Null)
  /\ UNCHANGED <<dict, live, wild>>

ExpandOverflow ==
  /\ Expanding /\ HasMemory
  /\ ~Fits(BucketCount(call.want))
  /\ call' = [call EXCEPT !.want = Expanded(2 * Scaled(call.want))]
  /\ UNCHANGED <<dict, live, ret, wild>>

ExpandRefill ==
  /\ Expanding /\ HasMemory
  /\ LET n == BucketCount(call.want)
     IN  /\ Fits(n)
         /\ table' = Refilled(n)
         /\ buckets' = n
  /\ call' = [call EXCEPT !.want = 0]
  /\ UNCHANGED <<size, nullEntry, live, ret, wild>>

AddStep == \/ AddNoTable \/ AddPastEnd \/ AddNoRoom \/ AddStore
           \/ ExpandNoMemory \/ ExpandOverflow \/ ExpandRefill

-----------------------------------------------------------------------------
(* rdict_remove, rdict_find, rdict_clear, rdict_release                    *)

NoTable == /\ Ready /\ buckets = 0
           /\ Break("no_table")

\* Mutant: the entry of the NULL key is not looked at before it is removed.
RemoveNullKey_Unchecked ==
  /\ Ready
  /\ size' = size - 1
  /\ nullEntry' = Empty
  /\ ret' = Answer("removed", Null, Null)
  /\ UNCHANGED <<table, buckets, live, call, wild>>

RemoveNullKey ==
  /\ Ready
  /\ size' = IF nullEntry = Empty THEN size ELSE size - 1
  /\ nullEntry' = Empty
  /\ ret' = Answer("removed", Null, Null)
  /\ UNCHANGED <<table, buckets, live, call, wild>>

\* Mutant: nothing moves into the hole.
Remove_LeaveHole(k) ==
  /\ Ready /\ buckets > 0
  /\ \E i \in Bucket(k, buckets) :
       Holds(k, i) /\ table' = [table EXCEPT ![i] = Empty]
  /\ size' = size - 1
  /\ ret' = Answer("removed", k, Null)
  /\ UNCHANGED <<buckets, nullEntry, live, call, wild>>

\* The last entry of the bucket moves into the hole.
Remove(k) ==
  /\ Ready /\ buckets > 0
  /\ \E i \in Bucket(k, buckets) :
       /\ Holds(k, i)
       /\ \E last \in Bucket(k, buckets) :
            /\ last >= i /\ table[last].key # Null
            /\ \A j \in Bucket(k, buckets) : j > last => table[j].key = Null
            /\ table' = [table EXCEPT ![i] = table[last], ![last] = Empty]
  /\ size' = size - 1
  /\ ret' = Answer("removed", k, Null)
  /\ UNCHANGED <<buckets, nullEntry, live, call, wild>>

RemoveMissing(k) ==
  /\ Ready /\ buckets > 0
  /\ ~ \E i \in Bucket(k, buckets) : Holds(k, i)
  /\ ret' = Answer("not_exist", k, Null)
  /\ UNCHANGED <<dict, live, call, wild>>

FindNullKey ==
  /\ Ready
  /\ ret' = IF nullEntry = Empty THEN Answer("null", Null, Null)
                                 ELSE Answer("item", Null, nullEntry.value)
  /\ UNCHANGED <<dict, live, call, wild>>

Find(k) ==
  /\ Ready /\ buckets > 0
  /\ \E i \in DOMAIN table :
       /\ ScanStops(k, i)
       /\ ret' = IF table[i].key = k THEN Answer("item", k, table[i].value)
                                     ELSE Answer("null", k, Null)
  /\ UNCHANGED <<dict, live, call, wild>>

FindPastEnd(k) ==
  /\ Ready /\ buckets > 0
  /\ ScanStops(k, Capacity)
  /\ Break("past_end")

Emptied == /\ table' = [s \in DOMAIN table |-> Empty]
           /\ size' = 0
           /\ nullEntry' = Empty
           /\ ret' = Ok

Clear ==
  /\ Ready /\ buckets > 0
  /\ Emptied
  /\ UNCHANGED <<buckets, live, call, wild>>

Release ==
  /\ Ready /\ buckets > 0
  /\ Emptied
  /\ live' = FALSE
  /\ UNCHANGED <<buckets, call, wild>>

-----------------------------------------------------------------------------
Next == \/ Create \/ AddStep \/ NoTable \/ RemoveNullKey \/ FindNullKey
        \/ Clear \/ Release
        \/ \E v \in Value : AddNullKey(v) \/ \E k \in Key : AddCall(k, v)
        \/ \E k \in Key : Remove(k) \/ RemoveMissing(k) \/ Find(k) \/ FindPastEnd(k)

Spec == Init /\ [][Next]_vars

\* A call runs to its end: nothing in rdict_add waits.
FairSpec == Spec /\ WF_vars(AddStep)

-----------------------------------------------------------------------------
(* Properties                                                              *)

TypeOK ==
  /\ buckets \in Nat
  /\ table \in [0 .. Capacity - 1 -> Entry \cup {Empty}]
  /\ size \in Nat
  /\ live \in BOOLEAN
  /\ nullEntry \in NullKeyEntry \cup {Empty}
  /\ call \in {NoCall} \cup [key : Key, value : Value, want : Nat]
  /\ ret \in Answers
  /\ wild \in {"none", "past_end", "no_table", "stale_iterator"}

\* Every entry sits in the bucket its key hashes to, whatever sequence of
\* refills and removals moved it there: a lookup starts at that bucket only.
InOwnBucket == \A i \in Occupied(table) : i \in Bucket(table[i].key, buckets)

\* No hole before an entry of a bucket: rdict_find, the refill and
\* rdict_next all stop at the first slot without a key, so an entry behind a
\* hole would be lost ("elements in a bucket stay contiguous", rdict.c:132).
NoHoles == \A i \in Occupied(table) :
             \A j \in Home(table[i].key, buckets) .. i : table[j].key # Null

\* A key has one entry: a refill copies an entry once and rdict_add never
\* stores a second one, so one rdict_remove is enough.
KeysUnique == \A i, j \in Occupied(table) : table[i].key = table[j].key => i = j

\* Together: the walk that every operation begins at the bucket of a key, and
\* ends at the first empty slot, meets the key if and only if it is there.
Placement == InOwnBucket /\ NoHoles /\ KeysUnique

\* d->size counts the entries there are, through overwrites, refills, removals
\* of missing keys and the entry of the NULL key.
SizeExact == size = Cardinality(Occupied(table)) + IF nullEntry = Empty THEN 0 ELSE 1

\* rdict.c:207 says of the loop of rdict_add "the length of the elements in a
\* bucket is limited": the scan would never leave the table.
ScanStaysInTable == wild # "past_end"

\* rdict_add returns: the expansions it triggers end in a table with room for
\* the key or in a calloc that fails.
AddReturns == call # NoCall ~> (call = NoCall \/ wild # "none")

-----------------------------------------------------------------------------
(* The map the dictionary implements: slots forgotten.                     *)

KeysOf(t, e) == {t[i].key : i \in Occupied(t)} \cup IF e = Empty THEN {} ELSE {Null}
SlotOf(k) == CHOOSE i \in Occupied(table) : table[i].key = k
Bindings == [k \in KeysOf(table, nullEntry) |-> IF k = Null THEN nullEntry.value
                                              ELSE table[SlotOf(k)].value]

Map == INSTANCE RDictMap WITH Key <- Key \cup {Null}, map <- Bindings

\* Every call is one step of the map it stands for, with the answer that map
\* gives to the key the call was made with: a key that is bound is found, with
\* its value, and only one that is not is answered with NULL; an expansion,
\* however often it recurses, is no step.
ImplementsMap == Map!Spec

=============================================================================
