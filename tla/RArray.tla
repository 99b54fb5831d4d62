------------------------------- MODULE RArray -------------------------------
(***************************************************************************)
(* The dynamic array of rbase/common (rarray.c, rarray.h): a zeroed block  *)
(* of slots that is doubled when full, and closed up by a shift when an    *)
(* element is removed.  The systems of an ECS context are kept in one.     *)
(***************************************************************************)
EXTENDS Integers, Sequences

CONSTANTS Elem,          \* the values of a slot; Null may be one of them
          Null,          \* a zeroed slot
          InitCapacity,  \* init_capacity of rarray_create
          MaxSize        \* bound: elements at a time

ASSUME ArrayAssumption == /\ InitCapacity \in Nat \ {0}
                          /\ MaxSize \in Nat

VARIABLES items,     \* ar->items
          size,      \* ar->size
          capacity,  \* ar->capacity
          code       \* what the last call returned

arrayVars == <<items, size, capacity, code>>

-----------------------------------------------------------------------------
Zeroed(n) == [k \in 0 .. n - 1 |-> Null]

\* _rarray_alloc: a new block with the elements of the old one
Enlarged(n) == [k \in 0 .. n - 1 |-> IF k < size THEN items[k] ELSE Null]
\* rarray_at, which looks at the capacity and not at the size
Slot(k) == IF k < capacity THEN items[k] ELSE Null
Places(e) == {k \in 0 .. size - 1 : items[k] = e}
Exist(e) == Places(e) # {}                                \* rarray_exist
First(S) == CHOOSE k \in S : \A l \in S : k <= l

\* Mutant: copy_len is one too small
ClosedUp_Short(k) ==
  [l \in DOMAIN items |->
     CASE l \in k .. size - 3 -> items[l + 1]
       [] l = size - 1 -> Null
       [] OTHER -> items[l]]
\* Mutant: the last element is moved into the hole
ClosedUp_Swap(k) == [items EXCEPT ![k] = items[size - 1], ![size - 1] = Null]
\* rarray_remove_value_func: the slots behind k move up, the last is zeroed
ClosedUp(k) ==
  [l \in DOMAIN items |->
     CASE l \in k .. size - 2 -> items[l + 1]
       [] l = size - 1 -> Null
       [] OTHER -> items[l]]

ArrayInit == /\ capacity = InitCapacity
             /\ items = Zeroed(InitCapacity)
             /\ size = 0
             /\ code = "ok"

-----------------------------------------------------------------------------
(* The operations.                                                         *)

ArrayAdd(e) ==
  LET room == IF size >= capacity THEN 2 * capacity ELSE capacity
      block == IF size >= capacity THEN Enlarged(room) ELSE items
  IN  /\ size < MaxSize
      /\ items' = [block EXCEPT ![size] = e]
      /\ capacity' = room
      /\ size' = size + 1
      /\ code' = "ok"

ArrayRemove(e) ==
  /\ IF Exist(e)
     THEN /\ items' = ClosedUp(First(Places(e)))
          /\ size' = size - 1
          /\ code' = "ok"
     ELSE code' = "not_exist" /\ UNCHANGED <<items, size>>
  /\ UNCHANGED capacity

ArrayRemoveAt(k) ==
  /\ IF k < size
     THEN items' = ClosedUp(k) /\ size' = size - 1 /\ code' = "ok"
     ELSE code' = "out4_size" /\ UNCHANGED <<items, size>>
  /\ UNCHANGED capacity

ArrayClear ==
  /\ items' = Zeroed(capacity)
  /\ size' = 0
  /\ code' = "ok"
  /\ UNCHANGED capacity

ArrayNext == \/ \E e \in Elem : ArrayAdd(e) \/ ArrayRemove(e)
             \/ \E k \in 0 .. MaxSize : ArrayRemoveAt(k)
             \/ ArrayClear

ArraySpec == ArrayInit /\ [][ArrayNext]_arrayVars

-----------------------------------------------------------------------------
ArrayTypeOK ==
  /\ capacity \in Nat \ {0}
  /\ items \in [0 .. capacity - 1 -> Elem \cup {Null}]
  /\ size \in 0 .. capacity /\ size <= MaxSize
  /\ code \in {"ok", "not_exist", "out4_size"}

\* No slot behind the last element holds a value: rarray_set_value_func would
\* release what it finds there a second time.
NothingBehind == \A k \in size .. capacity - 1 : items[k] = Null

\* Over growing, shifting and clearing, the slots read by a walk of the array
\* behave as the sequence of RSeq.
Content == [n \in 1 .. size |-> Slot(n - 1)]
Sequence == INSTANCE RSeq WITH seq <- Content, ret <- code
ImplementsSeq == Sequence!Spec
=============================================================================
