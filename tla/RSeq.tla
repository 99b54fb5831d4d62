-------------------------------- MODULE RSeq --------------------------------
(***************************************************************************)
(* What a dynamic array promises: a sequence that grows at its end and     *)
(* closes up when an element is taken out.  RArray implements this module. *)
(***************************************************************************)
EXTENDS Integers, Sequences, SequencesExt

CONSTANTS Elem, MaxSize

VARIABLES seq,
          ret    \* what the last call returned

vars == <<seq, ret>>

Init == seq = <<>> /\ ret = "ok"

Append1(e) == /\ Len(seq) < MaxSize
              /\ seq' = Append(seq, e)
              /\ ret' = "ok"

\* The first of several equal elements goes.
Remove1(e) == IF Contains(seq, e)
              THEN seq' = RemoveFirst(seq, e) /\ ret' = "ok"
              ELSE seq' = seq /\ ret' = "not_exist"

RemoveNth(n) == IF n \in DOMAIN seq
                THEN seq' = RemoveAt(seq, n) /\ ret' = "ok"
                ELSE seq' = seq /\ ret' = "out4_size"

Empty == seq' = <<>> /\ ret' = "ok"

Next == \/ \E e \in Elem : Append1(e) \/ Remove1(e)
        \/ \E n \in 1 .. MaxSize + 1 : RemoveNth(n)
        \/ Empty

Spec == Init /\ [][Next]_vars
=============================================================================
