------------------------------ MODULE RDictMap ------------------------------
(***************************************************************************)
(* What an rdict_t promises: a finite map from keys to values.  A call     *)
(* either takes effect on the whole map or reports an error and leaves the *)
(* map as it was.  `ret` names the call and the key it was made with, so   *)
(* that the answer to one call never passes for the answer to another: a   *)
(* find of k has no other step than Get(k) or GetMissing(k).               *)
(* RDict implements this module.                                           *)
(***************************************************************************)
CONSTANTS Key,     \* the keys, the NULL key included
          Value,   \* what a key may be bound to
          Null     \* the NULL pointer

VARIABLES map,     \* the bindings
          ret      \* what the last call was asked and answered

vars == <<map, ret>>

Answer(code, k, v) == [code |-> code, key |-> k, value |-> v]
Ok == Answer("ok", Null, Null)

Init == /\ map = <<>>
        /\ ret = Ok

Put(k, v) == /\ map' = [x \in DOMAIN map \cup {k} |-> IF x = k THEN v ELSE map[x]]
             /\ ret' = Answer("added", k, v)

\* No memory for a larger table
PutFails(k) == /\ map' = map
               /\ ret' = Answer("error", k, Null)

Del(k) == /\ k \in DOMAIN map \/ k = Null
          /\ map' = [x \in DOMAIN map \ {k} |-> map[x]]
          /\ ret' = Answer("removed", k, Null)

DelMissing(k) == /\ k \notin DOMAIN map
                 /\ map' = map
                 /\ ret' = Answer("not_exist", k, Null)

Get(k) == /\ k \in DOMAIN map
          /\ map' = map
          /\ ret' = Answer("item", k, map[k])

GetMissing(k) == /\ k \notin DOMAIN map
                 /\ map' = map
                 /\ ret' = Answer("null", k, Null)

\* An iterator shows a binding there is, or says that it is done; in which
\* order and how often is not for the map to say.
Visit(k) == /\ k \in DOMAIN map
            /\ map' = map
            /\ ret' = Answer("next", k, map[k])

VisitEnd == /\ map' = map
            /\ ret' = Answer("end", Null, Null)

Clear == /\ map' = <<>>
         /\ ret' = Ok

Next == \/ \E k \in Key :
             \/ \E v \in Value : Put(k, v)
             \/ PutFails(k) \/ Del(k) \/ DelMissing(k)
             \/ Get(k) \/ GetMissing(k) \/ Visit(k)
        \/ VisitEnd \/ Clear

Spec == Init /\ [][Next]_vars
=============================================================================
