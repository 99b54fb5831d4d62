----------------------------- MODULE RAllocator ------------------------------
(***************************************************************************)
(* What an object pool promises its user: an item that is handed out is    *)
(* nobody else's until it is given back or the pool is destroyed.          *)
(***************************************************************************)
CONSTANTS Item, NoItem

VARIABLES exists,  \* whether there is a pool
          held,    \* the items handed out
          got      \* what the last call returned

Init == ~exists /\ held = {} /\ got = NoItem

Create == /\ ~exists
          /\ exists' = TRUE /\ got' = NoItem
          /\ UNCHANGED held

Get == /\ exists
       /\ \/ \E i \in Item \ held : held' = held \cup {i} /\ got' = i
          \/ got' = NoItem /\ UNCHANGED held
       /\ UNCHANGED exists

Free == /\ exists
        /\ \E i \in held : held' = held \ {i}
        /\ got' = NoItem
        /\ UNCHANGED exists

Destroy == /\ exists
           /\ exists' = FALSE /\ held' = {} /\ got' = NoItem

Next == Create \/ Get \/ Free \/ Destroy

Spec == Init /\ [][Next]_<<exists, held, got>>
=============================================================================
