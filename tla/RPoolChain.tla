----------------------------- MODULE RPoolChain ------------------------------
(***************************************************************************)
(* The chain of the pools of all types (rpool.h), from which               *)
(* rpool_uninit_global destroys what is left.  A pool is entered behind the*)
(* head when it is created and taken out when it is destroyed on its own.  *)
(***************************************************************************)
EXTENDS Integers, FiniteSets

CONSTANTS Type,  \* the types that have a pool
          ChainHead,  \* rpool_chain
          NoNode \* NULL

ASSUME ChainAssumption == /\ IsFiniteSet(Type)
                          /\ ChainHead \notin Type /\ NoNode \notin Type \cup {ChainHead}

VARIABLES newer,     \* for each type whose pool exists, the pools created after it
          next,      \* node->next, of every node entered so far and of the head
          prev,      \* node->prev
          overtaken  \* the pools newer than one that was destroyed on its own

chainVars == <<newer, next, prev, overtaken>>

-----------------------------------------------------------------------------
Pools == DOMAIN newer

\* The n-th node behind the head, and all of them
Link[n \in 0 .. Cardinality(Type) + 1] ==
  IF n = 0 THEN ChainHead ELSE IF Link[n - 1] = NoNode THEN NoNode ELSE next[Link[n - 1]]
Chained == {Link[n] : n \in 1 .. Cardinality(Type) + 1} \ {NoNode}

Linked(f, n, m) == [k \in DOMAIN f \cup {n} |-> IF k = n THEN m ELSE f[k]]

ChainInit == /\ newer = [t \in {} |-> {}] /\ overtaken = {}
             /\ next = [n \in {ChainHead} |-> NoNode]
             /\ prev = [n \in {ChainHead} |-> NoNode]

\* rpool_create: prev of the node behind the new one is left as it is.
Enter == \E t \in Type \ Pools :
           /\ newer' = [u \in Pools \cup {t} |-> IF u = t THEN {} ELSE newer[u] \cup {t}]
           /\ next' = Linked(Linked(next, t, next[ChainHead]), ChainHead, t)
           /\ prev' = Linked(prev, t, ChainHead)
           /\ UNCHANGED overtaken

\* Mutant: the node behind the one that is taken out is taken out with it.
Behind_Next(t) == IF next[t] = NoNode THEN NoNode ELSE next[next[t]]

Behind(t) == next[t]

\* rpool_destroy: the node is looked for along the chain.
TakeOut == \E t \in Pools :
  /\ newer' = [u \in Pools \ {t} |-> newer[u] \ {t}]
  /\ IF t \in Chained
     THEN /\ next' = Linked(next, prev[t], Behind(t))
          /\ prev' = IF next[t] = NoNode THEN prev ELSE Linked(prev, next[t], prev[t])
     ELSE UNCHANGED <<next, prev>>
  /\ overtaken' = (IF t \in overtaken THEN overtaken ELSE overtaken \cup newer[t]) \ {t}

\* rpool_uninit_global, and the rpool_init_global of the next life
DestroyAll == /\ newer' = [u \in Pools \ Chained |-> newer[u] \ Chained]
              /\ next' = Linked(next, ChainHead, NoNode)
              /\ UNCHANGED <<prev, overtaken>>

ChainNext == Enter \/ TakeOut \/ DestroyAll

ChainSpec == ChainInit /\ [][ChainNext]_chainVars

-----------------------------------------------------------------------------
(* Properties                                                              *)

\* The chain leads to pools that exist, and to all of them but those that were
\* newer than a pool that was destroyed on its own: prev of a node is not set when
\* another one is entered in front of it, so taking it out takes that one along,
\* and rpool_uninit_global never destroys its pool.
ChainExact == Chained = Pools \ overtaken
=============================================================================
