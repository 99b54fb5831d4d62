-------------------------------- MODULE RPool --------------------------------
(***************************************************************************)
(* The object pool of rbase/common (rpool.h), for one type.  The items of  *)
(* a pool lie in blocks: the first one is allocated with the pool, others  *)
(* are linked in behind it when no block has a free item, and are given    *)
(* back when all their items are free and enough items are free elsewhere. *)
(* Each block has a list of its free items.  A block that was given back   *)
(* may be allocated again at the same address.                             *)
(***************************************************************************)
EXTENDS Integers, Sequences, FiniteSets, FiniteSetsExt

CONSTANTS Block,       \* the addresses of blocks
          NoBlock,     \* NULL
          NoItem,      \* NULL
          InitElems,   \* size_init: the items of the first block
          AdjustElems  \* size_adjust: the items of every other block

ASSUME PoolAssumption == /\ IsFiniteSet(Block) /\ NoBlock \notin Block
                         /\ InitElems \in Nat \ {0} /\ AdjustElems \in Nat \ {0}

VARIABLES exists,    \* rget_pool is not NULL
          first,     \* pool->free_head_block
          blocks,    \* the blocks that are allocated, by address
          lost,      \* those no pool leads to any more
          capacity,  \* pool->capacity
          totalFree, \* pool->total_free
          got        \* what the last call returned

poolVars == <<exists, first, blocks, lost, capacity, totalFree, got>>

-----------------------------------------------------------------------------
MaxElems == IF InitElems > AdjustElems THEN InitElems ELSE AdjustElems
Item == Block \X (1 .. MaxElems)

\* rpool_expand: a block of num items, linked in the order of their addresses
NewBlock(num, before, after) ==
  [total |-> num, free |-> [i \in 1 .. num |-> i], count |-> num, next |-> after, prev |-> before]

Unused == Block \ DOMAIN blocks
With(b, record) == [c \in DOMAIN blocks \cup {b} |-> IF c = b THEN record ELSE blocks[c]]
Without(bs) == [c \in DOMAIN blocks \ bs |-> blocks[c]]

\* The n-th block from the first one on, or NoBlock
Nth[n \in 0 .. Cardinality(Block)] ==
  IF n = 0 THEN first
  ELSE IF Nth[n - 1] = NoBlock THEN NoBlock ELSE blocks[Nth[n - 1]].next

Listed == {Nth[n] : n \in 0 .. Cardinality(Block)} \ {NoBlock}

\* The first block with a free item
HasFree(n) == Nth[n] # NoBlock /\ blocks[Nth[n]].free # <<>>
FirstFree == Nth[CHOOSE n \in DOMAIN Nth : HasFree(n) /\ \A m \in 0 .. n - 1 : ~HasFree(m)]

-----------------------------------------------------------------------------
PoolInit == /\ exists = FALSE
        /\ first = NoBlock /\ blocks = <<>> /\ lost = {}
        /\ capacity = 0 /\ totalFree = 0
        /\ got = NoItem

\* The pool has its first block before it is entered in the chain of pools; when
\* that fails the pool is forgotten with its block.
PoolCreate == /\ ~exists
          /\ \E b \in Unused :
               /\ blocks' = With(b, NewBlock(InitElems, NoBlock, NoBlock))
               /\ \/ /\ exists' = TRUE /\ first' = b
                     /\ capacity' = InitElems /\ totalFree' = InitElems
                     /\ UNCHANGED lost
                  \/ /\ lost' = lost \cup {b}
                     /\ UNCHANGED <<exists, first, capacity, totalFree>>
          /\ UNCHANGED got

PoolDestroy == /\ exists
           /\ exists' = FALSE /\ first' = NoBlock
           /\ blocks' = Without(Listed)
           /\ capacity' = 0 /\ totalFree' = 0 /\ got' = NoItem
           /\ UNCHANGED lost

-----------------------------------------------------------------------------
(* rpool_get                                                               *)

GetListed ==
  /\ exists /\ \E n \in DOMAIN Nth : HasFree(n)
  /\ LET b == FirstFree
     IN  /\ got' = <<b, Head(blocks[b].free)>>
         /\ blocks' = [blocks EXCEPT ![b].free = Tail(@), ![b].count = @ - 1]
  /\ totalFree' = totalFree - 1
  /\ UNCHANGED <<exists, first, lost, capacity>>

\* No block has a free item: a new one is linked in behind the first, and its
\* first item is handed out.
GetExpanded ==
  /\ exists /\ \A n \in DOMAIN Nth : ~HasFree(n)
  /\ \E b \in Unused :
       LET second == blocks[first].next
           new == NewBlock(AdjustElems, first, second)
           taken == [new EXCEPT !.free = Tail(@), !.count = @ - 1]
       IN  /\ blocks' = [c \in DOMAIN blocks \cup {b} |->
                           IF c = b THEN taken
                           ELSE IF c = first THEN [blocks[c] EXCEPT !.next = b]
                           ELSE IF c = second THEN [blocks[c] EXCEPT !.prev = b]
                           ELSE blocks[c]]
           /\ got' = <<b, Head(new.free)>>
  /\ capacity' = capacity + AdjustElems
  /\ totalFree' = totalFree + AdjustElems - 1
  /\ UNCHANGED <<exists, first, lost>>

\* The allocation failed: NULL, and nothing changes.
GetNoMemory == /\ exists /\ \A n \in DOMAIN Nth : ~HasFree(n)
               /\ got' = NoItem
               /\ UNCHANGED <<exists, first, blocks, lost, capacity, totalFree>>

Get == GetListed \/ GetExpanded \/ GetNoMemory

-----------------------------------------------------------------------------
(* rpool_free.  The user gives back what he holds, and he does it once.    *)

InUse == {i \in Item : /\ i[1] \in DOMAIN blocks \ lost
                       /\ i[2] \in 1 .. blocks[i[1]].total
                       /\ \A n \in DOMAIN blocks[i[1]].free : blocks[i[1]].free[n] # i[2]}

\* Mutant: a block is spare before all its items are back.
Spare_Early(b) == b # first /\ totalFree + 1 > 2 * (blocks[b].count + 1)

\* Whether the block of an item that comes back is given back with it: it is not
\* the first, all its items are free, and more are free elsewhere.
Spare(b) == /\ b # first
            /\ totalFree + 1 > 2 * (blocks[b].count + 1)
            /\ blocks[b].total = blocks[b].count + 1

FreeKept ==
  /\ exists
  /\ \E i \in InUse :
       LET b == i[1]
       IN  /\ b \in Listed /\ ~Spare(b)
           /\ blocks' = [blocks EXCEPT ![b].free = <<i[2]>> \o @, ![b].count = @ + 1]
  /\ totalFree' = totalFree + 1
  /\ got' = NoItem
  /\ UNCHANGED <<exists, first, lost, capacity>>

\* Mutant: the block behind keeps its pointer to the one that is gone.
Unlinked_OneWay(b) ==
  [c \in DOMAIN blocks \ {b} |->
     IF c = blocks[b].prev THEN [blocks[c] EXCEPT !.next = blocks[b].next] ELSE blocks[c]]

Unlinked(b) ==
  [c \in DOMAIN blocks \ {b} |->
     IF c = blocks[b].prev THEN [blocks[c] EXCEPT !.next = blocks[b].next]
     ELSE IF c = blocks[b].next THEN [blocks[c] EXCEPT !.prev = blocks[b].prev]
     ELSE blocks[c]]

FreeReleased ==
  /\ exists
  /\ \E i \in InUse :
       LET b == i[1]
       IN  /\ b \in Listed /\ Spare(b)
           /\ blocks' = Unlinked(b)
           /\ capacity' = capacity - blocks[b].total
           /\ totalFree' = totalFree + 1 - blocks[b].total
  /\ got' = NoItem
  /\ UNCHANGED <<exists, first, lost>>

Free == FreeKept \/ FreeReleased

PoolNext == PoolCreate \/ PoolDestroy \/ Get \/ Free

PoolSpec == PoolInit /\ [][PoolNext]_poolVars

-----------------------------------------------------------------------------
(* Properties                                                              *)

PoolTypeOK == /\ exists \in BOOLEAN
          /\ first \in DOMAIN blocks \cup {NoBlock} /\ (exists <=> first # NoBlock)
          /\ DOMAIN blocks \subseteq Block
          /\ \A b \in DOMAIN blocks :
               /\ blocks[b].total \in {InitElems, AdjustElems}
               /\ blocks[b].count \in 0 .. blocks[b].total
               /\ blocks[b].free \in Seq(1 .. blocks[b].total)
               /\ {blocks[b].next, blocks[b].prev} \subseteq Block \cup {NoBlock}
          /\ lost \subseteq DOMAIN blocks
          /\ capacity \in Nat /\ totalFree \in Nat
          /\ got \in Item \cup {NoItem}

\* Whatever is linked in and unlinked in whatever order: the blocks of the pool are
\* those the links lead to, forwards and backwards, and none is left behind.
LinksSound == /\ PoolTypeOK
             /\ Listed = DOMAIN blocks \ lost
             /\ exists => blocks[first].prev = NoBlock
             /\ \A b \in Listed : /\ blocks[b].next # NoBlock =>
                                        blocks[b].next \in Listed /\ blocks[blocks[b].next].prev = b
                                /\ b # first =>
                                        blocks[b].prev \in Listed /\ blocks[blocks[b].prev].next = b

SumOf(f) == MapThenSumSet(LAMBDA b : f[b], DOMAIN f)

\* The three counts of free items agree with the lists and with each other, through
\* expansions and releases; the test of the pool compares capacity and free count
\* when everything was given back (rtest_rpool.c:75).  However the user takes and
\* gives back, no more than two blocks besides the first are ever idle: a pool
\* whose items are all free has shrunk to that.
CountsExact == /\ \A b \in Listed : blocks[b].count = Len(blocks[b].free)
               /\ capacity = SumOf([b \in Listed |-> blocks[b].total])
               /\ totalFree = SumOf([b \in Listed |-> blocks[b].count])
               /\ Cardinality({b \in Listed \ {first} : blocks[b].count = blocks[b].total}) <= 2

\* The lists of the pool and what it counts of them, together, after every call.
ListSound == LinksSound /\ CountsExact

Allocator == INSTANCE RAllocator WITH held <- InUse

\* A pool is an allocator: no item is handed out twice, and no block is given back
\* while one of its items is in use.
ImplementsAllocator == Allocator!Spec
=============================================================================
