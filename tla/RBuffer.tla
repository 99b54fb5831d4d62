------------------------------ MODULE RBuffer -------------------------------
(***************************************************************************)
(* The byte buffer of rbase/common (rbuffer.c, rbuffer.h): a block of      *)
(* BufferSize bytes of which those from `offset` up to `pos` are waiting to*)
(* be read.  The sockets keep two of them, read_cache and write_buff.      *)
(***************************************************************************)
EXTENDS Integers, Sequences

CONSTANTS Byte,      \* the values of a byte
          BufferSize,  \* d->capacity
          MaxChunk     \* bound: the longest chunk a caller hands over

ASSUME SizesAssumption == /\ BufferSize \in Nat \ {0}
                          /\ MaxChunk \in Nat

VARIABLES mem,     \* d->data
          offset,  \* d->offset
          pos,     \* d->pos
          moved,   \* the bytes the last call moved
          asked    \* the last call, with what it was called with

bufferVars == <<mem, offset, pos, moved, asked>>

-----------------------------------------------------------------------------
Size == pos - offset                 \* rbuffer_size
Left == BufferSize - pos               \* rbuffer_left
Least(a, b) == IF a <= b THEN a ELSE b
Chunks == UNION {[1 .. n -> Byte] : n \in 1 .. MaxChunk}

\* A call that hands over the bytes s, or asks for n of those that wait.
Call(name, s, n) == [name |-> name, given |-> s, count |-> n]
CallNames == {"create", "write", "read", "rewind", "skip", "write_ext", "revert", "clear"}
Calls == [name : CallNames, given : Seq(Byte), count : Nat]

\* memcpy(data + at, s, n)
Copied(m, at, s, n) ==
  [i \in DOMAIN m |-> IF i \in at .. at + n - 1 THEN s[i - at + 1] ELSE m[i]]

\* memcpy(data + to, data + from, n)
Moved(m, to, from, n) ==
  [i \in DOMAIN m |-> IF i \in to .. to + n - 1 THEN m[i - to + from] ELSE m[i]]

\* The loop of rbuffer_rewind: blocks of `offset` bytes, so that no block
\* overlaps the place it is copied to.  After j turns j blocks are in place.
BlockSize(j) == Least(offset, Size - j * offset)
MovedBlocks[j \in Nat] ==
  IF j = 0 THEN mem
  ELSE Moved(MovedBlocks[j - 1], (j - 1) * offset, j * offset, BlockSize(j - 1))

\* Mutant: the last, shorter block is forgotten
Turns_WholeBlocks == Size \div offset

Turns == (Size + offset - 1) \div offset

Rewound == IF offset > 0 THEN MovedBlocks[Turns] ELSE mem

BufferInit == /\ mem \in [0 .. BufferSize - 1 -> Byte]
        /\ offset = 0
        /\ pos = 0
        /\ moved = <<>>
        /\ asked = Call("create", <<>>, 0)

-----------------------------------------------------------------------------
(* rbuffer_write moves what is waiting to the head of the block first, but *)
(* only when the bytes do not fit behind it.                               *)

WriteBehind(s) ==
  /\ Len(s) <= Left
  /\ mem' = Copied(mem, pos, s, Len(s))
  /\ pos' = pos + Len(s)
  /\ moved' = s
  /\ UNCHANGED offset

WriteRewound(s) ==
  /\ Len(s) > Left
  /\ LET n == Least(Len(s), BufferSize - Size)
     IN  /\ mem' = Copied(Rewound, Size, s, n)
         /\ pos' = Size + n
         /\ moved' = SubSeq(s, 1, n)
  /\ offset' = 0

Write(s) == /\ asked' = Call("write", s, 0)
            /\ WriteBehind(s) \/ WriteRewound(s)

\* What is at the front of the block, as a sequence of n bytes.
Peek(n) == [i \in 1 .. n |-> mem[offset + i - 1]]

\* A read that takes everything starts the block anew.
Read(n) ==
  /\ asked' = Call("read", <<>>, n)
  /\ moved' = Peek(Least(n, Size))
  /\ IF n >= Size THEN offset' = 0 /\ pos' = 0
                  ELSE offset' = offset + n /\ pos' = pos
  /\ UNCHANGED mem

Rewind ==
  /\ asked' = Call("rewind", <<>>, 0)
  /\ mem' = Rewound
  /\ offset' = 0
  /\ pos' = Size
  /\ moved' = <<>>

\* rbuffer_skip, called with a count that was just sent
Skip(n) ==
  /\ asked' = Call("skip", <<>>, n)
  /\ offset' = Least(offset + n, pos)
  /\ moved' = Peek(Least(n, Size))
  /\ UNCHANGED <<mem, pos>>

\* Mutant: rbuffer_seek stops one short of the place it is told.
WriteExt_OneShort(s) ==
  /\ asked' = Call("write_ext", s, 0)
  /\ Len(s) <= Left
  /\ mem' = Copied(mem, pos, s, Len(s))
  /\ pos' = pos + Len(s) - 1
  /\ moved' = SubSeq(s, 1, pos' - pos)
  /\ UNCHANGED offset

\* rbuffer_write_ext: the caller received s into the block behind pos and
\* moves pos over it by rbuffer_seek, which stops one short of the end.
WriteExt(s) ==
  /\ asked' = Call("write_ext", s, 0)
  /\ Len(s) <= Left
  /\ mem' = Copied(mem, pos, s, Len(s))
  /\ pos' = IF pos + Len(s) < BufferSize THEN pos + Len(s) ELSE BufferSize - 1
  /\ moved' = SubSeq(s, 1, pos' - pos)
  /\ UNCHANGED offset

\* rbuffer_revert
Revert == /\ asked' = Call("revert", <<>>, 0)
          /\ offset' = pos
          /\ moved' = <<>>
          /\ UNCHANGED <<mem, pos>>

\* rbuffer_clear
ClearAll == /\ asked' = Call("clear", <<>>, 0)
            /\ offset' = 0 /\ pos' = 0
            /\ moved' = <<>>
            /\ UNCHANGED mem

BufferNext == \/ \E s \in Chunks : Write(s) \/ WriteExt(s)
        \/ \E n \in 0 .. BufferSize : Read(n) \/ Skip(n)
        \/ Rewind \/ Revert \/ ClearAll

BufferSpec == BufferInit /\ [][BufferNext]_bufferVars

-----------------------------------------------------------------------------
(* Properties                                                              *)

BufferTypeOK == /\ mem \in [0 .. BufferSize - 1 -> Byte]
                /\ pos \in 0 .. BufferSize
                /\ offset \in 0 .. pos
                /\ moved \in Seq(Byte)
                /\ asked \in Calls

\* The queue the block stands for.
Waiting == [i \in 1 .. Size |-> mem[offset + i - 1]]

Queue == INSTANCE RQueue WITH queue <- Waiting, front <- offset, ret <- moved

\* Wherever the waiting bytes lie in the block, and however rbuffer_rewind
\* moves them there, writes append the bytes they are given and reads take them
\* from the front: none is repeated or reordered, and none is lost but what a
\* full block has no room for and, of bytes received up to the very end of the
\* block, the last one (rbuffer.c:125).
ImplementsQueue == Queue!Spec
=============================================================================
