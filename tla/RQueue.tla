------------------------------- MODULE RQueue -------------------------------
(***************************************************************************)
(* What an rbuffer_t promises: a bounded queue of bytes.  A write appends  *)
(* as many of its bytes as there is room for, a read takes bytes from the  *)
(* front, and both say which.  `asked` names the call and what it was      *)
(* given, so that a write that takes too few bytes never passes for one    *)
(* that was given fewer.  RBuffer implements this module.                  *)
(***************************************************************************)
EXTENDS Integers, Sequences

CONSTANTS Byte, BufferSize, MaxChunk

VARIABLES queue,  \* the bytes written and not yet read
          front,  \* how much of the block lies unused in front of them
          asked,  \* the last call, with what it was called with
          ret     \* the bytes the last call moved

vars == <<queue, front, asked, ret>>

Room == BufferSize - Len(queue)
End == front + Len(queue)
Least(a, b) == IF a <= b THEN a ELSE b
Chunks == UNION {[1 .. n -> Byte] : n \in 1 .. MaxChunk}
Call(name, s, n) == [name |-> name, given |-> s, count |-> n]

Enqueue(s) == ret' = s /\ queue' = queue \o s

Take(n) == /\ ret' = SubSeq(queue, 1, Least(n, Len(queue)))
           /\ queue' = SubSeq(queue, Len(ret') + 1, Len(queue))

Forget == queue' = <<>> /\ ret' = <<>>

Init == queue = <<>> /\ front = 0 /\ asked = Call("create", <<>>, 0) /\ ret = <<>>

\* The queue moves to the head of the block when s does not fit behind it; what
\* does not fit then is not taken.
Write(s) == /\ asked' = Call("write", s, 0)
            /\ Enqueue(SubSeq(s, 1, Least(Len(s), Room)))
            /\ front' = IF End + Len(s) <= BufferSize THEN front ELSE 0

\* Bytes received behind the queue.  Those that reach the end of the block, and
\* no others, lose the last one.
Received(s) == IF End + Len(s) < BufferSize THEN s ELSE SubSeq(s, 1, Len(s) - 1)

WriteExt(s) == /\ asked' = Call("write_ext", s, 0)
               /\ End + Len(s) <= BufferSize
               /\ Enqueue(Received(s))
               /\ front' = front

\* A read of everything frees the whole block, a skip does not.
Read(n) == /\ asked' = Call("read", <<>>, n)
           /\ Take(n)
           /\ front' = IF n >= Len(queue) THEN 0 ELSE front + n

Skip(n) == /\ asked' = Call("skip", <<>>, n)
           /\ Take(n)
           /\ front' = front + Len(ret')

Rewind == /\ asked' = Call("rewind", <<>>, 0)
          /\ Take(0)
          /\ front' = 0

Revert == /\ asked' = Call("revert", <<>>, 0)
          /\ Forget
          /\ front' = End

Clear == /\ asked' = Call("clear", <<>>, 0)
         /\ Forget
         /\ front' = 0

Next == \/ \E s \in Chunks : Write(s) \/ WriteExt(s)
        \/ \E n \in 0 .. BufferSize : Read(n) \/ Skip(n)
        \/ Rewind \/ Revert \/ Clear

Spec == Init /\ [][Next]_vars
=============================================================================
