--------------------------- MODULE MC_Containers ----------------------------
(***************************************************************************)
(* Small instances of RDict, RDictIter, RPool, RPoolChain, RBuffer and     *)
(* RString, side by side: a behaviour exercises one of them, and the       *)
(* others stay as they were created.                                       *)
(*                                                                         *)
(* The dictionary has the keys and hashes of MC_RDict.  The iterator walks *)
(* one with a single value and without k4: two keys share a bucket of two  *)
(* slots, and a third one forces the table to grow.                        *)
(* The pool has addresses for four blocks, the chain three types.  The     *)
(* buffer has four bytes and is written to in chunks of up to three, so    *)
(* that a rewind needs one to three blocks.  The strings are those of      *)
(* MC_RString.                                                             *)
(***************************************************************************)
EXTENDS MC_RDict, RDictIter, RPool, RPoolChain, RBuffer, MC_RString

CONSTANTS b1, b2, b3, b4, p1, p2, p3, x, y

VARIABLE part  \* the part that is exercised

Parts == {"dictionary", "iterator", "pool", "chain", "buffer", "string"}

MCBlock == {b1, b2, b3, b4}
MCType == {p1, p2, p3}
MCByte == {x, y}

\* A string, and the first content of the buffer, are chosen for the part that
\* uses them.
MCInit ==
  /\ part \in Parts
  /\ IterInit /\ PoolInit /\ ChainInit
  /\ IF part = "buffer" THEN BufferInit
     ELSE /\ mem = <<>> /\ offset = 0 /\ pos = 0 /\ moved = <<>>
          /\ asked = Call("create", <<>>, 0)
  /\ IF part = "string" THEN StringsInit
     ELSE /\ pc = "unused" /\ src = <<>> /\ pat = <<>> /\ new = <<>>
          /\ i = 0 /\ j = 0 /\ borders = <<>> /\ hits = <<>> /\ out = <<>> /\ room = 0

\* The dictionary replaces the values of k1, k2 and NULL; k3 and k4 have one.
FewValues == call'.value = v2 => call'.key \in {k1, k2}

\* The keys and values of the iterator's dictionary.  Its caller makes the
\* calls that can disturb the iterator: not the finds, nor the removals of a
\* key that is missing, which change nothing but the answer.
FewKeys == call'.key # k4 /\ call'.value # v2 /\ nullEntry'.value # v2
Disturbing == ret'.code \notin {"item", "null", "not_exist"}

MCNext ==
  /\ \/ part = "dictionary" /\ Next /\ FewValues
                            /\ UNCHANGED <<iter, poolVars, chainVars, bufferVars, stringVars>>
     \/ part = "iterator" /\ IterNext /\ FewKeys /\ Disturbing
                          /\ UNCHANGED <<poolVars, chainVars, bufferVars, stringVars>>
     \/ part = "pool" /\ PoolNext /\ UNCHANGED <<itVars, chainVars, bufferVars, stringVars>>
     \/ part = "chain" /\ ChainNext /\ UNCHANGED <<itVars, poolVars, bufferVars, stringVars>>
     \/ part = "buffer" /\ BufferNext /\ UNCHANGED <<itVars, poolVars, chainVars, stringVars>>
     \/ part = "string" /\ StringsNext /\ UNCHANGED <<itVars, poolVars, chainVars, bufferVars>>
  /\ UNCHANGED part

MCSpec == /\ MCInit
          /\ [][MCNext]_<<itVars, poolVars, chainVars, bufferVars, stringVars, part>>
          /\ WF_vars(AddStep) /\ StringsFair
=============================================================================
