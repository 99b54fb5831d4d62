------------------------------ MODULE MC_RDict ------------------------------
(***************************************************************************)
(* A small instance of RDict.  With two slots to a bucket and one bucket   *)
(* to begin with, rdict_expand goes from 1 to 3 to 8 buckets and to 14 and *)
(* more above the hill: the hashes below collide in some of these tables   *)
(* and not in others, so that refills merge buckets, fill the last slot of *)
(* one, overflow, and expand until an allocation fails.                    *)
(***************************************************************************)
EXTENDS RDict, TLC

CONSTANTS k1, k2, k3, k4, v1, v2

MCKey == {k1, k2, k3, k4}
MCValue == {v1, v2}
MCValue1 == {v1}
\* 7, 15 and 407 have buckets of their own among 3 and share the last one of
\* 8; 10 collides with 7 among 3.  7 and 407 collide again among 25, and no
\* allocation is left that parts them.
MCHash == k1 :> 7 @@ k2 :> 15 @@ k3 :> 10 @@ k4 :> 407
=============================================================================
