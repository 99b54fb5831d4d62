------------------------------- MODULE MC_RLog -------------------------------
(***************************************************************************)
(* A small instance of RLog: two threads, two levels, and a file that is   *)
(* rolled by the second line of a level.                                   *)
(***************************************************************************)
EXTENDS RLog

CONSTANTS t1, t2, debug, info

MCThread == {t1, t2}
MCLevel == {debug, info}
=============================================================================
