------------------------------- MODULE MC_Ecs -------------------------------
(***************************************************************************)
(* Small instances of EcsRun, of the RArray it stands on, and of           *)
(* EcsObjects, side by side: a behaviour exercises one of them, and the    *)
(* others stay as they were created.                                       *)
(*                                                                         *)
(* Three systems in an array whose first block has room for two, so that a *)
(* callback can also make the array grow.  Three entities, one of them the *)
(* admin entity, and a component; ids from 1 to 3, of which 1 is not used  *)
(* again after a wrap, so that the ids of the entities can run out.        *)
(***************************************************************************)
EXTENDS EcsRun, EcsObjects

CONSTANTS s1, s2, s3, e1, e2, e3, c1

VARIABLE part  \* "run", "array" or "objects"

MCSystem == {s1, s2, s3}
MCStopped == {"init", "paused", "stopped"}
MCEntity == {e1, e2, e3}
MCComponent == {c1}

MCInit == Init /\ ObjectsInit /\ part \in {"run", "array", "objects"}

MCNext == /\ \/ part = "run" /\ Next /\ UNCHANGED objectVars
             \/ /\ part = "array" /\ ArrayNext
                /\ UNCHANGED <<exec, walk, adding, history, joined, objectVars>>
             \/ part = "objects" /\ ObjectsNext /\ UNCHANGED vars
             \/ wild /\ UNCHANGED <<vars, objectVars>>  \* the program is lost
          /\ UNCHANGED part

MCSpec == MCInit /\ [][MCNext]_<<vars, objectVars, part>> /\ Fairness /\ ObjectsFair
=============================================================================
