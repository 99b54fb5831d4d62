------------------------------- MODULE EcsRun -------------------------------
(***************************************************************************)
(* The update loop of rbase/ecs (recs.c, rsystem.c).  recs_run walks the   *)
(* array of systems three times and calls one function of each; what it    *)
(* calls may add and remove systems, and stop the context, under its feet. *)
(*                                                                         *)
(* One thread runs.  The user's code runs between two runs, in a callback  *)
(* of recs_run, and in the init function that recs_sys_add calls; from any *)
(* of these it may call the interface.  It does not call recs_run from a   *)
(* callback, nor recs_sys_add for a system whose init is still running.    *)
(***************************************************************************)
EXTENDS RArray, FiniteSets, SequencesExt

CONSTANTS System,    \* the systems, each at its own address
          Stopped,   \* the states of a context that does not run
          MaxNested  \* bound: init functions within init functions

ASSUME SystemAssumption == /\ Elem = System
                           /\ Null \notin System
                           /\ IsFiniteSet(System)
                           /\ MaxSize = Cardinality(System)
                           /\ Stopped \subseteq {"init", "paused", "stopped"}
                           /\ "init" \in Stopped
                           /\ MaxNested \in Nat \ {0}

VARIABLES
  exec,    \* ctx->exec_state
  pc,      \* "idle", or the function recs_run calls of each system
  index,   \* it.index
  cur,     \* the system whose function is running, or Null
  adding,  \* the systems whose init is running, the innermost last
  \* of the current phase, for the properties:
  called,  \* the systems called
  there,   \* those in the array at its start or added since
  gone,    \* those removed since its start
  cuts,    \* how many removals were in front of the walk, up to MaxSize
  \* of the whole behaviour:
  joined   \* the systems in the order they were added

walk == <<pc, index, cur>>
history == <<called, there, gone, cuts>>
vars == <<arrayVars, exec, walk, adding, history, joined>>

Phases == {"before_update", "update", "late_update"}
\* Mutant: recs_run goes round for as long as the context is running
PhaseAfter_Again(p) ==
  CASE p = "before_update" -> "update"
    [] p = "update" -> "late_update"
    [] OTHER -> IF exec = "running" THEN "before_update" ELSE "idle"
PhaseAfter(p) ==
  CASE p = "before_update" -> "update"
    [] p = "update" -> "late_update"
    [] OTHER -> "idle"

Init == /\ ArrayInit
        /\ exec = "init" /\ pc = "idle" /\ index = 0 /\ cur = Null
        /\ adding = <<>> /\ joined = <<>>
        /\ called = <<>> /\ there = {} /\ gone = {} /\ cuts = 0

\* The user's code has the processor.
UserCode == pc = "idle" \/ cur # Null \/ adding # <<>>

-----------------------------------------------------------------------------
(* recs_sys_add looks the system up, lets it initialise itself and only    *)
(* then puts it into the array.  A system that is there already, or is not *)
(* there to be removed, is refused and nothing changes.                    *)

SysAdd(s) ==
  /\ UserCode /\ s \notin Range(adding) /\ Len(adding) < MaxNested
  /\ ~Exist(s)
  /\ adding' = Append(adding, s)
  /\ UNCHANGED <<arrayVars, exec, walk, history, joined>>

SysAdded ==
  /\ adding # <<>>
  /\ LET s == Last(adding)
     IN  /\ ArrayAdd(s)
         /\ there' = there \cup {s}
         /\ joined' = Append(joined, s)
  /\ adding' = Front(adding)
  /\ UNCHANGED <<exec, walk, called, gone, cuts>>

\* recs_sys_remove closes the array up, then calls uninit.
SysRemove(s) ==
  /\ UserCode
  /\ Exist(s)
  /\ ArrayRemove(s)
  /\ gone' = gone \cup {s}
  /\ cuts' = IF pc # "idle" /\ First(Places(s)) < index /\ cuts < MaxSize
             THEN cuts + 1 ELSE cuts
  /\ joined' = RemoveFirst(joined, s)
  /\ UNCHANGED <<exec, walk, adding, called, there>>

\* recs_start and recs_resume, recs_pause, recs_stop
SetState(v) ==
  /\ UserCode
  /\ exec' = v
  /\ UNCHANGED <<arrayVars, walk, adding, history, joined>>

-----------------------------------------------------------------------------
(* recs_run.                                                               *)

\* rarray_it, or rarray_it_first, and the history of a new phase
BeginPhase(p) ==
  /\ pc' = p
  /\ index' = 0
  /\ called' = <<>> /\ gone' = {} /\ cuts' = 0
  /\ there' = IF p = "idle" THEN {} ELSE Range(Content)

Run ==
  /\ pc = "idle" /\ adding = <<>>
  /\ exec = "running"
  /\ BeginPhase("before_update")
  /\ UNCHANGED <<arrayVars, exec, cur, adding, joined>>

\* Mutant: the cursor is taken for the place of the system just read
HasNext_Strict(k) == k < size
HasNext(k) == k <= size                                   \* rarray_has_next

\* rarray_next moves on before rarray_has_next is asked.
Call ==
  /\ pc \in Phases /\ cur = Null /\ adding = <<>>
  /\ HasNext(index + 1)
  /\ cur' = Slot(index)
  /\ index' = index + 1
  /\ called' = Append(called, cur')
  /\ UNCHANGED <<arrayVars, exec, pc, adding, there, gone, cuts, joined>>

EndPhase ==
  /\ pc \in Phases /\ cur = Null /\ adding = <<>>
  /\ ~HasNext(index + 1)
  /\ BeginPhase(PhaseAfter(pc))
  /\ UNCHANGED <<arrayVars, exec, cur, adding, joined>>

Return ==
  /\ cur # Null /\ adding = <<>>
  /\ cur' = Null
  /\ UNCHANGED <<arrayVars, exec, pc, index, adding, history, joined>>

-----------------------------------------------------------------------------
Next == \/ \E s \in System : SysAdd(s) \/ SysRemove(s)
        \/ SysAdded
        \/ \E v \in {"running"} \cup (Stopped \ {"init"}) : SetState(v)
        \/ Run \/ Call \/ EndPhase \/ Return

Spec == Init /\ [][Next]_vars

\* recs_run goes on with its walk; every init function and every callback
\* comes to an end, although it may make any calls of the interface first.
Fairness == /\ WF_vars(Call) /\ WF_vars(EndPhase)
            /\ \A s \in System : SF_vars(SysAdded /\ Last(adding) = s)
            /\ SF_vars(Return)

FairSpec == Spec /\ Fairness

-----------------------------------------------------------------------------
TypeOK ==
  /\ ArrayTypeOK /\ NothingBehind
  /\ exec \in {"running"} \cup Stopped
  /\ pc \in Phases \cup {"idle"}
  /\ index \in 0 .. MaxSize
  /\ cur \in System \cup {Null} /\ (pc = "idle" => cur = Null)
  /\ Range(called) \subseteq System
  /\ there \subseteq System /\ gone \subseteq System /\ cuts \in 0 .. MaxSize

\* The array holds its systems and nothing behind them, and a phase calls
\* systems only, in the order they were added in, as the
\* comment on recs_sys_add promises (rsystem.c:15), and none of them twice,
\* however the callbacks change the array in front of the walk and behind it.
\* Only a system that was removed in the phase and added again is no longer
\* where it was.
CallsInOrder ==
  /\ TypeOK
  /\ \A k, l \in DOMAIN called :
       k < l /\ {called[k], called[l]} \cap gone = {} =>
         \E m, n \in DOMAIN joined :
           m < n /\ joined[m] = called[k] /\ joined[n] = called[l]

\* When a phase ends, every system that was in the array at its start or was
\* added since, and is still there, has been called, but for at most one for
\* each system removed at or in front of the walk.
MissedByRemovalOnly ==
  pc \in Phases /\ cur = Null /\ ~HasNext(index + 1) =>
    Cardinality((there \ gone) \ Range(called)) <= cuts

\* recs_run comes back, whatever the callbacks add and remove.
RunEnds == (pc # "idle") ~> (pc = "idle")
=============================================================================
