----------------------------- MODULE EcsObjects -----------------------------
(***************************************************************************)
(* The life of an ECS context and of its entities and components in        *)
(* rbase/ecs (recs.c, rentity.c, rcomponent.c).  Both kinds of objects get *)
(* their ids from one counter that wraps, and are registered under them in *)
(* a dictionary of their own; the hooks of the user may refuse an object   *)
(* that was registered already, or refuse to let one go.                   *)
(*                                                                         *)
(* One thread runs.  A context is zero when it is first initialised; later *)
(* the user's code may set it to zero again, as rtest_recs.c does, or hand *)
(* it to recs_init as recs_uninit left it.  It leaves the admin entity     *)
(* alone, uses no object after the context or after its deletion, and      *)
(* calls the interface only from on_init and between recs_init and         *)
(* recs_uninit.                                                            *)
(***************************************************************************)
EXTENDS Integers, FiniteSets

CONSTANTS Entity, Component,  \* the addresses of the objects
          NoObject,           \* the null pointer
          SidMin, SidMax      \* ctx->sid_min, ctx->sid_max

ASSUME EcsAssumption ==
  /\ Entity \cap Component = {}
  /\ NoObject \notin Entity \cup Component
  /\ SidMin \in Nat /\ SidMax \in Nat /\ SidMin <= SidMax

VARIABLES phase,   \* "blank", "on_init", "admin" (recs_init makes it), "ready"
          sid,     \* ctx->sid_cur
          ents,    \* ctx->map_entities: id to address
          cmps,    \* ctx->map_components
          memory,  \* the id in an object, Unborn before it has one, or Freed
          making,  \* the object recs_entity_new or recs_cmp_new is at work on
          held,    \* the objects the user's code has and may use
          out,     \* those of them that a deletion took out already
          again,   \* the ids whose object was deleted a second time
          admin,   \* ctx->admin_entity
          reused,  \* recs_init runs, on a context as an earlier life left it
          wild     \* freed memory was used

users == <<held, out, again>>
objectVars == <<phase, sid, ents, cmps, memory, making, users, admin, reused, wild>>

Object == Entity \cup Component
Id == 1 .. SidMax + 1
Unborn == 0
Freed == -1

-----------------------------------------------------------------------------
\* recs_get_next_id
NextId_Top ==           \* Mutant: the counter wraps to its upper end
  IF sid > SidMax THEN SidMax + 1 ELSE sid + 1
NextId == IF sid > SidMax THEN SidMin + 1 ELSE sid + 1

Map(o) == IF o \in Entity THEN ents ELSE cmps
\* rdict_exists
Taken_Other(o, id) ==   \* Mutant: the other dictionary is asked
  (IF o \in Entity THEN cmps ELSE ents)[id] # NoObject
Taken(o, id) == Map(o)[id] # NoObject

\* rdict_add, or with NoObject rdict_remove.  The callers ignore the result
\* of rdict_add; that it fails for want of memory is left out.
Register(o, id, target) ==
  IF o \in Entity THEN ents' = [ents EXCEPT ![id] = target] /\ UNCHANGED cmps
                  ELSE cmps' = [cmps EXCEPT ![id] = target] /\ UNCHANGED ents

EmptyMap == [id \in Id |-> NoObject]

ObjectsInit == /\ phase = "blank" /\ sid = 0 /\ admin = NoObject /\ reused = FALSE
        /\ ents = EmptyMap /\ cmps = EmptyMap
        /\ memory = [o \in Object |-> Freed]
        /\ making = NoObject /\ wild = FALSE
        /\ held = {} /\ out = {} /\ again = {}

Callable == phase \in {"on_init", "ready"} /\ making = NoObject

-----------------------------------------------------------------------------
(* recs_entity_new and recs_cmp_new.                                       *)

Spare == {e \in Entity : memory[e] = Freed}

\* One address is left for the admin entity, the bound on the entities.
New(o) ==
  /\ \/ Callable /\ (o \in Entity => Cardinality(Spare) > 1)
     \/ phase = "admin" /\ making = NoObject /\ o \in Entity
  /\ memory[o] = Freed
  /\ memory' = [memory EXCEPT ![o] = Unborn]
  /\ making' = o
  /\ UNCHANGED <<phase, sid, ents, cmps, users, admin, reused, wild>>

\* What becomes of recs_init when its admin entity is made, or refused
AdminMade_Kept(o) ==    \* Mutant: without an entity the pointer stays as it was
  IF phase = "admin"
  THEN /\ phase' = "ready" /\ admin' = (IF o = NoObject THEN admin ELSE o)
       /\ reused' = FALSE /\ UNCHANGED held
  ELSE held' = (held \cup {o}) \ {NoObject} /\ UNCHANGED <<phase, admin, reused>>
AdminMade(o) ==
  IF phase = "admin" THEN phase' = "ready" /\ admin' = o /\ reused' = FALSE /\ UNCHANGED held
  ELSE held' = (held \cup {o}) \ {NoObject} /\ UNCHANGED <<phase, admin, reused>>

PickTaken ==
  /\ making # NoObject
  /\ Taken(making, NextId)
  /\ sid' = NextId
  /\ UNCHANGED <<phase, ents, cmps, memory, making, users, admin, reused, wild>>

PickFree ==
  /\ making # NoObject
  /\ ~Taken(making, NextId)
  /\ sid' = NextId
  /\ memory' = [memory EXCEPT ![making] = NextId]
  /\ Register(making, NextId, making)
  /\ AdminMade(making)
  /\ making' = NoObject
  /\ UNCHANGED <<out, again, wild>>

\* on_new_entity or on_new_cmp fails: the object is taken out again and
\* deleted.  When the hook for deletions fails too it is never freed; an
\* address that nobody has is given back here all the same.
PickRefused ==
  /\ making # NoObject
  /\ ~Taken(making, NextId)
  /\ sid' = NextId
  /\ memory' = [memory EXCEPT ![making] = Freed]
  /\ AdminMade(NoObject)
  /\ making' = NoObject
  /\ UNCHANGED <<ents, cmps, out, again, wild>>

-----------------------------------------------------------------------------
(* recs_entity_delete and recs_cmp_delete take an object out of its        *)
(* dictionary first; it stays in memory when the hook fails or the caller  *)
(* does not want it destroyed.                                             *)

Delete(o, freed) ==
  /\ Callable /\ o \in held
  /\ Register(o, memory[o], NoObject)
  /\ memory' = [memory EXCEPT ![o] = IF freed THEN Freed ELSE @]
  /\ held' = IF freed THEN held \ {o} ELSE held
  /\ out' = IF freed THEN out \ {o} ELSE out \cup {o}
  /\ again' = IF o \in out THEN again \cup {memory[o]} ELSE again
  /\ UNCHANGED <<phase, sid, making, admin, reused, wild>>

-----------------------------------------------------------------------------
(* recs_init and recs_uninit.                                              *)

\* The pointer to the admin entity is gone, and with it the entity that the
\* last life could not delete; its address is given back.
LoseAdmin == memory' = [o \in Object |-> IF o = admin /\ o \notin held THEN Freed ELSE memory[o]]

\* recs_init resets neither the counter nor the admin entity.
EcsInit(zero) ==
  /\ phase = "blank"
  /\ phase' = "on_init" /\ reused' = ~zero
  /\ ents' = EmptyMap /\ cmps' = EmptyMap
  /\ IF zero THEN sid' = 0 /\ admin' = NoObject /\ LoseAdmin
             ELSE UNCHANGED <<sid, admin, memory>>
  /\ UNCHANGED <<making, users, wild>>

\* recs_init writes the pointer next, whatever recs_entity_new answers.
OnInitDone ==
  /\ phase = "on_init" /\ Callable
  /\ phase' = "admin"
  /\ LoseAdmin
  /\ UNCHANGED <<sid, ents, cmps, making, users, admin, reused, wild>>

\* recs_uninit deletes the admin entity, then drops both dictionaries.  The
\* objects in them are not freed; nobody has them any more, so that their
\* addresses are given back here.  It is called when on_init fails, too; the
\* pointer may then lead to an entity of the last life, to memory that was
\* freed, or to an entity of the user that got its address.
Uninit(freed) ==
  LET stale == admin # NoObject /\ memory[admin] = Freed
      lost == {o \in Object : o \in held \/ \E id \in Id : Map(o)[id] = o} \ {admin}
  IN  /\ phase \in {"on_init", "ready"} /\ Callable
      /\ wild' = (wild \/ stale)
      /\ memory' = [o \in Object |->
                      IF o \in lost \/ (o = admin /\ freed) THEN Freed ELSE memory[o]]
      /\ ents' = EmptyMap /\ cmps' = EmptyMap
      /\ held' = {} /\ out' = {} /\ again' = {}
      /\ phase' = "blank" /\ reused' = FALSE
      /\ UNCHANGED <<sid, making, admin>>

-----------------------------------------------------------------------------
\* Once freed memory was used anything may happen: the model ends there.
ObjectsNext ==
  /\ ~wild
  /\ \/ \E o \in Object : New(o)
     \/ PickTaken \/ PickFree \/ PickRefused
     \/ \E freed \in BOOLEAN : Uninit(freed) \/ \E o \in Object : Delete(o, freed)
     \/ OnInitDone \/ \E zero \in BOOLEAN : EcsInit(zero)

ObjectsSpec == ObjectsInit /\ [][ObjectsNext]_objectVars

\* A call that looks for an id goes on looking.
ObjectsFair == WF_objectVars(PickTaken) /\ WF_objectVars(PickFree)

-----------------------------------------------------------------------------
\* What the user or the context has and what was not taken out
Kept == (held \ out) \cup (IF phase = "ready" THEN {admin} \ {NoObject} ELSE {})

\* Over wraps of the counter, refused objects and deletions that fail half
\* way, an object in a dictionary is in memory, carries the id it is found by
\* and was handed out; and an object that was handed out and not taken out is
\* found by its id.  Only an object that is deleted again after it was taken
\* out, by a caller whose hook failed, may take another one of its id with it.
Registered ==
  /\ \A m \in {ents, cmps}, id \in Id :
       m[id] # NoObject => memory[m[id]] = id /\ m[id] \in Kept
  /\ \A o \in Kept :
       memory[o] \in Id /\ (Map(o)[memory[o]] = o \/ memory[o] \in again)

\* Over any number of lives recs_uninit deletes an admin entity that was freed
\* before in one case only: the context was handed to recs_init as an earlier
\* life left it, and on_init failed.  A life that got as far as its own admin
\* entity, or was refused one, never touches that of another life.
StaleOnlyIfReused == [][~wild /\ wild' => phase = "on_init" /\ reused]_objectVars

\* recs_entity_new and recs_cmp_new come back when one of the ids the counter
\* goes through is free for the object.
NewEnds ==
  (making # NoObject /\ \E id \in SidMin + 1 .. SidMax + 1 : ~Taken(making, id))
    ~> (making = NoObject)
=============================================================================
