------------------------------ MODULE EcsProofs ------------------------------
(***************************************************************************)
(* Theorems about the ECS: its array of systems is a sequence whatever the *)
(* capacity, and its objects are registered whatever ids are left.         *)
(***************************************************************************)
EXTENDS EcsRun, EcsObjects, SequenceTheorems, FiniteSetTheorems, WellFoundedInduction, TLAPS

-----------------------------------------------------------------------------
(* Entities and components: the inductive invariant.                       *)

ObjectsType ==
  /\ phase \in {"blank", "on_init", "admin", "ready"}
  /\ sid \in 0 .. SidMax + 1
  /\ ents \in [Id -> Entity \cup {NoObject}]
  /\ cmps \in [Id -> Component \cup {NoObject}]
  /\ memory \in [Object -> Id \cup {Unborn, Freed}]
  /\ making \in Object \cup {NoObject}
  /\ held \subseteq Object /\ out \subseteq held /\ again \subseteq Id
  /\ admin \in Entity \cup {NoObject}

\* Between two lives of a context nothing is registered or handed out; only
\* recs_init on a context that was not zeroed finds the admin entity of an
\* earlier one, and it lost that one when it returns.
LivesInv ==
  /\ phase = "blank" => /\ making = NoObject /\ held = {}
                        /\ \A id \in Id : ents[id] = NoObject /\ cmps[id] = NoObject
  /\ phase \in {"on_init", "admin"} => reused \/ admin = NoObject
  /\ phase = "admin" => making \in Entity \cup {NoObject}
  /\ phase = "ready" /\ admin # NoObject => memory[admin] \in Id /\ admin \notin held

\* What is at work on has no id yet; what was handed out has one.
BirthInv ==
  /\ making # NoObject => memory[making] = Unborn
  /\ \A o \in held : memory[o] \in Id

\* What is found under an id carries it, and was handed out.
FoundInv ==
  /\ \A id \in Id : ents[id] # NoObject => memory[ents[id]] = id /\ ents[id] \in Kept
  /\ \A id \in Id : cmps[id] # NoObject => memory[cmps[id]] = id /\ cmps[id] \in Kept

\* What was handed out is found.
KeptInv ==
  /\ \A o \in Kept \cap Entity : ents[memory[o]] = o \/ memory[o] \in again
  /\ \A o \in Kept \cap Component : cmps[memory[o]] = o \/ memory[o] \in again

ObjectsInv == ObjectsType /\ LivesInv /\ BirthInv /\ FoundInv /\ KeptInv

-----------------------------------------------------------------------------
(* It is inductive.                                                        *)

LEMMA InitObjects == ObjectsInit => ObjectsInv
<1> SUFFICES ASSUME ObjectsInit PROVE ObjectsInv
  OBVIOUS
<1> USE EcsAssumption DEF ObjectsInit, EmptyMap
<1>1. ObjectsType
  BY DEF ObjectsType, Id
<1>2. LivesInv /\ BirthInv /\ FoundInv
  BY DEF LivesInv, BirthInv, FoundInv, Kept
<1>3. KeptInv
  BY DEF KeptInv, Kept
<1> QED BY <1>1, <1>2, <1>3 DEF ObjectsInv

LEMMA Kinds ==
  /\ NoObject \notin Object /\ Entity \subseteq Object /\ Component \subseteq Object
  /\ \A o \in Object : o \in Entity <=> o \notin Component
  /\ Unborn \notin Id /\ Freed \notin Id /\ Unborn # Freed
BY EcsAssumption DEF Object, Unborn, Freed, Id

LEMMA NextIdType == ObjectsType => NextId \in Id
BY EcsAssumption DEF ObjectsType, NextId, Id

LEMMA NewStep ==
  ASSUME ObjectsInv, NEW o \in Object, New(o)
  PROVE  ObjectsInv'
<1> USE DEF ObjectsInv
<1>1. /\ memory[o] = Freed /\ memory' = [memory EXCEPT ![o] = Unborn] /\ making' = o
      /\ making = NoObject /\ phase # "blank" /\ (phase = "admin" => o \in Entity)
      /\ UNCHANGED <<phase, sid, ents, cmps, held, out, again, admin, reused>>
  BY DEF New, users, Callable
<1>2. /\ memory'[o] = Unborn
      /\ \A x \in Object : memory[x] \in Id => memory'[x] = memory[x]
  BY <1>1, Kinds DEF ObjectsType
<1>3. ObjectsType'
  BY <1>1 DEF ObjectsType
<1>4. LivesInv'
  BY <1>1, <1>2, Kinds DEF LivesInv, ObjectsType
<1>5. BirthInv'
  BY <1>1, <1>2 DEF BirthInv, ObjectsType
<1>6. Kept' = Kept /\ \A x \in Kept : x \in Object /\ memory'[x] = memory[x]
  BY <1>1, <1>2, Kinds DEF Kept, ObjectsType, LivesInv, BirthInv
<1>7. FoundInv'
  BY <1>1, <1>6 DEF FoundInv
<1>8. KeptInv'
  BY <1>1, <1>6 DEF KeptInv
<1> QED BY <1>3, <1>4, <1>5, <1>7, <1>8

LEMMA PickTakenStep ==
  ASSUME ObjectsInv, PickTaken
  PROVE  ObjectsInv'
<1> USE DEF ObjectsInv
<1>1. /\ sid' = NextId
      /\ UNCHANGED <<phase, ents, cmps, memory, making, held, out, again, admin, reused>>
  BY DEF PickTaken, users
<1>2. ObjectsType'
  BY <1>1, NextIdType DEF ObjectsType, Id
<1>3. LivesInv' /\ BirthInv' /\ FoundInv'
  BY <1>1 DEF LivesInv, BirthInv, FoundInv, Kept
<1>4. KeptInv'
  BY <1>1 DEF KeptInv, Kept
<1> QED BY <1>2, <1>3, <1>4

\* A new object is handed out, as the admin entity or to the user.
LEMMA Handed ==
  ASSUME ObjectsInv, NEW o \in Object \cup {NoObject}, AdminMade(o),
         phase = "admin" => o \in Entity \cup {NoObject}
  PROVE  \/ /\ phase = "admin" /\ phase' = "ready" /\ admin' = o /\ held' = held
         \/ /\ phase # "admin" /\ phase' = phase /\ admin' = admin /\ reused' = reused
            /\ o = NoObject => held' = held
            /\ o # NoObject => held' = held \cup {o}
<1>1. o \in Object \cup {NoObject} /\ held \subseteq Object /\ NoObject \notin held
  BY Kinds DEF ObjectsInv, ObjectsType
<1>2. CASE phase = "admin"
  BY ONLY <1>2, AdminMade(o) DEF AdminMade
<1>3. CASE phase # "admin"
  <2>1. /\ held' = (held \cup {o}) \ {NoObject}
        /\ phase' = phase /\ admin' = admin /\ reused' = reused
    BY ONLY <1>3, AdminMade(o) DEF AdminMade
  <2> QED BY ONLY <1>1, <1>3, <2>1
<1> QED BY <1>2, <1>3

LEMMA PickFreeStep ==
  ASSUME ObjectsInv, PickFree
  PROVE  ObjectsInv'
<1> USE DEF ObjectsInv
<1> DEFINE o == making
           id == NextId
<1>1. /\ o \in Object /\ id \in Id /\ Map(o)[id] = NoObject /\ memory[o] = Unborn
      /\ sid' = id /\ memory' = [memory EXCEPT ![o] = id] /\ making' = NoObject
      /\ Register(o, id, o) /\ AdminMade(o)
      /\ UNCHANGED <<out, again>>
      /\ phase # "blank"
  BY NextIdType DEF PickFree, Taken, ObjectsType, BirthInv, LivesInv
<1>2. o \notin held /\ (phase = "ready" => o # admin)
  BY <1>1, Kinds DEF BirthInv, LivesInv, ObjectsType
<1>3. \/ /\ phase = "admin" /\ phase' = "ready" /\ admin' = o /\ held' = held /\ o \in Entity
      \/ /\ phase # "admin" /\ phase' = phase /\ admin' = admin /\ reused' = reused
         /\ held' = held \cup {o}
  BY <1>1, Kinds, Handed DEF LivesInv
<1>4. \/ /\ o \in Entity /\ ents' = [ents EXCEPT ![id] = o] /\ cmps' = cmps /\ ents[id] = NoObject
      \/ /\ o \in Component /\ cmps' = [cmps EXCEPT ![id] = o] /\ ents' = ents /\ cmps[id] = NoObject
  BY <1>1, Kinds DEF Register, Map
<1> HIDE DEF o, id
<1>5. memory'[o] = id /\ \A x \in Object : x # o => memory'[x] = memory[x]
  BY <1>1 DEF ObjectsType
<1>6. ObjectsType'
  BY <1>1, <1>3, <1>4, Kinds DEF ObjectsType, Id
<1>7. LivesInv'
  BY <1>1, <1>2, <1>3, <1>5, Kinds DEF LivesInv, ObjectsType
<1>8. BirthInv'
  BY <1>1, <1>2, <1>3, <1>5 DEF BirthInv, ObjectsType
<1>9. Kept' = Kept \cup {o} /\ Kept \subseteq Object /\ NoObject \notin Kept
  <2>1. o \notin out /\ NoObject \notin held /\ o # NoObject
    BY <1>1, <1>2, Kinds DEF ObjectsType
  <2> QED BY <1>1, <1>3, <2>1, Kinds DEF Kept, ObjectsType
<1>10. FoundInv'
  <2>1. ASSUME NEW i \in Id, ents'[i] # NoObject
        PROVE  memory'[ents'[i]] = i /\ ents'[i] \in Kept'
    <3>1. CASE ents'[i] = o
      BY <1>1, <1>2, <1>4, <1>5, <1>9, <2>1, <3>1, Kinds DEF FoundInv, ObjectsType, Kept
    <3>2. CASE ents'[i] # o
      <4>1. ents'[i] = ents[i]
        BY <1>1, <1>4, <3>2 DEF ObjectsType
      <4> QED BY <1>5, <1>9, <2>1, <3>2, <4>1 DEF FoundInv
    <3> QED BY <3>1, <3>2
  <2>2. ASSUME NEW i \in Id, cmps'[i] # NoObject
        PROVE  memory'[cmps'[i]] = i /\ cmps'[i] \in Kept'
    <3>1. CASE cmps'[i] = o
      BY <1>1, <1>2, <1>4, <1>5, <1>9, <2>2, <3>1, Kinds DEF FoundInv, ObjectsType, Kept
    <3>2. CASE cmps'[i] # o
      <4>1. cmps'[i] = cmps[i]
        BY <1>1, <1>4, <3>2 DEF ObjectsType
      <4> QED BY <1>5, <1>9, <2>2, <3>2, <4>1 DEF FoundInv
    <3> QED BY <3>1, <3>2
  <2> QED BY <2>1, <2>2 DEF FoundInv
<1>11. KeptInv'
  <2>1. Kept' \subseteq Kept \cup {o} /\ Kept \subseteq Object
    BY <1>9
  <2>2. \A x \in Kept : memory[x] \in Id /\ x # o
    BY <1>2 DEF Kept, BirthInv, LivesInv
  <2>3. ASSUME NEW x \in Kept' \cap Entity PROVE ents'[memory'[x]] = x \/ memory'[x] \in again'
    <3>1. CASE x = o
      BY <1>1, <1>4, <1>5, <2>3, <3>1, Kinds DEF ObjectsType
    <3>2. CASE x # o
      <4>1. x \in Kept /\ memory'[x] = memory[x] /\ memory[x] \in Id /\ x # NoObject
        BY <1>5, <2>1, <2>2, <2>3, <3>2, Kinds
      <4>2. ents[memory[x]] = x \/ memory[x] \in again
        BY <2>3, <4>1 DEF KeptInv
      <4> QED BY <1>1, <1>4, <4>1, <4>2 DEF ObjectsType
    <3> QED BY <3>1, <3>2
  <2>4. ASSUME NEW x \in Kept' \cap Component PROVE cmps'[memory'[x]] = x \/ memory'[x] \in again'
    <3>1. CASE x = o
      BY <1>1, <1>4, <1>5, <2>4, <3>1, Kinds DEF ObjectsType
    <3>2. CASE x # o
      <4>1. x \in Kept /\ memory'[x] = memory[x] /\ memory[x] \in Id /\ x # NoObject
        BY <1>5, <2>1, <2>2, <2>4, <3>2, Kinds
      <4>2. cmps[memory[x]] = x \/ memory[x] \in again
        BY <2>4, <4>1 DEF KeptInv
      <4> QED BY <1>1, <1>4, <4>1, <4>2 DEF ObjectsType
    <3> QED BY <3>1, <3>2
  <2> QED BY <2>3, <2>4 DEF KeptInv
<1> QED BY <1>6, <1>7, <1>8, <1>10, <1>11

LEMMA PickRefusedStep ==
  ASSUME ObjectsInv, PickRefused
  PROVE  ObjectsInv'
<1> USE DEF ObjectsInv
<1> DEFINE o == making
<1>1. /\ o \in Object /\ memory[o] = Unborn
      /\ sid' = NextId /\ memory' = [memory EXCEPT ![o] = Freed] /\ making' = NoObject
      /\ AdminMade(NoObject) /\ phase # "blank"
      /\ UNCHANGED <<ents, cmps, out, again>>
  BY DEF PickRefused, ObjectsType, BirthInv, LivesInv
<1>2. o \notin held /\ (phase = "ready" => o # admin)
  BY <1>1, Kinds DEF BirthInv, LivesInv, ObjectsType
<1>3. /\ held' = held
      /\ \/ phase = "admin" /\ phase' = "ready" /\ admin' = NoObject
         \/ phase # "admin" /\ phase' = phase /\ admin' = admin /\ reused' = reused
  BY <1>1, Handed DEF LivesInv
<1> HIDE DEF o
<1>4. \A x \in Object : x # o => memory'[x] = memory[x]
  BY <1>1 DEF ObjectsType
<1>5. ObjectsType'
  BY <1>1, <1>3, NextIdType, Kinds DEF ObjectsType, Id
<1>6. LivesInv'
  BY <1>1, <1>2, <1>3, <1>4, Kinds DEF LivesInv, ObjectsType
<1>7. BirthInv'
  BY <1>1, <1>2, <1>3, <1>4 DEF BirthInv, ObjectsType
<1>8. Kept' = Kept /\ \A x \in Kept : x \in Object /\ x # o
  BY <1>1, <1>2, <1>3, Kinds DEF Kept, ObjectsType
<1>9. FoundInv'
  BY <1>1, <1>4, <1>8 DEF FoundInv
<1>10. KeptInv'
  BY <1>1, <1>4, <1>8 DEF KeptInv
<1> QED BY <1>5, <1>6, <1>7, <1>9, <1>10

LEMMA DeleteStep ==
  ASSUME ObjectsInv, NEW o \in Object, NEW freed \in BOOLEAN, Delete(o, freed)
  PROVE  ObjectsInv'
<1> USE DEF ObjectsInv
<1> DEFINE id == memory[o]
<1>1. /\ o \in held /\ id \in Id /\ making = NoObject /\ phase \in {"on_init", "ready"}
      /\ Register(o, id, NoObject)
      /\ UNCHANGED <<phase, sid, making, admin, reused>>
      /\ phase = "ready" => o # admin
  BY Kinds DEF Delete, Callable, BirthInv, LivesInv
<1>2. \/ /\ memory' = [memory EXCEPT ![o] = Freed] /\ held' = held \ {o} /\ out' = out \ {o}
      \/ /\ memory' = [memory EXCEPT ![o] = id] /\ held' = held /\ out' = out \cup {o}
  BY DEF Delete
<1>3. again' = IF o \in out THEN again \cup {id} ELSE again
  BY DEF Delete
<1>4. \/ /\ o \in Entity /\ ents' = [ents EXCEPT ![id] = NoObject] /\ cmps' = cmps
      \/ /\ o \in Component /\ cmps' = [cmps EXCEPT ![id] = NoObject] /\ ents' = ents
  BY <1>1, Kinds DEF Register
<1>5. o \notin held' \ out' /\ held' \ out' = (held \ out) \ {o}
  BY <1>1, <1>2
<1>6. \A x \in Object : x # o => memory'[x] = memory[x]
  BY <1>2 DEF ObjectsType
<1>7. id = memory[o]
  OBVIOUS
<1> HIDE DEF id
<1>8. ObjectsType'
  BY <1>1, <1>2, <1>3, <1>4 DEF ObjectsType
<1>9. LivesInv'
  BY <1>1, <1>2, <1>6, Kinds DEF LivesInv, ObjectsType
<1>10. BirthInv'
  BY <1>1, <1>2, <1>6, <1>7 DEF BirthInv, ObjectsType
<1>11. Kept' = Kept \ {o}
  BY <1>1, <1>5 DEF Kept
<1>12. FoundInv'
  <2>1. ASSUME NEW i \in Id
        PROVE  /\ ents'[i] # NoObject => ents'[i] = ents[i] /\ ents[i] # o /\ ents[i] \in Object
               /\ cmps'[i] # NoObject => cmps'[i] = cmps[i] /\ cmps[i] # o /\ cmps[i] \in Object
    <3>1. ents[i] = o => o \in Entity /\ i = id
      BY <1>1, <1>7, Kinds DEF ObjectsType, FoundInv
    <3>2. cmps[i] = o => o \in Component /\ i = id
      BY <1>1, <1>7, Kinds DEF ObjectsType, FoundInv
    <3> QED BY <1>1, <1>4, <3>1, <3>2, Kinds DEF ObjectsType
  <2> QED BY <1>6, <1>11, <2>1 DEF FoundInv
<1>13. KeptInv'
  <2>1. Kept' = Kept \ {o}
    BY <1>11
  <2>2. \A x \in Kept : x \in Object /\ memory[x] \in Id
    BY Kinds DEF Kept, BirthInv, LivesInv, ObjectsType
  <2>3. again \subseteq again' /\ (o \in out => id \in again')
    BY <1>3
  <2>4. ASSUME NEW x \in Kept' \cap Entity PROVE ents'[memory'[x]] = x \/ memory'[x] \in again'
    <3>1. x \in Kept /\ x # o /\ memory'[x] = memory[x] /\ memory[x] \in Id
      BY <1>6, <2>1, <2>2, <2>4
    <3>2. ents[memory[x]] = x \/ memory[x] \in again
      BY <2>4, <3>1 DEF KeptInv
    <3>3. CASE o \in Entity /\ memory[x] = id
      <4>1. o \notin out => o \in Kept /\ (ents[id] = o \/ id \in again)
        BY <1>1, <1>7, <3>3 DEF Kept, KeptInv
      <4> QED BY <2>3, <3>1, <3>2, <3>3, <4>1
    <3>4. CASE ~(o \in Entity /\ memory[x] = id)
      <4>1. ents'[memory[x]] = ents[memory[x]]
        BY <1>4, <3>1, <3>4 DEF ObjectsType
      <4> QED BY <2>3, <3>1, <3>2, <4>1
    <3> QED BY <3>3, <3>4
  <2>5. ASSUME NEW x \in Kept' \cap Component PROVE cmps'[memory'[x]] = x \/ memory'[x] \in again'
    <3>1. x \in Kept /\ x # o /\ memory'[x] = memory[x] /\ memory[x] \in Id
      BY <1>6, <2>1, <2>2, <2>5
    <3>2. cmps[memory[x]] = x \/ memory[x] \in again
      BY <2>5, <3>1 DEF KeptInv
    <3>3. CASE o \in Component /\ memory[x] = id
      <4>1. o \notin out => o \in Kept /\ (cmps[id] = o \/ id \in again)
        BY <1>1, <1>7, <3>3 DEF Kept, KeptInv
      <4> QED BY <2>3, <3>1, <3>2, <3>3, <4>1
    <3>4. CASE ~(o \in Component /\ memory[x] = id)
      <4>1. cmps'[memory[x]] = cmps[memory[x]]
        BY <1>4, <3>1, <3>4 DEF ObjectsType
      <4> QED BY <2>3, <3>1, <3>2, <4>1
    <3> QED BY <3>3, <3>4
  <2> QED BY <2>4, <2>5 DEF KeptInv
<1> QED BY <1>8, <1>9, <1>10, <1>12, <1>13

LEMMA LoseAdminType ==
  ObjectsType /\ LoseAdmin => memory' \in [Object -> Id \cup {Unborn, Freed}]
<1> SUFFICES ASSUME ObjectsType, LoseAdmin
             PROVE  memory' \in [Object -> Id \cup {Unborn, Freed}]
  OBVIOUS
<1>1. \A o \in Object : memory[o] \in Id \cup {Unborn, Freed}
  BY DEF ObjectsType
<1> QED BY <1>1 DEF LoseAdmin

\* A context begins and ends with nothing registered.
LEMMA LivesStep ==
  ASSUME ObjectsInv, (\E zero \in BOOLEAN : EcsInit(zero)) \/ OnInitDone \/ \E freed \in BOOLEAN : Uninit(freed)
  PROVE  ObjectsInv'
<1> USE DEF ObjectsInv
<1>1. CASE \E zero \in BOOLEAN : EcsInit(zero)
  <2>1. PICK zero \in BOOLEAN : EcsInit(zero)
    BY <1>1
  <2>2. /\ phase = "blank" /\ phase' = "on_init" /\ reused' = ~zero
        /\ ents' = EmptyMap /\ cmps' = EmptyMap
        /\ \/ zero /\ sid' = 0 /\ admin' = NoObject /\ LoseAdmin
           \/ ~zero /\ UNCHANGED <<sid, admin, memory>>
        /\ UNCHANGED <<making, held, out, again>>
    BY <2>1 DEF EcsInit, users
  <2>3. held = {} /\ making = NoObject
    BY <2>2 DEF LivesInv
  <2>4. memory' \in [Object -> Id \cup {Unborn, Freed}]
    BY <2>2, LoseAdminType DEF ObjectsType
  <2>5. ObjectsType'
    BY <2>2, <2>4, EcsAssumption DEF ObjectsType, EmptyMap, Id
  <2>6. LivesInv' /\ BirthInv' /\ FoundInv'
    BY <2>2, <2>3 DEF LivesInv, BirthInv, FoundInv, EmptyMap
  <2>7. KeptInv'
    BY <2>2, <2>3 DEF KeptInv, Kept
  <2> QED BY <2>5, <2>6, <2>7
<1>2. CASE OnInitDone
  <2>1. /\ phase = "on_init" /\ phase' = "admin" /\ making = NoObject /\ LoseAdmin
        /\ UNCHANGED <<sid, ents, cmps, making, held, out, again, admin, reused>>
    BY <1>2 DEF OnInitDone, Callable, users
  <2>2. memory' \in [Object -> Id \cup {Unborn, Freed}]
        /\ \A o \in held : memory'[o] = memory[o]
    BY <2>1, LoseAdminType DEF ObjectsType, LoseAdmin
  <2>3. Kept' = Kept /\ Kept \subseteq held
    BY <2>1 DEF Kept
  <2>4. ObjectsType' /\ LivesInv' /\ BirthInv'
    BY <2>1, <2>2 DEF ObjectsType, LivesInv, BirthInv
  <2>5. FoundInv'
    BY <2>1, <2>2, <2>3 DEF FoundInv
  <2>6. KeptInv'
    BY <2>1, <2>2, <2>3 DEF KeptInv
  <2> QED BY <2>4, <2>5, <2>6
<1>3. CASE \E freed \in BOOLEAN : Uninit(freed)
  <2>1. /\ phase \in {"on_init", "ready"} /\ making = NoObject /\ phase' = "blank"
        /\ ents' = EmptyMap /\ cmps' = EmptyMap
        /\ held' = {} /\ out' = {} /\ again' = {} /\ reused' = FALSE
        /\ UNCHANGED <<sid, making, admin>>
    BY <1>3 DEF Uninit, Callable
  <2>2. memory' \in [Object -> Id \cup {Unborn, Freed}]
    <3>1. PICK freed \in BOOLEAN : Uninit(freed)
      BY <1>3
    <3> DEFINE lost == {o \in Object : o \in held \/ \E id \in Id : Map(o)[id] = o} \ {admin}
    <3>2. memory' = [o \in Object |-> IF o \in lost \/ (o = admin /\ freed) THEN Freed ELSE memory[o]]
      BY <3>1 DEF Uninit
    <3> HIDE DEF lost
    <3> QED BY <3>2 DEF ObjectsType
  <2>4. ObjectsType'
    BY <2>1, <2>2 DEF ObjectsType, EmptyMap
  <2>5. LivesInv' /\ BirthInv' /\ FoundInv'
    BY <2>1 DEF LivesInv, BirthInv, FoundInv, EmptyMap
  <2>6. KeptInv'
    BY <2>1 DEF KeptInv, Kept
    <2> QED BY <2>4, <2>5, <2>6
<1> QED BY <1>1, <1>2, <1>3

LEMMA ObjectsStep == ObjectsInv /\ [ObjectsNext]_objectVars => ObjectsInv'
<1> SUFFICES ASSUME ObjectsInv, [ObjectsNext]_objectVars PROVE ObjectsInv'
  OBVIOUS
<1>1. CASE ObjectsNext
  BY <1>1, NewStep, PickTakenStep, PickFreeStep, PickRefusedStep, DeleteStep, LivesStep
     DEF ObjectsNext
<1>2. CASE UNCHANGED objectVars
  BY <1>2 DEF objectVars, users, ObjectsInv, ObjectsType, LivesInv, BirthInv, FoundInv, KeptInv, Kept, NextId
<1> QED BY <1>1, <1>2

LEMMA ObjectsAreInv == ObjectsSpec => []ObjectsInv
BY InitObjects, ObjectsStep, PTL DEF ObjectsSpec

\* An object that recs_entity_new or recs_cmp_new handed out is found by its id until it
\* is deleted, over wraps of the id counter, ids that are taken, objects a full
\* context refuses and deletions that fail half way: the dictionaries, the
\* memory and what callers hold never part.
THEOREM ObjectsRegistered == ObjectsSpec => []Registered
<1>1. ObjectsInv => Registered
  <2> SUFFICES ASSUME ObjectsInv PROVE Registered
    OBVIOUS
  <2> USE DEF ObjectsInv
  <2>1. ASSUME NEW m \in {ents, cmps}, NEW id \in Id, m[id] # NoObject
        PROVE  memory[m[id]] = id /\ m[id] \in Kept
    BY <2>1 DEF FoundInv
  <2>2. ASSUME NEW o \in Kept
        PROVE  memory[o] \in Id /\ (Map(o)[memory[o]] = o \/ memory[o] \in again)
    <3>1. o \in Object /\ memory[o] \in Id
      BY Kinds DEF Kept, BirthInv, LivesInv, ObjectsType
    <3>2. Map(o) = IF o \in Entity THEN ents ELSE cmps
      BY DEF Map
    <3> QED BY <3>1, <3>2, Kinds DEF KeptInv
  <2> QED BY <2>1, <2>2 DEF Registered
<1> QED BY <1>1, ObjectsAreInv, PTL

\* recs_uninit frees an admin entity a second time in one case only: recs_init
\* was given a context as an earlier life left it, and on_init failed.  Over any
\* number of lives, of contexts zeroed or not, no other call does.
THEOREM StaleAdmin == ObjectsSpec => StaleOnlyIfReused
<1>1. ObjectsInv /\ [ObjectsNext]_objectVars => [~wild /\ wild' => phase = "on_init" /\ reused]_objectVars
  <2> SUFFICES ASSUME ObjectsInv, ObjectsNext, ~wild, wild'
               PROVE  phase = "on_init" /\ reused
    OBVIOUS
  <2>1. PICK freed \in BOOLEAN : Uninit(freed)
    <3>1. ASSUME NEW o \in Object, New(o) PROVE wild' = wild
      BY <3>1 DEF New
    <3>2. ASSUME PickTaken \/ PickFree \/ PickRefused PROVE wild' = wild
      BY <3>2 DEF PickTaken, PickFree, PickRefused
    <3>3. ASSUME NEW o \in Object, NEW freed \in BOOLEAN, Delete(o, freed) PROVE wild' = wild
      BY <3>3 DEF Delete
    <3>4. ASSUME NEW zero \in BOOLEAN, EcsInit(zero) \/ OnInitDone PROVE wild' = wild
      BY <3>4 DEF EcsInit, OnInitDone
    <3> QED BY <3>1, <3>2, <3>3, <3>4 DEF ObjectsNext
  <2>2. phase \in {"on_init", "ready"} /\ wild' = (wild \/ (admin # NoObject /\ memory[admin] = Freed))
    BY <2>1 DEF Uninit
  <2>3. admin # NoObject /\ memory[admin] = Freed
    BY <2>2, Zenon
  <2>4. phase # "ready"
    BY <2>3, Kinds DEF ObjectsInv, LivesInv
  <2> QED BY <2>2, <2>3, <2>4, Zenon DEF ObjectsInv, LivesInv
<1> QED BY <1>1, ObjectsAreInv, PTL DEF ObjectsSpec, StaleOnlyIfReused

-----------------------------------------------------------------------------
(* Sequences that lose an element.                                         *)

LEMMA LeastExists ==
  ASSUME NEW T, T \subseteq Nat, T # {}
  PROVE  \E x \in T : \A y \in T : x <= y
<1>1. IsWellFoundedOn(OpToRel(<, Nat), Nat)
  BY NatLessThanWellFounded
<1>2. PICK x \in T : \A y \in T : <<y, x>> \notin OpToRel(<, Nat)
  BY <1>1, WFMin
<1>3. \A y \in T : ~(y < x)
  BY <1>2 DEF OpToRel
<1> QED BY <1>3

LEMMA RemoveAtValue ==
  ASSUME NEW S, NEW s \in Seq(S), NEW k \in 1 .. Len(s)
  PROVE  /\ RemoveAt(s, k) \in Seq(S) /\ Len(RemoveAt(s, k)) = Len(s) - 1
         /\ \A i \in 1 .. Len(s) - 1 : RemoveAt(s, k)[i] = IF i < k THEN s[i] ELSE s[i + 1]
<1> DEFINE a == SubSeq(s, 1, k - 1)
           b == SubSeq(s, k + 1, Len(s))
<1>1. Len(s) \in Nat /\ \A i \in 1 .. Len(s) : s[i] \in S
  OBVIOUS
<1>2. a \in Seq(S) /\ Len(a) = k - 1 /\ \A i \in 1 .. k - 1 : a[i] = s[i]
  BY <1>1, SubSeqProperties
<1>3. /\ b \in Seq(S) /\ Len(b) = Len(s) - k
      /\ \A i \in 1 .. Len(s) - k : b[i] = s[k + i]
  BY <1>1, SubSeqProperties
<1>4. RemoveAt(s, k) = a \o b
  BY DEF RemoveAt
<1> HIDE DEF a, b
<1>5. /\ a \o b \in Seq(S) /\ Len(a \o b) = Len(a) + Len(b)
      /\ \A i \in 1 .. Len(a) + Len(b) : (a \o b)[i] = IF i <= Len(a) THEN a[i] ELSE b[i - Len(a)]
  BY <1>2, <1>3, ConcatProperties
<1>6. ASSUME NEW i \in 1 .. Len(s) - 1
      PROVE  (a \o b)[i] = IF i < k THEN s[i] ELSE s[i + 1]
  <2>1. (a \o b)[i] = IF i <= k - 1 THEN a[i] ELSE b[i - (k - 1)]
    BY <1>1, <1>2, <1>3, <1>5
  <2>2. CASE i < k
    BY <1>1, <1>2, <2>1, <2>2
  <2>3. CASE ~(i < k)
    <3>1. i - (k - 1) \in 1 .. Len(s) - k /\ k + (i - (k - 1)) = i + 1
      BY <1>1, <2>3
    <3> QED BY <1>1, <1>3, <2>1, <2>3, <3>1
  <2> QED BY <2>2, <2>3
<1> QED BY <1>1, <1>2, <1>3, <1>4, <1>5, <1>6

LEMMA RemoveFirstValue ==
  ASSUME NEW S, NEW s \in Seq(S), NEW e, NEW k \in 1 .. Len(s), s[k] = e,
         \A i \in 1 .. k - 1 : s[i] # e
  PROVE  RemoveFirst(s, e) = RemoveAt(s, k)
<1> DEFINE I == {i \in 1 .. Len(s) : s[i] = e}
<1>1. RemoveFirst(s, e) = RemoveAt(s, IF I # {} THEN Min(I) ELSE 0)
  BY DEF RemoveFirst, SelectInSeq
<1>2. k \in I /\ \A i \in I : k <= i
  OBVIOUS
<1>3. k \in Int /\ \A i \in I : i \in Int
  OBVIOUS
<1> DEFINE m == Min(I)
<1> HIDE DEF I
<1>4. Min(I) \in I /\ \A i \in I : Min(I) <= i
  BY <1>2, Zenon DEF Min
<1>5. m = k
  <2> HIDE DEF m
  <2>1. m \in I /\ \A i \in I : m <= i
    BY <1>4 DEF m
  <2>2. m \in Int /\ m <= k /\ k <= m
    BY <1>2, <1>3, <2>1
  <2> QED BY <1>3, <2>2
<1> QED BY <1>1, <1>2, <1>5

-----------------------------------------------------------------------------
(* The array is a sequence.                                                *)

ArrayInv == ArrayTypeOK /\ NothingBehind

LEMMA InitArray == ArrayInit => ArrayInv /\ Sequence!Init
<1> SUFFICES ASSUME ArrayInit PROVE ArrayInv /\ Sequence!Init
  OBVIOUS
<1>1. ArrayInv
  BY ArrayAssumption DEF ArrayInit, ArrayInv, ArrayTypeOK, NothingBehind, Zeroed
<1>2. Content = <<>>
  BY DEF ArrayInit, Content
<1> QED BY <1>1, <1>2 DEF Sequence!Init, ArrayInit

\* The slots of the elements, read as a sequence.
LEMMA ContentValue ==
  ASSUME ArrayInv
  PROVE  /\ Content \in Seq(Elem \cup {Null}) /\ Len(Content) = size /\ DOMAIN Content = 1 .. size
         /\ \A n \in 1 .. size : Content[n] = items[n - 1]
         /\ size \in Nat /\ capacity \in Nat /\ MaxSize \in Nat
<1>1. size \in Nat /\ capacity \in Nat /\ size <= capacity /\ MaxSize \in Nat
  BY ArrayAssumption DEF ArrayInv, ArrayTypeOK
<1>2. \A n \in 1 .. size : Slot(n - 1) = items[n - 1] /\ Slot(n - 1) \in Elem \cup {Null}
  BY <1>1 DEF ArrayInv, ArrayTypeOK, Slot
<1> QED BY <1>1, <1>2 DEF Content

\* Taking an element out of the slots takes it out of the sequence.
LEMMA ClosedUpValue ==
  ASSUME ArrayInv, NEW k \in 0 .. size - 1,
         items' = ClosedUp(k), size' = size - 1, UNCHANGED capacity, code' = "ok"
  PROVE  ArrayInv' /\ Content' = RemoveAt(Content, k + 1)
<1>1. /\ items \in [0 .. capacity - 1 -> Elem \cup {Null}]
      /\ size \in 0 .. capacity /\ size <= MaxSize /\ capacity \in Nat /\ k \in Nat /\ k < size
      /\ size \in Nat /\ MaxSize \in Nat
  BY ArrayAssumption DEF ArrayInv, ArrayTypeOK
<1>2. DOMAIN items' = 0 .. capacity - 1
  BY <1>1 DEF ClosedUp
<1>3. \A l \in 0 .. capacity - 1 : items'[l] = CASE l \in k .. size - 2 -> items[l + 1]
                                                [] l = size - 1 -> Null
                                                [] OTHER -> items[l]
  BY <1>1 DEF ClosedUp
<1>4. /\ \A l \in k .. size - 2 : items'[l] = items[l + 1]
      /\ items'[size - 1] = Null
      /\ \A l \in 0 .. capacity - 1 : l \notin k .. size - 1 => items'[l] = items[l]
  <2>1. ASSUME NEW l \in k .. size - 2 PROVE items'[l] = items[l + 1]
    <3>1. l \in 0 .. capacity - 1 /\ l # size - 1
      BY <1>1
    <3> QED BY <1>3, <3>1
  <2>2. items'[size - 1] = Null
    <3>1. size - 1 \in 0 .. capacity - 1 /\ size - 1 \notin k .. size - 2
      BY <1>1
    <3> QED BY <1>3, <3>1
  <2>3. ASSUME NEW l \in 0 .. capacity - 1, l \notin k .. size - 1 PROVE items'[l] = items[l]
    <3>1. l \notin k .. size - 2 /\ l # size - 1
      BY <1>1, <2>3
    <3> QED BY <1>3, <3>1
  <2> QED BY <2>1, <2>2, <2>3
<1>5. items' \in [0 .. capacity - 1 -> Elem \cup {Null}]
  <2>1. items' = [l \in 0 .. capacity - 1 |-> items'[l]]
    BY <1>1 DEF ClosedUp
  <2>2. ASSUME NEW l \in 0 .. capacity - 1 PROVE items'[l] \in Elem \cup {Null}
    <3>1. l \in k .. size - 2 => l + 1 \in 0 .. capacity - 1
      BY <1>1
    <3>2. l \in k .. size - 2 \/ l = size - 1 \/ l \notin k .. size - 1
      BY <1>1
    <3>3. \A m \in 0 .. capacity - 1 : items[m] \in Elem \cup {Null}
      BY <1>1
    <3> QED BY <1>4, <3>1, <3>2, <3>3
  <2> QED BY <2>1, <2>2
<1>6. NothingBehind'
  BY <1>1, <1>4 DEF ArrayInv, NothingBehind
<1>7. ArrayInv'
  <2>1. size' \in 0 .. capacity' /\ size' <= MaxSize
    BY <1>1
  <2> QED BY <1>5, <1>6, <2>1 DEF ArrayInv, ArrayTypeOK
<1>8. Content' \in Seq(Elem \cup {Null}) /\ Len(Content') = size - 1
      /\ \A n \in 1 .. size - 1 : Content'[n] = items'[n - 1]
  <2>1. (ArrayInv => /\ Content \in Seq(Elem \cup {Null}) /\ Len(Content) = size
                     /\ \A n \in 1 .. size : Content[n] = items[n - 1])'
    BY ContentValue, PTL
  <2> QED BY <1>7, <2>1
<1>9. Content \in Seq(Elem \cup {Null}) /\ Len(Content) = size
      /\ \A n \in 1 .. size : Content[n] = items[n - 1]
  BY ContentValue
<1> DEFINE c == Content
           d == Content'
           r == RemoveAt(c, k + 1)
<1>10. r \in Seq(Elem \cup {Null}) /\ Len(r) = size - 1
       /\ \A i \in 1 .. size - 1 : r[i] = IF i < k + 1 THEN c[i] ELSE c[i + 1]
  <2>1. k + 1 \in 1 .. Len(c)
    BY <1>1, <1>9
  <2> HIDE DEF c
  <2> QED BY <1>9, <2>1, RemoveAtValue DEF c
<1>11. ASSUME NEW i \in 1 .. size - 1 PROVE d[i] = r[i]
  <2>1. d[i] = items'[i - 1] /\ i \in Nat
    BY <1>8
  <2>2. CASE i < k + 1
    <3>1. i - 1 \in 0 .. capacity - 1 /\ i - 1 \notin k .. size - 1 /\ i \in 1 .. size
      BY <1>1, <2>1, <2>2
    <3> QED BY <1>4, <1>9, <1>10, <2>1, <2>2, <3>1
  <2>3. CASE ~(i < k + 1)
    <3>1. i - 1 \in k .. size - 2 /\ (i - 1) + 1 = i /\ i + 1 \in 1 .. size /\ (i + 1) - 1 = i
      BY <1>1, <2>1, <2>3
    <3>2. d[i] = items[i]
      BY <1>4, <2>1, <3>1
    <3>3. r[i] = c[i + 1] /\ c[i + 1] = items[i]
      BY <1>9, <1>10, <2>3, <3>1
    <3> QED BY <3>2, <3>3
  <2> QED BY <2>2, <2>3
<1> HIDE DEF c, d, r
<1>12. d = r
  BY <1>8, <1>10, <1>11, SeqEqual DEF d
<1> QED BY <1>7, <1>12 DEF c, d, r

LEMMA AddValue ==
  ASSUME ArrayInv, NEW e \in Elem, ArrayAdd(e)
  PROVE  ArrayInv' /\ Content' = Append(Content, e) /\ size < MaxSize /\ code' = "ok"
<1> DEFINE room == IF size >= capacity THEN 2 * capacity ELSE capacity
           block == IF size >= capacity THEN Enlarged(room) ELSE items
<1>1. /\ items \in [0 .. capacity - 1 -> Elem \cup {Null}]
      /\ size \in 0 .. capacity /\ size <= MaxSize /\ capacity \in Nat \ {0}
      /\ size \in Nat /\ MaxSize \in Nat
  BY ArrayAssumption DEF ArrayInv, ArrayTypeOK
<1>2. /\ size < MaxSize /\ items' = [block EXCEPT ![size] = e]
      /\ capacity' = room /\ size' = size + 1 /\ code' = "ok"
  BY DEF ArrayAdd
<1>3. room \in Nat \ {0} /\ capacity <= room /\ size < room
  BY <1>1
<1>4. /\ block \in [0 .. room - 1 -> Elem \cup {Null}]
      /\ \A l \in 0 .. size - 1 : block[l] = items[l]
      /\ \A l \in size .. room - 1 : block[l] = Null
  <2>1. CASE size >= capacity
    <3>1. size = capacity /\ block = Enlarged(room)
      BY <1>1, <2>1
    <3> HIDE DEF room, block
    <3>2. block = [l \in 0 .. room - 1 |-> IF l < size THEN items[l] ELSE Null]
      BY <3>1 DEF Enlarged
    <3> QED BY <1>1, <1>3, <3>1, <3>2
  <2>2. CASE ~(size >= capacity)
    BY <1>1, <2>2 DEF ArrayInv, NothingBehind
  <2> QED BY <2>1, <2>2
<1> HIDE DEF room, block
<1>5. /\ items' \in [0 .. room - 1 -> Elem \cup {Null}]
      /\ items'[size] = e
      /\ \A l \in 0 .. size - 1 : items'[l] = items[l]
      /\ \A l \in size + 1 .. room - 1 : items'[l] = Null
  BY <1>1, <1>2, <1>3, <1>4
<1>6. ArrayInv'
  <2>1. NothingBehind'
    BY <1>2, <1>5 DEF NothingBehind
  <2>2. size' \in 0 .. capacity' /\ size' <= MaxSize
    BY <1>1, <1>2, <1>3
  <2> QED BY <1>2, <1>3, <1>5, <2>1, <2>2 DEF ArrayInv, ArrayTypeOK
<1> DEFINE c == Content
           d == Content'
           r == Append(c, e)
<1>7. d \in Seq(Elem \cup {Null}) /\ Len(d) = size + 1
      /\ \A n \in 1 .. size + 1 : d[n] = items'[n - 1]
  <2>1. (ArrayInv => /\ Content \in Seq(Elem \cup {Null}) /\ Len(Content) = size
                     /\ \A n \in 1 .. size : Content[n] = items[n - 1])'
    BY ContentValue, PTL
  <2> QED BY <1>2, <1>6, <2>1
<1>8. c \in Seq(Elem \cup {Null}) /\ Len(c) = size
      /\ \A n \in 1 .. size : c[n] = items[n - 1]
  BY ContentValue
<1> HIDE DEF c, d
<1>9. r \in Seq(Elem \cup {Null}) /\ Len(r) = size + 1
      /\ (\A n \in 1 .. size : r[n] = c[n]) /\ r[size + 1] = e
  BY <1>8, AppendProperties
<1> HIDE DEF r
<1>10. ASSUME NEW n \in 1 .. size + 1 PROVE d[n] = r[n]
  <2>1. CASE n = size + 1
    <3>1. d[n] = items'[n - 1] /\ n - 1 = size
      BY <1>1, <1>7, <2>1
    <3> QED BY <1>5, <1>9, <2>1, <3>1
  <2>2. CASE n # size + 1
    <3>1. n \in 1 .. size /\ n - 1 \in 0 .. size - 1
      BY <1>1, <2>2
    <3> QED BY <1>5, <1>7, <1>8, <1>9, <3>1
  <2> QED BY <2>1, <2>2
<1>11. d = r
  BY <1>7, <1>9, <1>10, SeqEqual
<1> QED BY <1>2, <1>6, <1>11 DEF c, d, r

LEMMA FirstValue ==
  ASSUME ArrayInv, NEW e, Exist(e)
  PROVE  LET k == First(Places(e))
         IN  /\ k \in 0 .. size - 1 /\ k + 1 \in 1 .. size /\ Content[k + 1] = e
             /\ \A i \in 1 .. k : Content[i] # e
<1> DEFINE P == Places(e)
           k == First(P)
<1>1. P \subseteq Nat /\ P # {}
  BY DEF Places, Exist
<1>2. \E x \in P : \A y \in P : x <= y
  <2> HIDE DEF P
  <2> QED BY <1>1, LeastExists
<1>3. k \in P /\ \A y \in P : k <= y
  <2> HIDE DEF P
  <2> QED BY <1>2, Zenon DEF First
<1> HIDE DEF k
<1>4. k \in 0 .. size - 1 /\ items[k] = e /\ size \in Nat
  BY <1>3, ContentValue DEF Places
<1>5. k + 1 \in 1 .. size /\ Content[k + 1] = e
  <2>1. k + 1 \in 1 .. size /\ (k + 1) - 1 = k
    BY <1>4
  <2> QED BY <1>4, <2>1, ContentValue
<1>6. ASSUME NEW i \in 1 .. k PROVE Content[i] # e
  <2>1. i \in 1 .. size /\ i - 1 \in 0 .. size - 1 /\ ~(k <= i - 1)
    BY <1>4
  <2>2. i - 1 \notin P
    BY <1>3, <2>1
  <2> QED BY <2>1, <2>2, ContentValue DEF Places
<1> QED BY <1>4, <1>5, <1>6 DEF k

LEMMA RemoveValue ==
  ASSUME ArrayInv, NEW e, Exist(e), ArrayRemove(e)
  PROVE  /\ ArrayInv' /\ code' = "ok" /\ Content' = RemoveFirst(Content, e)
         /\ First(Places(e)) \in 0 .. size - 1 /\ size' = size - 1
         /\ Content' = RemoveAt(Content, First(Places(e)) + 1)
         /\ Content[First(Places(e)) + 1] = e
<1> DEFINE k == First(Places(e))
<1>1. items' = ClosedUp(k) /\ size' = size - 1 /\ code' = "ok" /\ UNCHANGED capacity
  BY DEF ArrayRemove
<1>2. /\ k \in 0 .. size - 1 /\ k + 1 \in 1 .. size /\ Content[k + 1] = e
      /\ \A i \in 1 .. k : Content[i] # e
  BY FirstValue
<1> HIDE DEF k
<1>3. ArrayInv' /\ Content' = RemoveAt(Content, k + 1)
  BY <1>1, <1>2, ClosedUpValue
<1>4. RemoveFirst(Content, e) = RemoveAt(Content, k + 1)
  <2> DEFINE c == Content
  <2>1. c \in Seq(Elem \cup {Null}) /\ k + 1 \in 1 .. Len(c) /\ c[k + 1] = e /\ (k + 1) - 1 = k
    BY <1>2, ContentValue
  <2>2. \A i \in 1 .. (k + 1) - 1 : c[i] # e
    BY <1>2, <2>1
  <2> HIDE DEF c
  <2>3. RemoveFirst(c, e) = RemoveAt(c, k + 1)
    BY <2>1, <2>2, RemoveFirstValue
  <2> QED BY <2>3 DEF c
<1> QED BY <1>1, <1>2, <1>3, <1>4 DEF k

LEMMA ExistValue ==
  ASSUME ArrayInv, NEW e
  PROVE  Exist(e) <=> \E i \in 1 .. size : Content[i] = e
<1>1. size \in Nat /\ \A n \in 1 .. size : Content[n] = items[n - 1]
  BY ContentValue
<1>2. ASSUME Exist(e) PROVE \E i \in 1 .. size : Content[i] = e
  <2>1. PICK k \in 0 .. size - 1 : items[k] = e
    BY <1>2 DEF Exist, Places
  <2>2. k + 1 \in 1 .. size /\ (k + 1) - 1 = k
    BY <1>1
  <2> QED BY <1>1, <2>1, <2>2
<1>3. ASSUME NEW i \in 1 .. size, Content[i] = e PROVE Exist(e)
  <2>1. i - 1 \in 0 .. size - 1 /\ items[i - 1] = e
    BY <1>1, <1>3
  <2> QED BY <2>1 DEF Exist, Places
<1> QED BY <1>2, <1>3

LEMMA ClearValue ==
  ASSUME ArrayInv, ArrayClear
  PROVE  ArrayInv' /\ Content' = <<>> /\ code' = "ok"
<1>1. ArrayInv'
  BY ArrayAssumption DEF ArrayClear, ArrayInv, ArrayTypeOK, NothingBehind, Zeroed
<1>2. Content' = <<>>
  BY DEF ArrayClear, Content
<1> QED BY <1>1, <1>2 DEF ArrayClear

LEMMA ArrayStays ==
  ASSUME ArrayInv, UNCHANGED <<items, size, capacity>>, code' \in {"ok", "not_exist", "out4_size"}
  PROVE  ArrayInv' /\ Content' = Content
BY DEF ArrayInv, ArrayTypeOK, NothingBehind, Content, Slot

LEMMA ArrayStep == ArrayInv /\ [ArrayNext]_arrayVars => ArrayInv' /\ [Sequence!Next]_(Sequence!vars)
<1> SUFFICES ASSUME ArrayInv, [ArrayNext]_arrayVars
             PROVE  ArrayInv' /\ [Sequence!Next]_(Sequence!vars)
  OBVIOUS
<1>1. Len(Content) = size /\ DOMAIN Content = 1 .. size /\ size \in Nat /\ MaxSize \in Nat
      /\ size <= MaxSize
  BY ContentValue DEF ArrayInv, ArrayTypeOK
<1>2. ASSUME NEW e \in Elem, ArrayAdd(e) PROVE ArrayInv' /\ Sequence!Next
  <2>1. ArrayInv' /\ Sequence!Append1(e)
    BY <1>1, <1>2, AddValue DEF Sequence!Append1
  <2> QED BY <2>1 DEF Sequence!Next
<1>3. ASSUME NEW e \in Elem, ArrayRemove(e) PROVE ArrayInv' /\ Sequence!Next
  <2>1. Exist(e) <=> Sequence!Contains(Content, e)
    BY <1>1, ExistValue DEF Sequence!Contains
  <2>2. CASE Exist(e)
    <3>1. ArrayInv' /\ code' = "ok" /\ Content' = RemoveFirst(Content, e)
      BY <1>3, <2>2, RemoveValue
    <3>2. RemoveFirst(Content, e) = Sequence!RemoveFirst(Content, e)
      BY DEF RemoveFirst, Sequence!RemoveFirst, RemoveAt, Sequence!RemoveAt, SelectInSeq,
             Sequence!SelectInSeq, Min, Sequence!Min
    <3>3. Sequence!Remove1(e)
      BY <2>1, <2>2, <3>1, <3>2 DEF Sequence!Remove1
    <3> QED BY <3>1, <3>3 DEF Sequence!Next
  <2>3. CASE ~Exist(e)
    <3>1. UNCHANGED <<items, size, capacity>> /\ code' = "not_exist"
      BY <1>3, <2>3 DEF ArrayRemove
    <3>2. ArrayInv' /\ Sequence!Remove1(e)
      BY <2>1, <2>3, <3>1, ArrayStays DEF Sequence!Remove1
    <3> QED BY <3>2 DEF Sequence!Next
  <2> QED BY <2>2, <2>3
<1>4. ASSUME NEW k \in 0 .. MaxSize, ArrayRemoveAt(k) PROVE ArrayInv' /\ Sequence!Next
  <2>1. k + 1 \in 1 .. MaxSize + 1 /\ (k < size <=> k + 1 \in DOMAIN Content)
    BY <1>1
  <2>2. CASE k < size
    <3>1. ArrayInv' /\ Content' = RemoveAt(Content, k + 1) /\ code' = "ok"
      BY <1>1, <1>4, <2>2, ClosedUpValue DEF ArrayRemoveAt
    <3>2. Sequence!RemoveNth(k + 1)
      BY <2>1, <2>2, <3>1 DEF Sequence!RemoveNth, Sequence!RemoveAt, RemoveAt
    <3> QED BY <2>1, <3>1, <3>2 DEF Sequence!Next
  <2>3. CASE ~(k < size)
    <3>1. UNCHANGED <<items, size, capacity>> /\ code' = "out4_size"
      BY <1>4, <2>3 DEF ArrayRemoveAt
    <3>2. ArrayInv' /\ Sequence!RemoveNth(k + 1)
      BY <2>1, <2>3, <3>1, ArrayStays DEF Sequence!RemoveNth
    <3> QED BY <2>1, <3>2 DEF Sequence!Next
  <2> QED BY <2>2, <2>3
<1>5. ASSUME ArrayClear PROVE ArrayInv' /\ Sequence!Next
  BY <1>5, ClearValue DEF Sequence!Next, Sequence!Empty
<1>6. ASSUME UNCHANGED arrayVars PROVE ArrayInv' /\ UNCHANGED Sequence!vars
  <2>1. UNCHANGED <<items, size, capacity, code>> /\ code \in {"ok", "not_exist", "out4_size"}
    BY <1>6 DEF arrayVars, ArrayInv, ArrayTypeOK
  <2> QED BY <2>1, ArrayStays DEF Sequence!vars
<1> QED BY <1>2, <1>3, <1>4, <1>5, <1>6 DEF ArrayNext

\* Seen from its callers rarray is a sequence, however often it grows and
\* wherever elements are inserted, shifted away or overwritten: every call takes
\* effect in one step or changes nothing and reports its error.
THEOREM SequenceRefined == ArraySpec => ImplementsSeq
<1>1. ArrayInit => ArrayInv /\ Sequence!Init
  BY InitArray
<1>2. ArrayInv /\ [ArrayNext]_arrayVars => ArrayInv' /\ [Sequence!Next]_(Sequence!vars)
  BY ArrayStep
<1> QED BY <1>1, <1>2, PTL DEF ArraySpec, ImplementsSeq, Sequence!Spec

-----------------------------------------------------------------------------
(* The walk over the systems: the inductive invariant.                     *)

WalkType ==
  /\ exec \in {"running"} \cup Stopped
  /\ pc \in Phases \cup {"idle"}
  /\ index \in 0 .. MaxSize
  /\ cur \in System \cup {Null}
  /\ pc = "idle" => cur = Null /\ index = 0
  /\ adding \in Seq(System) /\ called \in Seq(System)
  /\ there \subseteq System /\ gone \subseteq System /\ cuts \in 0 .. MaxSize

\* The array holds each system once, in the order they joined; one that still
\* initialises itself is not in it.
SystemsInv ==
  /\ joined = Content
  /\ \A m \in 1 .. size : Content[m] \in System
  /\ \A m, n \in 1 .. size : Content[m] = Content[n] => m = n
  /\ \A i \in DOMAIN adding : \A m \in 1 .. size : Content[m] # adding[i]
  /\ \A i, j \in DOMAIN adding : adding[i] = adding[j] => i = j

\* What was called and not removed is behind the walk.
Behind(x) == \E m \in 1 .. size : m <= index /\ Content[m] = x
Before(x, y) == \E m, n \in 1 .. size : m < n /\ Content[m] = x /\ Content[n] = y

WalkInv ==
  /\ \A k \in DOMAIN called : called[k] \notin gone => Behind(called[k])
  /\ \A k, l \in DOMAIN called :
       k < l /\ called[k] \notin gone /\ called[l] \notin gone => Before(called[k], called[l])

\* The places the walk is past without having called who is there now, and
\* those it is past and the array has lost: a removal makes at most one.
Holes == {m \in 1 .. index : m > size \/ Content[m] \notin Range(called)}

MissedInv ==
  /\ \A x \in there \ gone : \E m \in 1 .. size : Content[m] = x
  /\ Cardinality(Holes) <= cuts

RunInv == ArrayInv /\ WalkType /\ SystemsInv /\ WalkInv /\ MissedInv

LEMMA SystemFacts ==
  /\ Elem = System /\ Null \notin System /\ MaxSize \in Nat
  /\ Cardinality(System) = MaxSize /\ IsFiniteSet(System)
BY SystemAssumption, ArrayAssumption

\* The value of Content and the bounds of the walk, as every step needs them.
LEMMA RunFacts ==
  ASSUME RunInv
  PROVE  /\ size \in Nat /\ size <= MaxSize /\ MaxSize \in Nat /\ index \in Nat /\ cuts \in Nat
         /\ Content \in Seq(System) /\ Len(Content) = size /\ DOMAIN Content = 1 .. size
         /\ IsFiniteSet(Holes) /\ Cardinality(Holes) \in Nat /\ Cardinality(Holes) <= MaxSize
<1>1. size \in Nat /\ size <= MaxSize /\ MaxSize \in Nat /\ index \in 0 .. MaxSize /\ cuts \in Nat
      /\ index \in Nat
  BY SystemFacts DEF RunInv, WalkType, ArrayInv, ArrayTypeOK
<1>2. Len(Content) = size /\ DOMAIN Content = 1 .. size /\ Content \in Seq(Elem \cup {Null})
  BY ContentValue DEF RunInv
<1>3. Content \in Seq(System)
  BY <1>1, <1>2, ElementOfSeq DEF RunInv, SystemsInv
<1>4. IsFiniteSet(1 .. index) /\ Cardinality(1 .. index) <= MaxSize
  <2> DEFINE n == index
  <2> HIDE DEF n
  <2>1. n \in Nat /\ n <= MaxSize
    BY <1>1 DEF n
  <2>2. IsFiniteSet(1 .. n) /\ Cardinality(1 .. n) = IF 1 > n THEN 0 ELSE n - 1 + 1
    <3>1. 1 \in Int /\ n \in Int
      BY <2>1
    <3> QED BY ONLY <3>1, FS_Interval
  <2>3. Cardinality(1 .. n) <= MaxSize
    BY <1>1, <2>1, <2>2
  <2> QED BY <2>2, <2>3 DEF n
<1>5. IsFiniteSet(Holes) /\ Cardinality(Holes) <= Cardinality(1 .. index)
  <2>1. Holes \subseteq 1 .. index
    BY DEF Holes
  <2> QED BY <1>4, <2>1, FS_Subset
<1>6. Cardinality(Holes) \in Nat /\ Cardinality(1 .. index) \in Nat
  BY <1>4, <1>5, FS_CardinalityType
<1> QED BY <1>1, <1>2, <1>3, <1>4, <1>5, <1>6

LEMMA InitRun == Init => RunInv /\ Sequence!Init
<1> SUFFICES ASSUME Init PROVE RunInv /\ Sequence!Init
  OBVIOUS
<1>1. ArrayInv /\ Sequence!Init
  BY InitArray DEF Init
<1>2. size = 0 /\ index = 0 /\ Content = <<>> /\ MaxSize \in Nat
  BY SystemFacts DEF Init, ArrayInit, Content
<1>3. adding = <<>> /\ called = <<>>
  BY DEF Init
<1>4. adding \in Seq(System) /\ called \in Seq(System) /\ DOMAIN adding = {} /\ DOMAIN called = {}
  BY <1>3
<1>5. WalkType
  BY <1>2, <1>4, SystemAssumption DEF Init, WalkType
<1>6. SystemsInv /\ WalkInv
  BY <1>2, <1>4 DEF Init, SystemsInv, WalkInv
<1>7. MissedInv
  <2>1. Holes = {}
    BY <1>2 DEF Holes
  <2>2. Cardinality(Holes) = 0
    BY <2>1, FS_EmptySet
  <2> QED BY <2>2 DEF Init, MissedInv
<1> QED BY <1>1, <1>5, <1>6, <1>7 DEF RunInv


LEMMA AddingFacts ==
  ASSUME RunInv
  PROVE  /\ Len(adding) \in Nat /\ DOMAIN adding = 1 .. Len(adding)
         /\ \A i \in 1 .. Len(adding) : adding[i] \in System
         /\ adding # <<>> => /\ Len(adding) \in 1 .. Len(adding) /\ Last(adding) = adding[Len(adding)]
                             /\ Front(adding) \in Seq(System) /\ Len(Front(adding)) = Len(adding) - 1
                             /\ \A i \in 1 .. Len(adding) - 1 : Front(adding)[i] = adding[i]
<1>1. adding \in Seq(System)
  BY DEF RunInv, WalkType
<1> HIDE DEF RunInv
<1>2. Len(adding) \in Nat /\ DOMAIN adding = 1 .. Len(adding)
      /\ \A i \in 1 .. Len(adding) : adding[i] \in System
  BY <1>1
<1>3. ASSUME adding # <<>> PROVE Len(adding) \in 1 .. Len(adding)
  BY <1>1, <1>3
<1>4. /\ SubSeq(adding, 1, Len(adding) - 1) \in Seq(System)
      /\ adding # <<>> => Len(SubSeq(adding, 1, Len(adding) - 1)) = Len(adding) - 1
      /\ \A i \in 1 .. Len(adding) - 1 : SubSeq(adding, 1, Len(adding) - 1)[i] = adding[i]
  <2> DEFINE n == Len(adding) - 1
             q == SubSeq(adding, 1, n)
  <2>1. 1 \in Int /\ n \in Int /\ n + 1 = Len(adding) /\ \A i \in 1 .. n : adding[i] \in System
    BY <1>2
  <2>2. adding # <<>> => n >= 0
    BY <1>2, <1>3
  <2> HIDE DEF n
  <2>3. /\ q \in Seq(System) /\ Len(q) = IF 1 <= n THEN n - 1 + 1 ELSE 0
        /\ \A i \in 1 .. n - 1 + 1 : q[i] = adding[1 + i - 1]
    BY <2>1, SubSeqProperties
  <2> HIDE DEF q
  <2>4. \A i \in 1 .. n : q[i] = adding[i]
    BY <2>1, <2>3
  <2>5. adding # <<>> => Len(q) = n
    BY <2>1, <2>2, <2>3
  <2> QED BY <2>3, <2>4, <2>5 DEF q, n
<1> QED BY <1>2, <1>3, <1>4 DEF Last, Front

\* What the walk does to the array is what the interface of the array allows.
LEMMA RunArray ==
  ASSUME RunInv, [Next]_vars
  PROVE  [ArrayNext]_arrayVars
<1>1. ASSUME NEW t \in System, SysRemove(t) PROVE ArrayNext
  BY <1>1, SystemFacts DEF SysRemove, ArrayNext
<1>2. ASSUME SysAdded PROVE ArrayNext
  BY <1>2, SystemFacts, AddingFacts DEF SysAdded, ArrayNext
<1>3. ASSUME \/ \E t \in System : SysAdd(t)
             \/ \E v \in {"running"} \cup (Stopped \ {"init"}) : SetState(v)
             \/ Run \/ Call \/ EndPhase \/ Return \/ UNCHANGED vars
      PROVE  UNCHANGED arrayVars
  BY <1>3 DEF SysAdd, SetState, Run, Call, EndPhase, Return, vars
<1> QED BY <1>1, <1>2, <1>3 DEF Next

LEMMA ArrayQuiet ==
  ASSUME RunInv, UNCHANGED arrayVars
  PROVE  ArrayInv' /\ Content' = Content /\ size' = size
<1>1. UNCHANGED <<items, size, capacity, code>> /\ code \in {"ok", "not_exist", "out4_size"}
  BY DEF arrayVars, RunInv, ArrayInv, ArrayTypeOK
<1> QED BY <1>1, ArrayStays DEF RunInv

\* The steps that leave the array alone.
LEMMA SysAddStep ==
  ASSUME RunInv, NEW t \in System, SysAdd(t)
  PROVE  RunInv'
<1>1. /\ t \notin Range(adding) /\ ~Exist(t) /\ adding' = Append(adding, t)
      /\ UNCHANGED <<arrayVars, exec, pc, index, cur, called, there, gone, cuts, joined>>
  BY DEF SysAdd, walk, history
<1>2. ArrayInv' /\ Content' = Content /\ size' = size
  BY <1>1, ArrayQuiet
<1>3. adding \in Seq(System)
  BY DEF RunInv, WalkType
<1>4. /\ adding' \in Seq(System) /\ DOMAIN adding' = 1 .. Len(adding) + 1
      /\ \A i \in 1 .. Len(adding) : adding'[i] = adding[i]
      /\ adding'[Len(adding) + 1] = t
  BY <1>1, <1>3
<1>5. WalkType'
  BY <1>1, <1>4 DEF RunInv, WalkType
<1>6. SystemsInv'
  <2>1. \A m \in 1 .. size : Content[m] # t
    BY <1>1, ExistValue DEF RunInv
  <2>2. \A i \in 1 .. Len(adding) : adding[i] # t
    BY <1>1, AddingFacts DEF Range
  <2>3. ASSUME NEW i \in DOMAIN adding' PROVE i \in 1 .. Len(adding) \/ i = Len(adding) + 1
    <3>1. i \in 1 .. Len(adding) + 1 /\ Len(adding) \in Nat
      BY <1>4, AddingFacts
    <3> QED BY <3>1
  <2> QED BY <1>1, <1>2, <1>4, <2>1, <2>2, <2>3, AddingFacts DEF RunInv, SystemsInv
<1>7. WalkInv' /\ MissedInv'
  BY <1>1, <1>2 DEF RunInv, WalkInv, MissedInv, Behind, Before, Holes
<1> QED BY <1>2, <1>5, <1>6, <1>7 DEF RunInv

LEMMA SameWalk ==
  ASSUME RunInv,
         UNCHANGED <<arrayVars, pc, index, adding, called, there, gone, cuts, joined>>,
         exec' \in {"running"} \cup Stopped, cur' \in {cur, Null}
  PROVE  RunInv'
<1>1. ArrayInv' /\ Content' = Content /\ size' = size
  BY ArrayQuiet
<1>2. WalkType'
  BY DEF RunInv, WalkType
<1>3. SystemsInv' /\ WalkInv' /\ MissedInv'
  BY <1>1 DEF RunInv, SystemsInv, WalkInv, MissedInv, Behind, Before, Holes
<1> QED BY <1>1, <1>2, <1>3 DEF RunInv

LEMMA BeginStep ==
  ASSUME RunInv, NEW p \in Phases \cup {"idle"}, BeginPhase(p), cur = Null,
         UNCHANGED <<arrayVars, exec, cur, adding, joined>>
  PROVE  RunInv'
<1>1. /\ pc' = p /\ index' = 0 /\ called' = <<>> /\ gone' = {} /\ cuts' = 0
      /\ there' = IF p = "idle" THEN {} ELSE Range(Content)
  BY DEF BeginPhase
<1>2. ArrayInv' /\ Content' = Content /\ size' = size
  BY ArrayQuiet
<1>3. called' \in Seq(System) /\ DOMAIN called' = {}
  BY <1>1
<1>4. \A x \in there' : x \in System /\ \E m \in 1 .. size : Content[m] = x
  BY <1>1, RunFacts DEF RunInv, SystemsInv, Range
<1>5. WalkType'
  BY <1>1, <1>3, <1>4, SystemFacts DEF RunInv, WalkType
<1>6. SystemsInv'
  BY <1>2 DEF RunInv, SystemsInv
<1>7. WalkInv'
  BY <1>3 DEF WalkInv
<1>8. MissedInv'
  <2>1. Holes' = {}
    BY <1>1 DEF Holes
  <2>2. Cardinality(Holes') = 0
    BY <2>1, FS_EmptySet
  <2> QED BY <1>1, <1>2, <1>4, <2>2 DEF MissedInv
<1> QED BY <1>2, <1>5, <1>6, <1>7, <1>8 DEF RunInv

\* The next system is called: it is behind the walk now.
LEMMA CallStep ==
  ASSUME RunInv, Call
  PROVE  RunInv'
<1> DEFINE x == Slot(index)
           n == Len(called) + 1
<1>1. /\ pc \in Phases /\ index + 1 <= size /\ cur' = x /\ index' = index + 1
      /\ called' = Append(called, x)
      /\ UNCHANGED <<arrayVars, exec, pc, adding, there, gone, cuts, joined>>
  BY DEF Call, HasNext
<1>2. ArrayInv' /\ Content' = Content /\ size' = size
  BY <1>1, ArrayQuiet
<1>3. index + 1 \in 1 .. size /\ x = Content[index + 1] /\ x \in System
  <2>1. index + 1 \in 1 .. size /\ (index + 1) - 1 = index
    BY <1>1, RunFacts
  <2>2. Content[index + 1] = Slot(index)
    BY <2>1 DEF Content
  <2> QED BY <2>1, <2>2, RunFacts DEF RunInv, SystemsInv
<1>4. called \in Seq(System) /\ Len(called) \in Nat /\ DOMAIN called = 1 .. Len(called)
  BY DEF RunInv, WalkType
<1> HIDE DEF x
<1>5. /\ called' \in Seq(System) /\ DOMAIN called' = 1 .. n
      /\ \A i \in 1 .. Len(called) : called'[i] = called[i]
      /\ called'[n] = x
  BY <1>1, <1>3, <1>4
<1>6. WalkType'
  BY <1>1, <1>3, <1>5, RunFacts DEF RunInv, WalkType, Phases
<1>7. SystemsInv'
  BY <1>1, <1>2 DEF RunInv, SystemsInv
<1>8. \A i \in 1 .. n : i \in 1 .. Len(called) \/ i = n
  BY <1>4
<1>9. WalkInv'
  <2>1. ASSUME NEW k \in 1 .. n, called'[k] \notin gone PROVE Behind(called[k])'
    <3>1. CASE k = n
      BY <1>1, <1>2, <1>3, <1>5, <3>1, RunFacts DEF Behind
    <3>2. CASE k # n
      <4>1. k \in DOMAIN called /\ called'[k] = called[k]
        BY <1>4, <1>5, <1>8, <3>2
      <4>2. PICK m \in 1 .. size : m <= index /\ Content[m] = called[k]
        BY <2>1, <4>1 DEF RunInv, WalkInv, Behind
      <4>3. m <= index'
        BY <1>1, <4>2, RunFacts
      <4> QED BY <1>2, <4>1, <4>2, <4>3 DEF Behind
    <3> QED BY <3>1, <3>2
  <2>2. ASSUME NEW k \in 1 .. n, NEW l \in 1 .. n, k < l,
               called'[k] \notin gone, called'[l] \notin gone
        PROVE  Before(called[k], called[l])'
    <3>1. k \in DOMAIN called /\ called'[k] = called[k]
      BY <1>4, <1>5, <2>2
    <3>2. CASE l = n
      <4>1. PICK m \in 1 .. size : m <= index /\ Content[m] = called[k]
        BY <2>2, <3>1 DEF RunInv, WalkInv, Behind
      <4>2. m < index + 1
        BY <4>1, RunFacts
      <4> QED BY <1>2, <1>3, <1>5, <3>1, <3>2, <4>1, <4>2 DEF Before
    <3>3. CASE l # n
      <4>1. l \in DOMAIN called /\ called'[l] = called[l]
        BY <1>4, <1>5, <1>8, <3>3
      <4>2. Before(called[k], called[l])
        BY <2>2, <3>1, <4>1 DEF RunInv, WalkInv
      <4> QED BY <1>2, <3>1, <4>1, <4>2 DEF Before
    <3> QED BY <3>2, <3>3
  <2> QED BY <1>1, <1>5, <2>1, <2>2 DEF WalkInv
<1>10. MissedInv'
  <2>1. Holes' \subseteq Holes
    <3> SUFFICES ASSUME NEW m \in Holes' PROVE m \in Holes
      OBVIOUS
    <3>1. m \in 1 .. index + 1 /\ (m > size \/ Content[m] \notin Range(called'))
      BY <1>1, <1>2 DEF Holes
    <3>2. Range(called) \subseteq Range(called') /\ x \in Range(called')
      BY <1>4, <1>5 DEF Range
    <3>3. m # index + 1
      BY <1>1, <1>3, <3>1, <3>2, RunFacts
    <3>4. m \in 1 .. index
      BY <3>1, <3>3, RunFacts
    <3> QED BY <3>1, <3>2, <3>4 DEF Holes
  <2>2. Cardinality(Holes') <= Cardinality(Holes) /\ Cardinality(Holes') \in Nat
    BY <2>1, RunFacts, FS_Subset, FS_CardinalityType
  <2>3. Cardinality(Holes') <= cuts
    BY <2>2, RunFacts DEF RunInv, MissedInv
  <2> QED BY <1>1, <1>2, <2>3 DEF RunInv, MissedInv
<1> QED BY <1>2, <1>6, <1>7, <1>9, <1>10 DEF RunInv

\* The innermost init function is through, and its system joins.
LEMMA SysAddedStep ==
  ASSUME RunInv, SysAdded
  PROVE  RunInv'
<1> DEFINE t == Last(adding)
           k == Len(adding)
<1>1. /\ adding # <<>> /\ ArrayAdd(t) /\ there' = there \cup {t} /\ joined' = Append(joined, t)
      /\ adding' = Front(adding)
      /\ UNCHANGED <<exec, pc, index, cur, called, gone, cuts>>
  BY DEF SysAdded, walk
<1>2. /\ k \in DOMAIN adding /\ t = adding[k] /\ t \in System /\ k \in Nat
      /\ DOMAIN adding = 1 .. k
      /\ adding' \in Seq(System) /\ Len(adding') = k - 1
      /\ \A i \in 1 .. k - 1 : adding'[i] = adding[i]
  BY <1>1, AddingFacts
<1> HIDE DEF t, k
<1>3. ArrayInv' /\ Content' = Append(Content, t) /\ size' = size + 1 /\ size < MaxSize
  <2>1. size' = size + 1
    BY <1>1 DEF ArrayAdd
  <2> QED BY <1>1, <1>2, <2>1, AddValue, SystemFacts DEF RunInv
<1>4. /\ \A m \in 1 .. size : Content'[m] = Content[m]
      /\ Content'[size + 1] = t
  BY <1>2, <1>3, RunFacts, AppendProperties
<1>5. \A m \in 1 .. size : Content[m] # t
  BY <1>2 DEF RunInv, SystemsInv
<1>6. \A m \in 1 .. size + 1 : m \in 1 .. size \/ m = size + 1
  BY RunFacts
<1>7. WalkType'
  BY <1>1, <1>2 DEF RunInv, WalkType
<1>8. SystemsInv'
  <2>1. joined' = Content'
    BY <1>1, <1>3 DEF RunInv, SystemsInv
  <2>2. \A m \in 1 .. size + 1 : Content'[m] \in System
    BY <1>2, <1>4, <1>6 DEF RunInv, SystemsInv
  <2>3. \A m, n \in 1 .. size + 1 : Content'[m] = Content'[n] => m = n
    BY <1>4, <1>5, <1>6 DEF RunInv, SystemsInv
  <2>4. DOMAIN adding' = 1 .. k - 1 /\ \A i \in 1 .. k - 1 : i \in DOMAIN adding /\ i # k
    BY <1>2
  <2>5. ASSUME NEW i \in 1 .. k - 1 PROVE adding[i] # t
    BY <1>2, <2>4, <2>5 DEF RunInv, SystemsInv
  <2>6. \A i \in 1 .. k - 1 : \A m \in 1 .. size + 1 : Content'[m] # adding'[i]
    BY <1>2, <1>4, <1>6, <2>4, <2>5 DEF RunInv, SystemsInv
  <2>7. \A i, j \in 1 .. k - 1 : adding'[i] = adding'[j] => i = j
    BY <1>2, <2>4 DEF RunInv, SystemsInv
  <2> QED BY <1>3, <2>1, <2>2, <2>3, <2>4, <2>6, <2>7 DEF SystemsInv
<1>9. WalkInv'
  <2>1. \A x : Behind(x) => \E m \in 1 .. size + 1 : m <= index /\ Content'[m] = x
    BY <1>4, RunFacts DEF Behind
  <2>2. \A x, y : Before(x, y) =>
          \E m, n \in 1 .. size + 1 : m < n /\ Content'[m] = x /\ Content'[n] = y
    BY <1>4, RunFacts DEF Before
  <2>3. ASSUME NEW i \in DOMAIN called, called[i] \notin gone PROVE Behind(called[i])'
    <3>1. \E m \in 1 .. size + 1 : m <= index /\ Content'[m] = called[i]
      BY <2>1, <2>3 DEF RunInv, WalkInv
    <3> QED BY <1>1, <1>3, <3>1 DEF Behind
  <2>4. ASSUME NEW i \in DOMAIN called, NEW j \in DOMAIN called, i < j,
               called[i] \notin gone, called[j] \notin gone
        PROVE  Before(called[i], called[j])'
    <3>1. \E m, n \in 1 .. size + 1 : m < n /\ Content'[m] = called[i] /\ Content'[n] = called[j]
      BY <2>2, <2>4 DEF RunInv, WalkInv
    <3> QED BY <1>1, <1>3, <3>1 DEF Before
  <2> QED BY <1>1, <2>3, <2>4 DEF WalkInv
<1>10. MissedInv'
  <2>1. ASSUME NEW x \in there' \ gone' PROVE \E m \in 1 .. size' : Content'[m] = x
    <3>1. CASE x = t
      BY <1>3, <1>4, <3>1, RunFacts
    <3>2. CASE x # t
      <4>1. x \in there \ gone
        BY <1>1, <2>1, <3>2
      <4>2. PICK m \in 1 .. size : Content[m] = x
        BY <4>1 DEF RunInv, MissedInv
      <4>3. m \in 1 .. size'
        BY <1>3, RunFacts
      <4> QED BY <1>4, <4>2, <4>3
    <3> QED BY <3>1, <3>2
  <2>2. Holes' \subseteq Holes
    <3> SUFFICES ASSUME NEW m \in Holes' PROVE m \in Holes
      OBVIOUS
    <3>1. m \in 1 .. index /\ (m > size + 1 \/ Content'[m] \notin Range(called))
      BY <1>1, <1>3 DEF Holes
    <3>2. CASE m > size
      BY <3>1, <3>2 DEF Holes
    <3>3. CASE ~(m > size)
      <4>1. m \in 1 .. size /\ ~(m > size + 1)
        BY <3>1, <3>3, RunFacts
      <4> QED BY <1>4, <3>1, <4>1 DEF Holes
    <3> QED BY <3>2, <3>3
  <2>3. Cardinality(Holes') <= Cardinality(Holes) /\ Cardinality(Holes') \in Nat
    BY <2>2, RunFacts, FS_Subset, FS_CardinalityType
  <2>4. Cardinality(Holes') <= cuts
    BY <2>3, RunFacts DEF RunInv, MissedInv
  <2> QED BY <1>1, <2>1, <2>4 DEF MissedInv
<1> QED BY <1>3, <1>7, <1>8, <1>9, <1>10 DEF RunInv

\* The array closes up: who is behind the removed system moves by one place,
\* and with it at most one from in front of the walk to behind it.
LEMMA SysRemoveStep ==
  ASSUME RunInv, NEW t \in System, SysRemove(t)
  PROVE  RunInv'
<1> DEFINE k == First(Places(t)) + 1
<1>1. /\ Exist(t) /\ ArrayRemove(t) /\ gone' = gone \cup {t} /\ joined' = RemoveFirst(joined, t)
      /\ cuts' = IF pc # "idle" /\ First(Places(t)) < index /\ cuts < MaxSize THEN cuts + 1 ELSE cuts
      /\ UNCHANGED <<exec, pc, index, cur, adding, called, there>>
  BY DEF SysRemove, walk
<1>2. /\ ArrayInv' /\ Content' = RemoveFirst(Content, t) /\ Content' = RemoveAt(Content, k)
      /\ size' = size - 1 /\ First(Places(t)) \in 0 .. size - 1 /\ Content[k] = t
  BY <1>1, RemoveValue DEF RunInv
<1>3. k \in 1 .. size /\ First(Places(t)) = k - 1
  BY <1>2, RunFacts
<1> HIDE DEF k
<1>4. \A m \in 1 .. size - 1 : Content'[m] = IF m < k THEN Content[m] ELSE Content[m + 1]
  <2> DEFINE c == Content
  <2>1. c \in Seq(System) /\ Len(c) = size
    BY RunFacts
  <2> HIDE DEF c
  <2>2. \A m \in 1 .. Len(c) - 1 : RemoveAt(c, k)[m] = IF m < k THEN c[m] ELSE c[m + 1]
    BY <1>3, <2>1, RemoveAtValue
  <2> QED BY <1>2, <2>1, <2>2 DEF c
<1>5. \A m \in 1 .. size : Content[m] = t => m = k
  BY <1>2, <1>3 DEF RunInv, SystemsInv
\* From a place before the step to the one after, and back.
<1> DEFINE new(m) == IF m < k THEN m ELSE m - 1
           old(m) == IF m < k THEN m ELSE m + 1
<1>6. \A m \in 1 .. size - 1 : old(m) \in 1 .. size /\ old(m) # k /\ Content'[m] = Content[old(m)]
                               /\ m <= old(m)
  BY <1>3, <1>4, RunFacts
<1>7. \A m \in 1 .. size : m # k => /\ new(m) \in 1 .. size - 1 /\ new(m) <= m
                                    /\ Content'[new(m)] = Content[m]
  <2> SUFFICES ASSUME NEW m \in 1 .. size, m # k
               PROVE  /\ new(m) \in 1 .. size - 1 /\ new(m) <= m
                      /\ Content'[new(m)] = Content[m]
    OBVIOUS
  <2>1. CASE m < k
    <3>1. m \in 1 .. size - 1 /\ new(m) = m
      BY <1>3, <2>1, RunFacts
    <3> QED BY <1>4, <2>1, <3>1
  <2>2. CASE ~(m < k)
    <3>1. m - 1 \in 1 .. size - 1 /\ new(m) = m - 1 /\ ~(m - 1 < k) /\ (m - 1) + 1 = m /\ m - 1 <= m
      BY <1>3, <2>2, RunFacts
    <3> QED BY <1>4, <2>2, <3>1
  <2> QED BY <2>1, <2>2
<1>8. \A m, n \in 1 .. size : m < n /\ m # k /\ n # k => new(m) < new(n)
  BY <1>3, RunFacts
<1>9. \A m, n \in 1 .. size - 1 : old(m) = old(n) => m = n
  BY <1>3, RunFacts
<1> HIDE DEF new, old
<1>10. cuts' \in 0 .. MaxSize
  BY <1>1, RunFacts DEF RunInv, WalkType
<1>11. WalkType'
  BY <1>1, <1>10 DEF RunInv, WalkType
<1>12. SystemsInv'
  <2>1. joined' = Content'
    BY <1>1, <1>2 DEF RunInv, SystemsInv
  <2>2. \A m \in 1 .. size - 1 : Content'[m] \in System
    BY <1>6 DEF RunInv, SystemsInv
  <2>3. \A m, n \in 1 .. size - 1 : Content'[m] = Content'[n] => m = n
    BY <1>6, <1>9 DEF RunInv, SystemsInv
  <2>4. \A i \in DOMAIN adding : \A m \in 1 .. size - 1 : Content'[m] # adding[i]
    BY <1>6 DEF RunInv, SystemsInv
  <2> QED BY <1>1, <1>2, <2>1, <2>2, <2>3, <2>4 DEF RunInv, SystemsInv
<1>13. WalkInv'
  <2>1. ASSUME NEW x, x # t, Behind(x)
        PROVE  \E m \in 1 .. size - 1 : m <= index /\ Content'[m] = x
    <3>1. PICK m \in 1 .. size : m <= index /\ Content[m] = x
      BY <2>1 DEF Behind
    <3>2. m # k
      BY <1>2, <2>1, <3>1
    <3>3. new(m) \in 1 .. size - 1 /\ new(m) <= m /\ Content'[new(m)] = x
      BY <1>7, <3>1, <3>2
    <3>4. new(m) <= index
      BY <3>1, <3>3, RunFacts
    <3> QED BY <3>3, <3>4
  <2>2. ASSUME NEW x, NEW y, x # t, y # t, Before(x, y)
        PROVE  \E m, n \in 1 .. size - 1 : m < n /\ Content'[m] = x /\ Content'[n] = y
    <3>1. PICK m \in 1 .. size, n \in 1 .. size : m < n /\ Content[m] = x /\ Content[n] = y
      BY <2>2 DEF Before
    <3>2. m # k /\ n # k
      BY <1>2, <2>2, <3>1
    <3>3. new(m) < new(n) /\ new(m) \in 1 .. size - 1 /\ new(n) \in 1 .. size - 1
          /\ Content'[new(m)] = x /\ Content'[new(n)] = y
      BY <1>7, <1>8, <3>1, <3>2
    <3> QED BY <3>3
  <2>3. ASSUME NEW i \in DOMAIN called, called[i] \notin gone' PROVE Behind(called[i])'
    <3>1. called[i] # t /\ Behind(called[i])
      BY <1>1, <2>3 DEF RunInv, WalkInv
    <3>2. \E m \in 1 .. size - 1 : m <= index /\ Content'[m] = called[i]
      BY <2>1, <3>1
    <3> QED BY <1>1, <1>2, <3>2 DEF Behind
  <2>4. ASSUME NEW i \in DOMAIN called, NEW j \in DOMAIN called, i < j,
               called[i] \notin gone', called[j] \notin gone'
        PROVE  Before(called[i], called[j])'
    <3>1. called[i] # t /\ called[j] # t /\ Before(called[i], called[j])
      BY <1>1, <2>4 DEF RunInv, WalkInv
    <3>2. \E m, n \in 1 .. size - 1 : m < n /\ Content'[m] = called[i] /\ Content'[n] = called[j]
      BY <2>2, <3>1
    <3> QED BY <1>1, <1>2, <3>2 DEF Before
  <2> QED BY <1>1, <2>3, <2>4 DEF WalkInv
<1>14. MissedInv'
  <2>1. ASSUME NEW x \in there' \ gone' PROVE \E m \in 1 .. size' : Content'[m] = x
    <3>1. x \in there \ gone /\ x # t
      BY <1>1, <2>1
    <3>2. PICK m \in 1 .. size : Content[m] = x
      BY <3>1 DEF RunInv, MissedInv
    <3>3. m # k
      BY <1>2, <3>1, <3>2
    <3> QED BY <1>2, <1>7, <3>2, <3>3
  <2>2. CASE k > index
    <3>1. Holes' \subseteq Holes
      <4> SUFFICES ASSUME NEW m \in Holes' PROVE m \in Holes
        OBVIOUS
      <4>1. m \in 1 .. index /\ (m > size - 1 \/ Content'[m] \notin Range(called))
        BY <1>1, <1>2 DEF Holes
      <4>2. m < k /\ m \in 1 .. size - 1
        BY <1>3, <2>2, <4>1, RunFacts
      <4>3. Content'[m] = Content[m] /\ ~(m > size - 1)
        BY <1>4, <4>2, RunFacts
      <4> QED BY <4>1, <4>3 DEF Holes
    <3>2. Cardinality(Holes') <= Cardinality(Holes) /\ Cardinality(Holes') \in Nat
      BY <3>1, RunFacts, FS_Subset, FS_CardinalityType
    <3>3. ~(First(Places(t)) < index)
      BY <1>3, <2>2, RunFacts
    <3>4. cuts' = cuts
      BY <1>1, <3>3
    <3>5. Cardinality(Holes') <= cuts'
      BY <3>2, <3>4, RunFacts DEF RunInv, MissedInv
    <3> QED BY <2>1, <3>5 DEF MissedInv
  <2>3. CASE ~(k > index)
    <3> DEFINE H == Holes'
               rest == H \ {index}
               f == [m \in rest |-> old(m)]
    <3>1. H \subseteq 1 .. index /\ \A m \in H : m > size - 1 \/ Content'[m] \notin Range(called)
      BY <1>1, <1>2 DEF Holes
    <3>2. IsFiniteSet(1 .. index) /\ Cardinality(1 .. index) <= MaxSize
      <4> DEFINE n == index
      <4> HIDE DEF n
      <4>1. n \in Nat /\ n <= MaxSize /\ MaxSize \in Nat
        BY RunFacts DEF n, RunInv, WalkType
      <4>2. IsFiniteSet(1 .. n) /\ Cardinality(1 .. n) = IF 1 > n THEN 0 ELSE n - 1 + 1
        <5>1. 1 \in Int /\ n \in Int
          BY <4>1
        <5> QED BY ONLY <5>1, FS_Interval
      <4>3. Cardinality(1 .. n) <= MaxSize
        BY <4>1, <4>2
      <4> QED BY <4>2, <4>3 DEF n
    <3>3. IsFiniteSet(H) /\ Cardinality(H) <= Cardinality(1 .. index)
      <4> HIDE DEF H
      <4> QED BY <3>1, <3>2, FS_Subset
    <3>4. Cardinality(H) \in Nat /\ Cardinality(H) <= MaxSize
      <4> HIDE DEF H
      <4>1. Cardinality(H) \in Nat /\ Cardinality(1 .. index) \in Nat
        BY <3>2, <3>3, FS_CardinalityType
      <4> QED BY <3>2, <3>3, <4>1, RunFacts
    <3>5. ASSUME NEW m \in rest PROVE old(m) \in Holes
      <4>1. m \in 1 .. index - 1 /\ m \in H /\ m \in Nat
        BY <3>1, RunFacts
      <4>2. old(m) \in 1 .. index
        BY <4>1, RunFacts DEF old
      <4>3. CASE m > size - 1
        <5>1. old(m) > size
          BY <1>3, <4>1, <4>3, RunFacts DEF old
        <5> QED BY <4>2, <5>1 DEF Holes
      <4>4. CASE ~(m > size - 1)
        <5>1. m \in 1 .. size - 1
          BY <4>1, <4>4, RunFacts
        <5>2. Content[old(m)] \notin Range(called)
          BY <1>6, <3>1, <4>1, <4>4, <5>1
        <5> QED BY <4>2, <5>2 DEF Holes
      <4> QED BY <4>3, <4>4
    <3>6. ASSUME NEW m \in rest, NEW n \in rest, old(m) = old(n) PROVE m = n
      <4>1. m \in Nat /\ n \in Nat /\ k \in Nat
        BY <1>3, <3>1, RunFacts
      <4> QED BY <3>6, <4>1 DEF old
    <3> HIDE DEF H
    <3>7. f \in Injection(rest, Holes)
      <4> HIDE DEF rest
      <4> QED BY <3>5, <3>6 DEF Injection, IsInjective
    <3>8. Cardinality(rest) <= Cardinality(Holes)
      <4> HIDE DEF f, rest
      <4> QED BY <3>7, RunFacts, FS_Injection
    <3>9. IsFiniteSet(rest) /\ Cardinality(rest) = IF index \in H THEN Cardinality(H) - 1 ELSE Cardinality(H)
      BY <3>3, FS_RemoveElement
    <3>10. Cardinality(rest) \in Nat
      BY <3>9, FS_CardinalityType
    <3>11. Cardinality(H) <= Cardinality(Holes) + 1
      BY <3>4, <3>8, <3>9, <3>10, RunFacts
    <3>12. cuts' = IF cuts < MaxSize THEN cuts + 1 ELSE cuts
      <4>1. First(Places(t)) < index /\ index # 0
        BY <1>3, <2>3, RunFacts
      <4>2. pc # "idle"
        BY <4>1 DEF RunInv, WalkType
      <4> QED BY <1>1, <4>1, <4>2
    <3>13. Cardinality(H) <= cuts'
      <4>1. cuts \in 0 .. MaxSize /\ Cardinality(Holes) <= cuts
        BY DEF RunInv, WalkType, MissedInv
      <4> QED BY <3>4, <3>11, <3>12, <4>1, RunFacts
    <3> QED BY <2>1, <3>13 DEF MissedInv, H
  <2> QED BY <2>2, <2>3
<1> QED BY <1>2, <1>11, <1>12, <1>13, <1>14 DEF RunInv

LEMMA RunStep == RunInv /\ [Next]_vars => RunInv'
<1> SUFFICES ASSUME RunInv, [Next]_vars PROVE RunInv'
  OBVIOUS
<1>1. ASSUME NEW v \in {"running"} \cup (Stopped \ {"init"}), SetState(v) PROVE RunInv'
  BY <1>1, SameWalk DEF SetState, walk, history
<1>2. CASE Run
  <2>1. cur = Null
    BY <1>2 DEF Run, RunInv, WalkType
  <2> QED BY <1>2, <2>1, BeginStep DEF Run, Phases
<1>3. CASE EndPhase
  <2>1. PhaseAfter(pc) \in Phases \cup {"idle"}
    BY DEF PhaseAfter, Phases
  <2> QED BY <1>3, <2>1, BeginStep DEF EndPhase
<1>4. CASE Return
  <2>1. exec \in {"running"} \cup Stopped
    BY DEF RunInv, WalkType
  <2> QED BY <1>4, <2>1, SameWalk DEF Return, history
<1>5. CASE UNCHANGED vars
  <2>1. exec \in {"running"} \cup Stopped
    BY DEF RunInv, WalkType
  <2> QED BY <1>5, <2>1, SameWalk DEF vars, walk, history
<1> QED BY <1>1, <1>2, <1>3, <1>4, <1>5, SysAddStep, SysAddedStep, SysRemoveStep, CallStep DEF Next

LEMMA RunIsInv == Spec => []RunInv
<1>1. Init => RunInv
  BY InitRun
<1> QED BY <1>1, RunStep, PTL DEF Spec

\* A phase of recs_run calls the systems in the order they were added in and
\* none of them twice, whatever the callbacks add to the array it walks and
\* remove from it; only a system that was taken out and added again moves.
THEOREM SystemsInOrder == Spec => []CallsInOrder
<1>1. RunInv => CallsInOrder
  <2> SUFFICES ASSUME RunInv PROVE CallsInOrder
    OBVIOUS
  <2>1. TypeOK
    <3>1. Range(called) \subseteq System
      <4>1. called \in Seq(System)
        BY DEF RunInv, WalkType
      <4> QED BY <4>1 DEF Range
    <3> QED BY <3>1 DEF TypeOK, RunInv, WalkType, ArrayInv
  <2>2. joined = Content /\ DOMAIN joined = 1 .. size
    BY RunFacts DEF RunInv, SystemsInv
  <2>3. ASSUME NEW k \in DOMAIN called, NEW l \in DOMAIN called, k < l,
               {called[k], called[l]} \cap gone = {}
        PROVE  \E m, n \in DOMAIN joined : m < n /\ joined[m] = called[k] /\ joined[n] = called[l]
    BY <2>2, <2>3 DEF RunInv, WalkInv, Before
  <2> QED BY <2>1, <2>3 DEF CallsInOrder
<1> QED BY <1>1, RunIsInv, PTL

\* The walk of a phase misses no more systems than callbacks removed at or in
\* front of it, and none that they added behind it.
THEOREM OnlyRemovalMisses == Spec => []MissedByRemovalOnly
<1>1. RunInv => MissedByRemovalOnly
  <2> SUFFICES ASSUME RunInv, ~HasNext(index + 1)
               PROVE  Cardinality((there \ gone) \ Range(called)) <= cuts
    BY DEF MissedByRemovalOnly
  <2> DEFINE Y == (there \ gone) \ Range(called)
             D == {m \in 1 .. size : Content[m] \in Y}
             f == [m \in D |-> Content[m]]
  <2>1. index >= size
    BY RunFacts DEF HasNext
  <2>2. D \subseteq Holes
    BY <2>1, RunFacts DEF Holes
  <2>3. IsFiniteSet(D) /\ Cardinality(D) <= Cardinality(Holes)
    <3> HIDE DEF D
    <3> QED BY <2>2, RunFacts, FS_Subset
  <2>4. f \in Surjection(D, Y)
    <3>1. \A y \in Y : \E m \in D : Content[m] = y
      BY DEF RunInv, MissedInv
    <3> QED BY <3>1 DEF Surjection
  <2>5. IsFiniteSet(Y) /\ Cardinality(Y) <= Cardinality(D)
    <3> HIDE DEF D, Y, f
    <3> QED BY <2>3, <2>4, FS_Surjection
  <2>6. Cardinality(Y) \in Nat /\ Cardinality(D) \in Nat
    <3> HIDE DEF D, Y
    <3> QED BY <2>3, <2>5, FS_CardinalityType
  <2> HIDE DEF D, Y
  <2>7. Cardinality(Y) <= cuts
    BY <2>3, <2>5, <2>6, RunFacts DEF RunInv, MissedInv
  <2> QED BY <2>7 DEF Y
<1> QED BY <1>1, RunIsInv, PTL

\* The array of the systems stays a sequence under the calls of recs_run and
\* of the callbacks that change it while it is walked.
THEOREM SystemsAreSequence == Spec => ImplementsSeq
<1>1. Init => Sequence!Init
  BY InitRun
<1>2. RunInv /\ [Next]_vars => [Sequence!Next]_(Sequence!vars)
  <2>1. RunInv /\ [Next]_vars => [ArrayNext]_arrayVars
    BY RunArray
  <2>2. RunInv => ArrayInv
    BY DEF RunInv
  <2> QED BY <2>1, <2>2, ArrayStep
<1> QED BY <1>1, <1>2, RunIsInv, PTL DEF Spec, ImplementsSeq, Sequence!Spec
=============================================================================
