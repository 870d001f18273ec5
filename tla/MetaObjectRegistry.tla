------------------------- MODULE MetaObjectRegistry -------------------------
(***************************************************************************)
(* The registry of meta objects, which counts the instances of every class *)
(* from the probe's objectCreated() and objectDestroyed().                 *)
(*                                                                         *)
(* Meta object 0 is a static one, QObject's.  The others are made at       *)
(* run-time, as by QML: several of one class name may exist, several       *)
(* objects may share one, and an address is used again after the meta      *)
(* object there is destroyed.  The registry merges those of one name into  *)
(* the first one it has seen, the canonical one.                           *)
(***************************************************************************)
EXTENDS Integers, FiniteSets, Sequences, SequencesExt, BagsExt

CONSTANTS Obj,         \* addresses of objects
          MaxMeta,     \* dynamic meta objects have the addresses 1..MaxMeta
          Class,       \* names of the dynamic classes
          Base,        \* Base[c]: the class that c is derived from, or QObject
          MaxCreated   \* bound: objects created

ASSUME RegistryAssumption ==
  /\ MaxMeta \in Nat \ {0} /\ MaxCreated \in Nat
  /\ "QObject" \notin Class /\ Base \in [Class -> Class \cup {"QObject"}]

VARIABLES
  live,      \* meta objects that exist: live[m] is their name and superClass()
  object,    \* objects that exist: their metaObject()
  created,
  info,      \* m_metaObjectInfoMap and m_childParentMap, of known meta objects
  children,  \* m_parentChildMap
  canonical, \* m_metaObjectMap
  byName,    \* m_metaObjectNameMap
  pool,      \* m_aliveInstances
  ownMeta,   \* m_dynamicMetaObjectMap
  merged     \* m_canonicalMetaObjectMap

targetVars   == <<live, object, created>>
registryVars == <<info, children, canonical, byName, pool, ownMeta, merged>>
vars == <<targetVars, registryVars>>

QObject == 0
Null    == -1
Meta    == 0..MaxMeta

Known(i)   == DOMAIN i
NoInstance == [m \in {} |-> Null]

NewInfo(m, parent, dynamic) ==
  [name |-> live[m].name, parent |-> parent, isDynamic |-> dynamic, invalid |-> FALSE,
   selfCount |-> 0, selfAlive |-> 0, inclusive |-> 0, inclusiveAlive |-> 0]

\* scanMetaTypes() has added the static meta object.
Init ==
  /\ live = (QObject :> [name |-> "QObject", super |-> Null])
  /\ object = NoInstance /\ created = 0
  /\ info = (QObject :> NewInfo(QObject, Null, FALSE))
  /\ children = (Null :> <<QObject>>)
  /\ canonical = NoInstance /\ byName = NoInstance
  /\ pool = NoInstance /\ ownMeta = NoInstance /\ merged = NoInstance

-----------------------------------------------------------------------------
(* The target. *)

CreateMeta(m, c) ==
  /\ m \notin DOMAIN live
  /\ \E s \in DOMAIN live :
       live[s].name = Base[c] /\ live' = live @@ (m :> [name |-> c, super |-> s])
  /\ UNCHANGED <<object, created, registryVars>>

DestroyMeta(m) ==
  /\ m \in DOMAIN live \ {QObject}
  /\ \A o \in DOMAIN object : object[o] # m
  /\ \A d \in DOMAIN live : live[d].super # m
  /\ live' = [d \in DOMAIN live \ {m} |-> live[d]]
  /\ UNCHANGED <<object, created, registryVars>>

-----------------------------------------------------------------------------
(* The registry. *)

\* m and its super classes, the most general one first.
Lineage(m) ==
  LET up[d \in Meta] == IF live[d].super = Null THEN <<d>> ELSE Append(up[live[d].super], d)
  IN  up[m]

\* The part of it that addMetaObject() goes through: from the first known one on.
NewLineage(m) ==
  LET l == Lineage(m)
      known == {i \in DOMAIN l : l[i] \in Known(info)}
  IN  IF known = {} THEN l ELSE SubSeq(l, Max(known), Len(l))

Appended(f, k, x) == [f EXCEPT ![k] = Append(@, x)]
WithKey(f, k, v)  == IF k \in DOMAIN f THEN f ELSE f @@ (k :> v)

\* Mutant of AddOne: a meta object of a known name is added all the same.
AddOneUnmerged(r, m) ==
  IF m \in Known(r.info) THEN [r EXCEPT !.last = m]
  ELSE [info     |-> r.info @@ (m :> NewInfo(m, r.last, m # QObject)),
        children |-> Appended(WithKey(r.children, r.last, <<>>), r.last, m),
        byName   |-> (live[m].name :> m) @@ r.byName,
        last     |-> m]

\* One level of addMetaObject(): r.last is the parent, and then the result.
AddOne(r, m) ==
  IF m \in Known(r.info) THEN [r EXCEPT !.last = m]
  ELSE IF m # QObject /\ live[m].name \in DOMAIN r.byName
  THEN [r EXCEPT !.last = r.byName[live[m].name]]
  ELSE [info     |-> r.info @@ (m :> NewInfo(m, r.last, m # QObject)),
        children |-> Appended(WithKey(r.children, r.last, <<>>), r.last, m),
        byName   |-> IF m = QObject THEN r.byName ELSE (live[m].name :> m) @@ r.byName,
        last     |-> m]

\* addMetaObject(m, true).
AddMetaObject(m) ==
  FoldLeft(AddOne, [info |-> info, children |-> children, byName |-> byName, last |-> Null],
           NewLineage(m))

\* m and its parents in the registry.
Upwards(i, m) ==
  LET up[d \in Known(i)] == IF i[d].parent = Null THEN {d} ELSE {d} \cup up[i[d].parent]
  IN  up[m]

\* Mutant of ObjectAdded: the parents of the meta object itself are counted, not those
\* of the canonical one.
ObjectAddedBelow(o, m) ==
  LET r == AddMetaObject(m)
      c == r.last
      up == {c} \cup ToSet(Lineage(m))
  IN  /\ info' = [d \in Known(r.info) |->
           IF d \notin up THEN r.info[d]
           ELSE [r.info[d] EXCEPT !.selfCount = @ + (IF d = c THEN 1 ELSE 0),
                                  !.selfAlive = @ + (IF d = c THEN 1 ELSE 0),
                                  !.inclusive = @ + 1, !.inclusiveAlive = @ + 1,
                                  !.invalid = FALSE]]
      /\ children' = r.children /\ byName' = r.byName
      /\ canonical' = (o :> c) @@ canonical
      /\ IF r.info[c].isDynamic
         THEN /\ ownMeta' = (o :> m) @@ ownMeta
              /\ merged' = (m :> c) @@ merged
              /\ pool' = (c :> ((IF c \in DOMAIN pool THEN pool[c] ELSE EmptyBag)
                                  (+) SetToBag({m}))) @@ pool
         ELSE UNCHANGED <<ownMeta, merged, pool>>

\* objectAdded(o), with addAliveInstance().
ObjectAdded(o, m) ==
  LET r == AddMetaObject(m)
      c == r.last
      up == Upwards(r.info, c)
  IN  /\ info' = [d \in Known(r.info) |->
           IF d \notin up THEN r.info[d]
           ELSE [r.info[d] EXCEPT !.selfCount = @ + (IF d = c THEN 1 ELSE 0),
                                  !.selfAlive = @ + (IF d = c THEN 1 ELSE 0),
                                  !.inclusive = @ + 1, !.inclusiveAlive = @ + 1,
                                  !.invalid = FALSE]]
      /\ children' = r.children /\ byName' = r.byName
      /\ canonical' = (o :> c) @@ canonical
      /\ IF r.info[c].isDynamic
         THEN /\ ownMeta' = (o :> m) @@ ownMeta
              /\ merged' = (m :> c) @@ merged
              /\ pool' = (c :> ((IF c \in DOMAIN pool THEN pool[c] ELSE EmptyBag)
                                  (+) SetToBag({m}))) @@ pool
         ELSE UNCHANGED <<ownMeta, merged, pool>>

Without(f, k) == [x \in DOMAIN f \ {k} |-> f[x]]

\* Mutant of RemoveAliveInstance: the pool keeps the meta object for the others.
RemoveAliveInstanceKept(o, c) ==
  /\ ownMeta' = Without(ownMeta, o)
  /\ pool' = pool
  /\ merged' = Without(merged, ownMeta[o])

\* removeAliveInstance().
RemoveAliveInstance(o, c) ==
  /\ ownMeta' = Without(ownMeta, o)
  /\ pool' = [pool EXCEPT ![c] = @ (-) SetToBag({ownMeta[o]})]
  /\ merged' = Without(merged, ownMeta[o])

\* objectRemoved(o): the early return for a count of zero is dead code (CountsExact).
ObjectRemoved(o) ==
  IF o \notin DOMAIN canonical THEN UNCHANGED registryVars
  ELSE LET c == canonical[o]
           up == Upwards(info, c)
       IN  /\ canonical' = Without(canonical, o)
           /\ info' = [d \in Known(info) |->
                IF d \notin up THEN info[d]
                ELSE [info[d] EXCEPT !.selfAlive = @ - (IF d = c THEN 1 ELSE 0),
                                     !.inclusiveAlive = @ - 1,
                                     !.invalid = @ \/ (info[d].inclusiveAlive = 1 /\ d # QObject)]]
           /\ IF info[c].isDynamic THEN RemoveAliveInstance(o, c)
                                   ELSE UNCHANGED <<ownMeta, pool, merged>>
           /\ UNCHANGED <<children, byName>>

\* An object is created, and announced when it is fully constructed.
Create(o) ==
  /\ o \notin DOMAIN object \cup DOMAIN canonical /\ created < MaxCreated
  /\ \E m \in DOMAIN live : object' = (o :> m) @@ object /\ ObjectAdded(o, m)
  /\ created' = created + 1
  /\ UNCHANGED live

\* An object of the probe's thread is withdrawn by its destructor, one of another
\* thread at some time after it.
Delete(o) ==
  /\ o \in DOMAIN object
  /\ object' = Without(object, o)
  /\ ObjectRemoved(o) \/ UNCHANGED registryVars
  /\ UNCHANGED <<live, created>>

Withdraw(o) ==
  /\ o \in DOMAIN canonical \ DOMAIN object
  /\ ObjectRemoved(o)
  /\ UNCHANGED targetVars

Next == \/ \E m \in 1..MaxMeta : DestroyMeta(m) \/ \E c \in Class : CreateMeta(m, c)
        \/ \E o \in Obj : Create(o) \/ Delete(o) \/ Withdraw(o)

Spec == Init /\ [][Next]_vars

-----------------------------------------------------------------------------
\* The meta objects at and below m.
Below(m) == {d \in Known(info) : m \in Upwards(info, d)}

(* Every count is exact: the instances alive of a meta object are the objects that    *)
(* are announced and not withdrawn under it, the inclusive ones those of all meta     *)
(* objects below it, and one without any is marked invalid; whichever meta objects    *)
(* come, go, are merged or take an address again (objectAdded(), objectRemoved()).    *)
CountsExact ==
  \A m \in Known(info) :
    /\ info[m].selfAlive = Cardinality({o \in DOMAIN canonical : canonical[o] = m})
    /\ info[m].inclusiveAlive = Cardinality({o \in DOMAIN canonical : canonical[o] \in Below(m)})
    /\ info[m].inclusive = MapThenSumSet(LAMBDA d : info[d].selfCount, Below(m))
    /\ info[m].inclusiveAlive > 0 => ~info[m].invalid

(* No class name has two canonical meta objects, and every canonical one is in the    *)
(* tree once, below its parent (addMetaObject()).  That is so while no dynamic meta    *)
(* object is named like a static one, as in the instance checked: a static one is      *)
(* never looked up in m_metaObjectNameMap.                                             *)
OneOfAName ==
  /\ \A m, d \in Known(info) : info[m].name = info[d].name => m = d
  /\ \A m \in Known(info) : /\ info[m].parent \in DOMAIN children
                            /\ Len(SelectSeq(children[info[m].parent], LAMBDA d : d = m)) = 1

\* aliveInstance().
AliveInstance(m) ==
  IF m \notin DOMAIN pool THEN m
  ELSE IF pool[m] = EmptyBag THEN Null ELSE Min(BagToSet(pool[m]))

(* A meta object handed out for a class that has instances is one that exists, while  *)
(* every announced object does: not the canonical one when that is destroyed          *)
(* (aliveInstance(), addAliveInstance(), removeAliveInstance()).                      *)
InstanceExists ==
  DOMAIN canonical \subseteq DOMAIN object =>
    \A m \in Known(info) : info[m].selfAlive > 0 => AliveInstance(m) \in DOMAIN live
=============================================================================
