--------------------------- MODULE TimerModelProofs ---------------------------
(***************************************************************************)
(* Proofs about TimerModel for every set of timers and every bound: what   *)
(* has been gathered is pushed, and no row has more wake-ups than its      *)
(* timer.                                                                  *)
(***************************************************************************)
EXTENDS TimerModel, FiniteSetTheorems, SequenceTheorems, TLAPS

-----------------------------------------------------------------------------
(***************************************************************************)
(* The inductive invariant.                                                *)
(***************************************************************************)

Object == [gen : Nat, alive : BOOLEAN, id : Id \cup {0}, fired : Nat, depth : Nat]
Info   == [state : {"invalid", "inactive", "active"}, id : Nat, at : Nat, gen : Nat, count : Nat]
Datum  == [info : Info, count : Nat, changed : BOOLEAN, calling : BOOLEAN]

Types ==
  /\ object \in [Address -> Object]
  /\ raw \subseteq {k \in Key : IsFree(k)} /\ rows \subseteq Address
  /\ queue \in [gone : SUBSET Address, fresh : SUBSET Address]
  /\ DOMAIN gathered \subseteq Key /\ \A k \in DOMAIN gathered : gathered[k] \in Datum
  /\ DOMAIN info \subseteq Address /\ \A a \in DOMAIN info : info[a] \in Info
  /\ free \in Seq(Info)
  /\ push \in [posted : BOOLEAN, active : BOOLEAN]

\* Nothing is known of an address where there has been no object.
NothingBeforeTheFirst ==
  \A a \in Address : object[a].gen = 0 =>
    /\ ~object[a].alive
    /\ a \notin rows /\ a \notin queue.fresh
    /\ a \notin DOMAIN info /\ Timer(a) \notin DOMAIN gathered

\* An info about the first object at a, while it is there.
AboutFirst(i, a) == i.state # "invalid" /\ i.at = a /\ i.gen = 1

\* The wake-ups gathered of it, and the one that its slots are called for.
Gathered(d) == d.count + (IF d.calling THEN 1 ELSE 0)

FirstGathered ==
  \A a \in Address : Timer(a) \in DOMAIN gathered /\ object[a].gen = 1 =>
    /\ Gathered(gathered[Timer(a)]) <= object[a].fired
    /\ object[a].alive => AboutFirst(gathered[Timer(a)].info, a)

FirstShown ==
  \A a \in DOMAIN info : object[a].gen = 1 =>
    /\ info[a].count <= object[a].fired
    /\ object[a].alive => AboutFirst(info[a], a)

\* What is gathered of a raw timer tells its key, and is never dropped for its row.
FreeKeys ==
  /\ \A k \in DOMAIN gathered : IsFree(k) => KeyOf(gathered[k].info) = k
  /\ \A i \in DOMAIN free : KeyOf(free[i]) \in DOMAIN gathered /\ IsFree(KeyOf(free[i]))

Inv ==
  /\ Types /\ IsFiniteSet(DOMAIN gathered) /\ PushComes
  /\ NothingBeforeTheFirst /\ FirstGathered /\ FirstShown
  /\ FreeKeys /\ FreeIsRight

-----------------------------------------------------------------------------
(***************************************************************************)
(* Keys, infos and what is gathered.                                       *)
(***************************************************************************)

LEMMA Positive ==
  /\ \A a \in Address : a \in Nat /\ a # 0
  /\ \A n \in Id \cup {0} : n \in Nat
  BY TimerAssumption

LEMMA TimerKeys ==
  /\ \A a \in Address : Timer(a) \in Key /\ ~IsFree(Timer(a)) /\ Timer(a).at = a
  /\ \A k \in Key : k.at \in Address /\ (~IsFree(k) => k = Timer(k.at))
  BY DEF Timer, Key, IsFree

LEMMA NewDataTyped == NewInfo \in Info /\ NewData \in Datum
  BY DEF NewInfo, NewData, Info, Datum

\* update() keeps the count, tells the key, and tells the first object while it is there.
LEMMA UpdatedKeeps ==
  ASSUME NEW o \in [Address -> Object], NEW r, NEW i \in Info, NEW k \in Key
  PROVE  LET u == Updated(o, r, i, k) IN
         /\ u \in Info /\ u.count = i.count
         /\ IsFree(k) /\ (i.at # k.at \/ KeyOf(i) = k) => KeyOf(u) = k
         /\ ~IsFree(k) /\ o[k.at].alive /\ o[k.at].gen = 1
              /\ (i.at # k.at \/ AboutFirst(i, k.at)) => AboutFirst(u, k.at)
<1> DEFINE st == IF IsFree(k) THEN IF k \in r THEN "active" ELSE "invalid"
                 ELSE IF o[k.at].id = 0 THEN "inactive" ELSE "active"
           n  == IF IsFree(k) THEN k.id ELSE o[k.at].id
<1>0. k.at \in Address /\ k.id \in Id \cup {0}
  BY DEF Key
<1>a. o[k.at] \in Object
  BY <1>0
<1>b. o[k.at].id \in Id \cup {0} /\ o[k.at].gen \in Nat
  BY <1>a DEF Object
<1>c. n \in Id \cup {0}
  BY <1>0, <1>b
<1> HIDE DEF n
<1>1. k.at \in Nat /\ o[k.at].gen \in Nat /\ n \in Nat
  BY <1>0, <1>b, <1>c, Positive
<1>2. st \in {"invalid", "inactive", "active"} /\ (~IsFree(k) => st # "invalid")
  OBVIOUS
<1>3. CASE i.at = k.at /\ Null(o, i)
  <2>1. Updated(o, r, i, k) = [i EXCEPT !.state = "invalid"]
    BY <1>3 DEF Updated
  <2>2. o[k.at].alive /\ o[k.at].gen = 1 => ~AboutFirst(i, k.at)
    BY <1>3, <1>1 DEF AboutFirst, Null
  <2> QED
    BY <2>1, <2>2, <1>3 DEF Info, KeyOf
<1>4. CASE ~(i.at = k.at /\ Null(o, i))
  <2> DEFINE u == [state |-> st, id |-> n, at |-> k.at, gen |-> o[k.at].gen, count |-> i.count]
  <2>1. Updated(o, r, i, k)
          = [i EXCEPT !.at = k.at, !.gen = o[k.at].gen, !.id = n, !.state = st]
    BY <1>4 DEF Updated, n
  <2>2. Updated(o, r, i, k) = u
    BY <2>1 DEF Info
  <2>3. i.count \in Nat
    BY DEF Info
  <2> HIDE DEF st
  <2>4. u \in Info
    BY <1>1, <1>2, <2>3 DEF Info
  <2>5. IsFree(k) => KeyOf(u) = k
    BY DEF n, KeyOf, Key
  <2>6. ~IsFree(k) /\ o[k.at].gen = 1 => AboutFirst(u, k.at)
    BY <1>2 DEF AboutFirst
  <2> QED
    BY <2>2, <2>4, <2>5, <2>6
<1> QED
  BY <1>3, <1>4

\* What h tells of a key of g is what g tells, but for the state of its info.
Kept(o, g, h) ==
  /\ DOMAIN h = DOMAIN g
  /\ \A k \in DOMAIN g :
       /\ h[k] \in Datum
       /\ h[k].count = g[k].count /\ h[k].changed = g[k].changed /\ h[k].calling = g[k].calling
       /\ IsFree(k) /\ KeyOf(g[k].info) = k => KeyOf(h[k].info) = k
       /\ ~IsFree(k) /\ o[k.at].alive /\ o[k.at].gen = 1 /\ AboutFirst(g[k].info, k.at)
            => AboutFirst(h[k].info, k.at)

LEMMA CheckKeeps ==
  ASSUME NEW o \in [Address -> Object], NEW g, NEW a,
         DOMAIN g \subseteq Key, \A k \in DOMAIN g : g[k] \in Datum,
         CheckDispatcherStatus(o, g, a)
  PROVE  Kept(o, g, gathered')
<1>1. CASE gathered' = g
  BY <1>1 DEF Kept
<1>2. ASSUME NEW thread, gathered' = Checked(o, raw, g, thread)
      PROVE  Kept(o, g, gathered')
  <2>1. DOMAIN gathered' = DOMAIN g
    BY <1>2 DEF Checked
  <2>2. ASSUME NEW k \in DOMAIN g
        PROVE  /\ gathered'[k] \in Datum /\ gathered'[k].count = g[k].count
               /\ gathered'[k].changed = g[k].changed /\ gathered'[k].calling = g[k].calling
               /\ \/ gathered'[k].info = g[k].info
                  \/ gathered'[k].info = Updated(o, raw, g[k].info, k)
    <3> DEFINE u == Updated(o, raw, g[k].info, k)
    <3>1. g[k] \in Datum /\ g[k].info \in Info /\ k \in Key
      BY <2>2 DEF Datum
    <3>2. u \in Info
      BY <3>1, UpdatedKeeps
    <3>3. gathered'[k] = g[k] \/ gathered'[k] = [g[k] EXCEPT !.info = u]
      BY <1>2, <2>2 DEF Checked
    <3> HIDE DEF u
    <3>4. CASE gathered'[k] = g[k]
      BY <3>1, <3>4
    <3>5. CASE gathered'[k] = [g[k] EXCEPT !.info = u]
      <4>1. gathered'[k] \in Datum
        BY <3>1, <3>2, <3>5 DEF Datum
      <4> QED
        BY <3>1, <3>5, <4>1 DEF u, Datum
    <3> QED
      BY <3>3, <3>4, <3>5
  <2>3. ASSUME NEW k \in DOMAIN g
        PROVE  /\ IsFree(k) /\ KeyOf(g[k].info) = k => KeyOf(gathered'[k].info) = k
               /\ ~IsFree(k) /\ o[k.at].alive /\ o[k.at].gen = 1 /\ AboutFirst(g[k].info, k.at)
                    => AboutFirst(gathered'[k].info, k.at)
    <3>1. g[k].info \in Info /\ k \in Key
      BY <2>3 DEF Datum
    <3>2. CASE gathered'[k].info = g[k].info
      BY <3>2
    <3>3. CASE gathered'[k].info = Updated(o, raw, g[k].info, k)
      BY <3>1, <3>3, UpdatedKeeps
    <3> QED
      BY <2>2, <3>2, <3>3
  <2> QED
    BY <2>1, <2>2, <2>3 DEF Kept
<1> QED
  BY <1>1, <1>2 DEF CheckDispatcherStatus

\* A datum in type: its counts are numbers, whether its slots are called or not.
LEMMA GatheredTyped ==
  ASSUME NEW d \in Datum
  PROVE  /\ d.info \in Info /\ d.count \in Nat /\ d.calling \in BOOLEAN /\ d.changed \in BOOLEAN
         /\ Gathered(d) = IF d.calling THEN d.count + 1 ELSE d.count
<1>1. d.info \in Info /\ d.count \in Nat /\ d.calling \in BOOLEAN /\ d.changed \in BOOLEAN
  BY DEF Datum
<1>2. CASE d.calling
  BY <1>1, <1>2 DEF Gathered
<1>3. CASE ~d.calling
  <2>1. Gathered(d) = d.count + 0
    BY <1>3 DEF Gathered
  <2> QED
    BY <1>1, <1>3, <2>1
<1> QED
  BY <1>1, <1>2, <1>3

LEMMA CountedTyped ==
  ASSUME NEW o \in [Address -> Object], NEW d \in Datum, NEW k \in Key
  PROVE  /\ Counted(o, d, k) \in Datum /\ Counted(o, d, k).count = d.count + 1
         /\ Counted(o, d, k).changed /\ ~Counted(o, d, k).calling
         /\ Counted(o, d, k).info = Updated(o, raw, d.info, k)
<1> DEFINE u == Updated(o, raw, d.info, k)
<1>1. u \in Info /\ d.count + 1 \in Nat
  BY GatheredTyped, UpdatedKeeps
<1>2. Counted(o, d, k) = [info |-> u, count |-> d.count + 1, changed |-> TRUE, calling |-> FALSE]
  BY DEF Counted
<1> HIDE DEF u
<1>3. Counted(o, d, k) \in Datum
  BY <1>1, <1>2 DEF Datum
<1> QED
  BY <1>2, <1>3 DEF u

-----------------------------------------------------------------------------
(***************************************************************************)
(* The steps.                                                              *)
(***************************************************************************)

LEMMA InitInv == Init => Inv
<1> SUFFICES ASSUME Init PROVE Inv
  OBVIOUS
<1>1. DOMAIN gathered = {} /\ DOMAIN info = {} /\ free = <<>> /\ rows = {} /\ raw = {}
  BY DEF Init, Empty
<1>2. NoObject \in Object
  BY DEF NoObject, Object
<1>3. object \in [Address -> Object]
  BY <1>2 DEF Init
<1>4. free \in Seq(Info) /\ DOMAIN free = {}
  BY <1>1
<1>5. /\ queue \in [gone : SUBSET Address, fresh : SUBSET Address]
      /\ push \in [posted : BOOLEAN, active : BOOLEAN]
      /\ queue.fresh = {}
  BY DEF Init
<1>6. Types
  BY <1>1, <1>3, <1>4, <1>5 DEF Types
<1>7. \A a \in Address : ~object[a].alive
  BY DEF Init, NoObject
<1>8. NothingBeforeTheFirst
  BY <1>1, <1>5, <1>7 DEF NothingBeforeTheFirst
<1> QED
  BY <1>1, <1>4, <1>6, <1>8, FS_EmptySet DEF Inv, PushComes, FirstGathered, FirstShown, FreeKeys, FreeIsRight

\* What a spy callback tells of one timer keeps what is known of all.
LEMMA TellingKeeps ==
  ASSUME Inv, NEW k \in Key, NEW d \in Datum,
         Kept(object, With(gathered, k, d), gathered'),
         \A a \in Address : /\ object'[a].gen = object[a].gen /\ object'[a].alive = object[a].alive
                            /\ object'[a].fired \in Nat /\ object[a].fired <= object'[a].fired,
         k \in DOMAIN gathered => gathered[k].count <= d.count,
         IsFree(k) => KeyOf(d.info) = k,
         ~IsFree(k) => /\ object[k.at].gen # 0
                       /\ object[k.at].gen = 1 =>
                            /\ Gathered(d) <= object'[k.at].fired
                            /\ object[k.at].alive => AboutFirst(d.info, k.at),
         UNCHANGED <<raw, rows, queue, info, free, view>>
  PROVE  /\ DOMAIN gathered' \subseteq Key /\ (\A j \in DOMAIN gathered' : gathered'[j] \in Datum)
         /\ IsFiniteSet(DOMAIN gathered')
         /\ NothingBeforeTheFirst' /\ FirstGathered' /\ FirstShown' /\ FreeKeys' /\ FreeIsRight'
<1> DEFINE g == With(gathered, k, d)
<1>a. Types /\ NothingBeforeTheFirst /\ FirstGathered /\ FirstShown /\ FreeKeys /\ FreeIsRight
  BY DEF Inv
<1>b. DOMAIN gathered \subseteq Key /\ \A j \in DOMAIN gathered : gathered[j] \in Datum
  BY <1>a DEF Types
<1>c. object \in [Address -> Object] /\ \A a \in Address : object[a].fired \in Nat
  BY <1>a DEF Types, Object
<1>d. DOMAIN info \subseteq Address /\ (\A a \in DOMAIN info : info[a].count \in Nat)
      /\ free \in Seq(Info)
  BY <1>a DEF Types, Info
<1>1. /\ DOMAIN g = DOMAIN gathered \cup {k} /\ g[k] = d
      /\ \A j \in DOMAIN gathered : j # k => g[j] = gathered[j]
  BY DEF With
<1>2. Kept(object, g, gathered')
  OBVIOUS
<1> HIDE DEF g
<1>3. DOMAIN gathered' = DOMAIN gathered \cup {k} /\ \A j \in DOMAIN gathered' : gathered'[j] \in Datum
  BY <1>1, <1>2 DEF Kept
<1>4. ASSUME NEW j \in DOMAIN gathered
      PROVE  gathered[j].count <= gathered'[j].count
  <2>1. gathered'[j].count = g[j].count
    BY <1>1, <1>2 DEF Kept
  <2>2. CASE j = k
    BY <1>1, <2>1, <2>2
  <2>3. CASE j # k
    <3>1. gathered'[j].count = gathered[j].count /\ gathered[j].count \in Nat
      BY <1>1, <1>b, <2>1, <2>3, GatheredTyped
    <3> QED
      BY <3>1
  <2> QED
    BY <2>2, <2>3
<1>5. ASSUME NEW a \in Address, Timer(a) \in DOMAIN gathered', object[a].gen = 1
      PROVE  /\ Gathered(gathered'[Timer(a)]) <= object'[a].fired
             /\ object[a].alive => AboutFirst(gathered'[Timer(a)].info, a)
  <2>1. Timer(a) \in DOMAIN g /\ Timer(a) \in Key /\ ~IsFree(Timer(a)) /\ Timer(a).at = a
    BY <1>1, <1>3, <1>5, TimerKeys
  <2>2. /\ Gathered(g[Timer(a)]) <= object'[a].fired
        /\ object[a].alive => AboutFirst(g[Timer(a)].info, a)
    <3>1. CASE Timer(a) = k
      BY <1>1, <1>5, <2>1, <3>1
    <3>2. CASE Timer(a) # k
      <4>1. g[Timer(a)] = gathered[Timer(a)] /\ Timer(a) \in DOMAIN gathered
        BY <1>1, <2>1, <3>2
      <4>2. /\ Gathered(gathered[Timer(a)]) <= object[a].fired
            /\ object[a].alive => AboutFirst(gathered[Timer(a)].info, a)
        BY <4>1, <1>a, <1>5 DEF FirstGathered
      <4>3. gathered[Timer(a)] \in Datum
        BY <4>1, <1>b
      <4>4. Gathered(gathered[Timer(a)]) \in Nat
        BY <4>3, GatheredTyped
      <4>5. object[a].fired <= object'[a].fired /\ object[a].fired \in Nat /\ object'[a].fired \in Nat
        BY <1>c
      <4> QED
        BY <4>1, <4>2, <4>4, <4>5
    <3> QED
      BY <3>1, <3>2
  <2>3. /\ gathered'[Timer(a)].count = g[Timer(a)].count
        /\ gathered'[Timer(a)].calling = g[Timer(a)].calling
        /\ object[a].alive /\ AboutFirst(g[Timer(a)].info, a)
             => AboutFirst(gathered'[Timer(a)].info, a)
    BY <1>2, <1>5, <2>1 DEF Kept
  <2>4. Gathered(gathered'[Timer(a)]) = Gathered(g[Timer(a)])
    BY <2>3 DEF Gathered
  <2> QED
    BY <2>2, <2>3, <2>4
<1>6. FirstGathered'
  BY <1>5 DEF FirstGathered
<1>7. NothingBeforeTheFirst'
  <2> SUFFICES ASSUME NEW a \in Address, object[a].gen = 0
               PROVE  /\ ~object'[a].alive /\ a \notin rows' /\ a \notin queue'.fresh
                      /\ a \notin DOMAIN info' /\ Timer(a) \notin DOMAIN gathered'
    BY DEF NothingBeforeTheFirst
  <2>1. /\ ~object[a].alive /\ a \notin rows /\ a \notin queue.fresh
        /\ a \notin DOMAIN info /\ Timer(a) \notin DOMAIN gathered
    BY <1>a DEF NothingBeforeTheFirst
  <2>2. Timer(a) # k
    BY TimerKeys
  <2> QED
    BY <1>3, <2>1, <2>2
<1>8. FirstShown'
  <2> SUFFICES ASSUME NEW a \in DOMAIN info, object[a].gen = 1
               PROVE  /\ info[a].count <= object'[a].fired
                      /\ object[a].alive => AboutFirst(info[a], a)
    BY <1>d DEF FirstShown
  <2>1. /\ info[a].count <= object[a].fired
        /\ object[a].alive => AboutFirst(info[a], a)
    BY <1>a DEF FirstShown
  <2>2. /\ info[a].count \in Nat /\ object[a].fired \in Nat /\ object'[a].fired \in Nat
        /\ object[a].fired <= object'[a].fired
    BY <1>c, <1>d
  <2> QED
    BY <2>1, <2>2
<1>9. ASSUME NEW j \in DOMAIN gathered', IsFree(j)
      PROVE  KeyOf(gathered'[j].info) = j
  <2>1. KeyOf(g[j].info) = j
    BY <1>a, <1>1, <1>3, <1>9 DEF FreeKeys
  <2> QED
    BY <2>1, <1>1, <1>2, <1>3, <1>9 DEF Kept
<1>10. FreeKeys'
  BY <1>a, <1>3, <1>9 DEF FreeKeys
<1>11. FreeIsRight'
  <2> SUFFICES ASSUME NEW i \in DOMAIN free
               PROVE  /\ \A j \in DOMAIN free : KeyOf(free[i]) = KeyOf(free[j]) => i = j
                      /\ free[i].count <= gathered'[KeyOf(free[i])].count
    BY DEF FreeIsRight
  <2>1. KeyOf(free[i]) \in DOMAIN gathered
    BY <1>a DEF FreeKeys
  <2>2. /\ \A j \in DOMAIN free : KeyOf(free[i]) = KeyOf(free[j]) => i = j
        /\ free[i].count <= gathered[KeyOf(free[i])].count
    BY <1>a, <2>1 DEF FreeIsRight
  <2>3. free[i] \in Info
    BY <1>d
  <2>4. free[i].count \in Nat
    BY <2>3 DEF Info
  <2>5. gathered[KeyOf(free[i])].count <= gathered'[KeyOf(free[i])].count
    BY <1>4, <2>1
  <2>6. gathered[KeyOf(free[i])].count \in Nat /\ gathered'[KeyOf(free[i])].count \in Nat
    BY <1>b, <1>3, <2>1, GatheredTyped
  <2> QED
    BY <2>2, <2>4, <2>5, <2>6
<1>12. IsFiniteSet(DOMAIN gathered')
  BY <1>3, FS_AddElement DEF Inv
<1> QED
  BY <1>b, <1>3, <1>6, <1>7, <1>8, <1>10, <1>11, <1>12

\* The record of an object with other numbers.
LEMMA ObjectTyped ==
  ASSUME Inv, NEW a \in Address
  PROVE  /\ object \in [Address -> Object]
         /\ object[a] \in Object
         /\ object[a].gen \in Nat /\ object[a].alive \in BOOLEAN
         /\ object[a].id \in Id \cup {0} /\ object[a].fired \in Nat /\ object[a].depth \in Nat
<1>1. object \in [Address -> Object]
  BY DEF Inv, Types
<1>2. object[a] \in Object
  BY <1>1
<1> QED
  BY <1>1, <1>2 DEF Object

LEMMA AliveHasBeen ==
  ASSUME Inv, NEW a \in Address, object[a].alive
  PROVE  object[a].gen # 0
  BY DEF Inv, NothingBeforeTheFirst

LEMMA PreSignalActivateInv ==
  ASSUME Inv, NEW a \in Address, PreSignalActivate(a)
  PROVE  Inv'
<1> DEFINE k == Timer(a)
           e == IF k \in DOMAIN gathered THEN gathered[k]
                ELSE [NewData EXCEPT !.info = Updated(object', raw, @, k)]
           d == [e EXCEPT !.calling = TRUE]
<1>1. k \in Key /\ ~IsFree(k) /\ k.at = a
  BY TimerKeys
<1>2. PICK n \in {0, object[a].id} :
        object' = [object EXCEPT ![a].id = n, ![a].fired = @ + 1, ![a].depth = @ + 1]
  BY DEF PreSignalActivate
<1>3. /\ object \in [Address -> Object] /\ object[a] \in Object /\ object[a].gen \in Nat
      /\ n \in Id \cup {0} /\ object[a].fired + 1 \in Nat /\ object[a].depth + 1 \in Nat
      /\ object[a].fired \in Nat
  BY ObjectTyped
<1> DEFINE ob == [object[a] EXCEPT !.id = n, !.fired = object[a].fired + 1,
                                   !.depth = object[a].depth + 1]
<1>4. ob \in Object /\ ob.gen = object[a].gen /\ ob.alive = object[a].alive
      /\ ob.fired = object[a].fired + 1
  BY <1>3 DEF Object
<1>5. object' = [object EXCEPT ![a] = ob]
  BY <1>2
<1> HIDE DEF ob
<1>6. object' \in [Address -> Object] /\ object'[a] = ob
      /\ \A b \in Address : b # a => object'[b] = object[b]
  BY <1>3, <1>4, <1>5
<1>7. \A b \in Address : /\ object'[b].gen = object[b].gen /\ object'[b].alive = object[b].alive
                         /\ object'[b].fired \in Nat /\ object[b].fired <= object'[b].fired
  <2> SUFFICES ASSUME NEW b \in Address
               PROVE  /\ object'[b].gen = object[b].gen /\ object'[b].alive = object[b].alive
                      /\ object'[b].fired \in Nat /\ object[b].fired <= object'[b].fired
    OBVIOUS
  <2>1. CASE b = a
    BY <1>3, <1>4, <1>6, <2>1
  <2>2. CASE b # a
    <3>1. object[b].fired \in Nat
      BY ObjectTyped
    <3> QED
      BY <1>6, <2>2, <3>1
  <2> QED
    BY <2>1, <2>2
<1>8. object[a].alive /\ object[a].gen # 0
  BY AliveHasBeen DEF PreSignalActivate
<1>9. /\ e \in Datum
      /\ k \in DOMAIN gathered => gathered[k].count = e.count
      /\ object[a].gen = 1 => e.count <= object[a].fired /\ AboutFirst(e.info, a)
  <2>1. CASE k \in DOMAIN gathered
    <3>1. e = gathered[k] /\ e \in Datum
      BY <2>1 DEF Inv, Types
    <3> HIDE DEF e
    <3>2. object[a].gen = 1 => Gathered(e) <= object[a].fired /\ AboutFirst(e.info, a)
      BY <1>8, <2>1, <3>1 DEF Inv, FirstGathered
    <3>3. e.count \in Nat /\ (Gathered(e) = e.count \/ Gathered(e) = e.count + 1)
      BY <3>1, GatheredTyped
    <3>4. object[a].gen = 1 => e.count <= object[a].fired
      BY <1>3, <3>2, <3>3
    <3> QED
      BY <3>1, <3>2, <3>4
  <2>2. CASE k \notin DOMAIN gathered
    <3> DEFINE u == Updated(object', raw, NewInfo, k)
    <3>1. e = [NewData EXCEPT !.info = u]
      BY <2>2 DEF NewData
    <3>2. u \in Info /\ (object[a].gen = 1 => AboutFirst(u, a))
      <4>1. NewInfo \in Info /\ NewInfo.at # k.at
        BY <1>1, NewDataTyped, Positive DEF NewInfo
      <4> QED
        BY <1>1, <1>6, <1>7, <1>8, <4>1, UpdatedKeeps
    <3> HIDE DEF u, e
    <3>3. e \in Datum /\ e.count = 0 /\ e.info = u
      BY <3>1, <3>2, NewDataTyped DEF NewData, Datum
    <3> QED
      BY <1>3, <2>2, <3>2, <3>3
  <2> QED
    BY <2>1, <2>2
<1>10. gathered' = With(gathered, k, d)
  BY DEF PreSignalActivate
<1> HIDE DEF e
<1>11. d \in Datum /\ d.count = e.count /\ d.info = e.info /\ d.calling /\ d.changed = e.changed
  BY <1>9 DEF Datum
<1> HIDE DEF d
<1>12. Gathered(d) = e.count + 1 /\ e.count \in Nat
  BY <1>11, <1>9, GatheredTyped
<1>13. object[a].gen = 1 => Gathered(d) <= object'[a].fired
  <2>1. object'[a].fired = object[a].fired + 1
    BY <1>4, <1>6
  <2> QED
    BY <1>3, <1>9, <1>12, <2>1
<1>14. Kept(object, With(gathered, k, d), gathered')
  <2>1. /\ DOMAIN gathered \subseteq Key
        /\ \A j \in DOMAIN gathered : gathered[j] \in Datum
    BY DEF Inv, Types
  <2>2. \A j \in DOMAIN gathered' : gathered'[j] \in Datum
    BY <1>10, <1>11, <2>1 DEF With
  <2> QED
    BY <1>10, <2>2 DEF Kept
<1>15. k \in DOMAIN gathered => gathered[k].count <= d.count
  BY <1>9, <1>11, <1>12
<1>16. UNCHANGED <<raw, rows, queue, info, free, push, view>>
  BY DEF PreSignalActivate
<1> HIDE DEF k
<1>17. /\ DOMAIN gathered' \subseteq Key /\ (\A j \in DOMAIN gathered' : gathered'[j] \in Datum)
       /\ IsFiniteSet(DOMAIN gathered')
       /\ NothingBeforeTheFirst' /\ FirstGathered' /\ FirstShown' /\ FreeKeys' /\ FreeIsRight'
  BY <1>1, <1>7, <1>8, <1>9, <1>11, <1>13, <1>14, <1>15, <1>16, TellingKeeps
<1>18. Types'
  BY <1>6, <1>16, <1>17 DEF Inv, Types
<1>19. PushComes'
  <2>1. DOMAIN gathered' = DOMAIN gathered \cup {k} /\ gathered'[k] = d
        /\ \A j \in DOMAIN gathered : j # k => gathered'[j] = gathered[j]
    BY <1>10 DEF With
  <2>2. d.changed => k \in DOMAIN gathered /\ gathered[k].changed
    BY <1>11 DEF e, NewData
  <2> QED
    BY <1>16, <2>1, <2>2 DEF Inv, PushComes
<1> QED
  BY <1>17, <1>18, <1>19 DEF Inv

\* A wake-up is counted: of a QTimer, when its slots have been called.
LEMMA CountingInv ==
  ASSUME Inv, NEW k \in Key,
         CheckDispatcherStatus(object, With(gathered, k, Counted(object, Data(k), k)), k.at),
         IsFree(k) \/ (object[k.at].alive /\ Data(k).calling),
         object' \in [Address -> Object], raw' = raw,
         \A a \in Address : /\ object'[a].gen = object[a].gen /\ object'[a].alive = object[a].alive
                            /\ object'[a].fired = object[a].fired,
         push' = [push EXCEPT !.posted = TRUE],
         UNCHANGED <<rows, queue, info, free, view>>
  PROVE  Inv'
<1> DEFINE e == Data(k)
           d == Counted(object, e, k)
<1>0. /\ object \in [Address -> Object] /\ k.at \in Address
      /\ DOMAIN gathered \subseteq Key /\ \A j \in DOMAIN gathered : gathered[j] \in Datum
  BY TimerKeys DEF Inv, Types
<1>1. /\ e \in Datum
      /\ k \in DOMAIN gathered => gathered[k] = e
      /\ k \notin DOMAIN gathered => e = NewData /\ IsFree(k)
  BY <1>0, NewDataTyped DEF Data, NewData
<1> HIDE DEF e
<1>2. /\ d \in Datum /\ d.count = e.count + 1 /\ ~d.calling
      /\ d.info = Updated(object, raw, e.info, k)
  BY <1>0, <1>1, CountedTyped
<1>3. CheckDispatcherStatus(object, With(gathered, k, d), k.at)
  BY DEF e
<1> HIDE DEF d
<1>4. DOMAIN With(gathered, k, d) \subseteq Key
      /\ \A j \in DOMAIN With(gathered, k, d) : With(gathered, k, d)[j] \in Datum
  BY <1>0, <1>2 DEF With
<1>5. Kept(object, With(gathered, k, d), gathered')
  BY <1>0, <1>3, <1>4, CheckKeeps
<1>6. e.count \in Nat /\ Gathered(d) = e.count + 1 /\ (e.calling => Gathered(e) = e.count + 1)
      /\ e.info \in Info
  BY <1>1, <1>2, GatheredTyped
<1>7. k \in DOMAIN gathered => gathered[k].count <= d.count
  BY <1>1, <1>2, <1>6
<1>8. IsFree(k) => KeyOf(d.info) = k
  <2> SUFFICES ASSUME IsFree(k) PROVE KeyOf(d.info) = k
    OBVIOUS
  <2>1. e.info.at # k.at \/ KeyOf(e.info) = k
    <3>1. CASE k \in DOMAIN gathered
      BY <1>1, <3>1 DEF Inv, FreeKeys
    <3>2. CASE k \notin DOMAIN gathered
      BY <1>0, <1>1, <3>2, Positive DEF NewData, NewInfo
    <3> QED
      BY <3>1, <3>2
  <2> QED
    BY <1>0, <1>2, <1>6, <2>1, UpdatedKeeps
<1>9. ~IsFree(k) => /\ object[k.at].gen # 0
                    /\ object[k.at].gen = 1 =>
                         /\ Gathered(d) <= object'[k.at].fired
                         /\ object[k.at].alive => AboutFirst(d.info, k.at)
  <2> SUFFICES ASSUME ~IsFree(k)
               PROVE  /\ object[k.at].gen # 0
                      /\ object[k.at].gen = 1 =>
                           /\ Gathered(d) <= object'[k.at].fired
                           /\ AboutFirst(d.info, k.at)
    OBVIOUS
  <2>1. k = Timer(k.at) /\ k \in DOMAIN gathered /\ gathered[k] = e /\ e.calling
    BY <1>1, TimerKeys DEF e
  <2>2. object[k.at].gen = 1 => Gathered(e) <= object[k.at].fired /\ AboutFirst(e.info, k.at)
    BY <1>0, <2>1 DEF Inv, FirstGathered
  <2>3. object[k.at].gen = 1 => Gathered(d) <= object'[k.at].fired
    BY <1>0, <1>6, <2>1, <2>2
  <2>4. object[k.at].gen = 1 => AboutFirst(d.info, k.at)
    BY <1>0, <1>2, <1>6, <2>2, UpdatedKeeps
  <2> QED
    BY <1>0, <2>3, <2>4, AliveHasBeen
<1>10. \A a \in Address : /\ object'[a].gen = object[a].gen /\ object'[a].alive = object[a].alive
                          /\ object'[a].fired \in Nat /\ object[a].fired <= object'[a].fired
  <2> TAKE a \in Address
  <2>1. object[a].fired \in Nat /\ object'[a].fired = object[a].fired
    BY ObjectTyped
  <2> QED
    BY <2>1
<1>11. /\ DOMAIN gathered' \subseteq Key /\ (\A j \in DOMAIN gathered' : gathered'[j] \in Datum)
       /\ IsFiniteSet(DOMAIN gathered')
       /\ NothingBeforeTheFirst' /\ FirstGathered' /\ FirstShown' /\ FreeKeys' /\ FreeIsRight'
  BY <1>2, <1>5, <1>7, <1>8, <1>9, <1>10, TellingKeeps
<1>12. push' \in [posted : BOOLEAN, active : BOOLEAN] /\ push'.posted
  BY DEF Inv, Types
<1>13. Types'
  BY <1>11, <1>12 DEF Inv, Types
<1>14. PushComes'
  BY <1>12 DEF PushComes
<1> QED
  BY <1>11, <1>13, <1>14 DEF Inv

\* An object is still there and has fired as often, when its slots return.
LEMMA DepthKeeps ==
  ASSUME Inv, NEW a \in Address, object[a].depth > 0,
         object' = [object EXCEPT ![a].depth = @ - 1]
  PROVE  /\ object' \in [Address -> Object]
         /\ \A b \in Address : /\ object'[b].gen = object[b].gen /\ object'[b].alive = object[b].alive
                               /\ object'[b].fired = object[b].fired
<1> DEFINE ob == [object[a] EXCEPT !.depth = object[a].depth - 1]
<1>1. object \in [Address -> Object] /\ object[a] \in Object /\ object[a].depth - 1 \in Nat
  BY ObjectTyped
<1>2. ob \in Object /\ ob.gen = object[a].gen /\ ob.alive = object[a].alive
      /\ ob.fired = object[a].fired
  BY <1>1 DEF Object
<1>3. object' = [object EXCEPT ![a] = ob]
  OBVIOUS
<1> HIDE DEF ob
<1> QED
  BY <1>1, <1>2, <1>3

\* Objects that tell the same keep what is right.
LEMMA ObjectsKeep ==
  ASSUME Inv, object' \in [Address -> Object],
         \A b \in Address : /\ object'[b].gen = object[b].gen
                            /\ object'[b].alive = object[b].alive
                            /\ object'[b].fired = object[b].fired,
         raw' \subseteq {k \in Key : IsFree(k)},
         UNCHANGED modelVars
  PROVE  Inv'
<1> USE DEF Inv, modelVars
<1>1. Types'
  BY DEF Types
<1>2. NothingBeforeTheFirst'
  BY DEF NothingBeforeTheFirst
<1>3. FirstGathered'
  BY DEF FirstGathered
<1>4. FirstShown'
  BY DEF FirstShown, Types
<1>5. PushComes' /\ FreeKeys' /\ FreeIsRight'
  BY DEF PushComes, FreeKeys, FreeIsRight
<1> QED
  BY <1>1, <1>2, <1>3, <1>4, <1>5

LEMMA PostSignalActivateInv ==
  ASSUME Inv, NEW a \in Address, PostSignalActivate(a)
  PROVE  Inv'
<1> DEFINE k == Timer(a)
<1>1. k \in Key /\ k.at = a
  BY TimerKeys
<1>2. /\ object[a].alive /\ object[a].depth > 0
      /\ object' = [object EXCEPT ![a].depth = @ - 1]
      /\ UNCHANGED <<raw, rows, queue, info, free, view>>
  BY DEF PostSignalActivate
<1>3. /\ object' \in [Address -> Object]
      /\ \A b \in Address : /\ object'[b].gen = object[b].gen /\ object'[b].alive = object[b].alive
                            /\ object'[b].fired = object[b].fired
  BY <1>2, DepthKeeps
<1>4. CASE Data(k).calling
  <2>1. gathered[k] = Data(k)
    BY <1>4 DEF Data, NewData
  <2>2. /\ CheckDispatcherStatus(object, With(gathered, k, Counted(object, Data(k), k)), a)
        /\ push' = [push EXCEPT !.posted = TRUE]
    BY <1>4, <2>1 DEF PostSignalActivate
  <2> HIDE DEF k
  <2> QED
    BY <1>1, <1>2, <1>3, <1>4, <2>2, CountingInv
<1>5. CASE ~Data(k).calling
  <2>1. UNCHANGED modelVars /\ raw' = raw
    BY <1>2, <1>5 DEF PostSignalActivate, modelVars
  <2>2. raw' \subseteq {j \in Key : IsFree(j)}
    BY <2>1 DEF Inv, Types
  <2> QED
    BY <1>3, <2>1, <2>2, ObjectsKeep
<1> QED
  BY <1>4, <1>5

LEMMA EventNotifyCallbackInv ==
  ASSUME Inv, NEW k \in raw, EventNotifyCallback(k)
  PROVE  Inv'
<1>1. k \in Key /\ IsFree(k) /\ object \in [Address -> Object]
  BY DEF Inv, Types
<1>2. /\ CheckDispatcherStatus(object, With(gathered, k, Counted(object, Data(k), k)), k.at)
      /\ push' = [push EXCEPT !.posted = TRUE]
      /\ UNCHANGED <<object, raw, rows, queue, info, free, view>>
  BY DEF EventNotifyCallback
<1> QED
  BY <1>1, <1>2, CountingInv

\* Starting and stopping a timer changes nothing that has been told of it.
LEMMA SwitchInv ==
  ASSUME Inv, NEW a \in Address, Switch(a)
  PROVE  Inv'
<1>1. PICK n : n \in Id \cup {0} /\ object' = [object EXCEPT ![a].id = n]
  BY DEF Switch
<1>2. object \in [Address -> Object] /\ object[a] \in Object
  BY ObjectTyped
<1> DEFINE ob == [object[a] EXCEPT !.id = n]
<1>3. ob \in Object /\ ob.gen = object[a].gen /\ ob.alive = object[a].alive
      /\ ob.fired = object[a].fired
  BY <1>1, <1>2 DEF Object
<1>4. object' = [object EXCEPT ![a] = ob]
  BY <1>1
<1> HIDE DEF ob
<1>5. /\ object' \in [Address -> Object]
      /\ \A b \in Address : /\ object'[b].gen = object[b].gen /\ object'[b].alive = object[b].alive
                            /\ object'[b].fired = object[b].fired
  BY <1>2, <1>3, <1>4
<1>6. UNCHANGED modelVars /\ raw' = raw
  BY DEF Switch
<1>7. raw' \subseteq {j \in Key : IsFree(j)}
  BY <1>6 DEF Inv, Types
<1> QED
  BY <1>5, <1>6, <1>7, ObjectsKeep

LEMMA SwitchRawInv ==
  ASSUME Inv, NEW a \in Address, SwitchRaw(a)
  PROVE  Inv'
<1>1. object \in [Address -> Object] /\ raw \subseteq {j \in Key : IsFree(j)}
  BY DEF Inv, Types
<1>2. object' = object /\ UNCHANGED modelVars
  BY DEF SwitchRaw
<1>3. ASSUME NEW n \in Id PROVE [id |-> n, at |-> a] \in {j \in Key : IsFree(j)}
  <2>1. n # 0
    BY TimerAssumption
  <2> QED
    BY <2>1 DEF Key, IsFree
<1>4. raw' \subseteq {j \in Key : IsFree(j)}
  BY <1>1, <1>3 DEF SwitchRaw
<1> QED
  BY <1>1, <1>2, <1>4, ObjectsKeep

\* Only a second object at an address finds what is known of one before it.
LEMMA CreateInv ==
  ASSUME Inv, NEW a \in Address, Create(a)
  PROVE  Inv'
<1> DEFINE g  == object[a].gen + 1
           ob == [NoObject EXCEPT !.gen = g, !.alive = TRUE]
<1>1. object \in [Address -> Object] /\ object[a].gen \in Nat /\ object[a].gen + 1 \in Nat
  BY ObjectTyped
<1>g. g \in Nat /\ g # 0
  BY <1>1
<1> HIDE DEF g
<1>2. ob \in Object /\ ob.gen = g
  <2>1. NoObject \in Object
    BY DEF NoObject, Object
  <2> QED
    BY <1>g, <2>1 DEF Object
<1>3. object' = [object EXCEPT ![a] = ob]
  BY DEF Create, g
<1>4. ~object[a].alive
      /\ queue' = [queue EXCEPT !.fresh = @ \cup {a}]
      /\ UNCHANGED <<raw, rows, gathered, info, free, push, view>>
  BY DEF Create
<1> HIDE DEF ob
<1>5. /\ object' \in [Address -> Object] /\ object'[a] = ob
      /\ \A b \in Address : b # a => object'[b] = object[b]
  BY <1>1, <1>2, <1>3
<1>6. object'[a].gen = 1 => a \notin DOMAIN info /\ Timer(a) \notin DOMAIN gathered
  <2>1. object'[a].gen = 1 => object[a].gen = 0
    BY <1>1, <1>2, <1>5 DEF g
  <2> QED
    BY <2>1 DEF Inv, NothingBeforeTheFirst
<1>7. queue' \in [gone : SUBSET Address, fresh : SUBSET Address] /\ queue'.fresh = queue.fresh \cup {a}
  BY <1>4 DEF Inv, Types
<1>8. Types'
  BY <1>4, <1>5, <1>7 DEF Inv, Types
<1>9. NothingBeforeTheFirst'
  BY <1>g, <1>2, <1>4, <1>5, <1>7 DEF Inv, NothingBeforeTheFirst
<1>10. FirstGathered'
  BY <1>4, <1>5, <1>6 DEF Inv, FirstGathered
<1>11. FirstShown'
  BY <1>4, <1>5, <1>6 DEF Inv, Types, FirstShown
<1>12. PushComes' /\ FreeKeys' /\ FreeIsRight'
  BY <1>4 DEF Inv, PushComes, FreeKeys, FreeIsRight
<1>13. IsFiniteSet(DOMAIN gathered')
  BY <1>4 DEF Inv
<1> QED
  BY <1>8, <1>9, <1>10, <1>11, <1>12, <1>13 DEF Inv

\* Dropping what is known of QTimers keeps what is known of the others.
LEMMA RemovingInv ==
  ASSUME Inv, NEW out,
         RemoveRows(object', out) \/ UNCHANGED <<gathered, info, push>>,
         object' \in [Address -> Object],
         \A b \in Address : /\ object'[b].gen = object[b].gen
                            /\ object'[b].fired = object[b].fired
                            /\ object'[b].alive => object[b].alive,
         raw' \subseteq {j \in Key : IsFree(j)},
         rows' \subseteq rows \cup queue.fresh, queue'.fresh \subseteq queue.fresh,
         queue' \in [gone : SUBSET Address, fresh : SUBSET Address],
         free' = free
  PROVE  Inv'
<1>1. /\ DOMAIN gathered' \subseteq DOMAIN gathered
      /\ \A k \in DOMAIN gathered' : gathered'[k] = gathered[k]
      /\ \A k \in DOMAIN gathered : k \in DOMAIN gathered' \/ ~IsFree(k)
  BY DEF RemoveRows, Without, Timer, IsFree
<1>2. /\ DOMAIN info' \subseteq DOMAIN info
      /\ \A a \in DOMAIN info' : info'[a] = info[a]
  BY DEF RemoveRows, Without
<1>3. /\ push' \in [posted : BOOLEAN, active : BOOLEAN]
      /\ push.posted \/ push.active => push'.posted \/ push'.active
  BY DEF RemoveRows, Inv, Types
<1>4. /\ rows' \subseteq Address
      /\ DOMAIN gathered' \subseteq Key /\ (\A k \in DOMAIN gathered' : gathered'[k] \in Datum)
      /\ DOMAIN info' \subseteq Address /\ (\A a \in DOMAIN info' : info'[a] \in Info)
      /\ free' \in Seq(Info)
  BY <1>1, <1>2 DEF Inv, Types
<1>5. Types'
  BY <1>3, <1>4 DEF Types
<1>6. NothingBeforeTheFirst'
  BY <1>1, <1>2 DEF Inv, NothingBeforeTheFirst
<1>7. FirstGathered'
  BY <1>1 DEF Inv, FirstGathered
<1>8. FirstShown'
  BY <1>2, <1>4 DEF Inv, FirstShown
<1>9. PushComes'
  BY <1>1, <1>3 DEF Inv, PushComes
<1>10. FreeKeys'
  BY <1>1 DEF Inv, FreeKeys
<1>11. FreeIsRight'
  BY <1>1, <1>10 DEF Inv, FreeIsRight, FreeKeys
<1>12. IsFiniteSet(DOMAIN gathered')
  BY <1>1, FS_Subset DEF Inv
<1> QED
  BY <1>5, <1>6, <1>7, <1>8, <1>9, <1>10, <1>11, <1>12 DEF Inv

LEMMA DestroyInv ==
  ASSUME Inv, NEW a \in Address, NEW inMain \in BOOLEAN, Destroy(a, inMain)
  PROVE  Inv'
<1> DEFINE ob == [object[a] EXCEPT !.alive = FALSE, !.id = 0, !.depth = 0]
<1>1. object \in [Address -> Object] /\ object[a] \in Object
  BY ObjectTyped
<1>2. ob \in Object /\ ob.gen = object[a].gen /\ ob.fired = object[a].fired /\ ~ob.alive
  BY <1>1 DEF Object
<1>3. object' = [object EXCEPT ![a] = ob]
  BY DEF Destroy
<1> HIDE DEF ob
<1>4. /\ object' \in [Address -> Object] /\ object'[a] = ob
      /\ \A b \in Address : b # a => object'[b] = object[b]
  BY <1>1, <1>2, <1>3
<1>5. \A b \in Address : /\ object'[b].gen = object[b].gen
                         /\ object'[b].fired = object[b].fired
                         /\ object'[b].alive => object[b].alive
  BY <1>2, <1>4
<1>6. raw' \subseteq {j \in Key : IsFree(j)} /\ free' = free
  BY DEF Destroy, Inv, Types
<1>7. queue \in [gone : SUBSET Address, fresh : SUBSET Address]
  BY DEF Inv, Types
<1>8. CASE inMain
  <2>1. /\ queue' = [queue EXCEPT !.fresh = @ \ {a}]
        /\ rows' = rows \ {a} /\ RemoveRows(object', rows \cap {a})
    BY <1>8 DEF Destroy
  <2>2. queue' \in [gone : SUBSET Address, fresh : SUBSET Address]
        /\ queue'.fresh \subseteq queue.fresh
    BY <1>7, <2>1
  <2> QED
    BY <1>4, <1>5, <1>6, <2>1, <2>2, RemovingInv
<1>9. CASE ~inMain
  <2>1. /\ queue' = [gone |-> queue.gone \cup {a}, fresh |-> queue.fresh \ {a}]
        /\ UNCHANGED <<rows, gathered, info, push, view>>
    BY <1>9 DEF Destroy
  <2>2. queue' \in [gone : SUBSET Address, fresh : SUBSET Address]
        /\ queue'.fresh \subseteq queue.fresh
    BY <1>7, <2>1
  <2> QED
    BY <1>4, <1>5, <1>6, <2>1, <2>2, RemovingInv
<1> QED
  BY <1>8, <1>9

LEMMA ProcessQueuedObjectChangesInv ==
  ASSUME Inv, ProcessQueuedObjectChanges
  PROVE  Inv'
<1>1. /\ rows' = (rows \ queue.gone) \cup queue.fresh
      /\ RemoveRows(object, rows \cap queue.gone)
      /\ queue' = [gone |-> {}, fresh |-> {}]
      /\ UNCHANGED <<object, raw, free>>
  BY DEF ProcessQueuedObjectChanges
<1>2. RemoveRows(object', rows \cap queue.gone)
  BY <1>1
<1>3. object \in [Address -> Object] /\ raw \subseteq {j \in Key : IsFree(j)}
  BY DEF Inv, Types
<1>4. queue' \in [gone : SUBSET Address, fresh : SUBSET Address] /\ queue'.fresh = {}
  BY <1>1
<1> QED
  BY <1>1, <1>2, <1>3, <1>4, RemovingInv

LEMMA TriggerPushChangesInv ==
  ASSUME Inv, TriggerPushChanges
  PROVE  Inv'
<1>1. /\ push' = [posted |-> FALSE, active |-> TRUE]
      /\ UNCHANGED <<object, raw, rows, queue, gathered, info, free, view>>
  BY DEF TriggerPushChanges
<1>2. Types'
  BY <1>1 DEF Inv, Types
<1>3. PushComes'
  BY <1>1 DEF PushComes
<1>4. NothingBeforeTheFirst' /\ IsFiniteSet(DOMAIN gathered')
  BY <1>1 DEF Inv, NothingBeforeTheFirst
<1>5. FirstGathered' /\ FirstShown'
  BY <1>1 DEF Inv, FirstGathered, FirstShown
<1>6. FreeKeys' /\ FreeIsRight'
  BY <1>1 DEF Inv, FreeKeys, FreeIsRight
<1> QED
  BY <1>2, <1>3, <1>4, <1>5, <1>6 DEF Inv

\* The info of a row that a view or a push finds.
LEMMA InfoOfRight ==
  ASSUME Inv, NEW a \in Address
  PROVE  /\ InfoOf(a) \in Info
         /\ object[a].gen = 1 => /\ InfoOf(a).count <= object[a].fired
                                 /\ object[a].alive => AboutFirst(InfoOf(a), a)
<1>1. object \in [Address -> Object] /\ object[a].fired \in Nat
  BY ObjectTyped
<1>2. CASE a \in DOMAIN info
  BY <1>2 DEF Inv, Types, FirstShown, InfoOf
<1>3. CASE a \notin DOMAIN info
  <2> DEFINE k == Timer(a)
             u == Updated(object, raw, NewInfo, k)
  <2>1. k \in Key /\ ~IsFree(k) /\ k.at = a /\ NewInfo \in Info /\ NewInfo.at # k.at
        /\ NewInfo.count = 0
    BY TimerKeys, NewDataTyped, Positive DEF NewInfo
  <2> HIDE DEF k
  <2>2. u \in Info /\ u.count = 0 /\ (object[a].alive /\ object[a].gen = 1 => AboutFirst(u, a))
    BY <1>1, <2>1, UpdatedKeeps
  <2>3. InfoOf(a) = u
    BY <1>3 DEF InfoOf, k
  <2> QED
    BY <1>1, <2>2, <2>3
<1> QED
  BY <1>2, <1>3

LEMMA FetchInv ==
  ASSUME Inv, NEW a \in Address, Fetch(a)
  PROVE  Inv'
<1>1. /\ a \in rows /\ object[a].alive
      /\ info' = With(info, a, InfoOf(a))
      /\ UNCHANGED <<object, raw, rows, queue, gathered, free, push>>
  BY DEF Fetch
<1>2. /\ DOMAIN info' = DOMAIN info \cup {a} /\ info'[a] = InfoOf(a)
      /\ \A b \in DOMAIN info : b # a => info'[b] = info[b]
  BY <1>1 DEF With
<1>3. Types'
  BY <1>1, <1>2, InfoOfRight DEF Inv, Types
<1>4. NothingBeforeTheFirst'
  BY <1>1, <1>2 DEF Inv, NothingBeforeTheFirst
<1>5. FirstShown'
  BY <1>1, <1>2, InfoOfRight DEF Inv, FirstShown
<1>6. FirstGathered' /\ PushComes' /\ IsFiniteSet(DOMAIN gathered')
  BY <1>1 DEF Inv, FirstGathered, PushComes
<1>7. FreeKeys' /\ FreeIsRight'
  BY <1>1 DEF Inv, FreeKeys, FreeIsRight
<1> QED
  BY <1>3, <1>4, <1>5, <1>6, <1>7 DEF Inv

LEMMA ClearHistoryInv ==
  ASSUME Inv, ClearHistory
  PROVE  Inv'
<1>1. /\ DOMAIN gathered' = {} /\ DOMAIN info' = {} /\ free' = <<>>
      /\ UNCHANGED <<object, raw, rows, queue, push>>
  BY DEF ClearHistory, Empty
<1>2. free' \in Seq(Info) /\ DOMAIN free' = {}
  BY <1>1
<1>3. Types'
  BY <1>1, <1>2 DEF Inv, Types
<1>4. NothingBeforeTheFirst'
  BY <1>1 DEF Inv, NothingBeforeTheFirst
<1>5. FirstGathered' /\ FirstShown' /\ PushComes' /\ IsFiniteSet(DOMAIN gathered')
  BY <1>1, FS_EmptySet DEF FirstGathered, FirstShown, PushComes
<1>6. FreeKeys' /\ FreeIsRight'
  BY <1>1, <1>2 DEF FreeKeys, FreeIsRight
<1> QED
  BY <1>3, <1>4, <1>5, <1>6 DEF Inv

-----------------------------------------------------------------------------
(***************************************************************************)
(* A push.                                                                 *)
(***************************************************************************)

\* A map has each of its keys once, and has them all.
LEMMA SortedOnce ==
  ASSUME NEW S, S \subseteq Key, IsFiniteSet(S), NEW s \in Sorted(S)
  PROVE  /\ s \in Seq(S) /\ DOMAIN s = 1..Cardinality(S) /\ Cardinality(S) \in Nat
         /\ \A i \in DOMAIN s : s[i] \in S
         /\ \A i, j \in DOMAIN s : s[i] = s[j] => i = j
<1>1. Cardinality(S) \in Nat
  BY FS_CardinalityType
<1>2. s \in [1..Cardinality(S) -> S] /\ \A i, j \in DOMAIN s : i < j => Before(s[i], s[j])
  BY DEF Sorted
<1>3. DOMAIN s = 1..Cardinality(S) /\ \A i \in DOMAIN s : s[i] \in S
  BY <1>2
<1>4. s \in Seq(S)
  BY <1>1, <1>2
<1>5. \A k \in S : ~Before(k, k)
  <2> SUFFICES ASSUME NEW k \in S PROVE ~Before(k, k)
    OBVIOUS
  <2>1. k.id \in Id \cup {0} /\ k.at \in Address
    BY DEF Key
  <2>2. k.id \in Nat /\ k.at \in Nat
    BY <2>1, Positive
  <2> QED
    BY <2>2 DEF Before
<1>6. ASSUME NEW i \in DOMAIN s, NEW j \in DOMAIN s, s[i] = s[j] PROVE i = j
  <2>1. i \in Nat /\ j \in Nat
    BY <1>1, <1>3
  <2>2. ~(i < j) /\ ~(j < i)
    BY <1>2, <1>3, <1>5, <1>6
  <2> QED
    BY <2>1, <2>2
<1> QED
  BY <1>1, <1>3, <1>4, <1>6

\* A change tells the timer it is of, with all that has been gathered.
LEMMA ChangeTyped ==
  ASSUME Inv, NEW k \in DOMAIN gathered
  PROVE  /\ Change(k) \in Info /\ Change(k).count = gathered[k].count
         /\ KeyOf(Change(k)) = KeyOf(gathered[k].info)
         /\ ~IsFree(k) => /\ Change(k).state = gathered[k].info.state
                          /\ Change(k).at = gathered[k].info.at
                          /\ Change(k).gen = gathered[k].info.gen
<1> DEFINE i  == gathered[k].info
           n  == gathered[k].count
           st == IF Invalidated(k) THEN "invalid" ELSE i.state
<1>1. i \in Info /\ n \in Nat
  BY GatheredTyped DEF Inv, Types
<1>2. Change(k) = [i EXCEPT !.count = n, !.state = st]
  BY <1>1 DEF Change, Info
<1>3. st \in {"invalid", "inactive", "active"} /\ (~IsFree(k) => st = i.state)
  BY <1>1 DEF Info, Invalidated
<1> HIDE DEF i, n, st
<1>4. Change(k) \in Info /\ Change(k).count = n /\ Change(k).state = st
      /\ Change(k).id = i.id /\ Change(k).at = i.at /\ Change(k).gen = i.gen
  BY <1>1, <1>2, <1>3 DEF Info
<1>5. KeyOf(Change(k)) = KeyOf(i)
  BY <1>4 DEF KeyOf
<1> QED
  BY <1>3, <1>4, <1>5 DEF i, n

\* What has been gathered stays gathered when it is pushed, and nothing has changed any more.
LEMMA PushedGathered ==
  ASSUME Inv, PushChanges
  PROVE  /\ DOMAIN gathered' = DOMAIN gathered
         /\ \A k \in DOMAIN gathered :
              /\ gathered'[k] \in Datum /\ ~gathered'[k].changed
              /\ gathered'[k].count = gathered[k].count
              /\ gathered'[k].calling = gathered[k].calling
              /\ KeyOf(gathered'[k].info) = KeyOf(gathered[k].info)
              /\ ~IsFree(k) => \A a \in Address :
                   AboutFirst(gathered[k].info, a) => AboutFirst(gathered'[k].info, a)
<1>1. gathered' = [k \in DOMAIN gathered |->
        IF k \in Changes
        THEN [gathered[k] EXCEPT !.changed = FALSE, !.info = [Change(k) EXCEPT !.count = 0]]
        ELSE gathered[k]]
  BY DEF PushChanges
<1>2. DOMAIN gathered' = DOMAIN gathered
  BY <1>1
<1>3. ASSUME NEW k \in DOMAIN gathered
      PROVE  /\ gathered'[k] \in Datum /\ ~gathered'[k].changed
             /\ gathered'[k].count = gathered[k].count
             /\ gathered'[k].calling = gathered[k].calling
             /\ KeyOf(gathered'[k].info) = KeyOf(gathered[k].info)
             /\ ~IsFree(k) => \A a \in Address :
                  AboutFirst(gathered[k].info, a) => AboutFirst(gathered'[k].info, a)
  <2>1. gathered[k] \in Datum
    BY DEF Inv, Types
  <2>2. CASE k \in Changes
    <3> DEFINE i == [Change(k) EXCEPT !.count = 0]
    <3>1. i \in Info /\ i.id = Change(k).id /\ i.at = Change(k).at
          /\ i.state = Change(k).state /\ i.gen = Change(k).gen
      BY ChangeTyped DEF Info
    <3>2. gathered'[k] = [gathered[k] EXCEPT !.changed = FALSE, !.info = i]
      BY <1>1, <2>2
    <3> HIDE DEF i
    <3>3. /\ gathered'[k] \in Datum /\ ~gathered'[k].changed /\ gathered'[k].info = i
          /\ gathered'[k].count = gathered[k].count
          /\ gathered'[k].calling = gathered[k].calling
      BY <2>1, <3>1, <3>2 DEF Datum
    <3>4. KeyOf(i) = KeyOf(gathered[k].info)
      <4>1. KeyOf(i) = KeyOf(Change(k))
        BY <3>1 DEF KeyOf
      <4> QED
        BY <4>1, ChangeTyped
    <3>5. ~IsFree(k) => \A a \in Address :
            AboutFirst(gathered[k].info, a) => AboutFirst(i, a)
      BY <3>1, ChangeTyped DEF AboutFirst
    <3> QED
      BY <3>3, <3>4, <3>5
  <2>3. CASE k \notin Changes
    BY <1>1, <2>1, <2>3 DEF Changes
  <2> QED
    BY <2>2, <2>3
<1> QED
  BY <1>2, <1>3

\* The rows that are reached show what has been gathered.
LEMMA PushedInfo ==
  ASSUME Inv, PushChanges
  PROVE  /\ DOMAIN info' = DOMAIN info \cup Reached /\ Reached \subseteq rows
         /\ \A a \in DOMAIN info' :
              /\ info'[a] \in Info
              /\ object[a].gen = 1 => /\ info'[a].count <= object[a].fired
                                      /\ object[a].alive => AboutFirst(info'[a], a)
<1>1. info' = [a \in DOMAIN info \cup Reached |->
        IF a \in Reached /\ Timer(a) \in Changes THEN Change(Timer(a)) ELSE InfoOf(a)]
  BY DEF PushChanges
<1>2. DOMAIN info' = DOMAIN info \cup Reached /\ Reached \subseteq rows
  BY <1>1 DEF Reached
<1>3. ASSUME NEW a \in DOMAIN info'
      PROVE  /\ info'[a] \in Info
             /\ object[a].gen = 1 => /\ info'[a].count <= object[a].fired
                                     /\ object[a].alive => AboutFirst(info'[a], a)
  <2>1. a \in Address
    BY <1>2 DEF Inv, Types
  <2>2. CASE a \in Reached /\ Timer(a) \in Changes
    <3> DEFINE k == Timer(a)
    <3>1. info'[a] = Change(k) /\ k \in DOMAIN gathered /\ ~IsFree(k)
      BY <1>1, <1>2, <2>1, <2>2, TimerKeys DEF Changes
    <3>2. gathered[k] \in Datum
      BY <3>1 DEF Inv, Types
    <3>3. /\ gathered[k].count \in Nat
          /\ Gathered(gathered[k]) = gathered[k].count \/ Gathered(gathered[k]) = gathered[k].count + 1
      BY <3>2, GatheredTyped
    <3>4. object[a].gen = 1 => /\ Gathered(gathered[k]) <= object[a].fired
                               /\ object[a].alive => AboutFirst(gathered[k].info, a)
      BY <2>1, <3>1 DEF Inv, FirstGathered
    <3> HIDE DEF k
    <3>5. /\ Change(k) \in Info /\ Change(k).count = gathered[k].count
          /\ AboutFirst(gathered[k].info, a) => AboutFirst(Change(k), a)
      BY <3>1, ChangeTyped DEF AboutFirst
    <3>6. object[a].fired \in Nat
      BY <2>1, ObjectTyped
    <3>7. object[a].gen = 1 => gathered[k].count <= object[a].fired
      BY <3>3, <3>4, <3>6
    <3> QED
      BY <3>1, <3>4, <3>5, <3>7
  <2>3. CASE ~(a \in Reached /\ Timer(a) \in Changes)
    BY <1>1, <1>2, <2>1, <2>3, InfoOfRight
  <2> QED
    BY <2>2, <2>3
<1> QED
  BY <1>2, <1>3

\* A raw timer has one row, with what has been gathered of it.
LEMMA PushedFree ==
  ASSUME Inv, PushChanges
  PROVE  /\ free' \in Seq(Info)
         /\ \A i \in DOMAIN free' :
              /\ KeyOf(free'[i]) \in DOMAIN gathered /\ IsFree(KeyOf(free'[i]))
              /\ free'[i].count <= gathered[KeyOf(free'[i])].count
              /\ \A j \in DOMAIN free' : KeyOf(free'[i]) = KeyOf(free'[j]) => i = j
<1>1. /\ free \in Seq(Info) /\ Len(free) \in Nat /\ DOMAIN free = 1..Len(free)
      /\ \A i \in DOMAIN free : free[i] \in Info
  BY DEF Inv, Types
<1>2. \A i \in DOMAIN free : /\ KeyOf(free[i]) \in DOMAIN gathered /\ IsFree(KeyOf(free[i]))
                             /\ free[i].count <= gathered[KeyOf(free[i])].count
                             /\ \A j \in DOMAIN free : KeyOf(free[i]) = KeyOf(free[j]) => i = j
  BY DEF Inv, FreeKeys, FreeIsRight
<1>3. \A k \in DOMAIN gathered : IsFree(k) => KeyOf(gathered[k].info) = k
  BY DEF Inv, FreeKeys
<1>c. \A k \in DOMAIN gathered : gathered[k].count <= gathered[k].count
  <2> TAKE k \in DOMAIN gathered
  <2>1. gathered[k].count \in Nat
    BY GatheredTyped DEF Inv, Types
  <2> QED
    BY <2>1
<1>4. ASSUME NEW k \in DOMAIN gathered, IsFree(k)
      PROVE  /\ Change(k) \in Info /\ KeyOf(Change(k)) = k
             /\ Change(k).count <= gathered[k].count
  BY <1>3, <1>4, <1>c, ChangeTyped
<1>5. CASE UNCHANGED free
  BY <1>1, <1>2, <1>5
<1>6. ASSUME NEW new \in Sorted(NewKeys),
             free' = [i \in DOMAIN free |->
                        IF KeyOf(free[i]) \in Changes THEN Change(KeyOf(free[i])) ELSE free[i]]
                     \o [i \in DOMAIN new |-> Change(new[i])]
      PROVE  /\ free' \in Seq(Info)
             /\ \A i \in DOMAIN free' :
                  /\ KeyOf(free'[i]) \in DOMAIN gathered /\ IsFree(KeyOf(free'[i]))
                  /\ free'[i].count <= gathered[KeyOf(free'[i])].count
                  /\ \A j \in DOMAIN free' : KeyOf(free'[i]) = KeyOf(free'[j]) => i = j
  <2> DEFINE old == [i \in DOMAIN free |->
                       IF KeyOf(free[i]) \in Changes THEN Change(KeyOf(free[i])) ELSE free[i]]
             add == [i \in DOMAIN new |-> Change(new[i])]
             n   == Len(free)
             m   == Cardinality(NewKeys)
  <2>1. /\ NewKeys \subseteq DOMAIN gathered /\ NewKeys \subseteq Key
        /\ \A k \in NewKeys : IsFree(k) /\ \A i \in DOMAIN free : KeyOf(free[i]) # k
    BY DEF NewKeys, FreeChanges, Changes, Inv, Types
  <2>2. IsFiniteSet(NewKeys)
    BY <2>1, FS_Subset DEF Inv
  <2>3. /\ DOMAIN new = 1..m /\ m \in Nat /\ \A i \in DOMAIN new : new[i] \in NewKeys
        /\ \A i, j \in DOMAIN new : new[i] = new[j] => i = j
    BY <2>1, <2>2, SortedOnce
  <2> HIDE DEF m
  <2>4. ASSUME NEW i \in 1..n
        PROVE  /\ old[i] \in Info /\ KeyOf(old[i]) = KeyOf(free[i])
               /\ old[i].count <= gathered[KeyOf(free[i])].count
    <3>1. i \in DOMAIN free /\ KeyOf(free[i]) \in DOMAIN gathered /\ IsFree(KeyOf(free[i]))
      BY <1>1, <1>2
    <3>2. CASE KeyOf(free[i]) \in Changes
      BY <1>4, <3>1, <3>2
    <3>3. CASE KeyOf(free[i]) \notin Changes
      BY <1>1, <1>2, <3>1, <3>3
    <3> QED
      BY <3>2, <3>3
  <2>5. ASSUME NEW i \in 1..m
        PROVE  /\ add[i] \in Info /\ KeyOf(add[i]) = new[i] /\ new[i] \in NewKeys
               /\ add[i].count <= gathered[new[i]].count
    BY <1>4, <2>1, <2>3
  <2>6. DOMAIN old = 1..n /\ DOMAIN add = 1..m /\ n \in Nat
    BY <1>1, <2>3
  <2>7. free' = old \o add
    BY <1>6
  <2>8. old \in Seq(Info) /\ add \in Seq(Info) /\ Len(old) = n /\ Len(add) = m
    <3>1. old \in [1..n -> Info] /\ add \in [1..m -> Info]
      BY <2>4, <2>5, <2>6
    <3> HIDE DEF old, add, n
    <3> QED
      BY <2>3, <2>6, <3>1
  <2> HIDE DEF old, add, n
  <2>9. /\ free' \in Seq(Info) /\ DOMAIN free' = 1..(n + m)
        /\ \A i \in 1..(n + m) : free'[i] = IF i <= n THEN old[i] ELSE add[i - n]
    BY <2>7, <2>8, <2>6, <2>3
  <2>10. \A i \in DOMAIN free' : \/ i \in 1..n /\ free'[i] = old[i]
                                 \/ i - n \in 1..m /\ i \in Nat /\ free'[i] = add[i - n]
    BY <2>3, <2>6, <2>9
  <2>11. ASSUME NEW i \in DOMAIN free'
         PROVE  /\ KeyOf(free'[i]) \in DOMAIN gathered /\ IsFree(KeyOf(free'[i]))
                /\ free'[i].count <= gathered[KeyOf(free'[i])].count
    <3>1. CASE i \in 1..n /\ free'[i] = old[i]
      <4>1. i \in DOMAIN free
        BY <1>1, <3>1 DEF n
      <4> QED
        BY <1>2, <2>4, <3>1, <4>1
    <3>2. CASE i - n \in 1..m /\ free'[i] = add[i - n]
      BY <2>1, <2>5, <3>2
    <3> QED
      BY <2>10, <3>1, <3>2
  <2>12. ASSUME NEW i \in DOMAIN free', NEW j \in DOMAIN free', KeyOf(free'[i]) = KeyOf(free'[j])
         PROVE  i = j
    <3>1. \A x \in 1..n : x \in DOMAIN free /\ KeyOf(old[x]) = KeyOf(free[x])
      BY <1>1, <2>4 DEF n
    <3>2. \A x \in 1..n, y \in 1..m : KeyOf(old[x]) # KeyOf(add[y])
      BY <2>1, <2>5, <3>1
    <3>3. CASE i \in 1..n /\ free'[i] = old[i] /\ j \in 1..n /\ free'[j] = old[j]
      BY <1>2, <2>12, <3>1, <3>3
    <3>4. CASE /\ i - n \in 1..m /\ i \in Nat /\ free'[i] = add[i - n]
               /\ j - n \in 1..m /\ j \in Nat /\ free'[j] = add[j - n]
      <4>1. new[i - n] = new[j - n]
        BY <2>5, <2>12, <3>4
      <4>2. i - n = j - n
        BY <2>3, <3>4, <4>1
      <4> QED
        BY <2>6, <3>4, <4>2
    <3> QED
      BY <2>10, <2>12, <3>2, <3>3, <3>4
  <2> QED
    BY <2>9, <2>11, <2>12
<1> QED
  BY <1>5, <1>6 DEF PushChanges

LEMMA PushChangesInv ==
  ASSUME Inv, PushChanges
  PROVE  Inv'
<1>1. push' \in [posted : BOOLEAN, active : BOOLEAN] /\ UNCHANGED <<object, raw, rows, queue>>
  BY DEF PushChanges, Inv, Types
<1>2. Types'
  <2>1. /\ DOMAIN gathered' \subseteq Key /\ (\A k \in DOMAIN gathered' : gathered'[k] \in Datum)
        /\ DOMAIN info' \subseteq Address /\ (\A a \in DOMAIN info' : info'[a] \in Info)
        /\ free' \in Seq(Info)
    BY PushedGathered, PushedInfo, PushedFree DEF Inv, Types
  <2> QED
    BY <1>1, <2>1 DEF Inv, Types
<1>3. PushComes' /\ IsFiniteSet(DOMAIN gathered')
  BY PushedGathered DEF Inv, PushComes
<1>4. NothingBeforeTheFirst'
  BY <1>1, PushedGathered, PushedInfo DEF Inv, NothingBeforeTheFirst
<1>5. FirstGathered'
  <2> SUFFICES ASSUME NEW a \in Address, Timer(a) \in DOMAIN gathered, object[a].gen = 1
               PROVE  /\ Gathered(gathered'[Timer(a)]) <= object[a].fired
                      /\ object[a].alive => AboutFirst(gathered'[Timer(a)].info, a)
    BY <1>1, PushedGathered DEF FirstGathered
  <2>1. Gathered(gathered'[Timer(a)]) = Gathered(gathered[Timer(a)])
    BY PushedGathered DEF Gathered
  <2>2. /\ Gathered(gathered[Timer(a)]) <= object[a].fired
        /\ object[a].alive => AboutFirst(gathered[Timer(a)].info, a)
    BY DEF Inv, FirstGathered
  <2>3. ~IsFree(Timer(a))
    BY TimerKeys
  <2> QED
    BY <2>1, <2>2, <2>3, PushedGathered
<1>6. FirstShown'
  BY <1>1, PushedInfo DEF FirstShown
<1>7. FreeKeys'
  <2>1. \A k \in DOMAIN gathered' : IsFree(k) => KeyOf(gathered'[k].info) = k
    BY PushedGathered DEF Inv, FreeKeys
  <2> QED
    BY <2>1, PushedGathered, PushedFree DEF FreeKeys
<1>8. FreeIsRight'
  <2> SUFFICES ASSUME NEW i \in DOMAIN free'
               PROVE  /\ \A j \in DOMAIN free' : KeyOf(free'[i]) = KeyOf(free'[j]) => i = j
                      /\ free'[i].count <= gathered'[KeyOf(free'[i])].count
    BY DEF FreeIsRight
  <2>1. /\ KeyOf(free'[i]) \in DOMAIN gathered
        /\ free'[i].count <= gathered[KeyOf(free'[i])].count
        /\ \A j \in DOMAIN free' : KeyOf(free'[i]) = KeyOf(free'[j]) => i = j
    BY PushedFree
  <2> QED
    BY <2>1, PushedGathered
<1> QED
  BY <1>2, <1>3, <1>4, <1>5, <1>6, <1>7, <1>8 DEF Inv

-----------------------------------------------------------------------------
(***************************************************************************)
(* The theorems.                                                           *)
(***************************************************************************)

(* The inductive invariant holds: what the spy callbacks, the model and the main    *)
(* thread do keeps what each knows of a timer within what the timer has done        *)
(* (timermodel.cpp, timerinfo.cpp).                                                 *)
THEOREM Invariance == Spec => []Inv
<1>1. ASSUME Inv, [Next]_vars PROVE Inv'
  <2>1. CASE UNCHANGED vars
    BY <1>1, <2>1, ObjectsKeep DEF vars, modelVars, Inv, Types
  <2>2. ASSUME NEW a \in Address,
               \/ Switch(a) \/ SwitchRaw(a) \/ PreSignalActivate(a)
               \/ PostSignalActivate(a) \/ Create(a) \/ Fetch(a)
               \/ \E inMain \in BOOLEAN : Destroy(a, inMain)
        PROVE  Inv'
    BY <1>1, <2>2, SwitchInv, SwitchRawInv, PreSignalActivateInv, PostSignalActivateInv,
       CreateInv, FetchInv, DestroyInv
  <2>3. ASSUME NEW k \in raw, EventNotifyCallback(k) PROVE Inv'
    BY <1>1, <2>3, EventNotifyCallbackInv
  <2>4. CASE ProcessQueuedObjectChanges
    BY <1>1, <2>4, ProcessQueuedObjectChangesInv
  <2>5. CASE TriggerPushChanges
    BY <1>1, <2>5, TriggerPushChangesInv
  <2>6. CASE PushChanges
    BY <1>1, <2>6, PushChangesInv
  <2>7. CASE ClearHistory
    BY <1>1, <2>7, ClearHistoryInv
  <2> QED
    BY <1>1, <2>1, <2>2, <2>3, <2>4, <2>5, <2>6, <2>7 DEF Next
<1> QED
  BY <1>1, InitInv, PTL DEF Spec

(* What has been gathered in whatever thread is not forgotten: a push is on its way *)
(* (postSignalActivate(), eventNotifyCallback(), triggerPushChanges()).             *)
THEOREM PushComesAlways == Spec => []PushComes
  BY Invariance, PTL DEF Inv

(* A timer that is the first at its address has not more wake-ups in its row than   *)
(* it has fired, and the row knows it; a raw timer has one row, with no more        *)
(* wake-ups than were gathered (preSignalActivate(), update(), applyChanges()).     *)
THEOREM RowsRightAlways == Spec => []RowsRight
<1>1. Inv => RowsRight
  <2> SUFFICES ASSUME Inv PROVE FirstIsRight
    BY DEF Inv, RowsRight
  <2> SUFFICES ASSUME NEW a \in DOMAIN info, object[a].gen = 1
               PROVE  /\ info[a].count <= object[a].fired
                      /\ object[a].alive => info[a].state # "invalid" /\ ~Null(object, info[a])
    BY DEF FirstIsRight
  <2>1. /\ info[a].count <= object[a].fired
        /\ object[a].alive => AboutFirst(info[a], a)
    BY DEF Inv, FirstShown
  <2> QED
    BY <2>1 DEF AboutFirst, Null
<1> QED
  BY <1>1, Invariance, PTL

=============================================================================
