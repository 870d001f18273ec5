------------------------ MODULE ObjectTrackingProofs ------------------------
(***************************************************************************)
(* Proofs about ObjectTracking for every set of objects and every choice   *)
(* of the other constants: tracked objects exist, no wake-up is lost and   *)
(* the two signals keep the promises of probe.h.  The second half is about *)
(* the rows: the types, when objectCreated() is emitted, that tracked      *)
(* objects have a row or a reason not to, and that no row outlives its     *)
(* object but for a deletion that is queued.                               *)
(***************************************************************************)
EXTENDS ObjectTracking, SequenceTheorems, FiniteSetTheorems, WellFoundedInduction, TLAPS

-----------------------------------------------------------------------------
(***************************************************************************)
(* The inductive invariant.  An object is alive from the end of QObject's  *)
(* constructor; whatever holds a pointer to it that is dereferenced later  *)
(* must let go when it dies.                                               *)
(***************************************************************************)

Types ==
  /\ heap \in [Obj -> {"free", "base"} \cup Alive]
  /\ parent \in [Obj -> ObjOrNull]
  /\ home \in [Obj -> Thread]
  /\ phase \in {"before", "attached", "running"}
  /\ addedBefore \subseteq Obj
  /\ valid \subseteq Obj
  /\ calls \in Seq(CallFrames)
  /\ list \in [Obj -> Nat]

\* Only the target constructs objects in other threads.
NascentForeign == \A o \in Obj : heap[o] = "base" => o \notin Ours

\* A parent outlives its children.
ParentsAlive == \A o \in Obj : parent[o] # Null => heap[parent[o]] \in Alive

\* The early record holds objects of the target that exist.
EarlyAlive == \A o \in addedBefore : heap[o] \in Alive /\ o \notin Ours

\* It is empty while there is nothing to record, and after createProbe().
EarlyGone ==
  /\ phase # "before" /\ stage # "attach" => addedBefore = {}
  /\ ~hooked => phase = "before" /\ addedBefore = {} /\ calls = << >>

\* The nested calls are made for objects that exist, but for those of the queue,
\* which objectFullyConstructed() looks up first.
FramesOf(s) == {s[i] : i \in DOMAIN s}
FramesAlive ==
  \A f \in FramesOf(calls) : f.fn # "objectFullyConstructed" => heap[f.obj] \in Alive

\* Before the probe exists there is only the hook, for the target's objects.
BeforeQuiet ==
  phase = "before" =>
    /\ stage = "idle" /\ ~timerActive /\ ~startPosted /\ valid = {}
    /\ \A f \in FramesOf(calls) : f.fn = "objectAdded" /\ f.obj \notin Ours

AliveInv ==
  /\ Types /\ ParentsAlive /\ TrackedAlive /\ EarlyAlive /\ EarlyGone
  /\ FramesAlive /\ BeforeQuiet /\ NascentForeign

\* What a drain iterates over first is a copy of the queue.
QueueTyped ==
  /\ queue \in Seq(ObjectChanges)
  /\ stage = "changes" => todo \in Seq(ObjectChanges)

\* Creations queued after a drain's clear() started the timer anew.
QueueTimed == stage = "reparents" /\ queue # << >> => timerActive \/ startPosted

QueueInv == QueueTyped /\ QueueTimed /\ NoLostWakeup

Inv == AliveInv /\ QueueInv

-----------------------------------------------------------------------------
(***************************************************************************)
(* Operators of the model.                                                 *)
(***************************************************************************)

\* Whatever is above an object that exists exists.
LEMMA AncestorsAlive ==
  ASSUME AliveInv, NEW o \in Obj, heap[o] \in Alive
  PROVE  \A a \in SelfAndAncestors(parent, o) : a \in Obj /\ heap[a] \in Alive
<1> DEFINE S == {x \in Obj : heap[x] \in Alive}
<1>1. \A y \in S : parent[y] \in S \cup {} \cup {Null}
  BY DEF AliveInv, Types, ParentsAlive, ObjOrNull
<1>2. S \in SUBSET Obj /\ o \in S
  OBVIOUS
<1> QED
  BY <1>1, <1>2 DEF SelfAndAncestors, Climb

\* Removing a row takes at most its object off the list.
LEMMA RowRemovedRows ==
  ASSUME NEW rows \in [Obj -> Nat], NEW o
  PROVE  /\ RowRemoved(rows, o) \in [Obj -> Nat]
         /\ RowsOf(RowRemoved(rows, o)) \in {RowsOf(rows), RowsOf(rows) \ {o}}
<1>1. CASE o \notin Obj
  BY <1>1 DEF RowRemoved, RowsOf
<1>2. CASE o \in Obj
  <2>1. RowRemoved(rows, o) \in [Obj -> Nat]
    BY <1>2 DEF RowRemoved
  <2>2. CASE rows[o] > 1
    BY <1>2, <2>2 DEF RowRemoved, RowsOf
  <2>3. CASE ~(rows[o] > 1)
    BY <1>2, <2>3 DEF RowRemoved, RowsOf
  <2> QED
    BY <2>1, <2>2, <2>3
<1> QED
  BY <1>1, <1>2

\* Every frame of the stack is a record of its type.
LEMMA FramesTyped ==
  ASSUME NEW s \in Seq(CallFrames), NEW f \in FramesOf(s)
  PROVE  f \in CallFrames /\ f.obj \in Obj /\ f.fn \in Functions
<1>1. PICK i \in DOMAIN s : f = s[i]
  BY DEF FramesOf
<1>2. s[i] \in CallFrames
  OBVIOUS
<1> QED
  BY <1>1, <1>2 DEF CallFrames

\* Adding a row puts its object on the list.
LEMMA RowAddedRows ==
  ASSUME NEW rows \in [Obj -> Nat], NEW o \in Obj
  PROVE  /\ RowAdded(rows, o) \in [Obj -> Nat]
         /\ RowsOf(RowAdded(rows, o)) = RowsOf(rows) \cup {o}
  BY DEF RowAdded, RowsOf

\* The stack of nested calls after a call, a return and a call in last position.
LEMMA PushFrame ==
  ASSUME NEW s \in Seq(CallFrames), NEW f \in CallFrames
  PROVE  /\ <<f>> \o s \in Seq(CallFrames)
         /\ FramesOf(<<f>> \o s) = {f} \cup FramesOf(s)
<1> DEFINE t == <<f>> \o s
<1>1. t \in Seq(CallFrames) /\ t[1] = f /\ 1 \in DOMAIN t
  OBVIOUS
<1>2. \A i \in DOMAIN s : i + 1 \in DOMAIN t /\ t[i + 1] = s[i]
  OBVIOUS
<1>3. \A i \in DOMAIN t : i = 1 \/ (i - 1 \in DOMAIN s /\ t[i] = s[i - 1])
  OBVIOUS
<1> HIDE DEF t
<1>4. FramesOf(t) \subseteq {f} \cup FramesOf(s)
  BY <1>1, <1>3 DEF FramesOf
<1>5. {f} \cup FramesOf(s) \subseteq FramesOf(t)
  BY <1>1, <1>2 DEF FramesOf
<1> QED
  BY <1>1, <1>4, <1>5 DEF t

\* The stack of a running call, and what is left when it returns.
LEMMA PopFrame ==
  ASSUME NEW s \in Seq(CallFrames), s # << >>
  PROVE  /\ Tail(s) \in Seq(CallFrames) /\ Head(s) \in CallFrames
         /\ Head(s) \in FramesOf(s) /\ FramesOf(Tail(s)) \subseteq FramesOf(s)
<1>1. Tail(s) \in Seq(CallFrames) /\ Head(s) \in CallFrames
  OBVIOUS
<1>2. 1 \in DOMAIN s /\ Head(s) = s[1]
  OBVIOUS
<1>3. \A i \in DOMAIN Tail(s) : i + 1 \in DOMAIN s /\ Tail(s)[i] = s[i + 1]
  OBVIOUS
<1> QED
  BY <1>1, <1>2, <1>3 DEF FramesOf

\* An empty stack.
LEMMA NoFrames ==
  /\ << >> \in Seq(CallFrames) /\ FramesOf(<< >>) = {}
  BY DEF FramesOf

\* A stack of one call.
LEMMA OneFrame ==
  ASSUME NEW f \in CallFrames
  PROVE  <<f>> \in Seq(CallFrames) /\ FramesOf(<<f>>) = {f}
  BY DEF FramesOf

\* Two calls pushed at once are pushed one after the other.
LEMMA TwoFrames ==
  ASSUME NEW s \in Seq(CallFrames), NEW f \in CallFrames, NEW g \in CallFrames
  PROVE  <<f, g>> \o s = <<f>> \o (<<g>> \o s)
<1>1. <<f>> \in Seq(CallFrames) /\ <<g>> \in Seq(CallFrames)
  OBVIOUS
<1>2. <<f, g>> = <<f>> \o <<g>>
  <2> DEFINE a == <<f, g>>
             b == <<f>> \o <<g>>
  <2>1. a \in Seq(CallFrames) /\ Len(a) = 2 /\ a[1] = f /\ a[2] = g
    OBVIOUS
  <2>2. b \in Seq(CallFrames) /\ Len(b) = 2 /\ b[1] = f /\ b[2] = g
    OBVIOUS
  <2> HIDE DEF a, b
  <2>3. \A i \in 1..Len(a) : a[i] = b[i]
    BY <2>1, <2>2
  <2>4. a = b
    BY <2>1, <2>2, <2>3, SeqEqual
  <2> QED
    BY <2>4 DEF a, b
<1>3. (<<f>> \o <<g>>) \o s = <<f>> \o (<<g>> \o s)
  BY <1>1, ConcatAssociative
<1> QED
  BY <1>2, <1>3

\* The frames the actions push.
LEMMA NewFrames ==
  ASSUME NEW o \in Obj
  PROVE  /\ CtorCall(o) \in CallFrames
         /\ \A fn \in Functions : Call(fn, o) \in CallFrames
  BY DEF CtorCall, Call, CallFrames, Functions

\* Purging takes out one queued creation, if there is one.
LEMMA PurgedShape ==
  ASSUME NEW q \in Seq(ObjectChanges), NEW o
  PROVE  \/ Purged(q, o) = q /\ \A i \in DOMAIN q : q[i] # Change("Create", o)
         \/ \E k \in 1..Len(q) : /\ q[k] = Change("Create", o)
                                 /\ Purged(q, o) = SubSeq(q, 1, k - 1) \o SubSeq(q, k + 1, Len(q))
<1> DEFINE hits == {i \in DOMAIN q : q[i] = Change("Create", o)}
           first == CHOOSE i \in hits : \A j \in hits : i <= j
<1>1. CASE hits = {}
  BY <1>1 DEF Purged
<1>2. CASE hits # {}
  <2>1. hits \subseteq Nat
    OBVIOUS
  <2>2. \E i \in hits : \A j \in hits : i <= j
    <3> DEFINE R == OpToRel(<, Nat)
    <3>1. IsWellFoundedOn(R, Nat)
      BY NatLessThanWellFounded
    <3>2. R = {ss \in Nat \X Nat : ss[1] < ss[2]}
      BY DEF OpToRel
    <3> HIDE DEF R, hits
    <3>3. \A i, j \in Nat : j < i => <<j, i>> \in R
      BY <3>2
    <3>4. \E i \in hits : \A j \in hits : ~ (<<j, i>> \in R)
      BY <1>2, <2>1, <3>1, WFMin
    <3>5. PICK i \in hits : \A j \in hits : ~ (<<j, i>> \in R)
      BY <3>4
    <3>6. \A j \in hits : i \in Nat /\ j \in Nat /\ ~ (j < i)
      BY <2>1, <3>3, <3>5
    <3>7. \A j \in hits : i <= j
      BY <3>6
    <3> QED
      BY <3>7
  <2>3. first \in hits
    BY <2>2
  <2>4. first \in 1..Len(q) /\ q[first] = Change("Create", o)
    BY <2>3
  <2>5. Purged(q, o) = SubSeq(q, 1, first - 1) \o SubSeq(q, first + 1, Len(q))
    BY <1>2 DEF Purged
  <2> HIDE DEF first, hits
  <2> QED
    BY <2>4, <2>5
<1> QED
  BY <1>1, <1>2

\* Purging keeps the queue a sequence of changes.
LEMMA PurgedTyped ==
  ASSUME NEW q \in Seq(ObjectChanges), NEW o
  PROVE  Purged(q, o) \in Seq(ObjectChanges)
<1>1. CASE Purged(q, o) = q
  BY <1>1
<1>2. ASSUME NEW k \in 1..Len(q),
             Purged(q, o) = SubSeq(q, 1, k - 1) \o SubSeq(q, k + 1, Len(q))
      PROVE  Purged(q, o) \in Seq(ObjectChanges)
  <2>1. /\ SubSeq(q, 1, k - 1) \in Seq(ObjectChanges)
        /\ SubSeq(q, k + 1, Len(q)) \in Seq(ObjectChanges)
    OBVIOUS
  <2> QED
    BY <1>2, <2>1
<1> QED
  BY <1>1, <1>2, PurgedShape

\* Appending a change keeps the queue a sequence of changes.
LEMMA ChangesTyped ==
  ASSUME NEW o \in Obj, NEW type \in ChangeTypes, NEW q \in Seq(ObjectChanges)
  PROVE  Append(q, Change(type, o)) \in Seq(ObjectChanges)
  BY DEF ObjectChanges, Change

-----------------------------------------------------------------------------
(***************************************************************************)
(* The invariant holds initially and every action preserves it.            *)
(***************************************************************************)

\* No object exists at first.
LEMMA AliveInit == Init => AliveInv
<1> SUFFICES ASSUME Init PROVE AliveInv
  OBVIOUS
<1> USE DEF Init
<1>1. Types
  BY NoFrames DEF Types, Alive, Thread, ObjOrNull, NoRows
<1>2. ParentsAlive /\ TrackedAlive /\ EarlyAlive /\ NascentForeign
  BY DEF NascentForeign, ParentsAlive, TrackedAlive, EarlyAlive
<1>3. EarlyGone /\ FramesAlive /\ BeforeQuiet
  BY NoFrames DEF EarlyGone, FramesAlive, BeforeQuiet
<1> QED
  BY <1>1, <1>2, <1>3 DEF AliveInv

\* A construction, in whichever state it leaves the object.
LEMMA OccupyKeeps ==
  ASSUME AliveInv, NEW o \in Obj, NEW p \in ObjOrNull, NEW t \in Thread,
         NEW s \in {"base"} \cup Alive, Occupy(o, p, t, s)
  PROVE  /\ heap' \in [Obj -> {"free", "base"} \cup Alive]
         /\ parent' \in [Obj -> ObjOrNull] /\ home' \in [Obj -> Thread]
         /\ \A x \in Obj : heap[x] \in Alive => heap'[x] \in Alive
         /\ heap'[o] = s
         /\ ParentsAlive'
         /\ s # "base" \/ o \notin Ours => NascentForeign'
<1> USE DEF Occupy
<1>1. heap[o] = "free" /\ "free" \notin Alive
  BY DEF Alive
<1>2. /\ heap' \in [Obj -> {"free", "base"} \cup Alive]
      /\ parent' \in [Obj -> ObjOrNull] /\ home' \in [Obj -> Thread]
      /\ heap'[o] = s
  BY DEF AliveInv, Types
<1>3. \A x \in Obj : heap[x] \in Alive => heap'[x] \in Alive
  BY <1>1 DEF AliveInv, Types
<1>4. ParentsAlive'
  BY <1>3 DEF AliveInv, Types, ParentsAlive, Usable, ObjOrNull
<1>5. s # "base" \/ o \notin Ours => NascentForeign'
  BY DEF AliveInv, Types, NascentForeign
<1> QED
  BY <1>2, <1>3, <1>4, <1>5

\* Frames stay safe when objects only come to life and the new ones are safe.
LEMMA FramesStay ==
  ASSUME Types, FramesAlive, NEW S,
         \A x \in Obj : heap[x] \in Alive => heap'[x] \in Alive,
         FramesOf(calls') \subseteq S \cup FramesOf(calls),
         \A f \in S : f.fn # "objectFullyConstructed" => heap'[f.obj] \in Alive
  PROVE  FramesAlive'
<1> SUFFICES ASSUME NEW f \in FramesOf(calls'), f.fn # "objectFullyConstructed"
             PROVE  heap'[f.obj] \in Alive
  BY DEF FramesAlive
<1>1. CASE f \in S
  BY <1>1
<1>2. CASE f \in FramesOf(calls)
  <2>1. f.obj \in Obj
    BY <1>2, FramesTyped DEF Types
  <2> QED
    BY <1>2, <2>1 DEF FramesAlive
<1> QED
  BY <1>1, <1>2

\* The same when the stack does not change.
LEMMA SameFrames ==
  ASSUME Types, FramesAlive, UNCHANGED calls,
         \A x \in Obj : heap[x] \in Alive => heap'[x] \in Alive
  PROVE  FramesAlive'
  BY FramesTyped DEF Types, FramesAlive

\* Once the probe exists: a step that leaves the objects alone, tracks objects
\* that exist and calls for such objects.
LEMMA ProbeStep ==
  ASSUME AliveInv, phase # "before", phase' \in {"attached", "running"},
         UNCHANGED <<heap, parent, home, hooked>>,
         list' \in [Obj -> Nat],
         valid' \subseteq Obj, \A o \in valid' : heap[o] \in Alive,
         addedBefore' \subseteq addedBefore, stage' # "attach" => addedBefore' = {},
         calls' \in Seq(CallFrames), NEW S,
         FramesOf(calls') \subseteq S \cup FramesOf(calls),
         \A f \in S : f.fn # "objectFullyConstructed" => heap[f.obj] \in Alive
  PROVE  AliveInv'
<1>1. Types'
  BY DEF AliveInv, Types
<1>2. /\ ParentsAlive' /\ TrackedAlive' /\ EarlyAlive' /\ EarlyGone' /\ BeforeQuiet'
      /\ NascentForeign'
  BY DEF AliveInv, NascentForeign, ParentsAlive, TrackedAlive, EarlyAlive, EarlyGone, BeforeQuiet
<1>3. FramesAlive'
  BY FramesStay DEF AliveInv
<1> QED
  BY <1>1, <1>2, <1>3 DEF AliveInv

\* The same when the stack does not grow.
LEMMA QuietProbeStep ==
  ASSUME AliveInv, phase # "before", phase' \in {"attached", "running"},
         UNCHANGED <<heap, parent, home, hooked>>,
         list' \in [Obj -> Nat],
         valid' \subseteq Obj, \A o \in valid' : heap[o] \in Alive,
         addedBefore' \subseteq addedBefore, stage' # "attach" => addedBefore' = {},
         calls' \in Seq(CallFrames), FramesOf(calls') \subseteq FramesOf(calls)
  PROVE  AliveInv'
<1> DEFINE S == {}
<1>1. FramesOf(calls') \subseteq S \cup FramesOf(calls)
  OBVIOUS
<1>2. \A f \in S : f.fn # "objectFullyConstructed" => heap[f.obj] \in Alive
  OBVIOUS
<1> HIDE DEF S
<1> QED
  BY <1>1, <1>2, ProbeStep

\* The target's and GammaRay's constructions.
LEMMA ConstructKeeps ==
  ASSUME AliveInv, NEW o \in Obj, NEW p \in ObjOrNull, NEW guarded \in BOOLEAN,
         Construct(o, p, guarded)
  PROVE  AliveInv'
<1> USE DEF Construct
<1> DEFINE s == IF guarded THEN "live" ELSE IF InToolInit THEN "nested" ELSE "derived"
<1>1. s \in Alive /\ "main" \in Thread
  BY DEF Alive, Thread
<1>2. Occupy(o, p, "main", s)
  OBVIOUS
<1> HIDE DEF s
<1>3. /\ heap' \in [Obj -> {"free", "base"} \cup Alive]
      /\ parent' \in [Obj -> ObjOrNull] /\ home' \in [Obj -> Thread]
      /\ \A x \in Obj : heap[x] \in Alive => heap'[x] \in Alive
      /\ heap'[o] \in Alive
      /\ ParentsAlive' /\ NascentForeign'
  BY <1>1, <1>2, OccupyKeeps DEF Alive
<1>4. calls' \in Seq(CallFrames) /\ FramesOf(calls') \subseteq {CtorCall(o)} \cup FramesOf(calls)
  BY NewFrames, PushFrame DEF AliveInv, Types, callVars
<1>5. Types'
  BY <1>3, <1>4 DEF AliveInv, Types, hookVars, modelVars
<1>6. TrackedAlive' /\ EarlyAlive'
  BY <1>3 DEF AliveInv, Types, TrackedAlive, EarlyAlive, hookVars
<1>7. EarlyGone'
  BY DEF AliveInv, EarlyGone, hookVars, loopVars, callVars
<1>8. FramesAlive'
  <2> DEFINE S == {CtorCall(o)}
  <2>1. \A f \in S : f.fn # "objectFullyConstructed" => heap'[f.obj] \in Alive
    BY <1>3 DEF CtorCall
  <2>2. FramesOf(calls') \subseteq S \cup FramesOf(calls)
    BY <1>4
  <2>3. Types /\ FramesAlive
    BY DEF AliveInv
  <2> HIDE DEF Construct, S
  <2> QED
    BY <1>3, <2>1, <2>2, <2>3, FramesStay
<1>9. BeforeQuiet'
  <2> SUFFICES ASSUME phase = "before" PROVE BeforeQuiet'
    BY DEF BeforeQuiet, hookVars
  <2>1. hooked /\ ~guarded => o \notin Ours
    BY DEF Instance
  <2>2. \A f \in FramesOf(calls') : f.fn = "objectAdded" /\ f.obj \notin Ours
    <3>1. CASE hooked /\ ~guarded
      BY <1>4, <2>1, <3>1 DEF AliveInv, BeforeQuiet, CtorCall
    <3>2. CASE ~(hooked /\ ~guarded)
      BY <3>2 DEF AliveInv, BeforeQuiet, callVars
    <3> QED
      BY <3>1, <3>2
  <2> QED
    BY <2>2 DEF AliveInv, BeforeQuiet, hookVars, queueVars, loopVars
<1> QED
  BY <1>3, <1>5, <1>6, <1>7, <1>8, <1>9 DEF AliveInv

\* A worker thread's constructor, before the hook.
LEMMA ConstructInWorkerKeeps ==
  ASSUME AliveInv, NEW o \in Obj, NEW p \in ObjOrNull, ConstructInWorker(o, p)
  PROVE  AliveInv'
<1> USE DEF ConstructInWorker
<1>1. /\ heap' \in [Obj -> {"free", "base"} \cup Alive]
      /\ parent' \in [Obj -> ObjOrNull] /\ home' \in [Obj -> Thread]
      /\ \A x \in Obj : heap[x] \in Alive => heap'[x] \in Alive
      /\ ParentsAlive' /\ NascentForeign'
  BY OccupyKeeps, TrackingAssumption DEF Thread
<1>2. Types' /\ TrackedAlive' /\ EarlyAlive'
  BY <1>1 DEF AliveInv, Types, TrackedAlive, EarlyAlive, hookVars, callVars, modelVars
<1>3. EarlyGone' /\ BeforeQuiet'
  BY DEF AliveInv, EarlyGone, BeforeQuiet, hookVars, queueVars, loopVars, callVars
<1>4. FramesAlive'
  BY <1>1, SameFrames DEF AliveInv, callVars
<1> QED
  BY <1>1, <1>2, <1>3, <1>4 DEF AliveInv

\* The hook, with the lock.
LEMMA HookInWorkerKeeps ==
  ASSUME AliveInv, NEW o \in Obj, HookInWorker(o)
  PROVE  AliveInv'
<1> USE DEF HookInWorker
<1>1. /\ heap' \in [Obj -> {"free", "base"} \cup Alive] /\ heap'[o] \in Alive
      /\ \A x \in Obj : heap[x] \in Alive => heap'[x] \in Alive
  BY DEF AliveInv, Types, Alive
<1>2. calls' \in Seq(CallFrames) /\ FramesOf(calls') \subseteq {CtorCall(o)}
  BY NewFrames, OneFrame, NoFrames DEF LockFree, callVars
<1>3. Types' /\ ParentsAlive' /\ TrackedAlive' /\ EarlyAlive' /\ NascentForeign'
  BY <1>1, <1>2 DEF AliveInv, NascentForeign, Types, ParentsAlive, TrackedAlive, EarlyAlive, hookVars,
                    modelVars, ObjOrNull
<1>4. EarlyGone'
  BY DEF AliveInv, EarlyGone, hookVars, loopVars, callVars
<1>5. FramesAlive'
  <2> DEFINE S == {CtorCall(o)}
  <2>1. \A f \in S : f.fn # "objectFullyConstructed" => heap'[f.obj] \in Alive
    BY <1>1 DEF CtorCall
  <2>2. FramesOf(calls') \subseteq S \cup FramesOf(calls)
    BY <1>2
  <2>3. Types /\ FramesAlive
    BY DEF AliveInv
  <2> HIDE DEF HookInWorker, S
  <2> QED
    BY <1>1, <2>1, <2>2, <2>3, FramesStay
<1>6. BeforeQuiet'
  <2>1. o \notin Ours
    BY DEF AliveInv, NascentForeign
  <2> QED
    BY <1>2, <2>1 DEF AliveInv, BeforeQuiet, CtorCall, hookVars, queueVars, loopVars
<1> QED
  BY <1>1, <1>3, <1>4, <1>5, <1>6 DEF AliveInv

\* The end of the subclass constructors.
LEMMA FinishConstructorKeeps ==
  ASSUME AliveInv, NEW o \in Obj, FinishConstructor(o)
  PROVE  AliveInv'
<1> USE DEF FinishConstructor
<1>1. /\ heap' \in [Obj -> {"free", "base"} \cup Alive]
      /\ \A x \in Obj : heap[x] \in Alive => heap'[x] \in Alive
  BY DEF AliveInv, Types, Alive
<1>2. Types' /\ ParentsAlive' /\ TrackedAlive' /\ EarlyAlive' /\ NascentForeign'
  BY <1>1 DEF AliveInv, NascentForeign, Types, ParentsAlive, TrackedAlive, EarlyAlive, hookVars,
              callVars, modelVars, ObjOrNull
<1>3. EarlyGone' /\ BeforeQuiet'
  BY DEF AliveInv, EarlyGone, BeforeQuiet, hookVars, queueVars, loopVars, callVars
<1>4. FramesAlive'
  BY <1>1, SameFrames DEF AliveInv, callVars
<1> QED
  BY <1>2, <1>3, <1>4 DEF AliveInv

\* ~QObject() takes the object from the records: nobody under the lock is using it,
\* since main thread code runs with an empty stack or inside a plugin's init().
LEMMA DestroyEffect ==
  ASSUME AliveInv, NEW o \in Obj, Destroy(o)
  PROVE  /\ valid' \subseteq valid \ {o} /\ addedBefore' \subseteq addedBefore \ {o}
         /\ phase = "before" => UNCHANGED queueVars
         /\ list' \in [Obj -> Nat]
         /\ RowsOf(list') \in {RowsOf(list), RowsOf(list) \ {o}}
<1> DEFINE t == home[o]
<1>1. stage \in {"idle", "fired"} \/ o \in Ours
  BY DEF Destroy, MainIdle, LockFree
<1>2. IF hooked THEN ObjectRemoved(o, t)
               ELSE UNCHANGED <<addedBefore, valid, queueVars, modelVars, lost>>
  BY DEF Destroy
<1>3. CASE ~hooked
  BY <1>2, <1>3 DEF AliveInv, Types, EarlyGone, BeforeQuiet, queueVars, modelVars
<1>4. CASE hooked /\ ~Instance
  BY <1>2, <1>4 DEF ObjectRemoved, RemovedBefore, Instance, AliveInv, Types, BeforeQuiet,
                    queueVars, modelVars
<1>5. CASE hooked /\ Instance
  <2>1. o \notin addedBefore
    BY <1>1, <1>5 DEF AliveInv, EarlyGone, EarlyAlive, Instance
  <2>2. UNCHANGED addedBefore /\ valid' \subseteq valid \ {o}
    BY <1>2, <1>5 DEF ObjectRemoved, RemovedHere, RemovedElsewhere
  <2>3. list' = list \/ list' = RowRemoved(list, o)
    BY <1>2, <1>5 DEF ObjectRemoved, RemovedHere, RemovedElsewhere, EmitDestroyed, modelVars
  <2> QED
    BY <1>5, <2>1, <2>2, <2>3, RowRemovedRows DEF AliveInv, Types, Instance
<1> QED
  BY <1>3, <1>4, <1>5

\* ~QObject() of an object that has no children left.
LEMMA DestroyKeeps ==
  ASSUME AliveInv, NEW o \in Obj, Destroy(o)
  PROVE  AliveInv'
<1>1. /\ heap' = [heap EXCEPT ![o] = "free"] /\ parent' = [parent EXCEPT ![o] = Null]
      /\ home' = [home EXCEPT ![o] = "main"]
      /\ heap[o] = "live" /\ ChildrenOf(parent, o) = {}
      /\ UNCHANGED <<hooked, phase, stage, calls>>
  BY DEF Destroy, loopVars, callVars
<1>2. calls = << >> \/ (InToolInit /\ o \in Ours /\ \A i \in DOMAIN calls : calls[i].obj # o)
  BY DEF Destroy, MainIdle, LockFree
<1>5. \A x \in Obj : x # o => heap'[x] = heap[x] /\ parent'[x] = parent[x]
  BY <1>1 DEF AliveInv, Types
<1>6. \A x \in Obj : parent'[x] # o
  BY <1>1, ObjAssumption DEF AliveInv, Types, ChildrenOf
<1>7. /\ heap' \in [Obj -> {"free", "base"} \cup Alive]
      /\ parent' \in [Obj -> ObjOrNull] /\ home' \in [Obj -> Thread]
  BY <1>1 DEF AliveInv, Types, ObjOrNull, Thread
<1>8. ParentsAlive' /\ NascentForeign'
  BY <1>1, <1>5, <1>6, <1>7 DEF AliveInv, Types, ParentsAlive, NascentForeign, ObjOrNull
<1>9. /\ valid' \subseteq valid \ {o} /\ addedBefore' \subseteq addedBefore \ {o}
      /\ phase = "before" => UNCHANGED queueVars
      /\ list' \in [Obj -> Nat]
  BY DestroyEffect
<1>10. Types' /\ TrackedAlive' /\ EarlyAlive'
  BY <1>1, <1>5, <1>7, <1>9 DEF AliveInv, Types, TrackedAlive, EarlyAlive
<1>11. EarlyGone' /\ BeforeQuiet'
  BY <1>1, <1>9 DEF AliveInv, EarlyGone, BeforeQuiet, queueVars
<1>12. FramesAlive'
  <2>1. CASE calls = << >>
    BY <1>1, <2>1, NoFrames DEF FramesAlive
  <2>2. CASE \A i \in DOMAIN calls : calls[i].obj # o
    <3>1. \A f \in FramesOf(calls) : f.obj \in Obj /\ f.obj # o
      BY <2>2, FramesTyped DEF FramesOf, AliveInv, Types
    <3> QED
      BY <1>1, <1>5, <3>1 DEF AliveInv, FramesAlive
  <2> QED
    BY <1>2, <2>1, <2>2
<1> QED
  BY <1>8, <1>10, <1>11, <1>12 DEF AliveInv

\* The frames of the events setParent() sends.
LEMMA SetParentFrames ==
  ASSUME AliveInv, NEW o \in Obj, NEW p \in ObjOrNull, NEW widget \in BOOLEAN,
         SetParent(o, p, widget)
  PROVE  /\ calls' \in Seq(CallFrames)
         /\ FramesOf(calls') \subseteq
              {Call("childRemoved", o), Call("childAdded", o), Call("parentChange", o)}
                \cup FramesOf(calls)
         /\ ~(home[o] = "main" /\ phase = "running") => UNCHANGED calls
<1> DEFINE seen == home[o] = "main" /\ phase = "running"
           S == {Call("childRemoved", o), Call("childAdded", o), Call("parentChange", o)}
<1>1. CASE ~seen
  BY <1>1 DEF SetParent, callVars, AliveInv, Types
<1>2. CASE seen
  <2>1. S \subseteq CallFrames
    BY NewFrames DEF Functions
  <2> DEFINE A == IF parent[o] # Null THEN <<Call("childRemoved", o)>> ELSE << >>
             B == IF p # Null THEN <<Call("childAdded", o)>> ELSE << >>
             C == IF widget THEN <<Call("parentChange", o)>> ELSE << >>
  <2>2. calls' = A \o B \o C
    BY <1>2 DEF SetParent
  <2>3. A \in Seq(S) /\ B \in Seq(S) /\ C \in Seq(S)
    <3>1. \A f \in S : <<f>> \in Seq(S)
      OBVIOUS
    <3>2. << >> \in Seq(S)
      OBVIOUS
    <3>3. Call("childRemoved", o) \in S /\ Call("childAdded", o) \in S /\ Call("parentChange", o) \in S
      OBVIOUS
    <3> HIDE DEF S
    <3> QED
      BY <3>1, <3>2, <3>3
  <2> HIDE DEF A, B, C, S
  <2>4. calls' \in Seq(S)
    BY <2>2, <2>3
  <2>5. calls' \in Seq(CallFrames) /\ FramesOf(calls') \subseteq S \cup FramesOf(calls)
    BY <2>1, <2>4 DEF FramesOf
  <2> QED
    BY <1>2, <2>5 DEF S
<1> QED
  BY <1>1, <1>2

\* setParent(), with the events it sends.
LEMMA SetParentKeeps ==
  ASSUME AliveInv, NEW o \in Obj, NEW p \in ObjOrNull, NEW widget \in BOOLEAN,
         SetParent(o, p, widget)
  PROVE  AliveInv'
<1> DEFINE seen == home[o] = "main" /\ phase = "running"
           S == {Call("childRemoved", o), Call("childAdded", o), Call("parentChange", o)}
<1>1. /\ heap[o] \in Alive /\ (p # Null => heap[p] \in Alive)
      /\ parent' = [parent EXCEPT ![o] = p]
      /\ UNCHANGED <<heap, home, hooked, phase, addedBefore, valid, stage, list,
                     timerActive, startPosted>>
  BY DEF SetParent, Usable, hookVars, loopVars, queueVars, modelVars
<1>2. /\ parent' \in [Obj -> ObjOrNull] /\ ParentsAlive'
  BY <1>1 DEF AliveInv, Types, ParentsAlive, ObjOrNull
<1>3. /\ calls' \in Seq(CallFrames) /\ FramesOf(calls') \subseteq S \cup FramesOf(calls)
      /\ ~seen => UNCHANGED calls
  BY SetParentFrames
<1>4. Types' /\ TrackedAlive' /\ EarlyAlive' /\ EarlyGone' /\ NascentForeign'
  BY <1>1, <1>2, <1>3 DEF AliveInv, Types, TrackedAlive, EarlyAlive, EarlyGone, NascentForeign
<1>5. FramesAlive'
  <2>1. \A f \in S : f.fn # "objectFullyConstructed" => heap'[f.obj] \in Alive
    BY <1>1 DEF Call
  <2>2. Types /\ FramesAlive
    BY DEF AliveInv
  <2> HIDE DEF S
  <2> QED
    BY <1>1, <1>3, <2>1, <2>2, FramesStay
<1>6. BeforeQuiet'
  BY <1>1, <1>3 DEF AliveInv, BeforeQuiet
<1> QED
  BY <1>2, <1>4, <1>5, <1>6 DEF AliveInv

\* An event of an object not known yet.
LEMMA ReceiveEventKeeps ==
  ASSUME AliveInv, NEW o \in Obj, ReceiveEvent(o)
  PROVE  AliveInv'
<1> DEFINE S == {Call("discoverObject", o)}
<1>1. /\ heap[o] \in Alive /\ phase = "running" /\ stage = "idle"
      /\ UNCHANGED <<heap, parent, home, hooked, phase, addedBefore, valid, stage, list>>
  BY DEF ReceiveEvent, MainIdle, Undiscovered, heapVars, hookVars, loopVars, modelVars
<1>2. calls' \in Seq(CallFrames) /\ FramesOf(calls') \subseteq S \cup FramesOf(calls)
  BY NewFrames, OneFrame DEF ReceiveEvent, Functions
<1>3. \A f \in S : f.fn # "objectFullyConstructed" => heap[f.obj] \in Alive
  BY <1>1 DEF Call
<1>4. /\ valid \subseteq Obj /\ (\A x \in valid : heap[x] \in Alive)
      /\ list \in [Obj -> Nat] /\ addedBefore = {}
  BY <1>1 DEF AliveInv, Types, TrackedAlive, EarlyGone
<1> HIDE DEF S
<1> QED
  BY <1>1, <1>2, <1>3, <1>4, ProbeStep

\* Hooks, createProbe() and delayedInit().
LEMMA StartUpKeeps ==
  ASSUME AliveInv, StartUp
  PROVE  AliveInv'
<1> USE DEF heapVars, hookVars, queueVars, loopVars, callVars, modelVars
<1>0. /\ valid \subseteq Obj /\ (\A x \in valid : heap[x] \in Alive)
      /\ list \in [Obj -> Nat] /\ calls \in Seq(CallFrames)
  BY DEF AliveInv, Types, TrackedAlive
<1>1. CASE InstallHooks
  <2>1. Types' /\ ParentsAlive' /\ TrackedAlive' /\ EarlyAlive' /\ NascentForeign'
    BY <1>1 DEF InstallHooks, AliveInv, Types, ParentsAlive, TrackedAlive, EarlyAlive,
                NascentForeign
  <2>2. EarlyGone' /\ FramesAlive' /\ BeforeQuiet'
    BY <1>1 DEF InstallHooks, AliveInv, EarlyGone, FramesAlive, BeforeQuiet
  <2> QED
    BY <2>1, <2>2 DEF AliveInv
<1>2. CASE CreateProbe
  <2>1. Types' /\ ParentsAlive' /\ TrackedAlive' /\ EarlyAlive' /\ NascentForeign'
    BY <1>2 DEF CreateProbe, AliveInv, Types, ParentsAlive, TrackedAlive, EarlyAlive,
                NascentForeign
  <2>2. EarlyGone' /\ FramesAlive' /\ BeforeQuiet'
    BY <1>2 DEF CreateProbe, AliveInv, EarlyGone, FramesAlive, BeforeQuiet
  <2> QED
    BY <2>1, <2>2 DEF AliveInv
<1>3. CASE AddNext
  <2> PICK o \in addedBefore : /\ calls' = <<Call("objectAdded", o)>>
                               /\ addedBefore' = addedBefore \ {o}
    BY <1>3 DEF AddNext
  <2> DEFINE S == {Call("objectAdded", o)}
  <2>1. o \in Obj /\ heap[o] \in Alive
    BY DEF AliveInv, Types, EarlyAlive
  <2>2. calls' \in Seq(CallFrames) /\ FramesOf(calls') \subseteq S \cup FramesOf(calls)
    BY <2>1, NewFrames, OneFrame DEF Functions
  <2>3. \A f \in S : f.fn # "objectFullyConstructed" => heap[f.obj] \in Alive
    BY <2>1 DEF Call
  <2>4. /\ phase \in {"attached", "running"} /\ phase # "before" /\ stage' = "attach"
        /\ UNCHANGED <<heap, parent, home, hooked, phase, valid, list>>
        /\ addedBefore' \subseteq addedBefore
    BY <1>3 DEF AddNext, AliveInv, Types, BeforeQuiet
  <2> HIDE DEF S
  <2> QED
    BY <1>0, <2>2, <2>3, <2>4, ProbeStep
<1>4. CASE AddedAll
  <2>1. /\ phase \in {"attached", "running"} /\ phase # "before" /\ addedBefore = {}
        /\ UNCHANGED <<heap, parent, home, hooked, phase, addedBefore, valid, list, calls>>
    BY <1>4 DEF AddedAll, AliveInv, Types, BeforeQuiet
  <2> QED
    BY <1>0, <2>1, QuietProbeStep
<1>5. CASE FindNext
  <2>1. /\ phase \in {"attached", "running"} /\ phase # "before" /\ stage = "find"
        /\ UNCHANGED <<heap, parent, home, hooked, phase, addedBefore, valid, list>>
    BY <1>5 DEF FindNext, AliveInv, Types, BeforeQuiet
  <2>2. addedBefore = {}
    BY <2>1 DEF AliveInv, EarlyGone
  <2>3. CASE UNCHANGED calls
    BY <1>0, <2>1, <2>2, <2>3, QuietProbeStep
  <2>4. CASE \E o \in Undiscovered(Findable) : calls' = <<Call("discoverObject", o)>>
    <3> PICK o \in Undiscovered(Findable) : calls' = <<Call("discoverObject", o)>>
      BY <2>4
    <3> DEFINE S == {Call("discoverObject", o)}
    <3>1. o \in Obj /\ heap[o] \in Alive
      BY TrackingAssumption DEF Undiscovered
    <3>2. calls' \in Seq(CallFrames) /\ FramesOf(calls') \subseteq S \cup FramesOf(calls)
      BY <3>1, NewFrames, OneFrame DEF Functions
    <3>3. \A f \in S : f.fn # "objectFullyConstructed" => heap[f.obj] \in Alive
      BY <3>1 DEF Call
    <3> HIDE DEF S
    <3> QED
      BY <1>0, <2>1, <2>2, <3>2, <3>3, ProbeStep
  <2> QED
    BY <1>5, <2>3, <2>4 DEF FindNext
<1>6. CASE DelayedInit
  <2>1. /\ phase = "attached" /\ phase' = "running" /\ stage = "idle" /\ addedBefore = {}
        /\ UNCHANGED <<heap, parent, home, hooked, addedBefore, valid, list, calls>>
    BY <1>6 DEF DelayedInit, InEventLoop, AliveInv, EarlyGone
  <2> QED
    BY <1>0, <2>1, QuietProbeStep
<1> QED
  BY <1>1, <1>2, <1>3, <1>4, <1>5, <1>6 DEF StartUp

\* The timer and its slot: objects are dropped from the records, none are added.
LEMMA DrainKeeps ==
  ASSUME AliveInv, QueueTyped, Drain
  PROVE  AliveInv'
<1> USE DEF heapVars, hookVars, queueVars, loopVars, callVars, modelVars
<1>0. /\ valid \subseteq Obj /\ (\A x \in valid : heap[x] \in Alive)
      /\ list \in [Obj -> Nat] /\ calls \in Seq(CallFrames)
  BY DEF AliveInv, Types, TrackedAlive
<1>1. CASE DeliverStart \/ TimerFires
  <2>1. /\ phase \in {"attached", "running"} /\ phase # "before" /\ stage = "idle"
        /\ stage' # "attach"
        /\ UNCHANGED <<heap, parent, home, hooked, phase, addedBefore, valid, list, calls>>
    BY <1>1 DEF DeliverStart, TimerFires, InEventLoop, AliveInv, Types, BeforeQuiet
  <2>2. addedBefore = {}
    BY <2>1 DEF AliveInv, EarlyGone
  <2> QED
    BY <1>0, <2>1, <2>2, QuietProbeStep
<1>2. ASSUME stage \notin {"idle", "attach"}, stage' # "attach",
             UNCHANGED <<heap, parent, home, hooked, phase, addedBefore>>,
             valid' \subseteq valid,
             list' = list \/ (\E o : list' = RowRemoved(list, o)),
             UNCHANGED calls
      PROVE  AliveInv'
  <2>1. phase \in {"attached", "running"} /\ phase # "before" /\ addedBefore = {}
    BY <1>2 DEF AliveInv, Types, BeforeQuiet, EarlyGone
  <2>2. list' \in [Obj -> Nat]
    BY <1>0, <1>2, RowRemovedRows
  <2>3. valid' \subseteq Obj /\ \A x \in valid' : heap[x] \in Alive
    BY <1>0, <1>2
  <2> QED
    BY <1>0, <1>2, <2>1, <2>2, <2>3, QuietProbeStep
<1>3. CASE StartDrain \/ ClearQueue \/ FinishDrain
  BY <1>2, <1>3 DEF StartDrain, ClearQueue, FinishDrain
<1>4. CASE DrainReparent
  <2>1. /\ stage \notin {"idle", "attach"} /\ stage' # "attach"
        /\ UNCHANGED <<heap, parent, home, hooked, phase, addedBefore, calls>>
    BY <1>4 DEF DrainReparent
  <2>2. valid' \subseteq valid /\ (list' = list \/ \E o : list' = RowRemoved(list, o))
    BY <1>4 DEF DrainReparent, EmitDestroyed, EmitReparented
  <2> QED
    BY <1>2, <2>1, <2>2
<1>5. CASE DrainChange
  <2>1. /\ stage = "changes" /\ stage' = "changes" /\ todo # << >> /\ calls = << >>
        /\ UNCHANGED <<heap, parent, home, hooked, phase, addedBefore, valid>>
    BY <1>5 DEF DrainChange
  <2>2. CASE Head(todo).type # "Create"
    <3>1. calls' = calls /\ \E o : list' = RowRemoved(list, o)
      BY <1>5, <2>2 DEF DrainChange, EmitDestroyed
    <3> QED
      BY <1>2, <2>1, <3>1
  <2>3. CASE Head(todo).type = "Create"
    <3> DEFINE S == {Call("objectFullyConstructed", Head(todo).obj)}
    <3>1. calls' \in Seq(CallFrames) /\ FramesOf(calls') \subseteq S \cup FramesOf(calls)
      <4>1. Head(todo).obj \in Obj
        <5>1. Head(todo) \in ObjectChanges
          BY <2>1 DEF QueueTyped
        <5> QED
          BY <5>1 DEF ObjectChanges
      <4>2. Call("objectFullyConstructed", Head(todo).obj) \in CallFrames
        BY <4>1, NewFrames DEF Functions
      <4> QED
        BY <1>5, <2>3, <4>2, OneFrame DEF DrainChange
    <3>2. \A f \in S : f.fn # "objectFullyConstructed" => heap[f.obj] \in Alive
      BY DEF Call
    <3>3. phase \in {"attached", "running"} /\ phase # "before" /\ addedBefore = {}
      BY <2>1 DEF AliveInv, Types, BeforeQuiet, EarlyGone
    <3>4. list' = list
      BY <1>5, <2>3 DEF DrainChange
    <3> HIDE DEF S
    <3> QED
      BY <1>0, <2>1, <3>1, <3>2, <3>3, <3>4, ProbeStep
  <2> QED
    BY <2>2, <2>3
<1> QED
  BY <1>1, <1>3, <1>4, <1>5 DEF Drain

\* A return, and the frames a running call may leave on the stack.
LEMMA HeadFrame ==
  ASSUME AliveInv, calls # << >>
  PROVE  /\ Head(calls).obj \in Obj /\ Head(calls) \in FramesOf(calls)
         /\ Tail(calls) \in Seq(CallFrames) /\ FramesOf(Tail(calls)) \subseteq FramesOf(calls)
         /\ Head(calls).fn # "objectFullyConstructed" => heap[Head(calls).obj] \in Alive
<1>1. calls \in Seq(CallFrames)
  BY DEF AliveInv, Types
<1>2. Head(calls) \in FramesOf(calls)
  BY <1>1, PopFrame
<1> QED
  BY <1>1, <1>2, PopFrame, FramesTyped DEF AliveInv, FramesAlive

\* A step of the lock holder that calls for existing objects keeps the invariant.
LEMMA CallStep ==
  ASSUME AliveInv, phase # "before",
         UNCHANGED <<heap, parent, home, hooked, phase, addedBefore, stage>>,
         list' \in [Obj -> Nat],
         valid' \subseteq Obj, \A o \in valid' : heap[o] \in Alive,
         calls' \in Seq(CallFrames), NEW S,
         FramesOf(calls') \subseteq S \cup FramesOf(calls),
         \A f \in S : f.fn # "objectFullyConstructed" => heap[f.obj] \in Alive
  PROVE  AliveInv'
<1>1. phase \in {"attached", "running"} /\ (stage # "attach" => addedBefore = {})
  BY DEF AliveInv, Types, EarlyGone
<1> QED
  BY <1>1, ProbeStep

\* The calls objectAdded() leaves behind: the rest of it, and before that its parent's.
RestFrame(f)   == [f EXCEPT !.fn = "trackObject"]
ParentFrame(f) == [f EXCEPT !.obj = parent[f.obj]]
AddedCalls(f)  == {RestFrame(f)} \cup (IF ParentUnknown(f.obj) THEN {ParentFrame(f)} ELSE {})

LEMMA AddedFrames ==
  ASSUME Types, ObjectAdded, NEW h, h = Head(calls)
  PROVE  /\ calls # << >> /\ h \in CallFrames /\ h.fn = "objectAdded" /\ h.obj \in Obj
         /\ Tail(calls) \in Seq(CallFrames)
         /\ RestFrame(h) \in CallFrames
         /\ RestFrame(h).fn = "trackObject" /\ RestFrame(h).obj = h.obj
         /\ RestFrame(h).fromCtor = h.fromCtor
         /\ ParentUnknown(h.obj) =>
              /\ parent[h.obj] \in Obj \ valid /\ ParentFrame(h) \in CallFrames
              /\ ParentFrame(h).fn = "objectAdded" /\ ParentFrame(h).obj = parent[h.obj]
              /\ ParentFrame(h).fromCtor = h.fromCtor
         /\ \/ calls' = Tail(calls)
            \/ /\ Instance /\ ~FilterObject(h.obj) /\ h.obj \notin valid
               /\ \/ ~ParentUnknown(h.obj) /\ calls' = <<RestFrame(h)>> \o Tail(calls)
                  \/ /\ ParentUnknown(h.obj)
                     /\ calls' = <<ParentFrame(h)>> \o (<<RestFrame(h)>> \o Tail(calls))
<1>1. calls # << >> /\ calls \in Seq(CallFrames) /\ h.fn = "objectAdded"
  BY DEF ObjectAdded, Running, Types
<1>2. h \in CallFrames /\ h.obj \in Obj /\ Tail(calls) \in Seq(CallFrames)
  BY <1>1, PopFrame, FramesTyped
<1>3. /\ RestFrame(h) \in CallFrames
      /\ RestFrame(h).fn = "trackObject" /\ RestFrame(h).obj = h.obj
      /\ RestFrame(h).fromCtor = h.fromCtor
  BY <1>2 DEF CallFrames, Functions, RestFrame
<1>4. ASSUME ParentUnknown(h.obj)
      PROVE  /\ parent[h.obj] \in Obj \ valid /\ ParentFrame(h) \in CallFrames
             /\ ParentFrame(h).fn = "objectAdded" /\ ParentFrame(h).obj = parent[h.obj]
             /\ ParentFrame(h).fromCtor = h.fromCtor
  <2>1. parent[h.obj] \in Obj \ valid
    BY <1>2, <1>4 DEF ParentUnknown, Types, ObjOrNull
  <2> QED
    BY <1>1, <1>2, <2>1 DEF CallFrames, ParentFrame
<1>5. \/ calls' = Tail(calls)
      \/ /\ Instance /\ ~FilterObject(h.obj) /\ h.obj \notin valid
         /\ \/ ~ParentUnknown(h.obj) /\ calls' = <<RestFrame(h)>> \o Tail(calls)
            \/ ParentUnknown(h.obj) /\ calls' = <<ParentFrame(h), RestFrame(h)>> \o Tail(calls)
  BY DEF ObjectAdded, Return, CallLast, RestFrame, ParentFrame
<1>6. ParentUnknown(h.obj) => <<ParentFrame(h), RestFrame(h)>> \o Tail(calls)
                                = <<ParentFrame(h)>> \o (<<RestFrame(h)>> \o Tail(calls))
  BY <1>2, <1>3, <1>4, TwoFrames
<1> QED
  BY <1>1, <1>2, <1>3, <1>4, <1>5, <1>6

\* The frames among them.
LEMMA AddedFramesOf ==
  ASSUME Types, ObjectAdded, NEW h, h = Head(calls)
  PROVE  calls' \in Seq(CallFrames) /\ FramesOf(calls') \subseteq AddedCalls(h) \cup FramesOf(calls)
<1> DEFINE t == RestFrame(h)
           p == ParentFrame(h)
           rest == <<t>> \o Tail(calls)
<1>1. /\ Tail(calls) \in Seq(CallFrames) /\ t \in CallFrames
      /\ ParentUnknown(h.obj) => p \in CallFrames
      /\ \/ calls' = Tail(calls) \/ calls' = rest
         \/ ParentUnknown(h.obj) /\ calls' = <<p>> \o rest
  BY AddedFrames
<1>2. FramesOf(Tail(calls)) \subseteq FramesOf(calls)
  BY AddedFrames, PopFrame DEF Types
<1>3. AddedCalls(h) = {t} \cup (IF ParentUnknown(h.obj) THEN {p} ELSE {})
  BY DEF AddedCalls
<1> HIDE DEF t, p
<1>4. rest \in Seq(CallFrames) /\ FramesOf(rest) = {t} \cup FramesOf(Tail(calls))
  BY <1>1, PushFrame
<1> HIDE DEF rest
<1>5. ASSUME ParentUnknown(h.obj), calls' = <<p>> \o rest
      PROVE  calls' \in Seq(CallFrames) /\ FramesOf(calls') = {p} \cup FramesOf(rest)
  BY <1>1, <1>4, <1>5, PushFrame
<1> QED
  BY <1>1, <1>2, <1>3, <1>4, <1>5

\* objectAdded(): the object is alive, and so is its parent.
LEMMA ObjectAddedKeeps ==
  ASSUME AliveInv, ObjectAdded
  PROVE  AliveInv'
<1> DEFINE h == Head(calls)
           o == h.obj
<1> USE DEF heapVars, hookVars, queueVars, loopVars, callVars, modelVars
<1>1. calls # << >> /\ h.fn = "objectAdded"
  BY DEF ObjectAdded, Running
<1>2. /\ o \in Obj /\ heap[o] \in Alive /\ calls \in Seq(CallFrames) /\ h \in FramesOf(calls)
      /\ Tail(calls) \in Seq(CallFrames) /\ FramesOf(Tail(calls)) \subseteq FramesOf(calls)
  BY <1>1, HeadFrame DEF AliveInv, Types
<1>3. /\ valid \subseteq Obj /\ (\A x \in valid : heap[x] \in Alive) /\ list \in [Obj -> Nat]
      /\ UNCHANGED <<heap, parent, home, hooked, phase, stage, list, valid>>
  BY DEF ObjectAdded, AliveInv, Types, TrackedAlive
<1>4. CASE ~Instance
  <2>1. /\ phase = "before" /\ addedBefore' = addedBefore \cup {o} /\ calls' = Tail(calls)
        /\ UNCHANGED <<valid, timerActive, startPosted>>
    BY <1>4 DEF ObjectAdded, Return, Instance
  <2>2. o \notin Ours
    BY <1>2, <2>1 DEF AliveInv, BeforeQuiet
  <2>3. Types' /\ ParentsAlive' /\ TrackedAlive' /\ NascentForeign'
    BY <1>2, <1>3, <2>1 DEF AliveInv, Types, ParentsAlive, TrackedAlive, NascentForeign
  <2>4. EarlyAlive' /\ EarlyGone'
    BY <1>1, <1>2, <1>3, <2>1, <2>2 DEF AliveInv, EarlyAlive, EarlyGone
  <2>5. FramesAlive' /\ BeforeQuiet'
    BY <1>2, <1>3, <2>1 DEF AliveInv, FramesAlive, BeforeQuiet
  <2> QED
    BY <2>3, <2>4, <2>5 DEF AliveInv
<1>5. CASE Instance
  <2> DEFINE S == AddedCalls(h)
  <2>1. phase # "before" /\ UNCHANGED addedBefore
    BY <1>5 DEF ObjectAdded, Instance
  <2>2. calls' \in Seq(CallFrames) /\ FramesOf(calls') \subseteq S \cup FramesOf(calls)
    BY AddedFramesOf DEF AliveInv
  <2>3. \A f \in S : heap[f.obj] \in Alive
    <3>1. /\ RestFrame(h).obj = o
          /\ ParentUnknown(o) => ParentFrame(h).obj = parent[o] /\ parent[o] \in Obj
      BY AddedFrames DEF AliveInv
    <3>2. parent[o] \in Obj => heap[parent[o]] \in Alive
      BY <1>2, ObjAssumption DEF AliveInv, ParentsAlive
    <3> QED
      BY <1>2, <3>1, <3>2 DEF AddedCalls
  <2> HIDE DEF S
  <2> QED
    BY <1>3, <2>1, <2>2, <2>3, CallStep
<1> QED
  BY <1>4, <1>5

\* What follows: the object is tracked, and its creation queued or announced at once.
LEMMA TrackObjectKeeps ==
  ASSUME AliveInv, TrackObject
  PROVE  AliveInv'
<1> DEFINE o == Head(calls).obj
           c == Call("objectFullyConstructed", o)
<1> USE DEF heapVars, hookVars, loopVars, modelVars
<1>1. calls # << >> /\ Head(calls).fn = "trackObject"
  BY DEF TrackObject, Running
<1>2. /\ o \in Obj /\ heap[o] \in Alive /\ calls \in Seq(CallFrames)
      /\ Head(calls) \in FramesOf(calls)
      /\ Tail(calls) \in Seq(CallFrames) /\ FramesOf(Tail(calls)) \subseteq FramesOf(calls)
  BY <1>1, HeadFrame DEF AliveInv, Types
<1>3. /\ valid \subseteq Obj /\ (\A x \in valid : heap[x] \in Alive) /\ list \in [Obj -> Nat]
      /\ UNCHANGED <<heap, parent, home, hooked, phase, stage, list, addedBefore>>
      /\ valid' = valid \cup {o}
  BY DEF TrackObject, AliveInv, Types, TrackedAlive
<1>4. phase # "before"
  BY <1>1, <1>2 DEF AliveInv, BeforeQuiet
<1>5. c \in CallFrames /\ c.fn = "objectFullyConstructed"
  BY <1>2, NewFrames DEF Functions, Call
<1>6. calls' = Tail(calls) \/ calls' = <<c>> \o Tail(calls)
  BY DEF TrackObject, Return, CallLast
<1> DEFINE S == {c}
<1> HIDE DEF c, o
<1>7. calls' \in Seq(CallFrames) /\ FramesOf(calls') \subseteq S \cup FramesOf(calls)
  BY <1>2, <1>5, <1>6, PushFrame
<1>8. /\ \A f \in S : f.fn # "objectFullyConstructed" => heap[f.obj] \in Alive
      /\ valid' \subseteq Obj /\ \A x \in valid' : heap[x] \in Alive
  BY <1>2, <1>3, <1>5
<1> HIDE DEF S
<1> QED
  BY <1>3, <1>4, <1>7, <1>8, CallStep

\* The other calls: each goes on to objects it has found to exist.
LEMMA OtherCallsKeep ==
  ASSUME AliveInv,
         \/ ObjectFullyConstructed \/ ToolInitReturns \/ ObjectCreated
         \/ DiscoverObject \/ DiscoverChildren
         \/ ChildRemoved \/ ChildAdded \/ ParentChange
  PROVE  AliveInv'
<1> DEFINE o == Head(calls).obj
<1> USE DEF heapVars, hookVars, queueVars, loopVars, callVars, modelVars
<1>1. /\ calls # << >> /\ Head(calls).fn # "objectAdded"
      /\ UNCHANGED <<heap, parent, home, hooked, phase, addedBefore, stage>>
  BY DEF ObjectFullyConstructed, ToolInitReturns, ObjectCreated, DiscoverObject,
         DiscoverChildren, ChildRemoved, ChildAdded, ParentChange, Running
<1>2. /\ o \in Obj /\ Head(calls) \in FramesOf(calls)
      /\ Tail(calls) \in Seq(CallFrames) /\ FramesOf(Tail(calls)) \subseteq FramesOf(calls)
      /\ Head(calls).fn # "objectFullyConstructed" => heap[o] \in Alive
      /\ calls \in Seq(CallFrames)
  BY <1>1, HeadFrame DEF AliveInv, Types
<1>3. phase # "before"
  BY <1>1, <1>2 DEF AliveInv, BeforeQuiet
<1>4. /\ valid \subseteq Obj /\ (\A x \in valid : heap[x] \in Alive) /\ list \in [Obj -> Nat]
  BY DEF AliveInv, Types, TrackedAlive
<1>5. ASSUME valid' \subseteq valid, list' \in [Obj -> Nat],
             NEW f \in CallFrames, f.fn # "objectFullyConstructed" => heap[f.obj] \in Alive,
             \/ calls' = Tail(calls) \/ calls' = <<f>> \o Tail(calls) \/ calls' = <<f>> \o calls
      PROVE  AliveInv'
  <2> DEFINE S == {f}
  <2>1. calls' \in Seq(CallFrames) /\ FramesOf(calls') \subseteq S \cup FramesOf(calls)
    <3>1. CASE calls' = Tail(calls)
      BY <1>2, <3>1
    <3>2. CASE calls' = <<f>> \o Tail(calls)
      BY <1>2, <3>2, PushFrame
    <3>3. CASE calls' = <<f>> \o calls
      BY <1>2, <3>3, PushFrame
    <3> QED
      BY <1>5, <3>1, <3>2, <3>3
  <2>2. \A g \in S : g.fn # "objectFullyConstructed" => heap[g.obj] \in Alive
    BY <1>5
  <2>3. valid' \subseteq Obj /\ \A x \in valid' : heap[x] \in Alive
    BY <1>4, <1>5
  <2> HIDE DEF S, o
  <2> QED
    BY <1>1, <1>3, <1>5, <2>1, <2>2, <2>3, CallStep
<1>6. ASSUME valid' \subseteq valid, list' \in [Obj -> Nat], calls' = Tail(calls)
      PROVE  AliveInv'
  <2>1. CtorCall(o) \in CallFrames /\ Call("objectFullyConstructed", o) \in CallFrames
    BY <1>2, NewFrames DEF Functions
  <2>2. Call("objectFullyConstructed", o).fn = "objectFullyConstructed"
    BY DEF Call
  <2> QED
    BY <1>5, <1>6, <2>1, <2>2
<1>7. \A fn \in Functions : /\ Call(fn, o) \in CallFrames
                           /\ Call(fn, o).obj = o
  BY <1>2, NewFrames DEF Call
<1>8. CASE ObjectFullyConstructed
  <2>1. CASE calls' = Tail(calls)
    BY <1>4, <1>6, <1>8, <2>1 DEF ObjectFullyConstructed
  <2>2. CASE calls' # Tail(calls)
    <3>1. o \in valid /\ heap[o] \in Alive /\ UNCHANGED <<valid, list>>
      BY <1>4, <1>8, <2>2 DEF ObjectFullyConstructed, Return
    <3> DEFINE t == Call("toolInit", o)
    <3>2. t \in CallFrames /\ heap[t.obj] \in Alive
      BY <1>7, <3>1 DEF Functions
    <3>3. CASE calls' = <<t>> \o Tail(calls)
      <4> HIDE DEF t
      <4> QED
        BY <1>4, <1>5, <3>1, <3>2, <3>3
    <3>4. CASE \E a \in NearestUnknown(o) :
                 calls' = <<Call("objectAdded", a), t>> \o Tail(calls)
      <4> PICK a \in NearestUnknown(o) :
                 calls' = <<Call("objectAdded", a), t>> \o Tail(calls)
        BY <3>4
      <4> DEFINE u == Call("objectAdded", a)
                 S == {u, t}
      <4>1. a \in Obj /\ heap[a] \in Alive
        BY <1>2, <3>1, AncestorsAlive DEF NearestUnknown, UnknownAncestors
      <4>2. u \in CallFrames /\ u.obj = a
        BY <4>1, NewFrames DEF Call, Functions
      <4>3. calls' = <<u>> \o (<<t>> \o Tail(calls))
        BY <1>2, <3>2, <4>2, TwoFrames
      <4> HIDE DEF u, t
      <4>4. /\ <<t>> \o Tail(calls) \in Seq(CallFrames)
            /\ FramesOf(<<t>> \o Tail(calls)) \subseteq S \cup FramesOf(calls)
        BY <1>2, <3>2, PushFrame
      <4>5. calls' \in Seq(CallFrames) /\ FramesOf(calls') \subseteq S \cup FramesOf(calls)
        BY ZenonT(60), <4>2, <4>3, <4>4, PushFrame
      <4>6. \A f \in S : f.fn # "objectFullyConstructed" => heap[f.obj] \in Alive
        BY <3>2, <4>1, <4>2
      <4>7. list' \in [Obj -> Nat] /\ valid' \subseteq Obj /\ \A x \in valid' : heap[x] \in Alive
        BY <1>4, <3>1
      <4> HIDE DEF S, o
      <4> QED
        BY <1>1, <1>3, <4>5, <4>6, <4>7, CallStep
    <3> QED
      BY <1>8, <2>2, <3>3, <3>4 DEF ObjectFullyConstructed, Return, CallLast
  <2> QED
    BY <2>1, <2>2
<1>9. CASE ToolInitReturns
  <2> DEFINE f == Call("objectCreated", o)
  <2>1. f \in CallFrames /\ heap[f.obj] \in Alive
    BY <1>2, <1>7, <1>9 DEF ToolInitReturns, Running, Functions
  <2>2. calls' = <<f>> \o Tail(calls) /\ valid' = valid /\ list' = list
    BY <1>9 DEF ToolInitReturns, CallLast
  <2> HIDE DEF f
  <2> QED
    BY <1>4, <1>5, <2>1, <2>2
<1>10. CASE ObjectCreated
  <2>1. calls' = Tail(calls) /\ valid' = valid /\ list' = RowAdded(list, o)
    BY <1>10 DEF ObjectCreated, Return, EmitCreated
  <2> QED
    BY <1>2, <1>4, <1>6, <2>1, RowAddedRows
<1>11. CASE DiscoverObject
  <2> DEFINE u == Call("objectAdded", o)
             v == Call("discoverChildren", o)
             S == {u, v}
  <2>1. CASE o \in valid
    BY <1>4, <1>6, <1>11, <2>1 DEF DiscoverObject
  <2>2. CASE o \notin valid
    <3>1. u \in CallFrames /\ v \in CallFrames /\ heap[u.obj] \in Alive /\ heap[v.obj] \in Alive
      BY <1>2, <1>7, <1>11 DEF DiscoverObject, Running, Functions
    <3>2. calls' = <<u, v>> \o Tail(calls) /\ valid' = valid /\ list' = list
      BY <1>11, <2>2 DEF DiscoverObject
    <3>3. calls' = <<u>> \o (<<v>> \o Tail(calls))
      BY <1>2, <3>1, <3>2, TwoFrames
    <3> HIDE DEF u, v
    <3>4. /\ <<v>> \o Tail(calls) \in Seq(CallFrames)
          /\ FramesOf(<<v>> \o Tail(calls)) \subseteq S \cup FramesOf(calls)
      BY <1>2, <3>1, PushFrame
    <3>5. calls' \in Seq(CallFrames) /\ FramesOf(calls') \subseteq S \cup FramesOf(calls)
      BY <3>1, <3>3, <3>4, PushFrame
    <3>6. \A f \in S : f.fn # "objectFullyConstructed" => heap[f.obj] \in Alive
      BY <3>1
    <3>7. list' \in [Obj -> Nat] /\ valid' \subseteq Obj /\ \A x \in valid' : heap[x] \in Alive
      BY <1>4, <3>2
    <3> HIDE DEF S, o
    <3> QED
      BY <1>1, <1>3, <3>5, <3>6, <3>7, CallStep
  <2> QED
    BY <2>1, <2>2
<1>12. CASE DiscoverChildren
  <2>1. UNCHANGED <<valid, list>>
    BY <1>12 DEF DiscoverChildren
  <2>2. CASE calls' = Tail(calls)
    BY <1>4, <1>6, <2>1, <2>2
  <2>3. CASE \E d \in Undiscovered(ChildrenOf(parent, o)) :
               calls' = <<Call("discoverObject", d)>> \o calls
    <3> PICK d \in Undiscovered(ChildrenOf(parent, o)) :
               calls' = <<Call("discoverObject", d)>> \o calls
      BY <2>3
    <3> DEFINE f == Call("discoverObject", d)
    <3>1. d \in Obj /\ heap[d] \in Alive
      BY DEF Undiscovered, ChildrenOf
    <3>2. f \in CallFrames /\ heap[f.obj] \in Alive
      BY <3>1, NewFrames DEF Call, Functions
    <3>3. calls' = <<f>> \o calls
      OBVIOUS
    <3> HIDE DEF f
    <3> QED
      BY <1>4, <1>5, <2>1, <3>2, <3>3
  <2> QED
    BY <1>12, <2>2, <2>3 DEF DiscoverChildren, Return, CallFirst
<1>13. CASE ChildRemoved \/ ParentChange
  <2>1. calls' = Tail(calls) /\ valid' = valid /\ list' = list
    BY <1>13 DEF ChildRemoved, ParentChange, Return, DeferReparent, ReportReparent,
                 IgnoreEvent, EmitReparented
  <2> QED
    BY <1>4, <1>6, <2>1
<1>14. CASE ChildAdded
  <2> DEFINE f == CtorCall(o)
  <2>1. f \in CallFrames /\ heap[f.obj] \in Alive
    BY <1>2, <1>14, NewFrames DEF ChildAdded, Running, CtorCall
  <2>2. /\ calls' = Tail(calls) \/ calls' = <<f>> \o Tail(calls)
        /\ valid' = valid /\ list' = list
    BY <1>14 DEF ChildAdded, Return, CallLast, DeferReparent, ReportReparent,
                 IgnoreEvent, EmitReparented
  <2> HIDE DEF f
  <2> QED
    BY <1>4, <1>5, <2>1, <2>2
<1> QED
  BY <1>8, <1>9, <1>10, <1>11, <1>12, <1>13, <1>14

-----------------------------------------------------------------------------
(***************************************************************************)
(* The queues.  Whoever adds to them makes sure a drain is under way; a    *)
(* drain that is past its clear() does not count for later additions.      *)
(***************************************************************************)

\* Nothing is queued at first.
LEMMA QueueInit == Init => QueueInv
  BY DEF Init, QueueInv, QueueTyped, QueueTimed, NoLostWakeup

\* Purging an empty queue adds nothing.
LEMMA PurgedEmpty ==
  ASSUME NEW o
  PROVE  Purged(<< >>, o) = << >>
  BY DEF Purged

\* A step that leaves the drain alone, and fills a queue only with a timer on its way.
LEMMA QueueStep ==
  ASSUME QueueInv, queue' \in Seq(ObjectChanges), UNCHANGED todo,
         stage' = stage \/ {stage, stage'} \subseteq {"idle", "attach", "find"},
         \/ timerActive' \/ startPosted'
         \/ /\ UNCHANGED <<timerActive, startPosted>>
            /\ queue' # << >> => queue # << >>
            /\ pending' # << >> => pending # << >>
  PROVE  QueueInv'
<1>1. QueueTyped'
  BY DEF QueueInv, QueueTyped
<1>2. QueueTimed' /\ NoLostWakeup'
  BY DEF QueueInv, QueueTimed, NoLostWakeup
<1> QED
  BY <1>1, <1>2 DEF QueueInv

\* notifyQueuedObjectChanges() leaves a timer running or about to be started.
LEMMA Notified ==
  ASSUME NEW t, Notify(t)
  PROVE  timerActive' \/ startPosted'
  BY DEF Notify

\* The target and the constructors: only a deletion touches the queue.
LEMMA TargetKeepsQueue ==
  ASSUME AliveInv, QueueInv, Target \/ Constructors
  PROVE  QueueInv'
<1> USE DEF queueVars, loopVars
<1>0. queue \in Seq(ObjectChanges)
  BY DEF QueueInv, QueueTyped
<1>1. CASE UNCHANGED <<queueVars, loopVars>>
  BY <1>0, <1>1, QueueStep
<1>2. ASSUME NEW o \in Obj, Destroy(o) PROVE QueueInv'
  <2>1. UNCHANGED loopVars
    BY <1>2 DEF Destroy
  <2>2. \/ UNCHANGED queueVars
        \/ RemovedHere(o)
        \/ RemovedElsewhere(o)
    BY <1>2 DEF Destroy, ObjectRemoved, RemovedBefore
  <2>3. CASE UNCHANGED queueVars
    BY <1>1, <2>1, <2>3
  <2>4. CASE RemovedHere(o)
    <3>1. queue' = Purged(queue, o) /\ UNCHANGED <<pending, timerActive, startPosted>>
      BY <2>4 DEF RemovedHere
    <3> QED
      BY <1>0, <2>1, <3>1, PurgedTyped, PurgedEmpty, QueueStep
  <2>5. CASE RemovedElsewhere(o)
    <3>1. queue' = Append(Purged(queue, o), Change("Destroy", o)) /\ Notify("worker")
      BY <2>5 DEF RemovedElsewhere
    <3>2. queue' \in Seq(ObjectChanges)
      BY <1>0, <3>1, PurgedTyped, ChangesTyped DEF ChangeTypes
    <3> QED
      BY <2>1, <3>1, <3>2, Notified, QueueStep
  <2> QED
    BY <2>2, <2>3, <2>4, <2>5
<1>3. ASSUME NEW o \in Obj, NEW p \in ObjOrNull,
             \/ \E guarded \in BOOLEAN : Construct(o, p, guarded)
             \/ ConstructInWorker(o, p)
             \/ \E widget \in BOOLEAN : SetParent(o, p, widget)
      PROVE  UNCHANGED <<queueVars, loopVars>>
  BY <1>3 DEF Construct, ConstructInWorker, SetParent
<1>4. ASSUME NEW o \in Obj, ReceiveEvent(o) \/ HookInWorker(o) \/ FinishConstructor(o)
      PROVE  UNCHANGED <<queueVars, loopVars>>
  BY <1>4 DEF ReceiveEvent, HookInWorker, FinishConstructor
<1> QED
  BY <1>1, <1>2, <1>3, <1>4 DEF Target, Constructors

\* Start-up moves between the loops that have no queue.
LEMMA StartUpKeepsQueue ==
  ASSUME QueueInv, StartUp
  PROVE  QueueInv'
<1> USE DEF queueVars, loopVars
<1>1. queue \in Seq(ObjectChanges)
  BY DEF QueueInv, QueueTyped
<1>2. /\ UNCHANGED <<queueVars, todo>>
      /\ stage' = stage \/ {stage, stage'} \subseteq {"idle", "attach", "find"}
  BY DEF StartUp, InstallHooks, CreateProbe, InEventLoop, AddNext, AddedAll, FindNext, DelayedInit
<1> QED
  BY <1>1, <1>2, QueueStep

\* A drain: what it clears it has read, and what came later has a timer of its own.
LEMMA DrainKeepsQueue ==
  ASSUME QueueInv, Drain
  PROVE  QueueInv'
<1> USE DEF QueueInv, QueueTyped, QueueTimed, NoLostWakeup
<1>1. CASE DeliverStart \/ TimerFires \/ StartDrain
  BY <1>1 DEF DeliverStart, TimerFires, StartDrain, InEventLoop, queueVars, loopVars
<1>2. CASE DrainChange
  <2>1. /\ stage = "changes" /\ stage' = "changes" /\ UNCHANGED queueVars
        /\ todo # << >> /\ todo' = Tail(todo)
    BY <1>2 DEF DrainChange
  <2>2. todo' \in Seq(ObjectChanges)
    BY <2>1
  <2> QED
    BY <2>1, <2>2 DEF queueVars
<1>3. CASE ClearQueue
  <2>1. stage' = "reparents" /\ queue' = << >>
    BY <1>3 DEF ClearQueue
  <2>2. << >> \in Seq(ObjectChanges)
    OBVIOUS
  <2> QED
    BY <2>1, <2>2
<1>4. CASE DrainReparent
  <2>1. /\ stage = "reparents" /\ stage' = "reparents"
        /\ UNCHANGED <<pending, timerActive, startPosted>>
        /\ queue' = queue \/ \E o : queue' = Purged(queue, o)
    BY <1>4 DEF DrainReparent
  <2>2. queue' \in Seq(ObjectChanges) /\ (queue' # << >> => queue # << >>)
    BY <2>1, PurgedTyped, PurgedEmpty
  <2> QED
    BY <2>1, <2>2
<1>5. CASE FinishDrain
  <2>1. /\ stage = "reparents" /\ stage' = "idle" /\ pending' = << >>
        /\ UNCHANGED <<queue, timerActive, startPosted>>
    BY <1>5 DEF FinishDrain
  <2> QED
    BY <2>1
<1> QED
  BY <1>1, <1>2, <1>3, <1>4, <1>5 DEF Drain

\* The calls: objectAdded() and the event filter queue and notify.
LEMMA CallsKeepQueue ==
  ASSUME AliveInv, QueueInv, Calls
  PROVE  QueueInv'
<1> DEFINE o == Head(calls).obj
<1> USE DEF queueVars, loopVars
<1>0. queue \in Seq(ObjectChanges)
  BY DEF QueueInv, QueueTyped
<1>1. calls # << >> /\ UNCHANGED loopVars
  BY DEF Calls, ObjectAdded, TrackObject, ObjectFullyConstructed, ToolInitReturns, ObjectCreated,
         DiscoverObject, DiscoverChildren, ChildRemoved, ChildAdded, ParentChange, Running
<1>2. o \in Obj
  BY <1>1, HeadFrame
<1> HIDE DEF o
<1>3. CASE UNCHANGED queueVars
  BY <1>0, <1>1, <1>3, QueueStep
<1>4. CASE \E t : Enqueue("Create", o, t)
  <2> PICK t : Enqueue("Create", o, t)
    BY <1>4
  <2>1. queue' = Append(queue, Change("Create", o)) /\ Notify(t)
    BY DEF Enqueue
  <2>2. queue' \in Seq(ObjectChanges)
    BY <1>0, <1>2, <2>1, ChangesTyped DEF ChangeTypes
  <2> QED
    BY <1>1, <2>1, <2>2, Notified, QueueStep
<1>5. CASE DeferReparent(o)
  <2>1. UNCHANGED queue /\ Notify("main")
    BY <1>5 DEF DeferReparent
  <2> QED
    BY <1>0, <1>1, <2>1, Notified, QueueStep
<1>6. CASE ReportReparent(o)
  <2>1. UNCHANGED <<queue, timerActive, startPosted>>
    BY <1>6 DEF ReportReparent
  <2>2. pending' = pending \/ o \in Deferred
    BY <1>6 DEF ReportReparent
  <2>3. o \in Deferred => pending # << >>
    BY DEF Deferred
  <2> QED
    BY <1>0, <1>1, <2>1, <2>2, <2>3, QueueStep
<1>7. CASE ObjectAdded \/ TrackObject
  <2>1. UNCHANGED queueVars \/ Enqueue("Create", o, caller)
    BY <1>7 DEF ObjectAdded, TrackObject, o
  <2> QED
    BY <1>3, <1>4, <2>1
<1>8. CASE ChildRemoved \/ ChildAdded \/ ParentChange
  <2>1. UNCHANGED queueVars \/ DeferReparent(o) \/ ReportReparent(o)
    BY <1>8 DEF ChildRemoved, ChildAdded, ParentChange, IgnoreEvent, o
  <2> QED
    BY <1>3, <1>5, <1>6, <2>1
<1>9. CASE \/ ObjectFullyConstructed \/ ToolInitReturns \/ ObjectCreated
           \/ DiscoverObject \/ DiscoverChildren
  BY <1>3, <1>9 DEF ObjectFullyConstructed, ToolInitReturns, ObjectCreated, DiscoverObject,
                    DiscoverChildren
<1> QED
  BY <1>7, <1>8, <1>9 DEF Calls

-----------------------------------------------------------------------------
(***************************************************************************)
(* The invariant of the specification.                                     *)
(***************************************************************************)

\* The target's steps and the constructors.
LEMMA TargetKeeps ==
  ASSUME AliveInv, Target \/ Constructors
  PROVE  AliveInv'
<1>1. ASSUME NEW o \in Obj, NEW p \in ObjOrNull,
             \/ \E guarded \in BOOLEAN : Construct(o, p, guarded)
             \/ ConstructInWorker(o, p)
             \/ \E widget \in BOOLEAN : SetParent(o, p, widget)
      PROVE  AliveInv'
  BY <1>1, ConstructKeeps, ConstructInWorkerKeeps, SetParentKeeps
<1>2. ASSUME NEW o \in Obj,
             Destroy(o) \/ ReceiveEvent(o) \/ HookInWorker(o) \/ FinishConstructor(o)
      PROVE  AliveInv'
  BY <1>2, DestroyKeeps, ReceiveEventKeeps, HookInWorkerKeeps, FinishConstructorKeeps
<1> QED
  BY <1>1, <1>2 DEF Target, Constructors

\* Every step keeps the invariant.
LEMMA InvStep == Inv /\ [Next]_vars => Inv'
<1> SUFFICES ASSUME Inv, [Next]_vars PROVE Inv'
  OBVIOUS
<1>0. AliveInv /\ QueueInv /\ QueueTyped
  BY DEF Inv, QueueInv
<1>1. CASE Target \/ Constructors
  BY <1>0, <1>1, TargetKeeps, TargetKeepsQueue DEF Inv
<1>2. CASE StartUp
  BY <1>0, <1>2, StartUpKeeps, StartUpKeepsQueue DEF Inv
<1>3. CASE Drain
  BY <1>0, <1>3, DrainKeeps, DrainKeepsQueue DEF Inv
<1>4. CASE Calls
  BY <1>0, <1>4, ObjectAddedKeeps, TrackObjectKeeps, OtherCallsKeep, CallsKeepQueue DEF Calls, Inv
<1>5. CASE UNCHANGED vars
  <2> USE DEF vars, heapVars, hookVars, queueVars, loopVars, callVars, modelVars
  <2>1. Types' /\ ParentsAlive' /\ TrackedAlive' /\ EarlyAlive' /\ EarlyGone'
    BY <1>0, <1>5 DEF AliveInv, Types, ParentsAlive, TrackedAlive, EarlyAlive, EarlyGone
  <2>2. FramesAlive' /\ BeforeQuiet' /\ NascentForeign'
    BY <1>0, <1>5 DEF AliveInv, FramesAlive, BeforeQuiet, NascentForeign
  <2>3. QueueInv'
    BY <1>0, <1>5, QueueStep DEF QueueTyped
  <2> QED
    BY <2>1, <2>2, <2>3 DEF Inv, AliveInv
<1> QED
  BY <1>1, <1>2, <1>3, <1>4, <1>5 DEF Next

\* The invariant holds in every behaviour of the probe and its target.
THEOREM Invariance == Spec => []Inv
<1>1. Init => Inv
  BY AliveInit, QueueInit DEF Inv
<1> QED
  BY <1>1, InvStep, PTL DEF Spec

\* isValidObject() never vouches for freed memory: an object in m_validObjects
\* exists, whatever threads construct, move and delete objects where and when.
THEOREM TrackedAliveAlways == Spec => []TrackedAlive
<1>1. Inv => TrackedAlive
  BY DEF Inv, AliveInv
<1> QED
  BY <1>1, Invariance, PTL

\* notifyQueuedObjectChanges() loses no wake-up: queued changes and deferred moves
\* always have a timer, a posted start or a drain that has not cleared them yet.
THEOREM NoLostWakeupAlways == Spec => []NoLostWakeup
<1>1. Inv => NoLostWakeup
  BY DEF Inv, QueueInv
<1> QED
  BY <1>1, Invariance, PTL

-----------------------------------------------------------------------------
(***************************************************************************)
(* The probe implements ObjectSignals: alive is the set of objects past    *)
(* QObject's constructor, shown the set of rows of the object list.        *)
(***************************************************************************)

Existing == {o \in Obj : heap[o] \in Alive}

SignalStep == [Signals!Next]_<<Existing, RowsOf(list)>>

\* A row taken off the list is a withdrawal, or was none.
LEMMA RemovedStep ==
  ASSUME AliveInv, UNCHANGED heap, NEW o, list' = RowRemoved(list, o)
  PROVE  SignalStep
<1>1. Existing' = Existing
  BY DEF Existing
<1>2. RowsOf(list') \in {RowsOf(list), RowsOf(list) \ {o}}
  BY RowRemovedRows DEF AliveInv, Types
<1>3. CASE RowsOf(list') = RowsOf(list)
  BY <1>1, <1>3 DEF SignalStep
<1>4. CASE RowsOf(list') # RowsOf(list)
  <2>1. RowsOf(list') = RowsOf(list) \ {o} /\ o \in RowsOf(list)
    BY <1>2, <1>4
  <2>2. o \in Obj
    BY <2>1 DEF RowsOf
  <2>3. Signals!Withdraw(o)
    BY <1>1, <2>1 DEF Signals!Withdraw, Existing
  <2> QED
    BY <2>2, <2>3 DEF SignalStep, Signals!Next
<1> QED
  BY <1>3, <1>4

\* The target's constructors and destructors construct and delete.
LEMMA TargetSignals ==
  ASSUME AliveInv, Target \/ Constructors
  PROVE  SignalStep
<1>1. ASSUME NEW o \in Obj, heap[o] \notin Alive, heap' = [heap EXCEPT ![o] = heap'[o]],
             heap'[o] \in Alive, UNCHANGED list
      PROVE  SignalStep
  <2>1. o \notin Existing /\ Existing' = Existing \cup {o}
    BY <1>1 DEF Existing, AliveInv, Types
  <2>2. Signals!Construct(o)
    BY <1>1, <2>1 DEF Signals!Construct, Existing
  <2> QED
    BY <1>1, <2>2 DEF SignalStep, Signals!Next
<1>2. CASE UNCHANGED <<heap, list>>
  BY <1>2 DEF SignalStep, Existing
<1>3. ASSUME NEW o \in Obj, NEW p \in ObjOrNull, NEW guarded \in BOOLEAN, Construct(o, p, guarded)
      PROVE  SignalStep
  <2>1. heap[o] = "free" /\ heap' = [heap EXCEPT ![o] = heap'[o]] /\ heap'[o] \in Alive
    BY <1>3 DEF Construct, Occupy, AliveInv, Types, Alive
  <2>2. UNCHANGED list
    BY <1>3 DEF Construct, modelVars
  <2>3. heap[o] \notin Alive
    BY <2>1 DEF Alive
  <2> QED
    BY <1>1, <2>1, <2>2, <2>3
<1>4. ASSUME NEW o \in Obj, NEW p \in ObjOrNull, ConstructInWorker(o, p)
      PROVE  SignalStep
  <2>1. heap[o] = "free" /\ heap' = [heap EXCEPT ![o] = "base"] /\ UNCHANGED list
    BY <1>4 DEF ConstructInWorker, Occupy, modelVars
  <2>2. Existing' = Existing
    BY <2>1 DEF Existing, Alive, AliveInv, Types
  <2> QED
    BY <2>1, <2>2 DEF SignalStep
<1>5. ASSUME NEW o \in Obj, HookInWorker(o)
      PROVE  SignalStep
  <2>1. heap[o] = "base" /\ heap' = [heap EXCEPT ![o] = heap'[o]] /\ heap'[o] \in Alive
    BY <1>5 DEF HookInWorker, AliveInv, Types, Alive
  <2>2. UNCHANGED list
    BY <1>5 DEF HookInWorker, modelVars
  <2>3. heap[o] \notin Alive
    BY <2>1 DEF Alive
  <2> QED
    BY <1>1, <2>1, <2>2, <2>3
<1>6. ASSUME NEW o \in Obj, FinishConstructor(o)
      PROVE  SignalStep
  <2>1. heap[o] \in Alive /\ heap' = [heap EXCEPT ![o] = "live"] /\ UNCHANGED list
    BY <1>6 DEF FinishConstructor, modelVars, Alive
  <2>2. Existing' = Existing
    BY <2>1 DEF Existing, Alive, AliveInv, Types
  <2> QED
    BY <2>1, <2>2 DEF SignalStep
<1>7. ASSUME NEW o \in Obj, Destroy(o)
      PROVE  SignalStep
  <2>1. heap[o] = "live" /\ heap' = [heap EXCEPT ![o] = "free"]
    BY <1>7 DEF Destroy
  <2>2. o \in Existing /\ Existing' = Existing \ {o}
    BY <2>1 DEF Existing, Alive, AliveInv, Types
  <2>3. RowsOf(list') \in {RowsOf(list), RowsOf(list) \ {o}}
    BY <1>7, DestroyEffect
  <2>4. Signals!Delete(o)
    BY <2>2, <2>3 DEF Signals!Delete, Existing
  <2> QED
    BY <2>4 DEF SignalStep, Signals!Next
<1>8. ASSUME NEW o \in Obj, NEW p \in ObjOrNull, NEW widget \in BOOLEAN, SetParent(o, p, widget)
      PROVE  SignalStep
  BY <1>2, <1>8 DEF SetParent, modelVars
<1>9. ASSUME NEW o \in Obj, ReceiveEvent(o)
      PROVE  SignalStep
  BY <1>2, <1>9 DEF ReceiveEvent, heapVars, modelVars
<1> QED
  BY <1>3, <1>4, <1>5, <1>6, <1>7, <1>8, <1>9 DEF Target, Constructors

\* objectCreated() announces an object that exists.
LEMMA CreatedSignals ==
  ASSUME AliveInv, ObjectCreated
  PROVE  SignalStep
<1> DEFINE o == Head(calls).obj
<1>1. o \in Obj /\ heap[o] \in Alive
  BY HeadFrame DEF ObjectCreated, Running
<1>2. UNCHANGED heap /\ list' = RowAdded(list, o)
  BY DEF ObjectCreated, EmitCreated, heapVars
<1> HIDE DEF o
<1>3. RowsOf(list') = RowsOf(list) \cup {o} /\ Existing' = Existing /\ o \in Existing
  BY <1>1, <1>2, RowAddedRows DEF AliveInv, Types, Existing
<1>4. CASE o \in RowsOf(list)
  <2>1. RowsOf(list') = RowsOf(list)
    BY <1>3, <1>4
  <2> QED
    BY <1>3, <2>1 DEF SignalStep
<1>5. CASE o \notin RowsOf(list)
  <2>1. Signals!Announce(o)
    BY <1>3, <1>5 DEF Signals!Announce, Existing
  <2> QED
    BY <1>1, <2>1 DEF SignalStep, Signals!Next
<1> QED
  BY <1>4, <1>5

\* Every step of the probe is a step of ObjectSignals, or none.
LEMMA SignalsStep == Inv /\ [Next]_vars => SignalStep
<1> SUFFICES ASSUME Inv, [Next]_vars PROVE SignalStep
  OBVIOUS
<1> USE DEF heapVars, modelVars
<1>0. AliveInv
  BY DEF Inv
<1>1. CASE UNCHANGED <<heap, list>>
  BY <1>1 DEF SignalStep, Existing
<1>2. CASE Target \/ Constructors
  BY <1>0, <1>2, TargetSignals
<1>3. CASE StartUp
  BY <1>1, <1>3 DEF StartUp, InstallHooks, CreateProbe, AddNext, AddedAll, FindNext, DelayedInit
<1>4. CASE Drain
  <2>1. UNCHANGED heap /\ (list' = list \/ \E o : list' = RowRemoved(list, o))
    <3>1. CASE DeliverStart \/ TimerFires \/ StartDrain \/ ClearQueue \/ FinishDrain
      BY <3>1 DEF DeliverStart, TimerFires, StartDrain, ClearQueue, FinishDrain
    <3>2. CASE DrainChange
      BY <3>2 DEF DrainChange, EmitDestroyed
    <3>3. CASE DrainReparent
      BY <3>3 DEF DrainReparent, EmitDestroyed, EmitReparented
    <3> QED
      BY <1>4, <3>1, <3>2, <3>3 DEF Drain
  <2> QED
    BY <1>0, <1>1, <2>1, RemovedStep
<1>5. CASE Calls
  <2>1. CASE ObjectCreated
    BY <1>0, <2>1, CreatedSignals
  <2>2. CASE \/ ObjectAdded \/ TrackObject \/ ObjectFullyConstructed \/ ToolInitReturns
             \/ DiscoverObject \/ DiscoverChildren
    BY <1>1, <2>2 DEF ObjectAdded, TrackObject, ObjectFullyConstructed, ToolInitReturns, DiscoverObject,
                      DiscoverChildren
  <2>3. CASE ChildRemoved \/ ChildAdded \/ ParentChange
    BY <1>1, <2>3 DEF ChildRemoved, ChildAdded, ParentChange, DeferReparent, ReportReparent,
                      IgnoreEvent, EmitReparented
  <2> QED
    BY <1>5, <2>1, <2>2, <2>3 DEF Calls
<1>6. CASE UNCHANGED vars
  BY <1>1, <1>6 DEF vars
<1> QED
  BY <1>2, <1>3, <1>4, <1>5, <1>6 DEF Next

\* What probe.h promises of objectCreated() and objectDestroyed() holds in every
\* behaviour: only objects that exist are announced, and what was announced stays so
\* until it is withdrawn.  A repeated announcement (lost["repeated"]) is a stutter.
THEOREM ImplementsSignals == Spec => SignalsSpec
<1>1. Init => Signals!Init
  BY DEF Init, Signals!Init, Alive, RowsOf, NoRows
<1>2. Inv /\ [Next]_vars => [Signals!Next]_<<Existing, RowsOf(list)>>
  BY SignalsStep DEF SignalStep
<1>3. Existing = {o \in Obj : heap[o] \in Alive}
  BY DEF Existing
<1> QED
  BY <1>1, <1>2, Invariance, PTL DEF Spec, SignalsSpec, Signals!Spec, Existing

-----------------------------------------------------------------------------
(***************************************************************************)
(* How often a change is in a queue, and a call on the stack.              *)
(***************************************************************************)

Occurrences(q, c) == {i \in DOMAIN q : q[i] = c}
Count(q, c)       == Cardinality(Occurrences(q, c))

\* The calls between an object being found to be complete and its announcement.
Announcing    == {"objectFullyConstructed", "toolInit", "objectCreated"}
Announces(f, o) == f.obj = o /\ f.fn \in Announcing
Calling(s, o)   == {i \in DOMAIN s : Announces(s[i], o)}
CallsFor(s, o)  == Cardinality(Calling(s, o))

One(flag) == IF flag THEN 1 ELSE 0

\* A set of positions loses the position k when everything after it moves up.
LEMMA ShiftCount ==
  ASSUME NEW n \in Nat, NEW k \in 1..n, NEW A \in SUBSET (1..n), NEW B \in SUBSET (1..(n - 1)),
         \A i \in 1..(n - 1) : i \in B <=> (IF i < k THEN i ELSE i + 1) \in A
  PROVE  /\ Cardinality(A) \in Nat /\ Cardinality(B) \in Nat
         /\ Cardinality(A) = Cardinality(B) + One(k \in A)
<1> DEFINE h == [i \in B |-> IF i < k THEN i ELSE i + 1]
           T == A \ {k}
<1>1. IsFiniteSet(1..n) /\ IsFiniteSet(1..(n - 1))
  BY FS_Interval
<1>2. IsFiniteSet(A) /\ IsFiniteSet(B)
  BY <1>1, FS_Subset
<1>3. Cardinality(A) \in Nat /\ Cardinality(B) \in Nat
  BY <1>2, FS_CardinalityType
<1>4. h \in Bijection(B, T)
  <2>1. h \in [B -> T]
    <3> SUFFICES ASSUME NEW i \in B PROVE h[i] \in T
      OBVIOUS
    <3>1. i \in 1..(n - 1) /\ h[i] = IF i < k THEN i ELSE i + 1
      OBVIOUS
    <3>2. h[i] # k
      BY <3>1
    <3> QED
      BY <3>1, <3>2
  <2>2. \A i, j \in B : h[i] = h[j] => i = j
    <3> SUFFICES ASSUME NEW i \in B, NEW j \in B, h[i] = h[j] PROVE i = j
      OBVIOUS
    <3>1. (IF i < k THEN i ELSE i + 1) = (IF j < k THEN j ELSE j + 1)
      OBVIOUS
    <3>2. i \in Nat /\ j \in Nat /\ k \in Nat
      OBVIOUS
    <3> HIDE DEF h
    <3> QED
      BY <3>1, <3>2
  <2>3. \A t \in T : \E i \in B : h[i] = t
    <3> SUFFICES ASSUME NEW t \in T PROVE \E i \in B : h[i] = t
      OBVIOUS
    <3>1. t \in 1..n /\ t # k /\ t \in A
      OBVIOUS
    <3>2. CASE t < k
      <4>1. t \in 1..(n - 1)
        BY <3>1, <3>2
      <4> QED
        BY <3>1, <3>2, <4>1
    <3>3. CASE ~(t < k)
      <4>1. t - 1 \in 1..(n - 1) /\ ~(t - 1 < k) /\ (t - 1) + 1 = t
        BY <3>1, <3>3
      <4>2. t - 1 \in B
        BY <3>1, <4>1
      <4>3. h[t - 1] = t
        BY <4>1, <4>2
      <4> QED
        BY <4>2, <4>3
    <3> QED
      BY <3>2, <3>3
  <2> HIDE DEF h, T
  <2> QED
    BY <2>1, <2>2, <2>3 DEF Bijection, Injection, Surjection, IsInjective
<1>5. Cardinality(T) = Cardinality(B)
  <2> HIDE DEF h, T
  <2>1. ExistsBijection(B, T)
    BY <1>4 DEF ExistsBijection
  <2> QED
    BY <1>2, <2>1, FS_Bijection
<1>6. Cardinality(T) = IF k \in A THEN Cardinality(A) - 1 ELSE Cardinality(A)
  BY <1>2, FS_RemoveElement
<1> QED
  BY <1>3, <1>5, <1>6 DEF One

\* Where a queue has what follows in it once its k-th member is gone.
Skip(k, i) == IF i < k THEN i ELSE i + 1
Cut(q, k, r) == Len(r) = Len(q) - 1 /\ \A i \in 1..Len(r) : r[i] = q[Skip(k, i)]

\* What is left when the k-th member of a queue is taken out.
LEMMA CountWithout ==
  ASSUME NEW S, NEW q \in Seq(S), NEW r \in Seq(S), NEW k \in 1..Len(q),
         Cut(q, k, r), NEW c
  PROVE  /\ Count(q, c) \in Nat /\ Count(r, c) \in Nat
         /\ Count(q, c) = Count(r, c) + One(q[k] = c)
<1> DEFINE n == Len(q)
           A == Occurrences(q, c)
           B == Occurrences(r, c)
<1>0. Len(r) = Len(q) - 1 /\ \A i \in 1..Len(r) : r[i] = q[Skip(k, i)]
  BY DEF Cut
<1>1. n \in Nat /\ DOMAIN q = 1..n /\ DOMAIN r = 1..(n - 1)
  BY <1>0
<1>2. A \in SUBSET (1..n) /\ B \in SUBSET (1..(n - 1))
  BY <1>1 DEF Occurrences
<1>3. \A i \in 1..(n - 1) : i \in B <=> Skip(k, i) \in A
  <2> SUFFICES ASSUME NEW i \in 1..(n - 1)
               PROVE  i \in B <=> Skip(k, i) \in A
    OBVIOUS
  <2>1. Skip(k, i) \in 1..n
    BY DEF Skip
  <2>2. i \in B <=> r[i] = c
    BY <1>0, <1>1 DEF Occurrences
  <2>3. Skip(k, i) \in A <=> q[Skip(k, i)] = c
    BY <1>1, <2>1 DEF Occurrences
  <2> QED
    BY <1>0, <1>1, <2>2, <2>3
<1>4. k \in A <=> q[k] = c
  BY <1>1 DEF Occurrences
<1> HIDE DEF n, A, B
<1>5. k \in 1..n
  BY DEF n
<1>6. /\ Cardinality(A) \in Nat /\ Cardinality(B) \in Nat
      /\ Cardinality(A) = Cardinality(B) + One(k \in A)
  <2>1. \A i \in 1..(n - 1) : i \in B <=> (IF i < k THEN i ELSE i + 1) \in A
    BY <1>3 DEF Skip
  <2> QED
    BY <1>1, <1>2, <1>5, <2>1, ShiftCount
<1>7. One(k \in A) = One(q[k] = c)
  BY <1>4 DEF One
<1> QED
  BY <1>6, <1>7 DEF A, B, Count

\* The count of a change in a queue, in an empty one, and after an append.
LEMMA CountTyped ==
  ASSUME NEW S, NEW q \in Seq(S), NEW c
  PROVE  /\ Count(q, c) \in Nat
         /\ Count(q, c) > 0 <=> \E i \in DOMAIN q : q[i] = c
         /\ q = << >> => Count(q, c) = 0
<1>1. IsFiniteSet(1..Len(q))
  BY FS_Interval
<1>2. Occurrences(q, c) \in SUBSET (1..Len(q))
  BY DEF Occurrences
<1>3. IsFiniteSet(Occurrences(q, c))
  BY <1>1, <1>2, FS_Subset
<1>4. Count(q, c) \in Nat
  BY <1>3, FS_CardinalityType DEF Count
<1>5. Count(q, c) = 0 <=> Occurrences(q, c) = {}
  BY <1>3, FS_EmptySet DEF Count
<1>6. Occurrences(q, c) # {} <=> \E i \in DOMAIN q : q[i] = c
  BY DEF Occurrences
<1> QED
  BY <1>4, <1>5, <1>6

\* An appended change is one more.
LEMMA CountAppend ==
  ASSUME NEW S, NEW q \in Seq(S), NEW d \in S, NEW c
  PROVE  Count(Append(q, d), c) = Count(q, c) + One(d = c)
<1> DEFINE r == Append(q, d)
<1>1. /\ r \in Seq(S) /\ Len(r) = Len(q) + 1 /\ Len(r) \in 1..Len(r)
      /\ r[Len(r)] = d
  OBVIOUS
<1>2. Cut(r, Len(r), q)
  BY DEF Skip, Cut
<1> HIDE DEF r
<1>3. Count(r, c) = Count(q, c) + One(r[Len(r)] = c)
  BY <1>1, <1>2, CountWithout
<1> QED
  BY <1>1, <1>3 DEF r

\* The first change of a queue is one less in its tail.
LEMMA CountTail ==
  ASSUME NEW S, NEW q \in Seq(S), q # << >>, NEW c
  PROVE  Count(q, c) = Count(Tail(q), c) + One(Head(q) = c)
<1> DEFINE r == Tail(q)
<1>1. /\ r \in Seq(S) /\ Len(r) = Len(q) - 1 /\ 1 \in 1..Len(q) /\ Head(q) = q[1]
      /\ \A i \in 1..Len(r) : r[i] = q[i + 1]
  OBVIOUS
<1>2. Cut(q, 1, r)
  BY <1>1 DEF Skip, Cut
<1> HIDE DEF r
<1>3. Count(q, c) = Count(r, c) + One(q[1] = c)
  BY <1>1, <1>2, CountWithout
<1> QED
  BY <1>1, <1>3 DEF r

\* A queue without its k-th member.
LEMMA CountCut ==
  ASSUME NEW S, NEW q \in Seq(S), NEW k \in 1..Len(q), NEW c
  PROVE  Count(q, c) = Count(SubSeq(q, 1, k - 1) \o SubSeq(q, k + 1, Len(q)), c)
                         + One(q[k] = c)
<1> DEFINE a == SubSeq(q, 1, k - 1)
           b == SubSeq(q, k + 1, Len(q))
           r == a \o b
<1>1. k \in Nat /\ Len(q) \in Nat /\ 1 <= k /\ k <= Len(q)
  OBVIOUS
<1>2. /\ a \in Seq(S) /\ Len(a) = k - 1
      /\ \A i \in 1..(k - 1) : a[i] = q[i]
  BY <1>1
<1>3. /\ b \in Seq(S) /\ Len(b) = Len(q) - k
      /\ \A i \in 1..(Len(q) - k) : b[i] = q[i + k]
  BY <1>1
<1> HIDE DEF a, b
<1>4. r \in Seq(S) /\ Len(r) = Len(q) - 1
  <2>1. r \in Seq(S) /\ Len(r) = Len(a) + Len(b)
    BY <1>2, <1>3, ConcatProperties
  <2>2. (k - 1) + (Len(q) - k) = Len(q) - 1
    BY <1>1
  <2> QED
    BY <1>2, <1>3, <2>1, <2>2
<1>5. \A i \in 1..Len(r) : r[i] = q[Skip(k, i)]
  <2> SUFFICES ASSUME NEW i \in 1..Len(r) PROVE r[i] = q[Skip(k, i)]
    OBVIOUS
  <2>0. i \in 1..(Len(q) - 1)
    BY <1>4
  <2>1. CASE i < k
    <3>1. i \in 1..(k - 1)
      BY <1>1, <2>0, <2>1
    <3>2. r[i] = a[i]
      BY <1>2, <1>3, <3>1
    <3> QED
      BY <1>2, <2>1, <3>1, <3>2 DEF Skip
  <2>2. CASE ~(i < k)
    <3>1. i - (k - 1) \in 1..(Len(q) - k) /\ (i - (k - 1)) + k = i + 1
      BY <1>1, <2>0, <2>2
    <3>2. r[i] = b[i - (k - 1)]
      BY <1>1, <1>2, <1>3, <2>0, <2>2, <3>1
    <3> QED
      BY <1>3, <2>2, <3>1, <3>2 DEF Skip
  <2> QED
    BY <2>1, <2>2
<1> HIDE DEF r
<1>6. Cut(q, k, r)
  BY <1>4, <1>5 DEF Cut
<1>7. Count(q, c) = Count(r, c) + One(q[k] = c)
  BY <1>4, <1>6, CountWithout
<1> QED
  BY <1>7 DEF r, a, b

\* Purging takes one creation out of a queue that has one, and nothing else.
LEMMA CountPurged ==
  ASSUME NEW q \in Seq(ObjectChanges), NEW o, NEW c
  PROVE  Count(q, c) = Count(Purged(q, o), c)
                         + One(c = Change("Create", o) /\ Count(q, c) > 0)
<1>0. Count(q, c) \in Nat
  BY CountTyped
<1>1. CASE Purged(q, o) = q /\ \A i \in DOMAIN q : q[i] # Change("Create", o)
  <2>1. ~ (c = Change("Create", o) /\ Count(q, c) > 0)
    BY <1>1, CountTyped
  <2> QED
    BY <1>0, <1>1, <2>1 DEF One
<1>2. ASSUME NEW k \in 1..Len(q), q[k] = Change("Create", o),
             Purged(q, o) = SubSeq(q, 1, k - 1) \o SubSeq(q, k + 1, Len(q))
      PROVE  Count(q, c) = Count(Purged(q, o), c)
                             + One(c = Change("Create", o) /\ Count(q, c) > 0)
  <2>1. Count(q, c) = Count(Purged(q, o), c) + One(q[k] = c)
    BY <1>2, CountCut
  <2>2. q[k] = c => Count(q, c) > 0
    BY CountTyped
  <2>3. q[k] = c <=> c = Change("Create", o) /\ Count(q, c) > 0
    BY <1>2, <2>2
  <2>4. One(q[k] = c) = One(c = Change("Create", o) /\ Count(q, c) > 0)
    BY <2>3 DEF One
  <2> QED
    BY <2>1, <2>4
<1> QED
  BY <1>1, <1>2, PurgedShape

-----------------------------------------------------------------------------
(***************************************************************************)
(* The types of what ObjectTrackingProofs does not look at.                *)
(***************************************************************************)

Queued == [type : {"Create", "Destroy"}, obj : Obj]
Trees  == [childParent : UNION {[S -> ObjOrNull] : S \in SUBSET Obj},
           parentChild : [ObjOrNull -> [Obj -> Nat]]]

QueuesTyped ==
  /\ queue \in Seq(Queued) /\ pending \in Seq(Obj)
  /\ timerActive \in BOOLEAN /\ startPosted \in BOOLEAN
LoopTyped ==
  /\ stage \in {"idle", "fired", "changes", "reparents", "attach", "find"}
  /\ todo \in Seq(ObjectChanges)
ModelsTyped == tree \in Trees /\ lost \in [Loss -> SUBSET Obj]
OthersTyped == hooked \in BOOLEAN /\ caller \in Thread /\ changes \in 0..MaxChanges

RestTyped == QueuesTyped /\ LoopTyped /\ ModelsTyped /\ OthersTyped

\* What a tree's maps hold.
LEMMA TreeParts ==
  ASSUME NEW t \in Trees
  PROVE  /\ DOMAIN t.childParent \in SUBSET Obj
         /\ t.childParent \in [DOMAIN t.childParent -> ObjOrNull]
         /\ t.parentChild \in [ObjOrNull -> [Obj -> Nat]]
         /\ \A o : MappedParent(t, o) \in ObjOrNull
<1>1. t.childParent \in UNION {[S -> ObjOrNull] : S \in SUBSET Obj}
  BY DEF Trees
<1>2. PICK S \in SUBSET Obj : t.childParent \in [S -> ObjOrNull]
  BY <1>1
<1> QED
  BY <1>2 DEF Trees, MappedParent, Knows, ObjOrNull

\* A tree made of two such maps.
LEMMA TreeMade ==
  ASSUME NEW S \in SUBSET Obj, NEW c \in [S -> ObjOrNull],
         NEW r \in [ObjOrNull -> [Obj -> Nat]]
  PROVE  [childParent |-> c, parentChild |-> r] \in Trees
<1>1. c \in UNION {[R -> ObjOrNull] : R \in SUBSET Obj}
  OBVIOUS
<1> QED
  BY <1>1 DEF Trees

\* TreeAdded() yields a tree.
LEMMA TreeAddedTyped ==
  ASSUME NEW t \in Trees, NEW par \in [Obj -> ObjOrNull], NEW o \in Obj
  PROVE  TreeAdded(t, par, o) \in Trees
<1> DEFINE new == IF o \in Indexed(t) THEN {} ELSE Climb(par, o, Indexed(t))
           S == DOMAIN t.childParent \cup new
           c == [x \in S |-> IF x \in new THEN par[x] ELSE t.childParent[x]]
           r == [p \in ObjOrNull |-> [x \in Obj |->
                   IF x \in new /\ par[x] = p THEN t.parentChild[p][x] + 1
                                              ELSE t.parentChild[p][x]]]
<1>1. new \subseteq Obj
  BY DEF Climb
<1>2. TreeAdded(t, par, o) = [childParent |-> c, parentChild |-> r]
  BY DEF TreeAdded
<1> HIDE DEF new
<1>3. S \in SUBSET Obj /\ c \in [S -> ObjOrNull]
  BY <1>1, TreeParts
<1>4. r \in [ObjOrNull -> [Obj -> Nat]]
  BY TreeParts
<1> HIDE DEF c, r, S
<1> QED
  BY <1>2, <1>3, <1>4, TreeMade

\* TreeRemoved() yields a tree.
LEMMA TreeRemovedTyped ==
  ASSUME NEW t \in Trees, NEW o \in Obj
  PROVE  TreeRemoved(t, o) \in Trees
<1> DEFINE m == MappedParent(t, o)
           S == DOMAIN t.childParent \ {o}
           c == [x \in S |-> t.childParent[x]]
           u == [t.parentChild EXCEPT ![m] = RowRemoved(@, o)]
           r == [t.parentChild EXCEPT ![m] = RowRemoved(@, o), ![o] = NoRows]
<1>1. CASE o \notin Indexed(t)
  BY <1>1 DEF TreeRemoved
<1>2. CASE o \in Indexed(t)
  <2>1. TreeRemoved(t, o) = [childParent |-> c, parentChild |-> r]
    BY <1>2 DEF TreeRemoved
  <2>2. S \in SUBSET Obj /\ c \in [S -> ObjOrNull]
    BY TreeParts
  <2>3. m \in ObjOrNull /\ t.parentChild \in [ObjOrNull -> [Obj -> Nat]]
    BY TreeParts
  <2> HIDE DEF m
  <2>4. t.parentChild[m] \in [Obj -> Nat]
    BY <2>3
  <2>5. RowRemoved(t.parentChild[m], o) \in [Obj -> Nat]
    BY <2>4, RowRemovedRows
  <2>6. u \in [ObjOrNull -> [Obj -> Nat]]
    BY <2>3, <2>5
  <2>7. NoRows \in [Obj -> Nat]
    BY DEF NoRows
  <2>8. r = [u EXCEPT ![o] = NoRows]
    OBVIOUS
  <2> HIDE DEF u, r
  <2>9. r \in [ObjOrNull -> [Obj -> Nat]]
    BY <2>6, <2>7, <2>8
  <2> HIDE DEF c, S
  <2> QED
    BY <2>1, <2>2, <2>9, TreeMade
<1> QED
  BY <1>1, <1>2

\* TreeReparented() yields a tree.
LEMMA TreeReparentedTyped ==
  ASSUME NEW t \in Trees, NEW par \in [Obj -> ObjOrNull], NEW o \in Obj
  PROVE  TreeReparented(t, par, o) \in Trees
<1> DEFINE m == t.childParent[o]
           n == par[o]
           c == [t.childParent EXCEPT ![o] = n]
           u == [t.parentChild EXCEPT ![m] = RowRemoved(@, o)]
           r == [t.parentChild EXCEPT ![m] = RowRemoved(@, o), ![n] = RowAdded(@, o)]
<1>1. CASE ~Knows(t, o)
  BY <1>1, TreeAddedTyped DEF TreeReparented
<1>2. CASE Knows(t, o) /\ (o \notin Indexed(t) \/ t.childParent[o] = par[o])
  BY <1>2 DEF TreeReparented
<1>3. CASE Knows(t, o) /\ ~(o \notin Indexed(t) \/ t.childParent[o] = par[o])
  <2>1. TreeReparented(t, par, o) = [childParent |-> c, parentChild |-> r]
    BY <1>3 DEF TreeReparented
  <2>2. n \in ObjOrNull
    OBVIOUS
  <2>3. m \in ObjOrNull
    BY <1>3, TreeParts DEF Knows
  <2>4. DOMAIN t.childParent \in SUBSET Obj /\ c \in [DOMAIN t.childParent -> ObjOrNull]
    BY <2>2, TreeParts
  <2>5. t.parentChild \in [ObjOrNull -> [Obj -> Nat]]
    BY TreeParts
  <2> HIDE DEF m, n, c
  <2>6. t.parentChild[m] \in [Obj -> Nat]
    BY <2>3, <2>5
  <2>7. RowRemoved(t.parentChild[m], o) \in [Obj -> Nat]
    BY <2>6, RowRemovedRows
  <2>8. u \in [ObjOrNull -> [Obj -> Nat]]
    BY <2>5, <2>7
  <2>9. r = [u EXCEPT ![n] = RowAdded(@, o)]
    OBVIOUS
  <2> HIDE DEF u, r
  <2>10. u[n] \in [Obj -> Nat]
    BY <2>2, <2>8
  <2>11. RowAdded(u[n], o) \in [Obj -> Nat]
    BY <2>10, RowAddedRows
  <2>12. r \in [ObjOrNull -> [Obj -> Nat]]
    BY <2>2, <2>8, <2>9, <2>11
  <2> QED
    BY <2>1, <2>4, <2>12, TreeMade
<1> QED
  BY <1>1, <1>2, <1>3

\* The signals keep the types of the models and of the losses.
LEMMA DestroyedTyped ==
  ASSUME Types, ModelsTyped, NEW o \in Obj, EmitDestroyed(o)
  PROVE  ModelsTyped'
<1> DEFINE A == lost["stranded"] \cup {x \in valid \ {o} : o \in SelfAndAncestors(TreeParents, x)}
           B == lost["mistaken"] \cup ({o} \cap valid)
           C == IF IsRow(tree, o) THEN lost["buried"] \cup ({o} \ Indexed(tree)) ELSE lost["buried"]
<1>1. lost \in [Loss -> SUBSET Obj] /\ valid \subseteq Obj
  BY DEF Types, ModelsTyped
<1>2. A \in SUBSET Obj /\ B \in SUBSET Obj /\ C \in SUBSET Obj
  BY <1>1 DEF Loss
<1>3. lost' = [lost EXCEPT !["stranded"] = A, !["mistaken"] = B, !["buried"] = C]
  BY <1>1 DEF EmitDestroyed, Loss
<1> HIDE DEF A, B, C
<1>4. lost' \in [Loss -> SUBSET Obj]
  BY <1>1, <1>2, <1>3
<1>5. tree' = TreeRemoved(tree, o)
  BY DEF EmitDestroyed
<1>6. tree' \in Trees
  BY <1>5, TreeRemovedTyped DEF ModelsTyped
<1> QED
  BY <1>4, <1>6 DEF ModelsTyped

\* What objectCreated() leaves of the models is typed.
LEMMA CreatedTyped ==
  ASSUME Types, ModelsTyped, NEW o \in Obj, EmitCreated(o)
  PROVE  ModelsTyped'
<1>1. tree' = TreeAdded(tree, parent, o)
  BY DEF EmitCreated
<1>2. tree' \in Trees
  BY <1>1, TreeAddedTyped DEF ModelsTyped, Types
<1>3. lost' \in [Loss -> SUBSET Obj]
  BY DEF EmitCreated, ModelsTyped, Loss, Untracked, Indexed
<1> QED
  BY <1>2, <1>3 DEF ModelsTyped

\* What objectReparented() leaves of the models is typed.
LEMMA ReparentedTyped ==
  ASSUME Types, ModelsTyped, NEW o \in Obj, EmitReparented(o)
  PROVE  ModelsTyped'
<1>1. tree' = TreeReparented(tree, parent, o)
  BY DEF EmitReparented
<1>2. tree' \in Trees
  BY <1>1, TreeReparentedTyped DEF ModelsTyped, Types
<1>3. lost' \in [Loss -> SUBSET Obj]
  BY DEF EmitReparented, ModelsTyped, Loss, Untracked, Indexed
<1> QED
  BY <1>2, <1>3 DEF ModelsTyped

\* Queueing and purging keep the types of the queue.
LEMMA QueuedAsChanges ==
  /\ Queued \subseteq ObjectChanges
  /\ \A q \in Seq(Queued) : q \in Seq(ObjectChanges)
<1>1. Queued \subseteq ObjectChanges
  BY DEF Queued, ObjectChanges, ChangeTypes
<1> QED
  BY <1>1

\* A purged queue holds creations and deletions only.
LEMMA PurgedQueued ==
  ASSUME NEW q \in Seq(Queued), NEW o
  PROVE  Purged(q, o) \in Seq(Queued)
<1>1. q \in Seq(ObjectChanges)
  BY QueuedAsChanges
<1>2. CASE Purged(q, o) = q
  BY <1>2
<1>3. ASSUME NEW k \in 1..Len(q),
             Purged(q, o) = SubSeq(q, 1, k - 1) \o SubSeq(q, k + 1, Len(q))
      PROVE  Purged(q, o) \in Seq(Queued)
  <2>1. SubSeq(q, 1, k - 1) \in Seq(Queued) /\ SubSeq(q, k + 1, Len(q)) \in Seq(Queued)
    OBVIOUS
  <2> QED
    BY <1>3, <2>1
<1> QED
  BY <1>1, <1>2, <1>3, PurgedShape

\* notifyQueuedObjectChanges() keeps its flags Boolean.
LEMMA NotifyTyped ==
  ASSUME QueuesTyped, NEW t, Notify(t)
  PROVE  timerActive' \in BOOLEAN /\ startPosted' \in BOOLEAN
  BY DEF QueuesTyped, Notify

\* A creation or a deletion can be queued.
LEMMA QueuedTyped ==
  ASSUME NEW q \in Seq(Queued), NEW type \in {"Create", "Destroy"}, NEW o \in Obj
  PROVE  Append(q, Change(type, o)) \in Seq(Queued)
  BY DEF Queued, Change

\* Queueing keeps the types of the queues.
LEMMA EnqueueTyped ==
  ASSUME QueuesTyped, NEW o \in Obj, NEW t, Enqueue("Create", o, t)
  PROVE  QueuesTyped'
<1>1. queue' = Append(queue, Change("Create", o)) /\ Notify(t) /\ pending' = pending
  BY DEF Enqueue
<1>2. queue' \in Seq(Queued)
  BY <1>1, QueuedTyped DEF QueuesTyped
<1>3. timerActive' \in BOOLEAN /\ startPosted' \in BOOLEAN
  BY <1>1, NotifyTyped
<1> QED
  BY <1>1, <1>2, <1>3 DEF QueuesTyped

\* A queue without one of its members is still one: each place up to the new length
\* is that of a member kept.
LEMMA AllRemovedTyped ==
  ASSUME NEW S, NEW s \in Seq(S), NEW x
  PROVE  AllRemoved(s, x) \in Seq(S)
<1> DEFINE kept == Kept(s, x)
           upTo(i) == {j \in kept : j <= i}
<1>1. kept \subseteq 1..Len(s) /\ Len(s) \in Nat
  BY DEF Kept
<1>2. IsFiniteSet(1..Len(s))
  BY <1>1, FS_Interval
<1>3. IsFiniteSet(kept) /\ Cardinality(kept) \in Nat
  BY <1>1, <1>2, FS_Subset, FS_CardinalityType
<1>4. \A i : IsFiniteSet(upTo(i)) /\ Cardinality(upTo(i)) \in Nat
  <2> SUFFICES ASSUME NEW i PROVE IsFiniteSet(upTo(i)) /\ Cardinality(upTo(i)) \in Nat
    OBVIOUS
  <2> DEFINE U == upTo(i)
  <2>1. U \subseteq kept
    OBVIOUS
  <2> HIDE DEF U, kept
  <2>2. IsFiniteSet(U) /\ Cardinality(U) \in Nat
    BY <1>3, <2>1, FS_Subset, FS_CardinalityType
  <2> QED
    BY <2>2 DEF U
<1>5. ASSUME NEW k \in 1..Cardinality(kept)
      PROVE  \E i \in kept : Cardinality(upTo(i)) = k
  <2> DEFINE enough == {i \in Nat : Cardinality(upTo(i)) >= k}
             R == OpToRel(<, Nat)
  <2>1. upTo(Len(s)) = kept
    BY <1>1
  <2>2. Len(s) \in enough
    <3>1. Cardinality(kept) >= k
      <4> HIDE DEF kept
      <4> QED
        BY <1>3
    <3>2. Cardinality(upTo(Len(s))) = Cardinality(kept)
      BY <2>1
    <3> QED
      BY <1>1, <3>1, <3>2
  <2>3. IsWellFoundedOn(R, Nat)
    BY NatLessThanWellFounded
  <2>4. \A i, j \in Nat : j < i => <<j, i>> \in R
    BY DEF OpToRel
  <2>5. enough \subseteq Nat
    OBVIOUS
  <2> HIDE DEF R, enough
  <2>6. PICK m \in enough : \A j \in enough : ~ (<<j, m>> \in R)
    BY <2>2, <2>3, <2>5, WFMin
  <2>7. m \in Nat /\ \A j \in enough : j \in Nat /\ ~ (j < m)
    BY <2>4, <2>5, <2>6
  <2>8. Cardinality(upTo(m)) >= k
    BY <2>6 DEF enough
  <2>9. m # 0
    <3>1. upTo(0) = {}
      BY <1>1
    <3>2. Cardinality({}) = 0
      BY FS_EmptySet
    <3>3. Cardinality(upTo(0)) = 0
      BY <3>1, <3>2
    <3>4. k \in Nat /\ ~ (0 >= k)
      OBVIOUS
    <3> DEFINE c(i) == Cardinality(upTo(i))
    <3>5. c(m) >= k /\ c(0) = 0
      BY <2>8, <3>3
    <3> HIDE DEF c
    <3> QED
      BY <3>4, <3>5
  <2>10. m - 1 \in Nat /\ m - 1 < m
    BY <2>7, <2>9
  <2>11. ~ (Cardinality(upTo(m - 1)) >= k)
    BY <2>7, <2>10 DEF enough
  <2>12. upTo(m) = upTo(m - 1) \cup ({m} \cap kept) /\ m \notin upTo(m - 1)
    BY <1>1, <2>7, <2>10
  <2> DEFINE A == upTo(m - 1)
             B == upTo(m)
  <2>13. IsFiniteSet(A) /\ Cardinality(A) \in Nat /\ Cardinality(B) \in Nat
    BY <1>4
  <2>14. Cardinality(B) >= k /\ ~ (Cardinality(A) >= k) /\ B = A \cup ({m} \cap kept) /\ m \notin A
    BY <2>8, <2>11, <2>12
  <2> HIDE DEF A, B, kept
  <2>15. m \in kept
    <3>1. m \notin kept => A = B
      BY <2>14
    <3> QED
      BY <2>14, <3>1
  <2>16. B = A \cup {m}
    BY <2>14, <2>15
  <2>17. Cardinality(B) = Cardinality(A) + 1
    BY <2>13, <2>14, <2>16, FS_AddElement
  <2>18. Cardinality(B) = k
    BY <1>3, <2>13, <2>14, <2>17
  <2> QED
    BY <2>15, <2>18 DEF B
<1>6. ASSUME NEW k \in 1..Cardinality(kept)
      PROVE  s[CHOOSE i \in kept : Cardinality(upTo(i)) = k] \in S
  <2> DEFINE p == CHOOSE i \in kept : Cardinality(upTo(i)) = k
  <2>1. p \in kept
    BY <1>5
  <2> HIDE DEF p
  <2> QED
    BY <1>1, <2>1 DEF p
<1>7. AllRemoved(s, x) = [k \in 1..Cardinality(kept) |->
                            s[CHOOSE i \in kept : Cardinality(upTo(i)) = k]]
  BY DEF AllRemoved
<1> DEFINE f == AllRemoved(s, x)
           n == Cardinality(kept)
<1>8. f = [k \in 1..n |-> f[k]] /\ \A k \in 1..n : f[k] \in S
  BY <1>6, <1>7
<1> HIDE DEF kept, f, n
<1>9. n \in Nat
  BY <1>3 DEF n
<1>10. f \in [1..n -> S]
  BY <1>8
<1>11. f \in Seq(S)
  BY <1>9, <1>10
<1> QED
  BY <1>11 DEF f

\* The event filter's three answers.
LEMMA EventTyped ==
  ASSUME Types, QueuesTyped, ModelsTyped, NEW o \in Obj,
         DeferReparent(o) \/ ReportReparent(o) \/ IgnoreEvent(o)
  PROVE  QueuesTyped' /\ ModelsTyped'
<1>1. CASE DeferReparent(o)
  <2>1. /\ pending' = Append(pending, o) /\ Notify("main") /\ queue' = queue /\ tree' = tree
        /\ lost' = [lost EXCEPT !["ignored"] = @ \ {o}]
    BY <1>1 DEF DeferReparent, modelVars
  <2>2. QueuesTyped'
    BY <2>1, NotifyTyped DEF QueuesTyped
  <2>3. ModelsTyped'
    BY <2>1 DEF ModelsTyped, Loss
  <2> QED
    BY <2>2, <2>3
<1>2. CASE ReportReparent(o)
  <2>1. ModelsTyped'
    BY <1>2, ReparentedTyped DEF ReportReparent
  <2>2. AllRemoved(pending, o) \in Seq(Obj)
    BY AllRemovedTyped DEF QueuesTyped
  <2>3. UNCHANGED <<queue, timerActive, startPosted>> /\ pending' \in Seq(Obj)
    BY <1>2, <2>2 DEF ReportReparent, QueuesTyped
  <2> QED
    BY <2>1, <2>3 DEF QueuesTyped
<1>3. CASE IgnoreEvent(o)
  <2>1. UNCHANGED <<queue, pending, timerActive, startPosted, tree>>
    BY <1>3 DEF IgnoreEvent, queueVars, modelVars
  <2>2. lost' \in [Loss -> SUBSET Obj]
    BY <1>3 DEF IgnoreEvent, ModelsTyped, Loss
  <2> QED
    BY <2>1, <2>2 DEF QueuesTyped, ModelsTyped
<1> QED
  BY <1>1, <1>2, <1>3

\* The types hold initially.
LEMMA RestInit == Init => RestTyped
<1> SUFFICES ASSUME Init PROVE RestTyped
  OBVIOUS
<1> USE DEF Init
<1>1. EmptyTree \in Trees
  <2> DEFINE c == [o \in {} |-> Null]
             r == [o \in ObjOrNull |-> NoRows]
             S == {}
  <2>1. S \in SUBSET Obj /\ c \in [S -> ObjOrNull] /\ r \in [ObjOrNull -> [Obj -> Nat]]
    BY DEF NoRows
  <2>2. EmptyTree = [childParent |-> c, parentChild |-> r]
    BY DEF EmptyTree
  <2> HIDE DEF c, r, S
  <2> QED
    BY <2>1, <2>2, TreeMade
<1>2. ModelsTyped
  BY <1>1 DEF ModelsTyped
<1>3. QueuesTyped /\ LoopTyped
  <2>1. << >> \in Seq(Queued) /\ << >> \in Seq(Obj) /\ << >> \in Seq(ObjectChanges)
    OBVIOUS
  <2>2. queue \in Seq(Queued) /\ pending \in Seq(Obj) /\ todo \in Seq(ObjectChanges)
    BY <2>1
  <2> QED
    BY <2>2 DEF QueuesTyped, LoopTyped
<1>4. OthersTyped
  BY TrackingAssumption DEF OthersTyped, Thread
<1> QED
  BY <1>2, <1>3, <1>4 DEF RestTyped

\* The switch of the hooks, the caller and the count of changes.
LEMMA OthersStep == OthersTyped /\ [Next]_vars => OthersTyped'
<1> SUFFICES ASSUME OthersTyped, [Next]_vars PROVE OthersTyped'
  OBVIOUS
<1> USE DEF OthersTyped, Thread, heapVars, hookVars, callVars
<1>1. ASSUME NEW o \in Obj, NEW p \in ObjOrNull, NEW flag \in BOOLEAN,
             Construct(o, p, flag) \/ ConstructInWorker(o, p) \/ SetParent(o, p, flag)
      PROVE  OthersTyped'
  <2>1. hooked' = hooked /\ changes' = changes + 1 /\ changes < MaxChanges
    BY <1>1 DEF Construct, ConstructInWorker, SetParent, Occupy
  <2>2. caller' \in {caller, "main"}
    BY <1>1 DEF Construct, ConstructInWorker, SetParent
  <2>3. changes' \in 0..MaxChanges
    BY <2>1, TrackingAssumption
  <2> QED
    BY <2>1, <2>2, <2>3
<1>2. CASE \E o \in Obj : Destroy(o) \/ ReceiveEvent(o) \/ HookInWorker(o) \/ FinishConstructor(o)
  <2>1. PICK o \in Obj : Destroy(o) \/ ReceiveEvent(o) \/ HookInWorker(o) \/ FinishConstructor(o)
    BY <1>2
  <2>2. UNCHANGED <<hooked, changes>> /\ caller' \in {caller, "main", "worker"}
    BY <2>1 DEF Destroy, ReceiveEvent, HookInWorker, FinishConstructor
  <2> QED
    BY <2>2
<1>3. CASE StartUp
  BY <1>3 DEF StartUp, InstallHooks, CreateProbe, AddNext, AddedAll, FindNext, DelayedInit
<1>4. CASE Drain
  BY <1>4 DEF Drain, DeliverStart, TimerFires, StartDrain, DrainChange, ClearQueue, DrainReparent,
              FinishDrain
<1>5. CASE Calls
  BY <1>5 DEF Calls, ObjectAdded, TrackObject, ObjectFullyConstructed, ToolInitReturns, ObjectCreated,
              DiscoverObject, DiscoverChildren, ChildRemoved, ChildAdded, ParentChange
<1>6. CASE UNCHANGED vars
  BY <1>6 DEF vars
<1>7. Target => \/ \E o \in Obj, p \in ObjOrNull, flag \in BOOLEAN :
                     Construct(o, p, flag) \/ ConstructInWorker(o, p) \/ SetParent(o, p, flag)
                \/ \E o \in Obj : Destroy(o) \/ ReceiveEvent(o) \/ HookInWorker(o) \/ FinishConstructor(o)
  BY DEF Target
<1> QED
  BY <1>1, <1>2, <1>3, <1>4, <1>5, <1>6, <1>7 DEF Next, Constructors

\* The loops of the main thread.
LEMMA LoopStep == QueuesTyped /\ LoopTyped /\ [Next]_vars => LoopTyped'
<1> SUFFICES ASSUME QueuesTyped, LoopTyped, [Next]_vars PROVE LoopTyped'
  OBVIOUS
<1> USE DEF LoopTyped, loopVars
<1>1. CASE UNCHANGED loopVars
  BY <1>1
<1>2. CASE Target \/ Constructors
  <2>1. Target => UNCHANGED loopVars
    BY DEF Target, Construct, ConstructInWorker, SetParent, Destroy, ReceiveEvent
  <2>2. Constructors => UNCHANGED loopVars
    BY DEF Constructors, HookInWorker, FinishConstructor
  <2> QED
    BY <1>1, <1>2, <2>1, <2>2
<1>3. CASE StartUp
  BY <1>3 DEF StartUp, InstallHooks, CreateProbe, AddNext, AddedAll, FindNext, DelayedInit
<1>4. CASE Drain
  <2>1. CASE DeliverStart \/ TimerFires \/ FinishDrain
    BY <2>1 DEF DeliverStart, TimerFires, FinishDrain
  <2>2. CASE StartDrain
    BY <2>2, QueuedAsChanges DEF StartDrain, QueuesTyped
  <2>3. CASE DrainChange \/ DrainReparent
    <3>1. todo # << >> /\ todo' = Tail(todo) /\ stage' = stage
      BY <2>3 DEF DrainChange, DrainReparent
    <3> QED
      BY <3>1
  <2>4. CASE ClearQueue
    <3>1. /\ todo' = [i \in DOMAIN pending |-> Change("Reparent", pending[i])]
          /\ stage' = "reparents"
      BY <2>4 DEF ClearQueue
    <3>2. \A o \in Obj : Change("Reparent", o) \in ObjectChanges
      BY DEF Change, ObjectChanges, ChangeTypes
    <3>3. \A i \in 1..Len(pending) : Change("Reparent", pending[i]) \in ObjectChanges
      BY <3>2 DEF QueuesTyped
    <3>4. DOMAIN pending = 1..Len(pending) /\ Len(pending) \in Nat
      BY DEF QueuesTyped
    <3>5. todo' \in [1..Len(pending) -> ObjectChanges]
      BY <3>1, <3>3, <3>4
    <3>6. todo' \in Seq(ObjectChanges)
      BY <3>4, <3>5
    <3> QED
      BY <3>1, <3>6
  <2> QED
    BY <1>4, <2>1, <2>2, <2>3, <2>4 DEF Drain
<1>5. CASE Calls
  BY <1>1, <1>5 DEF Calls, ObjectAdded, TrackObject, ObjectFullyConstructed, ToolInitReturns, ObjectCreated,
              DiscoverObject, DiscoverChildren, ChildRemoved, ChildAdded, ParentChange
<1> QED
  BY <1>1, <1>2, <1>3, <1>4, <1>5 DEF Next, vars

\* The queues of the probe.
LEMMA QueuesStep ==
  ASSUME AliveInv, QueuesTyped, LoopTyped, ModelsTyped, [Next]_vars
  PROVE  QueuesTyped'
<1> USE DEF queueVars
<1>1. CASE UNCHANGED queueVars
  BY <1>1 DEF QueuesTyped
<1>2. ASSUME NEW o \in Obj, Destroy(o)
      PROVE  QueuesTyped'
  <2>1. CASE RemovedHere(o)
    BY <2>1, PurgedQueued DEF RemovedHere, QueuesTyped
  <2>2. CASE RemovedElsewhere(o)
    <3>1. queue' = Append(Purged(queue, o), Change("Destroy", o)) /\ Notify("worker")
          /\ pending' = pending
      BY <2>2 DEF RemovedElsewhere
    <3>2. queue' \in Seq(Queued)
      BY <3>1, PurgedQueued, QueuedTyped DEF QueuesTyped
    <3>3. timerActive' \in BOOLEAN /\ startPosted' \in BOOLEAN
      BY <3>1, NotifyTyped
    <3> QED
      BY <3>1, <3>2, <3>3 DEF QueuesTyped
  <2> QED
    BY <1>1, <1>2, <2>1, <2>2 DEF Destroy, ObjectRemoved, RemovedBefore
<1>3. CASE Target \/ Constructors
  <2>1. ASSUME NEW o \in Obj, NEW p \in ObjOrNull, NEW flag \in BOOLEAN,
               Construct(o, p, flag) \/ ConstructInWorker(o, p) \/ SetParent(o, p, flag)
        PROVE  UNCHANGED queueVars
    BY <2>1 DEF Construct, ConstructInWorker, SetParent
  <2>2. ASSUME NEW o \in Obj, ReceiveEvent(o) \/ HookInWorker(o) \/ FinishConstructor(o)
        PROVE  UNCHANGED queueVars
    BY <2>2 DEF ReceiveEvent, HookInWorker, FinishConstructor
  <2> QED
    BY <1>1, <1>2, <1>3, <2>1, <2>2 DEF Target, Constructors
<1>4. CASE StartUp
  BY <1>1, <1>4 DEF StartUp, InstallHooks, CreateProbe, AddNext, AddedAll, FindNext, DelayedInit
<1>5. CASE Drain
  <2>1. CASE StartDrain \/ DrainChange
    BY <1>1, <2>1 DEF StartDrain, DrainChange
  <2>2. CASE DeliverStart \/ TimerFires
    BY <2>2 DEF DeliverStart, TimerFires, QueuesTyped
  <2>3. CASE DrainReparent
    <3>1. /\ UNCHANGED <<pending, timerActive, startPosted>>
          /\ queue' = queue \/ queue' = Purged(queue, Head(todo).obj)
      BY <2>3 DEF DrainReparent
    <3> QED
      BY <3>1, PurgedQueued DEF QueuesTyped
  <2>4. CASE ClearQueue
    <3>1. queue' = << >> /\ UNCHANGED <<pending, timerActive, startPosted>>
      BY <2>4 DEF ClearQueue
    <3>2. << >> \in Seq(Queued)
      OBVIOUS
    <3> QED
      BY <3>1, <3>2 DEF QueuesTyped
  <2>5. CASE FinishDrain
    <3>1. pending' = << >> /\ UNCHANGED <<queue, timerActive, startPosted>>
      BY <2>5 DEF FinishDrain
    <3>2. << >> \in Seq(Obj)
      OBVIOUS
    <3> QED
      BY <3>1, <3>2 DEF QueuesTyped
  <2> QED
    BY <1>5, <2>1, <2>2, <2>3, <2>4, <2>5 DEF Drain
<1>6. CASE Calls
  <2> DEFINE o == Head(calls).obj
  <2>1. calls # << >>
    BY <1>6 DEF Calls, ObjectAdded, TrackObject, ObjectFullyConstructed, ToolInitReturns, ObjectCreated,
         DiscoverObject, DiscoverChildren, ChildRemoved, ChildAdded, ParentChange, Running
  <2>2. o \in Obj
    BY <2>1, HeadFrame
  <2>3. \/ UNCHANGED queueVars \/ Enqueue("Create", o, caller)
        \/ DeferReparent(o) \/ ReportReparent(o) \/ IgnoreEvent(o)
    <3>1. CASE ChildRemoved \/ ChildAdded \/ ParentChange
      BY <3>1 DEF ChildRemoved, ChildAdded, ParentChange
    <3>2. CASE ObjectAdded \/ TrackObject
      BY <3>2 DEF ObjectAdded, TrackObject
    <3>3. CASE \/ ObjectFullyConstructed \/ ToolInitReturns \/ ObjectCreated
               \/ DiscoverObject \/ DiscoverChildren
      BY <3>3 DEF ObjectFullyConstructed, ToolInitReturns, ObjectCreated, DiscoverObject,
                  DiscoverChildren
    <3> QED
      BY <1>6, <3>1, <3>2, <3>3 DEF Calls
  <2> HIDE DEF o
  <2> QED
    BY <1>1, <2>2, <2>3, EnqueueTyped, EventTyped DEF AliveInv
<1> QED
  BY <1>1, <1>3, <1>4, <1>5, <1>6 DEF Next, vars

\* The models and the losses.
LEMMA ModelsStep ==
  ASSUME AliveInv, QueuesTyped, LoopTyped, ModelsTyped, [Next]_vars
  PROVE  ModelsTyped'
<1> USE DEF modelVars
<1>0. Types /\ valid \subseteq Obj
  BY DEF AliveInv, Types
<1>1. CASE UNCHANGED <<tree, lost>>
  BY <1>1 DEF ModelsTyped
<1>2. CASE UNCHANGED tree /\ lost' \in [Loss -> SUBSET Obj]
  BY <1>2 DEF ModelsTyped
<1>3. ASSUME NEW o \in Obj, NEW p \in ObjOrNull, NEW flag \in BOOLEAN,
             Construct(o, p, flag) \/ ConstructInWorker(o, p) \/ SetParent(o, p, flag)
      PROVE  ModelsTyped'
  <2>1. tree' = tree /\ (lost' = lost \/ lost' = [lost EXCEPT !["unseen"] = @ \cup {o}])
    BY <1>3 DEF Construct, ConstructInWorker, SetParent
  <2>2. lost' \in [Loss -> SUBSET Obj]
    BY <2>1 DEF ModelsTyped, Loss
  <2> QED
    BY <1>2, <2>1, <2>2
<1>4. ASSUME NEW o \in Obj, Destroy(o) \/ ReceiveEvent(o) \/ HookInWorker(o) \/ FinishConstructor(o)
      PROVE  ModelsTyped'
  <2>1. UNCHANGED <<tree, lost>> \/ EmitDestroyed(o)
    BY <1>4 DEF Destroy, ObjectRemoved, RemovedBefore, RemovedHere, RemovedElsewhere,
                ReceiveEvent, HookInWorker, FinishConstructor
  <2> QED
    BY <1>0, <1>1, <2>1, DestroyedTyped
<1>5. CASE StartUp
  BY <1>1, <1>5 DEF StartUp, InstallHooks, CreateProbe, AddNext, AddedAll, FindNext, DelayedInit
<1>6. CASE Drain
  <2>1. CASE DeliverStart \/ TimerFires \/ StartDrain \/ FinishDrain
    BY <1>1, <2>1 DEF DeliverStart, TimerFires, StartDrain, FinishDrain
  <2>2. todo # << >> => Head(todo).obj \in Obj
    <3>1. todo # << >> => Head(todo) \in ObjectChanges
      BY DEF LoopTyped
    <3> QED
      BY <3>1 DEF ObjectChanges
  <2>3. CASE DrainChange
    <3>1. todo # << >> /\ (UNCHANGED <<tree, lost>> \/ EmitDestroyed(Head(todo).obj))
      BY <2>3 DEF DrainChange
    <3> QED
      BY <1>0, <1>1, <2>2, <3>1, DestroyedTyped
  <2>4. CASE ClearQueue
    <3> DEFINE A == {o \in valid \ RowsOf(list) : CreationQueued(o)}
    <3>1. tree' = tree /\ lost' = [lost EXCEPT !["dropped"] = @ \cup A] /\ A \subseteq Obj
      BY <1>0, <2>4 DEF ClearQueue
    <3> HIDE DEF A
    <3>2. lost' \in [Loss -> SUBSET Obj]
      BY <3>1 DEF ModelsTyped, Loss
    <3> QED
      BY <1>2, <3>1, <3>2
  <2>5. CASE DrainReparent
    <3>1. /\ todo # << >>
          /\ \/ UNCHANGED <<tree, lost>> \/ EmitDestroyed(Head(todo).obj)
             \/ EmitReparented(Head(todo).obj)
      BY <2>5 DEF DrainReparent
    <3> QED
      BY <1>0, <1>1, <2>2, <3>1, DestroyedTyped, ReparentedTyped
  <2> QED
    BY <1>6, <2>1, <2>3, <2>4, <2>5 DEF Drain
<1>7. CASE Calls
  <2> DEFINE o == Head(calls).obj
  <2>1. calls # << >>
    BY <1>7 DEF Calls, ObjectAdded, TrackObject, ObjectFullyConstructed, ToolInitReturns, ObjectCreated,
         DiscoverObject, DiscoverChildren, ChildRemoved, ChildAdded, ParentChange, Running
  <2>2. o \in Obj
    BY <2>1, HeadFrame
  <2>3. \/ UNCHANGED <<tree, lost>>
        \/ tree' = tree /\ lost' = Forget(o, lost)
        \/ tree' = tree /\ lost' = [lost EXCEPT !["repeated"] = @ \cup {o}]
        \/ EmitCreated(o)
        \/ DeferReparent(o) \/ ReportReparent(o) \/ IgnoreEvent(o)
    BY <1>7 DEF Calls, ObjectAdded, TrackObject, ObjectFullyConstructed, ToolInitReturns, ObjectCreated,
         DiscoverObject, DiscoverChildren, ChildRemoved, ChildAdded, ParentChange
  <2>4. /\ Forget(o, lost) \in [Loss -> SUBSET Obj]
        /\ [lost EXCEPT !["repeated"] = @ \cup {o}] \in [Loss -> SUBSET Obj]
    BY <2>2 DEF Forget, ModelsTyped, Loss
  <2> HIDE DEF o
  <2> QED
    BY <1>0, <1>1, <1>2, <2>2, <2>3, <2>4, CreatedTyped, EventTyped
<1> QED
  BY <1>1, <1>3, <1>4, <1>5, <1>6, <1>7 DEF Next, Target, Constructors, vars

\* Every step keeps the types.
LEMMA RestStep == Inv /\ RestTyped /\ [Next]_vars => RestTyped'
<1> SUFFICES ASSUME Inv, RestTyped, [Next]_vars PROVE RestTyped'
  OBVIOUS
<1>1. AliveInv /\ QueuesTyped /\ LoopTyped /\ ModelsTyped /\ OthersTyped
  BY DEF Inv, RestTyped
<1> QED
  BY <1>1, QueuesStep, LoopStep, ModelsStep, OthersStep DEF RestTyped

\* The variables of the probe, of its models and of the target keep their types.
THEOREM TypeOKAlways == Spec => []TypeOK
<1>1. Inv /\ RestTyped => TypeOK
  <2> SUFFICES ASSUME Inv, RestTyped PROVE TypeOK
    OBVIOUS
  <2>1. Types
    BY DEF Inv, AliveInv
  <2>2. QueuesTyped /\ LoopTyped /\ ModelsTyped /\ OthersTyped
    BY DEF RestTyped
  <2> QED
    BY <2>1, <2>2 DEF Types, QueuesTyped, LoopTyped, ModelsTyped, OthersTyped, TypeOK, Queued, Trees
<1> QED
  BY <1>1, RestInit, RestStep, Invariance, PTL DEF Spec

-----------------------------------------------------------------------------
(***************************************************************************)
(* When objectCreated() is emitted.  With preloaded hooks every way there  *)
(* starts in the event loop, where no constructor of the main thread is    *)
(* running, but for the hook in a constructor, which only queues.          *)
(***************************************************************************)

Ready         == \A o \in Obj : home[o] = "main" => heap[o] # "derived"
NascentWorker == \A o \in Obj : heap[o] = "base" => home[o] = "worker"

\* Calls that lead to objectCreated() without the queue in between.
Late(f) == \/ f.fn \in Announcing \cup {"discoverObject", "discoverChildren"}
           \/ f.fn \in {"objectAdded", "trackObject"} /\ ~f.fromCtor

LateReady ==
  Preloaded => ((stage # "idle" \/ \E f \in FramesOf(calls) : Late(f)) => Ready)

ReadyInv == NascentWorker /\ LateReady

\* A step that starts a loop or a late call only when all constructors returned.
LEMMA ReadyStep ==
  ASSUME LateReady, Ready => Ready', NEW S,
         FramesOf(calls') \subseteq S \cup FramesOf(calls),
         stage' # "idle" => stage # "idle" \/ Ready,
         \A f \in S : Late(f) => (stage # "idle" \/ \E g \in FramesOf(calls) : Late(g)) \/ Ready
  PROVE  LateReady'
  BY DEF LateReady, Late

\* The frames that never lead there at once.
LEMMA EarlyFrames ==
  ASSUME NEW o
  PROVE  /\ ~Late(CtorCall(o))
         /\ \A fn \in {"childRemoved", "childAdded", "parentChange"} : ~Late(Call(fn, o))
  BY DEF Late, CtorCall, Call, Announcing

\* The target, whose constructors finish before the main thread goes on.
LEMMA TargetKeepsReady ==
  ASSUME AliveInv, ReadyInv, Target \/ Constructors
  PROVE  ReadyInv'
<1> USE DEF ReadyInv
<1>0. /\ heap \in [Obj -> {"free", "base"} \cup Alive] /\ home \in [Obj -> Thread]
      /\ calls \in Seq(CallFrames)
  BY DEF AliveInv, Types
<1>1. ASSUME NEW o \in Obj, NEW p \in ObjOrNull, NEW guarded \in BOOLEAN, Construct(o, p, guarded)
      PROVE  ReadyInv'
  <2> DEFINE S == {CtorCall(o)}
  <2>1. /\ heap' = [heap EXCEPT ![o] = heap'[o]] /\ heap'[o] \in Alive
        /\ home' = [home EXCEPT ![o] = "main"]
        /\ ~InToolInit => calls = << >> /\ stage = "idle"
        /\ InToolInit => heap'[o] # "derived"
        /\ stage' = stage
    BY <1>0, <1>1 DEF Construct, Occupy, Alive, MainIdle, loopVars
  <2>2. NascentWorker'
    BY <1>0, <2>1 DEF NascentWorker, Alive
  <2>3. FramesOf(calls') \subseteq S \cup FramesOf(calls)
    BY <1>0, <1>1, NewFrames, PushFrame DEF Construct, callVars
  <2>4. CASE InToolInit
    <3>1. Ready => Ready'
      BY <1>0, <2>1, <2>4 DEF Ready
    <3>2. \A f \in S : ~Late(f)
      BY EarlyFrames
    <3> HIDE DEF S
    <3> QED
      BY <2>1, <2>2, <2>3, <3>1, <3>2, ReadyStep
  <2>5. CASE ~InToolInit
    <3>1. FramesOf(calls') \subseteq S
      BY <2>1, <2>3, <2>5, NoFrames
    <3>2. \A f \in S : ~Late(f)
      BY EarlyFrames
    <3> HIDE DEF S
    <3>3. stage' = "idle" /\ \A f \in FramesOf(calls') : ~Late(f)
      BY <2>1, <2>5, <3>1, <3>2
    <3>4. LateReady'
      BY <3>3 DEF LateReady, Late
    <3> QED
      BY <2>2, <3>4
  <2> QED
    BY <2>4, <2>5
<1>2. ASSUME NEW o \in Obj, NEW p \in ObjOrNull, ConstructInWorker(o, p)
      PROVE  ReadyInv'
  <2>1. /\ heap' = [heap EXCEPT ![o] = "base"] /\ home' = [home EXCEPT ![o] = "worker"]
        /\ UNCHANGED <<stage, calls>>
    BY <1>2 DEF ConstructInWorker, Occupy, loopVars, callVars
  <2>2. NascentWorker' /\ (Ready => Ready')
    BY <1>0, <2>1 DEF NascentWorker, Ready
  <2> QED
    BY <2>1, <2>2, ReadyStep
<1>3. ASSUME NEW o \in Obj, HookInWorker(o)
      PROVE  ReadyInv'
  <2> DEFINE S == {CtorCall(o)}
  <2>1. /\ heap' = [heap EXCEPT ![o] = "derived"] /\ home' = home /\ stage' = stage
        /\ home[o] = "worker"
    BY <1>3 DEF HookInWorker, NascentWorker, loopVars
  <2>2. NascentWorker' /\ (Ready => Ready')
    BY <1>0, <2>1 DEF NascentWorker, Ready
  <2>3. FramesOf(calls') \subseteq S \cup FramesOf(calls)
    BY <1>0, <1>3, NewFrames, OneFrame DEF HookInWorker, callVars
  <2>4. \A f \in S : ~Late(f)
    BY EarlyFrames
  <2> HIDE DEF S
  <2> QED
    BY <2>1, <2>2, <2>3, <2>4, ReadyStep
<1>4. ASSUME NEW o \in Obj, FinishConstructor(o) \/ Destroy(o)
      PROVE  ReadyInv'
  <2>1. /\ heap' = [heap EXCEPT ![o] = heap'[o]] /\ heap'[o] \in {"live", "free"}
        /\ \A x \in Obj \ {o} : home'[x] = home[x]
        /\ UNCHANGED <<stage, calls>>
    BY <1>0, <1>4 DEF FinishConstructor, Destroy, loopVars, callVars
  <2>2. NascentWorker' /\ (Ready => Ready')
    BY <1>0, <2>1 DEF NascentWorker, Ready
  <2> QED
    BY <2>1, <2>2, ReadyStep
<1>5. ASSUME NEW o \in Obj, NEW p \in ObjOrNull, NEW widget \in BOOLEAN, SetParent(o, p, widget)
      PROVE  ReadyInv'
  <2> DEFINE S == {Call("childRemoved", o), Call("childAdded", o), Call("parentChange", o)}
  <2>1. UNCHANGED <<heap, home, stage>>
    BY <1>5 DEF SetParent, loopVars
  <2>2. NascentWorker' /\ (Ready => Ready')
    BY <2>1 DEF NascentWorker, Ready
  <2>3. FramesOf(calls') \subseteq S \cup FramesOf(calls)
    BY <1>5, SetParentFrames
  <2>4. \A f \in S : ~Late(f)
    BY EarlyFrames
  <2> HIDE DEF S
  <2> QED
    BY <2>1, <2>2, <2>3, <2>4, ReadyStep
<1>6. ASSUME NEW o \in Obj, ReceiveEvent(o)
      PROVE  ReadyInv'
  <2>1. ~Preloaded /\ UNCHANGED <<heap, home>>
    BY <1>6 DEF ReceiveEvent, heapVars
  <2> QED
    BY <2>1 DEF NascentWorker, LateReady
<1> QED
  BY <1>1, <1>2, <1>3, <1>4, <1>5, <1>6 DEF Target, Constructors

\* Start-up runs in the event loop.
LEMMA StartUpKeepsReady ==
  ASSUME ReadyInv, StartUp
  PROVE  ReadyInv'
<1> USE DEF ReadyInv, heapVars, loopVars, callVars
<1>1. UNCHANGED <<heap, home>>
  BY DEF StartUp, InstallHooks, CreateProbe, AddNext, AddedAll, FindNext, DelayedInit
<1>2. NascentWorker' /\ (Ready => Ready')
  BY <1>1 DEF NascentWorker, Ready
<1>3. CASE InstallHooks \/ DelayedInit
  <2>1. UNCHANGED <<stage, calls>>
    BY <1>3 DEF InstallHooks, DelayedInit
  <2> QED
    BY <1>2, <2>1, ReadyStep
<1>4. CASE CreateProbe \/ AddNext \/ AddedAll \/ FindNext
  <2>1. stage # "idle" \/ Ready
    BY <1>4 DEF CreateProbe, AddNext, AddedAll, FindNext, InEventLoop, Ready
  <2>2. Preloaded => Ready
    BY <2>1 DEF LateReady
  <2> QED
    BY <1>2, <2>2 DEF LateReady
<1> QED
  BY <1>3, <1>4 DEF StartUp

\* So does the timer, and the lock holder of a drain is the main thread.
LEMMA DrainKeepsReady ==
  ASSUME ReadyInv, Drain
  PROVE  ReadyInv'
<1> USE DEF ReadyInv, heapVars, loopVars, callVars
<1>1. UNCHANGED <<heap, home>>
  BY DEF Drain, DeliverStart, TimerFires, StartDrain, DrainChange, ClearQueue, DrainReparent,
         FinishDrain
<1>2. NascentWorker' /\ (Ready => Ready')
  BY <1>1 DEF NascentWorker, Ready
<1>3. CASE DeliverStart
  <2>1. UNCHANGED <<stage, calls>>
    BY <1>3 DEF DeliverStart
  <2> QED
    BY <1>2, <2>1, ReadyStep
<1>4. CASE ~DeliverStart
  <2>1. stage # "idle" \/ Ready
    BY <1>4 DEF Drain, TimerFires, StartDrain, DrainChange, ClearQueue, DrainReparent,
                FinishDrain, InEventLoop, Ready
  <2>2. Preloaded => Ready
    BY <2>1 DEF LateReady
  <2> QED
    BY <1>2, <2>2 DEF LateReady
<1> QED
  BY <1>3, <1>4

\* The hook in a constructor calls nothing but itself, for parents not known yet.
LEMMA CallsKeepReady ==
  ASSUME AliveInv, ReadyInv, Calls
  PROVE  ReadyInv'
<1> DEFINE h == Head(calls)
           o == h.obj
<1> USE DEF ReadyInv, heapVars, loopVars
<1>1. calls # << >> /\ UNCHANGED <<heap, home, stage>>
  BY DEF Calls, ObjectAdded, TrackObject, ObjectFullyConstructed, ToolInitReturns, ObjectCreated,
         DiscoverObject, DiscoverChildren, ChildRemoved, ChildAdded, ParentChange, Running
<1>2. NascentWorker' /\ (Ready => Ready')
  BY <1>1 DEF NascentWorker, Ready
<1>3. /\ h \in FramesOf(calls) /\ h \in CallFrames /\ o \in Obj /\ calls \in Seq(CallFrames)
      /\ Tail(calls) \in Seq(CallFrames) /\ FramesOf(Tail(calls)) \subseteq FramesOf(calls)
  BY <1>1, HeadFrame, PopFrame DEF AliveInv, Types
<1>4. CASE Late(h)
  <2>1. Preloaded => Ready
    BY <1>3, <1>4 DEF LateReady
  <2> QED
    BY <1>2, <2>1 DEF LateReady
<1>5. ASSUME NEW f \in CallFrames, ~Late(f),
             calls' = Tail(calls) \/ calls' = <<f>> \o Tail(calls) \/ calls' = <<f>> \o calls
      PROVE  ReadyInv'
  <2> DEFINE S == {f}
  <2> HIDE DEF h, o
  <2>1. FramesOf(calls') \subseteq S \cup FramesOf(calls)
    BY <1>3, <1>5, PushFrame
  <2>2. \A g \in S : ~Late(g)
    BY <1>5
  <2> HIDE DEF S
  <2> QED
    BY <1>1, <1>2, <2>1, <2>2, ReadyStep
<1>6. CASE ObjectAdded /\ ~Late(h)
  <2> DEFINE S == AddedCalls(h)
  <2>1. h.fn = "objectAdded" /\ h.fromCtor
    BY <1>6 DEF ObjectAdded, Running, Late
  <2>2. FramesOf(calls') \subseteq S \cup FramesOf(calls)
    BY <1>6, AddedFramesOf DEF AliveInv
  <2>3. \A f \in S : ~Late(f)
    <3>1. /\ RestFrame(h).fn = "trackObject" /\ RestFrame(h).fromCtor
          /\ ParentUnknown(o) => ParentFrame(h).fn = "objectAdded" /\ ParentFrame(h).fromCtor
      BY <1>6, <2>1, AddedFrames DEF AliveInv
    <3> QED
      BY <3>1 DEF AddedCalls, Late, Announcing
  <2> HIDE DEF S
  <2> QED
    BY <1>1, <1>2, <2>2, <2>3, ReadyStep
<1>9. CASE TrackObject /\ ~Late(h)
  <2>1. h.fn = "trackObject" /\ h.fromCtor
    BY <1>9 DEF TrackObject, Running, Late
  <2>2. calls' = Tail(calls)
    BY <1>9, <2>1 DEF TrackObject, Return
  <2>3. CtorCall(o) \in CallFrames /\ ~Late(CtorCall(o))
    BY <1>3, NewFrames, EarlyFrames
  <2> QED
    BY <1>5, <2>2, <2>3
<1>7. CASE ChildRemoved \/ ChildAdded \/ ParentChange
  <2>1. CtorCall(o) \in CallFrames /\ ~Late(CtorCall(o))
    BY <1>3, NewFrames, EarlyFrames
  <2>2. calls' = Tail(calls) \/ calls' = <<CtorCall(o)>> \o Tail(calls)
    BY <1>7 DEF ChildRemoved, ChildAdded, ParentChange, Return, CallLast
  <2> QED
    BY <1>5, <2>1, <2>2
<1>8. CASE \/ ObjectFullyConstructed \/ ToolInitReturns \/ ObjectCreated
           \/ DiscoverObject \/ DiscoverChildren
  <2>1. Late(h)
    BY <1>8 DEF ObjectFullyConstructed, ToolInitReturns, ObjectCreated, DiscoverObject,
                DiscoverChildren, Running, Late, Announcing
  <2> QED
    BY <1>4, <2>1
<1> QED
  BY <1>4, <1>6, <1>7, <1>8, <1>9 DEF Calls

\* Nothing runs initially.
LEMMA ReadyInit == Init => ReadyInv
  BY NoFrames DEF Init, ReadyInv, NascentWorker, LateReady

\* Every step keeps it.
LEMMA ReadyKept == Inv /\ ReadyInv /\ [Next]_vars => ReadyInv'
<1> SUFFICES ASSUME Inv, ReadyInv, [Next]_vars PROVE ReadyInv'
  OBVIOUS
<1>1. AliveInv
  BY DEF Inv
<1>2. CASE UNCHANGED vars
  BY <1>2 DEF vars, heapVars, loopVars, callVars, ReadyInv, NascentWorker, LateReady, Ready, FramesOf, Late
<1> QED
  BY <1>1, <1>2, TargetKeepsReady, StartUpKeepsReady, DrainKeepsReady, CallsKeepReady DEF Next

\* With preloaded hooks objectCreated() never comes while constructors of a main
\* thread object are running, whoever queued, discovered or found the object.
THEOREM ConstructedBeforeCreatedAlways == Spec => []ConstructedBeforeCreated
<1>1. Inv /\ ReadyInv => ConstructedBeforeCreated
  <2> SUFFICES ASSUME Inv, ReadyInv, Preloaded, Running("objectCreated"),
                      home[Head(calls).obj] = "main"
               PROVE  heap[Head(calls).obj] # "derived"
    BY DEF ConstructedBeforeCreated
  <2>1. Head(calls) \in FramesOf(calls) /\ Head(calls).obj \in Obj
    BY HeadFrame DEF Inv, Running
  <2>2. Late(Head(calls))
    BY DEF Running, Late, Announcing
  <2>3. Ready
    BY <2>1, <2>2 DEF ReadyInv, LateReady
  <2> QED
    BY <2>1, <2>3 DEF Ready
<1> QED
  BY <1>1, ReadyInit, ReadyKept, Invariance, PTL DEF Spec

-----------------------------------------------------------------------------
(***************************************************************************)
(* Every tracked object has a row, or a reason not to have one yet.        *)
(***************************************************************************)

Missed(o)  == o \in lost["dropped"] \cup lost["mistaken"]
Covered(o) == list[o] > 0 \/ CreationQueued(o) \/ Constructing(o) \/ Missed(o)

\* The frames of a stack are its head and what is below.
LEMMA SplitFrames ==
  ASSUME NEW s \in Seq(CallFrames), s # << >>
  PROVE  FramesOf(s) = {Head(s)} \cup FramesOf(Tail(s))
<1> DEFINE t == Tail(s)
           h == Head(s)
<1>1. h = s[1] /\ 1 \in DOMAIN s
  OBVIOUS
<1>2. \A i \in DOMAIN t : i + 1 \in DOMAIN s /\ t[i] = s[i + 1]
  OBVIOUS
<1>3. \A i \in DOMAIN s : i = 1 \/ (i - 1 \in DOMAIN t /\ s[i] = t[i - 1])
  OBVIOUS
<1> HIDE DEF t, h
<1>4. FramesOf(s) \subseteq {h} \cup FramesOf(t)
  BY <1>1, <1>3 DEF FramesOf
<1>5. {h} \cup FramesOf(t) \subseteq FramesOf(s)
  BY <1>1, <1>2 DEF FramesOf
<1> QED
  BY <1>4, <1>5 DEF t, h

\* An object is being announced when a frame says so.
LEMMA ConstructingFrames ==
  ASSUME NEW o
  PROVE  /\ Constructing(o) <=> \E f \in FramesOf(calls) : Announces(f, o)
         /\ Constructing(o)' <=> \E f \in FramesOf(calls') : Announces(f, o)
  BY DEF Constructing, FramesOf, Announces, Announcing

\* Queued creations stay when something is appended and when another object's go.
LEMMA CreationsCounted ==
  ASSUME NEW q \in Seq(ObjectChanges), NEW x
  PROVE  Count(q, Change("Create", x)) > 0 <=> \E i \in DOMAIN q : q[i] = Change("Create", x)
  BY CountTyped

\* Purging one object keeps the queued creations of the others.
LEMMA CreationsKept ==
  ASSUME NEW q \in Seq(ObjectChanges), NEW r \in Seq(ObjectChanges), NEW x,
         \/ \E d \in ObjectChanges : r = Append(q, d)
         \/ \E o : x # o /\ r = Purged(q, o)
         \/ \E d \in ObjectChanges : \E o : x # o /\ r = Append(Purged(q, o), d),
         \E i \in DOMAIN q : q[i] = Change("Create", x)
  PROVE  \E i \in DOMAIN r : r[i] = Change("Create", x)
<1> DEFINE c == Change("Create", x)
<1>1. Count(q, c) \in Nat /\ Count(q, c) > 0
  BY CountTyped
<1>2. ASSUME NEW p \in Seq(ObjectChanges), NEW d \in ObjectChanges
      PROVE  Count(p, c) > 0 => Count(Append(p, d), c) > 0
  <2>1. Count(Append(p, d), c) = Count(p, c) + One(d = c) /\ Count(p, c) \in Nat
    BY CountAppend, CountTyped
  <2>2. One(d = c) \in {0, 1}
    BY DEF One
  <2> HIDE DEF c
  <2> QED
    BY <2>1, <2>2
<1>3. ASSUME NEW o, x # o
      PROVE  Count(Purged(q, o), c) > 0 /\ Purged(q, o) \in Seq(ObjectChanges)
  <2>1. c # Change("Create", o)
    BY <1>3 DEF Change
  <2>2. Purged(q, o) \in Seq(ObjectChanges)
    BY PurgedTyped
  <2>3. Count(Purged(q, o), c) \in Nat
    BY <2>2, CountTyped
  <2>4. Count(q, c) = Count(Purged(q, o), c) + One(c = Change("Create", o) /\ Count(q, c) > 0)
    BY CountPurged
  <2>5. One(c = Change("Create", o) /\ Count(q, c) > 0) = 0
    BY <2>1 DEF One
  <2> HIDE DEF c
  <2> QED
    BY <1>1, <2>2, <2>3, <2>4, <2>5
<1>4. Count(r, c) > 0
  <2> HIDE DEF c
  <2>1. CASE \E d \in ObjectChanges : r = Append(q, d)
    BY <1>1, <1>2, <2>1
  <2>2. CASE \E o : x # o /\ r = Purged(q, o)
    BY <1>3, <2>2
  <2>3. CASE \E d \in ObjectChanges : \E o : x # o /\ r = Append(Purged(q, o), d)
    <3>1. PICK d \in ObjectChanges : \E o : x # o /\ r = Append(Purged(q, o), d)
      BY <2>3
    <3>2. PICK o : x # o /\ r = Append(Purged(q, o), d)
      BY <3>1
    <3> QED
      BY <1>2, <1>3, <3>2
  <2> QED
    BY <2>1, <2>2, <2>3
<1> QED
  BY <1>4, CountTyped

\* A step that leaves every reason alone, or replaces it.
LEMMA AccountedStep ==
  ASSUME Accounted,
         \A x \in valid' : x \in valid =>
           /\ list[x] > 0 => Covered(x)'
           /\ CreationQueued(x) => Covered(x)'
           /\ Constructing(x) => Covered(x)'
           /\ Missed(x) => Missed(x)',
         \A x \in valid' \ valid : Covered(x)'
  PROVE  Accounted'
  BY DEF Accounted, Covered, Missed

\* The same for a step that changes none of them but the stack, which grows.
LEMMA AccountedSame ==
  ASSUME Accounted, valid' \subseteq valid, UNCHANGED <<list, queue>>,
         FramesOf(calls) \subseteq FramesOf(calls'),
         lost' = lost \/ (/\ lost'["dropped"] = lost["dropped"]
                          /\ lost'["mistaken"] = lost["mistaken"])
  PROVE  Accounted'
<1>1. \A x : Constructing(x) => Constructing(x)'
  BY ConstructingFrames
<1>2. \A x : CreationQueued(x) => CreationQueued(x)'
  BY DEF CreationQueued
<1> QED
  BY <1>1, <1>2, AccountedStep DEF Covered, Missed

\* What objectDestroyed() takes from the list and adds to the losses.
LEMMA DestroyedEffect ==
  ASSUME Types, ModelsTyped, NEW o \in Obj, EmitDestroyed(o)
  PROVE  /\ \A x \in Obj : x # o => list'[x] = list[x]
         /\ list'[o] = IF list[o] > 0 THEN list[o] - 1 ELSE 0
         /\ \A x : Missed(x) => Missed(x)'
         /\ o \in valid /\ list'[o] = 0 => Missed(o)'
         /\ lost'["dropped"] = lost["dropped"]
<1>1. list' = RowRemoved(list, o) /\ list \in [Obj -> Nat] /\ lost \in [Loss -> SUBSET Obj]
  BY DEF EmitDestroyed, Types, ModelsTyped
<1>2. /\ \A x \in Obj : x # o => list'[x] = list[x]
      /\ list'[o] = IF list[o] > 0 THEN list[o] - 1 ELSE 0
  BY <1>1 DEF RowRemoved
<1>3. /\ lost'["dropped"] = lost["dropped"]
      /\ lost'["mistaken"] = lost["mistaken"] \cup ({o} \cap valid)
  BY <1>1 DEF EmitDestroyed, Loss
<1> QED
  BY <1>2, <1>3 DEF Missed

\* An object goes, with its row and its queued creation: the others keep theirs.
LEMMA GoneAccounted ==
  ASSUME Types, ModelsTyped, QueueTyped, Accounted, NEW o \in Obj,
         valid' \subseteq valid \ {o}, UNCHANGED calls,
         \/ queue' = Purged(queue, o)
         \/ queue' = Append(Purged(queue, o), Change("Destroy", o)),
         EmitDestroyed(o) \/ UNCHANGED <<list, lost>>
  PROVE  Accounted'
<1>0. queue \in Seq(ObjectChanges) /\ valid \subseteq Obj
  BY DEF QueueTyped, Types
<1>1. Change("Destroy", o) \in ObjectChanges
  BY DEF Change, ObjectChanges, ChangeTypes
<1>2. queue' \in Seq(ObjectChanges)
  BY <1>0, <1>1, PurgedTyped
<1>3. ASSUME NEW x, x # o, CreationQueued(x) PROVE CreationQueued(x)'
  <2>1. \E i \in DOMAIN queue : queue[i] = Change("Create", x)
    BY <1>3 DEF CreationQueued
  <2>2. \E i \in DOMAIN queue' : queue'[i] = Change("Create", x)
    BY <1>0, <1>1, <1>2, <1>3, <2>1, CreationsKept
  <2> QED
    BY <2>2 DEF CreationQueued
<1>4. \A x \in Obj : x # o => list'[x] = list[x] /\ (Missed(x) => Missed(x)')
  BY DestroyedEffect DEF Missed
<1>5. \A x : Constructing(x) => Constructing(x)'
  BY ConstructingFrames
<1>6. \A x \in valid' : x \in Obj /\ x # o
  BY <1>0
<1> QED
  BY <1>3, <1>4, <1>5, <1>6, AccountedStep DEF Covered

\* The target: what goes is tracked no longer, what is added is announced later.
LEMMA TargetKeepsAccounted ==
  ASSUME AliveInv, ModelsTyped, QueueTyped, Accounted, Target \/ Constructors
  PROVE  Accounted'
<1> USE DEF queueVars, modelVars
<1>0. Types /\ calls \in Seq(CallFrames) /\ valid \subseteq Obj
  BY DEF AliveInv, Types
<1>1. ASSUME NEW o \in Obj, NEW p \in ObjOrNull, NEW guarded \in BOOLEAN, Construct(o, p, guarded)
      PROVE  Accounted'
  <2>1. UNCHANGED <<valid, list, queue, lost>>
    BY <1>1 DEF Construct
  <2>2. FramesOf(calls) \subseteq FramesOf(calls')
    BY <1>0, <1>1, NewFrames, PushFrame DEF Construct, callVars
  <2> QED
    BY <2>1, <2>2, AccountedSame
<1>2. ASSUME NEW o \in Obj, NEW p \in ObjOrNull, ConstructInWorker(o, p)
      PROVE  Accounted'
  <2>1. UNCHANGED <<valid, list, queue, lost, calls>>
    BY <1>2 DEF ConstructInWorker, callVars
  <2> QED
    BY <2>1, AccountedSame
<1>3. ASSUME NEW o \in Obj, HookInWorker(o) \/ FinishConstructor(o) \/ ReceiveEvent(o)
      PROVE  Accounted'
  <2>1. UNCHANGED <<valid, list, queue, lost>>
    BY <1>3 DEF HookInWorker, FinishConstructor, ReceiveEvent
  <2>2. FramesOf(calls) \subseteq FramesOf(calls')
    BY <1>3, NoFrames DEF HookInWorker, FinishConstructor, ReceiveEvent, LockFree, MainIdle, callVars
  <2> QED
    BY <2>1, <2>2, AccountedSame
<1>4. ASSUME NEW o \in Obj, NEW p \in ObjOrNull, NEW widget \in BOOLEAN, SetParent(o, p, widget)
      PROVE  Accounted'
  <2>1. UNCHANGED <<valid, list, queue>>
    BY <1>4 DEF SetParent
  <2>2. \/ lost' = lost
        \/ lost'["dropped"] = lost["dropped"] /\ lost'["mistaken"] = lost["mistaken"]
    BY <1>4 DEF SetParent, ModelsTyped, Loss
  <2>3. FramesOf(calls) \subseteq FramesOf(calls')
    <3>1. home[o] = "main" => calls = << >>
      BY <1>4 DEF SetParent, MainIdle
    <3>2. CASE calls = << >>
      BY <3>2, NoFrames
    <3>3. CASE home[o] # "main"
      BY <1>4, <3>3, SetParentFrames
    <3> QED
      BY <3>1, <3>2, <3>3
  <2> QED
    BY <2>1, <2>2, <2>3, AccountedSame
<1>5. ASSUME NEW o \in Obj, Destroy(o)
      PROVE  Accounted'
  <2>1. UNCHANGED calls
    BY <1>5 DEF Destroy, callVars
  <2>2. CASE RemovedHere(o)
    BY <1>0, <2>1, <2>2, GoneAccounted DEF RemovedHere
  <2>3. CASE RemovedElsewhere(o)
    BY <1>0, <2>1, <2>3, GoneAccounted DEF RemovedElsewhere
  <2>4. CASE UNCHANGED <<valid, queue, list, lost>>
    BY <2>1, <2>4, AccountedSame
  <2> QED
    BY <1>5, <2>2, <2>3, <2>4 DEF Destroy, ObjectRemoved, RemovedBefore
<1> QED
  BY <1>1, <1>2, <1>3, <1>4, <1>5 DEF Target, Constructors

\* Start-up touches neither the rows nor the tracked objects.
LEMMA StartUpKeepsAccounted ==
  ASSUME Accounted, StartUp
  PROVE  Accounted'
<1> USE DEF queueVars, modelVars, hookVars
<1>1. UNCHANGED <<valid, list, queue, lost>>
  BY DEF StartUp, InstallHooks, CreateProbe, AddNext, AddedAll, FindNext, DelayedInit
<1>2. calls' = calls \/ calls = << >>
  BY DEF StartUp, InstallHooks, CreateProbe, AddNext, AddedAll, FindNext, DelayedInit, callVars
<1>3. FramesOf(calls) \subseteq FramesOf(calls')
  BY <1>2, NoFrames
<1> QED
  BY <1>1, <1>3, AccountedSame

\* A drain announces what it iterates over; what its clear() drops is missed.
LEMMA DrainKeepsAccounted ==
  ASSUME Types, ModelsTyped, LoopTyped, QueueTyped, Accounted, Drain
  PROVE  Accounted'
<1> USE DEF queueVars, modelVars, callVars
<1>0. /\ valid \subseteq Obj /\ list \in [Obj -> Nat] /\ lost \in [Loss -> SUBSET Obj]
      /\ todo # << >> => Head(todo).obj \in Obj
  <2>1. todo # << >> => Head(todo) \in ObjectChanges
    BY DEF LoopTyped
  <2> QED
    BY <2>1 DEF ObjectChanges, Types, ModelsTyped
<1>1. CASE DeliverStart \/ TimerFires \/ StartDrain \/ FinishDrain
  <2>1. UNCHANGED <<valid, list, queue, lost, calls>>
    BY <1>1 DEF DeliverStart, TimerFires, StartDrain, FinishDrain
  <2> QED
    BY <2>1, AccountedSame
<1>2. CASE DrainChange
  <2>1. todo # << >> /\ calls = << >> /\ UNCHANGED <<valid, queue>>
    BY <1>2 DEF DrainChange
  <2>2. CASE Head(todo).type = "Create"
    <3>1. UNCHANGED <<list, lost>>
      BY <1>2, <2>2 DEF DrainChange
    <3> QED
      BY <2>1, <3>1, NoFrames, AccountedSame
  <2>3. CASE Head(todo).type # "Create"
    <3> PICK o \in Obj : o = Head(todo).obj
      BY <1>0, <2>1
    <3>1. EmitDestroyed(o) /\ UNCHANGED calls
      BY <1>2, <2>3 DEF DrainChange
    <3>2. \A x : (Constructing(x) => Constructing(x)') /\ (CreationQueued(x) => CreationQueued(x)')
      BY <2>1, <3>1, ConstructingFrames DEF CreationQueued
    <3>3. /\ \A x \in Obj : x # o => list'[x] = list[x]
          /\ list'[o] = IF list[o] > 0 THEN list[o] - 1 ELSE 0
          /\ \A x : Missed(x) => Missed(x)'
          /\ o \in valid /\ list'[o] = 0 => Missed(o)'
      BY <3>1, DestroyedEffect
    <3>4. \A x \in valid : list[x] > 0 => list'[x] > 0 \/ Missed(x)'
      <4> SUFFICES ASSUME NEW x \in valid, list[x] > 0 PROVE list'[x] > 0 \/ Missed(x)'
        OBVIOUS
      <4>1. CASE x # o
        BY <1>0, <3>3, <4>1
      <4>2. CASE x = o
        <5>1. list[o] \in Nat
          BY <1>0, <3>1
        <5>2. list'[o] \in Nat
          BY <3>3, <5>1
        <5>3. list'[o] = 0 \/ list'[o] > 0
          BY <5>2
        <5> QED
          BY <3>3, <4>2, <5>3
      <4> QED
        BY <4>1, <4>2
    <3> QED
      BY <2>1, <3>2, <3>3, <3>4, AccountedStep DEF Covered
  <2> QED
    BY <2>2, <2>3
<1>3. CASE ClearQueue
  <2> DEFINE A == {o \in valid \ RowsOf(list) : CreationQueued(o)}
  <2>1. UNCHANGED <<valid, list, calls>> /\ lost' = [lost EXCEPT !["dropped"] = @ \cup A]
    BY <1>3 DEF ClearQueue
  <2>2. lost'["dropped"] = lost["dropped"] \cup A /\ lost'["mistaken"] = lost["mistaken"]
    BY <1>0, <2>1 DEF Loss
  <2>3. \A x \in valid : CreationQueued(x) => list[x] > 0 \/ x \in A
    BY <1>0 DEF RowsOf
  <2> HIDE DEF A
  <2>4. \A x : Constructing(x) => Constructing(x)'
    BY <2>1, ConstructingFrames
  <2> QED
    BY <2>1, <2>2, <2>3, <2>4, AccountedStep DEF Covered, Missed
<1>4. CASE DrainReparent
  <2> DEFINE o == Head(todo).obj
  <2>1. o \in Obj /\ UNCHANGED calls
    BY <1>0, <1>4 DEF DrainReparent
  <2>2. \/ UNCHANGED <<valid, queue, list, lost>>
        \/ valid' = valid \ {o} /\ queue' = Purged(queue, o) /\ EmitDestroyed(o)
        \/ EmitReparented(o) /\ UNCHANGED <<valid, queue>>
    BY <1>4 DEF DrainReparent
  <2> HIDE DEF o
  <2>3. CASE UNCHANGED <<valid, queue, list, lost>>
    BY <2>1, <2>3, AccountedSame
  <2>4. CASE valid' = valid \ {o} /\ queue' = Purged(queue, o) /\ EmitDestroyed(o)
    BY <2>1, <2>4, GoneAccounted
  <2>5. CASE EmitReparented(o) /\ UNCHANGED <<valid, queue>>
    <3>1. /\ list' = list /\ lost'["dropped"] = lost["dropped"]
          /\ lost'["mistaken"] = lost["mistaken"]
      BY <1>0, <2>5 DEF EmitReparented, Loss
    <3> QED
      BY <2>1, <2>5, <3>1, AccountedSame
  <2> QED
    BY <2>2, <2>3, <2>4, <2>5
<1> QED
  BY <1>1, <1>2, <1>3, <1>4 DEF Drain

\* A call that returns or goes on: the reasons of all objects but the one it runs
\* for stay.
LEMMA CallsKeepAccounted ==
  ASSUME AliveInv, ModelsTyped, QueueTyped, Accounted, Calls
  PROVE  Accounted'
<1> USE DEF queueVars, modelVars
<1>0. /\ valid \subseteq Obj /\ list \in [Obj -> Nat] /\ lost \in [Loss -> SUBSET Obj]
      /\ queue \in Seq(ObjectChanges)
  BY DEF AliveInv, Types, ModelsTyped, QueueTyped
<1>1. calls # << >>
  BY DEF Calls, ObjectAdded, TrackObject, ObjectFullyConstructed, ToolInitReturns, ObjectCreated,
         DiscoverObject, DiscoverChildren, ChildRemoved, ChildAdded, ParentChange, Running
<1>a. Head(calls) \in CallFrames /\ Head(calls).obj \in Obj
  BY <1>1, HeadFrame, PopFrame DEF AliveInv, Types
<1> PICK h \in CallFrames : h = Head(calls)
  BY <1>a
<1> PICK o \in Obj : o = Head(calls).obj
  BY <1>a
<1>2. /\ o = h.obj /\ calls \in Seq(CallFrames)
      /\ Tail(calls) \in Seq(CallFrames)
      /\ FramesOf(calls) = {h} \cup FramesOf(Tail(calls))
  BY <1>1, HeadFrame, SplitFrames DEF AliveInv, Types
<1>3. /\ Call("objectFullyConstructed", o) \in CallFrames /\ Call("toolInit", o) \in CallFrames
      /\ Call("objectCreated", o) \in CallFrames /\ Call("objectAdded", o) \in CallFrames
      /\ Call("discoverChildren", o) \in CallFrames /\ CtorCall(o) \in CallFrames
  BY <1>2, NewFrames DEF Functions
<1>4. /\ Announces(Call("objectFullyConstructed", o), o) /\ Announces(Call("toolInit", o), o)
      /\ Announces(Call("objectCreated", o), o)
  BY DEF Announces, Announcing, Call
<1>5. \A x : Announces(h, x) => x = o /\ h.fn \in Announcing
  BY <1>2 DEF Announces
\* The frames below the running call stay, with the new one.
<1>6. ASSUME NEW f \in CallFrames,
             calls' = Tail(calls) \/ calls' = <<f>> \o Tail(calls) \/ calls' = <<f>> \o calls
      PROVE  /\ FramesOf(Tail(calls)) \subseteq FramesOf(calls')
             /\ calls' # Tail(calls) => f \in FramesOf(calls')
  <2>1. CASE calls' = Tail(calls)
    BY <2>1
  <2>2. CASE calls' = <<f>> \o Tail(calls)
    <3>1. FramesOf(calls') = {f} \cup FramesOf(Tail(calls))
      BY <1>2, <2>2, PushFrame
    <3> QED
      BY <3>1
  <2>3. CASE calls' = <<f>> \o calls
    <3>1. FramesOf(calls') = {f} \cup FramesOf(calls)
      BY <1>2, <2>3, PushFrame
    <3> QED
      BY <1>2, <3>1
  <2> QED
    BY <1>6, <2>1, <2>2, <2>3
<1>7. ASSUME NEW f \in CallFrames, NEW g \in CallFrames, calls' = <<f, g>> \o Tail(calls)
      PROVE  FramesOf(calls') = {f, g} \cup FramesOf(Tail(calls))
  <2>1. calls' = <<f>> \o (<<g>> \o Tail(calls))
    BY <1>2, <1>7, TwoFrames
  <2>2. /\ <<g>> \o Tail(calls) \in Seq(CallFrames)
        /\ FramesOf(<<g>> \o Tail(calls)) = {g} \cup FramesOf(Tail(calls))
    BY <1>2, PushFrame
  <2>3. FramesOf(calls') = {f} \cup FramesOf(<<g>> \o Tail(calls))
    BY <2>1, <2>2, PushFrame
  <2> QED
    BY <2>2, <2>3
\* A step that only calls: o stays accounted for, by itself or because it goes.
<1>8. ASSUME UNCHANGED <<list, queue>>, valid' \subseteq valid,
             FramesOf(Tail(calls)) \subseteq FramesOf(calls'),
             lost'["dropped"] = lost["dropped"] /\ lost'["mistaken"] = lost["mistaken"],
             o \in valid' /\ h.fn \in Announcing => \E f \in FramesOf(calls') : Announces(f, o)
      PROVE  Accounted'
  <2>1. ASSUME NEW x \in valid', Constructing(x) PROVE Constructing(x)'
    <3>1. PICK f \in FramesOf(calls) : Announces(f, x)
      BY <2>1, ConstructingFrames
    <3>2. CASE f = h
      BY <1>5, <1>8, <3>1, <3>2, ConstructingFrames
    <3>3. CASE f # h
      BY <1>2, <1>8, <3>1, <3>3, ConstructingFrames
    <3> QED
      BY <3>2, <3>3
  <2>2. \A x : CreationQueued(x) => CreationQueued(x)'
    BY <1>8 DEF CreationQueued
  <2> QED
    BY <1>8, <2>1, <2>2, AccountedStep DEF Covered, Missed
<1>15. CASE ObjectAdded
  <2> DEFINE t == RestFrame(h)
             p == ParentFrame(h)
  <2>1. /\ h.fn = "objectAdded" /\ UNCHANGED <<list, valid, queue, lost>>
        /\ t \in CallFrames
        /\ ParentUnknown(o) => p \in CallFrames
        /\ \/ calls' = Tail(calls) \/ calls' = <<t>> \o Tail(calls)
           \/ ParentUnknown(o) /\ calls' = <<p>> \o (<<t>> \o Tail(calls))
    BY <1>2, <1>15, AddedFrames DEF ObjectAdded, AliveInv
  <2> HIDE DEF t, p
  <2>2. FramesOf(Tail(calls)) \subseteq FramesOf(calls')
    <3>1. /\ <<t>> \o Tail(calls) \in Seq(CallFrames)
          /\ FramesOf(<<t>> \o Tail(calls)) = {t} \cup FramesOf(Tail(calls))
      BY <1>2, <2>1, PushFrame
    <3>2. CASE ParentUnknown(o) /\ calls' = <<p>> \o (<<t>> \o Tail(calls))
      <4>1. FramesOf(calls') = {p} \cup FramesOf(<<t>> \o Tail(calls))
        BY <2>1, <3>1, <3>2, PushFrame
      <4> QED
        BY <3>1, <4>1
    <3> QED
      BY <2>1, <3>1, <3>2
  <2> QED
    BY <1>8, <2>1, <2>2 DEF Announcing
<1>9. CASE TrackObject
  <2> DEFINE c == Call("objectFullyConstructed", o)
  <2>1. h.fn = "trackObject" /\ list' = list
    BY <1>9 DEF TrackObject, Running
  <2>2. \A x : Constructing(x) => \E f \in FramesOf(Tail(calls)) : Announces(f, x)
    BY <1>2, <1>5, <2>1, ConstructingFrames DEF Announcing
  <2>6. /\ valid' = valid \cup {o}
        /\ \/ lost' = Forget(o, lost) /\ o \notin valid
           \/ lost' = [lost EXCEPT !["repeated"] = @ \cup {o}] /\ o \in valid
        /\ \/ Enqueue("Create", o, caller) /\ calls' = Tail(calls)
           \/ calls' = <<c>> \o Tail(calls) /\ UNCHANGED queue
    BY <1>9 DEF TrackObject, Return, CallLast
  <2> QED
    <3>1. \A x \in valid : Missed(x) => Missed(x)'
      <4>1. CASE lost' = Forget(o, lost) /\ o \notin valid
        <5>1. /\ lost'["dropped"] = lost["dropped"] \ {o}
              /\ lost'["mistaken"] = lost["mistaken"] \ {o}
          BY <4>1 DEF Forget, Loss
        <5> QED
          BY <4>1, <5>1 DEF Missed
      <4>2. CASE lost' = [lost EXCEPT !["repeated"] = @ \cup {o}]
        <5>1. /\ lost'["dropped"] = lost["dropped"] /\ lost'["mistaken"] = lost["mistaken"]
          BY <1>0, <4>2 DEF Loss
        <5> QED
          BY <5>1 DEF Missed
      <4> QED
        BY <2>6, <4>1, <4>2
    <3>2. \A x : Constructing(x) => Constructing(x)'
      <4>1. FramesOf(Tail(calls)) \subseteq FramesOf(calls')
        BY <1>3, <1>6, <2>6
      <4> QED
        BY <2>2, <4>1, ConstructingFrames
    <3>3. queue' = queue \/ queue' = Append(queue, Change("Create", o))
      BY <2>6 DEF Enqueue
    <3>4. Change("Create", o) \in ObjectChanges
      BY <1>2 DEF Change, ObjectChanges, ChangeTypes
    <3>5. queue' \in Seq(ObjectChanges)
      <4>1. Append(queue, Change("Create", o)) \in Seq(ObjectChanges)
        BY <1>0, ChangesTyped DEF ChangeTypes
      <4> QED
        BY <1>0, <3>3, <4>1
    <3>6. \A x : CreationQueued(x) => CreationQueued(x)'
      BY <1>0, <3>3, <3>4, <3>5, CreationsKept DEF CreationQueued
    <3>7. CASE Enqueue("Create", o, caller)
      <4>1. queue' = Append(queue, Change("Create", o))
        BY <3>7 DEF Enqueue
      <4>2. Len(queue) + 1 \in DOMAIN queue' /\ queue'[Len(queue) + 1] = Change("Create", o)
        BY <1>0, <4>1
      <4>3. Covered(o)'
        BY <4>2 DEF Covered, CreationQueued
      <4> QED
        BY <2>1, <2>6, <3>1, <3>2, <3>6, <4>3, AccountedStep DEF Covered
    <3>8. CASE calls' = <<c>> \o Tail(calls) /\ UNCHANGED queue
      <4>1. FramesOf(calls') = {c} \cup FramesOf(Tail(calls))
        BY <1>2, <1>3, <3>8, PushFrame
      <4>2. Constructing(o)'
        BY <1>4, <4>1, ConstructingFrames
      <4> QED
        BY <2>1, <2>6, <3>1, <3>2, <3>6, <4>2, AccountedStep DEF Covered
    <3> QED
      BY <2>6, <3>7, <3>8
<1>10. CASE ObjectFullyConstructed
  <2> DEFINE t == Call("toolInit", o)
  <2>1. UNCHANGED <<list, queue, lost>> /\ valid' \subseteq valid
    BY <1>10 DEF ObjectFullyConstructed
  <2>2. \/ calls' = Tail(calls) /\ o \notin valid'
        \/ calls' = <<t>> \o Tail(calls)
        \/ \E a \in NearestUnknown(o) : calls' = <<Call("objectAdded", a), t>> \o Tail(calls)
    BY <1>10 DEF ObjectFullyConstructed, Return, CallLast
  <2>3. t \in CallFrames /\ Announces(t, o)
    BY <1>3, <1>4
  <2> HIDE DEF t
  <2>4. CASE calls' = Tail(calls) /\ o \notin valid'
    BY <1>8, <2>1, <2>4
  <2>5. CASE calls' = <<t>> \o Tail(calls)
    <3>1. FramesOf(calls') = {t} \cup FramesOf(Tail(calls))
      BY <1>2, <2>3, <2>5, PushFrame
    <3> QED
      BY <1>8, <2>1, <2>3, <3>1
  <2>6. CASE \E a \in NearestUnknown(o) : calls' = <<Call("objectAdded", a), t>> \o Tail(calls)
    <3>1. PICK a \in NearestUnknown(o) : calls' = <<Call("objectAdded", a), t>> \o Tail(calls)
      BY <2>6
    <3> DEFINE u == Call("objectAdded", a)
    <3>2. a \in Obj
      BY DEF NearestUnknown, UnknownAncestors, SelfAndAncestors, Climb
    <3>3. u \in CallFrames
      BY <3>2, NewFrames DEF Functions
    <3> HIDE DEF u
    <3>4. FramesOf(calls') = {u, t} \cup FramesOf(Tail(calls))
      BY <1>7, <2>3, <3>1, <3>3 DEF u
    <3> QED
      BY <1>8, <2>1, <2>3, <3>4
  <2> QED
    BY <2>2, <2>4, <2>5, <2>6
<1>11. CASE ToolInitReturns
  <2> DEFINE t == Call("objectCreated", o)
  <2>1. UNCHANGED <<valid, list, queue, lost>> /\ calls' = <<t>> \o Tail(calls)
    BY <1>11 DEF ToolInitReturns, CallLast
  <2>2. t \in CallFrames /\ Announces(t, o)
    BY <1>3, <1>4
  <2> HIDE DEF t
  <2>3. FramesOf(calls') = {t} \cup FramesOf(Tail(calls))
    BY <1>2, <2>1, <2>2, PushFrame
  <2> QED
    BY <1>8, <2>1, <2>2, <2>3
<1>12. CASE ObjectCreated
  <2>1. /\ UNCHANGED <<valid, queue>> /\ calls' = Tail(calls)
        /\ list' = RowAdded(list, o)
        /\ lost'["dropped"] = lost["dropped"] /\ lost'["mistaken"] = lost["mistaken"]
    BY <1>0, <1>12 DEF ObjectCreated, Return, EmitCreated, Loss
  <2>2. list'[o] > 0 /\ \A x \in Obj : list[x] > 0 => list'[x] > 0
    BY <1>0, <1>2, <2>1 DEF RowAdded
  <2>3. \A x : Constructing(x) => Constructing(x)' \/ x = o
    BY <1>2, <1>5, <2>1, ConstructingFrames
  <2>4. \A x : (CreationQueued(x) => CreationQueued(x)') /\ (Missed(x) => Missed(x)')
    BY <2>1 DEF CreationQueued, Missed
  <2> QED
    BY <1>0, <2>1, <2>2, <2>3, <2>4, AccountedStep DEF Covered
<1>13. CASE DiscoverObject \/ DiscoverChildren
  <2>1. UNCHANGED <<valid, list, queue, lost>> /\ h.fn \notin Announcing
    BY <1>13 DEF DiscoverObject, DiscoverChildren, Running, Announcing
  <2>2. FramesOf(Tail(calls)) \subseteq FramesOf(calls')
    <3>1. CASE calls' = Tail(calls)
      BY <3>1
    <3>2. CASE calls' = <<Call("objectAdded", o), Call("discoverChildren", o)>> \o Tail(calls)
      BY <1>3, <1>7, <3>2
    <3>3. CASE \E c \in Undiscovered(ChildrenOf(parent, o)) :
                 calls' = <<Call("discoverObject", c)>> \o calls
      <4>1. PICK c \in Undiscovered(ChildrenOf(parent, o)) :
                 calls' = <<Call("discoverObject", c)>> \o calls
        BY <3>3
      <4>2. Call("discoverObject", c) \in CallFrames
        BY NewFrames DEF Undiscovered, ChildrenOf, Functions
      <4> QED
        BY <1>6, <4>1, <4>2
    <3> QED
      BY <1>13, <3>1, <3>2, <3>3 DEF DiscoverObject, DiscoverChildren, Return, CallFirst
  <2> QED
    BY <1>8, <2>1, <2>2
<1>14. CASE ChildRemoved \/ ChildAdded \/ ParentChange
  <2>1. UNCHANGED <<valid, list, queue>> /\ h.fn \notin Announcing
    BY <1>14 DEF ChildRemoved, ChildAdded, ParentChange, DeferReparent, ReportReparent,
                 IgnoreEvent, EmitReparented, Running, Announcing
  <2>2. lost'["dropped"] = lost["dropped"] /\ lost'["mistaken"] = lost["mistaken"]
    <3>1. \/ lost' = lost \/ DeferReparent(o) \/ ReportReparent(o) \/ IgnoreEvent(o)
      BY <1>14 DEF ChildRemoved, ChildAdded, ParentChange
    <3> QED
      BY <1>0, <3>1 DEF DeferReparent, ReportReparent, IgnoreEvent, EmitReparented, Loss
  <2>3. calls' = Tail(calls) \/ calls' = <<CtorCall(o)>> \o Tail(calls)
    BY <1>14 DEF ChildRemoved, ChildAdded, ParentChange, Return, CallLast
  <2>4. FramesOf(Tail(calls)) \subseteq FramesOf(calls')
    BY <1>3, <1>6, <2>3
  <2> QED
    BY <1>8, <2>1, <2>2, <2>4
<1> QED
  BY <1>9, <1>10, <1>11, <1>12, <1>13, <1>14, <1>15 DEF Calls

\* Every step keeps it.
LEMMA AccountedKept == Inv /\ RestTyped /\ Accounted /\ [Next]_vars => Accounted'
<1> SUFFICES ASSUME Inv, RestTyped, Accounted, [Next]_vars PROVE Accounted'
  OBVIOUS
<1>1. AliveInv /\ Types /\ QueueTyped /\ ModelsTyped /\ LoopTyped
  BY DEF Inv, AliveInv, QueueInv, RestTyped
<1>2. CASE UNCHANGED vars
  <2>1. UNCHANGED <<valid, list, queue, lost, calls>>
    BY <1>2 DEF vars, queueVars, callVars, modelVars
  <2> QED
    BY <2>1, AccountedSame
<1> QED
  BY <1>1, <1>2, TargetKeepsAccounted, StartUpKeepsAccounted, DrainKeepsAccounted,
     CallsKeepAccounted DEF Next

\* Every tracked object has a row, or its creation is queued or being announced, or
\* one of two known losses explains why it has none.
THEOREM AccountedAlways == Spec => []Accounted
<1>1. Init => Accounted
  BY DEF Init, Accounted
<1> QED
  BY <1>1, RestInit, RestStep, AccountedKept, Invariance, PTL DEF Spec

-----------------------------------------------------------------------------
(***************************************************************************)
(* What is above an object.                                                *)
(***************************************************************************)

\* The least set that holds an object and is closed under parents.
LEMMA AncestorsLeast ==
  ASSUME NEW par, NEW o \in Obj, NEW S \in SUBSET Obj, o \in S,
         \A y \in S : par[y] \in S \cup {Null}
  PROVE  SelfAndAncestors(par, o) \subseteq S
<1>1. \A y \in S : par[y] \in S \cup {} \cup {Null}
  OBVIOUS
<1> QED
  BY <1>1 DEF SelfAndAncestors, Climb

\* An object is among them, and so is the parent of each.
LEMMA AncestorsClosed ==
  ASSUME NEW par \in [Obj -> ObjOrNull], NEW o \in Obj
  PROVE  /\ SelfAndAncestors(par, o) \subseteq Obj /\ o \in SelfAndAncestors(par, o)
         /\ \A y \in SelfAndAncestors(par, o) : par[y] \in SelfAndAncestors(par, o) \cup {Null}
<1>1. SelfAndAncestors(par, o) \subseteq Obj /\ o \in SelfAndAncestors(par, o)
  BY DEF SelfAndAncestors, Climb
<1>2. ASSUME NEW y \in SelfAndAncestors(par, o), par[y] # Null
      PROVE  par[y] \in SelfAndAncestors(par, o)
  <2>1. par[y] \in Obj
    BY <1>1, <1>2 DEF ObjOrNull
  <2>2. ASSUME NEW S \in SUBSET Obj, o \in S, \A z \in S : par[z] \in S \cup {} \cup {Null}
        PROVE  par[y] \in S
    <3>1. y \in S
      BY <2>2 DEF SelfAndAncestors, Climb
    <3> QED
      BY <1>2, <2>2, <3>1
  <2> QED
    BY <2>1, <2>2 DEF SelfAndAncestors, Climb
<1> QED
  BY <1>1, <1>2

\* What is above an ancestor is above the object.
LEMMA AncestorsOfAncestor ==
  ASSUME NEW par \in [Obj -> ObjOrNull], NEW o \in Obj, NEW a \in SelfAndAncestors(par, o)
  PROVE  a \in Obj /\ SelfAndAncestors(par, a) \subseteq SelfAndAncestors(par, o)
<1>1. a \in Obj
  BY AncestorsClosed
<1> DEFINE S == SelfAndAncestors(par, o)
<1>2. S \in SUBSET Obj /\ a \in S /\ \A y \in S : par[y] \in S \cup {Null}
  BY AncestorsClosed
<1> HIDE DEF S
<1>3. SelfAndAncestors(par, a) \subseteq S
  BY <1>1, <1>2, AncestorsLeast
<1> QED
  BY <1>1, <1>3 DEF S

\* Above an object are the object, and what is above its parent.
LEMMA AncestorsOfParent ==
  ASSUME NEW par \in [Obj -> ObjOrNull], NEW o \in Obj
  PROVE  /\ par[o] = Null => SelfAndAncestors(par, o) = {o}
         /\ par[o] # Null =>
              SelfAndAncestors(par, o) = {o} \cup SelfAndAncestors(par, par[o])
<1>1. CASE par[o] = Null
  <2> DEFINE S == {o}
  <2>1. S \in SUBSET Obj /\ o \in S /\ \A y \in S : par[y] \in S \cup {Null}
    BY <1>1
  <2> HIDE DEF S
  <2>2. SelfAndAncestors(par, o) \subseteq S
    BY <2>1, AncestorsLeast
  <2> QED
    BY <1>1, <2>2, AncestorsClosed DEF S
<1>2. CASE par[o] # Null
  <2>1. par[o] \in Obj
    BY <1>2 DEF ObjOrNull
  <2> DEFINE A == SelfAndAncestors(par, par[o])
             S == {o} \cup A
  <2>2. A \subseteq Obj /\ par[o] \in A /\ \A y \in A : par[y] \in A \cup {Null}
    BY <2>1, AncestorsClosed
  <2> HIDE DEF A
  <2>3. S \in SUBSET Obj /\ o \in S /\ \A y \in S : par[y] \in S \cup {Null}
    BY <2>2
  <2> HIDE DEF S
  <2>4. SelfAndAncestors(par, o) \subseteq S
    BY <2>3, AncestorsLeast
  <2>5. par[o] \in SelfAndAncestors(par, o) /\ o \in SelfAndAncestors(par, o)
    BY <1>2, AncestorsClosed
  <2>6. A \subseteq SelfAndAncestors(par, o)
    BY <2>5, AncestorsOfAncestor DEF A
  <2> QED
    BY <1>2, <2>4, <2>5, <2>6 DEF S, A
<1> QED
  BY <1>1, <1>2

\* A change of parents below or beside an object leaves what is above it.
LEMMA AncestorsKept ==
  ASSUME NEW par \in [Obj -> ObjOrNull], NEW new, NEW x \in Obj,
         \A y \in SelfAndAncestors(par, x) : new[y] = par[y]
  PROVE  SelfAndAncestors(new, x) \subseteq SelfAndAncestors(par, x)
<1> DEFINE S == SelfAndAncestors(par, x)
<1>1. S \in SUBSET Obj /\ x \in S /\ \A y \in S : new[y] \in S \cup {Null}
  BY AncestorsClosed
<1> HIDE DEF S
<1>2. SelfAndAncestors(new, x) \subseteq S
  BY <1>1, AncestorsLeast
<1> QED
  BY <1>2 DEF S

\* An object without children is above itself only.
LEMMA ChildlessAncestors ==
  ASSUME NEW par \in [Obj -> ObjOrNull], NEW o \in Obj, \A y \in Obj : par[y] # o,
         NEW new, \A y \in Obj : y # o => new[y] = par[y],
         NEW x \in Obj, x # o
  PROVE  /\ o \notin SelfAndAncestors(par, x)
         /\ SelfAndAncestors(new, x) \subseteq SelfAndAncestors(par, x)
<1> DEFINE S == Obj \ {o}
<1>1. S \in SUBSET Obj /\ x \in S /\ \A y \in S : par[y] \in S \cup {Null}
  BY DEF ObjOrNull
<1> HIDE DEF S
<1>2. SelfAndAncestors(par, x) \subseteq S
  BY <1>1, AncestorsLeast
<1>3. o \notin SelfAndAncestors(par, x)
  BY <1>2 DEF S
<1>4. \A y \in SelfAndAncestors(par, x) : new[y] = par[y]
  BY <1>3, AncestorsClosed
<1> QED
  BY <1>3, <1>4, AncestorsKept

-----------------------------------------------------------------------------
(***************************************************************************)
(* Calls on the stack, counted.                                            *)
(***************************************************************************)

\* The number of announcements of an object is a number, positive if there is one.
LEMMA CallsTyped ==
  ASSUME NEW s \in Seq(CallFrames), NEW o
  PROVE  /\ CallsFor(s, o) \in Nat
         /\ CallsFor(s, o) > 0 <=> \E f \in FramesOf(s) : Announces(f, o)
         /\ s = << >> => CallsFor(s, o) = 0
<1>1. IsFiniteSet(1..Len(s))
  BY FS_Interval
<1>2. Calling(s, o) \in SUBSET (1..Len(s))
  BY DEF Calling
<1>3. IsFiniteSet(Calling(s, o))
  BY <1>1, <1>2, FS_Subset
<1>4. CallsFor(s, o) \in Nat
  BY <1>3, FS_CardinalityType DEF CallsFor
<1>5. CallsFor(s, o) = 0 <=> Calling(s, o) = {}
  BY <1>3, FS_EmptySet DEF CallsFor
<1>6. Calling(s, o) # {} <=> \E f \in FramesOf(s) : Announces(f, o)
  BY DEF Calling, FramesOf
<1>7. s = << >> => Calling(s, o) = {}
  BY DEF Calling
<1> QED
  BY <1>4, <1>5, <1>6, <1>7

\* The first call is one less when it returns ...
LEMMA CallsPop ==
  ASSUME NEW s \in Seq(CallFrames), s # << >>, NEW o
  PROVE  /\ CallsFor(s, o) \in Nat /\ CallsFor(Tail(s), o) \in Nat
         /\ CallsFor(s, o) = CallsFor(Tail(s), o) + One(Announces(Head(s), o))
<1> DEFINE n == Len(s)
           t == Tail(s)
           A == Calling(s, o)
           B == Calling(t, o)
<1>1. /\ n \in Nat /\ DOMAIN s = 1..n /\ DOMAIN t = 1..(n - 1) /\ 1 \in 1..n
      /\ Head(s) = s[1] /\ \A i \in 1..(n - 1) : t[i] = s[i + 1] /\ i + 1 \in 1..n
  OBVIOUS
<1> HIDE DEF n, t
<1>2. A \in SUBSET (1..n) /\ B \in SUBSET (1..(n - 1))
  BY <1>1 DEF Calling
<1>3. \A i \in 1..(n - 1) : i \in B <=> i + 1 \in A
  BY <1>1 DEF Calling
<1>4. 1 \in A <=> Announces(Head(s), o)
  BY <1>1 DEF Calling
<1> HIDE DEF A, B
<1>5. \A i \in 1..(n - 1) : i \in B <=> (IF i < 1 THEN i ELSE i + 1) \in A
  BY <1>1, <1>3
<1>6. /\ Cardinality(A) \in Nat /\ Cardinality(B) \in Nat
      /\ Cardinality(A) = Cardinality(B) + One(1 \in A)
  <2> PICK k \in 1..n : k = 1
    BY <1>1
  <2>1. n \in Nat /\ \A i \in 1..(n - 1) : i \in B <=> (IF i < k THEN i ELSE i + 1) \in A
    BY <1>1, <1>5
  <2>2. /\ Cardinality(A) \in Nat /\ Cardinality(B) \in Nat
        /\ Cardinality(A) = Cardinality(B) + One(k \in A)
    BY <1>2, <2>1, ShiftCount
  <2> QED
    BY <2>2
<1>7. One(1 \in A) = One(Announces(Head(s), o))
  BY <1>4 DEF One
<1> QED
  BY <1>6, <1>7 DEF A, B, t, CallsFor

\* ... and one more when it is made.
LEMMA CallsPush ==
  ASSUME NEW s \in Seq(CallFrames), NEW f \in CallFrames, NEW o
  PROVE  /\ CallsFor(s, o) \in Nat
         /\ CallsFor(<<f>> \o s, o) = CallsFor(s, o) + One(Announces(f, o))
<1> DEFINE t == <<f>> \o s
<1>1. t \in Seq(CallFrames) /\ t # << >> /\ Head(t) = f
  OBVIOUS
<1>2. Tail(t) = s
  <2> DEFINE u == Tail(t)
  <2>1. u \in Seq(CallFrames) /\ Len(u) = Len(s) /\ \A i \in 1..Len(u) : u[i] = s[i]
    OBVIOUS
  <2> HIDE DEF u, t
  <2>2. u = s
    BY <2>1, SeqEqual
  <2> QED
    BY <2>2 DEF u
<1> HIDE DEF t
<1>3. /\ CallsFor(t, o) = CallsFor(Tail(t), o) + One(Announces(Head(t), o))
      /\ CallsFor(Tail(t), o) \in Nat
  BY <1>1, CallsPop
<1> QED
  BY <1>1, <1>2, <1>3 DEF t

-----------------------------------------------------------------------------
(***************************************************************************)
(* Threads.  A parent lives in the thread of its children, and the objects *)
(* of worker threads are the target's.                                     *)
(***************************************************************************)

SameHome   == \A o \in Obj : parent[o] # Null => home[parent[o]] = home[o]
WorkerHome == \A o \in Obj : home[o] = "worker" => o \in WorkerObj

HomeInv == SameHome /\ WorkerHome

\* No object exists initially.
LEMMA HomeInit == Init => HomeInv
  BY DEF Init, HomeInv, SameHome, WorkerHome

\* An object is constructed and moved below objects of its thread.
LEMMA TargetKeepsHome ==
  ASSUME AliveInv, HomeInv, Target \/ Constructors
  PROVE  HomeInv'
<1> USE DEF HomeInv, heapVars
<1>0. /\ heap \in [Obj -> {"free", "base"} \cup Alive] /\ home \in [Obj -> Thread]
      /\ parent \in [Obj -> ObjOrNull]
      /\ \A x \in Obj : parent[x] # Null => parent[x] \in Obj /\ heap[parent[x]] \in Alive
  BY DEF AliveInv, Types, ParentsAlive, ObjOrNull
<1>1. ASSUME NEW o \in Obj, NEW p \in ObjOrNull, NEW t \in Thread, NEW s, Occupy(o, p, t, s),
             t = "worker" => o \in WorkerObj
      PROVE  HomeInv'
  <2>1. /\ heap[o] = "free" /\ "free" \notin Alive
        /\ parent' = [parent EXCEPT ![o] = p] /\ home' = [home EXCEPT ![o] = t]
        /\ p # Null => p \in Obj /\ p # o /\ home[p] = t
    BY <1>1 DEF Occupy, Usable, Alive, ObjOrNull
  <2>2. WorkerHome'
    BY <1>0, <1>1, <2>1 DEF WorkerHome
  <2>3. ASSUME NEW x \in Obj, parent'[x] # Null PROVE home'[parent'[x]] = home'[x]
    <3>1. CASE x = o
      BY <1>0, <2>1, <2>3, <3>1
    <3>2. CASE x # o
      <4>1. parent'[x] = parent[x] /\ parent[x] # o
        BY <1>0, <2>1, <2>3, <3>2
      <4> QED
        BY <1>0, <2>1, <2>3, <3>2, <4>1 DEF SameHome
    <3> QED
      BY <3>1, <3>2
  <2> QED
    BY <2>2, <2>3 DEF SameHome
<1>2. ASSUME NEW o \in Obj, NEW p \in ObjOrNull, NEW guarded \in BOOLEAN, Construct(o, p, guarded)
      PROVE  HomeInv'
  <2>1. \E s : Occupy(o, p, "main", s)
    BY <1>2 DEF Construct
  <2> QED
    BY <1>1, <2>1 DEF Thread
<1>3. ASSUME NEW o \in Obj, NEW p \in ObjOrNull, ConstructInWorker(o, p)
      PROVE  HomeInv'
  BY <1>1, <1>3 DEF ConstructInWorker, Thread
<1>4. ASSUME NEW o \in Obj, HookInWorker(o) \/ FinishConstructor(o) \/ ReceiveEvent(o)
      PROVE  HomeInv'
  BY <1>4 DEF HookInWorker, FinishConstructor, ReceiveEvent, SameHome, WorkerHome
<1>5. ASSUME NEW o \in Obj, NEW p \in ObjOrNull, NEW widget \in BOOLEAN, SetParent(o, p, widget)
      PROVE  HomeInv'
  <2>1. /\ parent' = [parent EXCEPT ![o] = p] /\ home' = home
        /\ p # Null => home[p] = home[o]
    BY <1>5 DEF SetParent, Usable
  <2> QED
    BY <1>0, <2>1 DEF SameHome, WorkerHome
<1>6. ASSUME NEW o \in Obj, Destroy(o)
      PROVE  HomeInv'
  <2>1. /\ parent' = [parent EXCEPT ![o] = Null] /\ home' = [home EXCEPT ![o] = "main"]
        /\ \A x \in Obj : parent[x] # o
    BY <1>6 DEF Destroy, ChildrenOf
  <2> QED
    BY <1>0, <2>1 DEF SameHome, WorkerHome
<1> QED
  BY <1>2, <1>3, <1>4, <1>5, <1>6 DEF Target, Constructors

\* Every step keeps it.
LEMMA HomeKept == Inv /\ HomeInv /\ [Next]_vars => HomeInv'
<1> SUFFICES ASSUME Inv, HomeInv, [Next]_vars PROVE HomeInv'
  OBVIOUS
<1>1. AliveInv
  BY DEF Inv
<1>2. CASE StartUp \/ Drain \/ Calls \/ UNCHANGED vars
  <2>1. UNCHANGED <<parent, home>>
    BY <1>2 DEF StartUp, InstallHooks, CreateProbe, AddNext, AddedAll, FindNext, DelayedInit,
                Drain, DeliverStart, TimerFires, StartDrain, DrainChange, ClearQueue,
                DrainReparent, FinishDrain,
                Calls, ObjectAdded, TrackObject, ObjectFullyConstructed, ToolInitReturns, ObjectCreated,
                DiscoverObject, DiscoverChildren, ChildRemoved, ChildAdded, ParentChange,
                heapVars, vars
  <2> QED
    BY <2>1 DEF HomeInv, SameHome, WorkerHome
<1> QED
  BY <1>1, <1>2, TargetKeepsHome DEF Next

\* Whatever is above an object lives in its thread.
LEMMA AncestorsHome ==
  ASSUME NEW par \in [Obj -> ObjOrNull], NEW hm,
         \A y \in Obj : par[y] # Null => hm[par[y]] = hm[y],
         NEW x \in Obj
  PROVE  \A y \in SelfAndAncestors(par, x) : hm[y] = hm[x]
<1> DEFINE S == {y \in Obj : hm[y] = hm[x]}
<1>1. S \in SUBSET Obj /\ x \in S
  OBVIOUS
<1>2. \A y \in S : par[y] \in S \cup {Null}
  BY DEF ObjOrNull
<1>3. \A y \in S : hm[y] = hm[x]
  OBVIOUS
<1> HIDE DEF S
<1>4. SelfAndAncestors(par, x) \subseteq S
  BY <1>1, <1>2, AncestorsLeast
<1> QED
  BY <1>3, <1>4

-----------------------------------------------------------------------------
(***************************************************************************)
(* What the steps of the running call do to the stack, the tracked objects *)
(* and the rows.                                                           *)
(***************************************************************************)

\* The objects objectAdded() never announced while they were known already.
Once == Obj \ lost["repeated"]

\* None of them was before: the history forgets no object.
LEMMA OnceShrinks ==
  ASSUME ModelsTyped, [Next]_vars
  PROVE  Once' \subseteq Once
<1> USE DEF modelVars
<1> DEFINE R == lost["repeated"]
<1>1. lost \in [Loss -> SUBSET Obj] /\ "repeated" \in Loss
  BY DEF ModelsTyped, Loss
<1>2. ASSUME NEW c \in Loss \ {"repeated"}, NEW V, lost' = [lost EXCEPT ![c] = V]
      PROVE  R' = R
  BY <1>1, <1>2
<1>3. ASSUME NEW o, EmitCreated(o) \/ EmitDestroyed(o) \/ EmitReparented(o)
      PROVE  R' = R
  BY <1>1, <1>3 DEF EmitCreated, EmitDestroyed, EmitReparented
<1>4. ASSUME NEW o, DeferReparent(o) \/ ReportReparent(o) \/ IgnoreEvent(o)
      PROVE  R' = R
  BY <1>1, <1>3, <1>4 DEF DeferReparent, ReportReparent, IgnoreEvent
<1>5. CASE UNCHANGED lost
  BY <1>5 DEF Once
<1>6. CASE Target \/ Constructors
  <2>1. ASSUME NEW o \in Obj, NEW p \in ObjOrNull, NEW flag \in BOOLEAN,
               Construct(o, p, flag) \/ ConstructInWorker(o, p) \/ SetParent(o, p, flag)
        PROVE  R' = R
    BY <1>1, <2>1 DEF Construct, ConstructInWorker, SetParent
  <2>2. ASSUME NEW o \in Obj,
               Destroy(o) \/ ReceiveEvent(o) \/ HookInWorker(o) \/ FinishConstructor(o)
        PROVE  R' = R
    BY <1>3, <2>2 DEF Destroy, ObjectRemoved, RemovedBefore, RemovedHere, RemovedElsewhere,
                      ReceiveEvent, HookInWorker, FinishConstructor
  <2> QED
    BY <1>6, <2>1, <2>2 DEF Target, Constructors, Once
<1>7. CASE StartUp
  BY <1>7 DEF StartUp, InstallHooks, CreateProbe, AddNext, AddedAll, FindNext, DelayedInit, Once
<1>8. CASE Drain
  <2>1. R' = R
    BY <1>1, <1>3, <1>8 DEF Drain, DeliverStart, TimerFires, StartDrain, DrainChange, ClearQueue,
                            DrainReparent, FinishDrain
  <2> QED
    BY <2>1 DEF Once
<1>9. CASE Calls
  <2> DEFINE o == Head(calls).obj
  <2>1. CASE TrackObject
    <3>1. lost' = Forget(o, lost) \/ lost' = [lost EXCEPT !["repeated"] = @ \cup {o}]
      BY <2>1 DEF TrackObject
    <3>2. R \subseteq R'
      BY <1>1, <3>1 DEF Forget
    <3> QED
      BY <3>2 DEF Once
  <2>2. CASE ~TrackObject
    <3>1. UNCHANGED lost \/ EmitCreated(o) \/ DeferReparent(o) \/ ReportReparent(o) \/ IgnoreEvent(o)
      BY <1>9, <2>2 DEF Calls, ObjectAdded, ObjectFullyConstructed, ToolInitReturns, ObjectCreated,
                        DiscoverObject, DiscoverChildren, ChildRemoved, ChildAdded, ParentChange
    <3>2. R' = R
      BY <1>3, <1>4, <3>1
    <3> QED
      BY <3>2 DEF Once
  <2> QED
    BY <2>1, <2>2
<1> QED
  BY <1>5, <1>6, <1>7, <1>8, <1>9 DEF Next, vars

\* The calls the running one returns to.
Below(s) == IF s = << >> THEN {} ELSE FramesOf(Tail(s))

Continues(o, g) ==
  calls' = <<Call(g, o)>> \o Tail(calls) /\ UNCHANGED <<valid, list, queue>>

\* objectAdded() returns, or goes on to the object, or to its parent first.
AddedMove(o) ==
  /\ Head(calls).fn = "objectAdded" /\ UNCHANGED <<valid, list, queue>>
  /\ \/ calls' = Tail(calls) /\ (Instance => FilterObject(o) \/ o \in valid)
     \/ /\ ~FilterObject(o) /\ o \notin valid
        /\ \/ /\ parent[o] \in valid \cup {Null}
              /\ calls' = <<RestFrame(Head(calls))>> \o Tail(calls)
           \/ /\ parent[o] \in Obj
              /\ calls' = <<ParentFrame(Head(calls))>> \o (<<RestFrame(Head(calls))>> \o Tail(calls))

\* The rest of it tracks o, known by then or not, and queues its creation or goes on to
\* announce it.
TrackMove(o) ==
  /\ Head(calls).fn = "trackObject" /\ valid' = valid \cup {o} /\ list' = list
  /\ o \in valid => o \notin Once'
  /\ \/ calls' = Tail(calls) /\ queue' = Append(queue, Change("Create", o))
     \/ /\ ~Head(calls).fromCtor /\ UNCHANGED queue
        /\ calls' = <<Call("objectFullyConstructed", o)>> \o Tail(calls)

FullyMove(o) ==
  /\ Head(calls).fn = "objectFullyConstructed" /\ UNCHANGED <<list, queue>>
  /\ \/ calls' = Tail(calls) /\ valid' = valid \ {o}
     \/ o \in valid /\ Continues(o, "toolInit")
     \/ /\ o \in valid /\ UNCHANGED valid
        /\ \E a \in SelfAndAncestors(parent, o) :
             calls' = <<Call("objectAdded", a), Call("toolInit", o)>> \o Tail(calls)

CreatedMove(o) ==
  /\ Head(calls).fn = "objectCreated" /\ calls' = Tail(calls)
  /\ list' = RowAdded(list, o) /\ UNCHANGED <<valid, queue>>

\* What runs outside a drain of the creations only.
OutsideMove(o) ==
  /\ Head(calls).fn \notin {"objectAdded", "trackObject"} \cup Announcing
  /\ UNCHANGED <<valid, list, queue>>
  /\ \/ calls' = Tail(calls)
     \/ calls' = <<CtorCall(o)>> \o Tail(calls)
     \/ \E c \in Obj : calls' = <<Call("discoverObject", c)>> \o calls
     \/ calls' = <<Call("objectAdded", o), Call("discoverChildren", o)>> \o Tail(calls)

\* Every step of the running call is one of these.
LEMMA CallMoves ==
  ASSUME AliveInv, ModelsTyped, Calls, NEW o \in Obj, o = Head(calls).obj
  PROVE  /\ calls # << >> /\ UNCHANGED <<parent, stage, todo>>
         /\ \/ AddedMove(o) \/ TrackMove(o) \/ FullyMove(o) \/ CreatedMove(o) \/ OutsideMove(o)
            \/ Head(calls).fn = "toolInit" /\ Continues(o, "objectCreated")
<1> USE DEF heapVars, loopVars, queueVars, modelVars
<1>1. calls # << >> /\ UNCHANGED <<parent, stage, todo>>
  BY DEF Calls, ObjectAdded, TrackObject, ObjectFullyConstructed, ToolInitReturns, ObjectCreated,
         DiscoverObject, DiscoverChildren, ChildRemoved, ChildAdded, ParentChange, Running
<1>2. CASE ObjectAdded
  <2> PICK h : h = Head(calls)
    OBVIOUS
  <2>1. Head(calls).fn = "objectAdded" /\ UNCHANGED <<valid, list, queue>>
    BY <1>2 DEF ObjectAdded, Running
  <2>2. \/ calls' = Tail(calls)
        \/ /\ ~FilterObject(o) /\ o \notin valid
           /\ \/ ~ParentUnknown(o) /\ calls' = <<RestFrame(h)>> \o Tail(calls)
              \/ /\ ParentUnknown(o) /\ parent[o] \in Obj
                 /\ calls' = <<ParentFrame(h)>> \o (<<RestFrame(h)>> \o Tail(calls))
    BY <1>2, AddedFrames DEF AliveInv
  <2>3. (Instance => FilterObject(o) \/ o \in valid) \/ (~FilterObject(o) /\ o \notin valid)
    OBVIOUS
  <2>4. ~ParentUnknown(o) => parent[o] \in valid \cup {Null}
    BY DEF ParentUnknown
  <2>5. Instance /\ ~FilterObject(o) /\ o \notin valid =>
           \/ ~ParentUnknown(o) /\ calls' = <<RestFrame(h)>> \o Tail(calls)
           \/ /\ ParentUnknown(o) /\ parent[o] \in Obj
              /\ calls' = <<ParentFrame(h)>> \o (<<RestFrame(h)>> \o Tail(calls))
    <3>1. ASSUME Instance, ~FilterObject(o), o \notin valid
          PROVE  \/ ~ParentUnknown(o) /\ calls' = <<RestFrame(h)>> \o Tail(calls)
                 \/ ParentUnknown(o) /\ calls' = <<ParentFrame(h), RestFrame(h)>> \o Tail(calls)
      BY <1>2, <3>1 DEF ObjectAdded, CallLast, RestFrame, ParentFrame
    <3>2. ParentUnknown(o) =>
            /\ parent[o] \in Obj /\ ParentFrame(h) \in CallFrames /\ RestFrame(h) \in CallFrames
            /\ Tail(calls) \in Seq(CallFrames)
      BY <1>2, AddedFrames DEF AliveInv
    <3>3. ParentUnknown(o) => <<ParentFrame(h), RestFrame(h)>> \o Tail(calls)
                                = <<ParentFrame(h)>> \o (<<RestFrame(h)>> \o Tail(calls))
      BY <3>2, TwoFrames
    <3> QED
      BY <3>1, <3>2, <3>3
  <2> QED
    BY <1>1, <2>1, <2>2, <2>4, <2>5 DEF AddedMove
<1>a. CASE TrackObject
  <2>1. /\ Head(calls).fn = "trackObject" /\ valid' = valid \cup {o} /\ list' = list
        /\ o \in valid => lost' = [lost EXCEPT !["repeated"] = @ \cup {o}]
        /\ \/ calls' = Tail(calls) /\ queue' = Append(queue, Change("Create", o))
           \/ /\ ~Head(calls).fromCtor /\ UNCHANGED queue
              /\ calls' = <<Call("objectFullyConstructed", o)>> \o Tail(calls)
    BY <1>a DEF TrackObject, Running, Return, CallLast, Enqueue
  <2>2. o \in valid => o \notin Once'
    BY <2>1 DEF ModelsTyped, Loss, Once
  <2> QED
    BY <1>1, <2>1, <2>2 DEF TrackMove
<1>3. CASE ObjectFullyConstructed
  <2>1. Head(calls).fn = "objectFullyConstructed" /\ UNCHANGED <<list, queue>>
    BY <1>3 DEF ObjectFullyConstructed, Running
  <2>2. \/ calls' = Tail(calls) /\ valid' = valid \ {o}
        \/ o \in valid /\ UNCHANGED valid /\ calls' = <<Call("toolInit", o)>> \o Tail(calls)
        \/ /\ o \in valid /\ UNCHANGED valid
           /\ \E a \in NearestUnknown(o) :
                calls' = <<Call("objectAdded", a), Call("toolInit", o)>> \o Tail(calls)
    BY <1>3 DEF ObjectFullyConstructed, Return, CallLast
  <2>3. NearestUnknown(o) \subseteq SelfAndAncestors(parent, o)
    BY DEF NearestUnknown, UnknownAncestors
  <2> QED
    BY <1>1, <2>1, <2>2, <2>3 DEF FullyMove, Continues
<1>4. CASE ToolInitReturns
  BY <1>1, <1>4 DEF ToolInitReturns, Running, CallLast, Continues
<1>5. CASE ObjectCreated
  BY <1>1, <1>5 DEF ObjectCreated, Running, Return, EmitCreated, CreatedMove
<1>6. CASE DiscoverObject \/ DiscoverChildren
  <2>1. /\ Head(calls).fn \notin {"objectAdded", "trackObject"} \cup Announcing
        /\ UNCHANGED <<valid, list, queue>>
    BY <1>6 DEF DiscoverObject, DiscoverChildren, Running, Announcing
  <2>2. \A c \in Undiscovered(ChildrenOf(parent, o)) : c \in Obj
    BY DEF Undiscovered, ChildrenOf
  <2>3. \/ calls' = Tail(calls)
        \/ \E c \in Obj : calls' = <<Call("discoverObject", c)>> \o calls
        \/ calls' = <<Call("objectAdded", o), Call("discoverChildren", o)>> \o Tail(calls)
    BY <1>6, <2>2 DEF DiscoverObject, DiscoverChildren, Return, CallFirst
  <2> QED
    BY <1>1, <2>1, <2>3 DEF OutsideMove
<1>7. CASE ChildRemoved \/ ChildAdded \/ ParentChange
  <2>1. /\ Head(calls).fn \notin {"objectAdded", "trackObject"} \cup Announcing
        /\ UNCHANGED <<valid, list, queue>>
    BY <1>7 DEF ChildRemoved, ChildAdded, ParentChange, DeferReparent, ReportReparent,
                IgnoreEvent, EmitReparented, Running, Announcing
  <2>2. calls' = Tail(calls) \/ calls' = <<CtorCall(o)>> \o Tail(calls)
    BY <1>7 DEF ChildRemoved, ChildAdded, ParentChange, Return, CallLast
  <2> QED
    BY <1>1, <2>1, <2>2 DEF OutsideMove
<1> QED
  BY <1>2, <1>3, <1>4, <1>5, <1>6, <1>7, <1>a DEF Calls

\* What is below the running call after a call, and after a return.
LEMMA BelowFrames ==
  ASSUME NEW s \in Seq(CallFrames), NEW f \in CallFrames
  PROVE  /\ Below(<<f>> \o s) = FramesOf(s)
         /\ Below(s) \subseteq FramesOf(s)
         /\ s # << >> => Below(Tail(s)) \subseteq Below(s)
<1>1. s # << >> => Tail(s) \in Seq(CallFrames) /\ FramesOf(Tail(s)) \subseteq FramesOf(s)
  BY PopFrame
<1>2. Below(<<f>> \o s) = FramesOf(s)
  <2> DEFINE t == <<f>> \o s
             u == Tail(t)
  <2>1. t # << >> /\ u \in Seq(CallFrames) /\ Len(u) = Len(s) /\ \A i \in 1..Len(u) : u[i] = s[i]
    OBVIOUS
  <2>2. DOMAIN u = DOMAIN s
    BY <2>1
  <2> HIDE DEF u
  <2>3. FramesOf(u) = FramesOf(s)
    BY <2>1, <2>2 DEF FramesOf
  <2> QED
    BY <2>1, <2>3 DEF u, Below
<1>3. Below(s) \subseteq FramesOf(s)
  BY <1>1 DEF Below
<1>4. s # << >> => Below(Tail(s)) \subseteq Below(s)
  <2> SUFFICES ASSUME s # << >> PROVE Below(Tail(s)) \subseteq Below(s)
    OBVIOUS
  <2>1. Tail(s) # << >> => FramesOf(Tail(Tail(s))) \subseteq FramesOf(Tail(s))
    BY <1>1, PopFrame
  <2> QED
    BY <2>1 DEF Below
<1> QED
  BY <1>2, <1>3, <1>4

-----------------------------------------------------------------------------
(***************************************************************************)
(* Deletions a drain iterates over are in the queue as well.               *)
(***************************************************************************)

Copied ==
  stage = "changes" => \A o \in Obj : Count(todo, Change("Destroy", o)) > 0 =>
                                        Count(queue, Change("Destroy", o)) > 0

\* A step of the copy and the queue that keeps it.
LEMMA CopiedStep ==
  ASSUME Copied,
         stage' = "changes" =>
           \/ todo' = queue /\ queue' = queue
           \/ /\ stage = "changes"
              /\ \A o \in Obj : LET d == Change("Destroy", o) IN
                   /\ Count(todo', d) > 0 => Count(todo, d) > 0
                   /\ Count(queue, d) > 0 => Count(queue', d) > 0
  PROVE  Copied'
  BY DEF Copied

\* Purging leaves the deletions in a queue, appending adds at most one.
LEMMA DestroysPurged ==
  ASSUME NEW q \in Seq(ObjectChanges), NEW o, NEW x
  PROVE  Count(Purged(q, o), Change("Destroy", x)) = Count(q, Change("Destroy", x))
<1> DEFINE c == Change("Destroy", x)
<1>1. c # Change("Create", o)
  BY DEF Change
<1>2. Count(q, c) = Count(Purged(q, o), c) + One(c = Change("Create", o) /\ Count(q, c) > 0)
  BY CountPurged
<1>3. One(c = Change("Create", o) /\ Count(q, c) > 0) = 0
  BY <1>1 DEF One
<1>4. Count(q, c) \in Nat /\ Count(Purged(q, o), c) \in Nat
  BY PurgedTyped, CountTyped
<1> HIDE DEF c
<1>5. Count(Purged(q, o), c) = Count(q, c)
  BY <1>2, <1>3, <1>4
<1> QED
  BY <1>5 DEF c

\* An appended change counts once.
LEMMA CountGrows ==
  ASSUME NEW q \in Seq(ObjectChanges), NEW d \in ObjectChanges, NEW c
  PROVE  /\ Count(q, c) \in Nat
         /\ Count(Append(q, d), c) = IF d = c THEN Count(q, c) + 1 ELSE Count(q, c)
<1>1. Count(q, c) \in Nat
  BY CountTyped
<1>2. Count(Append(q, d), c) = Count(q, c) + One(d = c)
  BY CountAppend
<1> QED
  BY <1>1, <1>2 DEF One

\* Every step keeps it.
LEMMA CopiedKept == Inv /\ RestTyped /\ Copied /\ [Next]_vars => Copied'
<1> SUFFICES ASSUME Inv, RestTyped, Copied, [Next]_vars PROVE Copied'
  OBVIOUS
<1> USE DEF heapVars, queueVars, loopVars, modelVars
<1>0. /\ AliveInv /\ calls \in Seq(CallFrames) /\ queue \in Seq(ObjectChanges)
      /\ todo \in Seq(ObjectChanges)
  BY DEF Inv, AliveInv, Types, QueueInv, QueueTyped, RestTyped, LoopTyped
<1>1. ASSUME UNCHANGED <<stage, todo>>,
             \/ queue' = queue \/ stage \in {"idle", "fired"}
             \/ \E o : queue' = Purged(queue, o)
             \/ \E d \in ObjectChanges : queue' = Append(queue, d)
      PROVE  Copied'
  <2>1. CASE queue' = queue \/ stage \in {"idle", "fired"}
    BY <1>1, <2>1, CopiedStep
  <2>2. ASSUME NEW o, queue' = Purged(queue, o) PROVE Copied'
    <3>1. \A x : Count(queue', Change("Destroy", x)) = Count(queue, Change("Destroy", x))
      BY <1>0, <2>2, DestroysPurged
    <3> QED
      BY <1>1, <3>1, CopiedStep
  <2>3. ASSUME NEW d \in ObjectChanges, queue' = Append(queue, d) PROVE Copied'
    <3>1. ASSUME NEW c, Count(queue, c) > 0
          PROVE  Count(queue', c) > 0
      <4>1. /\ Count(queue, c) \in Nat
            /\ Count(queue', c) = IF d = c THEN Count(queue, c) + 1 ELSE Count(queue, c)
        BY <1>0, <2>3, CountGrows
      <4> QED
        BY <3>1, <4>1
    <3> QED
      BY <1>1, <3>1, CopiedStep
  <2> QED
    BY <1>1, <2>1, <2>2, <2>3
<1>2. CASE UNCHANGED vars
  BY <1>1, <1>2 DEF vars
<1>3. CASE Target \/ Constructors
  <2>1. ASSUME NEW o \in Obj, Destroy(o) PROVE Copied'
    <3>1. UNCHANGED <<stage, todo>>
      BY <2>1 DEF Destroy
    <3>2. \/ queue' = queue \/ queue' = Purged(queue, o)
          \/ home[o] = "worker"
      BY <2>1 DEF Destroy, ObjectRemoved, RemovedBefore, RemovedHere
    <3>3. home[o] = "worker" => stage \in {"idle", "fired"}
      BY <2>1 DEF Destroy, LockFree
    <3> QED
      BY <1>1, <3>1, <3>2, <3>3
  <2>2. ASSUME ~ \E o \in Obj : Destroy(o) PROVE Copied'
    <3>1. CASE Target
      <4>1. UNCHANGED <<stage, todo, queue>>
        BY <2>2, <3>1 DEF Target, Construct, ConstructInWorker, SetParent, ReceiveEvent
      <4> QED
        BY <1>1, <4>1
    <3>2. CASE Constructors
      <4>1. UNCHANGED <<stage, todo, queue>>
        BY <3>2 DEF Constructors, HookInWorker, FinishConstructor
      <4> QED
        BY <1>1, <4>1
    <3> QED
      BY <1>3, <3>1, <3>2
  <2> QED
    BY <2>1, <2>2
<1>4. CASE StartUp
  <2>1. stage' # "changes" \/ (UNCHANGED <<stage, todo, queue>>)
    BY <1>4 DEF StartUp, InstallHooks, CreateProbe, AddNext, AddedAll, FindNext, DelayedInit
  <2> QED
    BY <1>1, <2>1, CopiedStep
<1>5. CASE Drain
  <2>1. CASE DrainChange
    <3>1. stage = "changes" /\ todo # << >> /\ todo' = Tail(todo) /\ queue' = queue
      BY <2>1 DEF DrainChange
    <3>2. ASSUME NEW x \in Obj, Count(todo', Change("Destroy", x)) > 0
          PROVE  Count(todo, Change("Destroy", x)) > 0
      <4> DEFINE c == Change("Destroy", x)
      <4>1. /\ Count(todo, c) = Count(Tail(todo), c) + One(Head(todo) = c)
            /\ One(Head(todo) = c) \in {0, 1}
        BY <1>0, <3>1, CountTail DEF One
      <4>2. Tail(todo) \in Seq(ObjectChanges)
        BY <1>0, <3>1
      <4>3. Count(Tail(todo), c) \in Nat
        BY <4>2, CountTyped
      <4> HIDE DEF c
      <4> QED
        BY <3>1, <3>2, <4>1, <4>3 DEF c
    <3> QED
      BY <3>1, <3>2, CopiedStep
  <2>2. CASE ~DrainChange
    <3>1. stage' # "changes" \/ (todo' = queue /\ queue' = queue)
          \/ (UNCHANGED <<stage, todo, queue>>)
      BY <1>5, <2>2 DEF Drain, DeliverStart, TimerFires, StartDrain, ClearQueue, DrainReparent,
                        FinishDrain
    <3> QED
      BY <1>1, <3>1, CopiedStep
  <2> QED
    BY <2>1, <2>2
<1>6. CASE Calls
  <2>1. calls # << >>
    BY <1>6 DEF Calls, ObjectAdded, TrackObject, ObjectFullyConstructed, ToolInitReturns, ObjectCreated,
                DiscoverObject, DiscoverChildren, ChildRemoved, ChildAdded, ParentChange, Running
  <2>2. Head(calls).obj \in Obj
    BY <1>0, <2>1, HeadFrame
  <2> PICK o \in Obj : o = Head(calls).obj
    BY <2>2
  <2>3. /\ UNCHANGED <<stage, todo>>
        /\ queue' = queue \/ queue' = Append(queue, Change("Create", o))
    BY <1>0, <1>6, CallMoves
       DEF AddedMove, TrackMove, FullyMove, CreatedMove, OutsideMove, Continues, RestTyped
  <2>4. Change("Create", o) \in ObjectChanges
    BY DEF Change, ObjectChanges, ChangeTypes
  <2> QED
    BY <1>1, <2>3, <2>4
<1> QED
  BY <1>2, <1>3, <1>4, <1>5, <1>6 DEF Next

-----------------------------------------------------------------------------
(***************************************************************************)
(* The balance of rows.  A claim on a row is a creation that a drain will  *)
(* come to, or an announcement under way.  While a drain iterates over its *)
(* copy, that is what it will come to.                                     *)
(***************************************************************************)

Due         == IF stage = "changes" THEN todo ELSE queue
Creates(o)  == Count(Due, Change("Create", o))
Destroys(o) == Count(Due, Change("Destroy", o))
Claims(o)   == Creates(o) + CallsFor(calls, o)

\* The rows of an object are those that queued deletions will remove and, while it is
\* tracked, one more; the queue speaks of creations of tracked objects.  All that does
\* not hold of an object that was announced while it was known already.
Row(o) ==
  /\ Claims(o) <= 1
  /\ o \in valid => list[o] + Claims(o) <= Destroys(o) + 1
  /\ o \notin valid => list[o] <= Destroys(o)
  /\ stage # "changes" /\ Creates(o) > 0 => o \in valid

Rows == \A o \in Once : Row(o)

\* After objectFullyConstructed() has looked, its object stays tracked.
Sound(f) ==
  /\ f.fn \in {"toolInit", "objectCreated"} /\ f.obj \in Once => f.obj \in valid
  /\ stage = "changes" => f.fn \in {"objectAdded", "trackObject"} \cup Announcing

StackInv ==
  /\ \A f \in FramesOf(calls) : Sound(f)
  /\ \A f \in Below(calls) : f.fn # "objectFullyConstructed"

\* The queue a drain comes to is a queue, and its counts are numbers.
LEMMA DueTyped ==
  ASSUME Inv, RestTyped, NEW o
  PROVE  /\ queue \in Seq(ObjectChanges) /\ todo \in Seq(ObjectChanges)
         /\ calls \in Seq(CallFrames) /\ Due \in Seq(ObjectChanges)
         /\ Creates(o) \in Nat /\ Destroys(o) \in Nat /\ CallsFor(calls, o) \in Nat
<1>1. /\ queue \in Seq(ObjectChanges) /\ todo \in Seq(ObjectChanges)
      /\ calls \in Seq(CallFrames)
  BY DEF Inv, AliveInv, Types, QueueInv, QueueTyped, RestTyped, LoopTyped
<1>2. Due \in Seq(ObjectChanges)
  BY <1>1 DEF Due
<1>3. Creates(o) \in Nat /\ Destroys(o) \in Nat
  BY <1>2, CountTyped DEF Creates, Destroys
<1> QED
  BY <1>1, <1>2, <1>3, CallsTyped

\* New calls are sound, old ones stay sound.
LEMMA StackStep ==
  ASSUME StackInv, Once' \subseteq Once, NEW S,
         \A f \in FramesOf(calls') :
           \/ f \in S
           \/ /\ f \in FramesOf(calls)
              /\ f.fn \in {"toolInit", "objectCreated"} /\ f.obj \in Once' /\ f.obj \in valid =>
                   f.obj \in valid',
         \A f \in S : Sound(f)',
         stage' = "changes" => stage = "changes" \/ FramesOf(calls') = {},
         \A f \in Below(calls') : f.fn # "objectFullyConstructed"
  PROVE  StackInv'
<1>1. ASSUME NEW f \in FramesOf(calls') PROVE Sound(f)'
  <2>1. CASE f \in S
    BY <2>1
  <2>2. CASE f \notin S
    BY <1>1, <2>2 DEF StackInv, Sound
  <2> QED
    BY <2>1, <2>2
<1> QED
  BY <1>1 DEF StackInv

\* The same for a step that leaves the stack alone, or starts it with an event.
LEMMA StackSame ==
  ASSUME StackInv, Once' \subseteq Once, UNCHANGED calls,
         \A f \in FramesOf(calls) :
           f.fn \in {"toolInit", "objectCreated"} /\ f.obj \in valid => f.obj \in valid',
         stage' = "changes" => stage = "changes" \/ FramesOf(calls) = {}
  PROVE  StackInv'
<1> DEFINE S == {}
<1>1. \A f \in S : Sound(f)'
  OBVIOUS
<1>2. \A f \in Below(calls') : f.fn # "objectFullyConstructed"
  BY DEF StackInv
<1> HIDE DEF S
<1> QED
  BY <1>1, <1>2, StackStep

\* A stack that starts with the hook, an event or discovery.
LEMMA StackStarts ==
  ASSUME StackInv, calls = << >>, calls' \in Seq(CallFrames), stage' # "changes",
         \A f \in FramesOf(calls') :
           f.fn \notin {"toolInit", "objectCreated", "objectFullyConstructed"}
  PROVE  StackInv'
<1>1. \A f \in FramesOf(calls') : Sound(f)'
  BY DEF Sound
<1>2. Below(calls') \subseteq FramesOf(calls')
  BY PopFrame DEF Below
<1> QED
  BY <1>1, <1>2 DEF StackInv

\* The target.
LEMMA TargetKeepsStack ==
  ASSUME AliveInv, StackInv, Once' \subseteq Once, Target \/ Constructors
  PROVE  StackInv'
<1> USE DEF loopVars, callVars
<1>0. calls \in Seq(CallFrames)
  BY DEF AliveInv, Types
<1>1. ASSUME NEW o \in Obj, NEW p \in ObjOrNull, NEW guarded \in BOOLEAN, Construct(o, p, guarded)
      PROVE  StackInv'
  <2> DEFINE f == CtorCall(o)
             S == {f}
  <2>1. /\ UNCHANGED <<valid, stage>> /\ f \in CallFrames
        /\ calls' = calls \/ calls' = <<f>> \o calls
        /\ calls = << >> \/ Head(calls).fn = "toolInit"
    BY <1>1, NewFrames DEF Construct, MainIdle, InToolInit
  <2>2. CASE calls' = calls
    BY <2>1, <2>2, StackSame
  <2>3. CASE calls' = <<f>> \o calls
    <3>1. f.fn = "objectAdded"
      BY DEF CtorCall
    <3>2. Sound(f)'
      BY <3>1 DEF Sound
    <3> HIDE DEF f
    <3>3. FramesOf(calls') = {f} \cup FramesOf(calls) /\ Below(calls') = FramesOf(calls)
      BY <1>0, <2>1, <2>3, PushFrame, BelowFrames
    <3>4. \A g \in FramesOf(calls) : g.fn # "objectFullyConstructed"
      <4>1. CASE calls = << >>
        BY <4>1, NoFrames
      <4>2. CASE calls # << >>
        <5>1. FramesOf(calls) = {Head(calls)} \cup Below(calls)
          BY <1>0, <4>2, SplitFrames DEF Below
        <5> QED
          BY <2>1, <4>2, <5>1 DEF StackInv
      <4> QED
        BY <4>1, <4>2
    <3>5. \A g \in S : Sound(g)'
      BY <3>2
    <3>6. \A g \in FramesOf(calls') : g \in S \/ g \in FramesOf(calls)
      BY <3>3
    <3> HIDE DEF S
    <3> QED
      BY <2>1, <3>3, <3>4, <3>5, <3>6, StackStep
  <2> QED
    BY <2>1, <2>2, <2>3
<1>2. ASSUME NEW o \in Obj,
             (\E p \in ObjOrNull : ConstructInWorker(o, p)) \/ FinishConstructor(o)
      PROVE  StackInv'
  <2>1. UNCHANGED <<valid, stage, calls>>
    BY <1>2 DEF ConstructInWorker, FinishConstructor
  <2> QED
    BY <2>1, StackSame
<1>3. ASSUME NEW o \in Obj, HookInWorker(o) \/ ReceiveEvent(o)
      PROVE  StackInv'
  <2> DEFINE c == CtorCall(o)
             d == Call("discoverObject", o)
  <2>1. /\ calls = << >> /\ stage' \in {"idle", "fired"} /\ UNCHANGED <<valid, stage>>
        /\ calls' = calls \/ calls' = <<c>> \/ calls' = <<d>>
    BY <1>3 DEF HookInWorker, ReceiveEvent, LockFree, MainIdle
  <2>2. c \in CallFrames /\ d \in CallFrames /\ c.fn = "objectAdded" /\ d.fn = "discoverObject"
    BY NewFrames DEF Functions, CtorCall, Call
  <2> HIDE DEF c, d
  <2>3. CASE calls' = calls
    BY <2>1, <2>3, StackSame
  <2>4. CASE calls' = <<c>> \/ calls' = <<d>>
    <3>1. calls' \in Seq(CallFrames) /\ FramesOf(calls') \subseteq {c, d}
      BY <2>2, <2>4, OneFrame
    <3> QED
      BY <2>1, <2>2, <3>1, StackStarts
  <2> QED
    BY <2>1, <2>3, <2>4
<1>4. ASSUME NEW o \in Obj, NEW p \in ObjOrNull, NEW widget \in BOOLEAN, SetParent(o, p, widget)
      PROVE  StackInv'
  <2>1. UNCHANGED <<valid, stage>>
    BY <1>4 DEF SetParent
  <2>2. CASE UNCHANGED calls
    BY <2>1, <2>2, StackSame
  <2>3. CASE home[o] = "main"
    <3>1. calls = << >> /\ stage = "idle"
      BY <1>4, <2>3 DEF SetParent, MainIdle
    <3>2. /\ calls' \in Seq(CallFrames)
          /\ FramesOf(calls') \subseteq
              {Call("childRemoved", o), Call("childAdded", o), Call("parentChange", o)}
      BY <1>4, <3>1, SetParentFrames, NoFrames
    <3>3. \A f \in FramesOf(calls') : f.fn \in {"childRemoved", "childAdded", "parentChange"}
      BY <3>2 DEF Call
    <3> QED
      BY <2>1, <3>1, <3>2, <3>3, StackStarts
  <2> QED
    BY <1>4, <2>2, <2>3, SetParentFrames
<1>5. ASSUME NEW o \in Obj, Destroy(o)
      PROVE  StackInv'
  <2>1. UNCHANGED <<stage, calls>> /\ (valid' = valid \/ valid' = valid \ {o})
    BY <1>5 DEF Destroy, ObjectRemoved, RemovedBefore, RemovedHere, RemovedElsewhere
  <2>2. calls = << >> \/ \A i \in DOMAIN calls : calls[i].obj # o
    BY <1>5 DEF Destroy, MainIdle, LockFree
  <2>3. \A f \in FramesOf(calls) : f.obj # o
    BY <2>2, NoFrames DEF FramesOf
  <2> QED
    BY <2>1, <2>3, StackSame
<1> QED
  BY <1>1, <1>2, <1>3, <1>4, <1>5 DEF Target, Constructors

\* Start-up.
LEMMA StartUpKeepsStack ==
  ASSUME AliveInv, StackInv, Once' \subseteq Once, StartUp
  PROVE  StackInv'
<1> USE DEF loopVars, callVars
<1>1. UNCHANGED valid /\ (stage' # "changes" \/ UNCHANGED stage)
  BY DEF StartUp, InstallHooks, CreateProbe, AddNext, AddedAll, FindNext, DelayedInit
<1>2. CASE UNCHANGED calls
  BY <1>1, <1>2, StackSame
<1>3. CASE AddNext \/ FindNext
  <2> DEFINE F == {"objectAdded", "discoverObject"}
  <2>1. calls = << >> /\ stage' # "changes"
    BY <1>3 DEF AddNext, FindNext
  <2>2. calls' = calls \/ \E fn \in F, o \in Obj : calls' = <<Call(fn, o)>>
    <3>1. CASE AddNext
      <4>1. PICK o \in addedBefore : calls' = <<Call("objectAdded", o)>>
        BY <3>1 DEF AddNext
      <4>2. o \in Obj
        BY DEF AliveInv, Types
      <4> QED
        BY <4>1, <4>2
    <3>2. CASE FindNext
      <4>1. \/ calls' = calls
            \/ \E o \in Undiscovered(Findable) : calls' = <<Call("discoverObject", o)>>
        BY <3>2 DEF FindNext
      <4>2. Undiscovered(Findable) \subseteq Obj
        BY TrackingAssumption DEF Undiscovered
      <4> QED
        BY <4>1, <4>2
    <3> QED
      BY <1>3, <3>1, <3>2
  <2>3. ASSUME NEW fn \in F, NEW o \in Obj, calls' = <<Call(fn, o)>> PROVE StackInv'
    <3>1. Call(fn, o) \in CallFrames /\ Call(fn, o).fn = fn
      BY NewFrames DEF Functions, Call
    <3>2. calls' \in Seq(CallFrames) /\ FramesOf(calls') = {Call(fn, o)}
      BY <2>3, <3>1, OneFrame
    <3> QED
      BY <2>1, <3>1, <3>2, StackStarts
  <2> QED
    BY <1>2, <2>2, <2>3
<1> QED
  BY <1>2, <1>3 DEF StartUp, InstallHooks, CreateProbe, AddedAll, DelayedInit

\* A drain.
LEMMA DrainKeepsStack ==
  ASSUME AliveInv, LoopTyped, StackInv, Once' \subseteq Once, Drain
  PROVE  StackInv'
<1> USE DEF loopVars, callVars
<1>0. calls \in Seq(CallFrames)
  BY DEF AliveInv, Types
<1>1. CASE DeliverStart \/ TimerFires
  <2>1. UNCHANGED <<valid, calls>> /\ (stage' # "changes" \/ UNCHANGED stage)
    BY <1>1 DEF DeliverStart, TimerFires
  <2> QED
    BY <2>1, StackSame
<1>2. CASE StartDrain \/ ClearQueue \/ DrainReparent \/ FinishDrain
           \/ (DrainChange /\ UNCHANGED calls)
  <2>1. UNCHANGED calls /\ calls = << >>
    BY <1>2 DEF StartDrain, DrainChange, ClearQueue, DrainReparent, FinishDrain
  <2> QED
    BY <2>1, NoFrames, StackSame
<1>3. CASE DrainChange /\ ~ UNCHANGED calls
  <2>1. /\ calls = << >> /\ todo # << >>
        /\ calls' = <<Call("objectFullyConstructed", Head(todo).obj)>>
    BY <1>3 DEF DrainChange
  <2>a. Head(todo).obj \in Obj
    <3>1. Head(todo) \in ObjectChanges
      BY <2>1 DEF LoopTyped
    <3> QED
      BY <3>1 DEF ObjectChanges
  <2> PICK o \in Obj : o = Head(todo).obj
    BY <2>a
  <2> DEFINE f == Call("objectFullyConstructed", o)
  <2>2. calls' = <<f>>
    BY <2>1
  <2>3. f \in CallFrames /\ f.fn = "objectFullyConstructed"
    BY NewFrames DEF Functions, Call
  <2> HIDE DEF f
  <2>4. FramesOf(calls') = {f} /\ Below(calls') = {}
    BY <2>2, <2>3, OneFrame, NoFrames DEF Below
  <2>5. Sound(f)'
    BY <2>3 DEF Sound, Announcing
  <2> QED
    BY <2>4, <2>5 DEF StackInv
<1> QED
  BY <1>1, <1>2, <1>3 DEF Drain

\* The calls: objectFullyConstructed() looks before it goes on, and the object stays.
LEMMA CallsKeepStack ==
  ASSUME Inv, RestTyped, Rows, StackInv, Once' \subseteq Once, Calls
  PROVE  StackInv'
<1> AliveInv /\ ModelsTyped
  BY DEF Inv, RestTyped
<1>0. calls # << >> /\ stage' = stage
  BY DEF Calls, ObjectAdded, TrackObject, ObjectFullyConstructed, ToolInitReturns, ObjectCreated,
         DiscoverObject, DiscoverChildren, ChildRemoved, ChildAdded, ParentChange, Running,
         loopVars
<1>a. Head(calls) \in CallFrames /\ Head(calls).obj \in Obj /\ Head(calls) \in FramesOf(calls)
  BY <1>0, HeadFrame, PopFrame DEF AliveInv, Types
<1> PICK h \in CallFrames : h = Head(calls)
  BY <1>a
<1> PICK o \in Obj : o = Head(calls).obj
  BY <1>a
<1> DEFINE B == FramesOf(Tail(calls))
<1>1. /\ o = h.obj /\ calls \in Seq(CallFrames) /\ Tail(calls) \in Seq(CallFrames)
      /\ FramesOf(calls) = {h} \cup B /\ Below(calls) = B /\ Below(Tail(calls)) \subseteq B
  BY <1>0, <1>a, HeadFrame, SplitFrames, BelowFrames DEF AliveInv, Types, Below
<1>2. Sound(h) /\ \A f \in B : Sound(f) /\ f.fn # "objectFullyConstructed"
  BY <1>1, <1>a DEF StackInv
\* A call that returns, goes on as another, calls, or both.
<1>3. ASSUME \A f \in B : f.fn \in {"toolInit", "objectCreated"} /\ f.obj \in Once'
                            /\ f.obj \in valid => f.obj \in valid',
             calls' = Tail(calls)
      PROVE  StackInv'
  <2> DEFINE S == {}
  <2>1. \A f \in S : Sound(f)'
    OBVIOUS
  <2> HIDE DEF S
  <2>2. FramesOf(calls') = B
    BY <1>3
  <2> HIDE DEF B
  <2> QED
    BY <1>0, <1>1, <1>2, <1>3, <2>1, <2>2, StackStep
<1>4. ASSUME NEW f \in CallFrames, Sound(f)', calls' = <<f>> \o Tail(calls), valid \subseteq valid'
      PROVE  StackInv'
  <2> DEFINE S == {f}
  <2>1. FramesOf(calls') = {f} \cup B /\ Below(calls') = B
    BY <1>1, <1>4, PushFrame, BelowFrames
  <2>2. \A g \in S : Sound(g)'
    BY <1>4
  <2>3. \A g \in FramesOf(calls') : g \in S \/ g \in FramesOf(calls)
    BY <1>1, <2>1
  <2> HIDE DEF S, B
  <2> QED
    BY <1>0, <1>2, <1>4, <2>1, <2>2, <2>3, StackStep
<1>5. ASSUME NEW f \in CallFrames, Sound(f)', calls' = <<f>> \o calls, valid \subseteq valid',
             h.fn # "objectFullyConstructed"
      PROVE  StackInv'
  <2> DEFINE S == {f}
  <2>1. FramesOf(calls') = {f} \cup FramesOf(calls) /\ Below(calls') = FramesOf(calls)
    BY <1>1, <1>5, PushFrame, BelowFrames
  <2>2. \A g \in S : Sound(g)'
    BY <1>5
  <2>3. \A g \in FramesOf(calls') : g \in S \/ g \in FramesOf(calls)
    BY <2>1
  <2>4. \A g \in Below(calls') : g.fn # "objectFullyConstructed"
    BY <1>1, <1>2, <1>5, <2>1
  <2> HIDE DEF S, B
  <2> QED
    BY <1>0, <1>5, <2>2, <2>3, <2>4, StackStep
<1>6. ASSUME NEW f \in CallFrames, NEW g \in CallFrames, Sound(f)', Sound(g)',
             g.fn # "objectFullyConstructed", calls' = <<f, g>> \o Tail(calls), valid \subseteq valid'
      PROVE  StackInv'
  <2> DEFINE S == {f, g}
             s == <<g>> \o Tail(calls)
  <2>1. calls' = <<f>> \o s
    BY <1>1, <1>6, TwoFrames
  <2>2. s \in Seq(CallFrames) /\ FramesOf(s) = {g} \cup B
    BY <1>1, PushFrame
  <2> HIDE DEF s
  <2>3. FramesOf(calls') = {f} \cup FramesOf(s) /\ Below(calls') = FramesOf(s)
    BY <2>1, <2>2, PushFrame, BelowFrames
  <2>4. \A c \in S : Sound(c)'
    BY <1>6
  <2>5. \A c \in FramesOf(calls') : c \in S \/ c \in FramesOf(calls)
    BY <1>1, <2>2, <2>3
  <2>6. \A c \in Below(calls') : c.fn # "objectFullyConstructed"
    BY <1>2, <1>6, <2>2, <2>3
  <2> HIDE DEF S, B
  <2> QED
    BY <1>0, <1>6, <2>4, <2>5, <2>6, StackStep
<1>7. /\ \A fn \in Functions, x \in Obj :
           Call(fn, x) \in CallFrames /\ Call(fn, x).fn = fn /\ Call(fn, x).obj = x
      /\ CtorCall(o) \in CallFrames /\ CtorCall(o).fn = "objectAdded"
  BY NewFrames DEF Call, CtorCall
<1>8. \A f \in CallFrames : f.fn \in {"objectAdded", "trackObject"} => Sound(f)'
  BY DEF Sound
<1> HIDE DEF B
<1>9. CASE AddedMove(o)
  <2> DEFINE p == ParentFrame(h)
             t == RestFrame(h)
  <2>1. valid' = valid /\ h.fn = "objectAdded"
    BY <1>9 DEF AddedMove
  <2>2. \/ calls' = Tail(calls)
        \/ calls' = <<t>> \o Tail(calls)
        \/ parent[o] \in Obj /\ calls' = <<p>> \o (<<t>> \o Tail(calls))
    BY <1>9 DEF AddedMove
  <2>3. t \in CallFrames /\ t.fn = "trackObject"
    BY DEF CallFrames, Functions, RestFrame
  <2>4. parent[o] \in Obj => p \in CallFrames /\ p.fn = "objectAdded"
    BY <1>1, <2>1 DEF CallFrames, ParentFrame
  <2> HIDE DEF p, t
  <2>5. CASE calls' = Tail(calls)
    BY <1>3, <2>1, <2>5
  <2>6. CASE calls' = <<t>> \o Tail(calls)
    BY <1>4, <1>8, <2>1, <2>3, <2>6
  <2>7. CASE parent[o] \in Obj /\ calls' = <<p>> \o (<<t>> \o Tail(calls))
    <3>1. calls' = <<p, t>> \o Tail(calls)
      BY <1>1, <2>3, <2>4, <2>7, TwoFrames
    <3> QED
      BY <1>6, <1>8, <2>1, <2>3, <2>4, <2>7, <3>1
  <2> QED
    BY <2>2, <2>5, <2>6, <2>7
<1>14. CASE TrackMove(o)
  <2> DEFINE c == Call("objectFullyConstructed", o)
  <2>1. /\ valid \subseteq valid'
        /\ calls' = Tail(calls) \/ calls' = <<c>> \o Tail(calls)
    BY <1>14 DEF TrackMove
  <2>2. c \in CallFrames /\ c.fn = "objectFullyConstructed"
    BY <1>7 DEF Functions
  <2>3. Sound(c)'
    BY <2>2 DEF Sound, Announcing
  <2> HIDE DEF c
  <2> QED
    BY <1>3, <1>4, <2>1, <2>2, <2>3
<1>10. CASE FullyMove(o)
  <2> DEFINE t == Call("toolInit", o)
  <2>1. t \in CallFrames /\ t.fn = "toolInit" /\ t.obj = o
    BY <1>7 DEF Functions
  <2>2. o \in valid' => Sound(t)'
    BY <2>1 DEF Sound, Announcing
  <2>3. CASE calls' = Tail(calls) /\ valid' = valid \ {o}
    <3>0. CASE o \notin Once'
      <4>1. \A f \in B : f.obj \in Once' /\ f.obj \in valid => f.obj \in valid'
        BY <2>3, <3>0
      <4> QED
        BY <1>3, <2>3, <4>1
    <3> SUFFICES ASSUME o \in Once PROVE StackInv'
      BY <3>0
    <3>1. CallsFor(calls, o) <= 1
      <4>1. Claims(o) <= 1
        BY DEF Rows, Row
      <4>2. Creates(o) \in Nat /\ CallsFor(calls, o) \in Nat
        BY DueTyped
      <4> QED
        BY <4>1, <4>2 DEF Claims
    <3>2. Announces(h, o)
      BY <1>1, <1>10 DEF Announces, Announcing, FullyMove
    <3>3. CallsFor(Tail(calls), o) = 0
      <4>1. /\ CallsFor(Tail(calls), o) \in Nat
            /\ CallsFor(calls, o) = CallsFor(Tail(calls), o) + One(Announces(Head(calls), o))
        BY <1>0, <1>1, CallsPop
      <4>2. One(Announces(Head(calls), o)) = 1
        BY <3>2 DEF One
      <4>3. CallsFor(calls, o) \in Nat
        BY <1>1, CallsTyped
      <4> QED
        BY <3>1, <4>1, <4>2, <4>3
    <3>4. \A f \in B : ~Announces(f, o)
      <4>1. CallsFor(Tail(calls), o) > 0 <=> \E f \in FramesOf(Tail(calls)) : Announces(f, o)
        BY <1>1, CallsTyped
      <4> QED
        BY <3>3, <4>1 DEF B
    <3>5. \A f \in B : f.fn \in {"toolInit", "objectCreated"} => f.obj # o
      BY <3>4 DEF Announces, Announcing
    <3> QED
      BY <1>3, <2>3, <3>5
  <2>4. CASE o \in valid /\ Continues(o, "toolInit")
    BY <1>4, <2>1, <2>2, <2>4 DEF Continues
  <2>5. CASE /\ o \in valid /\ UNCHANGED valid
             /\ \E a \in SelfAndAncestors(parent, o) :
                  calls' = <<Call("objectAdded", a), Call("toolInit", o)>> \o Tail(calls)
    <3>1. PICK a \in SelfAndAncestors(parent, o) :
                  calls' = <<Call("objectAdded", a), Call("toolInit", o)>> \o Tail(calls)
      BY <2>5
    <3> DEFINE c == Call("objectAdded", a)
    <3>2. a \in Obj
      BY DEF SelfAndAncestors, Climb
    <3>3. c \in CallFrames /\ c.fn = "objectAdded"
      BY <1>7, <3>2 DEF Functions
    <3>4. calls' = <<c, t>> \o Tail(calls)
      BY <3>1
    <3> HIDE DEF c, t
    <3> QED
      BY <1>6, <1>8, <2>1, <2>2, <2>5, <3>3, <3>4
  <2> QED
    BY <1>10, <2>3, <2>4, <2>5 DEF FullyMove
<1>11. CASE h.fn = "toolInit" /\ Continues(o, "objectCreated")
  <2> DEFINE c == Call("objectCreated", o)
  <2>1. c \in CallFrames /\ c.fn = "objectCreated" /\ c.obj = o
    BY <1>7 DEF Functions
  <2>2. (o \in Once => o \in valid) /\ valid' = valid /\ calls' = <<c>> \o Tail(calls)
    BY <1>1, <1>2, <1>11 DEF Sound, Continues
  <2>3. Sound(c)'
    BY <2>1, <2>2 DEF Sound, Announcing
  <2> HIDE DEF c
  <2> QED
    BY <1>4, <2>1, <2>2, <2>3
<1>12. CASE CreatedMove(o)
  BY <1>3, <1>12 DEF CreatedMove
<1>13. CASE OutsideMove(o)
  <2>1. /\ h.fn \notin {"objectAdded", "trackObject"} \cup Announcing
        /\ stage # "changes" /\ valid' = valid
        /\ h.fn # "objectFullyConstructed"
    BY <1>2, <1>13 DEF OutsideMove, Sound, Announcing
  <2>2. \A f \in CallFrames : f.fn \in {"discoverObject", "discoverChildren", "objectAdded"} => Sound(f)'
    BY <1>0, <2>1 DEF Sound
  <2>3. CASE calls' = Tail(calls)
    BY <1>3, <2>1, <2>3
  <2>4. CASE calls' = <<CtorCall(o)>> \o Tail(calls)
    BY <1>4, <1>7, <2>1, <2>2, <2>4
  <2>5. ASSUME NEW c \in Obj, calls' = <<Call("discoverObject", c)>> \o calls PROVE StackInv'
    <3>1. Call("discoverObject", c) \in CallFrames /\ Call("discoverObject", c).fn = "discoverObject"
      BY <1>7 DEF Functions
    <3> QED
      BY <1>5, <2>1, <2>2, <2>5, <3>1
  <2>6. CASE calls' = <<Call("objectAdded", o), Call("discoverChildren", o)>> \o Tail(calls)
    <3>1. /\ Call("objectAdded", o) \in CallFrames /\ Call("objectAdded", o).fn = "objectAdded"
          /\ Call("discoverChildren", o) \in CallFrames
          /\ Call("discoverChildren", o).fn = "discoverChildren"
      BY <1>7 DEF Functions
    <3> QED
      BY <1>6, <2>1, <2>2, <2>6, <3>1
  <2> QED
    BY <1>13, <2>3, <2>4, <2>5, <2>6 DEF OutsideMove
<1> QED
  BY <1>9, <1>10, <1>11, <1>12, <1>13, <1>14, CallMoves

-----------------------------------------------------------------------------
(***************************************************************************)
(* While a drain iterates, constructors run in a plugin's init() only, and *)
(* the hook's call of objectAdded() is over before anything else happens   *)
(* in their thread: when it comes to track its object, the object's parent *)
(* is tracked.                                                             *)
(***************************************************************************)

Adding == {"objectAdded", "trackObject"}

\* The hook's call that tracks its object when those above it have returned.
Tracker(f) == f.fn = "trackObject" /\ f.fromCtor

\* All above it are the hook's calls too, each for the parent of the object below.
Linked(s, i, known) ==
  LET x == s[i].obj IN
  /\ ~FilterObject(x)
  /\ \A j \in 1..i : s[j].fn \in Adding /\ s[j].fromCtor
  /\ i = 1 => parent[x] \in known \cup {Null}
  /\ i > 1 => s[i - 1].obj = parent[x]

HookAtHome == \A f \in FramesOf(calls) : f.fn \in Adding /\ f.fromCtor => home[f.obj] = "main"
Chain      == \A i \in DOMAIN calls : Tracker(calls[i]) => Linked(calls, i, valid)
ChainInv   == stage = "changes" => HookAtHome /\ Chain

\* Nothing is claimed outside the loop over the changes.
LEMMA NoChain ==
  ASSUME stage' # "changes"
  PROVE  ChainInv'
  BY DEF ChainInv

\* Where calls are, and where they were before a return or a call.
LEMMA Positions ==
  ASSUME NEW s \in Seq(CallFrames), NEW f \in CallFrames
  PROVE  /\ s # << >> => /\ Head(s) = s[1] /\ 1 \in DOMAIN s
                         /\ \A i \in DOMAIN Tail(s) : /\ i \in Nat /\ i >= 1 /\ i + 1 \in DOMAIN s
                                                      /\ Tail(s)[i] = s[i + 1]
                         /\ \A i \in DOMAIN s : i > 1 => /\ i - 1 \in DOMAIN Tail(s)
                                                         /\ s[i] = Tail(s)[i - 1]
         /\ \A i \in DOMAIN (<<f>> \o s) :
              /\ i \in Nat /\ i >= 1
              /\ i = 1 => (<<f>> \o s)[i] = f
              /\ i > 1 => i - 1 \in DOMAIN s /\ (<<f>> \o s)[i] = s[i - 1]
         /\ \A i \in DOMAIN s : /\ i \in Nat /\ i >= 1 /\ i + 1 \in DOMAIN (<<f>> \o s)
                                /\ (<<f>> \o s)[i + 1] = s[i]
         /\ 1 \in DOMAIN (<<f>> \o s) /\ (<<f>> \o s)[1] = f
  OBVIOUS

\* Without such a call at the top there is none.
LEMMA ChainTop ==
  ASSUME Chain, calls \in Seq(CallFrames), calls # << >>,
         Head(calls).fn \notin Adding \/ ~Head(calls).fromCtor
  PROVE  \A f \in FramesOf(calls) : ~Tracker(f)
<1> SUFFICES ASSUME NEW i \in DOMAIN calls, Tracker(calls[i]) PROVE FALSE
  BY DEF FramesOf
<1>1. Linked(calls, i, valid)
  BY DEF Chain
<1>2. 1 \in 1..i /\ Head(calls) = calls[1]
  OBVIOUS
<1> QED
  BY <1>1, <1>2 DEF Linked

\* Then a step that adds none keeps that.
LEMMA ChainFree ==
  ASSUME ChainInv, calls \in Seq(CallFrames), calls # << >>, stage = "changes",
         Head(calls).fn \notin Adding \/ ~Head(calls).fromCtor,
         \A f \in FramesOf(calls') :
           \/ f \in FramesOf(calls) /\ (f.fn \in Adding /\ f.fromCtor => home'[f.obj] = home[f.obj])
           \/ f.fn \in Adding /\ f.fromCtor => f.fn = "objectAdded" /\ home'[f.obj] = "main"
  PROVE  ChainInv'
<1>1. HookAtHome /\ \A f \in FramesOf(calls) : ~Tracker(f)
  BY ChainTop DEF ChainInv
<1>2. HookAtHome'
  BY <1>1 DEF HookAtHome
<1>3. ASSUME NEW i \in DOMAIN calls' PROVE ~Tracker(calls'[i])
  <2>1. calls'[i] \in FramesOf(calls')
    BY DEF FramesOf
  <2> QED
    BY <1>1, <2>1 DEF Tracker, Adding
<1>4. Chain'
  BY <1>3 DEF Chain, Tracker
<1> QED
  BY <1>2, <1>4 DEF ChainInv

\* The chain is out of reach of a step that changes another object, above none of its.
LEMMA ChainApart ==
  ASSUME AliveInv, ChainInv, stage = "changes", UNCHANGED <<calls, valid>>, NEW o \in Obj,
         \A y \in Obj : y # o => /\ parent'[y] = parent[y] /\ home'[y] = home[y]
                                 /\ heap'[y] = heap[y],
         \A f \in FramesOf(calls) : f.fn \in Adding /\ f.fromCtor =>
           o \notin SelfAndAncestors(parent, f.obj)
  PROVE  ChainInv'
<1>0. parent \in [Obj -> ObjOrNull] /\ calls \in Seq(CallFrames)
  BY DEF AliveInv, Types
<1>1. HookAtHome /\ Chain
  BY DEF ChainInv
<1>2. ASSUME NEW f \in FramesOf(calls), f.fn \in Adding, f.fromCtor
      PROVE  /\ f.obj \in Obj /\ f.obj # o
             /\ SelfAndAncestors(parent', f.obj) \subseteq SelfAndAncestors(parent, f.obj)
             /\ SelfAndAncestors(parent, f.obj) \subseteq Obj
  <2>1. f.obj \in Obj
    BY <1>0, FramesTyped DEF CallFrames
  <2>2. /\ o \notin SelfAndAncestors(parent, f.obj) /\ f.obj \in SelfAndAncestors(parent, f.obj)
        /\ SelfAndAncestors(parent, f.obj) \subseteq Obj
    BY <1>0, <1>2, <2>1, AncestorsClosed
  <2>3. \A y \in SelfAndAncestors(parent, f.obj) : parent'[y] = parent[y]
    BY <2>2
  <2> QED
    BY <1>0, <2>1, <2>2, <2>3, AncestorsKept
<1>3. HookAtHome'
  BY <1>1, <1>2 DEF HookAtHome
<1>4. ASSUME NEW i \in DOMAIN calls, Tracker(calls[i]) PROVE Linked(calls, i, valid)'
  <2>1. Linked(calls, i, valid) /\ calls[i] \in FramesOf(calls)
    BY <1>1, <1>4 DEF Chain, FramesOf
  <2> PICK x \in Obj : x = calls[i].obj
    BY <1>2, <1>4, <2>1 DEF Tracker, Adding
  <2>2. /\ SelfAndAncestors(parent', x) \subseteq SelfAndAncestors(parent, x)
        /\ o \notin SelfAndAncestors(parent, x) /\ SelfAndAncestors(parent, x) \subseteq Obj /\ x # o
    BY <1>2, <1>4, <2>1 DEF Tracker, Adding
  <2>3. FilterObject(x)' => FilterObject(x)
    BY <2>2 DEF FilterObject
  <2>4. parent'[x] = parent[x]
    BY <2>2
  <2> QED
    BY <2>1, <2>3, <2>4 DEF Linked
<1>5. Chain'
  BY <1>4 DEF Chain, Tracker
<1> QED
  BY <1>3, <1>5 DEF ChainInv

\* The target.
LEMMA TargetKeepsChain ==
  ASSUME AliveInv, HomeInv, ChainInv, Target \/ Constructors
  PROVE  ChainInv'
<1> USE DEF heapVars, loopVars, callVars
<1>0. /\ parent \in [Obj -> ObjOrNull] /\ home \in [Obj -> Thread] /\ heap \in [Obj -> {"free", "base"} \cup Alive]
      /\ calls \in Seq(CallFrames)
  BY DEF AliveInv, Types
<1>1. CASE stage' # "changes"
  BY <1>1, NoChain
<1>2. ASSUME stage = "changes", UNCHANGED <<calls, valid>>, NEW o \in Obj, home[o] = "worker",
             UNCHANGED home,
             \A y \in Obj : y # o => parent'[y] = parent[y] /\ heap'[y] = heap[y]
      PROVE  ChainInv'
  <2>1. ASSUME NEW f \in FramesOf(calls), f.fn \in Adding, f.fromCtor
        PROVE  o \notin SelfAndAncestors(parent, f.obj)
    <3>1. f.obj \in Obj /\ home[f.obj] = "main"
      BY <1>0, <1>2, <2>1, FramesTyped DEF CallFrames, ChainInv, HookAtHome
    <3>2. \A y \in SelfAndAncestors(parent, f.obj) : home[y] = home[f.obj]
      <4> PICK x \in Obj : x = f.obj
        BY <3>1
      <4> QED
        BY <1>0, AncestorsHome DEF HomeInv, SameHome
    <3> QED
      BY <1>2, <3>1, <3>2
  <2> QED
    BY <1>2, <2>1, ChainApart
<1>3. ASSUME stage = "changes", NEW o \in Obj, NEW p \in ObjOrNull, NEW guarded \in BOOLEAN,
             Construct(o, p, guarded)
      PROVE  ChainInv'
  <2> DEFINE f == CtorCall(o)
  <2>1. /\ InToolInit /\ home' = [home EXCEPT ![o] = "main"]
        /\ calls' = calls \/ calls' = <<f>> \o calls
    BY <1>3 DEF Construct, MainIdle, Occupy
  <2>2. calls # << >> /\ Head(calls).fn \notin Adding
    BY <2>1 DEF InToolInit, Adding
  <2>3. f \in CallFrames /\ f.fn = "objectAdded" /\ f.obj = o
    BY NewFrames DEF CtorCall
  <2> HIDE DEF f
  <2>4. FramesOf(calls') \subseteq {f} \cup FramesOf(calls)
    BY <1>0, <2>1, <2>3, PushFrame
  <2>5. \A x \in Obj : home'[x] = home[x] \/ home'[x] = "main"
    BY <1>0, <2>1
  <2>6. ASSUME NEW k \in FramesOf(calls')
        PROVE  \/ k \in FramesOf(calls) /\ (k.fn \in Adding /\ k.fromCtor => home'[k.obj] = home[k.obj])
               \/ k.fn \in Adding /\ k.fromCtor => k.fn = "objectAdded" /\ home'[k.obj] = "main"
    <3>1. CASE k = f
      BY <1>0, <2>1, <2>3, <3>1
    <3>2. CASE k \in FramesOf(calls)
      <4>1. k.obj \in Obj
        BY <1>0, <3>2, FramesTyped DEF CallFrames
      <4>2. k.fn \in Adding /\ k.fromCtor => home[k.obj] = "main"
        BY <1>3, <3>2 DEF ChainInv, HookAtHome
      <4> QED
        BY <2>5, <3>2, <4>1, <4>2
    <3> QED
      BY <2>4, <3>1, <3>2
  <2> QED
    BY <1>0, <1>3, <2>2, <2>6, ChainFree
<1>4. ASSUME stage = "changes", NEW o \in Obj, NEW p \in ObjOrNull, ConstructInWorker(o, p)
      PROVE  ChainInv'
  <2>1. /\ UNCHANGED <<calls, valid>> /\ heap[o] = "free"
        /\ \A y \in Obj : y # o => parent'[y] = parent[y] /\ home'[y] = home[y] /\ heap'[y] = heap[y]
    BY <1>0, <1>4 DEF ConstructInWorker, Occupy
  <2>2. \A y \in Obj : parent[y] # o
    BY <2>1, ObjAssumption DEF AliveInv, ParentsAlive, Alive
  <2>3. ASSUME NEW f \in FramesOf(calls), f.fn \in Adding, f.fromCtor
        PROVE  o \notin SelfAndAncestors(parent, f.obj)
    <3>1. f.obj \in Obj
      BY <1>0, FramesTyped DEF CallFrames
    <3>2. heap[f.obj] \in Alive
      BY <2>3 DEF AliveInv, FramesAlive, Adding
    <3>3. f.obj # o
      BY <2>1, <3>2 DEF Alive
    <3> PICK x \in Obj : x = f.obj
      BY <3>1
    <3> PICK new : new = parent
      OBVIOUS
    <3>4. \A y \in Obj : y # o => new[y] = parent[y]
      OBVIOUS
    <3>5. o \notin SelfAndAncestors(parent, x)
      BY <1>0, <2>2, <3>3, <3>4, ChildlessAncestors
    <3> QED
      BY <3>5
  <2> QED
    BY <1>4, <2>1, <2>3, ChainApart
<1>5. ASSUME stage = "changes", NEW o \in Obj, NEW p \in ObjOrNull, NEW widget \in BOOLEAN,
             SetParent(o, p, widget)
      PROVE  ChainInv'
  <2>1. home[o] = "worker"
    BY <1>0, <1>5 DEF SetParent, MainIdle, Thread
  <2>2. /\ UNCHANGED <<calls, valid, home>>
        /\ \A y \in Obj : y # o => parent'[y] = parent[y] /\ heap'[y] = heap[y]
    BY <1>0, <1>5, <2>1 DEF SetParent
  <2> QED
    BY <1>2, <1>5, <2>1, <2>2
<1>6. ASSUME stage = "changes", NEW o \in Obj, Destroy(o)
      PROVE  ChainInv'
  <2>1. InToolInit /\ home' = [home EXCEPT ![o] = "main"] /\ UNCHANGED calls
    BY <1>6 DEF Destroy, MainIdle, LockFree
  <2>2. calls # << >> /\ Head(calls).fn \notin Adding
    BY <2>1 DEF InToolInit, Adding
  <2>3. ASSUME NEW k \in FramesOf(calls), k.fn \in Adding, k.fromCtor
        PROVE  home'[k.obj] = home[k.obj]
    <3>1. k.obj \in Obj
      BY <1>0, FramesTyped DEF CallFrames
    <3>2. home[k.obj] = "main"
      BY <1>6, <2>3 DEF ChainInv, HookAtHome
    <3> QED
      BY <1>0, <2>1, <3>1, <3>2
  <2> QED
    BY <1>0, <1>6, <2>1, <2>2, <2>3, ChainFree
<1>7. ASSUME stage = "changes", NEW o \in Obj, FinishConstructor(o)
      PROVE  ChainInv'
  <2>1. UNCHANGED <<calls, valid, home, parent>> /\ \A y \in Obj : y # o => heap'[y] = heap[y]
    BY <1>0, <1>7 DEF FinishConstructor
  <2>2. CASE home[o] = "worker"
    BY <1>2, <1>7, <2>1, <2>2
  <2>3. CASE home[o] # "worker"
    <3>1. InToolInit
      BY <1>0, <1>7, <2>3 DEF FinishConstructor, MainIdle, Thread
    <3>2. calls # << >> /\ Head(calls).fn \notin Adding
      BY <3>1 DEF InToolInit, Adding
    <3> QED
      BY <1>0, <1>7, <2>1, <3>2, ChainFree
  <2> QED
    BY <2>2, <2>3
<1>8. ASSUME stage = "changes", NEW o \in Obj, HookInWorker(o) \/ ReceiveEvent(o)
      PROVE  FALSE
  BY <1>8 DEF HookInWorker, ReceiveEvent, LockFree, MainIdle
<1>9. UNCHANGED stage
  BY DEF Target, Constructors, Construct, ConstructInWorker, SetParent, Destroy, ReceiveEvent,
         HookInWorker, FinishConstructor
<1> QED
  BY <1>1, <1>3, <1>4, <1>5, <1>6, <1>7, <1>8, <1>9 DEF Target, Constructors

\* Start-up and drains: there is no such call.
LEMMA LoopsKeepChain ==
  ASSUME AliveInv, ChainInv, StartUp \/ Drain
  PROVE  ChainInv'
<1> USE DEF loopVars, callVars
<1>1. \/ stage' # "changes"
      \/ /\ calls = << >>
         /\ calls' = << >> \/ \E x : calls' = <<Call("objectFullyConstructed", x)>>
  BY DEF StartUp, InstallHooks, CreateProbe, AddNext, AddedAll, FindNext, DelayedInit, InEventLoop,
         Drain, DeliverStart, TimerFires, StartDrain, DrainChange, ClearQueue, DrainReparent,
         FinishDrain
<1>2. ASSUME calls' = << >> \/ \E x : calls' = <<Call("objectFullyConstructed", x)>>
      PROVE  HookAtHome' /\ Chain'
  <2>1. \A i \in DOMAIN calls' : calls'[i].fn \notin Adding
    BY <1>2 DEF Call, Adding
  <2> QED
    BY <2>1 DEF HookAtHome, Chain, FramesOf, Tracker, Adding
<1> QED
  BY <1>1, <1>2 DEF ChainInv

\* What the calls of a next state have to be.
LEMMA ChainMade ==
  ASSUME NEW s, NEW known, calls' = s, valid' = known, UNCHANGED parent,
         \A x : FilterObject(x)' <=> FilterObject(x),
         \A i \in DOMAIN s : Tracker(s[i]) => Linked(s, i, known)
  PROVE  Chain'
<1> SUFFICES ASSUME NEW i \in DOMAIN calls', Tracker(calls'[i]) PROVE Linked(calls, i, valid)'
  BY DEF Chain, Tracker
<1>1. Linked(s, i, known)
  OBVIOUS
<1> QED
  BY <1>1 DEF Linked

\* objectAdded() looks at its object, and at its parent before that.
LEMMA AddedKeepsChain ==
  ASSUME AliveInv, HomeInv, ChainInv, stage = "changes", calls # << >>, NEW o \in Obj,
         o = Head(calls).obj, AddedMove(o), UNCHANGED <<parent, heap, home>>
  PROVE  ChainInv'
<1>0. /\ parent \in [Obj -> ObjOrNull] /\ calls \in Seq(CallFrames)
      /\ Tail(calls) \in Seq(CallFrames) /\ Head(calls) \in CallFrames
  BY PopFrame, FramesTyped DEF AliveInv, Types
<1> PICK h \in CallFrames : h = Head(calls)
  BY <1>0
<1> DEFINE t == Tail(calls)
           r == RestFrame(h)
           q == ParentFrame(h)
<1>1. HookAtHome /\ Chain /\ h.fn = "objectAdded" /\ h.obj = o /\ valid' = valid
  BY DEF ChainInv, AddedMove
<1>2. /\ r \in CallFrames /\ r.fn = "trackObject" /\ r.obj = o /\ r.fromCtor = h.fromCtor
      /\ parent[o] \in Obj =>
           /\ q \in CallFrames /\ q.fn = "objectAdded" /\ q.obj = parent[o]
           /\ q.fromCtor = h.fromCtor
  BY <1>1 DEF CallFrames, Functions, RestFrame, ParentFrame
<1>3. /\ h = calls[1] /\ h \in FramesOf(calls)
      /\ \A i \in DOMAIN t : i \in Nat /\ i >= 1 /\ i + 1 \in DOMAIN calls /\ t[i] = calls[i + 1]
  BY <1>0, Positions DEF FramesOf
<1>4. Instance
  BY DEF AliveInv, BeforeQuiet, Instance
<1>5. /\ h.fromCtor => home[o] = "main" /\ (parent[o] \in Obj => home[parent[o]] = "main")
      /\ \A x : FilterObject(x)' <=> FilterObject(x)
  <2>1. \A x : FilterObject(x)' <=> FilterObject(x)
    BY DEF FilterObject
  <2> QED
    BY <1>1, <1>3, <2>1, ObjAssumption DEF HookAtHome, HomeInv, SameHome, Adding
<1> HIDE DEF r, q, t
<1>6. \/ calls' = t /\ (FilterObject(o) \/ o \in valid)
      \/ /\ ~FilterObject(o)
         /\ \/ parent[o] \in valid \cup {Null} /\ calls' = <<r>> \o t
            \/ parent[o] \in Obj /\ calls' = <<q>> \o (<<r>> \o t)
  BY <1>4 DEF AddedMove, r, q, t
<1>7. HookAtHome'
  <2>1. t \in Seq(CallFrames) /\ FramesOf(t) \subseteq FramesOf(calls)
    BY <1>0, PopFrame DEF t
  <2>2. FramesOf(<<r>> \o t) = {r} \cup FramesOf(t) /\ <<r>> \o t \in Seq(CallFrames)
    BY <1>2, <2>1, PushFrame
  <2>3. parent[o] \in Obj => FramesOf(<<q>> \o (<<r>> \o t)) = {q} \cup FramesOf(<<r>> \o t)
    BY <1>2, <2>2, PushFrame
  <2>4. \A f \in FramesOf(calls') :
          f \in FramesOf(calls) \/ f = r \/ (parent[o] \in Obj /\ f = q)
    BY <1>6, <2>1, <2>2, <2>3
  <2> QED
    BY <1>1, <1>2, <1>5, <2>4 DEF HookAtHome
<1>8. CASE calls' = t /\ (FilterObject(o) \/ o \in valid)
  <2>1. ASSUME NEW i \in DOMAIN t, Tracker(t[i]) PROVE Linked(t, i, valid)
    <3>1. i \in Nat /\ i >= 1 /\ i + 1 \in DOMAIN calls /\ t[i] = calls[i + 1]
      BY <1>3
    <3>2. Linked(calls, i + 1, valid)
      BY <1>1, <2>1, <3>1 DEF Chain
    <3> PICK x : x = t[i].obj
      OBVIOUS
    <3>3. /\ ~FilterObject(x) /\ calls[i].obj = parent[x]
          /\ \A j \in 1..(i + 1) : calls[j].fn \in Adding /\ calls[j].fromCtor
      BY <3>1, <3>2 DEF Linked
    <3>4. \A j \in 1..i : t[j].fn \in Adding /\ t[j].fromCtor
      <4> SUFFICES ASSUME NEW j \in 1..i PROVE t[j].fn \in Adding /\ t[j].fromCtor
        OBVIOUS
      <4>1. t \in Seq(CallFrames)
        BY <1>0 DEF t
      <4>2. j \in DOMAIN t
        BY <3>1, <4>1
      <4>3. t[j] = calls[j + 1] /\ j + 1 \in 1..(i + 1)
        BY <1>3, <3>1, <4>2
      <4> QED
        BY <3>3, <4>3
    <3>5. i = 1 => parent[x] \in valid
      <4> SUFFICES ASSUME i = 1, parent[x] \notin valid PROVE FALSE
        OBVIOUS
      <4>1. parent[x] = o /\ FilterObject(o) /\ x \in Obj
        <5>1. t[i] \in CallFrames
          BY <1>0 DEF t
        <5> QED
          BY <1>1, <1>3, <1>8, <3>3, <5>1 DEF CallFrames
      <4>2. SelfAndAncestors(parent, x) = {x} \cup SelfAndAncestors(parent, o)
        BY <1>0, <4>1, AncestorsOfParent, ObjAssumption
      <4> QED
        BY <3>3, <4>1, <4>2 DEF FilterObject
    <3>6. i > 1 => t[i - 1].obj = parent[x]
      <4> SUFFICES ASSUME i > 1 PROVE t[i - 1].obj = parent[x]
        OBVIOUS
      <4>1. t \in Seq(CallFrames)
        BY <1>0 DEF t
      <4>2. i - 1 \in DOMAIN t
        BY <3>1, <4>1
      <4>3. t[i - 1] = calls[i - 1 + 1] /\ i - 1 + 1 = i
        BY <1>3, <3>1, <4>2
      <4> QED
        BY <3>3, <4>3
    <3> QED
      BY <1>1, <1>5, <1>8, <3>3, <3>4, <3>5, <3>6 DEF Linked
  <2>2. Chain'
    BY <1>1, <1>5, <1>8, <2>1, ChainMade
  <2> QED
    BY <1>7, <2>2 DEF ChainInv
<1>9. CASE /\ ~FilterObject(o) /\ parent[o] \in valid \cup {Null} /\ calls' = <<r>> \o t
  <2> DEFINE s == <<r>> \o t
  <2>1. /\ s[1] = r
        /\ \A i \in DOMAIN s : /\ i \in Nat /\ i >= 1
                               /\ i > 1 => i \in DOMAIN calls /\ s[i] = calls[i]
    <3>1. /\ t \in Seq(CallFrames) /\ s[1] = r
          /\ \A i \in DOMAIN s : i \in Nat /\ i >= 1
                                 /\ (i > 1 => i - 1 \in DOMAIN t /\ s[i] = t[i - 1])
      BY <1>0, <1>2, Positions DEF t
    <3>2. ASSUME NEW i \in DOMAIN s, i > 1 PROVE i \in DOMAIN calls /\ s[i] = calls[i]
      <4>1. i \in Nat /\ i - 1 + 1 = i
        BY <3>1
      <4> QED
        BY <1>3, <3>1, <3>2, <4>1
    <3> HIDE DEF s
    <3> QED
      BY <3>1, <3>2
  <2>2. s \in Seq(CallFrames)
    BY <1>0, <1>2 DEF t
  <2> HIDE DEF s
  <2>3. ASSUME NEW i \in DOMAIN s, Tracker(s[i]) PROVE Linked(s, i, valid)
    <3>1. CASE i = 1
      BY <1>1, <1>2, <1>5, <1>9, <2>1, <2>3, <3>1 DEF Linked, Tracker, Adding
    <3>2. CASE i # 1
      <4>1. i \in Nat /\ i > 1 /\ i \in DOMAIN calls /\ s[i] = calls[i]
        BY <2>1, <3>2
      <4>2. Linked(calls, i, valid)
        BY <1>1, <2>3, <4>1 DEF Chain
      <4> PICK x : x = s[i].obj
        OBVIOUS
      <4>3. /\ ~FilterObject(x) /\ calls[i - 1].obj = parent[x]
            /\ \A j \in 1..i : calls[j].fn \in Adding /\ calls[j].fromCtor
        BY <4>1, <4>2 DEF Linked
      <4>4. \A j \in 1..i : j \in DOMAIN s /\ (j > 1 => s[j] = calls[j])
        BY <2>1, <2>2, <4>1
      <4>5. h.fromCtor
        BY <1>3, <4>1, <4>3
      <4>6. \A j \in 1..i : s[j].fn \in Adding /\ s[j].fromCtor
        BY <1>2, <2>1, <4>3, <4>4, <4>5 DEF Adding
      <4>7. s[i - 1].obj = parent[x]
        <5>1. CASE i = 2
          BY <1>1, <1>2, <1>3, <2>1, <4>3, <5>1
        <5>2. CASE i # 2
          <6>1. i - 1 \in 1..i /\ i - 1 > 1
            BY <4>1, <5>2
          <6> QED
            BY <4>3, <4>4, <6>1
        <5> QED
          BY <5>1, <5>2
      <4> QED
        BY <1>1, <1>5, <4>1, <4>3, <4>6, <4>7 DEF Linked
    <3> QED
      BY <3>1, <3>2
  <2>4. Chain'
    <3>1. calls' = s
      BY <1>9 DEF s
    <3> QED
      BY <1>1, <1>5, <2>3, <3>1, ChainMade
  <2> QED
    BY <1>7, <2>4 DEF ChainInv
<1>10. CASE /\ ~FilterObject(o) /\ parent[o] \in Obj /\ calls' = <<q>> \o (<<r>> \o t)
  <2> DEFINE u == <<r>> \o t
             s == <<q>> \o u
  <2>1. /\ t \in Seq(CallFrames) /\ u \in Seq(CallFrames) /\ s \in Seq(CallFrames)
    BY <1>0, <1>2, <1>10 DEF t
  <2>2. u[1] = r /\ \A i \in DOMAIN u : i \in Nat /\ i >= 1
                                       /\ (i > 1 => i - 1 \in DOMAIN t /\ u[i] = t[i - 1])
    BY <1>2, <2>1, Positions
  <2> HIDE DEF u
  <2>3. s[1] = q /\ \A i \in DOMAIN s : i \in Nat /\ i >= 1
                                       /\ (i > 1 => i - 1 \in DOMAIN u /\ s[i] = u[i - 1])
    BY <1>2, <1>10, <2>1, Positions
  <2> HIDE DEF s
  <2>4. \A i \in DOMAIN s : i \in Nat /\ i >= 1 /\ (i = 2 => s[i] = r)
                            /\ (i > 2 => i - 1 \in DOMAIN calls /\ s[i] = calls[i - 1])
    <3> SUFFICES ASSUME NEW i \in DOMAIN s, i >= 2
                 PROVE  /\ i = 2 => s[i] = r
                        /\ i > 2 => i - 1 \in DOMAIN calls /\ s[i] = calls[i - 1]
      BY <2>3
    <3>1. i \in Nat /\ i - 1 \in DOMAIN u /\ s[i] = u[i - 1]
      BY <2>3
    <3>2. CASE i = 2
      BY <2>2, <3>1, <3>2
    <3>3. CASE i > 2
      <4>1. i - 1 - 1 \in DOMAIN t /\ u[i - 1] = t[i - 1 - 1]
        BY <2>2, <3>1, <3>3
      <4>2. i - 1 - 1 + 1 = i - 1
        BY <3>1
      <4> QED
        BY <1>3, <3>1, <3>3, <4>1, <4>2
    <3> QED
      BY <3>1, <3>2, <3>3
  <2>5. ASSUME NEW i \in DOMAIN s, Tracker(s[i]) PROVE Linked(s, i, valid)
    <3>0. i \in Nat /\ i >= 1 /\ \A j \in 1..i : j \in DOMAIN s
      BY <2>1, <2>4
    <3>1. i # 1
      BY <1>2, <1>10, <2>3, <2>5 DEF Tracker
    <3>2. CASE i = 2
      <4>1. s[2] = r /\ s[1] = q
        BY <2>3, <2>4, <3>2
      <4>2. r.fromCtor /\ r.obj = o
        BY <1>2, <2>5, <3>2, <4>1 DEF Tracker
      <4>3. \A j \in 1..i : j = 1 \/ j = 2
        BY <3>2
      <4>4. \A j \in 1..i : s[j].fn \in Adding /\ s[j].fromCtor
        BY <1>2, <1>10, <4>1, <4>2, <4>3 DEF Adding
      <4> QED
        BY <1>2, <1>5, <1>10, <3>2, <4>1, <4>2, <4>4 DEF Linked
    <3>3. CASE i > 2
      <4>1. i - 1 \in DOMAIN calls /\ s[i] = calls[i - 1]
        BY <2>4, <3>3
      <4>2. Linked(calls, i - 1, valid)
        BY <1>1, <2>5, <4>1 DEF Chain
      <4> PICK x : x = s[i].obj
        OBVIOUS
      <4>3. /\ ~FilterObject(x) /\ calls[i - 1 - 1].obj = parent[x]
            /\ \A j \in 1..(i - 1) : calls[j].fn \in Adding /\ calls[j].fromCtor
        BY <3>0, <3>3, <4>1, <4>2 DEF Linked
      <4>4. h.fromCtor
        BY <1>3, <3>0, <3>3, <4>3
      <4>5. ASSUME NEW j \in 1..i PROVE s[j].fn \in Adding /\ s[j].fromCtor
        <5>1. CASE j = 1
          BY <1>2, <1>10, <2>3, <4>4, <5>1 DEF Adding
        <5>2. CASE j = 2
          BY <1>2, <2>4, <3>0, <4>4, <5>2 DEF Adding
        <5>3. CASE j > 2
          <6>1. s[j] = calls[j - 1] /\ j - 1 \in 1..(i - 1)
            BY <2>4, <3>0, <5>3
          <6> QED
            BY <4>3, <6>1
        <5> QED
          BY <5>1, <5>2, <5>3
      <4>6. s[i - 1].obj = parent[x]
        <5>1. i - 1 \in DOMAIN s /\ i - 1 >= 2
          BY <3>0, <3>3
        <5>2. CASE i - 1 = 2
          <6>1. s[i - 1] = r /\ i - 1 - 1 = 1
            BY <2>4, <5>1, <5>2
          <6> QED
            BY <1>1, <1>2, <1>3, <4>3, <6>1
        <5>3. CASE i - 1 > 2
          <6>1. s[i - 1] = calls[i - 1 - 1]
            BY <2>4, <5>1, <5>3
          <6> QED
            BY <4>3, <6>1
        <5> QED
          BY <3>0, <5>1, <5>2, <5>3
      <4> QED
        BY <1>1, <1>5, <3>3, <4>3, <4>5, <4>6 DEF Linked
    <3> QED
      BY <3>0, <3>1, <3>2, <3>3
  <2>6. Chain'
    <3>1. calls' = s
      BY <1>10 DEF s, u
    <3> QED
      BY <1>1, <1>5, <2>5, <3>1, ChainMade
  <2> QED
    BY <1>7, <2>6 DEF ChainInv
<1> QED
  BY <1>6, <1>8, <1>9, <1>10

\* The calls.
LEMMA CallsKeepChain ==
  ASSUME Inv, RestTyped, HomeInv, StackInv, ChainInv, Calls
  PROVE  ChainInv'
<1> AliveInv /\ ModelsTyped
  BY DEF Inv, RestTyped
<1>0. /\ calls # << >> /\ UNCHANGED <<parent, heap, home, stage>>
      /\ calls \in Seq(CallFrames) /\ Tail(calls) \in Seq(CallFrames)
      /\ FramesOf(Tail(calls)) \subseteq FramesOf(calls)
  <2>1. calls # << >> /\ UNCHANGED <<parent, heap, home, stage>>
    BY DEF Calls, ObjectAdded, TrackObject, ObjectFullyConstructed, ToolInitReturns, ObjectCreated,
           DiscoverObject, DiscoverChildren, ChildRemoved, ChildAdded, ParentChange, Running,
           heapVars, loopVars
  <2> QED
    BY <2>1, PopFrame DEF AliveInv, Types
<1>1. Head(calls) \in CallFrames /\ Head(calls).obj \in Obj /\ Head(calls) \in FramesOf(calls)
  BY <1>0, HeadFrame, PopFrame DEF AliveInv, Types
<1> PICK h \in CallFrames : h = Head(calls)
  BY <1>1
<1> PICK o \in Obj : o = Head(calls).obj
  BY <1>1
<1>2. CASE stage # "changes"
  BY <1>0, <1>2, NoChain
<1>3. ASSUME stage = "changes", h.fn \notin Adding \/ ~h.fromCtor,
             \A f \in FramesOf(calls') : f \in FramesOf(calls) \/ ~f.fromCtor
      PROVE  ChainInv'
  BY <1>0, <1>3, ChainFree
<1>4. ASSUME stage = "changes", h.fn \notin Adding \/ ~h.fromCtor,
             NEW fn \in Functions, NEW x \in Obj,
             calls' = Tail(calls) \/ calls' = <<Call(fn, x)>> \o Tail(calls)
      PROVE  ChainInv'
  <2> DEFINE c == Call(fn, x)
  <2>1. c \in CallFrames /\ ~c.fromCtor
    BY NewFrames DEF Call
  <2>2. calls' = Tail(calls) \/ calls' = <<c>> \o Tail(calls)
    BY <1>4
  <2> HIDE DEF c
  <2>3. FramesOf(calls') \subseteq {c} \cup FramesOf(calls)
    BY <1>0, <2>1, <2>2, PushFrame
  <2> QED
    BY <1>3, <1>4, <2>1, <2>3
<1>5. CASE stage = "changes" /\ AddedMove(o)
  BY <1>0, <1>5, AddedKeepsChain
<1>6. CASE stage = "changes" /\ TrackMove(o)
  <2>1. CASE h.fn = "trackObject" /\ ~h.fromCtor
    <3>1. /\ "objectFullyConstructed" \in Functions
          /\ calls' = Tail(calls) \/ calls' = <<Call("objectFullyConstructed", o)>> \o Tail(calls)
      BY <1>6 DEF TrackMove, Functions
    <3> QED
      BY <1>4, <1>6, <2>1, <3>1
  <2>2. CASE h.fn = "trackObject" /\ h.fromCtor
    <3> DEFINE t == Tail(calls)
    <3>1. calls' = t /\ valid' = valid \cup {o} /\ HookAtHome /\ Chain
      BY <1>6, <2>2 DEF TrackMove, ChainInv
    <3>2. HookAtHome'
      BY <1>0, <3>1 DEF HookAtHome
    <3>3. /\ h = calls[1]
          /\ \A i \in DOMAIN t : i \in Nat /\ i >= 1 /\ i + 1 \in DOMAIN calls
                                 /\ t[i] = calls[i + 1]
      BY <1>0, Positions
    <3>4. t \in Seq(CallFrames) /\ \A x : FilterObject(x)' <=> FilterObject(x)
      BY <1>0 DEF FilterObject
    <3> HIDE DEF t
    <3>5. ASSUME NEW i \in DOMAIN t, Tracker(t[i]) PROVE Linked(t, i, valid')
      <4>1. i \in Nat /\ i >= 1 /\ i + 1 \in DOMAIN calls /\ t[i] = calls[i + 1]
        BY <3>3
      <4>2. Linked(calls, i + 1, valid)
        BY <3>1, <3>5, <4>1 DEF Chain
      <4> PICK x : x = t[i].obj
        OBVIOUS
      <4>3. /\ ~FilterObject(x) /\ calls[i].obj = parent[x]
            /\ \A j \in 1..(i + 1) : calls[j].fn \in Adding /\ calls[j].fromCtor
        BY <4>1, <4>2 DEF Linked
      <4>4. ASSUME NEW j \in 1..i PROVE t[j].fn \in Adding /\ t[j].fromCtor
        <5>1. j \in DOMAIN t
          BY <3>4, <4>1
        <5>2. t[j] = calls[j + 1] /\ j + 1 \in 1..(i + 1)
          BY <3>3, <4>1, <5>1
        <5> QED
          BY <4>3, <5>2
      <4>5. i = 1 => parent[x] \in valid'
        BY <3>1, <3>3, <4>3
      <4>6. i > 1 => t[i - 1].obj = parent[x]
        <5> SUFFICES ASSUME i > 1 PROVE t[i - 1].obj = parent[x]
          OBVIOUS
        <5>1. i - 1 \in DOMAIN t
          BY <3>4, <4>1
        <5>2. t[i - 1] = calls[i - 1 + 1] /\ i - 1 + 1 = i
          BY <3>3, <4>1, <5>1
        <5> QED
          BY <4>3, <5>2
      <4> QED
        BY <1>0, <3>4, <4>3, <4>4, <4>5, <4>6 DEF Linked
    <3>6. Chain'
      BY <1>0, <3>1, <3>4, <3>5, ChainMade
    <3> QED
      BY <3>2, <3>6 DEF ChainInv
  <2> QED
    BY <1>6, <2>1, <2>2 DEF TrackMove
<1>7. CASE stage = "changes" /\ FullyMove(o)
  <2>1. h.fn \notin Adding /\ "toolInit" \in Functions
    BY <1>7 DEF FullyMove, Adding, Functions
  <2>2. CASE calls' = Tail(calls) \/ Continues(o, "toolInit")
    BY <1>4, <1>7, <2>1, <2>2 DEF Continues
  <2>3. ASSUME NEW a \in SelfAndAncestors(parent, o),
               calls' = <<Call("objectAdded", a), Call("toolInit", o)>> \o Tail(calls)
        PROVE  ChainInv'
    <3> DEFINE c == Call("objectAdded", a)
               d == Call("toolInit", o)
               u == <<d>> \o Tail(calls)
    <3>1. a \in Obj
      BY DEF SelfAndAncestors, Climb
    <3>2. c \in CallFrames /\ d \in CallFrames /\ ~c.fromCtor /\ ~d.fromCtor
      BY <3>1, NewFrames DEF Call, Functions
    <3>3. calls' = <<c, d>> \o Tail(calls)
      BY <2>3
    <3> HIDE DEF c, d
    <3>4. calls' = <<c>> \o u /\ u \in Seq(CallFrames) /\ FramesOf(u) = {d} \cup FramesOf(Tail(calls))
      BY <1>0, <3>2, <3>3, TwoFrames, PushFrame
    <3> HIDE DEF u
    <3>5. FramesOf(calls') = {c} \cup FramesOf(u)
      BY <3>2, <3>4, PushFrame
    <3> QED
      BY <1>0, <1>3, <1>7, <2>1, <3>2, <3>4, <3>5
  <2> QED
    BY <1>7, <2>2, <2>3 DEF FullyMove
<1>8. CASE stage = "changes" /\ CreatedMove(o)
  <2>1. h.fn \notin Adding /\ "toolInit" \in Functions /\ calls' = Tail(calls)
    BY <1>8 DEF CreatedMove, Adding, Functions
  <2> QED
    BY <1>4, <1>8, <2>1
<1>9. CASE stage = "changes" /\ h.fn = "toolInit" /\ Continues(o, "objectCreated")
  <2>1. h.fn \notin Adding /\ "objectCreated" \in Functions
    BY <1>9 DEF Adding, Functions
  <2> QED
    BY <1>4, <1>9, <2>1 DEF Continues
<1>10. CASE stage = "changes" /\ OutsideMove(o)
  BY <1>1, <1>10 DEF OutsideMove, StackInv, Sound
<1> QED
  BY <1>2, <1>5, <1>6, <1>7, <1>8, <1>9, <1>10, CallMoves

-----------------------------------------------------------------------------
(***************************************************************************)
(* A drain may come to the creation of an object that went meanwhile.  Only *)
(* a plugin's own objects go while it iterates, and nothing that is tracked *)
(* or being tracked without the queue is below one of them.                *)
(***************************************************************************)

Stale(d) == stage = "changes" /\ d \notin valid /\ Creates(d) > 0
Adds(s)  == {f \in FramesOf(s) : f.fn \in Adding /\ ~f.fromCtor}
Looked   == valid \cup {x \in Obj : \E f \in Adds(calls) : f.obj = x}
Alone(d) == d \in Ours /\ \A x \in Looked : d \notin SelfAndAncestors(parent, x)

StaleInv == \A d \in Once : Stale(d) => Alone(d)

\* A step that adds nothing stale and looks at nothing below it.
LEMMA StaleStep ==
  ASSUME StaleInv, Once' \subseteq Once,
         \A d \in Once' : Stale(d)' => Stale(d),
         \A d \in Once', x \in Looked' : Stale(d)' /\ d \in SelfAndAncestors(parent', x) =>
            \E y \in Looked : d \in SelfAndAncestors(parent, y)
  PROVE  StaleInv'
<1> SUFFICES ASSUME NEW d \in Once', Stale(d)' PROVE Alone(d)'
  BY DEF StaleInv
<1>1. Alone(d)
  BY DEF StaleInv
<1>2. ASSUME NEW x \in Looked' PROVE d \notin SelfAndAncestors(parent', x)
  BY <1>1, <1>2 DEF Alone
<1> QED
  BY <1>1, <1>2 DEF Alone

\* Nothing is stale outside the loop over the changes.
LEMMA NoneStale ==
  ASSUME stage' # "changes"
  PROVE  StaleInv'
  BY DEF StaleInv, Stale

\* A step that changes nothing here.
LEMMA StaleSame ==
  ASSUME StaleInv, Once' \subseteq Once, UNCHANGED <<parent, stage, todo, valid, calls>>
  PROVE  StaleInv'
<1>1. CASE stage # "changes"
  BY <1>1, NoneStale
<1>2. CASE stage = "changes"
  <2>1. \A d : Creates(d)' = Creates(d)
    BY <1>2 DEF Creates, Due
  <2> QED
    BY <1>2, <2>1 DEF StaleInv, Stale, Alone, Looked, Adds
<1> QED
  BY <1>1, <1>2

\* What is looked at is alive, and one of Obj.
LEMMA LookedAlive ==
  ASSUME AliveInv
  PROVE  \A x \in Looked : x \in Obj /\ heap[x] \in Alive
<1>1. \A x \in valid : x \in Obj /\ heap[x] \in Alive
  BY DEF AliveInv, Types, TrackedAlive
<1>2. ASSUME NEW x \in Obj, NEW f \in Adds(calls), f.obj = x PROVE heap[x] \in Alive
  BY <1>2 DEF Adds, Adding, AliveInv, FramesAlive
<1> SUFFICES ASSUME NEW x \in Looked PROVE x \in Obj /\ heap[x] \in Alive
  OBVIOUS
<1>3. CASE x \in valid
  BY <1>1, <1>3
<1>4. CASE x \in Obj /\ \E f \in Adds(calls) : f.obj = x
  BY <1>2, <1>4
<1> QED
  BY <1>3, <1>4 DEF Looked

\* A construction: the new object is below others, and nothing is below it.
LEMMA OccupyKeepsStale ==
  ASSUME AliveInv, StaleInv, Once' \subseteq Once, NEW o \in Obj, NEW p \in ObjOrNull, NEW t,
         NEW s, Occupy(o, p, t, s),
         UNCHANGED <<valid, stage, todo>>,
         FramesOf(calls') \subseteq {CtorCall(o)} \cup FramesOf(calls)
  PROVE  StaleInv'
<1>1. /\ heap[o] = "free" /\ "free" \notin Alive /\ parent' = [parent EXCEPT ![o] = p]
      /\ parent \in [Obj -> ObjOrNull]
  BY DEF Occupy, Alive, AliveInv, Types
<1>2. \A y \in Obj : parent[y] # o
  BY <1>1, ObjAssumption DEF AliveInv, ParentsAlive
<1>3. CASE stage # "changes"
  BY <1>3, NoneStale
<1>4. CASE stage = "changes"
  <2>1. \A d : Creates(d)' = Creates(d)
    BY <1>4 DEF Creates, Due
  <2>2. \A d : Stale(d)' => Stale(d)
    BY <1>4, <2>1 DEF Stale
  <2>3. Looked' \subseteq Looked
    <3>1. CtorCall(o).fromCtor
      BY DEF CtorCall
    <3>2. ASSUME NEW f \in Adds(calls') PROVE f \in Adds(calls)
      BY <3>1 DEF Adds
    <3> QED
      BY <3>2 DEF Looked
  <2>4. ASSUME NEW x \in Looked'
        PROVE  x \in Looked /\ SelfAndAncestors(parent', x) \subseteq SelfAndAncestors(parent, x)
    <3>1. x \in Looked /\ x \in Obj /\ x # o
      BY <1>1, <2>3, <2>4, LookedAlive
    <3>2. \A y \in Obj : y # o => parent'[y] = parent[y]
      BY <1>1
    <3> QED
      BY <1>1, <1>2, <3>1, <3>2, ChildlessAncestors
  <2> QED
    BY <2>2, <2>4, StaleStep
<1> QED
  BY <1>3, <1>4

\* ~QObject() of a plugin's own object may leave its creation behind.
LEMMA DestroyKeepsStale ==
  ASSUME AliveInv, StaleInv, Once' \subseteq Once, NEW o \in Obj, Destroy(o)
  PROVE  StaleInv'
<1>1. /\ UNCHANGED <<stage, todo, calls>> /\ (valid' = valid \/ valid' = valid \ {o})
      /\ parent' = [parent EXCEPT ![o] = Null] /\ parent \in [Obj -> ObjOrNull]
      /\ \A y \in Obj : parent[y] # o
  BY DEF Destroy, ObjectRemoved, RemovedBefore, RemovedHere, RemovedElsewhere, loopVars, callVars,
         AliveInv, Types, ChildrenOf
<1>2. CASE stage # "changes"
  BY <1>1, <1>2, NoneStale
<1>3. CASE stage = "changes"
  <2>1. o \in Ours /\ \A i \in DOMAIN calls : calls[i].obj # o
    BY <1>3 DEF Destroy, MainIdle, LockFree
  <2>2. \A d : Creates(d)' = Creates(d)
    BY <1>1, <1>3 DEF Creates, Due
  <2>3. ASSUME NEW d \in Once', Stale(d)' PROVE d = o \/ Alone(d)
    BY <1>1, <1>3, <2>2, <2>3 DEF Stale, StaleInv
  <2>4. ASSUME NEW x \in Looked', x # o
        PROVE  /\ o \notin SelfAndAncestors(parent', x)
               /\ x \in Looked /\ SelfAndAncestors(parent', x) \subseteq SelfAndAncestors(parent, x)
    <3>1. x \in Looked /\ x \in Obj
      BY <1>1, <2>4, LookedAlive DEF Looked, Adds
    <3>2. \A y \in Obj : y # o => parent'[y] = parent[y]
      BY <1>1
    <3>3. /\ o \notin SelfAndAncestors(parent, x)
          /\ SelfAndAncestors(parent', x) \subseteq SelfAndAncestors(parent, x)
      BY <1>1, <2>4, <3>1, <3>2, ChildlessAncestors
    <3> QED
      BY <3>1, <3>3
  <2>5. CASE valid' = valid \ {o}
    <3>1. o \notin Looked'
      <4>1. \A f \in Adds(calls) : f.obj # o
        BY <2>1 DEF Adds, FramesOf
      <4> QED
        BY <1>1, <2>5, <4>1 DEF Looked
    <3>2. ASSUME NEW d \in Once', Stale(d)' PROVE Alone(d)'
      <4>1. d \in Ours
        BY <2>1, <2>3, <3>2 DEF Alone
      <4>2. ASSUME NEW x \in Looked' PROVE d \notin SelfAndAncestors(parent', x)
        BY <2>3, <2>4, <3>1, <3>2, <4>2 DEF Alone
      <4> QED
        BY <4>1, <4>2 DEF Alone
    <3> QED
      BY <3>2 DEF StaleInv
  <2>6. CASE valid' = valid
    <3>1. \A d : Stale(d)' => Stale(d)
      BY <1>1, <1>3, <2>2, <2>6 DEF Stale
    <3>2. ASSUME NEW d \in Once', NEW x \in Looked', Stale(d)', d \in SelfAndAncestors(parent', x)
          PROVE  \E y \in Looked : d \in SelfAndAncestors(parent, y)
      <4>1. CASE x # o
        BY <2>4, <3>2, <4>1
      <4>2. CASE x = o
        <5>1. o \in Looked /\ parent' \in [Obj -> ObjOrNull] /\ parent'[o] = Null
          BY <1>1, <2>6, <3>2, <4>2 DEF Looked, Adds, ObjOrNull
        <5>2. d = o
          BY <3>2, <4>2, <5>1, AncestorsOfParent
        <5> QED
          BY <1>1, <5>1, <5>2, AncestorsClosed
      <4> QED
        BY <4>1, <4>2
    <3> QED
      BY <3>1, <3>2, StaleStep
  <2> QED
    BY <1>1, <2>5, <2>6
<1> QED
  BY <1>2, <1>3

\* While a drain runs only worker threads move objects, none of which is ours.
LEMMA SetParentKeepsStale ==
  ASSUME AliveInv, HomeInv, HomeInv', StaleInv, Once' \subseteq Once, NEW o \in Obj,
         NEW p \in ObjOrNull, NEW widget \in BOOLEAN, SetParent(o, p, widget)
  PROVE  StaleInv'
<1>1. /\ UNCHANGED <<valid, home, stage, todo>> /\ parent' = [parent EXCEPT ![o] = p]
      /\ parent \in [Obj -> ObjOrNull] /\ parent' \in [Obj -> ObjOrNull] /\ home \in [Obj -> Thread]
  BY DEF SetParent, loopVars, AliveInv, Types
<1>2. CASE stage # "changes"
  BY <1>1, <1>2, NoneStale
<1>3. CASE stage = "changes"
  <2>1. home[o] = "worker"
    BY <1>1, <1>3 DEF SetParent, MainIdle, Thread
  <2>2. UNCHANGED calls
    BY <2>1, SetParentFrames
  <2>3. \A d : Stale(d)' <=> Stale(d)
    BY <1>1, <1>3 DEF Stale, Creates, Due
  <2>4. Looked' = Looked /\ \A x \in Looked : x \in Obj
    BY <1>1, <2>2, LookedAlive DEF Looked, Adds
  <2>5. ASSUME NEW d \in Once', NEW x \in Looked', Stale(d)', d \in SelfAndAncestors(parent', x)
        PROVE  \E y \in Looked : d \in SelfAndAncestors(parent, y)
    <3>1. d \in Ours /\ x \in Looked /\ x \in Obj
      BY <2>3, <2>4, <2>5 DEF StaleInv, Alone
    <3>2. /\ \A y \in Obj : parent[y] # Null => home[parent[y]] = home[y]
          /\ \A y \in Obj : parent'[y] # Null => home[parent'[y]] = home[y]
          /\ \A y \in Obj : home[y] = "worker" => y \in WorkerObj
      BY <1>1 DEF HomeInv, SameHome, WorkerHome
    <3>3. home[x] # "worker"
      <4> SUFFICES ASSUME home[x] = "worker" PROVE FALSE
        OBVIOUS
      <4> PICK new \in [Obj -> ObjOrNull] : new = parent'
        BY <1>1
      <4> PICK hm : hm = home
        OBVIOUS
      <4>a. \A y \in Obj : new[y] # Null => hm[new[y]] = hm[y]
        BY <3>2
      <4>b. \A y \in SelfAndAncestors(new, x) : hm[y] = hm[x]
        BY <3>1, <4>a, AncestorsHome
      <4>1. home[d] = home[x]
        BY <2>5, <4>b
      <4> QED
        BY <3>1, <3>2, <4>1, TrackingAssumption
    <3>4. \A y \in SelfAndAncestors(parent, x) : y \in Obj /\ y # o
      BY <1>1, <2>1, <3>1, <3>2, <3>3, AncestorsHome, AncestorsClosed
    <3>5. \A y \in SelfAndAncestors(parent, x) : parent'[y] = parent[y]
      BY <1>1, <3>4
    <3>6. SelfAndAncestors(parent', x) \subseteq SelfAndAncestors(parent, x)
      BY <1>1, <3>1, <3>5, AncestorsKept
    <3> QED
      BY <2>5, <3>1, <3>6
  <2> QED
    BY <2>3, <2>5, StaleStep
<1> QED
  BY <1>2, <1>3

\* The target.
LEMMA TargetKeepsStale ==
  ASSUME AliveInv, HomeInv, HomeInv', StaleInv, Once' \subseteq Once, Target \/ Constructors
  PROVE  StaleInv'
<1> USE DEF heapVars, loopVars, callVars
<1>1. ASSUME NEW o \in Obj, NEW p \in ObjOrNull, NEW guarded \in BOOLEAN, Construct(o, p, guarded)
      PROVE  StaleInv'
  <2>1. /\ UNCHANGED <<valid, stage, todo>> /\ \E s : Occupy(o, p, "main", s)
        /\ calls' = calls \/ calls' = <<CtorCall(o)>> \o calls
    BY <1>1 DEF Construct
  <2>2. FramesOf(calls') \subseteq {CtorCall(o)} \cup FramesOf(calls)
    <3>1. calls \in Seq(CallFrames)
      BY DEF AliveInv, Types
    <3> QED
      BY <2>1, <3>1, NewFrames, PushFrame
  <2> QED
    BY <2>1, <2>2, OccupyKeepsStale
<1>2. ASSUME NEW o \in Obj, NEW p \in ObjOrNull, ConstructInWorker(o, p)
      PROVE  StaleInv'
  <2>1. UNCHANGED <<valid, stage, todo, calls>> /\ Occupy(o, p, "worker", "base")
    BY <1>2 DEF ConstructInWorker
  <2> QED
    BY <2>1, OccupyKeepsStale
<1>3. ASSUME NEW o \in Obj, HookInWorker(o) \/ ReceiveEvent(o)
      PROVE  StaleInv'
  BY <1>3, NoneStale DEF HookInWorker, ReceiveEvent, LockFree, MainIdle
<1>4. ASSUME NEW o \in Obj, FinishConstructor(o)
      PROVE  StaleInv'
  BY <1>4, StaleSame DEF FinishConstructor
<1> QED
  BY <1>1, <1>2, <1>3, <1>4, DestroyKeepsStale, SetParentKeepsStale DEF Target, Constructors

\* Start-up: nothing is iterated over.
LEMMA StartUpKeepsStale ==
  ASSUME AliveInv, StaleInv, Once' \subseteq Once, StartUp
  PROVE  StaleInv'
<1> USE DEF heapVars, loopVars, callVars
<1>1. CASE InstallHooks \/ DelayedInit
  BY <1>1, StaleSame DEF InstallHooks, DelayedInit
<1>2. CASE CreateProbe \/ AddNext \/ AddedAll \/ FindNext
  <2>1. stage' # "changes"
    BY <1>2 DEF CreateProbe, AddNext, AddedAll, FindNext
  <2> QED
    BY <2>1, NoneStale
<1> QED
  BY <1>1, <1>2 DEF StartUp

\* A drain: the copy is fresh, and shrinks.
LEMMA DrainKeepsStale ==
  ASSUME Inv, RestTyped, Rows, StaleInv, Once' \subseteq Once, Drain
  PROVE  StaleInv'
<1> USE DEF heapVars, loopVars, callVars
<1>1. CASE DeliverStart
  BY <1>1, StaleSame DEF DeliverStart
<1>2. CASE TimerFires \/ ClearQueue \/ DrainReparent \/ FinishDrain
  BY <1>2, NoneStale DEF TimerFires, ClearQueue, DrainReparent, FinishDrain
<1>3. CASE StartDrain
  <2>1. /\ stage # "changes" /\ stage' = "changes" /\ todo' = queue /\ valid' = valid
    BY <1>3 DEF StartDrain
  <2>2. \A d : Creates(d)' = Creates(d)
    BY <2>1 DEF Creates, Due
  <2>3. \A d \in Once' : ~Stale(d)'
    BY <2>1, <2>2 DEF Stale, Rows, Row
  <2> QED
    BY <2>3 DEF StaleInv
<1>4. CASE DrainChange
  <2>1. /\ stage = "changes" /\ stage' = "changes" /\ todo # << >> /\ todo' = Tail(todo)
        /\ calls = << >> /\ UNCHANGED <<valid, parent>>
    BY <1>4 DEF DrainChange
  <2>2. ASSUME NEW d, Stale(d)' PROVE Stale(d)
    <3> DEFINE c == Change("Create", d)
    <3>1. /\ Count(todo, c) = Count(Tail(todo), c) + One(Head(todo) = c)
          /\ One(Head(todo) = c) \in {0, 1}
      BY <2>1, DueTyped, CountTail DEF One
    <3>2. Creates(d) = Count(todo, c) /\ Creates(d)' = Count(Tail(todo), c)
      BY <2>1 DEF Creates, Due
    <3>3. Tail(todo) \in Seq(ObjectChanges)
      BY <2>1, DueTyped
    <3>4. Count(Tail(todo), c) \in Nat
      BY <3>3, CountTyped
    <3> HIDE DEF c
    <3>5. Creates(d) > 0
      BY <2>2, <3>1, <3>2, <3>4 DEF Stale
    <3> QED
      BY <2>1, <2>2, <3>5 DEF Stale
  <2>3. Looked' \subseteq Looked
    <3>1. \A f \in FramesOf(calls') : f.fn = "objectFullyConstructed"
      <4>1. calls' = << >> \/ calls' = <<Call("objectFullyConstructed", Head(todo).obj)>>
        BY <1>4, <2>1 DEF DrainChange
      <4> QED
        BY <4>1 DEF FramesOf, Call
    <3>2. Adds(calls') = {}
      BY <3>1 DEF Adds, Adding
    <3> QED
      BY <2>1, <3>2 DEF Looked, Adds
  <2> QED
    BY <2>1, <2>2, <2>3, StaleStep
<1> QED
  BY <1>1, <1>2, <1>3, <1>4 DEF Drain

\* What a call may newly look at.
LEMMA LookedGrows ==
  ASSUME NEW X \in SUBSET Obj,
         \A f \in FramesOf(calls') :
           f \in FramesOf(calls) \/ f.fn \notin Adding \/ f.fromCtor \/ f.obj \in X
  PROVE  Looked' \subseteq valid' \cup Looked \cup X
<1>1. \A f \in Adds(calls') : f \in Adds(calls) \/ f.obj \in X
  BY DEF Adds
<1> QED
  BY <1>1 DEF Looked, Adds

\* The calls: what they track has a tracked parent.
LEMMA CallsKeepStale ==
  ASSUME Inv, RestTyped, Rows, StackInv, ChainInv, StaleInv, Once' \subseteq Once, Calls
  PROVE  StaleInv'
<1> /\ AliveInv /\ ModelsTyped /\ parent \in [Obj -> ObjOrNull] /\ valid \subseteq Obj
    /\ Once' \subseteq Obj
  BY DEF Inv, AliveInv, Types, RestTyped, Once
<1>0. calls # << >> /\ UNCHANGED <<parent, stage, todo>>
  BY DEF Calls, ObjectAdded, TrackObject, ObjectFullyConstructed, ToolInitReturns, ObjectCreated,
         DiscoverObject, DiscoverChildren, ChildRemoved, ChildAdded, ParentChange, Running,
         heapVars, loopVars
<1>a. Head(calls) \in CallFrames /\ Head(calls).obj \in Obj /\ Head(calls) \in FramesOf(calls)
  BY <1>0, HeadFrame, PopFrame DEF AliveInv, Types
<1> PICK h \in CallFrames : h = Head(calls)
  BY <1>a
<1> PICK o \in Obj : o = Head(calls).obj
  BY <1>a
<1>1. /\ o = h.obj /\ calls \in Seq(CallFrames) /\ Tail(calls) \in Seq(CallFrames)
      /\ FramesOf(Tail(calls)) \subseteq FramesOf(calls) /\ h \in FramesOf(calls)
  BY <1>0, <1>a, HeadFrame DEF AliveInv, Types
<1>2. CASE stage # "changes"
  BY <1>0, <1>2, NoneStale
<1>3. CASE stage = "changes"
  <2>1. \A d : Creates(d)' = Creates(d)
    BY <1>0, <1>3 DEF Creates, Due
  \* What is new below a tracked object is below one looked at before.
  <2>2. ASSUME NEW X \in SUBSET Obj,
               \A f \in FramesOf(calls') :
                 f \in FramesOf(calls) \/ f.fn \notin Adding \/ f.fromCtor \/ f.obj \in X,
               \A d \in Once' : d \notin valid' /\ Creates(d) > 0 => d \notin valid,
               \A x \in X \cup (valid' \ valid) : \A d \in SelfAndAncestors(parent, x) :
                 d \in valid' \/ \E y \in Looked : d \in SelfAndAncestors(parent, y)
        PROVE  StaleInv'
    <3>1. Looked' \subseteq valid' \cup Looked \cup X
      BY <2>2, LookedGrows
    <3>2. \A d \in Once' : Stale(d)' => Stale(d)
      BY <1>0, <1>3, <2>1, <2>2 DEF Stale
    <3>3. ASSUME NEW d \in Once', NEW x \in Looked', Stale(d)', d \in SelfAndAncestors(parent', x)
          PROVE  \E y \in Looked : d \in SelfAndAncestors(parent, y)
      <4>1. d \notin valid' /\ d \in SelfAndAncestors(parent, x)
        BY <1>0, <3>3 DEF Stale
      <4>2. x \in Looked \/ x \in X \cup (valid' \ valid)
        BY <3>1, <3>3 DEF Looked, Adds
      <4> QED
        BY <2>2, <4>1, <4>2
    <3> QED
      BY <3>2, <3>3, StaleStep
  <2>3. ASSUME NEW f \in CallFrames, f.fn \notin Adding,
               calls' = Tail(calls) \/ calls' = <<f>> \o Tail(calls),
               valid' \subseteq valid,
               \A d \in Once' : d \notin valid' /\ Creates(d) > 0 => d \notin valid
        PROVE  StaleInv'
    <3> PICK X \in SUBSET Obj : X = {}
      OBVIOUS
    <3>1. FramesOf(calls') \subseteq {f} \cup FramesOf(calls)
      BY <1>1, <2>3, PushFrame
    <3>2. \A g \in FramesOf(calls') : g \in FramesOf(calls) \/ g.fn \notin Adding
      BY <2>3, <3>1
    <3> QED
      BY <2>2, <2>3, <3>2
  <2>4. \A fn \in Functions, x \in Obj :
           /\ Call(fn, x) \in CallFrames /\ Call(fn, x).fn = fn /\ Call(fn, x).obj = x
    BY NewFrames DEF Call
  \* An object objectAdded() is at was looked at, unless the hook called it.
  <2>b. ASSUME h.fn \in Adding, ~h.fromCtor PROVE o \in Looked
    BY <1>1, <2>b DEF Looked, Adds
  <2>5. CASE AddedMove(o)
    <3> DEFINE t == Tail(calls)
               r == RestFrame(h)
               q == ParentFrame(h)
    <3>1. h.fn = "objectAdded" /\ UNCHANGED valid
      BY <2>5 DEF AddedMove
    <3>2. /\ r \in CallFrames /\ r.obj = o /\ r.fromCtor = h.fromCtor
          /\ parent[o] \in Obj =>
               /\ q \in CallFrames /\ q.obj = parent[o] /\ q.fromCtor = h.fromCtor
      BY <1>1, <3>1 DEF CallFrames, Functions, RestFrame, ParentFrame
    <3> HIDE DEF r, q, t
    <3>3. t \in Seq(CallFrames) /\ FramesOf(t) \subseteq FramesOf(calls)
      BY <1>1 DEF t
    <3>4. FramesOf(<<r>> \o t) = {r} \cup FramesOf(t) /\ <<r>> \o t \in Seq(CallFrames)
      BY <3>2, <3>3, PushFrame
    <3>5. parent[o] \in Obj => FramesOf(<<q>> \o (<<r>> \o t)) = {q} \cup FramesOf(<<r>> \o t)
      BY <3>2, <3>4, PushFrame
    <3>6. \/ calls' = t \/ calls' = <<r>> \o t
          \/ parent[o] \in Obj /\ calls' = <<q>> \o (<<r>> \o t)
      BY <2>5 DEF AddedMove, r, q, t
    <3> PICK X \in SUBSET Obj : X = IF h.fromCtor THEN {} ELSE {o, parent[o]} \cap Obj
      OBVIOUS
    <3>7. \A f \in FramesOf(calls') : f \in FramesOf(calls) \/ f.fromCtor \/ f.obj \in X
      BY <3>2, <3>3, <3>4, <3>5, <3>6
    <3>8. ASSUME parent[o] \in Obj, NEW d \in SelfAndAncestors(parent, parent[o])
          PROVE  d \in SelfAndAncestors(parent, o)
      <4>1. parent[o] # Null
        BY <3>8, ObjAssumption
      <4>2. SelfAndAncestors(parent, o) = {o} \cup SelfAndAncestors(parent, parent[o])
        BY <4>1, AncestorsOfParent
      <4> QED
        BY <3>8, <4>2
    <3>9. \A x \in X : \A d \in SelfAndAncestors(parent, x) :
            \E y \in Looked : d \in SelfAndAncestors(parent, y)
      BY <2>b, <3>1, <3>8 DEF Adding
    <3> QED
      BY <2>2, <3>1, <3>7, <3>9
  <2>c. CASE TrackMove(o)
    <3> DEFINE c == Call("objectFullyConstructed", o)
    <3>1. /\ h.fn = "trackObject" /\ valid' = valid \cup {o}
          /\ c \in CallFrames /\ c.fn = "objectFullyConstructed"
          /\ calls' = Tail(calls) \/ calls' = <<c>> \o Tail(calls)
      BY <2>4, <2>c DEF TrackMove, Functions
    <3> HIDE DEF c
    <3>2. \A f \in FramesOf(calls') : f \in FramesOf(calls) \/ f.fn \notin Adding
      <4>1. FramesOf(<<c>> \o Tail(calls)) = {c} \cup FramesOf(Tail(calls))
        BY <1>1, <3>1, PushFrame
      <4> QED
        BY <1>1, <3>1, <4>1 DEF Adding
    <3> PICK X \in SUBSET Obj : X = {}
      OBVIOUS
    <3>3. ASSUME NEW d \in SelfAndAncestors(parent, o)
          PROVE  d = o \/ \E y \in Looked : d \in SelfAndAncestors(parent, y)
      <4>1. CASE ~h.fromCtor
        BY <2>b, <3>1, <4>1 DEF Adding
      <4>2. CASE h.fromCtor
        <5>1. parent[o] \in valid \cup {Null}
          <6>1. h = calls[1] /\ 1 \in DOMAIN calls
            BY <1>0, <1>1, Positions
          <6>2. Linked(calls, 1, valid)
            BY <1>3, <3>1, <4>2, <6>1 DEF ChainInv, Chain, Tracker
          <6> QED
            BY <1>1, <6>1, <6>2 DEF Linked
        <5>2. CASE parent[o] = Null
          BY <5>2, AncestorsOfParent
        <5>3. CASE parent[o] # Null
          <6>1. parent[o] \in Looked
            BY <5>1, <5>3 DEF Looked
          <6>2. SelfAndAncestors(parent, o) = {o} \cup SelfAndAncestors(parent, parent[o])
            BY <5>3, AncestorsOfParent
          <6> QED
            BY <6>1, <6>2
        <5> QED
          BY <5>2, <5>3
      <4> QED
        BY <4>1, <4>2
    <3> QED
      BY <2>2, <3>1, <3>2, <3>3
  <2>6. CASE FullyMove(o)
    <3> DEFINE t == Call("toolInit", o)
    <3>1. h.fn = "objectFullyConstructed" /\ t \in CallFrames /\ t.fn = "toolInit"
      BY <2>4, <2>6 DEF FullyMove, Functions
    <3>0. t.fn \notin Adding
      BY <3>1 DEF Adding
    <3>2. CASE calls' = Tail(calls) /\ valid' = valid \ {o}
      <4>1. o \in Once => Creates(o) = 0
        <5>1. CallsFor(calls, o) = CallsFor(Tail(calls), o) + One(Announces(Head(calls), o))
              /\ CallsFor(Tail(calls), o) \in Nat
          BY <1>0, <1>1, CallsPop
        <5>2. One(Announces(Head(calls), o)) = 1
          BY <1>1, <3>1 DEF One, Announces, Announcing
        <5>3. (o \in Once => Claims(o) <= 1) /\ Creates(o) \in Nat
          BY DueTyped DEF Rows, Row
        <5> QED
          BY <5>1, <5>2, <5>3 DEF Claims
      <4>2. \A d \in Once' : d \notin valid' /\ Creates(d) > 0 => d \notin valid
        BY <3>2, <4>1
      <4> QED
        BY <2>3, <3>0, <3>1, <3>2, <4>2
    <3>3. CASE Continues(o, "toolInit")
      BY <2>3, <3>0, <3>1, <3>3 DEF Continues
    <3>4. CASE /\ o \in valid /\ UNCHANGED valid
               /\ \E a \in SelfAndAncestors(parent, o) :
                    calls' = <<Call("objectAdded", a), t>> \o Tail(calls)
      <4> PICK a \in SelfAndAncestors(parent, o) :
                    calls' = <<Call("objectAdded", a), t>> \o Tail(calls)
        BY <3>4
      <4> DEFINE c == Call("objectAdded", a)
                 s == <<t>> \o Tail(calls)
      <4>1. a \in Obj
        BY AncestorsClosed
      <4>2. c \in CallFrames /\ c.obj = a
        BY <2>4, <4>1 DEF Functions
      <4>3. calls' = <<c, t>> \o Tail(calls)
        OBVIOUS
      <4> HIDE DEF c, t
      <4>4. calls' = <<c>> \o s
        BY <1>1, <3>1, <4>2, <4>3, TwoFrames
      <4>5. s \in Seq(CallFrames) /\ FramesOf(s) = {t} \cup FramesOf(Tail(calls))
        BY <1>1, <3>1, PushFrame
      <4> HIDE DEF s
      <4>6. FramesOf(calls') = {c} \cup FramesOf(s)
        BY <4>2, <4>4, <4>5, PushFrame
      <4> PICK X \in SUBSET Obj : X = {a}
        BY <4>1
      <4>7. \A f \in FramesOf(calls') : f \in FramesOf(calls) \/ f.fn \notin Adding \/ f.obj \in X
        BY <1>1, <3>0, <3>1, <4>2, <4>5, <4>6
      <4>8. \A d \in SelfAndAncestors(parent, a) : d \in SelfAndAncestors(parent, o)
        BY AncestorsOfAncestor
      <4>9. o \in Looked
        BY <3>4 DEF Looked
      <4> QED
        BY <2>2, <3>4, <4>7, <4>8, <4>9
    <3> QED
      BY <2>6, <3>2, <3>3, <3>4 DEF FullyMove
  <2>7. CASE CreatedMove(o)
    <3>1. Call("toolInit", o) \in CallFrames /\ Call("toolInit", o).fn = "toolInit"
      BY <2>4 DEF Functions
    <3> QED
      BY <2>3, <2>7, <3>1 DEF CreatedMove, Adding
  <2>8. CASE h.fn = "toolInit" /\ Continues(o, "objectCreated")
    <3>1. Call("objectCreated", o) \in CallFrames /\ Call("objectCreated", o).fn = "objectCreated"
      BY <2>4 DEF Functions
    <3> QED
      BY <2>3, <2>8, <3>1 DEF Continues, Adding
  <2>9. ~OutsideMove(o)
    BY <1>1, <1>3 DEF OutsideMove, StackInv, Sound
  <2> QED
    BY <2>5, <2>6, <2>7, <2>8, <2>9, <2>c, CallMoves
<1> QED
  BY <1>2, <1>3

-----------------------------------------------------------------------------
(***************************************************************************)
(* The balance is kept.                                                    *)
(***************************************************************************)

Numbers(o) ==
  /\ Creates(o) \in Nat /\ Destroys(o) \in Nat /\ CallsFor(calls, o) \in Nat
  /\ list[o] \in Nat

\* The counts of a state ...
LEMMA NumbersTyped ==
  ASSUME Inv, RestTyped, NEW o \in Obj
  PROVE  Numbers(o)
<1>1. list[o] \in Nat
  BY DEF Inv, AliveInv, Types
<1> QED
  BY <1>1, DueTyped DEF Numbers

\* ... and of the next.
LEMMA NewNumbersTyped ==
  ASSUME Inv', RestTyped', NEW o \in Obj
  PROVE  Numbers(o)'
<1>1. /\ queue' \in Seq(ObjectChanges) /\ todo' \in Seq(ObjectChanges)
      /\ calls' \in Seq(CallFrames) /\ list'[o] \in Nat
  BY DEF Inv, AliveInv, Types, QueueInv, QueueTyped, RestTyped, LoopTyped
<1>2. Due' \in Seq(ObjectChanges)
  BY <1>1 DEF Due
<1>3. Creates(o)' \in Nat /\ Destroys(o)' \in Nat
  BY <1>2, CountTyped DEF Creates, Destroys
<1>4. CallsFor(calls', o) \in Nat
  BY <1>1, CallsTyped
<1> QED
  BY <1>1, <1>3, <1>4 DEF Numbers

\* An object whose row and tracking stay, and whose claims do not grow.
LEMMA RowStays ==
  ASSUME NEW o \in Obj, Row(o), Numbers(o), Numbers(o)',
         o \in valid' <=> o \in valid, list'[o] = list[o], Destroys(o)' = Destroys(o),
         Claims(o)' <= Claims(o), stage' # "changes" /\ Creates(o)' > 0 => o \in valid
  PROVE  Row(o)'
<1>1. Claims(o) \in Nat /\ Claims(o)' \in Nat
  BY DEF Claims, Numbers
<1> QED
  BY <1>1 DEF Row, Numbers

\* A step that only takes calls off the stack, or none of what is counted.
LEMMA RowsStay ==
  ASSUME Inv, RestTyped, Inv', RestTyped', Rows, Once' \subseteq Once,
         UNCHANGED <<list, valid>>, Due' = Due,
         stage' # "changes" => stage # "changes" \/ Due = << >>,
         \A o \in Obj : CallsFor(calls', o) <= CallsFor(calls, o)
  PROVE  Rows'
<1> SUFFICES ASSUME NEW o \in Once' PROVE Row(o)'
  BY DEF Rows
<1> o \in Obj /\ o \in Once
  BY DEF Once
<1>1. Numbers(o) /\ Numbers(o)' /\ Row(o)
  BY NumbersTyped, NewNumbersTyped DEF Rows
<1>2. Creates(o)' = Creates(o) /\ Destroys(o)' = Destroys(o)
  BY DEF Creates, Destroys
<1>3. Claims(o)' <= Claims(o)
  BY <1>1, <1>2 DEF Claims, Numbers
<1>4. stage' # "changes" /\ Creates(o)' > 0 => o \in valid
  <2> SUFFICES ASSUME stage' # "changes", Creates(o) > 0 PROVE o \in valid
    BY <1>2
  <2>1. CASE stage # "changes"
    BY <1>1, <2>1 DEF Row
  <2>2. CASE Due = << >>
    <3>1. << >> \in Seq(ObjectChanges)
      OBVIOUS
    <3>2. Creates(o) = 0
      BY <2>2, <3>1, CountTyped DEF Creates
    <3> QED
      BY <3>2
  <2> QED
    BY <2>1, <2>2
<1> QED
  BY <1>1, <1>2, <1>3, <1>4, RowStays

\* A stack none of whose calls announces anything.
LEMMA CallsNone ==
  ASSUME NEW s \in Seq(CallFrames), NEW o, \A f \in FramesOf(s) : f.fn \notin Announcing
  PROVE  CallsFor(s, o) = 0
<1>1. ~ \E f \in FramesOf(s) : Announces(f, o)
  BY DEF Announces
<1> QED
  BY <1>1, CallsTyped

\* An object that is tracked no longer, with or without its row.
LEMMA RowGone ==
  ASSUME NEW o \in Obj, Row(o), Numbers(o), Numbers(o)', o \in valid, o \notin valid',
         \/ /\ list'[o] = IF list[o] > 0 THEN list[o] - 1 ELSE 0
            /\ Destroys(o)' = Destroys(o)
         \/ list'[o] = list[o] /\ Destroys(o)' = Destroys(o) + 1
         \/ list'[o] = list[o] /\ Destroys(o)' = Destroys(o) /\ Claims(o) = 1,
         Claims(o)' <= Claims(o), stage' # "changes" => Creates(o)' = 0
  PROVE  Row(o)'
<1>1. Claims(o) \in Nat /\ Claims(o)' \in Nat
  BY DEF Claims, Numbers
<1>2. Claims(o)' <= 1 /\ (stage' # "changes" => ~(Creates(o)' > 0))
  BY <1>1 DEF Row
<1>3. list'[o] <= Destroys(o)'
  BY <1>1 DEF Row, Numbers
<1> QED
  BY <1>2, <1>3 DEF Row

\* What a purge, and a purge with a new deletion, leave to a drain.
LEMMA DueAfterPurge ==
  ASSUME Inv, RestTyped, Rows, Once' \subseteq Once, UNCHANGED stage,
         stage = "changes" => todo' = todo,
         NEW o \in Obj, NEW late \in BOOLEAN,
         late => stage # "changes",
         queue' = IF late THEN Append(Purged(queue, o), Change("Destroy", o)) ELSE Purged(queue, o)
  PROVE  /\ \A x \in Obj : x # o => Creates(x)' = Creates(x) /\ Destroys(x)' = Destroys(x)
         /\ Destroys(o)' = IF late THEN Destroys(o) + 1 ELSE Destroys(o)
         /\ stage # "changes" /\ o \in Once => Creates(o)' = 0
         /\ stage = "changes" => Creates(o)' = Creates(o)
<1>1. CASE stage = "changes"
  <2>1. Due' = Due /\ ~late
    BY <1>1 DEF Due
  <2> QED
    BY <1>1, <2>1 DEF Creates, Destroys
<1>2. CASE stage # "changes"
  <2> DEFINE q == Purged(queue, o)
             d == Change("Destroy", o)
  <2>1. Due = queue /\ Due' = queue' /\ queue \in Seq(ObjectChanges)
    BY <1>2, DueTyped DEF Due
  <2>2. q \in Seq(ObjectChanges) /\ d \in ObjectChanges
    BY <2>1, PurgedTyped DEF Change, ObjectChanges, ChangeTypes
  <2>3. ASSUME NEW c
        PROVE  /\ Count(queue, c) \in Nat /\ Count(q, c) \in Nat
               /\ Count(queue, c) = Count(q, c) + One(c = Change("Create", o) /\ Count(queue, c) > 0)
               /\ queue' = q => Count(queue', c) = Count(q, c)
               /\ queue' = Append(q, d) =>
                    Count(queue', c) = IF d = c THEN Count(q, c) + 1 ELSE Count(q, c)
    BY <2>1, <2>2, CountTyped, CountPurged, CountGrows
  <2>4. IF late THEN queue' = Append(q, d) ELSE queue' = q
    OBVIOUS
  <2> HIDE DEF q
  <2>5. ASSUME NEW x \in Obj, x # o
        PROVE  Creates(x)' = Creates(x) /\ Destroys(x)' = Destroys(x)
    <3>1. /\ Change("Create", x) # Change("Create", o) /\ Change("Destroy", x) # Change("Create", o)
          /\ d # Change("Create", x) /\ d # Change("Destroy", x)
      BY <2>5 DEF Change
    <3>2. ASSUME NEW c, c # Change("Create", o), c # d PROVE Count(queue', c) = Count(queue, c)
      <4>1. One(c = Change("Create", o) /\ Count(queue, c) > 0) = 0
        BY <3>2 DEF One
      <4> QED
        BY <2>3, <2>4, <3>2, <4>1
    <3> HIDE DEF d
    <3> QED
      BY <2>1, <3>1, <3>2 DEF Creates, Destroys
  <2>6. Destroys(o)' = IF late THEN Destroys(o) + 1 ELSE Destroys(o)
    <3>1. One(d = Change("Create", o) /\ Count(queue, d) > 0) = 0
      BY DEF One, Change
    <3>2. Count(queue', d) = IF late THEN Count(queue, d) + 1 ELSE Count(queue, d)
      BY <2>3, <2>4, <3>1
    <3> QED
      BY <2>1, <3>2 DEF Destroys
  <2>7. ASSUME o \in Once PROVE Creates(o)' = 0
    <3> DEFINE c == Change("Create", o)
    <3>1. d # c
      BY DEF Change
    <3>2. Count(queue, c) <= 1
      <4>1. Claims(o) <= 1 /\ Creates(o) \in Nat /\ CallsFor(calls, o) \in Nat
        BY <2>7, DueTyped DEF Rows, Row
      <4>2. Creates(o) = Count(queue, c)
        BY <2>1 DEF Creates
      <4> QED
        BY <4>1, <4>2 DEF Claims
    <3>3. /\ Count(queue, c) \in Nat /\ Count(q, c) \in Nat
          /\ Count(queue, c) = Count(q, c) + One(Count(queue, c) > 0)
          /\ Count(queue', c) = Count(q, c)
      BY <2>3, <2>4, <3>1
    <3> HIDE DEF c, d
    <3>4. Count(queue', c) = 0
      BY <3>2, <3>3 DEF One
    <3> QED
      BY <2>1, <3>4 DEF Creates, c
  <2> QED
    BY <1>2, <2>5, <2>6, <2>7
<1> QED
  BY <1>1, <1>2

\* An object goes with its queued creation: its row goes at once or is left to the
\* deletion that is queued.
LEMMA GoneKeepsRows ==
  ASSUME Inv, RestTyped, Inv', RestTyped', Rows, Once' \subseteq Once,
         UNCHANGED <<stage, calls>>,
         stage = "changes" => todo' = todo,
         NEW o \in Obj, o \in valid, valid' = valid \ {o}, NEW late \in BOOLEAN,
         late => stage # "changes",
         queue' = IF late THEN Append(Purged(queue, o), Change("Destroy", o)) ELSE Purged(queue, o),
         list' = IF late THEN list ELSE RowRemoved(list, o)
  PROVE  Rows'
<1>0. list \in [Obj -> Nat]
  BY DEF Inv, AliveInv, Types
<1>1. /\ \A x \in Obj : x # o => Creates(x)' = Creates(x) /\ Destroys(x)' = Destroys(x)
      /\ Destroys(o)' = IF late THEN Destroys(o) + 1 ELSE Destroys(o)
      /\ stage # "changes" /\ o \in Once => Creates(o)' = 0
      /\ stage = "changes" => Creates(o)' = Creates(o)
  BY DueAfterPurge
<1>2. ASSUME NEW x \in Once'
      PROVE  x \in Obj /\ Numbers(x) /\ Numbers(x)' /\ Row(x)
  BY NumbersTyped, NewNumbersTyped DEF Rows, Once
<1>3. ASSUME NEW x \in Once', x # o PROVE Row(x)'
  <2>1. list'[x] = list[x]
    BY <1>0, <1>3 DEF RowRemoved
  <2>2. Claims(x)' <= Claims(x)
    BY <1>1, <1>2, <1>3 DEF Claims, Numbers
  <2>3. stage' # "changes" /\ Creates(x)' > 0 => x \in valid
    BY <1>1, <1>2, <1>3 DEF Row
  <2> QED
    BY <1>1, <1>2, <1>3, <2>1, <2>2, <2>3, RowStays
<1>4. ASSUME o \in Once' PROVE Row(o)'
  <2>1. \/ /\ list'[o] = IF list[o] > 0 THEN list[o] - 1 ELSE 0
           /\ Destroys(o)' = Destroys(o)
        \/ list'[o] = list[o] /\ Destroys(o)' = Destroys(o) + 1
    <3>1. CASE late
      BY <1>1, <3>1
    <3>2. CASE ~late
      BY <1>0, <1>1, <3>2 DEF RowRemoved
    <3> QED
      BY <3>1, <3>2
  <2>2. Claims(o)' <= Claims(o)
    BY <1>1, <1>2, <1>4 DEF Claims, Numbers
  <2>3. stage' # "changes" => Creates(o)' = 0
    BY <1>1, <1>4
  <2>4. o \notin valid'
    OBVIOUS
  <2> QED
    BY <1>2, <1>4, <2>1, <2>2, <2>3, <2>4, RowGone
<1> QED
  BY <1>3, <1>4 DEF Rows

\* The target's steps, whatever they call.
LEMMA TargetKeepsRows ==
  ASSUME Inv, RestTyped, Inv', RestTyped', Rows, Once' \subseteq Once,
         Target \/ Constructors
  PROVE  Rows'
<1> USE DEF heapVars, loopVars, callVars, queueVars, modelVars
<1>0. AliveInv /\ calls \in Seq(CallFrames)
  BY DEF Inv, AliveInv, Types
<1>1. ASSUME UNCHANGED <<list, valid, queue, stage, todo>>,
             \A o \in Obj : CallsFor(calls', o) <= CallsFor(calls, o)
      PROVE  Rows'
  <2>1. Due' = Due
    BY <1>1 DEF Due
  <2> QED
    BY <1>1, <2>1, RowsStay
<1>2. ASSUME UNCHANGED <<list, valid, queue, stage, todo, calls>>
      PROVE  Rows'
  <2>1. \A o \in Obj : CallsFor(calls, o) \in Nat
    BY <1>0, CallsTyped
  <2>2. \A o \in Obj : CallsFor(calls', o) <= CallsFor(calls, o)
    BY <1>2, <2>1
  <2> QED
    BY <1>1, <1>2, <2>2
<1>3. ASSUME UNCHANGED <<list, valid, queue, stage, todo>>, calls = << >>,
             calls' \in Seq(CallFrames), \A f \in FramesOf(calls') : f.fn \notin Announcing
      PROVE  Rows'
  <2>1. \A o \in Obj : CallsFor(calls', o) = 0 /\ CallsFor(calls, o) = 0
    BY <1>0, <1>3, CallsNone, CallsTyped
  <2>2. \A o \in Obj : CallsFor(calls', o) <= CallsFor(calls, o)
    BY <2>1
  <2> QED
    BY <1>1, <1>3, <2>2
<1>4. ASSUME NEW o \in Obj, NEW p \in ObjOrNull, NEW guarded \in BOOLEAN, Construct(o, p, guarded)
      PROVE  Rows'
  <2> DEFINE f == CtorCall(o)
  <2>1. /\ UNCHANGED <<list, valid, queue, stage, todo>>
        /\ calls' = calls \/ calls' = <<f>> \o calls
    BY <1>4 DEF Construct
  <2>2. CASE calls' = calls
    BY <1>2, <2>1, <2>2
  <2>3. CASE calls' = <<f>> \o calls
    <3>1. f \in CallFrames /\ \A x : ~Announces(f, x)
      BY NewFrames DEF CtorCall, Announces, Announcing
    <3> HIDE DEF f
    <3>2. ASSUME NEW x \in Obj PROVE CallsFor(calls', x) <= CallsFor(calls, x)
      <4>1. /\ CallsFor(calls, x) \in Nat
            /\ CallsFor(<<f>> \o calls, x) = CallsFor(calls, x) + One(Announces(f, x))
        BY <1>0, <3>1, CallsPush
      <4>2. One(Announces(f, x)) = 0
        BY <3>1 DEF One
      <4>3. CallsFor(calls', x) = CallsFor(<<f>> \o calls, x)
        BY <2>3
      <4> QED
        BY <4>1, <4>2, <4>3
    <3> QED
      BY <1>1, <2>1, <3>2
  <2> QED
    BY <2>1, <2>2, <2>3
<1>5. ASSUME NEW o \in Obj,
             (\E p \in ObjOrNull : ConstructInWorker(o, p)) \/ FinishConstructor(o)
      PROVE  Rows'
  BY <1>2, <1>5 DEF ConstructInWorker, FinishConstructor
<1>6. ASSUME NEW o \in Obj, HookInWorker(o) \/ ReceiveEvent(o)
      PROVE  Rows'
  <2> DEFINE c == CtorCall(o)
             d == Call("discoverObject", o)
  <2>1. /\ UNCHANGED <<list, valid, queue, stage, todo>> /\ calls = << >>
        /\ calls' = calls \/ calls' = <<c>> \/ calls' = <<d>>
    BY <1>6 DEF HookInWorker, ReceiveEvent, LockFree, MainIdle
  <2>2. c \in CallFrames /\ d \in CallFrames /\ c.fn \notin Announcing /\ d.fn \notin Announcing
    BY NewFrames DEF Functions, CtorCall, Call, Announcing
  <2> HIDE DEF c, d
  <2>3. CASE calls' = calls
    BY <1>2, <2>1, <2>3
  <2>4. CASE calls' = <<c>> \/ calls' = <<d>>
    <3>1. calls' \in Seq(CallFrames) /\ FramesOf(calls') \subseteq {c, d}
      BY <2>2, <2>4, OneFrame
    <3> QED
      BY <1>3, <2>1, <2>2, <3>1
  <2> QED
    BY <2>1, <2>3, <2>4
<1>7. ASSUME NEW o \in Obj, NEW p \in ObjOrNull, NEW widget \in BOOLEAN, SetParent(o, p, widget)
      PROVE  Rows'
  <2>1. UNCHANGED <<list, valid, queue, stage, todo>>
    BY <1>7 DEF SetParent
  <2>2. CASE UNCHANGED calls
    BY <1>2, <2>1, <2>2
  <2>3. CASE home[o] = "main"
    <3>1. calls = << >>
      BY <1>7, <2>3 DEF SetParent, MainIdle
    <3>2. /\ calls' \in Seq(CallFrames)
          /\ FramesOf(calls') \subseteq
              {Call("childRemoved", o), Call("childAdded", o), Call("parentChange", o)}
      BY <1>0, <1>7, <3>1, SetParentFrames, NoFrames
    <3>3. \A f \in FramesOf(calls') : f.fn \notin Announcing
      BY <3>2 DEF Call, Announcing
    <3> QED
      BY <1>3, <2>1, <3>1, <3>2, <3>3
  <2> QED
    BY <1>0, <1>7, <2>2, <2>3, SetParentFrames
<1>8. ASSUME NEW o \in Obj, Destroy(o)
      PROVE  Rows'
  <2>1. UNCHANGED <<stage, todo, calls>>
    BY <1>8 DEF Destroy
  <2>2. \/ UNCHANGED <<valid, queue, list>>
        \/ o \in valid /\ RemovedHere(o)
        \/ o \in valid /\ home[o] = "worker" /\ RemovedElsewhere(o)
    BY <1>8 DEF Destroy, ObjectRemoved, RemovedBefore
  <2>3. CASE UNCHANGED <<valid, queue, list>>
    BY <1>2, <2>1, <2>3
  <2>4. CASE o \in valid /\ RemovedHere(o)
    <3>1. /\ valid' = valid \ {o} /\ queue' = Purged(queue, o) /\ list' = RowRemoved(list, o)
      BY <2>4 DEF RemovedHere, EmitDestroyed
    <3> PICK late \in BOOLEAN : late = FALSE
      OBVIOUS
    <3> QED
      BY <2>1, <2>4, <3>1, GoneKeepsRows
  <2>5. CASE o \in valid /\ home[o] = "worker" /\ RemovedElsewhere(o)
    <3>1. /\ valid' = valid \ {o} /\ list' = list
          /\ queue' = Append(Purged(queue, o), Change("Destroy", o))
      BY <2>5 DEF RemovedElsewhere
    <3>2. stage # "changes"
      BY <1>8, <2>5 DEF Destroy, LockFree
    <3> PICK late \in BOOLEAN : late = TRUE
      OBVIOUS
    <3> QED
      BY <2>1, <2>5, <3>1, <3>2, GoneKeepsRows
  <2> QED
    BY <2>2, <2>3, <2>4, <2>5
<1> QED
  BY <1>4, <1>5, <1>6, <1>7, <1>8 DEF Target, Constructors

\* Start-up: no announcement begins.
LEMMA StartUpKeepsRows ==
  ASSUME Inv, RestTyped, Inv', RestTyped', Rows, Once' \subseteq Once, StartUp
  PROVE  Rows'
<1> USE DEF heapVars, loopVars, callVars, queueVars, modelVars, hookVars
<1>1. /\ UNCHANGED <<list, valid, queue, todo>>
      /\ UNCHANGED stage \/ (stage # "changes" /\ stage' # "changes")
  BY DEF StartUp, InstallHooks, CreateProbe, AddNext, AddedAll, FindNext, DelayedInit, InEventLoop
<1>2. Due' = Due
  BY <1>1 DEF Due
<1>3. \A o \in Obj : CallsFor(calls', o) <= CallsFor(calls, o)
  <2>0. calls \in Seq(CallFrames) /\ calls' \in Seq(CallFrames)
    BY DEF Inv, AliveInv, Types
  <2>1. \/ calls' = calls
        \/ /\ calls = << >>
           /\ \E x : calls' = <<Call("objectAdded", x)>> \/ calls' = <<Call("discoverObject", x)>>
    BY DEF StartUp, InstallHooks, CreateProbe, AddNext, AddedAll, FindNext, DelayedInit
  <2>2. CASE calls' = calls
    <3>1. \A o \in Obj : CallsFor(calls, o) \in Nat
      BY <2>0, CallsTyped
    <3> QED
      BY <2>2, <3>1
  <2>3. ASSUME calls = << >>, NEW x,
               calls' = <<Call("objectAdded", x)>> \/ calls' = <<Call("discoverObject", x)>>
        PROVE  \A o \in Obj : CallsFor(calls', o) <= CallsFor(calls, o)
    <3>1. FramesOf(calls') \subseteq {Call("objectAdded", x), Call("discoverObject", x)}
      BY <2>3 DEF FramesOf
    <3>2. \A f \in FramesOf(calls') : f.fn \notin Announcing
      BY <3>1 DEF Call, Announcing
    <3>3. \A o \in Obj : CallsFor(calls', o) = 0 /\ CallsFor(calls, o) = 0
      BY <2>0, <2>3, <3>2, CallsNone, CallsTyped
    <3> QED
      BY <3>3
  <2> QED
    BY <2>1, <2>2, <2>3
<1> QED
  BY <1>1, <1>2, <1>3, RowsStay

\* A drain comes to a creation: the announcement takes its place.
LEMMA DrainCreateKeepsRows ==
  ASSUME Inv, RestTyped, Inv', RestTyped', Rows, Once' \subseteq Once,
         DrainChange, Head(todo).type = "Create"
  PROVE  Rows'
<1> USE DEF heapVars, loopVars, callVars, queueVars, modelVars
<1>1. /\ stage = "changes" /\ stage' = "changes" /\ todo # << >> /\ todo' = Tail(todo)
      /\ calls = << >> /\ calls' = <<Call("objectFullyConstructed", Head(todo).obj)>>
      /\ UNCHANGED <<list, valid, queue>>
  BY DEF DrainChange
<1>2. todo \in Seq(ObjectChanges) /\ Head(todo) \in ObjectChanges /\ calls \in Seq(CallFrames)
  <2>1. todo \in Seq(ObjectChanges) /\ calls \in Seq(CallFrames)
    BY DueTyped
  <2> QED
    BY <1>1, <2>1
<1> PICK h \in ObjectChanges : h = Head(todo)
  BY <1>2
<1> PICK o \in Obj : o = h.obj
  BY DEF ObjectChanges
<1>3. h = Change("Create", o) /\ calls' = <<Call("objectFullyConstructed", o)>>
  BY <1>1 DEF ObjectChanges, Change
<1>4. Due = todo /\ Due' = Tail(todo)
  BY <1>1 DEF Due
<1> SUFFICES ASSUME NEW x \in Once' PROVE Row(x)'
  BY DEF Rows
<1> x \in Obj /\ x \in Once
  BY DEF Once
<1>5. Numbers(x) /\ Numbers(x)' /\ Row(x)
  BY NumbersTyped, NewNumbersTyped DEF Rows
<1>6. /\ Creates(x) = Creates(x)' + One(h = Change("Create", x))
      /\ Destroys(x) = Destroys(x)' + One(h = Change("Destroy", x))
  BY <1>1, <1>2, <1>4, CountTail DEF Creates, Destroys
<1>7. h # Change("Destroy", x) /\ (h = Change("Create", x) <=> x = o)
  BY <1>3 DEF Change
<1>8. CallsFor(calls, x) = 0 /\ CallsFor(calls', x) = One(x = o)
  <2> DEFINE f == Call("objectFullyConstructed", o)
  <2>1. f \in CallFrames /\ (Announces(f, x) <=> x = o)
    BY NewFrames DEF Functions, Call, Announces, Announcing
  <2>2. calls' = <<f>>
    BY <1>3
  <2> HIDE DEF f
  <2>3. <<f>> = <<f>> \o << >>
    BY <2>1
  <2>4. CallsFor(<< >>, x) = 0
    <3> PICK s \in Seq(CallFrames) : s = << >>
      BY NoFrames
    <3>1. CallsFor(s, x) = 0
      BY CallsTyped
    <3> QED
      BY <3>1
  <2>a. CallsFor(<<f>> \o << >>, x) = CallsFor(<< >>, x) + One(Announces(f, x))
    BY <2>1, NoFrames, CallsPush
  <2>5. CallsFor(calls', x) = CallsFor(<<f>> \o << >>, x)
    BY <2>2, <2>3
  <2>6. One(Announces(f, x)) = One(x = o)
    BY <2>1 DEF One
  <2>7. One(x = o) \in Nat
    BY DEF One
  <2>8. CallsFor(calls, x) = 0
    BY <1>1, <2>4
  <2> QED
    BY <2>4, <2>5, <2>6, <2>7, <2>8, <2>a
<1>9. Destroys(x)' = Destroys(x) /\ Claims(x)' <= Claims(x)
  <2>1. One(h = Change("Destroy", x)) = 0 /\ One(h = Change("Create", x)) = One(x = o)
    BY <1>7 DEF One
  <2>2. One(x = o) \in Nat
    BY DEF One
  <2> QED
    BY <1>5, <1>6, <1>8, <2>1, <2>2 DEF Claims, Numbers
<1> QED
  BY <1>1, <1>5, <1>9, RowStays

\* A drain comes to a deletion: the row goes.
LEMMA DrainDestroyKeepsRows ==
  ASSUME Inv, RestTyped, Inv', RestTyped', Rows, Once' \subseteq Once,
         DrainChange, Head(todo).type # "Create"
  PROVE  Rows'
<1> USE DEF heapVars, loopVars, callVars, queueVars, modelVars
<1>1. /\ stage = "changes" /\ stage' = "changes" /\ todo # << >> /\ todo' = Tail(todo)
      /\ UNCHANGED <<calls, valid, queue>> /\ list' = RowRemoved(list, Head(todo).obj)
  BY DEF DrainChange, EmitDestroyed
<1>2. todo \in Seq(ObjectChanges) /\ Head(todo) \in ObjectChanges /\ list \in [Obj -> Nat]
  BY <1>1 DEF RestTyped, LoopTyped, Inv, AliveInv, Types
<1> PICK h \in ObjectChanges : h = Head(todo)
  BY <1>2
<1> PICK o \in Obj : o = h.obj
  BY DEF ObjectChanges
<1>3. h.type # "Create" /\ (h = Change("Destroy", o) \/ h.type # "Destroy")
  BY DEF ObjectChanges, Change
<1>4. Due = todo /\ Due' = Tail(todo)
  BY <1>1 DEF Due
<1> SUFFICES ASSUME NEW x \in Once' PROVE Row(x)'
  BY DEF Rows
<1> x \in Obj /\ x \in Once
  BY DEF Once
<1>5. Numbers(x) /\ Numbers(x)' /\ Row(x)
  BY NumbersTyped, NewNumbersTyped DEF Rows
<1>6. /\ Creates(x) = Creates(x)' + One(h = Change("Create", x))
      /\ Destroys(x) = Destroys(x)' + One(h = Change("Destroy", x))
  BY <1>1, <1>2, <1>4, CountTail DEF Creates, Destroys
<1>7. h # Change("Create", x) /\ (h = Change("Destroy", x) => x = o)
  BY <1>3 DEF Change
<1>8. /\ Creates(x) = Creates(x)'
      /\ Destroys(x) = Destroys(x)' \/ (Destroys(x) = Destroys(x)' + 1 /\ x = o)
  <2>1. /\ One(h = Change("Create", x)) = 0
        /\ One(h = Change("Destroy", x)) = 0 \/ (One(h = Change("Destroy", x)) = 1 /\ x = o)
    BY <1>7 DEF One
  <2> QED
    BY <1>5, <1>6, <2>1 DEF Numbers
<1>9. Claims(x)' = Claims(x) /\ Claims(x) \in Nat
  BY <1>1, <1>5, <1>8 DEF Claims, Numbers
<1>10. CASE x # o
  <2>1. list'[x] = list[x]
    BY <1>1, <1>2, <1>10 DEF RowRemoved
  <2>2. Destroys(x)' = Destroys(x)
    BY <1>8, <1>10
  <2> QED
    BY <1>1, <1>5, <1>8, <1>9, <2>1, <2>2, RowStays
<1>11. CASE x = o
  <2>1. list'[x] = IF list[x] > 0 THEN list[x] - 1 ELSE 0
    BY <1>1, <1>2, <1>11 DEF RowRemoved
  <2>2. Destroys(x) = Destroys(x)' \/ Destroys(x) = Destroys(x)' + 1
    BY <1>8
  <2>3. Claims(x)' <= 1
    BY <1>5, <1>9 DEF Row
  <2>4. x \in valid' => list'[x] + Claims(x)' <= Destroys(x)' + 1
    <3> SUFFICES ASSUME x \in valid' PROVE list'[x] + Claims(x)' <= Destroys(x)' + 1
      OBVIOUS
    <3>1. list[x] + Claims(x) <= Destroys(x) + 1
      BY <1>1, <1>5 DEF Row
    <3>2. list[x] \in Nat /\ Destroys(x)' \in Nat /\ Claims(x) \in Nat
      BY <1>5, <1>9 DEF Numbers
    <3> QED
      BY <1>9, <2>1, <2>2, <2>3, <3>1, <3>2
  <2>5. x \notin valid' => list'[x] <= Destroys(x)'
    <3>1. x \notin valid' => list[x] <= Destroys(x)
      BY <1>1, <1>5 DEF Row
    <3>2. list[x] \in Nat /\ Destroys(x)' \in Nat
      BY <1>5 DEF Numbers
    <3> QED
      BY <2>1, <2>2, <3>1, <3>2
  <2> QED
    BY <1>1, <2>3, <2>4, <2>5 DEF Row
<1> QED
  BY <1>10, <1>11

\* A drain.
LEMMA DrainKeepsRows ==
  ASSUME Inv, RestTyped, Inv', RestTyped', Rows, Once' \subseteq Once, Drain
  PROVE  Rows'
<1> USE DEF heapVars, loopVars, callVars, queueVars, modelVars, hookVars
<1>0. calls \in Seq(CallFrames)
  BY DEF Inv, AliveInv, Types
<1>1. ASSUME UNCHANGED <<list, valid, calls>>, Due' = Due,
             stage' # "changes" => stage # "changes" \/ Due = << >>
      PROVE  Rows'
  <2>1. \A o \in Obj : CallsFor(calls, o) \in Nat
    BY <1>0, CallsTyped
  <2>2. \A o \in Obj : CallsFor(calls', o) <= CallsFor(calls, o)
    BY <1>1, <2>1
  <2> QED
    BY <1>1, <2>2, RowsStay
<1>2. CASE DeliverStart \/ TimerFires \/ FinishDrain
  <2>1. /\ UNCHANGED <<list, valid, calls, queue, todo>>
        /\ UNCHANGED stage \/ (stage # "changes" /\ stage' # "changes")
    BY <1>2 DEF DeliverStart, TimerFires, FinishDrain, InEventLoop
  <2>2. Due' = Due
    BY <2>1 DEF Due
  <2> QED
    BY <1>1, <2>1, <2>2
<1>3. CASE StartDrain
  <2>1. UNCHANGED <<list, valid, calls>> /\ stage = "fired" /\ stage' = "changes" /\ todo' = queue
    BY <1>3 DEF StartDrain
  <2>2. Due' = Due
    BY <2>1 DEF Due
  <2> QED
    BY <1>1, <2>1, <2>2
<1>4. CASE ClearQueue
  <2>1. /\ UNCHANGED <<list, valid, calls>> /\ stage = "changes" /\ todo = << >>
        /\ stage' = "reparents" /\ queue' = << >>
    BY <1>4 DEF ClearQueue
  <2>2. Due = << >> /\ Due' = << >>
    BY <2>1 DEF Due
  <2> QED
    BY <1>1, <2>1, <2>2
<1>5. CASE DrainReparent
  <2>1. /\ stage = "reparents" /\ stage' = stage /\ calls' = calls /\ todo # << >>
    BY <1>5 DEF DrainReparent
  <2>a. Head(todo).obj \in Obj
    <3>1. Head(todo) \in ObjectChanges
      BY <2>1, DueTyped
    <3> QED
      BY <3>1 DEF ObjectChanges
  <2> PICK o \in Obj : o = Head(todo).obj
    BY <2>a
  <2>2. \/ UNCHANGED <<valid, queue, list>>
        \/ /\ o \in valid /\ valid' = valid \ {o} /\ queue' = Purged(queue, o)
           /\ list' = RowRemoved(list, o)
    BY <1>5 DEF DrainReparent, EmitDestroyed, EmitReparented
  <2>3. CASE UNCHANGED <<valid, queue, list>>
    <3>1. Due' = Due
      BY <2>1, <2>3 DEF Due
    <3> QED
      BY <1>1, <2>1, <2>3, <3>1
  <2>4. CASE /\ o \in valid /\ valid' = valid \ {o} /\ queue' = Purged(queue, o)
             /\ list' = RowRemoved(list, o)
    <3> PICK late \in BOOLEAN : late = FALSE
      OBVIOUS
    <3> QED
      BY <2>1, <2>4, GoneKeepsRows
  <2> QED
    BY <2>2, <2>3, <2>4
<1> QED
  BY <1>2, <1>3, <1>4, <1>5, DrainCreateKeepsRows, DrainDestroyKeepsRows DEF Drain

\* A running call f becomes: what announces nothing, above what f announced at most.
Follows(f) ==
  \/ calls' = Tail(calls)
  \/ \E g \in CallFrames : (\A x : ~Announces(g, x)) /\ calls' = <<g>> \o calls
  \/ \E g \in CallFrames : (\A x : Announces(g, x) => Announces(f, x)) /\ calls' = <<g>> \o Tail(calls)
  \/ \E g, k \in CallFrames : /\ \A x : ~Announces(g, x)
                              /\ \A x : Announces(k, x) => Announces(f, x)
                              /\ calls' = <<g, k>> \o Tail(calls)

\* Then there are no more announcements than before.
LEMMA CallsFewer ==
  ASSUME calls \in Seq(CallFrames), calls # << >>, NEW f \in CallFrames, f = Head(calls), Follows(f),
         NEW x
  PROVE  CallsFor(calls', x) <= CallsFor(calls, x)
<1> DEFINE t == Tail(calls)
<1>1. /\ CallsFor(calls, x) \in Nat /\ CallsFor(t, x) \in Nat /\ t \in Seq(CallFrames)
      /\ CallsFor(calls, x) = CallsFor(t, x) + One(Announces(f, x))
  BY CallsPop
<1>3. CASE calls' = Tail(calls)
  <2>1. CallsFor(calls', x) = CallsFor(t, x)
    BY <1>3
  <2>2. One(Announces(f, x)) \in Nat
    BY DEF One
  <2> HIDE DEF t
  <2> QED
    BY <1>1, <2>1, <2>2
<1>4. ASSUME NEW g \in CallFrames, \A y : ~Announces(g, y), calls' = <<g>> \o calls
      PROVE  CallsFor(calls', x) <= CallsFor(calls, x)
  <2>1. CallsFor(<<g>> \o calls, x) = CallsFor(calls, x) + One(Announces(g, x))
    BY CallsPush
  <2>2. One(Announces(g, x)) = 0
    BY <1>4 DEF One
  <2> QED
    BY <1>1, <1>4, <2>1, <2>2
<1>5. ASSUME NEW g \in CallFrames, Announces(g, x) => Announces(f, x)
      PROVE  /\ CallsFor(<<g>> \o t, x) \in Nat /\ <<g>> \o t \in Seq(CallFrames)
             /\ CallsFor(<<g>> \o t, x) <= CallsFor(calls, x)
  <2>1. CallsFor(<<g>> \o t, x) = CallsFor(t, x) + One(Announces(g, x))
    BY <1>1, CallsPush
  <2>2. <<g>> \o t \in Seq(CallFrames)
    BY <1>1
  <2>3. CallsFor(<<g>> \o t, x) \in Nat
    BY <2>2, CallsTyped
  <2>4. CASE Announces(f, x)
    <3>1. One(Announces(f, x)) = 1 /\ One(Announces(g, x)) \in {0, 1}
      BY <2>4 DEF One
    <3> QED
      BY <1>1, <2>1, <2>2, <2>3, <3>1
  <2>5. CASE ~Announces(f, x)
    <3>1. One(Announces(f, x)) = 0 /\ One(Announces(g, x)) = 0
      BY <1>5, <2>5 DEF One
    <3> QED
      BY <1>1, <2>1, <2>2, <2>3, <3>1
  <2> QED
    BY <2>4, <2>5
<1>6. ASSUME NEW g \in CallFrames, NEW k \in CallFrames, \A y : ~Announces(g, y),
             Announces(k, x) => Announces(f, x), calls' = <<g, k>> \o Tail(calls)
      PROVE  CallsFor(calls', x) <= CallsFor(calls, x)
  <2> DEFINE s == <<k>> \o t
  <2>1. CallsFor(s, x) <= CallsFor(calls, x) /\ CallsFor(s, x) \in Nat /\ s \in Seq(CallFrames)
    BY <1>5, <1>6
  <2>2. calls' = <<g>> \o s
    BY <1>1, <1>6, TwoFrames
  <2> HIDE DEF s
  <2>3. CallsFor(<<g>> \o s, x) = CallsFor(s, x) + One(Announces(g, x))
    BY <2>1, CallsPush
  <2>4. One(Announces(g, x)) = 0
    BY <1>6 DEF One
  <2> QED
    BY <1>1, <2>1, <2>2, <2>3, <2>4
<1> HIDE DEF t
<1>7. ASSUME NEW g \in CallFrames, Announces(g, x) => Announces(f, x), calls' = <<g>> \o Tail(calls)
      PROVE  CallsFor(calls', x) <= CallsFor(calls, x)
  BY <1>5, <1>7 DEF t
<1> QED
  BY <1>3, <1>4, <1>6, <1>7 DEF Follows

\* objectAdded() tracks an object: one claim on a row is made, unless it was known already.
LEMMA TracksKeepsRows ==
  ASSUME Inv, RestTyped, Inv', RestTyped', Rows, Once' \subseteq Once,
         StackInv, StaleInv, calls # << >>,
         NEW o \in Obj, o = Head(calls).obj, TrackMove(o),
         UNCHANGED <<stage, todo>>
  PROVE  Rows'
<1> DEFINE t == Tail(calls)
           c == Change("Create", o)
           f == Call("objectFullyConstructed", o)
<1> PICK h \in CallFrames : h = Head(calls)
  BY PopFrame DEF Inv, AliveInv, Types
<1>1. /\ calls \in Seq(CallFrames) /\ t \in Seq(CallFrames) /\ h \in FramesOf(calls)
      /\ FramesOf(t) = Below(calls) /\ FramesOf(t) \subseteq FramesOf(calls)
      /\ queue \in Seq(ObjectChanges) /\ c \in ObjectChanges /\ f \in CallFrames
      /\ parent \in [Obj -> ObjOrNull]
  <2>1. calls \in Seq(CallFrames) /\ queue \in Seq(ObjectChanges) /\ parent \in [Obj -> ObjOrNull]
    BY DueTyped DEF Inv, AliveInv, Types
  <2> QED
    BY <2>1, PopFrame, NewFrames DEF Below, Change, ObjectChanges, ChangeTypes, Functions
<1>2. /\ h.fn = "trackObject" /\ (o \in valid => o \notin Once')
      /\ valid' = valid \cup {o} /\ list' = list
      /\ \/ calls' = t /\ queue' = Append(queue, c)
         \/ ~h.fromCtor /\ queue' = queue /\ calls' = <<f>> \o t
  BY DEF TrackMove
<1>3. ASSUME NEW x \in Once'
      PROVE  x \in Obj /\ Numbers(x) /\ Numbers(x)' /\ Row(x)
  BY NumbersTyped, NewNumbersTyped DEF Rows, Once
<1>4. ASSUME NEW x
      PROVE  /\ CallsFor(calls, x) = CallsFor(t, x) /\ CallsFor(t, x) \in Nat
             /\ CallsFor(<<f>> \o t, x) = CallsFor(t, x) + One(x = o)
  <2>1. /\ CallsFor(t, x) \in Nat /\ CallsFor(calls, x) = CallsFor(t, x) + One(Announces(h, x))
        /\ CallsFor(<<f>> \o t, x) = CallsFor(t, x) + One(Announces(f, x))
    BY <1>1, CallsPop, CallsPush
  <2>2. ~Announces(h, x) /\ (Announces(f, x) <=> x = o)
    BY <1>2 DEF Announces, Announcing, Call
  <2>3. One(Announces(h, x)) = 0 /\ One(Announces(f, x)) = One(x = o)
    BY <2>2 DEF One
  <2> HIDE DEF f, t
  <2> QED
    BY <2>1, <2>3
<1>5. ASSUME NEW x \in Obj, x # o
      PROVE  Creates(x)' = Creates(x) /\ Destroys(x)' = Destroys(x)
  <2>1. c # Change("Create", x) /\ c # Change("Destroy", x)
    BY <1>5 DEF Change
  <2>2. ASSUME NEW d, c # d PROVE Count(queue', d) = Count(queue, d)
    <3> HIDE DEF c, f, t
    <3>1. Count(Append(queue, c), d) = Count(queue, d)
      BY <1>1, <2>2, CountGrows
    <3> QED
      BY <1>2, <3>1
  <2> HIDE DEF c
  <2> QED
    BY <2>1, <2>2 DEF Creates, Destroys, Due
<1>6. ASSUME NEW x \in Once', x # o PROVE Row(x)'
  <2>1. CallsFor(calls', x) = CallsFor(calls, x)
    <3>1. One(x = o) = 0
      BY <1>6 DEF One
    <3>2. CallsFor(<<f>> \o t, x) = CallsFor(t, x)
      BY <1>4, <3>1
    <3> HIDE DEF f, t
    <3> QED
      BY <1>2, <1>4, <3>2
  <2>2. Claims(x)' = Claims(x) /\ Claims(x) \in Nat
    BY <1>3, <1>5, <1>6, <2>1 DEF Claims, Numbers
  <2>3. stage' # "changes" /\ Creates(x)' > 0 => x \in valid
    BY <1>3, <1>5, <1>6 DEF Row
  <2>4. list'[x] = list[x] /\ (x \in valid' <=> x \in valid)
    BY <1>2, <1>6
  <2> QED
    BY <1>3, <1>5, <1>6, <2>2, <2>3, <2>4, RowStays
<1>b. o \notin Once' => Rows'
  BY <1>6 DEF Rows
<1> SUFFICES ASSUME o \in Once' PROVE Rows'
  BY <1>b
<1>c. o \in Once /\ o \notin valid
  BY <1>2
<1>7. CallsFor(t, o) = 0
  <2>1. ASSUME NEW g \in FramesOf(t) PROVE ~Announces(g, o)
    <3>1. Sound(g) /\ g.fn # "objectFullyConstructed"
      BY <1>1, <2>1 DEF StackInv
    <3> QED
      BY <1>c, <3>1 DEF Sound, Announces, Announcing
  <2>2. CallsFor(t, o) \in Nat /\ ~(CallsFor(t, o) > 0)
    BY <1>1, <2>1, CallsTyped
  <2> QED
    BY <2>2
<1>8. stage # "changes" => Creates(o) = 0
  BY <1>3, <1>c DEF Row, Numbers
<1>9. CASE calls' = t /\ queue' = Append(queue, c)
  <2>1. CallsFor(calls', o) = 0
    BY <1>7, <1>9
  <2>2. Creates(o)' <= 1 /\ Destroys(o)' = Destroys(o)
    <3>1. c # Change("Destroy", o)
      BY DEF Change
    <3>2. Count(queue', Change("Destroy", o)) = Count(queue, Change("Destroy", o))
      BY <1>1, <1>9, <3>1, CountGrows
    <3>3. CASE stage = "changes"
      <4>1. Due' = Due
        BY <3>3 DEF Due
      <4>2. Creates(o)' = Creates(o) /\ Destroys(o)' = Destroys(o)
        BY <4>1 DEF Creates, Destroys
      <4> QED
        BY <1>3, <4>2 DEF Row, Claims, Numbers
    <3>4. CASE stage # "changes"
      <4>1. Due' = queue' /\ Due = queue
        BY <3>4 DEF Due
      <4>2. Count(queue', c) = Count(queue, c) + 1
        BY <1>1, <1>9, CountGrows
      <4>3. Creates(o)' = Count(queue', c) /\ Creates(o) = Count(queue, c)
        BY <4>1 DEF Creates
      <4>4. Creates(o)' = 1
        BY <1>8, <3>4, <4>2, <4>3
      <4>5. Destroys(o)' = Destroys(o)
        BY <3>2, <4>1 DEF Destroys
      <4> QED
        BY <4>4, <4>5
    <3> QED
      BY <3>3, <3>4
  <2>3. Claims(o)' <= 1
    BY <1>3, <2>1, <2>2 DEF Claims, Numbers
  <2>4. Row(o)'
    <3>1. o \in valid' /\ list'[o] <= Destroys(o)'
      BY <1>2, <1>3, <1>c, <2>2 DEF Row
    <3>2. Claims(o)' \in Nat /\ list'[o] \in Nat /\ Destroys(o)' \in Nat
      BY <1>3 DEF Claims, Numbers
    <3>3. list'[o] + Claims(o)' <= Destroys(o)' + 1
      BY <2>3, <3>1, <3>2
    <3> QED
      BY <2>3, <3>1, <3>3 DEF Row
  <2> QED
    BY <1>6, <2>4 DEF Rows
<1>10. CASE ~h.fromCtor /\ queue' = queue /\ calls' = <<f>> \o t
  <2>1. Due' = Due
    BY <1>10 DEF Due
  <2>2. Creates(o)' = Creates(o) /\ Destroys(o)' = Destroys(o)
    BY <2>1 DEF Creates, Destroys
  <2>3. Creates(o) = 0
    <3>1. CASE stage = "changes"
      <4>1. h \in Adds(calls)
        BY <1>1, <1>2, <1>10 DEF Adds, Adding
      <4>2. o \in Looked
        BY <4>1 DEF Looked
      <4>3. o \in SelfAndAncestors(parent, o)
        BY <1>1, AncestorsClosed
      <4>4. ~Stale(o)
        BY <1>c, <4>2, <4>3 DEF StaleInv, Alone
      <4>5. ~(Creates(o) > 0)
        BY <1>c, <3>1, <4>4 DEF Stale
      <4> QED
        BY <1>3, <4>5 DEF Numbers
    <3> QED
      BY <1>8, <3>1
  <2>4. CallsFor(calls', o) = 1
    <3>1. One(o = o) = 1
      BY DEF One
    <3> HIDE DEF f, t
    <3> QED
      BY <1>4, <1>7, <1>10, <3>1
  <2>5. Claims(o)' = 1
    BY <2>2, <2>3, <2>4 DEF Claims
  <2>6. Row(o)'
    <3>1. o \in valid' /\ list'[o] <= Destroys(o)'
      BY <1>2, <1>3, <1>c, <2>2 DEF Row
    <3> QED
      BY <1>3, <2>5, <3>1 DEF Row, Numbers
  <2> QED
    BY <1>6, <2>6 DEF Rows
<1> QED
  BY <1>2, <1>9, <1>10

\* objectFullyConstructed() finds that the object it tracked is GammaRay's own.
LEMMA FilterKeepsRows ==
  ASSUME Inv, RestTyped, Inv', RestTyped', Rows, Once' \subseteq Once,
         calls # << >>, NEW o \in Obj,
         o = Head(calls).obj, Head(calls).fn = "objectFullyConstructed", o \in valid,
         calls' = Tail(calls), valid' = valid \ {o}, UNCHANGED <<list, queue, stage, todo>>
  PROVE  Rows'
<1>0. calls \in Seq(CallFrames)
  BY DEF Inv, AliveInv, Types
<1>1. ASSUME NEW x \in Once'
      PROVE  x \in Obj /\ Numbers(x) /\ Numbers(x)' /\ Row(x)
  BY NumbersTyped, NewNumbersTyped DEF Rows, Once
<1>2. Due' = Due
  BY DEF Due
<1>3. \A x : Creates(x)' = Creates(x) /\ Destroys(x)' = Destroys(x)
  BY <1>2 DEF Creates, Destroys
<1>4. ASSUME NEW x \in Obj
      PROVE  /\ CallsFor(calls', x) \in Nat
             /\ CallsFor(calls, x) = CallsFor(calls', x) + (IF x = o THEN 1 ELSE 0)
  <2>1. /\ CallsFor(Tail(calls), x) \in Nat
        /\ CallsFor(calls, x) = CallsFor(Tail(calls), x) + One(Announces(Head(calls), x))
    BY <1>0, CallsPop
  <2>2. Announces(Head(calls), x) <=> x = o
    BY DEF Announces, Announcing
  <2>3. One(Announces(Head(calls), x)) = IF x = o THEN 1 ELSE 0
    BY <2>2 DEF One
  <2> QED
    BY <2>1, <2>3
<1>5. ASSUME NEW x \in Once', x # o PROVE Row(x)'
  <2>1. Claims(x)' <= Claims(x)
    BY <1>1, <1>3, <1>4, <1>5 DEF Claims, Numbers
  <2>2. stage' # "changes" /\ Creates(x)' > 0 => x \in valid
    BY <1>1, <1>3, <1>5 DEF Row
  <2>3. list'[x] = list[x] /\ (x \in valid' <=> x \in valid)
    BY <1>5
  <2> QED
    BY <1>1, <1>3, <1>5, <2>1, <2>2, <2>3, RowStays
<1>6. ASSUME o \in Once' PROVE Row(o)'
  <2>1. CallsFor(calls, o) = CallsFor(calls', o) + 1 /\ CallsFor(calls', o) \in Nat
    BY <1>4
  <2>2. Creates(o) \in Nat /\ Creates(o) + CallsFor(calls, o) <= 1
    BY <1>1, <1>6 DEF Row, Claims, Numbers
  <2>3. Creates(o) = 0 /\ CallsFor(calls, o) = 1 /\ CallsFor(calls', o) = 0
    BY <2>1, <2>2
  <2>4. Claims(o) = 1 /\ Claims(o)' = 0 /\ Creates(o)' = 0
    BY <1>3, <2>3 DEF Claims
  <2>5. o \notin valid' /\ list'[o] = list[o] /\ Destroys(o)' = Destroys(o)
    BY <1>3
  <2>6. Claims(o)' <= Claims(o)
    BY <2>4
  <2> QED
    BY <1>1, <1>6, <2>4, <2>5, <2>6, RowGone
<1> QED
  BY <1>5, <1>6 DEF Rows

\* objectCreated() is emitted: the claim becomes the row.
LEMMA CreatedKeepsRows ==
  ASSUME Inv, RestTyped, Inv', RestTyped', Rows, Once' \subseteq Once,
         StackInv, calls # << >>, NEW o \in Obj,
         o = Head(calls).obj, CreatedMove(o), UNCHANGED <<stage, todo>>
  PROVE  Rows'
<1>0. calls \in Seq(CallFrames) /\ list \in [Obj -> Nat]
  BY DEF Inv, AliveInv, Types
<1>a. /\ Head(calls).fn = "objectCreated" /\ calls' = Tail(calls) /\ list' = RowAdded(list, o)
      /\ UNCHANGED <<valid, queue>>
  BY DEF CreatedMove
<1>1. ASSUME NEW x \in Once'
      PROVE  x \in Obj /\ Numbers(x) /\ Numbers(x)' /\ Row(x)
  BY NumbersTyped, NewNumbersTyped DEF Rows, Once
<1>2. Due' = Due
  BY <1>a DEF Due
<1>3. \A x : Creates(x)' = Creates(x) /\ Destroys(x)' = Destroys(x)
  BY <1>2 DEF Creates, Destroys
<1>4. ASSUME NEW x \in Obj
      PROVE  /\ CallsFor(calls', x) \in Nat
             /\ CallsFor(calls, x) = CallsFor(calls', x) + (IF x = o THEN 1 ELSE 0)
  <2>1. /\ CallsFor(Tail(calls), x) \in Nat
        /\ CallsFor(calls, x) = CallsFor(Tail(calls), x) + One(Announces(Head(calls), x))
    BY <1>0, CallsPop
  <2>2. Announces(Head(calls), x) <=> x = o
    BY <1>a DEF Announces, Announcing
  <2>3. One(Announces(Head(calls), x)) = IF x = o THEN 1 ELSE 0
    BY <2>2 DEF One
  <2> QED
    BY <1>a, <2>1, <2>3
<1>5. \A x \in Once' : stage' # "changes" /\ Creates(x)' > 0 => x \in valid
  BY <1>1, <1>3 DEF Row
<1>6. ASSUME NEW x \in Once', x # o PROVE Row(x)'
  <2>1. Claims(x)' <= Claims(x)
    BY <1>1, <1>3, <1>4, <1>6 DEF Claims, Numbers
  <2>3. list'[x] = list[x] /\ (x \in valid' <=> x \in valid)
    BY <1>0, <1>a, <1>6 DEF RowAdded
  <2> QED
    BY <1>1, <1>3, <1>5, <1>6, <2>1, <2>3, RowStays
<1>7. ASSUME o \in Once' PROVE Row(o)'
  <2>1. CallsFor(calls, o) = CallsFor(calls', o) + 1 /\ CallsFor(calls', o) \in Nat
    BY <1>4
  <2>2. Claims(o) = Claims(o)' + 1 /\ Claims(o)' \in Nat
    BY <1>1, <1>3, <1>7, <2>1 DEF Claims, Numbers
  <2>3. o \in valid /\ o \in valid'
    <3>1. Head(calls) \in FramesOf(calls)
      BY <1>0, PopFrame
    <3> QED
      BY <1>7, <1>a, <3>1 DEF StackInv, Sound
  <2>4. list'[o] = list[o] + 1
    BY <1>0, <1>a DEF RowAdded
  <2>5. list[o] + Claims(o) <= Destroys(o) + 1 /\ Claims(o) <= 1
    BY <1>1, <1>7, <2>3 DEF Row
  <2>6. list'[o] + Claims(o)' <= Destroys(o)' + 1
    BY <1>1, <1>3, <1>7, <2>2, <2>4, <2>5 DEF Numbers
  <2>7. Claims(o)' <= 1
    BY <2>2, <2>5
  <2> QED
    BY <1>5, <1>7, <1>a, <2>3, <2>6, <2>7 DEF Row
<1> QED
  BY <1>6, <1>7 DEF Rows

\* The calls.
LEMMA CallsKeepRows ==
  ASSUME Inv, RestTyped, Inv', RestTyped', Rows, Once' \subseteq Once,
         StackInv, StaleInv, Calls
  PROVE  Rows'
<1> AliveInv /\ ModelsTyped
  BY DEF Inv, RestTyped
<1>0. calls # << >>
  BY DEF Calls, ObjectAdded, TrackObject, ObjectFullyConstructed, ToolInitReturns, ObjectCreated,
         DiscoverObject, DiscoverChildren, ChildRemoved, ChildAdded, ParentChange, Running
<1>1. /\ calls \in Seq(CallFrames) /\ Head(calls) \in CallFrames /\ Head(calls).obj \in Obj
  BY <1>0, HeadFrame, PopFrame DEF AliveInv, Types
<1> PICK h \in CallFrames : h = Head(calls)
  BY <1>1
<1> PICK o \in Obj : o = Head(calls).obj
  BY <1>1
<1>2. UNCHANGED <<stage, todo>>
  BY CallMoves
<1>3. ASSUME UNCHANGED <<list, valid, queue>>, Follows(h) PROVE Rows'
  <2>1. \A x \in Obj : CallsFor(calls', x) <= CallsFor(calls, x)
    BY <1>0, <1>1, <1>3, CallsFewer
  <2>2. Due' = Due
    BY <1>2, <1>3 DEF Due
  <2> QED
    BY <1>2, <1>3, <2>1, <2>2, RowsStay
<1>4. \A fn \in Functions, x \in Obj : Call(fn, x) \in CallFrames
  BY NewFrames
<1>5. \A fn, x, y : Announces(Call(fn, x), y) <=> y = x /\ fn \in Announcing
  BY DEF Announces, Call
<1>6. \A y : Announces(h, y) <=> y = o /\ h.fn \in Announcing
  BY DEF Announces
<1>7. CASE AddedMove(o)
  <2> DEFINE g == ParentFrame(h)
             k == RestFrame(h)
  <2>1. h.fn = "objectAdded" /\ UNCHANGED <<valid, list, queue>>
    BY <1>7 DEF AddedMove
  <2>2. /\ k \in CallFrames /\ \A x : ~Announces(k, x)
        /\ parent[o] \in Obj => g \in CallFrames /\ \A x : ~Announces(g, x)
    BY <2>1 DEF CallFrames, Functions, ParentFrame, RestFrame, Announces, Announcing
  <2> HIDE DEF g, k
  <2>3. \/ calls' = Tail(calls) \/ calls' = <<k>> \o Tail(calls)
        \/ parent[o] \in Obj /\ calls' = <<g>> \o (<<k>> \o Tail(calls))
    BY <1>7 DEF AddedMove, g, k
  <2>4. CASE calls' = Tail(calls) \/ calls' = <<k>> \o Tail(calls)
    BY <1>3, <2>1, <2>2, <2>4 DEF Follows
  <2>5. CASE parent[o] \in Obj /\ calls' = <<g>> \o (<<k>> \o Tail(calls))
    <3>1. Tail(calls) \in Seq(CallFrames)
      BY <1>0, <1>1, PopFrame
    <3>2. calls' = <<g, k>> \o Tail(calls)
      BY <2>2, <2>5, <3>1, TwoFrames
    <3> QED
      BY <1>3, <2>1, <2>2, <2>5, <3>2 DEF Follows
  <2> QED
    BY <2>3, <2>4, <2>5
<1>a. CASE TrackMove(o)
  BY <1>0, <1>2, <1>a, TracksKeepsRows
<1>8. CASE FullyMove(o)
  <2> DEFINE t == Call("toolInit", o)
  <2>1. /\ UNCHANGED <<list, queue>> /\ t \in CallFrames /\ h.fn = "objectFullyConstructed"
        /\ \A x : Announces(t, x) => Announces(h, x)
    BY <1>4, <1>5, <1>6, <1>8 DEF FullyMove, Functions, Announcing
  <2>2. CASE calls' = Tail(calls) /\ valid' = valid \ {o}
    <3>1. CASE o \in valid
      BY <1>0, <1>2, <2>1, <2>2, <3>1, FilterKeepsRows
    <3>2. CASE o \notin valid
      <4>1. valid' = valid
        BY <2>2, <3>2
      <4> QED
        BY <1>3, <2>1, <2>2, <4>1 DEF Follows
    <3> QED
      BY <3>1, <3>2
  <2>3. CASE Continues(o, "toolInit")
    <3>1. calls' = <<t>> \o Tail(calls) /\ UNCHANGED <<list, valid, queue>>
      BY <2>3 DEF Continues
    <3> HIDE DEF t
    <3> QED
      BY <1>3, <2>1, <3>1 DEF Follows
  <2>4. CASE /\ UNCHANGED valid
             /\ \E a \in SelfAndAncestors(parent, o) :
                  calls' = <<Call("objectAdded", a), t>> \o Tail(calls)
    <3> PICK a \in SelfAndAncestors(parent, o) :
                  calls' = <<Call("objectAdded", a), t>> \o Tail(calls)
      BY <2>4
    <3> DEFINE c == Call("objectAdded", a)
    <3>1. a \in Obj
      BY DEF SelfAndAncestors, Climb
    <3>2. c \in CallFrames /\ \A x : ~Announces(c, x)
      BY <1>4, <1>5, <3>1 DEF Functions, Announcing
    <3>3. calls' = <<c, t>> \o Tail(calls)
      OBVIOUS
    <3> HIDE DEF c, t
    <3> QED
      BY <1>3, <2>1, <2>4, <3>2, <3>3 DEF Follows
  <2> QED
    BY <1>8, <2>2, <2>3, <2>4 DEF FullyMove
<1>9. CASE h.fn = "toolInit" /\ Continues(o, "objectCreated")
  <2> DEFINE c == Call("objectCreated", o)
  <2>1. c \in CallFrames /\ \A x : Announces(c, x) => Announces(h, x)
    BY <1>4, <1>5, <1>6, <1>9 DEF Functions, Announcing
  <2>2. calls' = <<c>> \o Tail(calls) /\ UNCHANGED <<list, valid, queue>>
    BY <1>9 DEF Continues
  <2> HIDE DEF c
  <2> QED
    BY <1>3, <2>1, <2>2 DEF Follows
<1>10. CASE CreatedMove(o)
  BY <1>0, <1>2, <1>10, CreatedKeepsRows
<1>11. CASE OutsideMove(o)
  <2> DEFINE c == CtorCall(o)
             a == Call("objectAdded", o)
             d == Call("discoverChildren", o)
  <2>1. UNCHANGED <<valid, list, queue>>
    BY <1>11 DEF OutsideMove
  <2>2. CASE calls' = Tail(calls)
    BY <1>3, <2>1, <2>2 DEF Follows
  <2>3. CASE calls' = <<c>> \o Tail(calls)
    <3>1. c \in CallFrames /\ \A x : ~Announces(c, x)
      BY NewFrames DEF Announces, CtorCall, Announcing
    <3> HIDE DEF c
    <3> QED
      BY <1>3, <2>1, <2>3, <3>1 DEF Follows
  <2>4. ASSUME NEW x \in Obj, calls' = <<Call("discoverObject", x)>> \o calls PROVE Rows'
    <3>1. /\ Call("discoverObject", x) \in CallFrames
          /\ \A y : ~Announces(Call("discoverObject", x), y)
      BY <1>4, <1>5 DEF Functions, Announcing
    <3> QED
      BY <1>3, <2>1, <2>4, <3>1 DEF Follows
  <2>5. CASE calls' = <<a, d>> \o Tail(calls)
    <3>1. /\ a \in CallFrames /\ \A x : ~Announces(a, x)
          /\ d \in CallFrames /\ \A x : ~Announces(d, x)
      BY <1>4, <1>5 DEF Functions, Announcing
    <3> HIDE DEF a, d
    <3> QED
      BY <1>3, <2>1, <2>5, <3>1 DEF Follows
  <2> QED
    BY <1>11, <2>2, <2>3, <2>4, <2>5 DEF OutsideMove
<1> QED
  BY <1>7, <1>8, <1>9, <1>10, <1>11, <1>a, CallMoves

-----------------------------------------------------------------------------
(***************************************************************************)
(* The invariant, and what it says of the object list.                     *)
(***************************************************************************)

RowsInv == HomeInv /\ Copied /\ StackInv /\ ChainInv /\ StaleInv /\ Rows

\* There are no rows initially.
LEMMA RowsInit == Init => RowsInv
<1> SUFFICES ASSUME Init PROVE RowsInv
  OBVIOUS
<1>1. /\ stage = "idle" /\ queue = << >> /\ calls = << >> /\ valid = {} /\ list = NoRows
  BY DEF Init
<1>2. HomeInv
  BY HomeInit
<1>3. Copied /\ ChainInv /\ StaleInv
  BY <1>1 DEF Copied, ChainInv, StaleInv, Stale
<1>4. StackInv
  BY <1>1, NoFrames DEF StackInv, Below
<1>5. Rows
  <2> SUFFICES ASSUME NEW o \in Once PROVE Row(o)
    BY DEF Rows
  <2> o \in Obj
    BY DEF Once
  <2>1. << >> \in Seq(ObjectChanges) /\ << >> \in Seq(CallFrames) /\ Due = << >>
    BY <1>1 DEF Due
  <2>2. Creates(o) = 0 /\ Destroys(o) = 0 /\ CallsFor(calls, o) = 0
    BY <1>1, <2>1, CountTyped, CallsTyped DEF Creates, Destroys
  <2>3. list[o] = 0
    BY <1>1 DEF NoRows
  <2> QED
    BY <1>1, <2>2, <2>3 DEF Row, Claims
<1> QED
  BY <1>2, <1>3, <1>4, <1>5 DEF RowsInv

\* Every step keeps it.
LEMMA RowsKept == Inv /\ RestTyped /\ RowsInv /\ [Next]_vars => RowsInv'
<1> SUFFICES ASSUME Inv, RestTyped, RowsInv, [Next]_vars PROVE RowsInv'
  OBVIOUS
<1>1. Inv' /\ RestTyped' /\ AliveInv /\ LoopTyped /\ Once' \subseteq Once
  BY InvStep, RestStep, OnceShrinks DEF Inv, RestTyped
<1>2. HomeInv /\ Copied /\ StackInv /\ ChainInv /\ StaleInv /\ Rows
  BY DEF RowsInv
<1>3. HomeInv' /\ Copied'
  BY <1>2, HomeKept, CopiedKept
<1>4. CASE UNCHANGED vars
  <2>1. /\ UNCHANGED <<stage, todo, queue, calls, valid, list, parent, home, heap>>
    BY <1>4 DEF vars, heapVars, queueVars, loopVars, callVars, modelVars
  <2>2. StackInv'
    BY <1>1, <1>2, <2>1, StackSame
  <2>3. StaleInv'
    BY <1>1, <1>2, <2>1, StaleSame
  <2>4. Rows'
    <3>1. Due' = Due
      BY <2>1 DEF Due
    <3>2. \A o \in Obj : CallsFor(calls, o) \in Nat
      BY CallsTyped DEF Inv, AliveInv, Types
    <3>3. \A o \in Obj : CallsFor(calls', o) <= CallsFor(calls, o)
      BY <2>1, <3>2
    <3> QED
      BY <1>1, <1>2, <2>1, <3>1, <3>3, RowsStay
  <2>5. ChainInv'
    <3>1. \A x : FilterObject(x)' <=> FilterObject(x)
      BY <2>1 DEF FilterObject
    <3>2. CASE stage # "changes"
      BY <2>1, <3>2, NoChain
    <3>3. CASE stage = "changes"
      <4>1. HookAtHome /\ Chain
        BY <1>2, <3>3 DEF ChainInv
      <4>2. HookAtHome'
        BY <2>1, <4>1 DEF HookAtHome
      <4>3. \A i \in DOMAIN calls : Tracker(calls[i]) => Linked(calls, i, valid)
        BY <4>1 DEF Chain
      <4>4. Chain'
        BY <2>1, <3>1, <4>3, ChainMade
      <4> QED
        BY <4>2, <4>4 DEF ChainInv
    <3> QED
      BY <3>2, <3>3
  <2> QED
    BY <1>3, <2>2, <2>3, <2>4, <2>5 DEF RowsInv
<1>5. CASE Target \/ Constructors
  BY <1>1, <1>2, <1>3, <1>5, TargetKeepsStack, TargetKeepsChain,
     TargetKeepsStale, TargetKeepsRows DEF RowsInv
<1>6. CASE StartUp
  BY <1>1, <1>2, <1>3, <1>6, StartUpKeepsStack, LoopsKeepChain,
     StartUpKeepsStale, StartUpKeepsRows DEF RowsInv
<1>7. CASE Drain
  BY <1>1, <1>2, <1>3, <1>7, DrainKeepsStack, LoopsKeepChain,
     DrainKeepsStale, DrainKeepsRows DEF RowsInv
<1>8. CASE Calls
  BY <1>1, <1>2, <1>3, <1>8, CallsKeepStack, CallsKeepChain,
     CallsKeepStale, CallsKeepRows DEF RowsInv
<1> QED
  BY <1>4, <1>5, <1>6, <1>7, <1>8 DEF Next

\* The row of an object that is not tracked is one a deletion in the queue removes, or
\* the object was announced while it was known.
LEMMA RowsDeleted == Inv /\ RestTyped /\ RowsInv => RowsTracked
<1> SUFFICES ASSUME Inv, RestTyped, RowsInv PROVE RowsTracked
  OBVIOUS
<1> SUFFICES ASSUME NEW o \in RowsOf(list) \ valid, o \notin lost["repeated"]
             PROVE  DestroyQueued(o)
  BY DEF RowsTracked
<1> o \in Once
  BY DEF RowsOf, Once
<1> DEFINE d == Change("Destroy", o)
<1>1. /\ o \in Obj /\ list[o] > 0 /\ list[o] \in Nat
      /\ queue \in Seq(ObjectChanges) /\ todo \in Seq(ObjectChanges)
  BY DueTyped DEF RowsOf, Inv, AliveInv, Types
<1>2. Destroys(o) > 0
  BY <1>1, DueTyped DEF RowsInv, Rows, Row
<1>3. Count(queue, d) > 0
  <2>1. CASE stage = "changes"
    BY <1>1, <1>2, <2>1 DEF Destroys, Due, RowsInv, Copied
  <2>2. CASE stage # "changes"
    BY <1>2, <2>2 DEF Destroys, Due
  <2> QED
    BY <2>1, <2>2
<1>4. \E i \in DOMAIN queue : queue[i] = d
  BY <1>1, <1>3, CountTyped
<1> QED
  BY <1>4 DEF DestroyQueued

\* The balance of rows holds always: an object that objectAdded() never announced while it
\* was known already (probe.cpp:602-607 does not look again after it added the parent) has
\* no more rows, announcements under way and queued creations than the deletions in the
\* queue account for, and one more while it is tracked.
THEOREM RowsBalanced == Spec => []RowsInv
<1>1. Init => RowsInv
  BY RowsInit
<1>2. Init => RestTyped
  BY RestInit
<1>3. Inv /\ RestTyped /\ [Next]_vars => RestTyped'
  BY RestStep
<1>4. Inv /\ RestTyped /\ RowsInv /\ [Next]_vars => RowsInv'
  BY RowsKept
<1> QED
  BY <1>1, <1>2, <1>3, <1>4, Invariance, PTL DEF Spec

\* In every reachable state a row of the object list whose object is not tracked is
\* about to be removed by a deletion in the queue, or is the second row of an object that
\* was announced while it was known already: otherwise ObjectListModel keeps no object for
\* good that is gone, in whatever order hooks, drains and deletions come.
THEOREM RowsTrackedAlways == Spec => []RowsTracked
<1>1. Init => RestTyped
  BY RestInit
<1>2. Inv /\ RestTyped /\ [Next]_vars => RestTyped'
  BY RestStep
<1>3. Inv /\ RestTyped /\ RowsInv => RowsTracked
  BY RowsDeleted
<1> QED
  BY <1>1, <1>2, <1>3, Invariance, RowsBalanced, PTL DEF Spec

=============================================================================
