------------------------------ MODULE TimerModel ------------------------------
(***************************************************************************)
(* The timer view of the probe: timers of all threads fire, the spy        *)
(* callbacks gather their wake-ups under a mutex, and every five seconds   *)
(* the main thread pushes what has changed into the rows of the model.     *)
(*                                                                         *)
(* A QTimer is known by its address, which another one may take when it is *)
(* gone; a raw timer of a QObject by its number and its receiver.  Every   *)
(* object here is a QTimer, and may receive raw timer events, too.         *)
(***************************************************************************)
EXTENDS Integers, Sequences, FiniteSets

CONSTANTS
  Address,      \* of the timers: positive integers, as rows are sorted by them
  Starter,      \* those that may be started as a QTimer
  Receiver,     \* those that may receive raw timer events
  Id,           \* the numbers of running timers, positive: unique in the process
  MaxGen,       \* bound: objects made at one address
  MaxFired,     \* bound: time-outs of one QTimer
  MaxEvents     \* bound: events of one raw timer

ASSUME TimerAssumption ==
  /\ Address \subseteq Nat \ {0} /\ Id \subseteq Nat \ {0}
  /\ Starter \subseteq Address /\ Receiver \subseteq Address
  /\ MaxGen \in Nat /\ MaxFired \in Nat /\ MaxEvents \in Nat

VARIABLES
  object,     \* what is at an address, and how often it has fired so far
  raw,        \* the raw timers that run
  rows,       \* the timers in the source model
  queue,      \* what Probe has still to tell the source model
  gathered,   \* m_gatheredTimersData
  info,       \* m_timersInfo
  free,       \* m_freeTimersInfo
  push,       \* triggerPushChanges() is posted, m_pushTimer runs
  view        \* the wake-ups a view has read of a row since its last dataChanged()

vars == <<object, raw, rows, queue, gathered, info, free, push, view>>

\* TimerId: that of a QTimer has no number.
Key       == [id : Id \cup {0}, at : Address]
Timer(a)  == [id |-> 0, at |-> a]
IsFree(k) == k.id # 0

NoObject == [gen |-> 0, alive |-> FALSE, id |-> 0, fired |-> 0, depth |-> 0]
NewInfo  == [state |-> "invalid", id |-> 0, at |-> 0, gen |-> 0, count |-> 0]
NewData  == [info |-> NewInfo, count |-> 0, changed |-> FALSE, calling |-> FALSE]

With(f, k, d) == [x \in DOMAIN f \cup {k} |-> IF x = k THEN d ELSE f[x]]
Without(f, S) == [x \in DOMAIN f \ S |-> f[x]]
Empty == [x \in {} |-> NewInfo]

Init ==
  /\ object = [a \in Address |-> NoObject]
  /\ raw = {} /\ rows = {}
  /\ queue = [gone |-> {}, fresh |-> {}]
  /\ gathered = Empty /\ info = Empty /\ free = <<>>
  /\ push = [posted |-> FALSE, active |-> FALSE]
  /\ view = Empty

-----------------------------------------------------------------------------
(* The target. *)

UsedIds == {object[a].id : a \in Address} \cup {k.id : k \in raw}

modelVars == <<rows, queue, gathered, info, free, push, view>>

\* A QTimer is started or stopped, by whoever.
Switch(a) ==
  /\ object[a].alive /\ a \in Starter
  /\ \E n \in IF object[a].id = 0 THEN Id \ UsedIds ELSE {0} :
       object' = [object EXCEPT ![a].id = n]
  /\ UNCHANGED <<raw, modelVars>>

\* QObject::startTimer() and killTimer().
SwitchRaw(a) ==
  /\ object[a].alive /\ a \in Receiver
  /\ \/ \E n \in Id \ UsedIds : raw' = raw \cup {[id |-> n, at |-> a]}
     \/ \E k \in raw : k.at = a /\ raw' = raw \ {k}
  /\ UNCHANGED <<object, modelVars>>

-----------------------------------------------------------------------------
(* What is gathered.  The operators get the objects as they are after the step. *)

\* The object an info points to has been destroyed, or there was none.
Null(o, i) == i.gen = 0 \/ ~o[i.at].alive \/ o[i.at].gen # i.gen

\* Mutant of Updated: a new info is taken for one whose object is gone.
UpdatedBlindly(o, r, i, k) ==
  IF Null(o, i) THEN [i EXCEPT !.state = "invalid"]
  ELSE [i EXCEPT !.id = IF IsFree(k) THEN k.id ELSE o[k.at].id,
          !.state = IF IsFree(k) THEN IF k \in r THEN "active" ELSE "invalid"
                    ELSE IF o[k.at].id = 0 THEN "inactive" ELSE "active"]

\* TimerIdInfo::update()
Updated(o, r, i, k) ==
  IF i.at = k.at /\ Null(o, i) THEN [i EXCEPT !.state = "invalid"]
  ELSE [i EXCEPT !.at = k.at, !.gen = o[k.at].gen, !.id = IF IsFree(k) THEN k.id ELSE o[k.at].id,
          !.state = IF IsFree(k) THEN IF k \in r THEN "active" ELSE "invalid"
                    ELSE IF o[k.at].id = 0 THEN "inactive" ELSE "active"]

Data(k) == IF k \in DOMAIN gathered THEN gathered[k] ELSE NewData

\* checkDispatcherStatus(), at most every five seconds: what is known of the timers of
\* one thread, and of those that are gone, is brought up to date.
Checked(o, r, g, thread) ==
  [k \in DOMAIN g |->
     IF g[k].info.state # "invalid" /\ (Null(o, g[k].info) \/ g[k].info.at \in thread)
     THEN [g[k] EXCEPT !.info = Updated(o, r, @, k)] ELSE g[k]]

CheckDispatcherStatus(o, g, a) ==
  \/ gathered' = g
  \/ \E thread \in {S \in SUBSET Address : a \in S} : gathered' = Checked(o, raw, g, thread)

\* A wake-up is counted, and pushed later.
Counted(o, d, k) ==
  [info |-> Updated(o, raw, d.info, k), count |-> d.count + 1, changed |-> TRUE, calling |-> FALSE]

\* A QTimer fires: preSignalActivate().  One that fires only once has stopped itself.
PreSignalActivate(a) ==
  LET k == Timer(a) IN
  /\ object[a].alive /\ object[a].id # 0
  /\ object[a].fired < MaxFired /\ object[a].depth < 2
  /\ \E n \in {0, object[a].id} :
       object' = [object EXCEPT ![a].id = n, ![a].fired = @ + 1, ![a].depth = @ + 1]
  /\ LET d == IF k \in DOMAIN gathered THEN gathered[k]
              ELSE [NewData EXCEPT !.info = Updated(object', raw, @, k)]
     IN  gathered' = With(gathered, k, [d EXCEPT !.calling = TRUE])
  /\ UNCHANGED <<raw, rows, queue, info, free, push, view>>

\* Mutant of PostSignalActivate: it is left to the next push to find the change.
PostSignalActivateUntold(a) ==
  LET k == Timer(a) IN
  /\ object[a].alive /\ object[a].depth > 0
  /\ object' = [object EXCEPT ![a].depth = @ - 1]
  /\ IF Data(k).calling
     THEN CheckDispatcherStatus(object, With(gathered, k, Counted(object, gathered[k], k)), a)
     ELSE UNCHANGED gathered
  /\ UNCHANGED <<raw, rows, queue, info, free, push, view>>

\* Its slots have returned: postSignalActivate(), without the outer of two that are nested.
PostSignalActivate(a) ==
  LET k == Timer(a) IN
  /\ object[a].alive /\ object[a].depth > 0
  /\ object' = [object EXCEPT ![a].depth = @ - 1]
  /\ IF Data(k).calling
     THEN /\ CheckDispatcherStatus(object, With(gathered, k, Counted(object, gathered[k], k)), a)
          /\ push' = [push EXCEPT !.posted = TRUE]
     ELSE UNCHANGED <<gathered, push>>
  /\ UNCHANGED <<raw, rows, queue, info, free, view>>

\* eventNotifyCallback() for a timer event that is not that of the QTimer itself.
EventNotifyCallback(k) ==
  /\ k \in raw /\ Data(k).count < MaxEvents
  /\ CheckDispatcherStatus(object, With(gathered, k, Counted(object, Data(k), k)), k.at)
  /\ push' = [push EXCEPT !.posted = TRUE]
  /\ UNCHANGED <<object, raw, rows, queue, info, free, view>>

-----------------------------------------------------------------------------
(* Timers come and go. *)

Create(a) ==
  /\ ~object[a].alive /\ object[a].gen < MaxGen
  /\ object' = [object EXCEPT ![a] = [NoObject EXCEPT !.gen = object[a].gen + 1, !.alive = TRUE]]
  /\ queue' = [queue EXCEPT !.fresh = @ \cup {a}]
  /\ UNCHANGED <<raw, rows, gathered, info, free, push, view>>

\* slotBeginRemoveRows(), slotEndRemoveRows(): what is known of timers that are gone is
\* dropped, if there has been a row to take out.
RemoveRows(o, out) ==
  /\ IF out = {} THEN UNCHANGED <<gathered, info, push>>
     ELSE LET dead == {b \in DOMAIN info : Null(o, info[b])}
          IN  /\ gathered' = Without(gathered, {Timer(b) : b \in dead})
              /\ info' = Without(info, dead)
              /\ push' = [push EXCEPT !.active = TRUE]
  /\ view' = Without(view, out)

\* Probe::objectRemoved(): in the main thread the row goes at once.
Destroy(a, inMain) ==
  /\ object[a].alive
  /\ object' = [object EXCEPT ![a].alive = FALSE, ![a].id = 0, ![a].depth = 0]
  /\ raw' = {k \in raw : k.at # a}
  /\ IF inMain
     THEN /\ queue' = [queue EXCEPT !.fresh = @ \ {a}]
          /\ rows' = rows \ {a}
          /\ RemoveRows(object', rows \cap {a})
     ELSE /\ queue' = [gone |-> queue.gone \cup {a}, fresh |-> queue.fresh \ {a}]
          /\ UNCHANGED <<rows, gathered, info, push, view>>
  /\ UNCHANGED free

\* Probe::processQueuedObjectChanges(): rows go and come.
ProcessQueuedObjectChanges ==
  /\ queue.gone \cup queue.fresh # {}
  /\ rows' = (rows \ queue.gone) \cup queue.fresh
  /\ RemoveRows(object, rows \cap queue.gone)
  /\ queue' = [gone |-> {}, fresh |-> {}]
  /\ UNCHANGED <<object, raw, free>>

-----------------------------------------------------------------------------
(* The main thread. *)

TriggerPushChanges ==
  /\ push.posted
  /\ push' = [posted |-> FALSE, active |-> TRUE]
  /\ UNCHANGED <<object, raw, rows, queue, gathered, info, free, view>>

IsActive(k) == gathered[k].info.state = "active"
IsLost(k)   == Null(object, gathered[k].info)

\* The numbers of running QTimers, less those of raw timers that have just been heard of
\* and come before k.
ActiveQTimers(k) ==
  {gathered[j].info.id : j \in {j \in DOMAIN gathered : ~IsFree(j) /\ IsActive(j)}}
    \ {j.id : j \in {j \in DOMAIN gathered : /\ IsFree(j) /\ j.at < k.at /\ gathered[j].changed
                                             /\ IsActive(j) /\ ~IsLost(j)}}

\* A raw timer whose receiver is gone, or whose number a QTimer has.
Invalidated(k) ==
  /\ IsFree(k) /\ IsActive(k)
  /\ IsLost(k) \/ (~gathered[k].changed /\ k.id \in ActiveQTimers(k))

\* Mutant of Changes: QTimers without an info are left for later.
ChangesKnown ==
  {k \in DOMAIN gathered : \/ gathered[k].changed /\ (IsFree(k) \/ k.at \in DOMAIN info)
                           \/ Invalidated(k)}

Changes == {k \in DOMAIN gathered : gathered[k].changed \/ Invalidated(k)}

Change(k) == [gathered[k].info EXCEPT !.count = gathered[k].count,
                                      !.state = IF Invalidated(k) THEN "invalid" ELSE @]

KeyOf(i) == [id |-> i.id, at |-> i.at]

\* The rows before the first one whose object is no longer valid.
Reached == {a \in rows : \A b \in rows : b <= a => object[b].alive}

InfoOf(a) == IF a \in DOMAIN info THEN info[a] ELSE Updated(object, raw, NewInfo, Timer(a))

FreeChanges == {k \in Changes : IsFree(k)}

\* Mutant of NewKeys: rows that are there are added again.
NewKeysAgain == FreeChanges

\* The raw timers that have no row yet.
NewKeys == FreeChanges \ {KeyOf(free[i]) : i \in DOMAIN free}

\* In the order of a map from TimerId.
Before(j, k) == j.id < k.id \/ (j.id = k.id /\ j.at < k.at)
Sorted(S) ==
  {s \in [1..Cardinality(S) -> S] : \A i, j \in DOMAIN s : i < j => Before(s[i], s[j])}

\* pushChanges() and applyChanges(), which returns at a row of an invalid object: the rows
\* before it are changed, no one is told, and what was to be pushed is lost.
PushChanges ==
  /\ push.active
  /\ push' = [push EXCEPT !.active = FALSE]
  /\ gathered' = [k \in DOMAIN gathered |->
       IF k \in Changes
       THEN [gathered[k] EXCEPT !.changed = FALSE, !.info = [Change(k) EXCEPT !.count = 0]]
       ELSE gathered[k]]
  /\ info' = [a \in DOMAIN info \cup Reached |->
       IF a \in Reached /\ Timer(a) \in Changes THEN Change(Timer(a)) ELSE InfoOf(a)]
  /\ IF Reached = rows
     THEN /\ view' = Without(view, {a \in rows : Timer(a) \in Changes})
          /\ \E new \in Sorted(NewKeys) :
               free' = [i \in DOMAIN free |->
                          IF KeyOf(free[i]) \in Changes THEN Change(KeyOf(free[i])) ELSE free[i]]
                       \o [i \in DOMAIN new |-> Change(new[i])]
     ELSE UNCHANGED <<view, free>>
  /\ UNCHANGED <<object, raw, rows, queue>>

\* A view reads a row: data() and findTimerInfo().
Fetch(a) ==
  /\ a \in rows /\ object[a].alive /\ a \notin DOMAIN view
  /\ info' = With(info, a, InfoOf(a))
  /\ view' = With(view, a, InfoOf(a).count)
  /\ UNCHANGED <<object, raw, rows, queue, gathered, free, push>>

ClearHistory ==
  /\ gathered' = Empty /\ info' = Empty /\ free' = <<>> /\ view' = Empty
  /\ UNCHANGED <<object, raw, rows, queue, push>>

-----------------------------------------------------------------------------
Next ==
  \/ \E a \in Address : \/ Switch(a) \/ SwitchRaw(a) \/ PreSignalActivate(a)
                        \/ PostSignalActivate(a) \/ Create(a) \/ Fetch(a)
                        \/ \E inMain \in BOOLEAN : Destroy(a, inMain)
  \/ \E k \in raw : EventNotifyCallback(k)
  \/ ProcessQueuedObjectChanges \/ TriggerPushChanges \/ PushChanges \/ ClearHistory

\* The event loop of the main thread goes round and its timer ends; a view that is open
\* reads what it shows.
Fairness ==
  /\ WF_vars(ProcessQueuedObjectChanges) /\ WF_vars(TriggerPushChanges) /\ WF_vars(PushChanges)
  /\ \A a \in Address : WF_vars(Fetch(a))

Spec     == Init /\ [][Next]_vars
FairSpec == Spec /\ Fairness

-----------------------------------------------------------------------------
(* What has been gathered in whatever thread is not forgotten: a push is on its way   *)
(* (postSignalActivate(), eventNotifyCallback(), triggerPushChanges()).               *)
PushComes ==
  (\E k \in DOMAIN gathered : gathered[k].changed) => push.posted \/ push.active

FirstIsRight ==
  \A a \in DOMAIN info : object[a].gen = 1 =>
    /\ info[a].count <= object[a].fired
    /\ object[a].alive => info[a].state # "invalid" /\ ~Null(object, info[a])

FreeIsRight ==
  \A i \in DOMAIN free :
    /\ \A j \in DOMAIN free : KeyOf(free[i]) = KeyOf(free[j]) => i = j
    /\ KeyOf(free[i]) \in DOMAIN gathered => free[i].count <= gathered[KeyOf(free[i])].count

(* A timer that is the first at its address has not more wake-ups in its row than it  *)
(* has fired, and the row knows it; a raw timer has one row, with no more wake-ups    *)
(* than were gathered (preSignalActivate(), update(), applyChanges()).                *)
RowsRight == FirstIsRight /\ FreeIsRight

(* Wake-ups of a timer in the model reach its row and the views, unless they are       *)
(* cleared, or a row of an invalid object is met on the way (pushChanges(),            *)
(* applyChanges()).                                                                    *)
EventuallyShown ==
  \A a \in Starter, n \in 1..MaxFired :
    a \in rows /\ Timer(a) \in DOMAIN gathered /\ gathered[Timer(a)].count >= n
      /\ gathered[Timer(a)].changed
    ~> \/ \E b \in rows : ~object[b].alive
       \/ a \notin rows \/ Timer(a) \notin DOMAIN gathered
       \/ a \in DOMAIN view /\ view[a] >= n
=============================================================================
