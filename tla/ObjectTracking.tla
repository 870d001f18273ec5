--------------------------- MODULE ObjectTracking ---------------------------
(***************************************************************************)
(* Object tracking by the probe (core/probe.cpp): the QObject hooks, the   *)
(* creation queue drained by a zero timer, discovery, the event filter and *)
(* the object list and tree that listen to the probe's signals.            *)
(*                                                                         *)
(* Two kinds of threads run: the main thread, where the probe lives, and   *)
(* worker threads.  Everything the probe does happens under the recursive  *)
(* mutex s_lock; the code of the lock holder runs in small steps, the      *)
(* nested calls still to be made being the stack "calls".  The target's    *)
(* own pointers (heap, parent) change without that lock.                   *)
(***************************************************************************)
EXTENDS ObjectModels, Sequences, FiniteSets

CONSTANTS
  Ours,        \* addresses used for objects GammaRay itself creates
  Internal,    \* those of them that are instances of a GammaRay:: class
  Findable,    \* addresses of qApp and of windows: findExistingObjects() starts there
  WorkerObj,   \* addresses the target's worker threads construct objects at
  Preloaded,   \* hooks installed before main() (trackDestroyed = FALSE) or by an attach
  InitObj,     \* addresses of objects plugins construct when ToolManager initialises them
  Inversion,   \* the target may put an object below one it was above at the last drain
  MaxChanges   \* bound: constructions plus reparentings of one run

ASSUME TrackingAssumption ==
  /\ Internal \subseteq Ours /\ Ours \subseteq Obj /\ Findable \subseteq Obj \ Ours
  /\ WorkerObj \subseteq Obj \ (Ours \cup Findable) /\ InitObj \subseteq Obj
  /\ Preloaded \in BOOLEAN /\ Inversion \in BOOLEAN
  /\ MaxChanges \in Nat

Thread == {"main", "worker"}

VARIABLES
  heap,          \* "free", "base" (in QObject's ctor), "derived" (in a subclass ctor),
                 \* "nested" (the same, inside a plugin's init()), "live"
  parent,        \* QObject::parent()
  home,          \* the thread an object lives in
  hooked,        \* the QObject hooks are installed
  phase,         \* "before" createProbe(), "attached", "running" (event filter installed)
  addedBefore,   \* s_listener()->addedBeforeProbeInstance; in stage "attach" what is left of it
  valid,         \* m_validObjects
  queue,         \* m_queuedObjectChanges
  pending,       \* m_pendingReparents
  timerActive,   \* m_queueTimer->isActive()
  startPosted,   \* a queued call of m_queueTimer->start() is in the main event queue
  stage,         \* the main thread's loop under the lock, "fired" while it waits for it
  todo,          \* what that loop has left to iterate over
  calls,         \* nested calls of the lock holder, innermost first
  caller,        \* the thread that makes them
  list,          \* rows of the object list model, by object
  tree,          \* the object tree model
  lost,          \* history: objects the models no longer follow, by cause
  changes        \* counts towards MaxChanges

heapVars  == <<heap, parent, home, changes>>
hookVars  == <<hooked, phase, addedBefore>>
queueVars == <<queue, pending, timerActive, startPosted>>
loopVars  == <<stage, todo>>
callVars  == <<calls, caller>>
modelVars == <<list, tree>>
vars == <<heapVars, hookVars, valid, queueVars, loopVars, callVars, modelVars, lost>>

-----------------------------------------------------------------------------
Change(type, o)  == [type |-> type, obj |-> o]
ChangeTypes      == {"Create", "Destroy", "Reparent"}

Call(fn, o)      == [fn |-> fn, obj |-> o, fromCtor |-> FALSE]
\* Mutant of CtorCall: the hook does not say that it runs in a constructor.
AddedCall(o)     == Call("objectAdded", o)
CtorCall(o)      == [fn |-> "objectAdded", obj |-> o, fromCtor |-> TRUE]
Functions        == {"objectAdded", "trackObject", "objectFullyConstructed", "toolInit", "objectCreated",
                     "discoverObject", "discoverChildren",
                     "childRemoved", "childAdded", "parentChange"}

\* Ways the models lose track of an object: its creation was dropped by a drain,
\* its row was taken by the queued deletion of an earlier object at its address,
\* eventFilter() ignored its move, the tree row it hung below was removed first, it
\* was moved below an object that has no row or while its own was out of sight, its
\* parent changed where no event filter looks, it went while its tree row was out
\* of sight, which leaves the row, it is not tracked and has one as a parent, or it
\* became known while objectAdded() waited for its parent, which announces it again.
Loss == {"dropped", "mistaken", "ignored", "stranded", "misplaced", "unseen", "buried",
         "borrowed", "repeated"}

\* Heap states of an object past QObject's constructor.
Alive == {"derived", "nested", "live"}

ObjectChanges == [type : ChangeTypes, obj : Obj]
CallFrames    == [fn : Functions, obj : Obj, fromCtor : BOOLEAN]

TypeOK ==
  /\ heap \in [Obj -> {"free", "base"} \cup Alive]
  /\ parent \in [Obj -> ObjOrNull]
  /\ home \in [Obj -> Thread]
  /\ hooked \in BOOLEAN
  /\ phase \in {"before", "attached", "running"}
  /\ addedBefore \subseteq Obj
  /\ valid \subseteq Obj
  /\ queue \in Seq([type : {"Create", "Destroy"}, obj : Obj])
  /\ pending \in Seq(Obj)
  /\ timerActive \in BOOLEAN /\ startPosted \in BOOLEAN
  /\ stage \in {"idle", "fired", "changes", "reparents", "attach", "find"}
  /\ todo \in Seq(ObjectChanges)
  /\ calls \in Seq(CallFrames)
  /\ caller \in Thread
  /\ list \in [Obj -> Nat]
  /\ tree \in [childParent : UNION {[S -> ObjOrNull] : S \in SUBSET Obj},
               parentChild : [ObjOrNull -> [Obj -> Nat]]]
  /\ lost \in [Loss -> SUBSET Obj]
  /\ changes \in 0..MaxChanges

Init ==
  /\ heap = [o \in Obj |-> "free"]
  /\ parent = [o \in Obj |-> Null]
  /\ home = [o \in Obj |-> "main"]
  /\ hooked = Preloaded
  /\ phase = "before"
  /\ addedBefore = {}
  /\ valid = {}
  /\ queue = << >> /\ pending = << >>
  /\ timerActive = FALSE /\ startPosted = FALSE
  /\ stage = "idle" /\ todo = << >>
  /\ calls = << >> /\ caller = "main"
  /\ list = NoRows /\ tree = EmptyTree
  /\ lost = [c \in Loss |-> {}]
  /\ changes = 0

-----------------------------------------------------------------------------
(***************************************************************************)
(* Helpers of probe.cpp.                                                   *)
(***************************************************************************)

\* filterObject(): o is, or is below, one of GammaRay's own objects.  The class
\* name tells only once the subclass constructors have run.
FilterObject(o) ==
  \E a \in SelfAndAncestors(parent, o) : a \in Internal /\ heap[a] = "live"

\* What discoverObject() adds to its records when it comes across the objects S.
Undiscovered(S) == {o \in S : /\ heap[o] \in Alive /\ home[o] = "main"
                              /\ o \notin valid /\ ~FilterObject(o)}

\* The objects in m_pendingReparents.
Deferred == {pending[i] : i \in DOMAIN pending}

\* QVector::removeAll(): what is kept of s, in order.
Kept(s, x) == {i \in DOMAIN s : s[i] # x}
AllRemoved(s, x) ==
  [k \in 1..Cardinality(Kept(s, x)) |->
     s[CHOOSE i \in Kept(s, x) : Cardinality({j \in Kept(s, x) : j <= i}) = k]]

\* isObjectCreationQueued()
CreationQueued(o) == \E i \in DOMAIN queue : queue[i] = Change("Create", o)

\* purgeChangesForObject(): only the first queued creation goes.
Purged(q, o) ==
  LET hits == {i \in DOMAIN q : q[i] = Change("Create", o)}
  IN  IF hits = {} THEN q
      ELSE LET first == CHOOSE i \in hits : \A j \in hits : i <= j
           IN  SubSeq(q, 1, first - 1) \o SubSeq(q, first + 1, Len(q))

\* Mutant of Notify: a timer cannot be started from another thread, so it is not.
NotifyHere(t) ==
  /\ timerActive' = (timerActive \/ t = "main")
  /\ UNCHANGED startPosted

\* notifyQueuedObjectChanges(), called by thread t
Notify(t) ==
  IF timerActive THEN UNCHANGED <<timerActive, startPosted>>
  ELSE IF t = "main" THEN timerActive' = TRUE /\ UNCHANGED startPosted
                     ELSE startPosted' = TRUE /\ UNCHANGED timerActive

\* Mutant of Enqueue: nothing is appended once a drain is due.
EnqueueWhenIdle(type, o, t) ==
  /\ queue' = IF timerActive THEN queue ELSE Append(queue, Change(type, o))
  /\ Notify(t)
  /\ UNCHANGED pending

\* queueCreatedObject() and queueDestroyedObject()
Enqueue(type, o, t) ==
  /\ queue' = Append(queue, Change(type, o))
  /\ Notify(t)
  /\ UNCHANGED pending

\* The parent each object has in the tree model.
TreeParents == [x \in Obj |-> MappedParent(tree, x)]

\* What came into sight in the tree t without being tracked.
Untracked(t) == Indexed(t) \ (Indexed(tree) \cup valid)

\* emit objectCreated(): both models add the object.
EmitCreated(o) ==
  /\ list' = RowAdded(list, o)
  /\ tree' = TreeAdded(tree, parent, o)
  /\ lost' = [lost EXCEPT !["borrowed"] = @ \cup Untracked(tree')]

\* emit objectDestroyed(): both models remove it.
EmitDestroyed(o) ==
  /\ list' = RowRemoved(list, o)
  /\ tree' = TreeRemoved(tree, o)
  /\ lost' = [lost EXCEPT
       !["stranded"] = @ \cup {x \in valid \ {o} : o \in SelfAndAncestors(TreeParents, x)},
       !["mistaken"] = @ \cup ({o} \cap valid),
       !["buried"]   = IF IsRow(tree, o) THEN @ \cup ({o} \ Indexed(tree)) ELSE @]

\* o starts anew: no loss of an earlier object at its address is held against it,
\* but for rows the models keep.
Forget(o, l) ==
  [c \in Loss |-> IF c \in {"misplaced", "buried", "repeated"} THEN l[c] ELSE l[c] \ {o}]

\* emit objectReparented(): a row moved below an object without one goes out of
\* sight, and one that is out of sight is not moved.
EmitReparented(o) ==
  LET placed == Knows(tree, o) =>
                  o \in Indexed(tree) /\ parent[o] \in Indexed(tree) \cup {Null}
  IN
  /\ tree' = TreeReparented(tree, parent, o)
  /\ lost' = [lost EXCEPT !["ignored"] = @ \ {o},
                          !["misplaced"] = IF placed THEN @ \ {o} ELSE @ \cup {o},
                          !["borrowed"] = @ \cup Untracked(tree')]
  /\ UNCHANGED list

\* s_lock is free; the main thread runs target code or waits for its events.
LockFree   == stage \in {"idle", "fired"} /\ calls = << >>
MainIdle   == stage = "idle" /\ calls = << >>
\* A plugin's init() runs inside ToolManager::objectAdded().
InToolInit == calls # << >> /\ Head(calls).fn = "toolInit"
\* The main thread is back in its event loop: none of its constructors is running.
InEventLoop == /\ stage = "idle"
               /\ calls # << >> => caller = "worker"
               /\ \A o \in Obj : home[o] = "main" => heap[o] # "derived"

Instance == phase # "before"
-----------------------------------------------------------------------------
(***************************************************************************)
(* The target program and GammaRay's own code: QObject's constructor,      *)
(* destructor and setParent(), in the thread an object lives in.           *)
(***************************************************************************)

Usable(p, t) == p # Null => heap[p] \in Alive /\ home[p] = t

Occupy(o, p, t, s) ==
  /\ heap[o] = "free" /\ changes < MaxChanges
  /\ Usable(p, t)
  /\ heap' = [heap EXCEPT ![o] = s]
  /\ parent' = [parent EXCEPT ![o] = p]
  /\ home' = [home EXCEPT ![o] = t]
  /\ changes' = changes + 1

\* Main thread: the ChildAdded event and the hook both call objectAdded() from
\* the QObject constructor, the second call finds the object known.  Under a
\* ProbeGuard both return early; before createProbe() GammaRay constructs only
\* under one.
Construct(o, p, guarded) ==
  /\ MainIdle \/ (InToolInit /\ o \in InitObj)
  /\ guarded => o \in Ours
  /\ (o \in Ours /\ ~Instance) => guarded
  /\ Occupy(o, p, "main", IF guarded THEN "live" ELSE IF InToolInit THEN "nested" ELSE "derived")
  /\ IF hooked /\ ~guarded
     THEN calls' = <<CtorCall(o)>> \o calls /\ caller' = "main"
     ELSE UNCHANGED callVars
  /\ UNCHANGED <<hookVars, valid, queueVars, loopVars, modelVars, lost>>

\* Worker thread: memory and parent first, without the lock ...
ConstructInWorker(o, p) ==
  /\ o \in WorkerObj
  /\ Occupy(o, p, "worker", "base")
  /\ UNCHANGED <<hookVars, valid, queueVars, loopVars, callVars, modelVars, lost>>

\* ... then the hook, which waits for the lock.
HookInWorker(o) ==
  /\ heap[o] = "base" /\ LockFree
  /\ heap' = [heap EXCEPT ![o] = "derived"]
  /\ IF hooked THEN calls' = <<CtorCall(o)>> /\ caller' = "worker"
               ELSE UNCHANGED callVars
  /\ UNCHANGED <<parent, home, changes, hookVars, valid, queueVars, loopVars,
                 modelVars, lost>>

\* The subclass constructors return.
FinishConstructor(o) ==
  /\ heap[o] \in {"derived", "nested"}
  /\ home[o] = "main" => IF heap[o] = "nested" THEN InToolInit ELSE MainIdle
  /\ (home[o] = "worker" /\ calls # << >>) => caller = "main"
  /\ heap' = [heap EXCEPT ![o] = "live"]
  /\ UNCHANGED <<parent, home, changes, hookVars, valid, queueVars, loopVars,
                 callVars, modelVars, lost>>

\* Mutant of RemovedBefore: the early record keeps the deleted object.
RemovedBeforeKept(o) == UNCHANGED <<addedBefore, valid, queueVars, modelVars, lost>>

\* Mutant of RemovedElsewhere: the deletion is not queued.
RemovedElsewhereSilently(o) ==
  /\ valid' = valid \ {o}
  /\ queue' = Purged(queue, o)
  /\ Notify("worker")
  /\ UNCHANGED <<addedBefore, pending, modelVars, lost>>

\* objectRemoved(), from ~QObject() in thread t, children already gone: before
\* the instance exists ...
RemovedBefore(o) ==
  /\ addedBefore' = addedBefore \ {o}
  /\ UNCHANGED <<valid, queueVars, modelVars, lost>>

\* ... of a tracked object of the main thread ...
RemovedHere(o) ==
  /\ valid' = valid \ {o}
  /\ queue' = Purged(queue, o)
  /\ EmitDestroyed(o)
  /\ UNCHANGED <<addedBefore, pending, timerActive, startPosted>>

\* ... of a tracked object of a worker thread ...
RemovedElsewhere(o) ==
  /\ valid' = valid \ {o}
  /\ queue' = Append(Purged(queue, o), Change("Destroy", o))
  /\ Notify("worker")
  /\ UNCHANGED <<addedBefore, pending, modelVars, lost>>

\* ... or of an object that is not tracked.
ObjectRemoved(o, t) ==
  \/ ~Instance /\ RemovedBefore(o)
  \/ Instance /\ o \in valid /\ t = "main" /\ RemovedHere(o)
  \/ Instance /\ o \in valid /\ t = "worker" /\ RemovedElsewhere(o)
  \/ Instance /\ o \notin valid
       /\ UNCHANGED <<addedBefore, valid, queueVars, modelVars, lost>>

Destroy(o) ==
  LET t == home[o] IN
  /\ heap[o] = "live" /\ ChildrenOf(parent, o) = {}
  /\ IF t = "main"
     THEN \/ MainIdle
          \/ InToolInit /\ o \in InitObj \cap Ours /\ \A i \in DOMAIN calls : calls[i].obj # o
     ELSE LockFree
  /\ heap' = [heap EXCEPT ![o] = "free"]
  /\ parent' = [parent EXCEPT ![o] = Null]
  /\ home' = [home EXCEPT ![o] = "main"]
  /\ IF hooked THEN ObjectRemoved(o, t) ELSE UNCHANGED <<addedBefore, valid, queueVars, modelVars, lost>>
  /\ UNCHANGED <<hooked, phase, loopVars, callVars, changes>>

\* setParent().  ChildRemoved goes to the old parent, ChildAdded to the new one,
\* and a widget also receives ParentChange; the application's event filter sees
\* the events of main thread objects only, once it is installed.
SetParent(o, p, widget) ==
  LET t      == home[o]
      old    == parent[o]
      seen   == t = "main" /\ phase = "running"
      events == (IF old # Null THEN <<Call("childRemoved", o)>> ELSE << >>)
                \o (IF p # Null THEN <<Call("childAdded", o)>> ELSE << >>)
                \o (IF widget THEN <<Call("parentChange", o)>> ELSE << >>)
  IN
  /\ heap[o] \in Alive /\ p # old /\ changes < MaxChanges
  /\ Usable(p, t)
  /\ p # Null => o \notin SelfAndAncestors(parent, p)
  /\ ~Inversion /\ p # Null =>
       o \notin SelfAndAncestors(TreeParents, p)
  /\ t = "main" => MainIdle
  /\ (t = "worker" /\ calls # << >>) => caller = "main"
  /\ parent' = [parent EXCEPT ![o] = p]
  /\ changes' = changes + 1
  /\ IF seen THEN calls' = events /\ caller' = "main" ELSE UNCHANGED callVars
  /\ lost' = IF seen \/ phase = "before" THEN lost
             ELSE [lost EXCEPT !["unseen"] = @ \cup {o}]
  /\ UNCHANGED <<heap, home, hookVars, valid, queueVars, loopVars, modelVars>>

\* Any other event the filter sees; without preloaded hooks it triggers discovery.
ReceiveEvent(o) ==
  /\ MainIdle /\ phase = "running" /\ ~Preloaded
  /\ o \in Undiscovered(Obj)
  /\ calls' = <<Call("discoverObject", o)>> /\ caller' = "main"
  /\ UNCHANGED <<heapVars, hookVars, valid, queueVars, loopVars, modelVars, lost>>

-----------------------------------------------------------------------------
(***************************************************************************)
(* Start-up: hooks, createProbe() and delayedInit().                       *)
(***************************************************************************)

\* gammaray_probe_inject()
InstallHooks ==
  /\ InEventLoop /\ ~hooked
  /\ hooked' = TRUE
  /\ UNCHANGED <<heapVars, phase, addedBefore, valid, queueVars, loopVars, callVars,
                 modelVars, lost>>

\* createProbe(): the instance is set with the lock held, then every object seen
\* so far is added; "find" follows with what findExistingObjects() reaches.
CreateProbe ==
  /\ InEventLoop /\ calls = << >> /\ hooked /\ phase = "before"
  /\ phase' = "attached"
  /\ stage' = "attach"
  /\ UNCHANGED <<heapVars, hooked, addedBefore, valid, queueVars, todo, callVars,
                 modelVars, lost>>

\* The loop over addedBeforeProbeInstance, in any order: parents come first anyway.
AddNext ==
  /\ stage = "attach" /\ calls = << >>
  /\ \E o \in addedBefore :
       /\ calls' = <<Call("objectAdded", o)>> /\ caller' = "main"
       /\ addedBefore' = addedBefore \ {o}
  /\ UNCHANGED <<heapVars, hooked, phase, valid, queueVars, loopVars, modelVars, lost>>

AddedAll ==
  /\ stage = "attach" /\ calls = << >> /\ addedBefore = {}
  /\ \E findExisting \in (IF Preloaded THEN BOOLEAN ELSE {TRUE}) :
       stage' = IF findExisting THEN "find" ELSE "idle"
  /\ UNCHANGED <<heapVars, hookVars, valid, queueVars, todo, callVars, modelVars, lost>>

FindNext ==
  /\ stage = "find" /\ calls = << >>
  /\ IF Undiscovered(Findable) = {}
     THEN stage' = "idle" /\ UNCHANGED callVars
     ELSE \E o \in Undiscovered(Findable) :
            /\ calls' = <<Call("discoverObject", o)>> /\ caller' = "main"
            /\ UNCHANGED stage
  /\ UNCHANGED <<heapVars, hookVars, valid, queueVars, todo, modelVars, lost>>

DelayedInit ==
  /\ InEventLoop /\ phase = "attached"
  /\ phase' = "running"
  /\ UNCHANGED <<heapVars, hooked, addedBefore, valid, queueVars, loopVars, callVars,
                 modelVars, lost>>
-----------------------------------------------------------------------------
(***************************************************************************)
(* processQueuedObjectChanges(), the slot of the zero timer.               *)
(***************************************************************************)

\* The posted call of QTimer::start() is delivered.
DeliverStart ==
  /\ InEventLoop /\ startPosted
  /\ startPosted' = FALSE
  /\ timerActive' = TRUE
  /\ UNCHANGED <<heapVars, hookVars, valid, queue, pending, loopVars, callVars, modelVars,
                 lost>>

\* A single shot timer stops before its slot asks for the lock.
TimerFires ==
  /\ InEventLoop /\ timerActive
  /\ timerActive' = FALSE
  /\ stage' = "fired"
  /\ UNCHANGED <<heapVars, hookVars, valid, queue, pending, startPosted, todo, callVars,
                 modelVars, lost>>

\* The lock is ours; the loop runs over a copy of the queue.
StartDrain ==
  /\ stage = "fired" /\ calls = << >>
  /\ stage' = "changes"
  /\ todo' = queue
  /\ UNCHANGED <<heapVars, hookVars, valid, queueVars, callVars, modelVars, lost>>

DrainChange ==
  /\ stage = "changes" /\ calls = << >> /\ todo # << >>
  /\ todo' = Tail(todo)
  /\ IF Head(todo).type = "Create"
     THEN /\ calls' = <<Call("objectFullyConstructed", Head(todo).obj)>>
          /\ caller' = "main"
          /\ UNCHANGED <<modelVars, lost>>
     ELSE EmitDestroyed(Head(todo).obj) /\ UNCHANGED callVars
  /\ UNCHANGED <<heapVars, hookVars, valid, queueVars, stage>>

\* m_queuedObjectChanges.clear(), whatever was queued while the loop ran.
ClearQueue ==
  /\ stage = "changes" /\ calls = << >> /\ todo = << >>
  /\ queue' = << >>
  /\ lost' = [lost EXCEPT !["dropped"] = @ \cup {o \in valid \ RowsOf(list) : CreationQueued(o)}]
  /\ stage' = "reparents"
  /\ todo' = [i \in DOMAIN pending |-> Change("Reparent", pending[i])]
  /\ UNCHANGED <<heapVars, hookVars, valid, pending, timerActive, startPosted, callVars,
                 modelVars>>

DrainReparent ==
  /\ stage = "reparents" /\ calls = << >> /\ todo # << >>
  /\ todo' = Tail(todo)
  /\ LET o == Head(todo).obj IN
       CASE o \notin valid -> UNCHANGED <<valid, queue, modelVars, lost>>
         [] o \in valid /\ FilterObject(o) ->
              /\ valid' = valid \ {o}
              /\ queue' = Purged(queue, o)
              /\ EmitDestroyed(o)
         [] OTHER -> EmitReparented(o) /\ UNCHANGED <<valid, queue>>
  /\ UNCHANGED <<heapVars, hookVars, pending, timerActive, startPosted, stage, callVars>>

FinishDrain ==
  /\ stage = "reparents" /\ calls = << >> /\ todo = << >>
  /\ pending' = << >>
  /\ stage' = "idle"
  /\ UNCHANGED <<heapVars, hookVars, valid, queue, timerActive, startPosted, todo, callVars,
                 modelVars, lost>>

-----------------------------------------------------------------------------
(***************************************************************************)
(* The functions the lock holder calls.  Each step runs the innermost call *)
(* f up to its next call, or to its return.                                *)
(***************************************************************************)

Running(fn) == calls # << >> /\ Head(calls).fn = fn

Return == calls' = Tail(calls)
CallFirst(f) == calls' = <<f>> \o calls          \* the current call goes on later
CallLast(f)  == calls' = <<f>> \o Tail(calls)    \* the current call ends with f

ParentUnknown(o) == parent[o] # Null /\ parent[o] \notin valid

\* objectAdded() up to where the parent is known.
ObjectAdded ==
  /\ Running("objectAdded")
  /\ LET f     == Head(calls)
         o     == f.obj
         track == [f EXCEPT !.fn = "trackObject"]
     IN
       \/ /\ ~Instance
          /\ addedBefore' = addedBefore \cup {o}
          /\ Return
       \/ /\ Instance /\ (FilterObject(o) \/ o \in valid)
          /\ Return /\ UNCHANGED addedBefore
       \/ /\ Instance /\ ~FilterObject(o) /\ o \notin valid
          /\ IF ParentUnknown(o)
             THEN calls' = <<[f EXCEPT !.obj = parent[o]], track>> \o Tail(calls)
             ELSE CallLast(track)
          /\ UNCHANGED addedBefore
  /\ UNCHANGED <<heapVars, hooked, phase, valid, queueVars, loopVars, caller, modelVars, lost>>

\* The rest of it, which does not look again whether o has become known in between.
TrackObject ==
  /\ Running("trackObject")
  /\ LET o == Head(calls).obj IN
       /\ valid' = valid \cup {o}
       /\ lost' = IF o \in valid THEN [lost EXCEPT !["repeated"] = @ \cup {o}] ELSE Forget(o, lost)
       /\ IF Head(calls).fromCtor \/ (parent[o] # Null /\ CreationQueued(parent[o]))
          THEN Enqueue("Create", o, caller) /\ Return
          ELSE CallLast(Call("objectFullyConstructed", o)) /\ UNCHANGED queueVars
  /\ UNCHANGED <<heapVars, hookVars, loopVars, caller, modelVars>>

\* The nearest ancestor not tracked yet, if any.
UnknownAncestors(o) == SelfAndAncestors(parent, o) \ (valid \cup {o})
NearestUnknown(o) ==
  {a \in UnknownAncestors(o) :
     \A b \in UnknownAncestors(o) : b \in SelfAndAncestors(parent, a)}

ObjectFullyConstructed ==
  /\ Running("objectFullyConstructed")
  /\ LET o == Head(calls).obj IN
       \/ /\ o \notin valid
          /\ Return /\ UNCHANGED valid
       \/ /\ o \in valid /\ FilterObject(o)
          /\ Return /\ valid' = valid \ {o}
       \/ /\ o \in valid /\ ~FilterObject(o)
          /\ \E a \in NearestUnknown(o) :
               calls' = <<Call("objectAdded", a), Call("toolInit", o)>> \o Tail(calls)
          /\ UNCHANGED valid
       \/ /\ o \in valid /\ ~FilterObject(o) /\ UnknownAncestors(o) = {}
          /\ CallLast(Call("toolInit", o)) /\ UNCHANGED valid
  /\ UNCHANGED <<heapVars, hookVars, queueVars, loopVars, caller, modelVars, lost>>

\* ToolManager::objectAdded() returns; Construct and Destroy model what init() does.
ToolInitReturns ==
  /\ Running("toolInit") /\ \A o \in Obj : heap[o] # "nested"
  /\ CallLast(Call("objectCreated", Head(calls).obj))
  /\ UNCHANGED <<heapVars, hookVars, valid, queueVars, loopVars, caller, modelVars, lost>>

ObjectCreated ==
  /\ Running("objectCreated")
  /\ EmitCreated(Head(calls).obj)
  /\ Return
  /\ UNCHANGED <<heapVars, hookVars, valid, queueVars, loopVars, caller>>

DiscoverObject ==
  /\ Running("discoverObject")
  /\ LET o == Head(calls).obj IN
       calls' = IF o \in valid THEN Tail(calls)
                ELSE <<Call("objectAdded", o), Call("discoverChildren", o)>> \o Tail(calls)
  /\ UNCHANGED <<heapVars, hookVars, valid, queueVars, loopVars, caller, modelVars, lost>>

\* foreach (child, object->children()) discoverObject(child)
DiscoverChildren ==
  /\ Running("discoverChildren")
  /\ LET left == Undiscovered(ChildrenOf(parent, Head(calls).obj)) IN
       IF left = {} THEN Return
                    ELSE \E c \in left : CallFirst(Call("discoverObject", c))
  /\ UNCHANGED <<heapVars, hookVars, valid, queueVars, loopVars, caller, modelVars, lost>>

\* eventFilter() defers a move until the final parent is known ...
DeferReparent(o) ==
  /\ pending' = Append(pending, o)
  /\ Notify("main")
  /\ lost' = [lost EXCEPT !["ignored"] = @ \ {o}]
  /\ UNCHANGED <<queue, modelVars>>

\* ... or reports it at once ...
ReportReparent(o) ==
  /\ pending' = IF o \in Deferred THEN AllRemoved(pending, o) ELSE pending
  /\ EmitReparented(o)
  /\ UNCHANGED <<queue, timerActive, startPosted>>

\* ... or does nothing, which loses the move if o's creation is not queued.
IgnoreEvent(o) ==
  /\ lost' = IF o \in valid /\ ~CreationQueued(o) /\ o \notin Deferred
             THEN [lost EXCEPT !["ignored"] = @ \cup {o}] ELSE lost
  /\ UNCHANGED <<queueVars, modelVars>>

MoveKnown(o) == /\ o \in valid /\ ~FilterObject(o) /\ ~CreationQueued(o)
                /\ parent[o] # Null => ~CreationQueued(parent[o])

ChildRemoved ==
  /\ Running("childRemoved")
  /\ LET o == Head(calls).obj IN
       IF o \in valid THEN DeferReparent(o) ELSE UNCHANGED <<queueVars, modelVars, lost>>
  /\ Return
  /\ UNCHANGED <<heapVars, hookVars, valid, loopVars, caller>>

ChildAdded ==
  /\ Running("childAdded")
  /\ LET o == Head(calls).obj IN
       CASE ~FilterObject(o) /\ o \notin valid ->
              CallLast(CtorCall(o)) /\ UNCHANGED <<queueVars, modelVars, lost>>
         [] MoveKnown(o) -> ReportReparent(o) /\ Return
         [] FilterObject(o) /\ o \in valid -> DeferReparent(o) /\ Return
         [] OTHER -> Return /\ IgnoreEvent(o)
  /\ UNCHANGED <<heapVars, hookVars, valid, loopVars, caller>>

ParentChange ==
  /\ Running("parentChange")
  /\ LET o == Head(calls).obj IN
       IF MoveKnown(o) THEN ReportReparent(o) ELSE IgnoreEvent(o)
  /\ Return
  /\ UNCHANGED <<heapVars, hookVars, valid, loopVars, caller>>

-----------------------------------------------------------------------------
Target ==
  \/ \E o \in Obj, p \in ObjOrNull :
       \/ \E guarded \in BOOLEAN : Construct(o, p, guarded)
       \/ ConstructInWorker(o, p)
       \/ \E widget \in BOOLEAN : SetParent(o, p, widget)
  \/ \E o \in Obj : Destroy(o) \/ ReceiveEvent(o)

Constructors == \E o \in Obj : HookInWorker(o) \/ FinishConstructor(o)

StartUp == InstallHooks \/ CreateProbe \/ AddNext \/ AddedAll \/ FindNext \/ DelayedInit

Drain == \/ DeliverStart \/ TimerFires \/ StartDrain
         \/ DrainChange \/ ClearQueue \/ DrainReparent \/ FinishDrain

Calls == \/ ObjectAdded \/ TrackObject \/ ObjectFullyConstructed \/ ToolInitReturns \/ ObjectCreated
         \/ DiscoverObject \/ DiscoverChildren
         \/ ChildRemoved \/ ChildAdded \/ ParentChange

Next == Target \/ Constructors \/ StartUp \/ Drain \/ Calls

Spec == Init /\ [][Next]_vars

\* Both event loops keep running and no constructor or nested call blocks for
\* ever; nothing is assumed of what the target decides to do.
FairSpec == Spec /\ WF_vars(Constructors) /\ WF_vars(StartUp)
                 /\ WF_vars(DeliverStart) /\ WF_vars(TimerFires)
                 /\ WF_vars(StartDrain \/ DrainChange \/ ClearQueue \/ DrainReparent \/ FinishDrain)
                 /\ WF_vars(Calls)
-----------------------------------------------------------------------------
(***************************************************************************)
(* Properties.                                                             *)
(***************************************************************************)

DestroyQueued(o) == \E i \in DOMAIN queue : queue[i] = Change("Destroy", o)
Constructing(o) ==
  \E i \in DOMAIN calls : /\ calls[i].obj = o
                          /\ calls[i].fn \in {"objectFullyConstructed", "toolInit", "objectCreated"}

\* isValidObject() is what every tool asks before it dereferences a pointer: a
\* tracked object's memory is never free, through the records kept before the
\* probe exists, constructions at a used address and deletions in any thread.
TrackedAlive == \A o \in valid : heap[o] \in Alive

\* A row of the object list whose object is no longer tracked is about to be
\* removed, as the queue holds the deletion its worker thread reported: drains,
\* nested calls and reused addresses leave no row behind, except for an object that
\* objectAdded() announced twice, as it became known while its parent was added.
RowsTracked ==
  \A o \in RowsOf(list) \ valid : DestroyQueued(o) \/ o \in lost["repeated"]

\* Work is never left in the queues with nothing under way to drain it: the
\* check of QTimer::isActive() from any thread, the queued start() and the single
\* shot do not lose a wake-up.
NoLostWakeup ==
  queue # << >> \/ pending # << >> =>
    timerActive \/ startPosted \/ stage \in {"fired", "changes", "reparents"}

\* A tracked object has a row, or its creation is queued or being announced,
\* unless a drain's clear() dropped that or the queued deletion of an earlier object
\* at its address took the row.
Accounted ==
  \A o \in valid : \/ list[o] > 0 \/ CreationQueued(o) \/ Constructing(o)
                   \/ o \in lost["dropped"] \cup lost["mistaken"]

\* With preloaded hooks objectCreated() comes after the constructors of a main thread
\* object returned.  Otherwise an event it receives from its constructor may do.
ConstructedBeforeCreated ==
  Preloaded /\ Running("objectCreated") =>
    LET o == Head(calls).obj IN home[o] = "main" => heap[o] # "derived"

Settled == MainIdle /\ phase = "running" /\ queue = << >> /\ pending = << >>

InPlace(o) == o \in Indexed(tree) /\ MappedParent(tree, o) = parent[o]

\* Listed main thread objects below tracked objects only that no loss of these
\* kinds can have affected, neither through themselves nor through an ancestor.
Followed(kinds) ==
  {o \in RowsOf(list) : /\ home[o] = "main"
                        /\ SelfAndAncestors(parent, o) \subseteq valid
                        /\ \A c \in kinds : SelfAndAncestors(parent, o) \cap lost[c] = {}}

\* With preloaded hooks: once the queues are drained the tree shows each object below
\* its parent, after any sequence of constructions, moves and deletions, seen as child events,
\* deferred moves and queued creations in whatever order they came, and at any time
\* no row that can be reached outlives its object, but for the losses, which the
\* README describes.
TreeAgrees ==
  Preloaded =>
  /\ \A o \in Indexed(tree) \ valid :
       DestroyQueued(o) \/ o \in lost["buried"] \cup lost["borrowed"] \cup lost["repeated"]
  /\ Settled => \A o \in Followed(Loss \ {"borrowed"}) : InPlace(o)

\* indexForObject() follows m_childParentMap to the root and always gets there: only
\* with Inversion = FALSE.
TreeRecursionEnds == TreeAcyclic(tree)

\* A drain clears no creation it has not announced.
NothingDropped == lost["dropped"] = {}

\* What probe.h promises of the two signals to whoever listens to them.
Signals == INSTANCE ObjectSignals WITH
             alive <- {o \in Obj : heap[o] \in Alive},
             shown <- RowsOf(list)
SignalsSpec == Signals!Spec

\* An object the probe tracks is announced, or goes, in the end: neither a timer
\* started across threads nor a nested call holds its creation up for ever.
EventuallyCreated ==
  \A o \in Obj : o \in valid ~> (list[o] > 0 \/ o \notin valid \/ o \in lost["dropped"])

\* The row of an object deleted in a worker thread goes in the end, if it is the only
\* one of its address (RowsTracked).
EventuallyRemoved ==
  \A o \in Obj : (list[o] > 0 /\ o \notin valid) ~>
                    (list[o] = 0 \/ o \in valid \/ o \in lost["repeated"])
=============================================================================
