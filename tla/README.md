# GammaRay in TLA+

GammaRay is an introspection tool for Qt programs. A *probe* is loaded into the
target process, follows every `QObject` there and presents what it finds as
item models; a *client* process shows copies of these models and sends back what
the user does. A *launcher* starts the target or attaches to it.

This directory models the parts of GammaRay whose correctness depends on order:
which of two threads comes first, what is queued while a queue is drained, which
row a request on the wire still means when it is answered, which of two sides
wrote last, what ends a wait. TLC checks the models on small instances; TLAPS
proves for every instance what the object tracking, the remote models, the session, the
selection, the remote view, the launching, the timer view and the tool activation must
never do.

| module | what it is |
|---|---|
| `ObjectModels` | the object list and the object tree (`core/objectlistmodel.cpp`, `core/objecttreemodel.cpp`) as operators: what each slot does to rows and parent maps |
| `ObjectTracking` | the probe: hooks, start-up, change queue, zero timer, discovery, event filter (`core/probe.cpp`, `probe/hooks.cpp`), with both models listening |
| `ObjectSignals` | abstract: what `core/probe.h` promises of `objectCreated()` and `objectDestroyed()` |
| `ObjectTrackingProofs` | `ObjectTracking`: tracked objects exist, no wake-up is lost, it implements `ObjectSignals`; types, announcements, and the balance of rows and what is queued |
| `RowTree` | rows of an item model named by paths, and what inserting, removing, moving and sorting does to the names |
| `RemoteModel` | a model of the target and the copy the client keeps of it (`core/remote/remotemodelserver.cpp`, `client/remotemodel.cpp`) over two FIFO channels |
| `RemoteModelProofs` | lemmas on `RowTree`, the inductive invariant of `RemoteModel` and its theorems |
| `Session` | the connection of a client and the objects and properties on both sides (`core/remote/server.cpp`, `client/client.cpp`, `common/endpoint.cpp`, `common/propertysyncer.cpp`) |
| `SessionProofs` | the inductive invariant of `Session` and its theorems |
| `Selection` | a selection kept equal on both sides (`common/networkselectionmodel.cpp`, `core/remote/selectionmodelserver.cpp`, `client/selectionmodelclient.cpp`) |
| `SelectionProofs` | the inductive invariant of `Selection` and its theorems |
| `RemoteView` | the live picture of a window: widget, server, OpenGL grabber (`ui/remoteviewwidget.cpp`, `core/remoteviewserver.cpp`, `plugins/quickinspector`) |
| `RemoteViewProofs` | the inductive invariant of `RemoteView` and its theorems |
| `Launch` | launcher, injectors, client launcher, and in the target the probe's wait for its settings (`launcher/core`, `core/probesettings.cpp`, `core/probecreator.cpp`) |
| `LaunchProofs` | two inductive invariants of `Launch` and its theorems |
| `MetaObjectRegistry` | meta objects, their merging and the counts of instances (`core/metaobjectregistry.cpp`) |
| `TimerModel` | the timer view: wake-ups gathered in all threads and pushed into rows (`plugins/timertop`) |
| `TimerModelProofs` | the inductive invariant of `TimerModel` and its theorems |
| `ToolManager` | activation of tools and the client's list of them (`core/toolmanager.cpp`, `ui/clienttoolmanager.cpp`) |
| `ToolManagerProofs` | two inductive invariants of `ToolManager` and its theorems |
| `MCObjectTracking`, `MCRemoteModel`, `MCMetaObjectRegistry`, `MCToolManager` | values of constants for TLC; `MCRemoteModel` also compares `RowTree` with lists on small inputs |

Run a check with `tlc -config <run>.cfg <module>.tla` (the MC module where there is
one), the proofs of a component with `tlapm <module>Proofs.tla`; the longest,
`ObjectTrackingProofs` and `RemoteModelProofs`, take some minutes from nothing.
`PROJECT.json` lists runs, the code each definition stands for, mutants that each
property notices, findings and hazards.

## The system

### Components, their state and how they meet

**Object tracking** (`core/probe.cpp`, `probe/hooks.cpp`). State: the objects
seen before there is a probe (`s_listener()->addedBeforeProbeInstance`), the set
of tracked objects (`m_validObjects`), the queue of creations and deletions to be
reported (`m_queuedObjectChanges`), moves to be looked at later
(`m_pendingReparents`), a single-shot zero timer. Operations: the hooks called
from `QObject`'s constructor and destructor in any thread, the start-up
(`createProbe()`, `delayedInit()`), discovery of objects that existed before an
attach, the event filter on child events, and the drain of the queues. All of
it runs under one recursive mutex, but the lock is taken per call: between any
two calls another thread's hook may come in, plugins may construct objects in the
middle of a drain, and the target changes its own pointers without any lock.
Correct when a tracked object's memory is never free, when every object is
announced once, after its constructor, and withdrawn, and when the two models
show what the target has.

**Object models** (`core/objectlistmodel.cpp`, `core/objecttreemodel.cpp`).
State: a sorted vector of objects; a map from child to parent and one from parent
to sorted children. Operations: slots of the probe's three signals. Correct when
no row outlives its object and each row is below its object's parent.

**Remote models** (`core/remote/remotemodelserver.cpp`,
`client/remotemodel.cpp`). State: on the client a tree of nodes with row counts,
contents and a load state per cell, header vectors, requests collected for a zero
timer, two sync barrier counters. Operations: views ask, requests and replies
cross the wire, and so do the notifications of the target's model. Correct when the
copy never shows a row's content at another row, never keeps an old value as a
fresh one, and never waits for an answer that does not come.

**Endpoint, Server, Client** (`common/endpoint.cpp`, `core/remote/server.cpp`,
`client/client.cpp`). State: object names and addresses, message handlers, the
negotiated data version, who monitors what. Correct when both sides agree which
object an address names, across registration, unregistration and reconnects, and
decode what they receive in the version it was written in.

**Property synchronisation** (`common/propertysyncer.cpp`), **selection
synchronisation** (`common/networkselectionmodel.cpp` and its two sides) and the
**remote view** (`core/remoteviewserver.cpp`, `ui/remoteviewwidget.cpp`, the
grabbers) each keep a value equal on both sides; the first two while both change
it, the last two with rows or frames that are not there yet. Correct when both
sides agree once everything has arrived, and no wait is left without its answer.

**Launcher** (`launcher/core/launcher.cpp`, the injectors, `clientlauncher.cpp`,
`core/probesettings.cpp`) waits for an injector, an announcement and a time-out at
once, while the main thread of each program with a probe waits for a receiver
thread. Correct when the launcher ends up with one verdict, tells it and starts no
client after a failure, and no program waits for ever for what will not come. The
**client connection manager** (`client/clientconnectionmanager.cpp`) retries.

**Meta object registry** (`core/metaobjectregistry.cpp`). State: canonical meta
objects, a map from every dynamic one to the canonical one of its name, pools of
alive instances, counters. Operations: slots of the probe's two signals. Correct when
the counters are those of the objects announced.

**Timer view** (`plugins/timertop/timermodel.cpp`, `timerinfo.cpp`). State: what the
callbacks have gathered per timer, under a mutex; what the rows show; a push timer.
Correct when no wake-up stays behind and none is shown at another timer.

**Tool activation** (`core/toolmanager.cpp`, `ui/clienttoolmanager.cpp`). State: tools
still disabled, classes already looked at; on the client the list and the tools with
an interface. Correct when every tool is enabled once, at the first object of its
type, also when the enabling itself makes objects known, and a client that connects
at any time learns of it.

**The rest**: the object broker, problem collector, binding aggregator, multi signal
mapper, message handler, property adaptors, paint analysis, about forty inspector
plugins, user interfaces, vendored code. Mostly sequential presentation of data;
`PROJECT.json` gives a reason for each that is not modelled.

They interact by Qt signals in the target process (the probe's two object
signals are what every tool and model is built on), by messages over one TCP or
local socket stream between server and client (hence FIFO and reliable while
the connection lasts), and by the posted events and timers of each event loop.

### What is hard to test here

Hooks of worker threads at any point of the main thread's code; queues appended
to while they are drained; addresses used again; reparenting seen as several
events, some deferred; requests that name rows by number while the numbers change;
writes of two sides that cross; waits that four facts of three threads have to
end; timers that fire after what they were for is gone. `PROJECT.json` lists each
of them under `hazards`, at the line where it bites, with the properties that watch
it.

### Runs

| run | module, instance | shows |
|---|---|---|
| `tracking_preload` | `MCObjectTracking`: one object of the application, one of a worker thread, one of GammaRay's, of which a plugin's `init()` may construct the last two; hooks installed before `main()`; 5 changes | `TypeOK`, `TrackedAlive`, `RowsTracked`, `NoLostWakeup`, `Accounted`, `ConstructedBeforeCreated`, `TreeAgrees` |
| `tracking_reentrant` | `MCObjectTracking`: attached to a running program; two objects, one of a worker thread, either of which a plugin may construct inside the drain | refinement `SignalsSpec`; under fairness `EventuallyCreated`, `EventuallyRemoved` |
| `finding_dropped` | `MCObjectTracking`: the smallest instance that shows it | a creation queued inside the drain is cleared unseen: `NothingDropped` is violated |
| `remote` | `MCRemoteModel`: two rows in two levels with headers, two changes, one request on its way | `Coherent`, `NoLostRequest`, `HeadersKeepUp`; under fairness `EventuallyInSync` |
| `finding_moved` | `MCRemoteModel`: three rows, of which two at once move to another parent | the first of the rows is marked as being loaded for ever: `NoLostRequest` is violated |
| `session` | `Session`: one name, two addresses, two connections, three writes | `NamesAgree`, `DecodedAsEncoded`, `Monitored`, `AgreeUnlessRaced`; under fairness `Decided` |
| `selection` | `Selection`: two rows, one change of the model, two choices | `AgreeUnlessRaced`; under fairness `Settles`, `PendingApplied`; `ChoiceKept` |
| `view` | `RemoteView`: one change, two things the user does, two posted events; saved images and reconnection | `GrabberComesBack`, `ClientComesBack`; under fairness `EventuallyShown` |
| `launch` | `Launch`: two programs, every combination of options | `NoClientAfterFailure`, `StatusTells`, `SettingsInTime`; under fairness `WaitsEnd`, `LauncherDecides` |
| `registry` | `MCMetaObjectRegistry`: two objects, three dynamic meta objects of two classes, one derived from the other; 4 creations | `CountsExact`, `OneOfAName`, `InstanceExists` |
| `timertop` | `TimerModel`: one address that two timers use one after the other, one raw timer; two time-outs, one event | `PushComes`, `RowsRight`; under fairness `EventuallyShown` |
| `tools` | `MCToolManager`: five tools for four classes, one of them derived from another (two for the derived one, of which one has no page, one for two classes, and one for the unrelated class, whose factory does not support remoting); nesting of three, two connections | `InitsInOrder`, `KnownMeansEnabled`, `ClientAgrees` |

Deadlock is not checked in any of them: the target, the user and the launcher may
stop doing anything.

## ObjectTracking

### State and actions

`heap`, `parent`, `home` are the target's own: whether the memory at an address is
free, in `QObject`'s constructor ("base"), in a subclass constructor ("derived",
or "nested" inside a plugin's `init()`) or "live"; `QObject::parent()`; the
thread. The probe's members have their names (`valid`, `queue`, `pending`,
`timerActive`, `addedBefore`). The code under the lock runs in small steps: `stage`
and `todo` are the loop the main thread is in, `calls` the stack of calls still to
be made and `caller` the thread that makes them. A step of `Calls` runs the
innermost call to its next call or return, so that the target can change its
pointers in between and a plugin can construct objects (`InToolInit`). `objectAdded()`
is two steps for that reason: `ObjectAdded` up to the call that adds the parent,
`TrackObject` the rest, which does not look again whether its object is known by then.

The target's actions are `Construct`, `ConstructInWorker` followed by
`HookInWorker`, `FinishConstructor`, `SetParent`, `Destroy`, `ReceiveEvent`. The
start-up is `InstallHooks`, `CreateProbe`, `AddNext`, `AddedAll`, `FindNext`,
`DelayedInit`; the drain is `DeliverStart`, `TimerFires`, `StartDrain`,
`DrainChange`, `ClearQueue`, `DrainReparent`, `FinishDrain`.

Abstractions. `addedBefore` is a set: the code keeps a vector in construction
order, the model allows any order. The list and the tree count rows per object
instead of sorting pointers. `filterObject()` sees a class name only of a live
object: a constructor that is still running shows the base class. `guarded` in
`Construct` says that a `ProbeGuard` is on the stack. What plugins do while they are
told of an object is to construct others in `init()`; slots of `objectCreated()` that call
`discoverObject()` themselves (`quickinspector.cpp:547`) are not modelled. `lost` is a
history variable that no action reads.

### Nine losses

An object can leave the models' sight, or stay in it, against what the code means to do.
`lost` records why, and `Accounted` and `TreeAgrees` speak of all other objects:

- *dropped*: its creation was queued while a drain ran and cleared with the rest
  (`probe.cpp:653`);
- *mistaken*: its row was taken by the queued deletion of an earlier object at its
  address: a worker thread reports the deletion, the address is used again, and the drain
  announces the new object before it comes to the deletion of the old one
  (`probe.cpp:644`, by address only);
- *ignored*: the event filter had no branch for its move, because a creation was
  queued, and nothing queued makes up for it (`probe.cpp:843`);
- *stranded*: an ancestor's row was removed and took it along before its deferred
  move was processed (`probe.cpp:857`);
- *misplaced*: it was moved below an object that has no row, or while its own row was
  out of sight, so that its row stays where no index reaches it; a later object at the
  same address finds that row and is misplaced as well (`objecttreemodel.cpp:156`);
- *unseen*: its parent changed where no event filter looks, in a worker thread or
  before `delayedInit()`;
- *buried*: it went while its row was out of sight, and the row stayed
  (`objecttreemodel.cpp:137`): it comes into view again when what is above it does, and
  a later object at the address is taken to have a row already;
- *borrowed*: it is not tracked and got a row as the parent of an object that is
  (`objecttreemodel.cpp:92`), as a plugin's own object that no class name gives away does,
  or one that was moved out of GammaRay's own where no event filter looks;
- *repeated*: it became known while `objectAdded()` was adding its parent first, and is
  tracked, queued and announced a second time (`probe.cpp:602-607`). In the model a plugin's
  `init()`, run for the parent, constructs an object whose own hook adds it, and that
  object is the one the outer call was about, or on the way to it. In the code a slot of
  `objectCreated()` gets there as well: `QuickInspector::objectCreated()` discovers the
  engine of a `QQuickView` (`quickinspector.cpp:546`), which is a child of that view. The
  list then has two rows and one deletion takes one of them, so the second stays for good.

`TreeAgrees` and `ConstructedBeforeCreated` are about preloaded hooks: an attached probe
finds objects by events, and then also objects whose constructors still run.

The first contradicts what the code says of itself and is a run of its own,
`finding_dropped` (`core/probe.cpp:638` says that the queue is copied because it is
modified while it is iterated over, and `core/probe.h:236` that the signal is emitted
for newly created objects). Two more facts are modelled as they are. Two objects that
swap places leave a cycle in `m_childParentMap`, which `indexForObject()` follows for
ever (`objecttreemodel.cpp:249`): the constant `Inversion` keeps the runs clear of it,
and `TreeRecursionEnds` is violated with `Inversion = TRUE`. An object of a worker
thread may be announced while its subclass constructors still run (`probe.cpp:546`);
`ConstructedBeforeCreated` is about those of the main thread.

### Bounds and fairness

Three addresses are enough for a parent, a child and something else (a new parent,
an object of GammaRay's, a plugin's object), and five changes for an object
to be constructed, moved away, deleted, constructed at the same address and moved
again, or for two objects to be constructed and moved three times. Addresses are reused, so
"three objects" are any number over time. There is no symmetry: each address has a
role. `TreeAgrees` depends most on the length of a history, and no proof makes up for
its bounds: with four and five addresses and up to 14 changes it was also simulated,
over tens of millions of states of random behaviours, which brought two of the losses above to light that
three addresses do not need (a *mistaken* object that has two rows, and *borrowed*
ones other than a plugin's). The second run attaches to a running program and has two objects, since its
liveness properties need the whole graph; discovery and nested construction are its
subject. A worker's object found by an attached probe is announced from its address
alone (`probe.cpp:774`), and the address may by then be another's; the models must
get over that.

Fairness: both event loops go on (`TimerFires`, `DeliverStart`, the drain), threads
that run get to run (`Constructors`, `Calls`), the start-up is not interrupted for
ever. Nothing is assumed of the target's decisions. Liveness excludes objects
whose creation was *dropped*, and the second row of a *repeated* one.

### Proofs

`ObjectTrackingProofs` proves, for any sets of addresses, either way of starting
and any bound, from `ObjAssumption` (`Null` is no object) and
`TrackingAssumption` (the kinds of addresses are subsets of each other as
GammaRay uses them):

- `Invariance`: `Spec => []Inv`;
- `TrackedAliveAlways`: no tracked object's memory is free;
- `NoLostWakeupAlways`: queued work always has a wake-up under way;
- `ImplementsSignals`: with `alive` and `shown` read off the heap and the list,
  every behaviour is one of `ObjectSignals`.

`TrackedAlive` is not inductive: an object enters `valid` because a call names it,
and a call may name it because its parent, an early record or a discovery did.
`AliveInv` therefore says of each place an object can come from that it is alive:
parents of existing objects (`ParentsAlive`), early records (`EarlyAlive`, and
`EarlyGone` once they are used up), calls on the stack (`FramesAlive`), and that
nothing is tracked and no call runs before there is a probe (`BeforeQuiet`), while
an object inside `QObject`'s constructor belongs to a worker thread
(`NascentForeign`), so that no main thread code can meet it. `FramesAlive` needs
the order of the code: an object with a call pending is not deleted, because the main
thread is in that call, or the thread that made it waits for it. `QueueInv` adds
the types of the queues and that a non-empty queue has a timer, a posted start or
a drain; a worker's check of `isActive()` runs under the lock but the timer does
not, which is why the single-shot timer that has fired and not yet got the lock
counts as a wake-up (`stage = "fired"`).

The proof has one lemma per action, with the actions that only move the probe's
own loops handled by two lemmas on what such steps keep. The step to
`ObjectSignals` is: constructing, deleting and announcing map to actions of that
name, the deferred removal of a row to `Withdraw`, all else stutters.

Its second half, on the rows, goes on from `Inv` under the same assumptions:

- `TypeOKAlways`: the queues, the stack, both models and the losses have their types
  (`RestTyped`, next to what `Inv` says);
- `ConstructedBeforeCreatedAlways`: `ReadyInv` is the argument. Whatever announces an
  object starts from a loop of the main thread or from a call late enough that all
  constructors of main thread objects have returned (`Late`), and constructors do not
  start below one: the code reaches its announcements only from the event loop;
- `AccountedAlways`: inductive by itself on top of the types. Each step that takes a row,
  a queued creation or a call on the stack from a tracked object gives it one of the
  others or records the loss;
- `RowsBalanced` and `RowsTrackedAlways`: no row outlives its object but for a deletion
  that is queued, or as the second row of a *repeated* object.

`RowsTracked` is far from inductive: it says that a row of an object that is gone has a
deletion in the queue, but a creation queued twice would make two rows for one deletion.
`RowsInv` counts, for every object but the *repeated* ones (`Once`), of which the code
does queue two. For each address the rows still to come, its *claims*, are the queued
creations and the announcements on the stack: there is at most one claim, an object that
is tracked has with its claims at most one row more than deletions are queued, and one
that is not has at most as many (`Row`). While a drain iterates over its copy, that copy
is what counts (`Due`), and the deletions in it are in the queue as well (`Copied`).
Four further facts make this hold: once `objectFullyConstructed()` has looked, its object
stays tracked until it is announced (`StackInv`); a creation left in the copy
of an object that is gone belongs to an object of GammaRay's own that nothing under way
is below, so that `objectAdded()`, which adds parents that are not tracked yet
(`probe.cpp:603`), does not queue it once more (`StaleInv`); a hook's call that still has to
track its object during a drain has only calls for that object's ancestors above it, one
below the other, and comes to track it with the parent tracked (`ChainInv`); and parents
live in the thread of their children, so that a chain of ancestors dies in one thread
(`HomeInv`). The losses only grow in *repeated* (`OnceShrinks`), so an object the invariant
stops speaking of is never spoken of again.

Only model-checked: liveness (out of the prover's reach), and `TreeAgrees`. What it needs
of the tree model is defined by climbing parents (`TreeAdded`, `Indexed`), and the losses
name the cases in which an induction along that chain would fail.

## RemoteModel

### State and actions

`model` is the target's model, a function from paths of row numbers to values;
`client` the tree of `RemoteModel::Node`s by the same paths, each with `rowCount`
(-1 unknown, -2 asked for), content and load state. `toServer` and `toClient` are
the wire. `pending` is `m_pendingRequests`, `current` and `target` the sync
barriers, `headers` `m_verticalHeaders`. `unreset` is not empty while a slot of
`endInsertRows()`, `endRemoveRows()` or `endMoveRows()` runs: views may ask then,
and `ResetLoadingState` follows.

The target's model changes by `InsertRows`, `RemoveRows`, `MoveRows`,
`ChangeContent`, `ChangeHeader`, `ChangeLayout`, `ResetModel`, each with the
notification the server sends; `setData()` and `sort()` requests of the client
have no other effect than to cause such a change and are not separate. The server
answers in `RowColumnCountRequest`, `ContentRequest`, `HeaderRequest`,
`BarrierRequest`. The client asks (`AskRowCount`, `AskContent`, `AskHeader`,
`SendPending`) and has one action per message type.

Abstractions. One column, one role. A message that carries a batch is the sequence
of its entries: slots may run between two entries in the code as well, and the
model also lets the server change in between. A value is the number of the change
that wrote it, so a value at the wrong row is always noticed. The connection stands
and the server object is monitored throughout.

### Bounds, fairness and known deviations

Two rows in two levels are the fewest for which a row moves under a sibling, or from
below it to the top. One request in flight against two changes covers each point at which
a change can overtake it: collected, sent, answered, asked from a slot. The batch limit is
one, so requests are collected; a request that exceeds it is sent with those collected,
which is the same as to ask and to let the timer send (`SendPending`) right after.
`MaxInFlight` bounds only when views ask; notifications are never held back. Larger models
and more messages under way are what the theorems are for, which have no bounds.
`Coherent` includes what the assertion at `remotemodel.cpp:854` says: a node has as many
children as it counts.

Fairness: both event loops run (`NewRequest`, `NewMessage`, `SendPending`), a
handler runs to its end (`ResetLoadingState`), and views go on asking for rows they
show: an item view calls `data()` and `rowCount()` whenever it paints or lays out.
The target's changes are not assumed to happen.

Modelled as they are, and kept out of the properties by the constant `Operations`, by
`fault` or by the wording of the property:

- a header reply for a row removed meanwhile is written past the end of the vector
  (`remotemodel.cpp:415`): `fault`, after which nothing is claimed;
- rows moved up within their parent are taken from positions that are already shifted
  (`remotemodel.cpp:925`);
- of several rows moved to another parent at once only the last has its load state
  reset (`remotemodel.cpp:946`, against `remotemodel.h:132`), the others load for ever: the
  finding of `finding_moved`;
- the header loop stops before the last section (`remotemodel.cpp:463`), and a
  header's "Loading..." stays for good when rows are inserted before it while its
  reply is under way.

Not modelled: columns (`doRemoveColumns()` erases one state too few,
`remotemodel.cpp:992`), horizontal headers, registration of the server object.

`MCRemoteModel` evaluates two assumptions that compare `RowTree`'s moves with
removing from and inserting into lists of up to four rows, since client and
server share these operators.

### Proofs

`RemoteModelProofs` proves, for models of any number of rows and levels, batches of any
size and any number of messages on the wire, `Following` and from it `CopyIsCoherent`
(`Coherent`), `NoRequestIsLost` (`NoLostRequest`) and `HeadersStayAsRows` (`HeadersKeepUp`).
All assume that no rows move up within their parent, and `NoRequestIsLost` also that rows
move to another parent one by one (`Single`): the two cases in which the properties do not
hold of the code (above). What a changed layout does to the headers `HeadersKeepUp` itself
leaves out.

`Coherent` speaks of a client that has heard all. `IInv` says what the copy is worth
meanwhile: it is a copy of the model as it was before what is still on the wire. `Heard`
has this as a path: there are models, one before and one after each message under way,
the first one that of which the client has a copy (`Copies`), the last one the model of
now, and each message explains the step from one to the next (`Explains`): a
notification tells of the very change, a reply says what the model had at that point,
and after a reset anything may follow. A change of the model appends one step
(`LeadsAppend`) and a message that is heard takes the first one off (`LeadsTail`), so that
no action has to be compared with all others. `Copies` asks nothing of what the client
does not know or holds for outdated, which is why a reply that comes late, to a row
that has moved, or twice, does no harm: it names the row by the position it has at the
time it is heard.

A client that waits for a barrier drops what explains its model. `Forgot` says that it
knows nothing meanwhile, and `LoneBarrier` that there is one barrier at most, and none once
it has been answered; that is all the barrier is needed for.

The larger part is about `RowTree`: `ClosedShape`, `InsertedShape`, `MovedShape` and
`ReversedShape` say for each row after a change which row it was before, and that children
stay without a gap (`Counted`). From these the model stays a tree (`TreeMoved` and its like)
and the copy a copy (`CopyMoved`, `CopyMovedOut`, `CopyMovedIn`, `UnheardMoved` and their
like, by which of the parents the client has counted). For moves `Origin` composes the three
renamings that `Moved` is made of.

`NoLostRequest` speaks of a quiet moment too. `Supply` says what is true of a row that waits
before that: a request or a reply that concerns it is under way, no barrier after it
(`UnderWay`), unless some model between here and the end of the wire does not have the row
(`Absent`), whose notification will then take the row out of the copy. Both are by the position
the row has in the copy now. They stay true because every notification that would make a
position another row's has `resetLoadingState()` take the marks back from there on:
`StillWaits` says that who waits in the copy after a message and is not reached by `unreset`
has waited before it, at the same position. That is proved of each way in which the copy
changes (`GrownWaits`, `ShrunkWaits`, `CarriedWaits` and their like); it is where several rows
that move at once would fail. While `resetLoadingState()` is still to come, views may ask, and
what they mark is claimed only where it does not reach. `Barred` is about a client that waits
for a barrier: the barrier is under way, and the last one that was sent, so its requests
that come after it will be answered when it is heard again.

`KeepsUp` is proved beside it of every step but `LayoutChanged`.

Only model-checked: `EventuallyInSync`.

## Session

`socket` is the end of a connection each side holds, `wire` the two streams of each
connection; `dataVersion` the process-wide version of each side. The server has
`address`, `value` and `enabled`; the client `known`, `initState` and `object`. The
server's actions are `NewConnection` (the greeting, or the refusal of a second client),
`ServerReceive`, `RegisterObject`, `ObjectDestroyed`, `ServerWrite`,
`ServerConnectionClosed`; the client's `ConnectToHost`, `ClientReceive`,
`CreateObject`, `DeleteObject`, `ClientWrite`, `DisconnectFromHost`,
`ClientConnectionClosed`. `PropertySyncer` is in the actions of both sides:
`propertyChanged()` in the writes, `handleMessage()` in the receipts,
`setObjectEnabled()` where the monitoring changes. Every message carries the data
version it was encoded with, and every write a new value.

`raced` is a history variable: the last write of an object crossed with one of the
other side, with the answer to the initial synchronisation, or with the monitoring. In
these cases the code exchanges the values instead of agreeing on one
(`propertysyncer.cpp:145`), and `AgreeUnlessRaced` is about the others.

Bounds. With one name and two addresses an object is registered, destroyed and
registered again while messages about the first one are under way; two connections
are a reconnect, or a second client beside the first. Three writes are one that is
old, one under way and one that meets it. `MaxInFlight` bounds when an object is
created on the client. Fairness: the event loops of both sides. Nobody has to
connect, write or register.

Not modelled: dispatch of messages and method calls to handlers (the modules of their
receivers have it), broadcasts, statistics. An object has one property.

### Proofs

`SessionProofs` proves, for any set of names and any bounds (`SessionAssumption` says that
they are numbers), `Invariance`, and from it `NamesAgreeAlways`, `DecodedAsEncodedAlways`,
`MonitoredAlways` and `AgreeUnlessRacedAlways`.

The four properties speak of moments at which nothing is under way; `Inv` says what is true
meanwhile. For each fact both sides should share, the messages under way end in one that
makes it true, or hold none about it and it is true already. `NoneIn` and `LastIn`
say that of a queue, `NameTold`, `IsMonitored` and `Settles` of the name, the monitoring
and the value. What makes this inductive is that an address never changes its owner: there
is one function from addresses to names that all that either side knows, and all messages,
agree with (`Owned`; the counter `m_nextAddress` never goes back, `server.cpp:248`), so a message about
an object that is gone cannot be taken for one about the next. `Versions` says that
nothing with a payload is written before both sides have the higher data version, and
`Link` that a connection that was not accepted carries nothing. `Settles` has the three
ways in which a value comes to agree: the initial value is still to be asked for, the
client's write is the last word to the server, or the server's last report is its value.
The lemmas on queues (append, tail, an empty one) are proved once and carry each action.

Only model-checked: `Decided`.

## Selection

Both sides keep `rows`, `selection`, the `pending` position and a timer; `monitored`
is on the server, whether the rows are `loaded` on the client. A message carries
positions, not items. Changes of the model (`InsertRow`, `RemoveRow`, `ResetModel`) go
over the same stream as selections, as `RemoteModel`'s do. `raced` says that the last
selection crossed with another one or with a change, `mine` that the user made it.
Selections that cross are exchanged (`networkselectionmodel.cpp:229`), and a pending
position is not moved along when rows are inserted or removed before it (`:245`).

Two rows are enough for a position to name another row after one change, two choices
to cross. `Settles` matters because what the timer applies runs outside
`m_handlingRemoteMessage` and is sent back. Fairness: delivery, both timers, and that a
view asks for the rows. Not modelled: the current index, selections of several ranges,
loss of the connection.

### Proofs

`SelectionProofs` proves, for any finite set of items and any bounds (`SelectionAssumption`),
`Invariance`, and from it `AgreeUnlessRacedAlways` and `ChoiceKeptAlways`.

`AgreeUnlessRaced` speaks of moments at which nothing is under way. `Inv` says meanwhile
that a message means what it meant when it was written: there is a history `h` of the
server's rows, one state for each message to the client (`Explains`), the last of which is
what the server has and the first what the client has, if it has any (`Copy`). The history
is a witness and not a variable; each action gives a new one, one longer or one shorter
(`HistoryGrows`, `HistoryPasses`). With it, the last selection in a queue is what its sender
has selected, less what was removed since (`ServersWord`, `ClientsWord`), unless it has crossed
with something; and when no selection is under way and the last one has not crossed, the
server still has to answer, or what it has selected is what the messages under way will leave
of the client's selection (`Same`), or the client waits for a row. `Left` says what is left
without a recursion; the lemmas on rows say that what is never removed is still there
(`Remaining`), which is why a server without rows may stay silent (`ServerSilent`). A selection
that arrives uncrossed finds the rows it was made in, because nothing it could have missed is
under way (`Uncrossed`). `ChoiceKept` needs that a choice of the user leaves nothing pending
(`Mine`).

Only model-checked: `Settles` and `PendingApplied`.

## RemoteView

`srv` is `RemoteViewServer` (active, client ready, grabber ready, source changed, a
pending reset, a pending complete frame, the timer, the viewport), `widget` the client,
`render` the render thread between its signals, `mainQueue` what it has posted to the main
thread. A frame is a version of the content and an area. `Synchronize`,
`WindowAfterRendering` and `EndGrabbing` are the steps of a rendering that
`afterSynchronizing()`, `windowAfterRendering()` and `setGrabbingMode()` are called in;
everything else runs in an event loop. `SelectWindow` replaces the grabber.

One change, made before, during or after a grab, shows each of the four waits; two
user operations are a view hidden and shown, zoomed twice, or zoomed and saved while a
frame is under way. Fairness: timer, posted events, rendering of a window that has been
told to update, delivery, and the acknowledgement the widget sends after painting.

Facts that are modelled and not claimed away: `setViewActive()` forgets a pending request
for a complete frame (`remoteviewserver.cpp:211`), so that an image is never saved; a
viewport is compared with the last transmitted frame and not with the one being
grabbed (`:222`), so that a new area stays empty until the next change; and what a
replaced grabber has posted may make the server take the new one for idle while it
works (`quickinspector.cpp:562`), whose next request is then dropped. The last one is the
proviso of `EventuallyShown`.

Not modelled: input redirection, picking, measuring, the software grabber, painting.

### Proofs

`RemoteViewProofs` proves `GrabberComesBackAlways` and `ClientComesBackAlways` for any
bounds (`BoundsAssumption`). Together with the types of what the three threads and the two
sides exchange, the two properties are inductive, and `Inv` is just that conjunction: each
says of a wait what will end it, and each step that takes that away (a frame read, a posted
event handled, a grabber replaced, a connection lost) either ends the wait or puts the next
link in its place. One lemma per slot of the server says which waits it may begin.

Only model-checked: `EventuallyShown`.

## Launch

The launcher process is `launcher` (phase, state flags, error, exit code, timer, address,
the client of its local server, verdict of the event loop, exit status), `injector`
and `client`; the target is `target`, and per program with a probe `main` (where
its main thread is in `ProbeCreator` and `waitForSettingsReceived()`), `mutex`, `receiver`
(the receiver thread and the calls queued in it), `socket` and `settings`.
`Options` are the combinations that `LaunchOptions` allows: launch or attach, process or
debugger, out-of-process, in-process or no client, listening or not, and whether both
speak one protocol version. Every one of them is an initial state.

Two programs are the fewest of which one is served and the other not. There are no
counters, so the instance is finite without a bound. Fairness: the launcher's event
loop and its timer, and the threads of a probe that has started. A target, a debugger
and a client may hang.

What the model shows of the code, beside the properties: a second connection is never
served, so that program blocks until the launcher is gone (`launcher.cpp:356`, hence the
last disjunct of `WaitsEnd`); `ServerLaunchError` is printed and nothing else; with an
in-process client and `--no-listen` the launcher still times out after 60 seconds,
because `restartTimer()` starts the timer, and `~Launcher` stops the target; an attach
whose client cannot start exits with 0; launching with a debugger that has ended before
the client takes the wait of `attached()` for done (`launcher.cpp:343`); a probe left by
an earlier launcher does not answer a new one.

Not modelled: Windows injectors, ABI detection, the search for probes, the command line,
`GAMMARAY_UNITTEST`. The client connection manager is not modelled either; reading it
showed that the `quit()` of a disconnect replaces the status of `exit(1)` by 0, and that
`disconnectFromHost()` during a pending retry does not stop the retry.

### Proofs

`LaunchProofs` proves, for any non-empty set of programs (`ProbeAssumption`):

- `LauncherInvariance`, `NoClientAfterFailureAlways`, `StatusTellsAlways`;
- `ProbeInvariance`, `SettingsInTimeAlways`;
- `TypeOKAlways`.

`NoClientAfterFailure` and `StatusTells` are not inductive: the status is computed from
the exit code when the event loop ends, and a client is started by whoever finds an
announcement first. `LauncherInv` adds that after a failure the exit code is not 0
already while the loop runs, that no call of `injectorFinished()` is queued any more
when the injector has ended, and that a new launcher has nothing started. One lemma per
helper (`ExitWith`, `CheckDone`, `InjectorError`) says what it keeps of the record.

`ProbeInv` is about one program at a time: before there is a receiver there is no
connection (`NotBegun`); the receiver's `run()` is the first of its calls and comes
while the main thread holds the mutex or waits (`ConnectsInTime`), which is the reason
the wake-up is not lost; and a main thread that has gone on with a living connection
to a launcher of its version has its settings (`ServedInTime`). The type of the queued
calls needs all of this, so `TypeOKAlways` follows from it and not the other way round.

Only model-checked: `WaitsEnd` and `LauncherDecides`.

## MetaObjectRegistry

The target is `live` (meta objects with name and base class; 0 is a static one) and
`object`; the registry has its members `info`, `children`, `canonical`, `byName`, `pool`,
`ownMeta` and `merged`. `ObjectAdded` and `ObjectRemoved` are the slots of the probe's two signals:
`Create` announces an object, `Delete` withdraws it at once or leaves that to `Withdraw`,
as the probe does with objects of other threads; `CreateMeta` and `DestroyMeta` are the
target's. Objects and meta objects take
addresses again, meta objects share names, and one class is derived from the other, so
that inclusive counts differ from own ones. Three meta objects are two of one name and
one more; the fourth creation is one at a used address. Safety only: the slots are
called by the probe, and nothing waits.

Known and modelled: a meta object at the address of a destroyed one of another class is
taken for that (`metaobjectregistry.cpp:218`), and the canonical meta object of a class
without objects of its own is handed out although it may be destroyed (`:299`);
`CountsExact` counts by what was announced, and `InstanceExists` is about classes with
objects of their own.

## TimerModel

`object` and `raw` are the target's timers; `gathered` is `m_gatheredTimersData`, `info`
and `free` are `m_timersInfo` and `m_freeTimersInfo`, `push` the posted call and the push
timer. `PreSignalActivate`, `PostSignalActivate` and `EventNotifyCallback` run in any
thread under the mutex and may nest; `Create`, `Destroy` and
`ProcessQueuedObjectChanges` are the source model's rows; `TriggerPushChanges` and
`PushChanges` the main thread; `Fetch` is a view's `data()`, `ClearHistory` the user.

One address with two timers in turn is what identity by address needs; two time-outs
nest once or fire again after a push; one raw event makes a free row. Fairness: the main
loop, the push timer, and that an open view fetches what it was told has changed.

Facts of the code that the properties leave out in so many words:

- a `QTimer` that dies before its row was read or pushed leaves its wake-ups to the next
  one at its address, because `slotBeginRemoveRows()` drops only what `m_timersInfo` has;
  the manual (`docs/manual/gammaray-timertop.qdoc:40`) says "how often it has fired so
  far". `RowsRight` is about the first timer of an address;
- `applyChanges()` returns at the row of an object that is gone (`timermodel.cpp:669`),
  after the marks of what was to be pushed were reset: the rows after it stay behind.
  This is the first disjunct of `EventuallyShown`;
- stopping a timer marks nothing as changed, so its row stays active; a raw timer may be
  marked invalid until its next event; a time-out nested in its own slot counts once;
  `checkDispatcherStatus()` dereferences objects of other threads.

Not modelled: `QQmlTimer`, rates and times, the source model's reset.

### Proofs

`TimerModelProofs` proves `Invariance`, `PushComesAlways` and `RowsRightAlways` for any sets
of addresses and identifiers and any bounds (`TimerAssumption`: they are numbers that do not
overlap with "none").

`RowsRight` is about rows, and a row is a copy of what was gathered earlier, so
`Inv` bounds the gathered count first: with a wake-up that is being counted it is at most
what the timer has fired (`FirstGathered`), and then the row's (`FirstShown`). Both are about
the first timer at an address, and hold from its construction on because nothing is known
of an address before (`NothingBeforeTheFirst`). For raw timers, each row's key is one
that is still gathered, and what is gathered tells its own key (`FreeKeys`), which is
why a push cannot make a second row for one key. `PushChanges` is the step that takes
work: what it sorts from a set has each key once (`SortedOnce`).

Only model-checked: `EventuallyShown`.

## ToolManager

`disabled` and `known` are `m_disabledTools` and `m_knownMetaObjects`, `calls` the nested
calls of `objectAdded()` with the list each iterates over, `begun` the calls of `init()`.
`ObjectAdded` climbs the bases, `Activate` begins an `init()`, in which further objects may
become known (`ObjectAdded` again), `Activated` ends it with the signal, `NextClass` goes
on. The link is `Connect`, `Established`, `RequestAvailableTools`, `ReceiveMessage`,
`Disconnected`.

The five tools are one for a base class, one for the derived class, one for the base and
an unrelated class the client has no factory for, one without a page for the derived class,
and one for the unrelated class whose factory does not support remoting; nesting of three reaches each class inside each other. Two
connections show what a client remembers of the first. Safety only.

What the properties do not claim: inside nested calls the tool of a derived class may
run before the `init()` of a base class's tool has *returned* (`InitsInOrder` says
begun). A tool without a page that is enabled after the list has come never gets its
`initUi()` (`clienttoolmanager.cpp:328`), which hits the QML and GUI support plugins:
their property tabs are missing (no property claims otherwise). The client is the
remote one, `isRemoteClient()` holds, so `UiInitialized` uses the factories in
`Remotable` only (`clienttoolmanager.cpp:256`, `:333`). The script engine debugger is not
among them (`remoteSupport` is false in its JSON file): it is listed and enabled and its
interface never initialized, which `ClientAgrees` says as well. That the page of such a
tool cannot be chosen is up to `ClientToolModel::flags()`; `widgetForIndex()`, which
initializes the interface of an enabled tool without that check, is not modelled. `m_knownMetaObjects` keeps addresses of destroyed
dynamic meta objects (`toolmanager.cpp:193`); the classes here are static. Not modelled:
selecting tools and objects, which forwards a call and keeps no state, and widgets, an
in-process client's tool list included.

### Proofs

`ToolManagerProofs` proves `InitsInOrderAlways`, `KnownMeansEnabledAlways` and
`ClientAgreesAlways` for every finite class hierarchy, every set of tools and every depth of
nesting. `HierarchyAssumption` says that no class is its own base class: from each class,
base after base leads to one without any, which C++ guarantees of `superClass()`.

`ToolInv` says of every call on the stack, not only of the innermost, that no tool its
chain has passed is disabled and that its copy of the tools for the class it is at is still
complete (`NoneLeftBehind`): that is what a nested call must not undo. That the nested
call and the outer one agree on the order rests on `BasesComeBefore`, a fact about chains
alone: the bases of a class come before it in every chain that has it
(`SameStepsDown` shows it by counting steps from the class down, with the least
counterexample in place of an induction).

`ClientInv` is the argument for the client's list: each list under way, with the tools
announced behind it, makes the tools that are enabled (`ListsComplete`), and so does the list
the client has with all that is under way (`ClientComplete`). It needs that a tool is
in one `init()` at a time (`OneInitEach`).

## Not modelled

The components listed as `not_modelled` in `PROJECT.json`, each with its reason. Three
kinds make up most of the code: widgets and painting, whose state is Qt's; models and
adaptors of inspector plugins, which present data of the target on request and keep
none that outlives a slot; vendored code.

Out of reach of the proofs are liveness and `ENABLED`, which no theorem states, and what is
defined by recursion over data. Safety properties that only TLC checks:

- `TreeAgrees` of `ObjectTracking`: the tree climbs parents, see there;
- `CountsExact`, `OneOfAName` and `InstanceExists` of `MetaObjectRegistry`: inclusive counts
  are folds over the derived classes, so that what one creation adds along its
  bases is an induction over data.

## Plan

1. `RemoteModel`: columns; registration of the server object, composed with `Session`
   (a barrier whose server goes away).
2. `Selection` over `RemoteModel`'s own channel; the connection manager above `Session`.
