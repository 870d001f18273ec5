------------------------------ MODULE ToolManager ------------------------------
(***************************************************************************)
(* Tools are enabled when the first object of a type they support appears. *)
(* The init() of a tool may make objects known, and so enter objectAdded() *)
(* again.  A client asks for the tools once it is connected, and is told   *)
(* of those that are enabled later.                                        *)
(***************************************************************************)
EXTENDS Integers, Sequences, FiniteSets

CONSTANTS
  Class,          \* the meta objects of the target
  Super,          \* superClass(), or NoClass
  NoClass,
  Tool,
  Supports,       \* supportedTypes() of a tool
  Hidden,         \* tools that have no page of their own in the user interface
  HasUi,          \* tools the client has a factory for
  Remotable,      \* tools whose factory's remotingSupported() holds; the client is remote
  MaxDepth,       \* bound: calls of objectAdded() in each other
  MaxConnections, \* bound: connections made
  MaxInFlight     \* bound: messages under way to the client, for what asks for the list

ASSUME ToolAssumption ==
  /\ IsFiniteSet(Class) /\ NoClass \notin Class /\ Super \in [Class -> Class \cup {NoClass}]
  /\ Supports \in [Tool -> SUBSET Class]
  /\ Hidden \subseteq Tool /\ HasUi \subseteq Tool /\ Remotable \subseteq HasUi
  /\ MaxDepth \in Nat /\ MaxConnections \in Nat /\ MaxInFlight \in Nat

VARIABLES
  disabled,     \* m_disabledTools
  known,        \* m_knownMetaObjects
  calls,        \* the calls of objectAdded() that have not returned
  begun,        \* the calls of init(), in their order
  connections,  \* connections made so far, and whether the last one stands
  toServer, toClient,
  client,       \* m_remote has been asked, gotTools() is connected; m_tools, and those enabled
  initUi        \* how often initUi() was called, in the life of the client

vars     == <<disabled, known, calls, begun, connections, toServer, toClient, client, initUi>>
toolVars == <<disabled, known, calls, begun>>
linkVars == <<connections, toServer, toClient, client, initUi>>

NewClient == [asked |-> FALSE, waiting |-> FALSE, listed |-> {}, enabled |-> {}]

Init ==
  /\ disabled = Tool /\ known = {} /\ calls = <<>> /\ begun = <<>>
  /\ connections = [made |-> 0, up |-> FALSE]
  /\ toServer = <<>> /\ toClient = <<>>
  /\ client = NewClient /\ initUi = [t \in Tool |-> 0]

-----------------------------------------------------------------------------
(* The probe. *)

\* superClass() leads from c, the last one, to a class without one.
Chains == UNION {[1..n -> Class] : n \in 1..Cardinality(Class)}
IsChain(s, c) ==
  /\ s[Len(s)] = c /\ Super[s[1]] = NoClass
  /\ \A i \in 1..Len(s) - 1 : Super[s[i + 1]] = s[i]

\* No class is its own base class.
ASSUME HierarchyAssumption == \A c \in Class : \E s \in Chains : IsChain(s, c)

\* Mutant of Chain: from the class of the object up.
ChainUp == [c \in Class |-> LET s == CHOOSE s \in Chains : IsChain(s, c)
                            IN  [i \in DOMAIN s |-> s[Len(s) - i + 1]]]

\* The classes whose tools are enabled for a c, in their order: "start from the base classes".
Chain == [c \in Class |-> CHOOSE s \in Chains : IsChain(s, c)]

Wanting(c) == {t \in disabled : c \in Supports[t]}

\* The call that runs: it waits for none.  All others are in the init() of a tool.
Top     == calls[Len(calls)]
SetTop(call) == calls' = [calls EXCEPT ![Len(calls)] = call]
InTool  == \A i \in DOMAIN calls : calls[i].init # {}
InInit  == {t \in Tool : \E i \in DOMAIN calls : calls[i].init = {t}}
AtClass == Chain[Top.class][Top.level]

\* The disabled tools are copied for each class of the chain.
Call(c, level) ==
  [class |-> c, level |-> level, copy |-> Wanting(Chain[c][level]), init |-> {}]

\* Mutant of ObjectAdded: the class is known before its tools are enabled.
ObjectAddedKnown(c) ==
  /\ c \notin known
  /\ InTool /\ Len(calls) < MaxDepth
  /\ calls' = Append(calls, Call(c, 1))
  /\ known' = known \cup {c}
  /\ UNCHANGED <<disabled, begun, linkVars>>

\* objectAdded(QObject *), from the event loop or a tool's init(); it does nothing for a
\* class it knows.
ObjectAdded(c) ==
  /\ c \notin known
  /\ InTool /\ Len(calls) < MaxDepth
  /\ calls' = Append(calls, Call(c, 1))
  /\ UNCHANGED <<disabled, known, begun, linkVars>>

\* A tool of the copy: a call inside this one may have enabled it in the meantime.
Activate(t) ==
  /\ calls # <<>> /\ Top.init = {} /\ t \in Top.copy
  /\ IF t \in disabled
     THEN /\ disabled' = disabled \ {t}
          /\ begun' = Append(begun, [tool |-> t, class |-> AtClass])
          /\ SetTop([Top EXCEPT !.copy = @ \ {t}, !.init = {t}])
     ELSE /\ SetTop([Top EXCEPT !.copy = @ \ {t}])
          /\ UNCHANGED <<disabled, begun>>
  /\ UNCHANGED <<known, linkVars>>

\* Server::forwardSignal()
Forward(message) == IF connections.up THEN Append(toClient, message) ELSE toClient

\* init() returns, toolEnabled() is emitted.
Activated ==
  /\ calls # <<>> /\ Top.init # {}
  /\ \E t \in Top.init : toClient' = Forward([type |-> "toolEnabled", tools |-> {t}])
  /\ SetTop([Top EXCEPT !.init = {}])
  /\ UNCHANGED <<disabled, known, begun, connections, toServer, client, initUi>>

\* The tools of one class of the chain are done: the next class, or the call returns.
NextClass ==
  /\ calls # <<>> /\ Top.init = {} /\ Top.copy = {}
  /\ IF Top.level < Len(Chain[Top.class])
     THEN SetTop(Call(Top.class, Top.level + 1)) /\ UNCHANGED known
     ELSE /\ calls' = SubSeq(calls, 1, Len(calls) - 1)
          /\ known' = known \cup {Top.class}
  /\ UNCHANGED <<disabled, begun, linkVars>>

AvailableTools == [type |-> "availableTools", tools |-> Tool \ disabled]

\* requestAvailableTools() for the client, from the event loop.
RequestAvailableTools ==
  /\ calls = <<>> /\ toServer # <<>>
  /\ toServer' = Tail(toServer) /\ toClient' = Forward(AvailableTools)
  /\ UNCHANGED <<toolVars, connections, client, initUi>>

\* A user interface in the process asks: the answer is a signal, and forwarded as well.
RequestInProcess ==
  /\ calls = <<>> /\ Len(toClient) < MaxInFlight
  /\ toClient' = Forward(AvailableTools)
  /\ UNCHANGED <<toolVars, connections, toServer, client, initUi>>

-----------------------------------------------------------------------------
(* The client. *)

Connect ==
  /\ ~connections.up /\ connections.made < MaxConnections
  /\ connections' = [made |-> connections.made + 1, up |-> TRUE]
  /\ UNCHANGED <<toolVars, toServer, toClient, client, initUi>>

\* connectionEstablished: requestAvailableTools()
Established ==
  /\ connections.up /\ ~client.asked
  /\ client' = [client EXCEPT !.asked = TRUE, !.waiting = TRUE]
  /\ toServer' = Append(toServer, "requestAvailableTools")
  /\ UNCHANGED <<toolVars, connections, toClient, initUi>>

\* clear()
Disconnected ==
  /\ connections.up
  /\ connections' = [connections EXCEPT !.up = FALSE]
  /\ toServer' = <<>> /\ toClient' = <<>>
  /\ client' = NewClient
  /\ UNCHANGED <<toolVars, initUi>>

\* The factories of these tools, if they have not been used: isRemoteClient() holds, so only
\* those that support it.
UiInitialized(tools) ==
  initUi' = [t \in Tool |-> IF t \in tools \cap Remotable /\ initUi[t] = 0 THEN 1 ELSE initUi[t]]

\* gotTools(), once.
GotTools(enabled) ==
  IF client.waiting
  THEN /\ client' = [client EXCEPT !.waiting = FALSE, !.listed = HasUi \ Hidden,
                                   !.enabled = enabled \cap (HasUi \ Hidden)]
       /\ UiInitialized(enabled)
  ELSE UNCHANGED <<client, initUi>>

\* Mutant of ToolGotEnabled: the factory is left to the next list.
ToolGotEnabledOnly(t) ==
  IF t \in client.listed
  THEN client' = [client EXCEPT !.enabled = @ \cup {t}] /\ UNCHANGED initUi
  ELSE UNCHANGED <<client, initUi>>

\* toolGotEnabled() looks for the tool among those listed.
ToolGotEnabled(t) ==
  IF t \in client.listed
  THEN client' = [client EXCEPT !.enabled = @ \cup {t}] /\ UiInitialized({t})
  ELSE UNCHANGED <<client, initUi>>

ReceiveMessage ==
  /\ toClient # <<>>
  /\ toClient' = Tail(toClient)
  /\ LET message == Head(toClient) IN
     IF ~client.asked THEN UNCHANGED <<client, initUi>>
     ELSE \/ message.type = "availableTools" /\ GotTools(message.tools)
          \/ message.type = "toolEnabled" /\ \E t \in message.tools : ToolGotEnabled(t)
  /\ UNCHANGED <<toolVars, connections, toServer>>

-----------------------------------------------------------------------------
Next ==
  \/ \E c \in Class : ObjectAdded(c)
  \/ \E t \in Tool : Activate(t)
  \/ Activated \/ NextClass \/ RequestAvailableTools \/ RequestInProcess
  \/ Connect \/ Established \/ Disconnected \/ ReceiveMessage

Spec == Init /\ [][Next]_vars

-----------------------------------------------------------------------------
Bases(c) == {Chain[c][i] : i \in 1..Len(Chain[c]) - 1}

(* A tool is initialized once, and after all tools of the base classes of the type it *)
(* is initialized for, as plugins depend on each other, also when objects become      *)
(* known in the init() of another tool (ToolManager::objectAdded()).                  *)
InitsInOrder ==
  \A i \in DOMAIN begun :
    /\ \A j \in DOMAIN begun : begun[i].tool = begun[j].tool => i = j
    /\ \A t \in Tool : Supports[t] \cap Bases(begun[i].class) # {} =>
         \E j \in 1..i : begun[j].tool = t

(* A class that is never looked at again has left no tool disabled that supports it   *)
(* or one of its bases, whatever was called in between (ToolManager::objectAdded()).  *)
KnownMeansEnabled ==
  \A c \in known, t \in disabled : Supports[t] \cap (Bases(c) \cup {c}) = {}

(* A client with the list that has read all messages shows those tools as enabled      *)
(* whose init() has returned, and has initialized the interface of each of them that   *)
(* supports remoting, once in its life; that of a tool that does not, like the script  *)
(* engine debugger, never (gotTools(), toolGotEnabled(), clear()).                     *)
ClientAgrees ==
  /\ \A t \in Tool : initUi[t] <= IF t \in Remotable THEN 1 ELSE 0
  /\ connections.up /\ client.asked /\ ~client.waiting /\ toClient = <<>> =>
       /\ client.enabled = client.listed \ (disabled \cup InInit)
       /\ \A t \in client.enabled \cap Remotable : initUi[t] = 1
=============================================================================
