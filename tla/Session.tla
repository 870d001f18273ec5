------------------------------- MODULE Session -------------------------------
(***************************************************************************)
(* The connection of a client to the probe: Endpoint on both sides, Server *)
(* in the probe, Client in the client, and the PropertySyncer each of them *)
(* has.  Objects of the probe have a name and an address; the client       *)
(* learns of them by the greeting and by what follows it, creates an       *)
(* object of its own for a name, and the properties of the two are then    *)
(* kept equal by messages in both directions.                              *)
(*                                                                         *)
(* An object has one property; the value of every write is a new number.   *)
(* Every message carries, beside what the program puts into it, the data   *)
(* version it was encoded with.                                            *)
(***************************************************************************)
EXTENDS Integers, Sequences

CONSTANTS Name,            \* names of objects
          MaxAddress,      \* bound: addresses the server gives out
          MaxConnections,  \* bound: connections made
          MaxWrites,       \* bound: writes to properties
          MaxInFlight      \* bound: an object is created with fewer messages under way

ASSUME SessionAssumption ==
  /\ MaxAddress \in Nat /\ MaxConnections \in Nat /\ MaxWrites \in Nat
  /\ MaxInFlight \in Nat \ {0}

VARIABLES
  socket,      \* m_socket of both sides: the number of a connection, or none
  opened,      \* connections made so far
  closed,      \* those that one side has closed
  accepted,    \* those the server has taken from its listening socket
  compatible,  \* whether both sides have the same protocol version
  wire,        \* wire[c].toServer, wire[c].toClient
  dataVersion, \* Message::s_streamVersion of both sides
  address,     \* server: name -> address of a registered object
  nextAddress,
  value,       \* server: the property of the object
  enabled,     \* server: addresses with ObjectInfo::enabled
  known,       \* client: name -> address
  initState,   \* client: m_initState
  object,      \* client: name -> the object created for it
  writes,
  raced        \* history: the last write to the property of a name was in a race

serverVars == <<address, nextAddress, value, enabled>>
clientVars == <<known, initState, object>>
linkVars   == <<socket, opened, closed, accepted, compatible>>
vars == <<serverVars, clientVars, linkVars, wire, dataVersion, writes, raced>>

None == 0
Base == 1       \* lowestSupportedDataVersion()
High == 2       \* highestSupportedDataVersion(), of both sides

Connection == 1..MaxConnections
Address    == 1..MaxAddress
Side       == {"server", "client"}
NoObject   == [addr |-> None, value |-> 0]

NewWire == [toServer |-> <<>>, toClient |-> <<>>]

InitSteps == {"version", "map", "info", "data"}

Init ==
  /\ socket = [s \in Side |-> None] /\ opened = 0 /\ closed = {} /\ accepted = {}
  /\ wire = [c \in Connection |-> NewWire]
  /\ compatible \in BOOLEAN
  /\ dataVersion = [s \in Side |-> Base]
  /\ address = [n \in Name |-> None] /\ nextAddress = 0
  /\ value = [n \in Name |-> 0] /\ enabled = {}
  /\ known = [n \in Name |-> None] /\ initState = {}
  /\ object = [n \in Name |-> NoObject]
  /\ writes = 0 /\ raced = [n \in Name |-> FALSE]

\* A message as it is written now.
Encoded(side, type, about) == [type |-> type, about |-> about, enc |-> dataVersion[side]]

\* sendMessage(): nothing is sent without a connection, and nothing arrives at an end
\* that is closed.
FromServer(msgs) ==
  IF socket["server"] \in closed \cup {None} THEN wire
  ELSE [wire EXCEPT ![socket["server"]].toClient = @ \o msgs]
FromClient(msgs) ==
  IF socket["client"] \in closed \cup {None} THEN wire
  ELSE [wire EXCEPT ![socket["client"]].toServer = @ \o msgs]

ToServer == IF socket["server"] = None THEN <<>> ELSE wire[socket["server"]].toServer
ToClient == IF socket["client"] = None THEN <<>> ELSE wire[socket["client"]].toClient

IsType(m, a, types) == m.type \in types /\ m.about.addr = a

\* Messages of these types about address a are under way on the connection of the client.
UnderWay(direction, a, types) ==
  socket["client"] # None
    /\ \E i \in DOMAIN wire[socket["client"]][direction] :
         IsType(wire[socket["client"]][direction][i], a, types)

-----------------------------------------------------------------------------
(* Connecting and disconnecting. *)

\* Client::connectToHost().
ConnectToHost ==
  /\ socket["client"] = None /\ opened < MaxConnections
  /\ opened' = opened + 1
  /\ socket' = [socket EXCEPT !["client"] = opened + 1]
  /\ initState' = {}
  /\ UNCHANGED <<closed, accepted, compatible, wire, dataVersion, serverVars, known, object>>
  /\ UNCHANGED <<writes, raced>>

ServerGreeting ==
  << Encoded("server", "version", [addr |-> None]),
     Encoded("server", "info", [addr |-> None]),
     Encoded("server", "map", [addr |-> None, map |-> address]) >>

\* Mutant of NewConnection: a connection that is refused is left open.
NewConnectionLeftOpen ==
  \E c \in (1..opened) \ accepted :
    /\ accepted' = accepted \cup {c}
    /\ IF socket["server"] # None THEN UNCHANGED <<socket, wire>>
       ELSE /\ socket' = [socket EXCEPT !["server"] = c]
            /\ wire' = [wire EXCEPT ![c].toClient = ServerGreeting]
    /\ UNCHANGED <<opened, closed, compatible, dataVersion>>
    /\ UNCHANGED <<serverVars, clientVars, writes, raced>>

\* Server::newConnection(): greeted, or refused while there is a connection.
NewConnection ==
  \E c \in (1..opened) \ accepted :
    /\ accepted' = accepted \cup {c}
    /\ IF socket["server"] # None
       THEN closed' = closed \cup {c} /\ UNCHANGED <<socket, wire>>
       ELSE /\ socket' = [socket EXCEPT !["server"] = c]
            /\ wire' = IF c \in closed THEN wire
                        ELSE [wire EXCEPT ![c].toClient = ServerGreeting]
            /\ UNCHANGED closed
    /\ UNCHANGED <<opened, compatible, dataVersion, serverVars, clientVars, writes, raced>>

\* Mutant of ClientGone: the objects are kept for the next connection.
ClientGoneWithoutObjects ==
  /\ socket' = [socket EXCEPT !["client"] = None]
  /\ known' = [n \in Name |-> None]
  /\ UNCHANGED object

\* Client::socketDisconnected(): the names and the objects go.
ClientGone ==
  /\ socket' = [socket EXCEPT !["client"] = None]
  /\ known' = [n \in Name |-> None]
  /\ object' = [n \in Name |-> NoObject]

DisconnectFromHost ==
  /\ socket["client"] # None
  /\ closed' = closed \cup {socket["client"]}
  /\ wire' = [wire EXCEPT ![socket["client"]].toClient = <<>>]
  /\ ClientGone
  /\ UNCHANGED <<opened, accepted, compatible, dataVersion, serverVars, initState>>
  /\ UNCHANGED <<writes, raced>>

\* The client has read what was sent before the connection was closed.
ClientConnectionClosed ==
  /\ socket["client"] \in closed /\ ToClient = <<>>
  /\ ClientGone
  /\ UNCHANGED <<opened, closed, accepted, compatible, wire, dataVersion, serverVars>>
  /\ UNCHANGED <<initState, writes, raced>>

\* Endpoint::connectionClosed(): nothing else changes in the server.
ServerConnectionClosed ==
  /\ socket["server"] \in closed /\ ToServer = <<>>
  /\ socket' = [socket EXCEPT !["server"] = None]
  /\ UNCHANGED <<opened, closed, accepted, compatible, wire, dataVersion, serverVars>>
  /\ UNCHANGED <<clientVars, writes, raced>>

-----------------------------------------------------------------------------
(* The objects of the server. *)

RegisterObject ==
  \E n \in Name :
    /\ address[n] = None /\ nextAddress < MaxAddress
    /\ nextAddress' = nextAddress + 1
    /\ address' = [address EXCEPT ![n] = nextAddress + 1]
    /\ value' = [value EXCEPT ![n] = 0]
    /\ wire' = FromServer(<<Encoded("server", "added",
                                    [addr |-> nextAddress + 1, name |-> n])>>)
    /\ UNCHANGED <<enabled, clientVars, linkVars, dataVersion, writes, raced>>

\* Mutant of ObjectDestroyed: the client is not told.
ObjectDestroyedSilently ==
  \E n \in Name :
    /\ address[n] # None
    /\ address' = [address EXCEPT ![n] = None]
    /\ enabled' = enabled \ {address[n]}
    /\ value' = [value EXCEPT ![n] = 0]
    /\ UNCHANGED <<nextAddress, wire, clientVars, linkVars, dataVersion, writes, raced>>

\* Server::objectDestroyed() and PropertySyncer::objectDestroyed().
ObjectDestroyed ==
  \E n \in Name :
    /\ address[n] # None
    /\ address' = [address EXCEPT ![n] = None]
    /\ enabled' = enabled \ {address[n]}
    /\ value' = [value EXCEPT ![n] = 0]
    /\ wire' = FromServer(<<Encoded("server", "removed",
                                    [addr |-> address[n], name |-> n])>>)
    /\ UNCHANGED <<nextAddress, clientVars, linkVars, dataVersion, writes, raced>>

ObjectAt(a) == {n \in Name : address[n] = a}

\* A property of the probe changes: PropertySyncer::propertyChanged().
ServerWrite ==
  \E n \in Name :
    LET a == address[n] IN
    /\ a # None /\ writes < MaxWrites
    /\ writes' = writes + 1
    /\ value' = [value EXCEPT ![n] = writes + 1]
    /\ wire' = IF a \in enabled
               THEN FromServer(<<Encoded("server", "values", [addr |-> a, value |-> writes + 1])>>)
               ELSE wire
    /\ raced' = [raced EXCEPT ![n] =
         \/ UnderWay("toServer", a, {"values"})
         \/ a \notin enabled /\ object[n].addr = a /\ ~UnderWay("toServer", a, {"sync"})]
    /\ UNCHANGED <<address, nextAddress, enabled, clientVars, linkVars, dataVersion>>

\* Server::messageReceived(), and PropertySyncer::handleMessage() in the server.
ServerReceive ==
  /\ ToServer # <<>>
  /\ LET m == Head(ToServer)
         a == m.about.addr
         rest == [wire EXCEPT ![socket["server"]].toServer = Tail(@)]
         Reply(msg) == [rest EXCEPT ![socket["server"]].toClient = Append(@, msg)]
     IN  CASE m.type = "negotiate" ->
                /\ wire' = Reply(Encoded("server", "negotiated", m.about))
                /\ dataVersion' = [dataVersion EXCEPT !["server"] = m.about.version]
                /\ UNCHANGED <<enabled, value>>
           [] m.type = "monitored" ->
                /\ enabled' = IF ObjectAt(a) = {} THEN enabled ELSE enabled \cup {a}
                /\ wire' = rest
                /\ UNCHANGED <<dataVersion, value>>
           [] m.type = "unmonitored" ->
                /\ enabled' = enabled \ {a}
                /\ wire' = rest
                /\ UNCHANGED <<dataVersion, value>>
           [] m.type = "sync" ->
                /\ wire' = IF ObjectAt(a) = {} THEN rest
                           ELSE Reply(Encoded("server", "values",
                                 [addr |-> a, value |-> value[CHOOSE n \in ObjectAt(a) : TRUE]]))
                /\ UNCHANGED <<dataVersion, enabled, value>>
           [] m.type = "values" ->
                /\ value' = [n \in Name |-> IF n \in ObjectAt(a) THEN m.about.value
                                            ELSE value[n]]
                /\ wire' = rest
                /\ UNCHANGED <<dataVersion, enabled>>
  /\ UNCHANGED <<address, nextAddress, clientVars, linkVars, writes, raced>>

-----------------------------------------------------------------------------
(* The client. *)

\* Mutant of InitComplete: the answer to the negotiation is not waited for.
InitCompleteEarly == InitSteps \ {"data"} \subseteq initState

InitComplete == initState = InitSteps

\* Client::messageReceived(): the message a switch handles, and the state it leaves.
ClientReceive ==
  /\ ToClient # <<>>
  /\ LET c == socket["client"]
         m == Head(ToClient)
         a == m.about.addr
         rest == [wire EXCEPT ![c].toClient = Tail(@)]
         Reached(step) == initState' = initState \cup {step}
     IN  CASE m.type = "version" ->
                /\ Reached("version")
                /\ IF compatible
                   THEN wire' = rest /\ UNCHANGED <<socket, closed, known, object>>
                   ELSE /\ wire' = [wire EXCEPT ![c].toClient = <<>>]
                        /\ closed' = closed \cup {c}
                        /\ ClientGone
                /\ UNCHANGED dataVersion
           [] m.type = "info" ->
                /\ wire' = [rest EXCEPT ![c].toServer = Append(@,
                     Encoded("client", "negotiate", [addr |-> None, version |-> High]))]
                /\ Reached("info")
                /\ UNCHANGED <<socket, closed, known, object, dataVersion>>
           [] m.type = "map" ->
                /\ wire' = rest
                /\ known' = m.about.map
                /\ Reached("map")
                /\ UNCHANGED <<socket, closed, object, dataVersion>>
           [] m.type = "negotiated" ->
                /\ wire' = rest
                /\ dataVersion' = [dataVersion EXCEPT !["client"] = m.about.version]
                /\ Reached("data")
                /\ UNCHANGED <<socket, closed, known, object>>
           [] m.type = "added" ->
                /\ wire' = rest
                /\ known' = [known EXCEPT ![m.about.name] = a]
                /\ UNCHANGED <<socket, closed, object, initState, dataVersion>>
           [] m.type = "removed" ->
                /\ wire' = rest
                /\ known' = [known EXCEPT ![m.about.name] = None]
                /\ UNCHANGED <<socket, closed, object, initState, dataVersion>>
           [] m.type = "values" ->
                /\ wire' = rest
                /\ object' = [n \in Name |-> IF object[n].addr = a
                                THEN [object[n] EXCEPT !.value = m.about.value]
                                ELSE object[n]]
                /\ UNCHANGED <<socket, closed, known, initState, dataVersion>>
  /\ UNCHANGED <<opened, accepted, compatible, serverVars, writes, raced>>

\* Mutant of CreateObject: the initial values are asked for, changes of them are not.
CreateObjectUnmonitored ==
  \E n \in Name :
    LET a == known[n] IN
    /\ socket["client"] # None /\ InitComplete
    /\ LET w == wire[socket["client"]]
       IN  Len(w.toServer) + Len(w.toClient) < MaxInFlight
    /\ a # None /\ object[n] = NoObject
    /\ object' = [object EXCEPT ![n] = [addr |-> a, value |-> 0]]
    /\ wire' = FromClient(<<Encoded("client", "sync", [addr |-> a])>>)
    /\ raced' = [raced EXCEPT ![n] = FALSE]
    /\ UNCHANGED <<known, initState, linkVars, serverVars, dataVersion, writes>>

\* Client::registerObject(), once the connection is established.
CreateObject ==
  \E n \in Name :
    LET a == known[n] IN
    /\ socket["client"] # None /\ InitComplete
    /\ LET w == wire[socket["client"]]
       IN  Len(w.toServer) + Len(w.toClient) < MaxInFlight
    /\ a # None /\ object[n] = NoObject
    /\ object' = [object EXCEPT ![n] = [addr |-> a, value |-> 0]]
    /\ wire' = FromClient(<<Encoded("client", "sync", [addr |-> a]),
                            Encoded("client", "monitored", [addr |-> a])>>)
    /\ raced' = [raced EXCEPT ![n] = FALSE]
    /\ UNCHANGED <<known, initState, linkVars, serverVars, dataVersion, writes>>

\* Client::objectDestroyed(); an object whose name is gone is not listened to any more.
DeleteObject ==
  \E n \in Name :
    LET a == object[n].addr IN
    /\ a # None
    /\ object' = [object EXCEPT ![n] = NoObject]
    /\ wire' = IF known[n] = a
               THEN FromClient(<<Encoded("client", "unmonitored", [addr |-> a])>>)
               ELSE wire
    /\ UNCHANGED <<known, initState, linkVars, serverVars, dataVersion, writes, raced>>

\* A property of the client changes: PropertySyncer::propertyChanged().
ClientWrite ==
  \E n \in Name :
    LET a == object[n].addr IN
    /\ a # None /\ writes < MaxWrites
    /\ writes' = writes + 1
    /\ object' = [object EXCEPT ![n].value = writes + 1]
    /\ wire' = FromClient(<<Encoded("client", "values", [addr |-> a, value |-> writes + 1])>>)
    /\ raced' = [raced EXCEPT ![n] = UnderWay("toClient", a, {"values"})
                                       \/ UnderWay("toServer", a, {"sync"})]
    /\ UNCHANGED <<known, initState, linkVars, serverVars, dataVersion>>

-----------------------------------------------------------------------------
Next ==
  \/ ConnectToHost \/ NewConnection \/ DisconnectFromHost
  \/ ClientConnectionClosed \/ ServerConnectionClosed
  \/ RegisterObject \/ ObjectDestroyed \/ ServerWrite \/ ServerReceive
  \/ ClientReceive \/ CreateObject \/ DeleteObject \/ ClientWrite

Spec == Init /\ [][Next]_vars

\* Both event loops run.  Nobody has to connect, to write or to register anything.
FairSpec ==
  /\ Spec
  /\ WF_vars(NewConnection) /\ WF_vars(ServerReceive) /\ WF_vars(ClientReceive)
  /\ WF_vars(ClientConnectionClosed) /\ WF_vars(ServerConnectionClosed)

-----------------------------------------------------------------------------
\* Both sides hold the two ends of one connection, and neither has closed it.
Together == /\ socket["client"] # None /\ socket["client"] = socket["server"]
            /\ socket["client"] \notin closed

\* What a message that is read tells of a name.
Tells(m, n) == m.type = "map" \/ (m.type \in {"added", "removed"} /\ m.about.name = n)
AddressIn(m, n) ==
  CASE m.type = "map"     -> m.about.map[n]
    [] m.type = "added"   -> m.about.addr
    [] m.type = "removed" -> None

(* The client's names are the server's: the last message under way that tells of a    *)
(* name tells the address it has, and if there is none the client knows it, whatever  *)
(* is registered and destroyed during the greeting (sendServerGreeting(),             *)
(* registerObject(), objectDestroyed()).                                              *)
NamesAgree ==
  Together /\ compatible =>
    \A n \in Name :
      LET told == {i \in DOMAIN ToClient : Tells(ToClient[i], n)}
      IN  IF told = {} THEN known[n] = address[n]
          ELSE \E i \in told : (\A j \in told : j <= i) /\ AddressIn(ToClient[i], n) = address[n]

(* What is read is what was written: a message of an object is decoded with the data  *)
(* version it was encoded with.  Each side changes its version at a time of its own,  *)
(* and nothing the client sends may overtake that (InitComplete).                     *)
PayloadVersions == {"values", "sync"}
DecodedAsEncoded ==
  Together =>
    /\ ToServer # <<>> /\ Head(ToServer).type \in PayloadVersions =>
         Head(ToServer).enc = dataVersion["server"]
    /\ ToClient # <<>> /\ Head(ToClient).type \in PayloadVersions
         /\ (\E n \in Name : object[n].addr = Head(ToClient).about.addr) =>
         Head(ToClient).enc = dataVersion["client"]

(* An object of the client that the server still has is monitored, or the message     *)
(* that will have it monitored is the last one about it under way (monitorObject(),   *)
(* setObjectEnabled()).                                                               *)
Monitored ==
  Together =>
    \A n \in Name :
      LET a  == object[n].addr
          ms == {i \in DOMAIN ToServer : IsType(ToServer[i], a, {"monitored", "unmonitored"})}
      IN  a # None /\ a = address[n] =>
            IF ms = {} THEN a \in enabled
            ELSE \E i \in ms : (\A j \in ms : j <= i) /\ ToServer[i].type = "monitored"

(* Both objects have the same value when nothing is under way about them, unless the  *)
(* last write was in a race: with a write of the other side, with the answer to the   *)
(* initial synchronisation, or between that answer and the server's learning that the *)
(* object is monitored (propertyChanged(), handleMessage(), registerObject()).        *)
AgreeUnlessRaced ==
  Together =>
    \A n \in Name :
      LET a == object[n].addr
      IN  /\ a # None /\ a = address[n] /\ ~raced[n]
          /\ ~UnderWay("toServer", a, {"values", "sync"})
          /\ ~UnderWay("toClient", a, {"values"})
          => object[n].value = value[n]

(* Every attempt to connect comes to an end: the connection is established, or the    *)
(* client learns that there is none (newConnection(), messageReceived()).             *)
Decided == socket["client"] # None ~> socket["client"] = None \/ InitComplete
=============================================================================
