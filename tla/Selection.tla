------------------------------ MODULE Selection ------------------------------
(***************************************************************************)
(* One selection on two sides: SelectionModelServer over a model of the    *)
(* probe, SelectionModelClient over the RemoteModel of it.  A message      *)
(* names what is selected by its position in the model of the sender; what *)
(* the receiver cannot find is kept until it can.                          *)
(*                                                                         *)
(* The model is a list, and one row is selected, with ClearAndSelect.  The *)
(* client learns the rows as RemoteModel does: when it asks for them, and  *)
(* from then on by every change.  Messages of both kinds share a stream.   *)
(***************************************************************************)
EXTENDS Integers, Sequences, SequencesExt, FiniteSets

CONSTANTS Item, None,
          MaxChanges,   \* bound: changes of the model
          MaxChoices    \* bound: selections by a tool or the user

ASSUME SelectionAssumption ==
  /\ None \notin Item /\ IsFiniteSet(Item)
  /\ MaxChanges \in Nat /\ MaxChoices \in Nat

VARIABLES
  server,    \* rows, selection, pending position (0: none), timer, monitored
  client,    \* the same; loaded: it has the rows; asked: it has asked for them
  toServer, toClient,
  changes, choices,
  raced,     \* history: the selection applied last has crossed with something
  mine       \* history: the user has chosen what the client has selected

vars == <<server, client, toServer, toClient, changes, choices, raced, mine>>

Positions == 0..Cardinality(Item)

Message(type) == [type |-> type, pos |-> 0, rows |-> <<>>, crossed |-> FALSE]

Select(i) == [Message("select") EXCEPT !.pos = i]

Lists == {s \in UNION {[1..n -> Item] : n \in Positions} : IsInjective(s)}

Init ==
  /\ server \in {[rows |-> r, selection |-> s, pending |-> 0, timer |-> FALSE,
                  monitored |-> FALSE] : r \in Lists, s \in Item \cup {None}}
  /\ server.selection # None => \E i \in DOMAIN server.rows : server.rows[i] = server.selection
  /\ client = [rows |-> <<>>, selection |-> None, pending |-> 0, timer |-> FALSE,
               request |-> TRUE, loaded |-> FALSE, asked |-> FALSE]
  /\ toServer = <<Message("monitored")>> /\ toClient = <<>>
  /\ changes = 0 /\ choices = 0 /\ raced = FALSE /\ mine = FALSE

Position(side) == IF side.selection = None THEN 0
                  ELSE SelectInSeq(side.rows, LAMBDA i : i = side.selection)

\* Types of messages that a position sent the other way may miss.
Structure == {"inserted", "removed", "reset"}

Crossing(wire) == \E i \in DOMAIN wire : wire[i].type \in Structure \cup {"select"}

\* History: the selections under way the other way have crossed with the one received.
Mark(wire) == [i \in DOMAIN wire |-> [wire[i] EXCEPT !.crossed = @ \/ wire[i].type = "select"]]

-----------------------------------------------------------------------------
(* The model of the probe.  QItemSelectionModel follows it. *)

Monitored(msgs) == IF server.monitored THEN toClient \o msgs ELSE toClient

\* rowsInserted: the timer groups the answers.
InsertRow ==
  /\ changes < MaxChanges /\ changes' = changes + 1
  /\ \E x \in Item \ ToSet(server.rows), i \in 1..(Len(server.rows) + 1) :
       /\ server' = [server EXCEPT !.rows = InsertAt(@, i, x),
                                   !.timer = @ \/ server.monitored]
       /\ toClient' = Append(toClient, [Message("inserted") EXCEPT !.pos = i, !.rows = <<x>>])
  /\ UNCHANGED <<client, toServer, choices, raced, mine>>

\* rowsRemoved: a selected row that is removed is deselected.
RemoveRow ==
  /\ changes < MaxChanges /\ changes' = changes + 1
  /\ \E i \in DOMAIN server.rows :
       /\ server' = [server EXCEPT !.rows = RemoveAt(@, i),
                                   !.selection = IF @ = server.rows[i] THEN None ELSE @]
       /\ toClient' = Append(toClient, [Message("removed") EXCEPT !.pos = i])
  /\ UNCHANGED <<client, toServer, choices, raced, mine>>

\* modelReset.
ResetModel ==
  /\ changes < MaxChanges /\ changes' = changes + 1
  /\ \E r \in Lists :
       server' = [server EXCEPT !.rows = r, !.selection = None, !.timer = @ \/ server.monitored]
  /\ toClient' = Append(toClient, Message("reset"))
  /\ UNCHANGED <<client, toServer, choices, raced, mine>>

-----------------------------------------------------------------------------
(* The selection of the probe. *)

\* Mutant of Chosen: the pending selection stays.
ChosenKeeping(s, i) == [s EXCEPT !.selection = s.rows[i]]

\* NetworkSelectionModel::select() of a local choice.
Chosen(s, i) == [s EXCEPT !.selection = s.rows[i], !.pending = 0]

\* A tool selects something.
ServerSelect ==
  /\ choices < MaxChoices /\ choices' = choices + 1
  /\ \E i \in DOMAIN server.rows :
       /\ server' = IF server.monitored THEN Chosen(server, i)
                    ELSE [server EXCEPT !.selection = server.rows[i]]
       /\ toClient' = Monitored(<<Select(i)>>)
  /\ UNCHANGED <<client, toServer, changes, raced, mine>>

\* Mutant of SendSelection: the row it selects itself is not sent.
SendSelectionSilent(s) ==
  IF s.monitored /\ s.selection # None
  THEN server' = Chosen(s, Position(s)) /\ toClient' = Append(toClient, Select(Position(s)))
  ELSE /\ server' = IF s.monitored /\ s.rows # <<>> THEN Chosen(s, 1) ELSE s
       /\ UNCHANGED toClient

\* sendSelection(): of the row selected, or of the first one, which it then selects.
SendSelection(s) ==
  IF ~s.monitored THEN server' = s /\ UNCHANGED toClient
  ELSE LET row == IF s.selection # None THEN Position(s) ELSE IF s.rows # <<>> THEN 1 ELSE 0
       IN  IF row = 0 THEN server' = [s EXCEPT !.pending = 0] /\ UNCHANGED toClient
           ELSE server' = Chosen(s, row) /\ toClient' = Append(toClient, Select(row))

\* SelectionModelServer::timeout().
ServerTimeout ==
  /\ server.timer /\ SendSelection([server EXCEPT !.timer = FALSE])
  /\ UNCHANGED <<client, toServer, changes, choices, raced, mine>>

\* Mutant of Applied: without m_handlingRemoteMessage what is applied is sent back.
AppliedWithEcho(s, pos, wire) ==
  IF pos \in DOMAIN s.rows THEN <<Chosen(s, pos), Append(wire, Select(pos))>>
                           ELSE <<[s EXCEPT !.pending = pos], wire>>

\* newMessage() of a selection: applied, and not sent back, or kept.
Applied(s, pos, wire) ==
  IF pos \in DOMAIN s.rows THEN <<Chosen(s, pos), wire>> ELSE <<[s EXCEPT !.pending = pos], wire>>

ServerReceive ==
  /\ toServer # <<>> /\ toServer' = Tail(toServer)
  /\ LET m == Head(toServer)
     IN  \/ /\ m.type = "monitored" /\ server' = [server EXCEPT !.monitored = TRUE]
            /\ UNCHANGED <<toClient, raced>>
         \/ /\ m.type = "request" /\ SendSelection(server) /\ UNCHANGED raced
         \/ /\ m.type = "load"
            /\ toClient' = Append(toClient, [Message("rows") EXCEPT !.rows = server.rows])
            /\ UNCHANGED <<server, raced>>
         \/ /\ m.type = "select"
            /\ server' = Applied(server, m.pos, toClient)[1]
            /\ toClient' = Mark(Applied(server, m.pos, toClient)[2])
            /\ raced' = (m.crossed \/ Crossing(toClient))
  /\ UNCHANGED <<client, changes, choices, mine>>

-----------------------------------------------------------------------------
(* The selection of the client. *)

\* requestSelection(), by a timer, when the object of the probe is known.
Request ==
  /\ client.request /\ client' = [client EXCEPT !.request = FALSE]
  /\ toServer' = Append(toServer, Message("request"))
  /\ UNCHANGED <<server, toClient, changes, choices, raced, mine>>

\* RemoteModel::rowCount(), by a view.
Load ==
  /\ ~client.asked /\ ~client.loaded /\ client' = [client EXCEPT !.asked = TRUE]
  /\ toServer' = Append(toServer, Message("load"))
  /\ UNCHANGED <<server, toClient, changes, choices, raced, mine>>

ClientSelect ==
  /\ choices < MaxChoices /\ choices' = choices + 1
  /\ \E i \in DOMAIN client.rows :
       client' = Chosen(client, i) /\ toServer' = Append(toServer, Select(i))
  /\ mine' = TRUE /\ UNCHANGED <<server, toClient, changes, raced>>

\* SelectionModelClient::timeout(): applyPendingSelection(), outside newMessage(), so that
\* what it applies is sent to the server.
ClientTimeout ==
  /\ client.timer
  /\ LET c == [client EXCEPT !.timer = FALSE]
     IN  IF c.pending \in DOMAIN c.rows
         THEN client' = Chosen(c, c.pending) /\ toServer' = Append(toServer, Select(c.pending))
         ELSE client' = c /\ UNCHANGED toServer
  /\ UNCHANGED <<server, toClient, changes, choices, raced, mine>>

\* Mutant of RowsInserted: no timer.
RowsInsertedUnnoticed(c, rows) == [c EXCEPT !.rows = rows, !.loaded = TRUE]

\* Rows appear in the RemoteModel.
RowsInserted(c, rows) ==
  [c EXCEPT !.rows = rows, !.loaded = TRUE, !.timer = @ \/ rows # c.rows]

\* What happens to the RemoteModel, and to the selection by QItemSelectionModel.  A reset
\* drops the pending selection.
RemoteModelChanged(c, m) ==
  CASE m.type = "rows" -> RowsInserted(c, m.rows)
    [] m.type = "reset" -> [c EXCEPT !.rows = <<>>, !.selection = None, !.loaded = FALSE,
                                     !.asked = FALSE, !.pending = 0]
    [] m.type \in {"inserted", "removed"} /\ ~c.loaded -> c
    [] m.type = "inserted" /\ c.loaded -> RowsInserted(c, InsertAt(c.rows, m.pos, m.rows[1]))
    [] m.type = "removed" /\ c.loaded ->
         [c EXCEPT !.rows = RemoveAt(@, m.pos),
                   !.selection = IF @ = c.rows[m.pos] THEN None ELSE @]

ClientReceive ==
  /\ toClient # <<>> /\ toClient' = Tail(toClient)
  /\ LET m == Head(toClient)
     IN  IF m.type = "select"
         THEN /\ client' = Applied(client, m.pos, toServer)[1]
              /\ toServer' = Mark(Applied(client, m.pos, toServer)[2])
              /\ raced' = (m.crossed \/ Crossing(toServer))
         ELSE /\ client' = RemoteModelChanged(client, m)
              /\ toServer' = IF m.type \in Structure THEN Mark(toServer) ELSE toServer
              /\ UNCHANGED raced
  /\ mine' = (mine /\ Head(toClient).type \notin {"select", "removed", "reset"})
  /\ UNCHANGED <<server, changes, choices>>

Next == \/ InsertRow \/ RemoveRow \/ ResetModel \/ ServerSelect \/ ServerTimeout \/ ServerReceive
        \/ Request \/ Load \/ ClientSelect \/ ClientTimeout \/ ClientReceive

\* Messages arrive, timers end, and a view asks for the rows it shows.
FairSpec ==
  /\ Init /\ [][Next]_vars
  /\ WF_vars(ServerTimeout) /\ WF_vars(ServerReceive) /\ WF_vars(Request)
  /\ WF_vars(Load) /\ WF_vars(ClientTimeout) /\ WF_vars(ClientReceive)

-----------------------------------------------------------------------------
Quiet == /\ toServer = <<>> /\ toClient = <<>> /\ ~server.timer /\ ~client.timer
         /\ ~client.request /\ client.pending = 0 /\ client.loaded

(* When everything has arrived both sides have selected the same thing, unless the    *)
(* last selection has crossed with another one or with a change of the model that     *)
(* moves its position (select(), sendSelection(), newMessage(), timeout()).           *)
AgreeUnlessRaced == Quiet /\ ~raced => client.selection = server.selection

(* Choices come to rest: no selection goes to and fro for ever, although what a timer *)
(* applies is sent back (applyPendingSelection(), m_handlingRemoteMessage).           *)
Settles == <>[](toServer = <<>> /\ toClient = <<>>)

(* A selection that has arrived before its row is applied once the row is there, or   *)
(* given up for another one (applyPendingSelection(), clearPendingSelection()).       *)
PendingApplied ==
  client.pending \in DOMAIN client.rows ~> client.pending \notin DOMAIN client.rows

(* What the user has chosen stays until something else arrives or the row goes: a     *)
(* selection that was waiting for its row does not replace it afterwards (select()    *)
(* clears the pending selection that timeout() would apply).                          *)
ChoiceKept == [][mine /\ mine' /\ choices' = choices => client.selection' = client.selection]_vars
=============================================================================
