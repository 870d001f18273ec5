---------------------------- MODULE RemoteModel ----------------------------
(***************************************************************************)
(* A model of the target (core/remote/remotemodelserver.cpp) and the copy  *)
(* the client keeps of it (client/remotemodel.cpp).  The copy is filled on *)
(* demand: views ask for row counts, contents and headers, requests name   *)
(* rows by position, and the model changes while requests and replies are  *)
(* under way.  The two channels are reliable and in order (one TCP stream).*)
(*                                                                         *)
(* Every model has one column here.  A value is the number of the change   *)
(* that wrote it, so that no two rows ever have the same one.              *)
(***************************************************************************)
EXTENDS RowTree

CONSTANTS
  MaxRows,     \* bound: rows of the model
  MaxDepth,    \* bound: levels below the root
  MaxAmount,   \* bound: rows one operation inserts, removes, moves or changes
  MaxChanges,  \* bound: changes of the target's model
  MaxInFlight, \* bound: requests collected and messages on the wire when a view asks
  BatchLimit,  \* collected requests above which they are sent at once; 100 in the code
  Leaves,      \* what flags() may say of a new row: subsets of BOOLEAN, TRUE for ItemNeverHasChildren
  Operations,  \* what the target's model may do
  AskHeaders   \* whether a view shows vertical headers

OperationKinds ==
  {"insert", "remove", "moveAcross", "moveDown", "moveUp", "content", "header", "layout", "reset"}

ASSUME RemoteModelAssumption ==
  /\ MaxRows \in Nat /\ MaxDepth \in Nat \ {0} /\ MaxAmount \in 1..MaxRows /\ MaxChanges \in Nat
  /\ MaxInFlight \in Nat /\ BatchLimit \in Nat /\ AskHeaders \in BOOLEAN
  /\ Leaves \subseteq BOOLEAN /\ Leaves # {} /\ Operations \subseteq OperationKinds

VARIABLES
  model,     \* RemoteModelServer::m_model: its rows; empty when there is no model
  changes,   \* changes of the model so far
  toServer,  \* requests on the wire
  toClient,  \* replies and notifications on the wire
  client,    \* RemoteModel::m_root: the nodes of the copy
  headers,   \* m_verticalHeaders
  pending,   \* m_pendingRequests
  current,   \* m_currentSyncBarrier
  target,    \* m_targetSyncBarrier
  unreset,   \* rows between endInsertRows(), endRemoveRows() or endMoveRows() and resetLoadingState()
  fault      \* an index was out of range, or a null row was used: the client is undefined

server    == <<model, changes>>
copy      == <<client, headers, pending, unreset, fault>>
barriers  == <<current, target>>
vars == <<model, changes, toServer, toClient, client, headers, pending, current, target, unreset, fault>>

None     == 0   \* a value not there yet
Invalid  == -2  \* headerData() of a section that does not exist
Loading  == -1  \* a header requested: "Loading..."
Unknown  == -1  \* Node::rowCount: not asked for
Asked    == -2  \* Node::rowCount: being asked for

NewNode == [rows |-> Unknown, value |-> None, outdated |-> TRUE, loading |-> FALSE]
NewRoot == [p \in {Root} |-> NewNode]
NoModel == [p \in {} |-> 0]

\* The i-th new row of the k-th change: its values, and whether it never has children.
Value(k, i) == k * (MaxRows + 1) + i
NewRow(k, i, leaf) == [value |-> Value(k, i), header |-> Value(k, i), leaf |-> leaf]

\* A model of n rows.
FlatModel(k, n, leaf) ==
  Filled([p \in {Root} |-> [value |-> None, header |-> None, leaf |-> FALSE]], Root, 0, n,
         [i \in 1..n |-> NewRow(k, i, leaf)])

\* One with n rows below its only row.
DeepModel(n, leaf) ==
  Filled(FlatModel(0, 1, FALSE), RowAt(Root, 0), 0, n, [i \in 1..n |-> NewRow(0, i + 1, leaf)])

\* What the client may find: some rows, or a row with rows of its own.
StartModels ==
  {FlatModel(0, n, leaf) : n \in 1..MaxRows, leaf \in Leaves} \cup
  {DeepModel(n, leaf) : n \in IF MaxDepth > 1 THEN 1..(MaxRows - 1) ELSE {}, leaf \in Leaves}

Known(p) == p \in DOMAIN client /\ client[p].rows >= 0
Settled  == current = target

Init ==
  /\ changes = 0
  /\ model \in StartModels
  /\ toServer = << >> /\ toClient = << >>
  /\ client = NewRoot /\ headers = << >>
  /\ pending = [count |-> << >>, data |-> << >>]
  /\ current = 0 /\ target = 0
  /\ unreset = {} /\ fault = FALSE

-----------------------------------------------------------------------------
(* The target's model, and what the server tells of its changes. *)

HasModel == DOMAIN model # {}

Changing(kind) == kind \in Operations /\ changes' = changes + 1
CanChange      == changes < MaxChanges

Notify(m) ==
  /\ toClient' = Append(toClient, m)
  /\ UNCHANGED <<toServer, copy, barriers>>

InsertRows ==
  /\ CanChange /\ Changing("insert")
  /\ \E p \in DOMAIN model, n \in 1..MaxAmount, leaf \in Leaves :
       \E f \in 0..RowCount(model, p) :
         /\ ~model[p].leaf /\ Len(p) < MaxDepth /\ Cardinality(DOMAIN model) + n <= MaxRows + 1
         /\ model' = Inserted(model, p, f, n, [i \in 1..n |-> NewRow(changes + 1, i, leaf)])
         /\ Notify([type |-> "RowsAdded", parent |-> p, first |-> f, last |-> f + n - 1])

RemoveRows ==
  /\ CanChange /\ Changing("remove")
  /\ \E p \in DOMAIN model, n \in 1..MaxAmount :
       \E f \in 0..(RowCount(model, p) - n) :
         /\ model' = Closed(model, p, f, n)
         /\ Notify([type |-> "RowsRemoved", parent |-> p, first |-> f, last |-> f + n - 1])

\* beginMoveRows() refuses a destination inside the moved rows; the parents are
\* named as they were before the move.
MoveKind(sp, f, dp, d) ==
  IF sp # dp THEN "moveAcross" ELSE IF d > f THEN "moveDown" ELSE "moveUp"

MoveRows ==
  /\ CanChange
  /\ \E sp, dp \in DOMAIN model, n \in 1..MaxAmount :
       \E f \in 0..(RowCount(model, sp) - n), d \in 0..RowCount(model, dp) :
         /\ Changing(MoveKind(sp, f, dp, d))
         /\ ~model[dp].leaf
         /\ ~InRows(sp, dp, f, n) /\ (dp = sp => d \notin f..(f + n))
         /\ \A q \in DOMAIN model : InRows(sp, q, f, n) => Len(q) - Len(sp) + Len(dp) <= MaxDepth
         /\ model' = Moved(model, sp, IF sp = dp /\ d <= f THEN f + n ELSE f, n, dp, d)
         /\ Notify([type |-> "RowsMoved", parent |-> sp, first |-> f, last |-> f + n - 1,
                    dest |-> dp, child |-> d])

ChangeContent ==
  /\ CanChange /\ Changing("content")
  /\ \E p \in DOMAIN model, n \in 1..MaxAmount :
       \E f \in 0..(RowCount(model, p) - n) :
         /\ model' = [q \in DOMAIN model |->
                        IF Len(q) = Len(p) + 1 /\ InRows(p, q, f, n)
                        THEN [model[q] EXCEPT !.value = Value(changes + 1, 1 + Row(p, q) - f)]
                        ELSE model[q]]
         /\ Notify([type |-> "ContentChanged", parent |-> p, first |-> f, last |-> f + n - 1])

ChangeHeader ==
  /\ CanChange /\ Changing("header")
  /\ \E n \in 1..MaxAmount :
       HasModel /\ \E f \in 0..(RowCount(model, Root) - n) :
         /\ model' = [q \in DOMAIN model |->
                        IF Len(q) = 1 /\ InRows(Root, q, f, n)
                        THEN [model[q] EXCEPT !.header = Value(changes + 1, 1 + Row(Root, q) - f)]
                        ELSE model[q]]
         /\ Notify([type |-> "HeaderChanged", first |-> f, last |-> f + n - 1])

\* layoutChanged(): the rows of p are in another order.  parents may be left out,
\* which stands for all of the model; a hint says that rows were sorted in place.
ChangeLayout ==
  /\ CanChange /\ Changing("layout")
  /\ \E p \in DOMAIN model, hint \in BOOLEAN :
       /\ RowCount(model, p) > 1
       /\ model' = Reversed(model, p)
       /\ \E parents \in {{p}, {}} :
            Notify([type |-> "LayoutChanged", parents |-> parents, hint |-> hint])

\* modelReset(): after endResetModel(), setModel() or modelDeleted().
ResetModel ==
  /\ CanChange /\ Changing("reset")
  /\ \E n \in 1..MaxAmount, leaf \in Leaves : model' \in {NoModel, FlatModel(changes + 1, n, leaf)}
  /\ Notify([type |-> "Reset"])

-----------------------------------------------------------------------------
(* RemoteModelServer::newRequest() *)

Request(type) == toServer # << >> /\ Head(toServer).type = type

Reply(replies) ==
  /\ toServer' = Tail(toServer)
  /\ toClient' = toClient \o replies
  /\ UNCHANGED <<server, copy, barriers>>

\* Every case but the barrier comes after the check that there is a model.
RowColumnCountRequest ==
  /\ Request("RowColumnCountRequest")
  /\ LET p == Head(toServer).index
         n == IF p \in DOMAIN model THEN RowCount(model, p) ELSE Unknown
     IN  Reply(IF HasModel THEN <<[type |-> "RowColumnCountReply", index |-> p, rows |-> n]>>
                           ELSE << >>)

ContentRequest ==
  /\ Request("ContentRequest")
  /\ LET p == Head(toServer).index
     IN  Reply(IF p \in DOMAIN model
               THEN <<[type |-> "ContentReply", index |-> p,
                       value |-> model[p].value, leaf |-> model[p].leaf]>>
               ELSE << >>)

\* headerData() of a section that does not exist is an invalid value, and sent.
HeaderRequest ==
  /\ Request("HeaderRequest")
  /\ LET s == Head(toServer).section
         v == IF RowAt(Root, s) \in DOMAIN model THEN model[RowAt(Root, s)].header ELSE Invalid
     IN  Reply(IF HasModel THEN <<[type |-> "HeaderReply", section |-> s, value |-> v]>>
                           ELSE << >>)

\* Mutant of BarrierRequest: the check that there is a model comes first.
BarrierRequestOfModel ==
  /\ Request("SyncBarrier")
  /\ Reply(IF HasModel THEN <<Head(toServer)>> ELSE << >>)

BarrierRequest ==
  /\ Request("SyncBarrier")
  /\ Reply(<<Head(toServer)>>)

-----------------------------------------------------------------------------
(* What views ask of the copy, in the client's one thread: at any time between *)
(* two messages, and from slots of the signals a message has emitted.          *)

Flushed(requests) == requests.count \o requests.data

CanAsk == ~fault /\ Len(toServer) + Len(toClient) + Len(Flushed(pending)) < MaxInFlight

\* doRequests() at once above the limit, from the timer otherwise.
Collect(requests) ==
  IF Len(requests.count) > BatchLimit \/ Len(requests.data) > BatchLimit
  THEN /\ pending' = [count |-> << >>, data |-> << >>]
       /\ toServer' = toServer \o Flushed(requests)
  ELSE pending' = requests /\ UNCHANGED toServer

\* rowCount() and index(): a node that is being asked for is not asked again.
AskRowCount ==
  /\ CanAsk
  /\ \E p \in DOMAIN client :
       /\ client[p].rows = Unknown
       /\ client' = [client EXCEPT ![p].rows = Asked]
       /\ Collect([pending EXCEPT !.count =
                     Append(@, [type |-> "RowColumnCountRequest", index |-> p])])
  /\ UNCHANGED <<server, barriers, toClient, headers, unreset, fault>>

\* data(): what is outdated is shown as it is, and asked for unless it was already.
AskContent ==
  /\ CanAsk
  /\ \E p \in DOMAIN client \ {Root} :
       /\ client[p].outdated /\ ~client[p].loading
       /\ client' = [client EXCEPT ![p].loading = TRUE]
       /\ Collect([pending EXCEPT !.data =
                     Append(@, [type |-> "ContentRequest", index |-> p])])
  /\ UNCHANGED <<server, barriers, toClient, headers, unreset, fault>>

\* headerData(): the vector gets its size when the first header is asked for, and
\* the request is sent at once.
AskHeader ==
  /\ CanAsk /\ AskHeaders
  /\ \E s \in 0..(client[Root].rows - 1) :
       LET sized == IF headers = << >> THEN [i \in 1..client[Root].rows |-> None] ELSE headers
       IN  IF s >= Len(sized)
           THEN fault' = TRUE /\ UNCHANGED <<headers, toServer>>
           ELSE /\ sized[s + 1] = None
                /\ headers' = [sized EXCEPT ![s + 1] = Loading]
                /\ toServer' = Append(toServer, [type |-> "HeaderRequest", section |-> s])
                /\ UNCHANGED fault
  /\ UNCHANGED <<server, barriers, toClient, client, pending, unreset>>

\* The timer's doRequests().
SendPending ==
  /\ ~fault /\ unreset = {} /\ Flushed(pending) # << >>
  /\ pending' = [count |-> << >>, data |-> << >>]
  /\ toServer' = toServer \o Flushed(pending)
  /\ UNCHANGED <<server, barriers, toClient, client, headers, unreset, fault>>

-----------------------------------------------------------------------------
(* RemoteModel::newMessage() *)

Received == ~fault /\ unreset = {} /\ toClient # << >> /\ toClient' = Tail(toClient)

\* checkSyncBarrier(): nothing is heard until the answer to the last clear().
Message(type) == Received /\ Settled /\ Head(toClient).type = type

Ignored ==
  /\ Received /\ ~Settled /\ Head(toClient).type # "SyncBarrier"
  /\ UNCHANGED <<server, toServer, copy, barriers>>

BarrierReply ==
  /\ Received /\ Head(toClient).type = "SyncBarrier"
  /\ current' = Head(toClient).id
  /\ UNCHANGED <<server, toServer, copy, target>>

\* Only a node that was asked for takes a count; -1 has it asked for again.
RowColumnCountReply ==
  /\ Message("RowColumnCountReply")
  /\ LET p == Head(toClient).index
         n == Head(toClient).rows
     IN  client' = IF p \in DOMAIN client /\ client[p].rows = Asked
                   THEN [Filled(client, p, 0, n, [i \in 1..n |-> NewNode]) EXCEPT ![p].rows = n]
                   ELSE client
  /\ UNCHANGED <<server, toServer, barriers, headers, pending, unreset, fault>>

\* A row that never has children needs no count.
ContentReply ==
  /\ Message("ContentReply")
  /\ LET p == Head(toClient).index
         m == Head(toClient)
     IN  client' = IF p \in DOMAIN client /\ client[p].loading
                   THEN [client EXCEPT ![p] =
                          [rows |-> IF m.leaf THEN 0 ELSE @.rows, value |-> m.value,
                           outdated |-> FALSE, loading |-> FALSE]]
                   ELSE client
  /\ UNCHANGED <<server, toServer, barriers, headers, pending, unreset, fault>>

HeaderReply ==
  /\ Message("HeaderReply")
  /\ LET s == Head(toClient).section
     IN  IF headers # << >> /\ s >= Len(headers)
         THEN fault' = TRUE /\ UNCHANGED headers
         ELSE /\ headers' = IF headers = << >> THEN headers
                            ELSE [headers EXCEPT ![s + 1] = Head(toClient).value]
              /\ UNCHANGED fault
  /\ UNCHANGED <<server, toServer, barriers, client, pending, unreset>>

\* Mutant of ContentChanged: the loop ends before the last row.
ContentChangedShort ==
  /\ Message("ContentChanged")
  /\ LET m == Head(toClient)
     IN  client' = [q \in DOMAIN client |->
                      IF Len(q) = Len(m.parent) + 1 /\ InRows(m.parent, q, m.first, m.last - m.first)
                      THEN [client[q] EXCEPT !.outdated = TRUE] ELSE client[q]]
  /\ UNCHANGED <<server, toServer, barriers, headers, pending, unreset, fault>>

\* Nothing but a mark: the old value is shown until the new one comes.
ContentChanged ==
  /\ Message("ContentChanged")
  /\ LET m == Head(toClient)
     IN  client' = [q \in DOMAIN client |->
                      IF Len(q) = Len(m.parent) + 1
                         /\ InRows(m.parent, q, m.first, m.last - m.first + 1)
                      THEN [client[q] EXCEPT !.outdated = TRUE] ELSE client[q]]
  /\ UNCHANGED <<server, toServer, barriers, headers, pending, unreset, fault>>

\* The loop ends before the last section.
HeaderChanged ==
  /\ Message("HeaderChanged")
  /\ headers' = [i \in 1..Len(headers) |->
                   IF i - 1 >= Head(toClient).first /\ i - 1 < Head(toClient).last
                   THEN None ELSE headers[i]]
  /\ UNCHANGED <<server, toServer, barriers, client, pending, unreset, fault>>

\* QVector::insert() and remove() of n headers at f.
HeadersInserted(f, n) ==
  SubSeq(headers, 1, f) \o [i \in 1..n |-> None] \o SubSeq(headers, f + 1, Len(headers))
HeadersRemoved(f, n) == SubSeq(headers, 1, f) \o SubSeq(headers, f + n + 1, Len(headers))

\* doInsertRows(), up to its signal.
DoInsertRows(p, first, last) ==
  LET n == last - first + 1
  IN  /\ client' = [Inserted(client, p, first, n, [i \in 1..n |-> NewNode])
                      EXCEPT ![p].rows = @ + n]
      /\ IF p # Root \/ headers = << >> THEN UNCHANGED <<headers, fault>>
         ELSE IF first > Len(headers) THEN fault' = TRUE /\ UNCHANGED headers
         ELSE headers' = HeadersInserted(first, n) /\ UNCHANGED fault
      /\ unreset' = {<<p, last>>}

\* Mutant of DoRemoveRows: the headers stay.
DoRemoveRowsUnderHeaders(p, first, last) ==
  LET n == last - first + 1
  IN  /\ client' = [Closed(client, p, first, n) EXCEPT ![p].rows = @ - n]
      /\ unreset' = {<<p, first>>}
      /\ UNCHANGED <<headers, fault>>

\* doRemoveRows(), up to its signal.
DoRemoveRows(p, first, last) ==
  LET n == last - first + 1
  IN  /\ client' = [Closed(client, p, first, n) EXCEPT ![p].rows = @ - n]
      /\ IF p # Root \/ headers = << >> THEN UNCHANGED <<headers, fault>>
         ELSE IF last >= Len(headers) THEN fault' = TRUE /\ UNCHANGED headers
         ELSE headers' = HeadersRemoved(first, n) /\ UNCHANGED fault
      /\ unreset' = {<<p, first>>}

\* doMoveRows(), up to its signal.  The rows are taken from where they were before
\* room was made in the destination: null, when that is the room itself.
DoMoveRows(sp, first, last, dp, child) ==
  LET n     == last - first + 1
      null  == sp = dp /\ child <= first /\ first < child + n
      from  == Shifted(sp, dp, child, n)
      into  == Shifted(dp, sp, first + n, -n)
  IN  IF null THEN fault' = TRUE /\ UNCHANGED <<client, headers, unreset>>
      ELSE /\ client' = [Moved([client EXCEPT ![sp].rows = @ - n], sp, first, n, dp, child)
                           EXCEPT ![into].rows = @ + n]
           /\ headers' = IF Root \in {sp, dp} THEN << >> ELSE headers
           /\ unreset' = {<<from, first>>, <<into, child + n - 1>>}
           /\ UNCHANGED fault

\* Changes below what is not known are not heard.
RowsAdded ==
  /\ Message("RowsAdded")
  /\ LET m == Head(toClient)
     IN  IF Known(m.parent) THEN DoInsertRows(m.parent, m.first, m.last)
         ELSE UNCHANGED <<client, headers, unreset, fault>>
  /\ UNCHANGED <<server, toServer, barriers, pending>>

RowsRemoved ==
  /\ Message("RowsRemoved")
  /\ LET m == Head(toClient)
     IN  IF Known(m.parent) THEN DoRemoveRows(m.parent, m.first, m.last)
         ELSE UNCHANGED <<client, headers, unreset, fault>>
  /\ UNCHANGED <<server, toServer, barriers, pending>>

RowsMoved ==
  /\ Message("RowsMoved")
  /\ LET m == Head(toClient)
     IN  CASE Known(m.parent) /\ Known(m.dest) ->
                DoMoveRows(m.parent, m.first, m.last, m.dest, m.child)
           [] Known(m.parent) /\ ~Known(m.dest) ->
                DoRemoveRows(m.parent, m.first, m.last)
           [] ~Known(m.parent) /\ Known(m.dest) ->
                DoInsertRows(m.dest, m.child, m.child + m.last - m.first)
           [] OTHER -> UNCHANGED <<client, headers, unreset, fault>>
  /\ UNCHANGED <<server, toServer, barriers, pending>>

\* clearChildrenStructure() of the parents, or clearChildrenData() when a hint says
\* that the number of rows is still right; the headers are kept in either case.
Forgotten(p, hint) ==
  IF hint THEN [q \in DOMAIN Pruned(client, p) \cup Rows(client, p) |->
                  IF q = p THEN client[p] ELSE IF Below(p, q) THEN NewNode ELSE client[q]]
  ELSE [Pruned(client, p) EXCEPT ![p].rows = Unknown]

LayoutChanged ==
  /\ Message("LayoutChanged")
  /\ LET m     == Head(toClient)
         nodes == (IF m.parents = {} THEN {Root} ELSE m.parents) \cap DOMAIN client
     IN  client' = IF nodes = {} THEN client ELSE Forgotten(CHOOSE p \in nodes : TRUE, m.hint)
  /\ UNCHANGED <<server, toServer, barriers, headers, pending, unreset, fault>>

\* clear(): the barrier goes out at once, before requests collected earlier.
Reset ==
  /\ Message("Reset")
  /\ target' = target + 1
  /\ toServer' = Append(toServer, [type |-> "SyncBarrier", id |-> target + 1])
  /\ client' = NewRoot /\ headers' = << >>
  /\ UNCHANGED <<server, pending, current, unreset, fault>>

\* resetLoadingState(): replies may come for other rows than those asked for.
Loadless(node) == [node EXCEPT !.loading = FALSE, !.rows = IF @ < 0 THEN Unknown ELSE @]

\* Mutant of ResetLoadingState: starts with the row after.
ResetLoadingStateAfter ==
  /\ ~fault /\ unreset # {}
  /\ client' = [q \in DOMAIN client |->
                  IF \E u \in unreset : Below(u[1], q) /\ Row(u[1], q) > u[2]
                  THEN Loadless(client[q]) ELSE client[q]]
  /\ unreset' = {}
  /\ UNCHANGED <<server, toServer, toClient, barriers, headers, pending, fault>>

ResetLoadingState ==
  /\ ~fault /\ unreset # {}
  /\ client' = [q \in DOMAIN client |->
                  IF \E u \in unreset : Below(u[1], q) /\ Row(u[1], q) >= u[2]
                  THEN Loadless(client[q]) ELSE client[q]]
  /\ unreset' = {}
  /\ UNCHANGED <<server, toServer, toClient, barriers, headers, pending, fault>>

-----------------------------------------------------------------------------
Change == \/ InsertRows \/ RemoveRows \/ MoveRows \/ ChangeContent
          \/ ChangeHeader \/ ChangeLayout \/ ResetModel

NewRequest == RowColumnCountRequest \/ ContentRequest \/ HeaderRequest \/ BarrierRequest

NewMessage == \/ Ignored \/ BarrierReply \/ RowColumnCountReply \/ ContentReply
              \/ HeaderReply \/ ContentChanged \/ HeaderChanged \/ RowsAdded
              \/ RowsRemoved \/ RowsMoved \/ LayoutChanged \/ Reset

Next == \/ Change \/ NewRequest \/ NewMessage \/ ResetLoadingState
        \/ AskRowCount \/ AskContent \/ AskHeader \/ SendPending

Spec == Init /\ [][Next]_vars

\* The event loops of both sides run, a message handler runs to its end, and a view
\* goes on asking for the rows it shows.  The target need never change its model.
FairSpec ==
  /\ Spec
  /\ WF_vars(NewRequest) /\ WF_vars(NewMessage) /\ WF_vars(ResetLoadingState)
  /\ WF_vars(SendPending) /\ WF_vars(AskRowCount) /\ WF_vars(AskContent)

-----------------------------------------------------------------------------

Quiet == Settled /\ toClient = << >> /\ unreset = {} /\ ~fault

\* The copy is a tree: each node has as many children as it counts
\* (Q_ASSERT(parentNode->rowCount == parentNode->children.size()), remotemodel.cpp:854).
\* What it holds is what the model holds, as soon as all that the server told is heard:
\* no row is missing or too many, no value is another row's or an old one, whatever
\* changed while the request for it was under way.
Coherent ==
  /\ \A p \in DOMAIN client : Rows(client, p) = {RowAt(p, i) : i \in 0..(client[p].rows - 1)}
  /\ Quiet => \A p \in DOMAIN client :
       /\ client[p].rows >= 0 => p \in DOMAIN model /\ client[p].rows = RowCount(model, p)
       /\ ~client[p].outdated /\ p # Root => client[p].value = model[p].value

\* "Reset the loading state for all rows at startRow or later" (remotemodel.h:132):
\* nothing stays marked as being loaded once no request is left that could load it,
\* so a view can always ask again.
NoLostRequest ==
  Quiet /\ toServer = << >> /\ Flushed(pending) = << >> /\ HasModel =>
    \A p \in DOMAIN client : client[p].rows # Asked /\ ~client[p].loading

\* Once sized, the vertical headers are as many as the top level rows: every step keeps
\* them so, insertions, removals, moves and resets with headers under way included.  Only
\* a changed layout does not: it forgets the rows and keeps the headers.
HeadersMatchRows == headers # << >> => Len(headers) = client[Root].rows
HeadersKeepUp    == [][HeadersMatchRows /\ ~LayoutChanged => HeadersMatchRows']_vars

InSync ==
  /\ \A p \in DOMAIN client : client[p].rows = RowCount(model, p)
  /\ DOMAIN client = DOMAIN model
  /\ \A p \in DOMAIN client \ {Root} : ~client[p].outdated /\ client[p].value = model[p].value

\* Whatever the model does, a view that keeps asking ends up with all of it.
EventuallyInSync == <>[](InSync \/ fault \/ ~HasModel)
=============================================================================
