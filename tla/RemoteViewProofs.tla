--------------------------- MODULE RemoteViewProofs ---------------------------
(***************************************************************************)
(* Proofs about RemoteView for every bound: the server waits neither for   *)
(* the grabber nor for a client without an answer on the way.              *)
(***************************************************************************)
EXTENDS RemoteView, SequenceTheorems, TLAPS

-----------------------------------------------------------------------------
(***************************************************************************)
(* The inductive invariant: what the properties need besides themselves is *)
(* which records the three threads and the two sides exchange.             *)
(***************************************************************************)

AreaOrNone == Area \cup {NoArea}
Frame      == [version : Nat, area : AreaOrNone]

Server ==
  [active : BOOLEAN, sourceChanged : BOOLEAN, clientReady : BOOLEAN, grabberReady : BOOLEAN,
   pendingReset : BOOLEAN, pendingComplete : BOOLEAN, timer : BOOLEAN,
   viewport : AreaOrNone, lastImage : AreaOrNone]

Widget == [visible : BOOLEAN, frame : Frame, viewport : Area, extra : BOOLEAN, acks : Nat,
           saving : BOOLEAN]

RenderEvent   == [kind : {"sceneGrabbed"}, frame : Frame]
                   \cup [kind : {"grabberReady", "sceneChanged"}]
ClientMessage == [kind : {"frameUpdated"}, frame : Frame] \cup [kind : {"reset"}]
ServerMessage == [kind : {"setViewActive"}, active : BOOLEAN]
                   \cup [kind : {"sendUserViewport"}, area : Area]
                   \cup [kind : {"clientViewUpdated", "requestCompleteFrame"}]

Types ==
  /\ srv \in Server
  /\ grabbing \in BOOLEAN /\ wanted \in AreaOrNone
  /\ render \in {"idle", "synchronized", "grabbed"}
  /\ captured \in Nat /\ dirty \in BOOLEAN /\ content \in Nat
  /\ mainQueue \in Seq(RenderEvent)
  /\ toServer \in Seq(ServerMessage) /\ toClient \in Seq(ClientMessage)
  /\ connected \in BOOLEAN /\ widget \in Widget /\ userOps \in Nat

Inv == Types /\ GrabberComesBack /\ ClientComesBack

\* A frame, an answer or an activation is on the way.
AnswerUnderWay ==
  \/ "frameUpdated" \in Kinds(toClient)
  \/ widget.acks > 0
  \/ \E i \in DOMAIN toServer : toServer[i].kind \in {"clientViewUpdated", "setViewActive"}

-----------------------------------------------------------------------------
(***************************************************************************)
(* Queues, and the slots of the server.                                    *)
(***************************************************************************)

\* What is in a queue behind its head stays, and the head goes.
LEMMA KindsTail ==
  ASSUME NEW S, NEW q \in Seq(S), q # <<>>
  PROVE  /\ Tail(q) \in Seq(S) /\ Head(q) \in S
         /\ Kinds(q) = Kinds(Tail(q)) \cup {Head(q).kind}
<1> DEFINE t == Tail(q)
<1>1. /\ t \in Seq(S) /\ Head(q) \in S
      /\ Head(q) = q[1] /\ 1 \in DOMAIN q
  OBVIOUS
<1>2. \A i \in DOMAIN t : i + 1 \in DOMAIN q /\ t[i] = q[i + 1]
  OBVIOUS
<1>3. \A i \in DOMAIN q : i = 1 \/ (i - 1 \in DOMAIN t /\ t[i - 1] = q[i])
  OBVIOUS
<1> HIDE DEF t
<1>4. Kinds(q) \subseteq Kinds(t) \cup {Head(q).kind}
  BY <1>1, <1>3 DEF Kinds
<1>5. Kinds(t) \cup {Head(q).kind} \subseteq Kinds(q)
  BY <1>1, <1>2 DEF Kinds
<1> QED
  BY <1>1, <1>4, <1>5 DEF t

LEMMA KindsAppend ==
  ASSUME NEW S, NEW q \in Seq(S), NEW e \in S
  PROVE  Append(q, e) \in Seq(S) /\ Kinds(Append(q, e)) = Kinds(q) \cup {e.kind}
<1>1. /\ Append(q, e) \in Seq(S) /\ DOMAIN q = 1..Len(q) /\ Len(q) \in Nat
      /\ DOMAIN Append(q, e) = DOMAIN q \cup {Len(q) + 1}
      /\ Append(q, e)[Len(q) + 1] = e
      /\ \A i \in DOMAIN q : Append(q, e)[i] = q[i]
  OBVIOUS
<1> QED
  BY <1>1 DEF Kinds

LEMMA KindsConcat ==
  ASSUME NEW S, NEW q \in Seq(S), NEW r \in Seq(S)
  PROVE  q \o r \in Seq(S) /\ Kinds(q \o r) = Kinds(q) \cup Kinds(r)
<1> DEFINE c == q \o r
<1>1. /\ c \in Seq(S)
      /\ DOMAIN q = 1..Len(q) /\ DOMAIN r = 1..Len(r) /\ Len(q) \in Nat /\ Len(r) \in Nat
      /\ DOMAIN c = 1..Len(q) + Len(r)
      /\ \A i \in 1..Len(q) + Len(r) : c[i] = IF i <= Len(q) THEN q[i] ELSE r[i - Len(q)]
  OBVIOUS
<1> HIDE DEF c
<1>2. \A i \in DOMAIN q : i \in DOMAIN c /\ c[i] = q[i]
  BY <1>1
<1>3. \A i \in DOMAIN r : Len(q) + i \in DOMAIN c /\ c[Len(q) + i] = r[i]
  BY <1>1
<1>4. \A i \in DOMAIN c : \/ i \in DOMAIN q /\ c[i] = q[i]
                          \/ i - Len(q) \in DOMAIN r /\ c[i] = r[i - Len(q)]
  BY <1>1
<1>5. Kinds(c) \subseteq Kinds(q) \cup Kinds(r)
  BY <1>4 DEF Kinds
<1>6. Kinds(q) \subseteq Kinds(c)
  BY <1>2 DEF Kinds
<1>7. Kinds(r) \subseteq Kinds(c)
  BY <1>3 DEF Kinds
<1> QED
  BY <1>1, <1>5, <1>6, <1>7 DEF c

LEMMA NoKinds == Kinds(<<>>) = {}
  BY DEF Kinds

LEMMA OneKind ==
  ASSUME NEW e
  PROVE  Kinds(<<e>>) = {e.kind}
  BY DEF Kinds

\* What is sent arrives behind what is under way, if there is a connection.
LEMMA EmittedKinds ==
  ASSUME toClient \in Seq(ClientMessage), NEW r \in Seq(ClientMessage)
  PROVE  /\ Emitted(r) \in Seq(ClientMessage) /\ Kinds(toClient) \subseteq Kinds(Emitted(r))
         /\ connected => Kinds(r) \subseteq Kinds(Emitted(r))
<1>1. toClient \o r \in Seq(ClientMessage) /\ Kinds(toClient \o r) = Kinds(toClient) \cup Kinds(r)
  BY KindsConcat
<1> QED
  BY <1>1 DEF Emitted

LEMMA InvokedKinds ==
  ASSUME toServer \in Seq(ServerMessage), NEW r \in Seq(ServerMessage)
  PROVE  /\ Invoked(r) \in Seq(ServerMessage) /\ Kinds(toServer) \subseteq Kinds(Invoked(r))
         /\ connected => Kinds(r) \subseteq Kinds(Invoked(r))
<1>1. toServer \o r \in Seq(ServerMessage) /\ Kinds(toServer \o r) = Kinds(toServer) \cup Kinds(r)
  BY KindsConcat
<1> QED
  BY <1>1 DEF Invoked

\* The slots keep the record, and these fields of it.
LEMMA CheckKeeps ==
  ASSUME NEW s \in Server
  PROVE  /\ CheckRequestUpdate(s) \in Server
         /\ CheckRequestUpdate(s).active = s.active
         /\ CheckRequestUpdate(s).clientReady = s.clientReady
         /\ CheckRequestUpdate(s).grabberReady = s.grabberReady
  BY DEF CheckRequestUpdate, Server

LEMMA SourceChangedKeeps ==
  ASSUME NEW s \in Server
  PROVE  /\ SourceChanged(s) \in Server
         /\ SourceChanged(s).active = s.active
         /\ SourceChanged(s).clientReady = s.clientReady
         /\ SourceChanged(s).grabberReady = s.grabberReady
<1> DEFINE t == [s EXCEPT !.sourceChanged = TRUE]
<1>1. /\ t \in Server /\ t.active = s.active /\ t.clientReady = s.clientReady
      /\ t.grabberReady = s.grabberReady
  BY DEF Server
<1> HIDE DEF t
<1>2. SourceChanged(s) = CheckRequestUpdate(t)
  BY DEF SourceChanged, t
<1> QED
  BY <1>1, <1>2, CheckKeeps

LEMMA RequestCompleteFrameKeeps ==
  ASSUME NEW s \in Server
  PROVE  /\ RequestCompleteFrame(s) \in Server
         /\ RequestCompleteFrame(s).active = s.active
         /\ RequestCompleteFrame(s).clientReady = s.clientReady
         /\ RequestCompleteFrame(s).grabberReady = s.grabberReady
<1> DEFINE t == [s EXCEPT !.pendingComplete = TRUE]
<1>1. /\ t \in Server /\ t.active = s.active /\ t.clientReady = s.clientReady
      /\ t.grabberReady = s.grabberReady
  BY DEF Server
<1> HIDE DEF t
<1>2. RequestCompleteFrame(s) \in {s, SourceChanged(t)}
  BY DEF RequestCompleteFrame, t
<1> QED
  BY <1>1, <1>2, SourceChangedKeeps

\* The client is ready.
LEMMA ClientViewUpdatedReady ==
  ASSUME NEW s \in Server
  PROVE  /\ ClientViewUpdated(s) \in Server /\ ClientViewUpdated(s).clientReady
         /\ ClientViewUpdated(s).grabberReady = s.grabberReady
<1> DEFINE t == [s EXCEPT !.clientReady = TRUE, !.sourceChanged = @ \/ s.pendingComplete]
<1>1. t \in Server /\ t.clientReady /\ t.grabberReady = s.grabberReady
  BY DEF Server
<1> HIDE DEF t
<1>2. ClientViewUpdated(s) = CheckRequestUpdate(t)
  BY DEF ClientViewUpdated, t
<1> QED
  BY <1>1, <1>2, CheckKeeps

\* An active view starts with a client that is ready.
LEMMA SetViewActiveReady ==
  ASSUME NEW s \in Server, NEW active \in BOOLEAN
  PROVE  /\ SetViewActive(s, active) \in Server
         /\ SetViewActive(s, active).active => SetViewActive(s, active).clientReady
         /\ SetViewActive(s, active).grabberReady = s.grabberReady
<1> DEFINE t == [s EXCEPT !.pendingReset = FALSE, !.active = active,
                          !.clientReady = active, !.pendingComplete = FALSE]
<1>1. /\ t \in Server /\ t.active = active /\ t.clientReady = active
      /\ t.grabberReady = s.grabberReady
  BY DEF Server
<1> HIDE DEF t
<1>2. SetViewActive(s, active) = IF active THEN SourceChanged(t) ELSE [t EXCEPT !.timer = FALSE]
  BY DEF SetViewActive, t
<1>3. /\ [t EXCEPT !.timer = FALSE] \in Server /\ [t EXCEPT !.timer = FALSE].active = active
      /\ [t EXCEPT !.timer = FALSE].grabberReady = s.grabberReady
  BY <1>1 DEF Server
<1> QED
  BY <1>1, <1>2, <1>3, SourceChangedKeeps

LEMMA SendUserViewportKeeps ==
  ASSUME NEW s \in Server, NEW area \in Area
  PROVE  /\ SendUserViewport(s, area) \in Server
         /\ SendUserViewport(s, area).active = s.active
         /\ SendUserViewport(s, area).clientReady = s.clientReady
         /\ SendUserViewport(s, area).grabberReady = s.grabberReady
<1> DEFINE t == [s EXCEPT !.viewport = area]
<1>1. /\ t \in Server /\ t.active = s.active /\ t.clientReady = s.clientReady
      /\ t.grabberReady = s.grabberReady
  BY DEF Server, AreaOrNone
<1> HIDE DEF t
<1>2. SendUserViewport(s, area) \in {t, SourceChanged(t)}
  BY DEF SendUserViewport, t
<1> QED
  BY <1>1, <1>2, SourceChangedKeeps

LEMMA SetGrabberReadySets ==
  ASSUME NEW s \in Server, NEW ready \in BOOLEAN
  PROVE  /\ SetGrabberReady(s, ready) \in Server
         /\ SetGrabberReady(s, ready).active = s.active
         /\ SetGrabberReady(s, ready).clientReady = s.clientReady
         /\ SetGrabberReady(s, ready).grabberReady = ready
<1> DEFINE t == [s EXCEPT !.grabberReady = ready]
<1>1. /\ t \in Server /\ t.active = s.active /\ t.clientReady = s.clientReady
      /\ t.grabberReady = ready
  BY DEF Server
<1> HIDE DEF t
<1>2. SetGrabberReady(s, ready) = IF s.grabberReady = ready THEN s ELSE CheckRequestUpdate(t)
  BY DEF SetGrabberReady, t
<1> QED
  BY <1>1, <1>2, CheckKeeps

LEMMA SendFrameKeeps ==
  ASSUME NEW s \in Server, NEW f \in Frame
  PROVE  /\ SendFrame(s, f) \in Server
         /\ SendFrame(s, f).active = s.active
         /\ SendFrame(s, f).grabberReady = s.grabberReady
  BY DEF SendFrame, Server, Frame

\* The messages the client sends.
LEMMA ViewportSentTyped ==
  ASSUME NEW w \in Widget
  PROVE  ViewportSent(w) \in Seq(ServerMessage) /\ UpdateUserViewport(w) \in Widget
         /\ UpdateUserViewport(w).acks = w.acks
<1>1. ViewportMessage(w.viewport) \in ServerMessage
  BY DEF ViewportMessage, ServerMessage, Widget
<1>2. ViewportSent(w) \in Seq(ServerMessage)
  BY <1>1 DEF ViewportSent
<1>3. UpdateUserViewport(w) \in Widget /\ UpdateUserViewport(w).acks = w.acks
  BY DEF UpdateUserViewport, Widget, ShowsAll
<1> QED
  BY <1>2, <1>3

\* AnswerUnderWay, by the kinds of messages.
LEMMA AnswerKinds ==
  AnswerUnderWay <=> \/ "frameUpdated" \in Kinds(toClient)
                     \/ widget.acks > 0
                     \/ "clientViewUpdated" \in Kinds(toServer)
                     \/ "setViewActive" \in Kinds(toServer)
  BY DEF AnswerUnderWay, Kinds

LEMMA ClientWaits ==
  ClientComesBack <=> (connected /\ srv.active /\ ~srv.clientReady => AnswerUnderWay)
  BY DEF ClientComesBack, AnswerUnderWay
-----------------------------------------------------------------------------
(***************************************************************************)
(* The steps, by the three parts of the invariant.                         *)
(***************************************************************************)

LEMMA InitTypes == Init => Types
<1> SUFFICES ASSUME Init PROVE Types
  OBVIOUS
<1>1. srv \in Server /\ widget \in Widget
  BY DEF Init, NewServer, Server, NewWidget, Widget, NoFrame, Frame, AreaOrNone, Area
<1>2. /\ mainQueue \in Seq(RenderEvent) /\ toServer \in Seq(ServerMessage)
      /\ toClient \in Seq(ClientMessage)
  BY DEF Init
<1> QED
  BY <1>1, <1>2 DEF Init, Types, AreaOrNone

LEMMA InitInv == Init => Inv
<1> SUFFICES ASSUME Init PROVE Inv
  OBVIOUS
<1>1. GrabberComesBack /\ ClientComesBack
  BY DEF Init, NewServer, GrabberComesBack, ClientComesBack
<1> QED
  BY <1>1, InitTypes DEF Inv

\* The viewport a grabber is asked for.
LEMMA UserViewportTyped ==
  ASSUME NEW s \in Server
  PROVE  UserViewport(s) \in AreaOrNone
  BY DEF UserViewport, Server, AreaOrNone, Area

LEMMA ChangeContentKeeps ==
  ASSUME Inv, ChangeContent
  PROVE  Inv'
<1>1. UNCHANGED <<srv, grabbing, mainQueue, connected, widget, toServer, toClient, wanted,
                  render, captured, userOps>>
      /\ dirty' = TRUE /\ content' = content + 1
  BY DEF ChangeContent, clientVars
<1>2. Types'
  BY <1>1 DEF Inv, Types
<1> QED
  BY <1>1, <1>2 DEF Inv, GrabberComesBack, ClientComesBack, Kinds

LEMMA SelectWindowKeeps ==
  ASSUME Inv, SelectWindow
  PROVE  Inv'
<1> DEFINE s == IF srv.active THEN srv ELSE [srv EXCEPT !.pendingReset = TRUE]
<1>1. /\ srv \in Server /\ toClient \in Seq(ClientMessage)
      /\ UNCHANGED <<captured, mainQueue, connected, widget, userOps, toServer>>
  BY DEF Inv, Types, SelectWindow, clientVars
<1>2. s \in Server /\ s.active = srv.active /\ s.clientReady = srv.clientReady
  BY <1>1 DEF Server
<1>3. srv' = SetGrabberReady(s, TRUE)
  BY DEF SelectWindow
<1> HIDE DEF s
<1>4. /\ srv' \in Server /\ srv'.active = srv.active /\ srv'.clientReady = srv.clientReady
      /\ srv'.grabberReady
  BY <1>2, <1>3, SetGrabberReadySets
<1> DEFINE r == <<[kind |-> "reset"]>>
<1>5. r \in Seq(ClientMessage)
  <2>1. [kind |-> "reset"] \in ClientMessage
    BY DEF ClientMessage
  <2> QED
    BY <2>1
<1>6. toClient' \in {toClient, Emitted(r)}
  BY DEF SelectWindow
<1> HIDE DEF r
<1>7. toClient' \in Seq(ClientMessage) /\ Kinds(toClient) \subseteq Kinds(toClient')
  BY <1>1, <1>5, <1>6, EmittedKinds
<1>8. Types'
  <2>1. /\ grabbing' \in BOOLEAN /\ wanted' \in AreaOrNone /\ content' \in Nat
        /\ render' \in {"idle", "synchronized", "grabbed"} /\ dirty' \in BOOLEAN
    <3>1. /\ grabbing' = FALSE /\ wanted' = NoArea /\ content' = content + 1
          /\ render' = "idle" /\ dirty' = TRUE
      BY DEF SelectWindow
    <3>2. content' \in Nat
      BY <3>1 DEF Inv, Types
    <3>3. wanted' \in AreaOrNone
      BY <3>1 DEF AreaOrNone
    <3> QED
      BY <3>1, <3>2, <3>3
  <2> QED
    BY <1>1, <1>4, <1>7, <2>1 DEF Inv, Types
<1>9. GrabberComesBack'
  BY <1>4 DEF GrabberComesBack
<1>10. ClientComesBack'
  BY <1>1, <1>4, <1>7 DEF Inv, ClientComesBack
<1> QED
  BY <1>8, <1>9, <1>10 DEF Inv

LEMMA RequestUpdateTimeoutKeeps ==
  ASSUME Inv, RequestUpdateTimeout
  PROVE  Inv'
<1> DEFINE s == [srv EXCEPT !.timer = FALSE, !.sourceChanged = FALSE]
<1>1. /\ srv \in Server
      /\ UNCHANGED <<render, captured, content, mainQueue, connected, widget, userOps, toServer,
                     toClient>>
  BY DEF Inv, Types, RequestUpdateTimeout, clientVars
<1>2. /\ s \in Server /\ s.active = srv.active /\ s.clientReady = srv.clientReady
      /\ s.grabberReady = srv.grabberReady
  BY <1>1 DEF Server
<1>3. \/ /\ grabbing' = TRUE /\ wanted' = UserViewport(s) /\ srv' = SetGrabberReady(s, FALSE)
         /\ dirty' = TRUE
      \/ srv' = s /\ UNCHANGED <<grabbing, wanted, dirty>>
  BY DEF RequestUpdateTimeout
<1> HIDE DEF s
<1>4. /\ srv' \in Server /\ srv'.active = srv.active /\ srv'.clientReady = srv.clientReady
      /\ grabbing' \/ (grabbing' = grabbing /\ srv'.grabberReady = srv.grabberReady)
      /\ wanted' \in AreaOrNone /\ grabbing' \in BOOLEAN /\ dirty' \in BOOLEAN
  BY <1>2, <1>3, SetGrabberReadySets, UserViewportTyped DEF Inv, Types
<1>5. Types'
  BY <1>1, <1>4 DEF Inv, Types
<1>6. GrabberComesBack' /\ ClientComesBack'
  BY <1>1, <1>4 DEF Inv, GrabberComesBack, ClientComesBack
<1> QED
  BY <1>5, <1>6 DEF Inv

LEMMA HandleRenderEventKeeps ==
  ASSUME Inv, HandleRenderEvent
  PROVE  Inv'
<1> DEFINE e == Head(mainQueue)
<1>1. /\ srv \in Server /\ mainQueue \in Seq(RenderEvent) /\ toClient \in Seq(ClientMessage)
      /\ connected \in BOOLEAN
      /\ UNCHANGED <<grabbing, wanted, render, captured, dirty, content, connected, widget,
                     userOps, toServer>>
      /\ mainQueue # <<>> /\ mainQueue' = Tail(mainQueue)
  BY DEF Inv, Types, HandleRenderEvent, clientVars
<1>2. /\ mainQueue' \in Seq(RenderEvent) /\ e \in RenderEvent
      /\ Kinds(mainQueue) = Kinds(mainQueue') \cup {e.kind}
  BY <1>1, KindsTail
<1>3. /\ e.kind \in {"sceneGrabbed", "grabberReady", "sceneChanged"}
      /\ e.kind = "sceneGrabbed" => e.frame \in Frame
  BY <1>2 DEF RenderEvent
<1>4. CASE e.kind = "sceneGrabbed"
  <2> DEFINE m == [kind |-> "frameUpdated", frame |-> e.frame]
  <2>1. srv' = SendFrame(srv, e.frame) /\ toClient' = Emitted(<<m>>)
    BY <1>4 DEF HandleRenderEvent
  <2>2. m \in ClientMessage /\ m.kind = "frameUpdated"
    BY <1>3, <1>4 DEF ClientMessage
  <2>3. srv' \in Server /\ srv'.grabberReady = srv.grabberReady
    BY <1>1, <1>3, <1>4, <2>1, SendFrameKeeps
  <2> HIDE DEF m, e
  <2> DEFINE r == <<m>>
  <2>4. r \in Seq(ClientMessage) /\ Kinds(r) = {"frameUpdated"}
    BY <2>2, OneKind
  <2> HIDE DEF r
  <2>5. toClient' \in Seq(ClientMessage) /\ (connected => "frameUpdated" \in Kinds(toClient'))
    <3>1. toClient' = Emitted(r)
      BY <2>1 DEF r
    <3> QED
      BY <1>1, <2>4, <3>1, EmittedKinds
  <2>6. Types'
    BY <1>1, <1>2, <2>3, <2>5 DEF Inv, Types
  <2>7. GrabberComesBack' /\ ClientComesBack'
    BY <1>1, <1>2, <1>4, <2>3, <2>5 DEF Inv, GrabberComesBack, ClientComesBack
  <2> QED
    BY <2>6, <2>7 DEF Inv
<1>5. CASE e.kind = "grabberReady"
  <2>1. srv' = SetGrabberReady(srv, TRUE) /\ UNCHANGED toClient
    BY <1>5 DEF HandleRenderEvent
  <2>2. /\ srv' \in Server /\ srv'.active = srv.active /\ srv'.clientReady = srv.clientReady
        /\ srv'.grabberReady
    BY <1>1, <2>1, SetGrabberReadySets
  <2>3. Types'
    BY <1>1, <1>2, <2>1, <2>2 DEF Inv, Types
  <2>4. GrabberComesBack' /\ ClientComesBack'
    BY <1>1, <2>1, <2>2 DEF Inv, GrabberComesBack, ClientComesBack
  <2> QED
    BY <2>3, <2>4 DEF Inv
<1>6. CASE e.kind = "sceneChanged"
  <2>1. srv' = SourceChanged(srv) /\ UNCHANGED toClient
    BY <1>6 DEF HandleRenderEvent
  <2>2. /\ srv' \in Server /\ srv'.active = srv.active /\ srv'.clientReady = srv.clientReady
        /\ srv'.grabberReady = srv.grabberReady
    BY <1>1, <2>1, SourceChangedKeeps
  <2>3. Types'
    BY <1>1, <1>2, <2>1, <2>2 DEF Inv, Types
  <2>4. GrabberComesBack' /\ ClientComesBack'
    BY <1>1, <1>2, <1>6, <2>1, <2>2 DEF Inv, GrabberComesBack, ClientComesBack
  <2> QED
    BY <2>3, <2>4 DEF Inv
<1> QED
  BY <1>3, <1>4, <1>5, <1>6

\* A message is handled: if it was what the server waited for, it waits no more.
LEMMA ServerReceiveKeeps ==
  ASSUME Inv, ServerReceive
  PROVE  Inv'
<1> DEFINE m == Head(toServer)
<1>1. /\ srv \in Server /\ toServer \in Seq(ServerMessage) /\ toClient \in Seq(ClientMessage)
      /\ UNCHANGED <<grabbing, wanted, render, captured, dirty, content, connected, widget,
                     userOps, mainQueue>>
      /\ toServer # <<>> /\ toServer' = Tail(toServer)
  BY DEF Inv, Types, ServerReceive, clientVars
<1>2. /\ toServer' \in Seq(ServerMessage) /\ m \in ServerMessage
      /\ Kinds(toServer) = Kinds(toServer') \cup {m.kind}
  BY <1>1, KindsTail
<1>3. /\ m.kind \in {"setViewActive", "sendUserViewport", "clientViewUpdated",
                     "requestCompleteFrame"}
      /\ m.kind = "setViewActive" => m.active \in BOOLEAN
      /\ m.kind = "sendUserViewport" => m.area \in Area
  BY <1>2 DEF ServerMessage
<1>4. toClient' \in Seq(ClientMessage) /\ Kinds(toClient) \subseteq Kinds(toClient')
  <2> DEFINE r == PendingReset(srv)
  <2>1. r \in Seq(ClientMessage)
    <3>1. [kind |-> "reset"] \in ClientMessage
      BY DEF ClientMessage
    <3>2. << >> \in Seq(ClientMessage) /\ <<[kind |-> "reset"]>> \in Seq(ClientMessage)
      BY <3>1
    <3> QED
      BY <3>2 DEF PendingReset
  <2>2. toClient' \in {toClient, Emitted(r)}
    BY <1>3 DEF ServerReceive
  <2> HIDE DEF r
  <2> QED
    BY <1>1, <2>1, <2>2, EmittedKinds
<1>5. /\ srv' \in Server /\ srv'.grabberReady = srv.grabberReady
      /\ \/ srv'.active => srv'.clientReady
         \/ /\ srv'.active = srv.active /\ srv'.clientReady = srv.clientReady
            /\ m.kind \notin {"clientViewUpdated", "setViewActive"}
  <2>1. CASE m.kind = "setViewActive"
    <3>1. srv' = SetViewActive(srv, m.active)
      BY <2>1 DEF ServerReceive
    <3> HIDE DEF m
    <3> QED
      BY <1>1, <1>3, <2>1, <3>1, SetViewActiveReady
  <2>2. CASE m.kind = "sendUserViewport"
    <3>1. srv' = SendUserViewport(srv, m.area)
      BY <2>2 DEF ServerReceive
    <3> HIDE DEF m
    <3> QED
      BY <1>1, <1>3, <2>2, <3>1, SendUserViewportKeeps
  <2>3. CASE m.kind = "clientViewUpdated"
    <3>1. srv' = ClientViewUpdated(srv)
      BY <2>3 DEF ServerReceive
    <3> QED
      BY <1>1, <3>1, ClientViewUpdatedReady
  <2>4. CASE m.kind = "requestCompleteFrame"
    <3>1. srv' = RequestCompleteFrame(srv)
      BY <2>4 DEF ServerReceive
    <3> HIDE DEF m
    <3> QED
      BY <1>1, <2>4, <3>1, RequestCompleteFrameKeeps
  <2> QED
    BY <1>3, <2>1, <2>2, <2>3, <2>4
<1> HIDE DEF m
<1>6. Types'
  BY <1>1, <1>2, <1>4, <1>5 DEF Inv, Types
<1>7. GrabberComesBack'
  BY <1>1, <1>5 DEF Inv, GrabberComesBack
<1>8. ClientComesBack'
  <2>1. CASE srv'.active => srv'.clientReady
    BY <2>1 DEF ClientComesBack
  <2>2. CASE /\ srv'.active = srv.active /\ srv'.clientReady = srv.clientReady
             /\ m.kind \notin {"clientViewUpdated", "setViewActive"}
    <3>1. AnswerUnderWay => AnswerUnderWay'
      <4>1. AnswerUnderWay' <=> \/ "frameUpdated" \in Kinds(toClient')
                                \/ widget'.acks > 0
                                \/ "clientViewUpdated" \in Kinds(toServer')
                                \/ "setViewActive" \in Kinds(toServer')
        BY DEF AnswerUnderWay, Kinds
      <4> QED
        BY <1>1, <1>2, <1>4, <2>2, <4>1, AnswerKinds
    <3>2. ClientComesBack' <=> (connected' /\ srv'.active /\ ~srv'.clientReady => AnswerUnderWay')
      BY DEF ClientComesBack, AnswerUnderWay
    <3> QED
      BY <1>1, <2>2, <3>1, <3>2, ClientWaits DEF Inv
  <2> QED
    BY <1>5, <2>1, <2>2
<1> QED
  BY <1>6, <1>7, <1>8 DEF Inv

\* The render thread posts what the main thread waits for.
LEMMA RenderKeeps ==
  ASSUME Inv, Render
  PROVE  Inv'
<1>1. /\ mainQueue \in Seq(RenderEvent) /\ captured \in Nat /\ wanted \in AreaOrNone
      /\ content \in Nat /\ grabbing \in BOOLEAN
      /\ UNCHANGED <<srv, content, connected, widget, userOps, toServer, toClient>>
  BY DEF Inv, Types, Render, Synchronize, WindowAfterRendering, EndGrabbing, clientVars
<1>2. /\ captured' \in Nat /\ dirty' \in BOOLEAN /\ wanted' \in AreaOrNone
      /\ render' \in {"idle", "synchronized", "grabbed"} /\ grabbing' \in BOOLEAN
  BY <1>1 DEF Inv, Types, Render, Synchronize, WindowAfterRendering, EndGrabbing, AreaOrNone
<1>3. PICK e \in RenderEvent :
        /\ mainQueue' \in {mainQueue, Append(mainQueue, e)}
        /\ grabbing /\ ~grabbing' => mainQueue' = Append(mainQueue, e) /\ e.kind = "grabberReady"
  <2>1. [kind |-> "grabberReady"] \in RenderEvent
    BY DEF RenderEvent
  <2>2. CASE Synchronize
    BY <2>1, <2>2 DEF Synchronize
  <2>3. CASE WindowAfterRendering
    <3>1. [kind |-> "sceneGrabbed", frame |-> [version |-> captured, area |-> wanted]]
            \in RenderEvent
      BY <1>1 DEF RenderEvent, Frame
    <3>2. [kind |-> "sceneChanged"] \in RenderEvent
      BY DEF RenderEvent
    <3>3. grabbing' = grabbing
      BY <2>3 DEF WindowAfterRendering
    <3> QED
      BY <2>3, <3>1, <3>2, <3>3 DEF WindowAfterRendering
  <2>4. CASE EndGrabbing
    BY <2>1, <2>4 DEF EndGrabbing
  <2> QED
    BY <2>2, <2>3, <2>4 DEF Render
<1>4. /\ Append(mainQueue, e) \in Seq(RenderEvent)
      /\ Kinds(Append(mainQueue, e)) = Kinds(mainQueue) \cup {e.kind}
  BY <1>1, KindsAppend
<1>5. mainQueue' \in Seq(RenderEvent) /\ Kinds(mainQueue) \subseteq Kinds(mainQueue')
  BY <1>1, <1>3, <1>4
<1>6. Types'
  BY <1>1, <1>2, <1>5 DEF Inv, Types
<1>7. GrabberComesBack'
  BY <1>1, <1>2, <1>3, <1>4, <1>5 DEF Inv, GrabberComesBack
<1>8. ClientComesBack'
  BY <1>1 DEF Inv, ClientComesBack
<1> QED
  BY <1>6, <1>7, <1>8 DEF Inv

\* A step of the client that leaves what is under way there, or puts an answer there.
LEMMA ClientKeeps ==
  ASSUME Inv, UNCHANGED serverVars, connected' \in BOOLEAN, widget' \in Widget, userOps' \in Nat,
         toServer' \in Seq(ServerMessage), toClient' \in Seq(ClientMessage),
         connected' => \/ connected /\ (AnswerUnderWay => AnswerUnderWay')
                       \/ AnswerUnderWay'
  PROVE  Inv'
<1>1. UNCHANGED <<srv, grabbing, wanted, render, captured, dirty, content, mainQueue>>
  BY DEF serverVars
<1>2. Types' /\ GrabberComesBack'
  BY <1>1 DEF Inv, Types, GrabberComesBack
<1>3. ClientComesBack' <=> (connected' /\ srv'.active /\ ~srv'.clientReady => AnswerUnderWay')
  BY DEF ClientComesBack, AnswerUnderWay
<1>4. ClientComesBack'
  BY <1>1, <1>3, ClientWaits DEF Inv
<1> QED
  BY <1>2, <1>4 DEF Inv

\* The same with messages sent, and no answer fewer to come.
LEMMA ClientSends ==
  ASSUME Inv, UNCHANGED serverVars, UNCHANGED connected, NEW w \in Widget, widget' = w,
         userOps' \in Nat, NEW r \in Seq(ServerMessage), toServer' = Invoked(r),
         UNCHANGED toClient, w.acks >= widget.acks
  PROVE  Inv'
<1>1. /\ toServer \in Seq(ServerMessage) /\ toClient \in Seq(ClientMessage)
      /\ connected \in BOOLEAN /\ widget.acks \in Nat /\ w.acks \in Nat
  BY DEF Inv, Types, Widget
<1>2. toServer' \in Seq(ServerMessage) /\ Kinds(toServer) \subseteq Kinds(toServer')
  BY <1>1, InvokedKinds
<1>3. AnswerUnderWay' <=> \/ "frameUpdated" \in Kinds(toClient')
                          \/ widget'.acks > 0
                          \/ "clientViewUpdated" \in Kinds(toServer')
                          \/ "setViewActive" \in Kinds(toServer')
  BY DEF AnswerUnderWay, Kinds
<1>4. AnswerUnderWay => AnswerUnderWay'
  BY <1>1, <1>2, <1>3, AnswerKinds
<1> QED
  BY <1>1, <1>2, <1>4, ClientKeeps

\* A call with what is sent of the viewport.
LEMMA MessagesTyped ==
  /\ \A b \in BOOLEAN : <<ActiveMessage(b)>> \in Seq(ServerMessage)
  /\ <<[kind |-> "requestCompleteFrame"]>> \in Seq(ServerMessage)
  /\ <<[kind |-> "clientViewUpdated"]>> \in Seq(ServerMessage)
<1>1. /\ \A b \in BOOLEAN : ActiveMessage(b) \in ServerMessage
      /\ [kind |-> "requestCompleteFrame"] \in ServerMessage
      /\ [kind |-> "clientViewUpdated"] \in ServerMessage
  BY DEF ActiveMessage, ServerMessage
<1> QED
  BY <1>1

\* What the user does.
LEMMA UserKeeps ==
  ASSUME Inv, Show \/ Hide \/ WindowShown \/ ChangeViewport \/ SaveAsImage
  PROVE  Inv'
<1>1. /\ UNCHANGED serverVars /\ UNCHANGED <<connected, toClient>> /\ userOps' \in Nat
      /\ widget \in Widget /\ widget.acks \in Nat /\ widget.visible \in BOOLEAN
  BY DEF Inv, Types, Widget, Show, Hide, WindowShown, ChangeViewport, SaveAsImage, UserOp
<1>2. CASE Show
  <2> DEFINE w == [widget EXCEPT !.visible = TRUE]
             a == <<ActiveMessage(TRUE)>>
             r == a \o ViewportSent(w)
  <2>1. w \in Widget /\ w.acks = widget.acks
    BY <1>1 DEF Widget
  <2>2. widget' = UpdateUserViewport(w) /\ toServer' = Invoked(r)
    BY <1>2 DEF Show
  <2>3. a \in Seq(ServerMessage)
    BY MessagesTyped
  <2> HIDE DEF w, a
  <2>4. /\ UpdateUserViewport(w) \in Widget /\ UpdateUserViewport(w).acks = widget.acks
        /\ ViewportSent(w) \in Seq(ServerMessage)
    BY <2>1, ViewportSentTyped
  <2>5. r \in Seq(ServerMessage)
    BY <2>3, <2>4
  <2> HIDE DEF r
  <2> QED
    BY <1>1, <2>2, <2>4, <2>5, ClientSends
<1>3. CASE Hide
  <2> DEFINE w == [widget EXCEPT !.visible = FALSE]
             r == <<ActiveMessage(FALSE)>>
  <2>1. w \in Widget /\ w.acks = widget.acks
    BY <1>1 DEF Widget
  <2>2. widget' = w /\ toServer' = Invoked(r)
    BY <1>3 DEF Hide
  <2>3. r \in Seq(ServerMessage)
    BY MessagesTyped
  <2> HIDE DEF w, r
  <2> QED
    BY <1>1, <2>1, <2>2, <2>3, ClientSends
<1>4. CASE WindowShown
  <2> DEFINE r == <<ActiveMessage(widget.visible)>>
  <2>1. widget' = widget /\ toServer' = Invoked(r)
    BY <1>4 DEF WindowShown
  <2>2. r \in Seq(ServerMessage)
    BY <1>1, MessagesTyped
  <2> HIDE DEF r
  <2> QED
    BY <1>1, <2>1, <2>2, ClientSends
<1>5. CASE ChangeViewport
  <2>1. PICK v \in Area :
          LET w == [widget EXCEPT !.viewport = v]
          IN  widget' = UpdateUserViewport(w) /\ toServer' = Invoked(ViewportSent(w))
    BY <1>5 DEF ChangeViewport
  <2> DEFINE w == [widget EXCEPT !.viewport = v]
  <2>2. w \in Widget /\ w.acks = widget.acks
    BY <1>1 DEF Widget
  <2>3. widget' = UpdateUserViewport(w) /\ toServer' = Invoked(ViewportSent(w))
    BY <2>1
  <2> HIDE DEF w
  <2>4. /\ UpdateUserViewport(w) \in Widget /\ UpdateUserViewport(w).acks = widget.acks
        /\ ViewportSent(w) \in Seq(ServerMessage)
    BY <2>2, ViewportSentTyped
  <2> QED
    BY <1>1, <2>3, <2>4, ClientSends
<1>6. CASE SaveAsImage
  <2> DEFINE w == [widget EXCEPT !.saving = TRUE]
             r == <<[kind |-> "requestCompleteFrame"]>>
  <2>1. w \in Widget /\ w.acks = widget.acks
    BY <1>1 DEF Widget
  <2>2. widget' = w /\ toServer' = Invoked(r)
    BY <1>6 DEF SaveAsImage
  <2>3. r \in Seq(ServerMessage)
    BY MessagesTyped
  <2> HIDE DEF w, r
  <2> QED
    BY <1>1, <2>1, <2>2, <2>3, ClientSends
<1> QED
  BY <1>2, <1>3, <1>4, <1>5, <1>6

\* The queued answer takes the place of the frame.
LEMMA AcknowledgeKeeps ==
  ASSUME Inv, Acknowledge
  PROVE  Inv'
<1> DEFINE w == [widget EXCEPT !.acks = @ - 1]
           r == <<[kind |-> "clientViewUpdated"]>>
<1>1. /\ UNCHANGED serverVars /\ UNCHANGED <<connected, toClient, userOps>>
      /\ widget' = w /\ toServer' = Invoked(r)
      /\ widget \in Widget /\ widget.acks > 0 /\ toServer \in Seq(ServerMessage)
      /\ toClient \in Seq(ClientMessage) /\ connected \in BOOLEAN /\ userOps \in Nat
  BY DEF Inv, Types, Acknowledge
<1>2. w \in Widget
  <2>1. widget.acks \in Nat /\ widget.acks - 1 \in Nat
    BY <1>1 DEF Widget
  <2> QED
    BY <1>1, <2>1 DEF Widget
<1>3. r \in Seq(ServerMessage) /\ Kinds(r) = {"clientViewUpdated"}
  BY MessagesTyped, OneKind
<1> HIDE DEF w, r
<1>4. /\ toServer' \in Seq(ServerMessage)
      /\ connected => "clientViewUpdated" \in Kinds(toServer')
  BY <1>1, <1>3, InvokedKinds
<1>5. connected => AnswerUnderWay'
  BY <1>4 DEF AnswerUnderWay, Kinds
<1> QED
  BY <1>1, <1>2, <1>4, <1>5, ClientKeeps

\* A frame that arrives leaves an answer to be given.
LEMMA ClientReceiveKeeps ==
  ASSUME Inv, ClientReceive
  PROVE  Inv'
<1> DEFINE m == Head(toClient)
<1>1. /\ toClient # <<>> /\ toClient' = Tail(toClient) /\ toClient \in Seq(ClientMessage)
      /\ UNCHANGED serverVars /\ UNCHANGED <<connected, userOps>>
      /\ widget \in Widget /\ toServer \in Seq(ServerMessage)
      /\ connected \in BOOLEAN /\ userOps \in Nat
  BY DEF Inv, Types, ClientReceive
<1>2. /\ toClient' \in Seq(ClientMessage) /\ m \in ClientMessage
      /\ Kinds(toClient) = Kinds(toClient') \cup {m.kind}
  BY <1>1, KindsTail
<1>3. CASE m.kind = "frameUpdated"
  <2>1. m.frame \in Frame /\ FrameUpdated(m.frame)
    BY <1>2, <1>3 DEF ClientMessage, ClientReceive
  <2> DEFINE f == m.frame
             w == [widget EXCEPT !.frame = f, !.acks = @ + 1, !.saving = @ /\ f.area # "all"]
  <2>2. w \in Widget /\ w.acks \in Nat \ {0}
    <3> DEFINE saving == widget.saving /\ f.area # "all"
    <3>1. widget.acks \in Nat /\ widget.acks + 1 \in Nat \ {0} /\ saving \in BOOLEAN
      BY <1>1 DEF Widget
    <3>2. w = [widget EXCEPT !.frame = f, !.acks = widget.acks + 1, !.saving = saving]
      BY <1>1 DEF Widget
    <3> HIDE DEF saving, f, w
    <3> QED
      BY <1>1, <2>1, <3>1, <3>2 DEF Widget, f
  <2>3. /\ widget' \in Widget /\ widget'.acks > 0 /\ toServer' \in Seq(ServerMessage)
    <3>1. CASE widget.frame # NoFrame
      <4>1. widget' = w /\ UNCHANGED toServer
        BY <2>1, <3>1 DEF FrameUpdated
      <4> HIDE DEF w
      <4> QED
        BY <1>1, <2>2, <4>1
    <3>2. CASE widget.frame = NoFrame
      <4>1. PICK v \in Area :
              LET x == [w EXCEPT !.viewport = v]
              IN  widget' = UpdateUserViewport(x) /\ toServer' = Invoked(ViewportSent(x))
        BY <2>1, <3>2 DEF FrameUpdated
      <4> DEFINE x == [w EXCEPT !.viewport = v]
      <4>2. widget' = UpdateUserViewport(x) /\ toServer' = Invoked(ViewportSent(x))
        BY <4>1
      <4> HIDE DEF w
      <4>3. x \in Widget /\ x.acks = w.acks
        BY <2>2 DEF Widget
      <4> HIDE DEF x
      <4>4. /\ UpdateUserViewport(x) \in Widget /\ UpdateUserViewport(x).acks = w.acks
            /\ ViewportSent(x) \in Seq(ServerMessage)
        BY <4>3, ViewportSentTyped
      <4>5. Invoked(ViewportSent(x)) \in Seq(ServerMessage)
        BY <1>1, <4>4, InvokedKinds
      <4> QED
        BY <2>2, <4>2, <4>4, <4>5
    <3> QED
      BY <3>1, <3>2
  <2>4. AnswerUnderWay'
    BY <2>3 DEF AnswerUnderWay
  <2> QED
    BY <1>1, <1>2, <2>3, <2>4, ClientKeeps
<1>4. CASE m.kind # "frameUpdated"
  <2> DEFINE w == [widget EXCEPT !.frame = NoFrame]
  <2>1. widget' = w /\ UNCHANGED toServer
    BY <1>4 DEF ClientReceive
  <2>2. w \in Widget /\ w.acks = widget.acks
    BY <1>1 DEF Widget, NoFrame, Frame, AreaOrNone
  <2> HIDE DEF w, m
  <2>3. AnswerUnderWay' <=> \/ "frameUpdated" \in Kinds(toClient')
                            \/ widget'.acks > 0
                            \/ "clientViewUpdated" \in Kinds(toServer')
                            \/ "setViewActive" \in Kinds(toServer')
    BY DEF AnswerUnderWay, Kinds
  <2>4. AnswerUnderWay => AnswerUnderWay'
    BY <1>2, <1>4, <2>1, <2>2, <2>3, AnswerKinds
  <2> QED
    BY <1>1, <1>2, <2>1, <2>2, <2>4, ClientKeeps
<1> QED
  BY <1>3, <1>4

\* A new client says that it is ready, whatever the last one has left open.
LEMMA ConnectionKeeps ==
  ASSUME Inv, Connect \/ Disconnect
  PROVE  Inv'
<1>1. /\ UNCHANGED serverVars /\ UNCHANGED userOps /\ userOps \in Nat
      /\ widget' = NewWidget /\ connected' \in BOOLEAN /\ toClient' = <<>>
      /\ toServer' = IF connected' THEN <<[kind |-> "clientViewUpdated"]>> ELSE <<>>
  BY DEF Inv, Types, Connect, Disconnect
<1>2. widget' \in Widget
  BY <1>1 DEF NewWidget, Widget, NoFrame, Frame, AreaOrNone, Area
<1>3. toServer' \in Seq(ServerMessage) /\ toClient' \in Seq(ClientMessage)
  BY <1>1, MessagesTyped
<1>4. connected' => "clientViewUpdated" \in Kinds(toServer')
  BY <1>1, OneKind
<1>5. connected' => AnswerUnderWay'
  BY <1>4 DEF AnswerUnderWay, Kinds
<1> QED
  BY <1>1, <1>2, <1>3, <1>5, ClientKeeps

LEMMA InvStep ==
  ASSUME Inv, [Next]_vars
  PROVE  Inv'
<1>1. CASE ChangeContent
  BY <1>1, ChangeContentKeeps
<1>2. CASE SelectWindow
  BY <1>2, SelectWindowKeeps
<1>3. CASE RequestUpdateTimeout
  BY <1>3, RequestUpdateTimeoutKeeps
<1>4. CASE HandleRenderEvent
  BY <1>4, HandleRenderEventKeeps
<1>5. CASE ServerReceive
  BY <1>5, ServerReceiveKeeps
<1>6. CASE Synchronize \/ WindowAfterRendering \/ EndGrabbing
  BY <1>6, RenderKeeps DEF Render
<1>7. CASE Show \/ Hide \/ WindowShown \/ ChangeViewport \/ SaveAsImage
  BY <1>7, UserKeeps
<1>8. CASE Acknowledge
  BY <1>8, AcknowledgeKeeps
<1>9. CASE ClientReceive
  BY <1>9, ClientReceiveKeeps
<1>10. CASE Connect \/ Disconnect
  BY <1>10, ConnectionKeeps
<1>11. CASE UNCHANGED vars
  BY <1>11 DEF vars, serverVars, clientVars, Inv, Types, GrabberComesBack, ClientComesBack
<1> QED
  BY <1>1, <1>2, <1>3, <1>4, <1>5, <1>6, <1>7, <1>8, <1>9, <1>10, <1>11 DEF Next

(* The records the three threads and the two sides of the view exchange, and the two  *)
(* waits of the server, in every state.                                               *)
THEOREM Invariance == Spec => []Inv
<1> QED
  BY InitInv, InvStep, PTL DEF Spec

(* While the server takes the grabber for busy, it is grabbing or its word that it is *)
(* ready is posted, through every replacement of a grabber (setGrabberReady(),        *)
(* setGrabbingMode(), recreateOverlay()).                                             *)
THEOREM GrabberComesBackAlways == Spec => []GrabberComesBack
<1>1. Inv => GrabberComesBack
  BY DEF Inv
<1> QED
  BY <1>1, Invariance, PTL

(* While the server waits for a client that is connected, a frame, the answer to one, *)
(* or an activation is under way, through every loss of the connection (sendFrame(),  *)
(* frameUpdated(), clientViewUpdated()).                                              *)
THEOREM ClientComesBackAlways == Spec => []ClientComesBack
<1>1. Inv => ClientComesBack
  BY DEF Inv
<1> QED
  BY <1>1, Invariance, PTL

=============================================================================
