----------------------------- MODULE RemoteView -----------------------------
(***************************************************************************)
(* The live picture of a window: RemoteViewWidget in the client asks,      *)
(* RemoteViewServer in the probe decides when a new frame is due, and      *)
(* OpenGLScreenGrabber takes it in the render thread of the target.  A     *)
(* frame is due when the client shows the view, has displayed the frame    *)
(* before, the grabber is idle and the source has changed: four facts that *)
(* three threads learn of at different times.                              *)
(*                                                                         *)
(* What is shown is abstracted to a version number of the content and to   *)
(* the area a frame covers, "part" of the window or "all" of it.           *)
(***************************************************************************)
EXTENDS Integers, Sequences

CONSTANTS MaxChanges,     \* bound: changes of the content and of the window
          MaxUserOps,     \* bound: things done in the client
          MaxQueue,       \* bound: a rendering begins with fewer events posted
          CanSave,        \* whether the user saves images of the whole window
          CanReconnect    \* whether the connection may be lost and made again

ASSUME BoundsAssumption ==
  /\ MaxChanges \in Nat /\ MaxUserOps \in Nat /\ MaxQueue \in Nat \ {0}
  /\ CanSave \in BOOLEAN /\ CanReconnect \in BOOLEAN

VARIABLES
  srv,        \* RemoteViewServer
  grabbing,   \* OpenGLScreenGrabber: m_isGrabbing
  wanted,     \* OpenGLScreenGrabber: m_userViewport
  render,     \* the render thread: between two frames, or at one of its steps
  captured,   \* the content it synchronised last
  dirty,      \* the window has been told to update()
  content,    \* the content the target's main thread has made last
  mainQueue,  \* events posted from the render thread to the main thread
  toServer, toClient,
  connected,
  widget,     \* RemoteViewWidget
  userOps

serverVars == <<srv, grabbing, wanted, render, captured, dirty, content, mainQueue>>
clientVars == <<connected, widget, userOps>>
vars == <<serverVars, clientVars, toServer, toClient>>

Area   == {"part", "all"}
NoArea == "none"

\* QRectF::contains(): nothing contains, or is contained in, an empty rectangle.
Covers(a, v) == a = "all" \/ (a = v /\ a # NoArea)

NoFrame == [version |-> 0, area |-> NoArea]

-----------------------------------------------------------------------------
(* RemoteViewServer: every slot is an operator on its state. *)

NewServer ==
  [active |-> FALSE, sourceChanged |-> FALSE, clientReady |-> TRUE,
   grabberReady |-> TRUE, pendingReset |-> FALSE, pendingComplete |-> FALSE,
   timer |-> FALSE, viewport |-> NoArea, lastImage |-> NoArea]

CheckRequestUpdate(s) ==
  [s EXCEPT !.timer = @ \/ /\ s.active /\ s.sourceChanged
                           /\ s.clientReady /\ s.grabberReady]

SourceChanged(s) == CheckRequestUpdate([s EXCEPT !.sourceChanged = TRUE])

RequestCompleteFrame(s) ==
  IF s.pendingComplete THEN s ELSE SourceChanged([s EXCEPT !.pendingComplete = TRUE])

ClientViewUpdated(s) ==
  CheckRequestUpdate([s EXCEPT !.clientReady = TRUE,
                               !.sourceChanged = @ \/ s.pendingComplete])

\* Mutant of SetViewActive: the view waits for the source to change.
SetViewActiveOnly(s, active) ==
  LET t == [s EXCEPT !.pendingReset = FALSE, !.active = active,
                     !.clientReady = active, !.pendingComplete = FALSE]
  IN  IF active THEN CheckRequestUpdate(t) ELSE [t EXCEPT !.timer = FALSE]

SetViewActive(s, active) ==
  LET t == [s EXCEPT !.pendingReset = FALSE, !.active = active,
                     !.clientReady = active, !.pendingComplete = FALSE]
  IN  IF active THEN SourceChanged(t) ELSE [t EXCEPT !.timer = FALSE]

\* Nothing was transmitted yet: the requested rectangle is cut down to nothing.
SendUserViewport(s, area) ==
  LET t == [s EXCEPT !.viewport = area]
  IN  IF Covers(s.lastImage, area) THEN t ELSE SourceChanged(t)

SetGrabberReady(s, ready) ==
  IF s.grabberReady = ready THEN s
  ELSE CheckRequestUpdate([s EXCEPT !.grabberReady = ready])

SendFrame(s, f) ==
  [s EXCEPT !.clientReady = FALSE, !.lastImage = f.area,
            !.pendingComplete = @ /\ f.area # "all"]

\* An invalid rectangle stands for the whole window.
UserViewport(s) ==
  IF s.pendingComplete \/ s.viewport = NoArea THEN "all" ELSE s.viewport

-----------------------------------------------------------------------------
(* RemoteViewWidget. *)

NewWidget == [visible |-> FALSE, frame |-> NoFrame, viewport |-> "part",
              extra |-> TRUE, acks |-> 0, saving |-> FALSE]

Init ==
  /\ srv = NewServer
  /\ grabbing = FALSE /\ wanted = NoArea
  /\ render = "idle" /\ captured = 1 /\ dirty = FALSE /\ content = 1
  /\ mainQueue = <<>> /\ toServer = <<>> /\ toClient = <<>>
  /\ connected = FALSE /\ widget = NewWidget /\ userOps = 0

Emitted(msgs) == IF connected THEN toClient \o msgs ELSE toClient
Invoked(msgs) == IF connected THEN toServer \o msgs ELSE toServer

\* setViewActive() first tells the client of a reset it could not be told of before.
PendingReset(s) == IF s.pendingReset THEN <<[kind |-> "reset"]>> ELSE <<>>

ViewportMessage(v) == [kind |-> "sendUserViewport", area |-> v]
ActiveMessage(b)   == [kind |-> "setViewActive", active |-> b]

\* updateUserViewport(): a viewport that shows the whole frame is sent once only.
ShowsAll(w) == w.viewport = "all" /\ w.frame # NoFrame
ViewportSent(w) ==
  IF w.visible /\ (w.extra \/ ~ShowsAll(w)) THEN <<ViewportMessage(w.viewport)>> ELSE <<>>
UpdateUserViewport(w) ==
  IF w.visible THEN [w EXCEPT !.extra = ~ShowsAll(w)] ELSE w

-----------------------------------------------------------------------------
(* The target: its main thread, where the server lives. *)

\* The target draws something else, and schedules a rendering.
ChangeContent ==
  /\ content <= MaxChanges
  /\ content' = content + 1
  /\ dirty' = TRUE
  /\ UNCHANGED <<srv, grabbing, wanted, render, captured, mainQueue>>
  /\ UNCHANGED <<clientVars, toServer, toClient>>

\* Another window is selected: selectWindow() resets the view, recreateOverlay()
\* replaces the grabber.  What the old grabber has posted still arrives.  Deleting a
\* grabber the render thread is inside of is undefined and not modelled.
SelectWindow ==
  /\ content <= MaxChanges /\ render # "grabbed"
  /\ content' = content + 1
  /\ LET s == IF srv.active THEN srv ELSE [srv EXCEPT !.pendingReset = TRUE]
     IN  srv' = SetGrabberReady(s, TRUE)
  /\ toClient' = IF srv.active THEN Emitted(<<[kind |-> "reset"]>>) ELSE toClient
  /\ grabbing' = FALSE /\ wanted' = NoArea
  /\ render' = "idle" /\ dirty' = TRUE
  /\ UNCHANGED <<captured, mainQueue, clientVars, toServer>>

\* requestUpdateTimeout() and, by its signal, slotGrabWindow() and requestGrabWindow().
RequestUpdateTimeout ==
  /\ srv.timer
  /\ LET s == [srv EXCEPT !.timer = FALSE, !.sourceChanged = FALSE]
     IN  IF s.active /\ ~grabbing
         THEN /\ grabbing' = TRUE
              /\ wanted' = UserViewport(s)
              /\ srv' = SetGrabberReady(s, FALSE)
              /\ dirty' = TRUE
         ELSE /\ srv' = s
              /\ UNCHANGED <<grabbing, wanted, dirty>>
  /\ UNCHANGED <<render, captured, content, mainQueue, clientVars, toServer, toClient>>

\* The main thread handles what a grabber has emitted in the render thread.
HandleRenderEvent ==
  /\ mainQueue # <<>>
  /\ LET e == Head(mainQueue)
     IN  CASE e.kind = "sceneGrabbed" ->
                /\ srv' = SendFrame(srv, e.frame)
                /\ toClient' = Emitted(<<[kind |-> "frameUpdated", frame |-> e.frame]>>)
           [] e.kind = "grabberReady" ->
                srv' = SetGrabberReady(srv, TRUE) /\ UNCHANGED toClient
           [] e.kind = "sceneChanged" ->
                srv' = SourceChanged(srv) /\ UNCHANGED toClient
  /\ mainQueue' = Tail(mainQueue)
  /\ UNCHANGED <<grabbing, wanted, render, captured, dirty, content>>
  /\ UNCHANGED <<clientVars, toServer>>

ServerReceive ==
  /\ toServer # <<>>
  /\ LET m == Head(toServer)
     IN  CASE m.kind = "setViewActive" ->
                /\ srv' = SetViewActive(srv, m.active)
                /\ toClient' = Emitted(PendingReset(srv))
           [] m.kind = "sendUserViewport" ->
                srv' = SendUserViewport(srv, m.area) /\ UNCHANGED toClient
           [] m.kind = "clientViewUpdated" ->
                srv' = ClientViewUpdated(srv) /\ UNCHANGED toClient
           [] m.kind = "requestCompleteFrame" ->
                srv' = RequestCompleteFrame(srv) /\ UNCHANGED toClient
  /\ toServer' = Tail(toServer)
  /\ UNCHANGED <<grabbing, wanted, render, captured, dirty, content, mainQueue>>
  /\ UNCHANGED clientVars

-----------------------------------------------------------------------------
(* The render thread. *)

\* The main thread waits while the render thread copies what is to be shown.
Synchronize ==
  /\ render = "idle" /\ dirty /\ Len(mainQueue) < MaxQueue
  /\ render' = "synchronized"
  /\ captured' = content
  /\ dirty' = FALSE
  /\ UNCHANGED <<srv, grabbing, wanted, content, mainQueue>>
  /\ UNCHANGED <<clientVars, toServer, toClient>>

\* windowAfterRendering() up to where it gives the mutex back.
WindowAfterRendering ==
  /\ render = "synchronized"
  /\ IF grabbing
     THEN /\ render' = "grabbed"
          /\ mainQueue' = Append(mainQueue,
               [kind |-> "sceneGrabbed",
                frame |-> [version |-> captured, area |-> wanted]])
     ELSE /\ render' = "idle"
          /\ mainQueue' = Append(mainQueue, [kind |-> "sceneChanged"])
  /\ UNCHANGED <<srv, grabbing, wanted, captured, dirty, content>>
  /\ UNCHANGED <<clientVars, toServer, toClient>>

\* Mutant of EndGrabbing: only the start of a grab is announced.
EndGrabbingSilently ==
  /\ render = "grabbed"
  /\ render' = "idle"
  /\ grabbing' = FALSE /\ wanted' = NoArea
  /\ UNCHANGED <<srv, captured, dirty, content, mainQueue, clientVars, toServer, toClient>>

\* setGrabbingMode(false), once it has the mutex again.
EndGrabbing ==
  /\ render = "grabbed"
  /\ render' = "idle"
  /\ grabbing' = FALSE /\ wanted' = NoArea
  /\ mainQueue' = Append(mainQueue, [kind |-> "grabberReady"])
  /\ UNCHANGED <<srv, captured, dirty, content, clientVars, toServer, toClient>>

-----------------------------------------------------------------------------
(* The client. *)

UserOp == connected /\ userOps < MaxUserOps /\ userOps' = userOps + 1

Show ==
  /\ UserOp /\ ~widget.visible
  /\ LET w == [widget EXCEPT !.visible = TRUE]
     IN  /\ widget' = UpdateUserViewport(w)
         /\ toServer' = Invoked(<<ActiveMessage(TRUE)>> \o ViewportSent(w))
  /\ UNCHANGED <<serverVars, toClient, connected>>

Hide ==
  /\ UserOp /\ widget.visible
  /\ widget' = [widget EXCEPT !.visible = FALSE]
  /\ toServer' = Invoked(<<ActiveMessage(FALSE)>>)
  /\ UNCHANGED <<serverVars, toClient, connected>>

\* eventFilter(): the window of the widget is shown.
WindowShown ==
  /\ UserOp
  /\ toServer' = Invoked(<<ActiveMessage(widget.visible)>>)
  /\ UNCHANGED <<serverVars, toClient, connected, widget>>

\* Zooming or panning.
ChangeViewport ==
  /\ UserOp
  /\ \E v \in Area \ {widget.viewport} :
       LET w == [widget EXCEPT !.viewport = v]
       IN  /\ widget' = UpdateUserViewport(w)
           /\ toServer' = Invoked(ViewportSent(w))
  /\ UNCHANGED <<serverVars, toClient, connected>>

\* requestCompleteFrame() of QuickScenePreviewWidget, once at a time.
SaveAsImage ==
  /\ CanSave /\ UserOp
  /\ widget.frame # NoFrame /\ ~widget.saving
  /\ widget' = [widget EXCEPT !.saving = TRUE]
  /\ toServer' = Invoked(<<[kind |-> "requestCompleteFrame"]>>)
  /\ UNCHANGED <<serverVars, toClient, connected>>

\* The queued call frameUpdated() ends with.
Acknowledge ==
  /\ widget.acks > 0
  /\ widget' = [widget EXCEPT !.acks = @ - 1]
  /\ toServer' = Invoked(<<[kind |-> "clientViewUpdated"]>>)
  /\ UNCHANGED <<serverVars, toClient, connected, userOps>>

\* Mutant of FrameUpdated: the first frame, which may be the only one, is not answered.
FrameUpdatedFirst(f) ==
  LET w == [widget EXCEPT !.frame = f, !.saving = @ /\ f.area # "all"]
  IN  IF widget.frame # NoFrame
      THEN widget' = [w EXCEPT !.acks = @ + 1] /\ UNCHANGED toServer
      ELSE \E v \in Area :
             LET x == [w EXCEPT !.viewport = v]
             IN  /\ widget' = UpdateUserViewport(x)
                 /\ toServer' = Invoked(ViewportSent(x))

\* The first frame is fitted to the view, or centred in it; either moves the viewport.
FrameUpdated(f) ==
  LET w == [widget EXCEPT !.frame = f, !.acks = @ + 1,
                          !.saving = @ /\ f.area # "all"]
  IN  IF widget.frame # NoFrame
      THEN widget' = w /\ UNCHANGED toServer
      ELSE \E v \in Area :
             LET x == [w EXCEPT !.viewport = v]
             IN  /\ widget' = UpdateUserViewport(x)
                 /\ toServer' = Invoked(ViewportSent(x))

ClientReceive ==
  /\ toClient # <<>>
  /\ IF Head(toClient).kind = "frameUpdated"
     THEN FrameUpdated(Head(toClient).frame)
     ELSE widget' = [widget EXCEPT !.frame = NoFrame] /\ UNCHANGED toServer
  /\ toClient' = Tail(toClient)
  /\ UNCHANGED <<serverVars, connected, userOps>>

\* A client connects and sets its view up with setName().
Connect ==
  /\ ~connected
  /\ connected' = TRUE
  /\ widget' = NewWidget
  /\ toServer' = <<[kind |-> "clientViewUpdated"]>> /\ toClient' = <<>>
  /\ UNCHANGED <<serverVars, userOps>>

\* The server is not told: its view stays active.
Disconnect ==
  /\ CanReconnect /\ connected
  /\ connected' = FALSE
  /\ widget' = NewWidget
  /\ toServer' = <<>> /\ toClient' = <<>>
  /\ UNCHANGED <<serverVars, userOps>>

-----------------------------------------------------------------------------
Render == Synchronize \/ WindowAfterRendering \/ EndGrabbing

Next ==
  \/ ChangeContent \/ SelectWindow
  \/ RequestUpdateTimeout \/ HandleRenderEvent \/ ServerReceive
  \/ Synchronize \/ WindowAfterRendering \/ EndGrabbing
  \/ Show \/ Hide \/ WindowShown \/ ChangeViewport \/ SaveAsImage
  \/ Acknowledge \/ ClientReceive \/ Connect \/ Disconnect

Spec == Init /\ [][Next]_vars

\* A timer fires, posted events are handled, the window is rendered, and messages of a
\* connection are delivered.  Nobody has to change anything, or to connect.
FairSpec ==
  /\ Spec
  /\ WF_vars(RequestUpdateTimeout) /\ WF_vars(HandleRenderEvent) /\ WF_vars(ServerReceive)
  /\ WF_vars(Render)
  /\ WF_vars(Acknowledge) /\ WF_vars(ClientReceive)

-----------------------------------------------------------------------------
Kinds(q) == {q[i].kind : i \in DOMAIN q}

(* The wait for the grabber ends: while the server takes it for busy, it is grabbing, *)
(* or its word that it is ready again is on the way (setGrabberReady(),               *)
(* setGrabbingMode(), recreateOverlay()).                                             *)
GrabberComesBack ==
  ~srv.grabberReady => grabbing \/ "grabberReady" \in Kinds(mainQueue)

(* The wait for the client ends: while the server waits for a client to display the   *)
(* last frame, the frame, the answer or a new activation is on the way (sendFrame(),  *)
(* frameUpdated(), clientViewUpdated()).                                              *)
ClientComesBack ==
  connected /\ srv.active /\ ~srv.clientReady =>
    \/ "frameUpdated" \in Kinds(toClient)
    \/ widget.acks > 0
    \/ \E i \in DOMAIN toServer :
         toServer[i].kind \in {"clientViewUpdated", "setViewActive"}

(* A view that is shown shows, sooner or later, what the target shows, provided the   *)
(* server never takes a grabber at work for one that is ready: recreateOverlay() lets *)
(* it when what the replaced grabber has posted arrives at the wrong time, and a      *)
(* request made then is dropped (setGrabbingMode()).                                  *)
EventuallyShown ==
  [](grabbing => ~srv.grabberReady) =>
  []<>(connected /\ widget.visible => widget.frame.version = content)
=============================================================================
