---------------------------- MODULE LaunchProofs ----------------------------
(***************************************************************************)
(* Proofs about Launch, for any set of programs the probe gets into.       *)
(*                                                                         *)
(* LauncherInv is about the launcher with its injector and client: once    *)
(* checkDone() has seen a failure the exit code is not 0 and the client is *)
(* terminated, whatever arrives afterwards.  ProbeInv is about the two     *)
(* threads of a probe: the receiver begins while the main thread waits or  *)
(* is about to, which the mutex guarantees, and no call of the receiver    *)
(* comes before the one that connects it.                                  *)
(***************************************************************************)
EXTENDS Launch, TLAPS

LauncherRecord ==
  [phase : Phases, state : SUBSET {"finished", "failed", "client"},
   error : BOOLEAN, exitCode : {0, 1}, timer : BOOLEAN, address : BOOLEAN,
   quit : BOOLEAN, result : {0, 1}, socket : Probe \cup {None}, status : {0, 1}]

InjectorRecord ==
  [process : {"none", "running", "detached", "ended"}, error : BOOLEAN,
   exitCode : {0, 1}, posted : {0, 1}]

LauncherInv ==
  /\ options \in Options
  /\ launcher \in LauncherRecord /\ injector \in InjectorRecord
  /\ client \in {"none", "running", "terminated", "ended"}
  /\ target \in {"none", "running", "ended"}
  /\ injector.process # "ended" => injector.posted = 0
  /\ launcher.phase = "new" =>
       client = "none" /\ injector.process = "none" /\ launcher.state = {}
  /\ "failed" \in launcher.state => launcher.exitCode # 0
  /\ NoClientAfterFailure
  /\ StatusTells

(* exit() changes the verdict of the event loop and nothing else.                      *)
LEMMA ExitWithKeeps ==
  ASSUME NEW l \in LauncherRecord, NEW r \in {0, 1}
  PROVE  /\ ExitWith(l, r) \in LauncherRecord
         /\ ExitWith(l, r).state = l.state /\ ExitWith(l, r).phase = l.phase
         /\ ExitWith(l, r).status = l.status /\ ExitWith(l, r).exitCode = l.exitCode
<1>1. CASE l.phase = "running"
  <2>1. ExitWith(l, r) = [l EXCEPT !.quit = TRUE, !.result = r]
    BY <1>1 DEF ExitWith
  <2> QED
    BY <2>1 DEF LauncherRecord
<1>2. CASE l.phase # "running"
  BY <1>2 DEF ExitWith
<1> QED
  BY <1>1, <1>2

(* checkDone() keeps the type, and after a failure the exit code tells of it.          *)
LEMMA CheckDoneKeeps ==
  ASSUME NEW l \in LauncherRecord
  PROVE  /\ CheckDone(l) \in LauncherRecord
         /\ CheckDone(l).state = l.state /\ CheckDone(l).phase = l.phase
         /\ CheckDone(l).status = l.status
         /\ "failed" \in l.state => CheckDone(l).exitCode # 0
<1>1. CASE l.state \in {{"finished"}, {"finished", "client"}}
  <2>1. CheckDone(l) = ExitWith(l, 0)
    BY <1>1 DEF CheckDone, Finished
  <2>2. "failed" \notin l.state
    BY <1>1
  <2> QED
    BY <2>1, <2>2, ExitWithKeeps
<1>2. CASE l.state \notin {{"finished"}, {"finished", "client"}} /\ "failed" \in l.state
  <2> DEFINE m == [l EXCEPT !.exitCode = IF @ = 0 THEN 1 ELSE @]
  <2>1. CheckDone(l) = ExitWith(m, 0)
    BY <1>2 DEF CheckDone, Finished
  <2>2. /\ m \in LauncherRecord /\ m.exitCode = 1
        /\ m.state = l.state /\ m.phase = l.phase /\ m.status = l.status
    BY DEF LauncherRecord
  <2> HIDE DEF m
  <2> QED
    BY <2>1, <2>2, ExitWithKeeps
<1>3. CASE l.state \notin {{"finished"}, {"finished", "client"}} /\ "failed" \notin l.state
  BY <1>3 DEF CheckDone
<1> QED
  BY <1>1, <1>2, <1>3

(* A client is not left running by a launcher that has failed.                         *)
LEMMA TerminatedKeeps ==
  ASSUME NEW l, NEW c \in {"none", "running", "terminated", "ended"}
  PROVE  /\ Terminated(l, c) \in {"none", "running", "terminated", "ended"}
         /\ "failed" \in l.state => Terminated(l, c) # "running"
         /\ c # "running" => Terminated(l, c) = c
  BY DEF Terminated

LEMMA LauncherInit == Init => LauncherInv
  BY DEF Init, LauncherInv, LauncherRecord, InjectorRecord, NoClientAfterFailure,
         StatusTells, Phases, None

(* What the launcher handles keeps LauncherInv.                                        *)
LEMMA LauncherHandles ==
  ASSUME LauncherInv,
         StartFailed \/ Start \/ InjectorFinished \/ Timeout \/ NewConnection \/ ReadyRead
         \/ Interrupt \/ Exit \/ Gone \/ ClientEnds
  PROVE  LauncherInv'
<1> USE DEF LauncherInv, NoClientAfterFailure, StatusTells
<1>1. CASE StartFailed
  <2> DEFINE l == [launcher EXCEPT !.exitCode = 1, !.error = TRUE, !.state = @ \cup {"failed"}]
             r == CheckDone(l)
  <2>1. l \in LauncherRecord /\ l.state = {"failed"} /\ l.phase = "new"
    BY <1>1 DEF StartFailed, LauncherRecord
  <2>2. launcher' = [r EXCEPT !.phase = "exiting", !.status = r.exitCode,
                              !.timer = options.ui # "inprocess"]
    BY <1>1 DEF StartFailed, InjectorError
  <2> HIDE DEF l
  <2>3. /\ r \in LauncherRecord /\ r.state = {"failed"} /\ r.exitCode # 0
    BY <2>1, CheckDoneKeeps
  <2> HIDE DEF r
  <2>4. /\ launcher' \in LauncherRecord /\ launcher'.phase = "exiting"
        /\ launcher'.state = {"failed"} /\ launcher'.status # 0 /\ launcher'.exitCode # 0
    BY <2>2, <2>3 DEF LauncherRecord, Phases
  <2> QED
    BY <1>1, <2>4 DEF StartFailed
<1>2. CASE Start
  <2>1. /\ launcher' \in LauncherRecord /\ launcher'.phase = "running"
        /\ launcher'.state = {}
    BY <1>2 DEF Start, LauncherRecord, Phases
  <2>2. injector' \in InjectorRecord /\ injector'.posted = 0
    BY <1>2 DEF Start, InjectorRecord
  <2>3. target' = "running" /\ UNCHANGED <<options, client>>
    BY <1>2 DEF Start
  <2> QED
    BY <2>1, <2>2, <2>3
<1>3. CASE InjectorFinished
  <2> DEFINE newError == ~launcher.error /\ injector.error
             failed == newError \/ "failed" \in launcher.state
             l == [launcher EXCEPT !.exitCode = injector.exitCode, !.error = @ \/ newError,
                     !.state = @ \cup {IF failed THEN "failed" ELSE "finished"}]
  <2>1. l \in LauncherRecord /\ l.phase = "running"
    BY <1>3 DEF InjectorFinished, LauncherRecord, InjectorRecord
  <2>2. launcher' = CheckDone(l) /\ client' = Terminated(launcher', client)
    BY <1>3 DEF InjectorFinished
  <2> HIDE DEF l
  <2>3. /\ launcher' \in LauncherRecord /\ launcher'.phase = "running"
        /\ "failed" \in launcher'.state => launcher'.exitCode # 0
    BY <2>1, <2>2, CheckDoneKeeps
  <2>4. injector' \in InjectorRecord /\ (injector'.process # "ended" => injector'.posted = 0)
    BY <1>3 DEF InjectorFinished, InjectorRecord
  <2>5. /\ client' \in {"none", "running", "terminated", "ended"}
        /\ "failed" \in launcher'.state => client' # "running"
    BY <2>2, TerminatedKeeps
  <2> QED
    BY <1>3, <2>3, <2>4, <2>5 DEF InjectorFinished
<1>4. CASE Timeout
  <2> DEFINE l == [launcher EXCEPT !.timer = FALSE, !.state = @ \cup {"failed"}]
  <2>1. l \in LauncherRecord /\ l.phase = "running"
    BY <1>4 DEF Timeout, LauncherRecord
  <2>2. launcher' = CheckDone(l) /\ client' = Terminated(launcher', client)
    BY <1>4 DEF Timeout
  <2> HIDE DEF l
  <2>3. /\ launcher' \in LauncherRecord /\ launcher'.phase = "running"
        /\ "failed" \in launcher'.state => launcher'.exitCode # 0
    BY <2>1, <2>2, CheckDoneKeeps
  <2>4. /\ client' \in {"none", "running", "terminated", "ended"}
        /\ "failed" \in launcher'.state => client' # "running"
    BY <2>2, TerminatedKeeps
  <2> QED
    BY <1>4, <2>3, <2>4 DEF Timeout
<1>5. CASE NewConnection
  <2>1. PICK p \in Probe : launcher' = [launcher EXCEPT !.socket = p]
    BY <1>5 DEF NewConnection
  <2>2. /\ launcher' \in LauncherRecord /\ launcher'.phase = launcher.phase
        /\ launcher'.state = launcher.state /\ launcher'.exitCode = launcher.exitCode
        /\ launcher'.status = launcher.status
    BY <2>1 DEF LauncherRecord
  <2> QED
    BY <1>5, <2>2 DEF NewConnection
<1>6. CASE ReadyRead
  <2>1. /\ launcher.phase = "running"
        /\ UNCHANGED <<options, injector, target>>
    BY <1>6 DEF ReadyRead
  <2>2. CASE UNCHANGED <<launcher, client>>
    BY <2>1, <2>2
  <2>3. CASE \E started \in BOOLEAN :
               /\ launcher' = Announced(launcher, started)
               /\ client' = Terminated(launcher',
                    IF options.ui = "client" /\ started THEN "running" ELSE client)
    <3>1. PICK started \in BOOLEAN :
            /\ launcher' = Announced(launcher, started)
            /\ client' = Terminated(launcher',
                 IF options.ui = "client" /\ started THEN "running" ELSE client)
      BY <2>3
    <3> DEFINE l1 == [launcher EXCEPT !.timer = FALSE, !.address = TRUE]
               l2 == IF options.ui = "client" /\ ~started THEN ExitWith(l1, 1) ELSE l1
               l3 == IF options.attach THEN ExitWith(l2, 0) ELSE l2
               l4 == [l3 EXCEPT !.state = @ \cup {"client"}]
    <3>2. l1 \in LauncherRecord /\ l1.phase = "running"
      BY <2>1 DEF LauncherRecord
    <3>3. launcher' = CheckDone(l4)
      BY <3>1 DEF Announced
    <3> HIDE DEF l1
    <3>4. l2 \in LauncherRecord /\ l2.phase = "running"
      BY <3>2, ExitWithKeeps
    <3> HIDE DEF l2
    <3>5. l3 \in LauncherRecord /\ l3.phase = "running"
      BY <3>4, ExitWithKeeps
    <3> HIDE DEF l3
    <3>6. l4 \in LauncherRecord /\ l4.phase = "running"
      BY <3>5 DEF LauncherRecord
    <3> HIDE DEF l4
    <3>7. /\ launcher' \in LauncherRecord /\ launcher'.phase = "running"
          /\ "failed" \in launcher'.state => launcher'.exitCode # 0
      BY <3>3, <3>6, CheckDoneKeeps
    <3>8. /\ client' \in {"none", "running", "terminated", "ended"}
          /\ "failed" \in launcher'.state => client' # "running"
      BY <3>1, TerminatedKeeps
    <3> QED
      BY <2>1, <3>7, <3>8
  <2> QED
    BY <1>6, <2>2, <2>3 DEF ReadyRead
<1>7. CASE Interrupt
  <2>1. /\ launcher' \in LauncherRecord /\ launcher'.phase = launcher.phase
        /\ launcher'.state = launcher.state /\ launcher'.exitCode = launcher.exitCode
        /\ launcher'.status = launcher.status
    BY <1>7, ExitWithKeeps DEF Interrupt
  <2> QED
    BY <1>7, <2>1 DEF Interrupt
<1>8. CASE Exit
  <2>1. /\ launcher' \in LauncherRecord /\ launcher'.phase = "exiting"
        /\ launcher'.state = launcher.state /\ launcher'.exitCode = launcher.exitCode
        /\ launcher.exitCode # 0 => launcher'.status # 0
    BY <1>8 DEF Exit, LauncherRecord, Phases
  <2>2. injector' \in InjectorRecord /\ (injector'.process # "ended" => injector'.posted = 0)
    BY <1>8 DEF Exit, InjectorRecord
  <2>3. target' \in {"none", "running", "ended"}
    BY <1>8 DEF Exit
  <2> QED
    BY <1>8, <2>1, <2>2, <2>3 DEF Exit
<1>9. CASE Gone
  <2>1. /\ launcher' \in LauncherRecord /\ launcher'.phase = "gone"
        /\ launcher'.state = launcher.state /\ launcher'.exitCode = launcher.exitCode
        /\ launcher'.status = launcher.status
    BY <1>9 DEF Gone, LauncherRecord, Phases
  <2> QED
    BY <1>9, <2>1 DEF Gone
<1>10. CASE ClientEnds
  <2>1. launcher.phase # "new"
    BY <1>10 DEF ClientEnds
  <2> QED
    BY <1>10, <2>1 DEF ClientEnds
<1> QED
  BY <1>1, <1>2, <1>3, <1>4, <1>5, <1>6, <1>7, <1>8, <1>9, <1>10

(* So does what happens to the target and its injector.                                *)
LEMMA InjectorHandles ==
  ASSUME LauncherInv, TargetEnds \/ DebuggerDetaches \/ DebuggerQuits \/ DebuggerFails
  PROVE  LauncherInv'
<1>1. UNCHANGED <<options, launcher, client>>
  BY DEF TargetEnds, DebuggerDetaches, DebuggerQuits, DebuggerFails
<1>2. ASSUME NEW code \in {0, 1}, NEW error \in BOOLEAN, Reported(code, error),
             injector.process # "ended"
      PROVE  /\ injector' \in InjectorRecord /\ injector'.process = "ended"
  <2>1. injector.posted + 1 = 1
    BY <1>2 DEF LauncherInv
  <2>2. injector' = [injector EXCEPT !.process = "ended", !.exitCode = code, !.error = error,
                                     !.posted = 1]
    BY <1>2, <2>1 DEF Reported
  <2> QED
    BY <2>2 DEF LauncherInv, InjectorRecord
<1>3. /\ injector' \in InjectorRecord /\ target' \in {"none", "running", "ended"}
      /\ injector'.process # "ended" => injector'.posted = 0
      /\ injector.process = "none" => injector' = injector
  <2>1. CASE TargetEnds
    <3>1. CASE UNCHANGED injector
      BY <2>1, <3>1 DEF TargetEnds, LauncherInv
    <3>2. CASE /\ injector.process = "running"
               /\ \E code \in {0, 1}, crash \in BOOLEAN : Reported(code, crash)
      BY <1>2, <2>1, <3>2 DEF TargetEnds
    <3> QED
      BY <2>1, <3>1, <3>2 DEF TargetEnds
  <2>2. CASE DebuggerDetaches
    BY <2>2 DEF DebuggerDetaches, LauncherInv, InjectorRecord
  <2>3. CASE DebuggerQuits
    <3>1. CASE options.attach
      BY <2>3, <3>1 DEF DebuggerQuits, LauncherInv, InjectorRecord
    <3>2. CASE ~options.attach
      BY <1>2, <2>3, <3>2 DEF DebuggerQuits, LauncherInv
    <3> QED
      BY <3>1, <3>2
  <2>4. CASE DebuggerFails
    BY <1>2, <2>4 DEF DebuggerFails, LauncherInv
  <2> QED
    BY <2>1, <2>2, <2>3, <2>4
<1> QED
  BY <1>1, <1>3 DEF LauncherInv, NoClientAfterFailure, StatusTells

(* The steps of the probe leave the launcher alone.                                    *)
LEMMA ProbeHandlesLauncher ==
  ASSUME LauncherInv, NEW p \in Probe,
         \/ Inject(p) \/ CreateProbe(p) \/ DelayedInit(p) \/ ResendServerAddress(p)
         \/ Send(p) \/ ReceiverSteps(p)
  PROVE  LauncherInv'
<1>1. UNCHANGED <<options, launcher, injector, client, target>>
  BY DEF Inject, CreateProbe, DelayedInit, ResendServerAddress, Send, ReceiverSteps, Wait,
         Run, Receive, Disconnected
<1> QED
  BY <1>1 DEF LauncherInv, NoClientAfterFailure, StatusTells

LEMMA LauncherStutters == LauncherInv /\ UNCHANGED vars => LauncherInv'
  BY DEF LauncherInv, NoClientAfterFailure, StatusTells, vars

LEMMA LauncherStep == LauncherInv /\ [Next]_vars => LauncherInv'
<1> SUFFICES ASSUME LauncherInv, [Next]_vars PROVE LauncherInv'
  OBVIOUS
<1> QED
  BY LauncherHandles, InjectorHandles, ProbeHandlesLauncher, LauncherStutters
  DEF Next, LauncherSteps, Others

(* A launcher that has failed leaves no client running and tells of its failure,       *)
(* whatever comes in whatever order and however many programs the target starts.       *)
THEOREM LauncherInvariance == Spec => []LauncherInv
  BY LauncherInit, LauncherStep, PTL DEF Spec

(* No client is left running by a launcher that has failed (Launcher::checkDone()).    *)
THEOREM NoClientAfterFailureAlways == Spec => []NoClientAfterFailure
  BY LauncherInvariance, PTL DEF LauncherInv

(* A launcher that has failed ends with a status that says so (Launcher::exitCode()).  *)
THEOREM StatusTellsAlways == Spec => []StatusTells
  BY LauncherInvariance, PTL DEF LauncherInv

-----------------------------------------------------------------------------
(***************************************************************************)
(* A probe.  Its receiver runs once: "run" is the first of its calls, and  *)
(* comes while the main thread holds the mutex or waits.                   *)
(***************************************************************************)

Pending  == {"queued", "requeued", "ignored"}
Holding  == {"locked", "relocked"}
Blocked  == {"waiting", "rewaiting"}
Ready    == {"ready", "reready"}
Calls    == {<<>>, <<"run">>, <<"address">>, <<"error">>}

ProbeTypes ==
  /\ main \in [Probe -> AtRest \cup Pending \cup Holding \cup Blocked \cup Ready]
  /\ mutex \in [Probe -> {"free", "main"}]
  /\ receiver \in [Probe -> [thread : {"none", "running", "done"}, calls : Calls]]
  /\ socket \in [Probe -> [state : {"none", "connected", "lost", "closed"},
                           toProbe : {<<>>, <<"settings">>, <<"version", "settings">>},
                           toLauncher : {<<>>, <<"address">>, <<"error">>}]]
  /\ settings \in [Probe -> BOOLEAN]

\* Before its receiver there is nothing of the connection, and no wait.
NotBegun(p) ==
  /\ main[p] \in Pending => receiver[p].thread = "none"
  /\ main[p] \in Holding \cup Blocked \cup Ready => receiver[p].thread # "none"
  /\ receiver[p].thread = "none" => receiver[p].calls = <<>> /\ socket[p].state = "none"
  /\ socket[p].state = "none" => socket[p].toProbe = <<>>

\* The receiver connects while the main thread holds the mutex or waits.
ConnectsInTime(p) ==
  /\ main[p] \in Holding => mutex[p] = "main"
  /\ receiver[p].calls = <<"run">> =>
       main[p] \in Holding \cup Blocked /\ socket[p].state = "none"
  /\ main[p] \in Holding \cup Blocked \cup Ready => receiver[p].calls \in {<<>>, <<"run">>}

ServedInTime(p) ==
  main[p] \in Ready /\ options.sameVersion /\ socket[p].state = "connected" => settings[p]

OneProbe(p) == NotBegun(p) /\ ConnectsInTime(p) /\ ServedInTime(p)

ProbeInv == ProbeTypes /\ \A p \in Probe : OneProbe(p)

LEMMA ProbeInit == Init => ProbeInv
<1> SUFFICES ASSUME Init PROVE ProbeInv
  OBVIOUS
<1>1. ProbeTypes
  BY DEF Init, ProbeTypes, AtRest, NewSocket, Calls
<1>2. ASSUME NEW p \in Probe PROVE OneProbe(p)
  BY <1>1 DEF Init, OneProbe, NotBegun, ConnectsInTime, ServedInTime, NewSocket,
     Pending, Holding, Blocked, Ready
<1> QED
  BY <1>1, <1>2 DEF ProbeInv

(* A step of one probe disturbs no other.                                              *)
LEMMA OthersUndisturbed ==
  ASSUME NEW p, NEW q, q # p, OneProbe(q), UNCHANGED options,
         main'[q] = main[q], mutex'[q] = mutex[q], receiver'[q] = receiver[q],
         socket'[q] = socket[q], settings'[q] = settings[q]
  PROVE  OneProbe(q)'
  BY DEF OneProbe, NotBegun, ConnectsInTime, ServedInTime

LEMMA StartsWaiting ==
  ASSUME ProbeInv, NEW p \in Probe, Inject(p) \/ CreateProbe(p) \/ Wait(p)
  PROVE  ProbeInv'
<1> USE DEF ProbeInv, OneProbe, NotBegun, ConnectsInTime, ServedInTime,
            Pending, Holding, Blocked, Ready, AtRest
<1>1. ProbeTypes'
  <2>1. CASE Inject(p)
    BY <2>1 DEF Inject, ProbeTypes
  <2>2. CASE CreateProbe(p)
    <3>1. main' \in [Probe -> AtRest \cup Pending \cup Holding \cup Blocked \cup Ready]
      BY ZenonT(60), <2>2 DEF CreateProbe, ProbeTypes
    <3>2. mutex' \in [Probe -> {"free", "main"}]
      BY <2>2 DEF CreateProbe, ProbeTypes
    <3>3. receiver' \in [Probe -> [thread : {"none", "running", "done"}, calls : Calls]]
      <4>1. [thread |-> "running", calls |-> <<"run">>]
              \in [thread : {"none", "running", "done"}, calls : Calls]
        BY DEF Calls
      <4> QED
        BY <2>2, <4>1 DEF CreateProbe, ProbeTypes
    <3> QED
      BY <2>2, <3>1, <3>2, <3>3 DEF CreateProbe, ProbeTypes
  <2>3. CASE Wait(p)
    BY <2>3 DEF Wait, ProbeTypes
  <2> QED
    BY <2>1, <2>2, <2>3
<1>2. OneProbe(p)'
  <2>1. CASE Inject(p)
    <3>1. /\ main'[p] \in Pending /\ receiver[p].thread = "none"
          /\ UNCHANGED <<mutex, receiver, socket, settings>>
      BY <2>1 DEF Inject, ProbeTypes
    <3> QED
      BY <3>1
  <2>2. CASE CreateProbe(p)
    <3>1. receiver[p].thread = "none" /\ UNCHANGED <<socket, settings>>
      BY <2>2 DEF CreateProbe
    <3>2. CASE main[p] = "ignored"
      BY SMTT(30), <2>2, <3>1, <3>2 DEF CreateProbe, ProbeTypes
    <3>3. CASE main[p] # "ignored"
      BY <2>2, <3>1, <3>3 DEF CreateProbe, ProbeTypes
    <3> QED
      BY <3>2, <3>3
  <2>3. CASE Wait(p)
    BY <2>3 DEF Wait, ProbeTypes
  <2> QED
    BY <2>1, <2>2, <2>3
<1>3. ASSUME NEW q \in Probe, q # p PROVE OneProbe(q)'
  <2>1. UNCHANGED <<options, socket, settings>>
    BY DEF Inject, CreateProbe, Wait
  <2>2. main'[q] = main[q] /\ mutex'[q] = mutex[q] /\ receiver'[q] = receiver[q]
    <3>1. CASE Inject(p)
      BY <1>3, <3>1 DEF Inject, ProbeTypes
    <3>2. CASE CreateProbe(p)
      BY <1>3, <3>2 DEF CreateProbe, ProbeTypes
    <3>3. CASE Wait(p)
      BY <1>3, <3>3 DEF Wait, ProbeTypes
    <3> QED
      BY <3>1, <3>2, <3>3
  <2> QED
    BY <2>1, <2>2
<1> QED
  BY <1>1, <1>2, <1>3

(* wakeAll() makes a blocked main thread ready and leaves any other.                   *)
LEMMA WakeAllKeeps ==
  ASSUME ProbeTypes, NEW p \in Probe, WakeAll(p)
  PROVE  /\ main' \in [Probe -> AtRest \cup Pending \cup Holding \cup Blocked \cup Ready]
         /\ \A q \in Probe \ {p} : main'[q] = main[q]
         /\ main'[p] \in Pending => main[p] \in Pending
         /\ main'[p] \in Holding => main[p] \in Holding
         /\ main'[p] \in Blocked => FALSE
         /\ main'[p] \in Ready => main[p] \in Blocked \cup Ready
  BY DEF WakeAll, ProbeTypes, AtRest, Pending, Holding, Blocked, Ready

\* The queue of calls of one receiver becomes c.
CallsBecome(p, c) ==
  /\ receiver' \in [Probe -> [thread : {"none", "running", "done"}, calls : Calls]]
  /\ receiver'[p].thread = receiver[p].thread /\ receiver'[p].calls = c
  /\ \A q \in Probe \ {p} : receiver'[q] = receiver[q]

LEMMA CallsBecomeByExcept ==
  ASSUME ProbeTypes, NEW p \in Probe, NEW c \in Calls,
         receiver' = [receiver EXCEPT ![p].calls = c]
  PROVE  CallsBecome(p, c)
  BY DEF ProbeTypes, CallsBecome

(* The main thread goes on with what the wait has brought.                             *)
LEMMA GoesOn ==
  ASSUME ProbeInv, NEW p \in Probe, DelayedInit(p) \/ ResendServerAddress(p)
  PROVE  ProbeInv'
<1>1. receiver[p].calls = <<>>
  BY DEF ProbeInv, OneProbe, ConnectsInTime, DelayedInit, ResendServerAddress,
     Ready, Holding, Blocked
<1>2. /\ main' \in [Probe -> AtRest \cup Pending \cup Holding \cup Blocked \cup Ready]
      /\ main'[p] \in {"listening", "silent"}
      /\ \A q \in Probe \ {p} : main'[q] = main[q]
      /\ UNCHANGED <<options, mutex, socket, settings>>
  BY DEF ProbeInv, ProbeTypes, DelayedInit, ResendServerAddress, AtRest
<1>3. PICK c \in Calls \ {<<"run">>} : CallsBecome(p, c)
  <2>1. CASE UNCHANGED receiver
    <3>1. CallsBecome(p, <<>>)
      BY <1>1, <2>1 DEF ProbeInv, ProbeTypes, CallsBecome
    <3> QED
      BY <3>1 DEF Calls
  <2>2. ASSUME NEW c \in {"address", "error"}, Call(p, c)
        PROVE  CallsBecome(p, <<c>>) /\ <<c>> \in Calls \ {<<"run">>}
    <3>1. Append(receiver[p].calls, c) = <<c>>
      BY <1>1
    <3>2. receiver' = [receiver EXCEPT ![p].calls = <<c>>]
      BY <2>2, <3>1 DEF Call
    <3>3. <<c>> \in Calls \ {<<"run">>}
      BY DEF Calls
    <3> QED
      BY <3>2, <3>3, CallsBecomeByExcept DEF ProbeInv
  <2>3. UNCHANGED receiver \/ Call(p, "address") \/ Call(p, "error")
    BY DEF DelayedInit, ResendServerAddress
  <2> QED
    BY <2>1, <2>2, <2>3
<1>4. main[p] \in Ready /\ receiver[p].thread # "none"
  BY DEF DelayedInit, ResendServerAddress, ProbeInv, OneProbe, NotBegun, Ready
<1>5. ProbeTypes'
  BY <1>2, <1>3 DEF ProbeInv, ProbeTypes, CallsBecome
<1>6. OneProbe(p)'
  BY <1>2, <1>3, <1>4 DEF ProbeInv, OneProbe, NotBegun, ConnectsInTime, ServedInTime,
     Pending, Holding, Blocked, Ready, CallsBecome
<1>7. ASSUME NEW q \in Probe, q # p PROVE OneProbe(q)'
  BY <1>2, <1>3, <1>7, OthersUndisturbed DEF ProbeInv, ProbeTypes, CallsBecome
<1> QED
  BY <1>5, <1>6, <1>7 DEF ProbeInv

(* The receiver connects: the main thread does not hold the mutex, so it waits.        *)
LEMMA Connects ==
  ASSUME ProbeInv, NEW p \in Probe, Run(p)
  PROVE  ProbeInv'
<1>1. /\ receiver[p].thread = "running" /\ receiver[p].calls = <<"run">>
      /\ main[p] \in Blocked /\ socket[p].state = "none"
  <2>1. receiver[p].thread = "running" /\ receiver[p].calls # <<>>
        /\ Head(receiver[p].calls) = "run" /\ mutex[p] = "free"
    BY DEF Run, Take
  <2>2. receiver[p].calls \in Calls
    BY DEF ProbeInv, ProbeTypes
  <2>3. receiver[p].calls = <<"run">>
    BY <2>1, <2>2 DEF Calls
  <2> QED
    BY <2>1, <2>3 DEF ProbeInv, OneProbe, ConnectsInTime, Holding, Blocked
<1>2. CallsBecome(p, <<>>)
  <2>1. Tail(receiver[p].calls) = <<>>
    BY <1>1
  <2>2. receiver' = [receiver EXCEPT ![p].calls = <<>>]
    BY <2>1 DEF Run
  <2> QED
    BY <2>2, CallsBecomeByExcept DEF ProbeInv, Calls
<1>3. /\ \/ socket' = [socket EXCEPT ![p].state = "connected"] /\ UNCHANGED main
         \/ UNCHANGED socket /\ WakeAll(p)
      /\ UNCHANGED <<options, mutex, settings>>
  BY DEF Run
<1>4. CASE socket' = [socket EXCEPT ![p].state = "connected"] /\ UNCHANGED main
  <2>1. ProbeTypes'
    BY ZenonT(60), <1>2, <1>3, <1>4 DEF ProbeInv, ProbeTypes, Calls, CallsBecome
  <2>2. OneProbe(p)'
    BY <1>1, <1>2, <1>3, <1>4 DEF ProbeInv, ProbeTypes, OneProbe, NotBegun, ConnectsInTime,
       ServedInTime, Pending, Holding, Blocked, Ready, CallsBecome
  <2>3. ASSUME NEW q \in Probe, q # p PROVE OneProbe(q)'
    BY ZenonT(60), <1>2, <1>3, <1>4, <2>3, OthersUndisturbed DEF ProbeInv, ProbeTypes, CallsBecome
  <2> QED
    BY <2>1, <2>2, <2>3 DEF ProbeInv
<1>5. CASE UNCHANGED socket /\ WakeAll(p)
  <2>1. /\ main' \in [Probe -> AtRest \cup Pending \cup Holding \cup Blocked \cup Ready]
        /\ \A q \in Probe \ {p} : main'[q] = main[q]
        /\ main'[p] \in Ready
    BY <1>1, <1>5, WakeAllKeeps DEF ProbeInv, ProbeTypes, WakeAll, Blocked, Ready
  <2>2. ProbeTypes'
    BY <1>2, <1>3, <1>5, <2>1 DEF ProbeInv, ProbeTypes, Calls, CallsBecome
  <2>3. OneProbe(p)'
    BY <1>1, <1>2, <1>3, <1>5, <2>1 DEF ProbeInv, ProbeTypes, OneProbe, NotBegun,
       ConnectsInTime, ServedInTime, Pending, Holding, Blocked, Ready, CallsBecome
  <2>4. ASSUME NEW q \in Probe, q # p PROVE OneProbe(q)'
    BY <1>2, <1>3, <1>5, <2>1, <2>4, OthersUndisturbed DEF ProbeInv, ProbeTypes, CallsBecome
  <2> QED
    BY <2>2, <2>3, <2>4 DEF ProbeInv
<1> QED
  BY <1>3, <1>4, <1>5

(* What a step does to the connection of one probe.                                    *)
ToProbe    == {<<>>, <<"settings">>, <<"version", "settings">>}
ToLauncher == {<<>>, <<"address">>, <<"error">>}

SocketBecomes(p, state, toProbe) ==
  /\ socket' \in [Probe -> [state : {"none", "connected", "lost", "closed"},
                            toProbe : ToProbe, toLauncher : ToLauncher]]
  /\ socket'[p].state = state /\ socket'[p].toProbe = toProbe
  /\ \A q \in Probe \ {p} : socket'[q] = socket[q]

(* The receiver reads what the launcher sent it, and wakes the main thread with the    *)
(* settings or because it cannot have them.                                            *)
LEMMA Receives ==
  ASSUME ProbeInv, NEW p \in Probe, Receive(p)
  PROVE  ProbeInv'
<1>1. /\ receiver[p].thread = "running" /\ socket[p].toProbe # <<>>
      /\ socket[p].toProbe \in ToProbe
      /\ UNCHANGED <<options, mutex, receiver>>
  BY DEF Receive, ProbeInv, ProbeTypes, ToProbe
<1>2. Tail(socket[p].toProbe) \in ToProbe
  <2>1. Tail(<<"settings">>) = <<>> /\ Tail(<<"version", "settings">>) = <<"settings">>
    OBVIOUS
  <2> QED
    BY <1>1, <2>1 DEF ToProbe
<1>3. PICK rest \in ToProbe : socket' = [socket EXCEPT ![p].toProbe = rest]
  <2>1. <<>> \in ToProbe
    BY DEF ToProbe
  <2> QED
    BY <1>2, <2>1 DEF Receive
<1>4. SocketBecomes(p, socket[p].state, rest)
  BY <1>3 DEF SocketBecomes, ProbeInv, ProbeTypes, ToProbe, ToLauncher
<1>5. /\ settings' \in [Probe -> BOOLEAN]
      /\ settings[p] => settings'[p]
      /\ \A q \in Probe \ {p} : settings'[q] = settings[q]
  BY DEF Receive, ProbeInv, ProbeTypes
<1>6. \/ UNCHANGED main
      \/ WakeAll(p) /\ (settings'[p] \/ ~options.sameVersion)
  BY DEF Receive, ProbeInv, ProbeTypes
<1>7. socket[p].state # "none" /\ receiver[p].calls # <<"run">>
  BY <1>1 DEF ProbeInv, OneProbe, NotBegun, ConnectsInTime
<1>8. CASE UNCHANGED main
  <2>1. ProbeTypes'
    BY <1>1, <1>4, <1>5, <1>8 DEF ProbeInv, ProbeTypes, SocketBecomes, ToProbe, ToLauncher
  <2>2. OneProbe(p)'
    BY <1>1, <1>4, <1>5, <1>7, <1>8 DEF ProbeInv, OneProbe, NotBegun, ConnectsInTime,
       ServedInTime, SocketBecomes
  <2>3. ASSUME NEW q \in Probe, q # p PROVE OneProbe(q)'
    BY <1>1, <1>4, <1>5, <1>8, <2>3, OthersUndisturbed DEF ProbeInv, SocketBecomes
  <2> QED
    BY <2>1, <2>2, <2>3 DEF ProbeInv
<1>9. CASE WakeAll(p) /\ (settings'[p] \/ ~options.sameVersion)
  <2>1. /\ main' \in [Probe -> AtRest \cup Pending \cup Holding \cup Blocked \cup Ready]
        /\ \A q \in Probe \ {p} : main'[q] = main[q]
        /\ main'[p] \in Pending => main[p] \in Pending
        /\ main'[p] \in Holding => main[p] \in Holding
        /\ main'[p] \in Blocked => FALSE
        /\ main'[p] \in Ready => main[p] \in Blocked \cup Ready
    BY <1>9, WakeAllKeeps DEF ProbeInv
  <2>2. ProbeTypes'
    BY <1>1, <1>4, <1>5, <2>1 DEF ProbeInv, ProbeTypes, SocketBecomes, ToProbe, ToLauncher
  <2>3. OneProbe(p)'
    BY <1>1, <1>4, <1>5, <1>7, <1>9, <2>1 DEF ProbeInv, OneProbe, NotBegun, ConnectsInTime,
       ServedInTime, SocketBecomes
  <2>4. ASSUME NEW q \in Probe, q # p PROVE OneProbe(q)'
    BY <1>1, <1>4, <1>5, <2>1, <2>4, OthersUndisturbed DEF ProbeInv, SocketBecomes
  <2> QED
    BY <2>2, <2>3, <2>4 DEF ProbeInv
<1> QED
  BY <1>6, <1>8, <1>9

(* The connection is lost, and the wait is over.                                       *)
LEMMA Disconnects ==
  ASSUME ProbeInv, NEW p \in Probe, Disconnected(p)
  PROVE  ProbeInv'
<1>1. /\ socket[p].state = "lost" /\ WakeAll(p)
      /\ socket' = [socket EXCEPT ![p].state = "closed"]
      /\ UNCHANGED <<options, mutex, receiver, settings>>
  BY DEF Disconnected
<1>2. SocketBecomes(p, "closed", socket[p].toProbe)
  BY <1>1 DEF SocketBecomes, ProbeInv, ProbeTypes, ToProbe, ToLauncher
<1>3. /\ main' \in [Probe -> AtRest \cup Pending \cup Holding \cup Blocked \cup Ready]
      /\ \A q \in Probe \ {p} : main'[q] = main[q]
      /\ main'[p] \in Pending => main[p] \in Pending
      /\ main'[p] \in Holding => main[p] \in Holding
      /\ main'[p] \in Blocked => FALSE
      /\ main'[p] \in Ready => main[p] \in Blocked \cup Ready
  BY <1>1, WakeAllKeeps DEF ProbeInv
<1>4. ProbeTypes'
  BY <1>1, <1>2, <1>3 DEF ProbeInv, ProbeTypes, SocketBecomes, ToProbe, ToLauncher
<1>5. OneProbe(p)'
  BY <1>1, <1>2, <1>3 DEF ProbeInv, OneProbe, NotBegun, ConnectsInTime, ServedInTime,
     SocketBecomes
<1>6. ASSUME NEW q \in Probe, q # p PROVE OneProbe(q)'
  BY <1>1, <1>2, <1>3, <1>6, OthersUndisturbed DEF ProbeInv, SocketBecomes
<1> QED
  BY <1>4, <1>5, <1>6 DEF ProbeInv

(* The receiver sends the address or the error, and ends if there is a connection.     *)
LEMMA Sends ==
  ASSUME ProbeInv, NEW p \in Probe, Send(p)
  PROVE  ProbeInv'
<1>1. PICK c \in {"address", "error"} :
        /\ Take(p, c)
        /\ IF socket[p].state \in {"connected", "lost"}
           THEN /\ socket' = [socket EXCEPT ![p].state = "closed", ![p].toProbe = <<>>,
                                            ![p].toLauncher = <<c>>]
                /\ receiver' = [receiver EXCEPT ![p] = [thread |-> "done", calls |-> <<>>]]
           ELSE /\ receiver' = [receiver EXCEPT ![p].calls = Tail(@)]
                /\ UNCHANGED socket
        /\ UNCHANGED <<options, main, mutex, settings>>
  BY DEF Send
<1>2. receiver[p].thread = "running" /\ receiver[p].calls = <<c>>
  <2>1. /\ receiver[p].thread = "running" /\ receiver[p].calls # <<>>
        /\ Head(receiver[p].calls) = c
    BY <1>1 DEF Take
  <2>2. receiver[p].calls \in Calls
    BY DEF ProbeInv, ProbeTypes
  <2> QED
    BY <1>1, <2>1, <2>2 DEF Calls
<1>3. receiver[p].calls \notin {<<>>, <<"run">>}
  BY <1>1, <1>2
<1>4. main[p] \notin Pending \cup Holding \cup Blocked \cup Ready
  BY <1>2, <1>3 DEF ProbeInv, OneProbe, NotBegun, ConnectsInTime
<1>5. /\ receiver' \in [Probe -> [thread : {"none", "running", "done"}, calls : Calls]]
      /\ receiver'[p].thread \in {"running", "done"} /\ receiver'[p].calls = <<>>
      /\ \A q \in Probe \ {p} : receiver'[q] = receiver[q]
  <2>1. [thread |-> "done", calls |-> <<>>]
          \in [thread : {"none", "running", "done"}, calls : Calls]
    BY DEF Calls
  <2>2. CASE receiver' = [receiver EXCEPT ![p] = [thread |-> "done", calls |-> <<>>]]
    BY <2>1, <2>2 DEF ProbeInv, ProbeTypes
  <2>3. CASE receiver' = [receiver EXCEPT ![p].calls = Tail(@)]
    <3>1. Tail(receiver[p].calls) = <<>>
      BY <1>2
    <3>2. receiver' = [receiver EXCEPT ![p].calls = <<>>]
      BY <2>3, <3>1
    <3> QED
      BY <1>2, <3>2, CallsBecomeByExcept DEF ProbeInv, CallsBecome, Calls
  <2> QED
    BY <1>1, <2>2, <2>3
<1>6. \/ UNCHANGED socket
      \/ SocketBecomes(p, "closed", <<>>)
  <2>1. ASSUME socket' = [socket EXCEPT ![p].state = "closed", ![p].toProbe = <<>>,
                                        ![p].toLauncher = <<c>>]
        PROVE  SocketBecomes(p, "closed", <<>>)
    <3>1. <<c>> \in ToLauncher /\ <<>> \in ToProbe
      BY <1>1 DEF ToLauncher, ToProbe
    <3> QED
      BY ZenonT(60), <2>1, <3>1 DEF SocketBecomes, ProbeInv, ProbeTypes, ToProbe, ToLauncher
  <2> QED
    BY <1>1, <2>1
<1>7. ProbeTypes'
  BY <1>1, <1>5, <1>6 DEF ProbeInv, ProbeTypes, SocketBecomes, ToProbe, ToLauncher
<1>8. OneProbe(p)'
  BY <1>1, <1>4, <1>5, <1>6 DEF ProbeInv, OneProbe, NotBegun, ConnectsInTime, ServedInTime,
     SocketBecomes
<1>9. ASSUME NEW q \in Probe, q # p PROVE OneProbe(q)'
  <2>1. UNCHANGED <<options, main, mutex, settings>>
    BY <1>1
  <2>2. socket'[q] = socket[q] /\ receiver'[q] = receiver[q]
    BY <1>5, <1>6, <1>9 DEF SocketBecomes
  <2> QED
    BY <1>9, <2>1, <2>2, OthersUndisturbed DEF ProbeInv
<1> QED
  BY <1>7, <1>8, <1>9 DEF ProbeInv

(* The launcher serves a connection, reads from it and takes it away: a probe that has *)
(* gone on is not affected.                                                            *)
LEMMA SocketsChange ==
  ASSUME ProbeInv, UNCHANGED <<options, main, mutex, receiver, settings>>,
         ProbeTypes',
         \A p \in Probe :
           /\ socket'[p].state = "connected" => socket[p].state = "connected"
           /\ socket'[p].state = "none" <=> socket[p].state = "none"
           /\ socket'[p].state = "none" => socket'[p].toProbe = <<>>
  PROVE  ProbeInv'
<1>1. ASSUME NEW p \in Probe PROVE OneProbe(p)'
  BY DEF ProbeInv, OneProbe, NotBegun, ConnectsInTime, ServedInTime
<1> QED
  BY <1>1 DEF ProbeInv

LEMMA LauncherHandlesProbe ==
  ASSUME ProbeInv, NewConnection \/ ReadyRead \/ Gone
  PROVE  ProbeInv'
<1>1. UNCHANGED <<options, main, mutex, receiver, settings>>
  BY DEF NewConnection, ReadyRead, Gone
<1>2. CASE NewConnection
  <2>1. PICK p \in Probe : /\ socket[p].state = "connected"
                           /\ socket' = [socket EXCEPT ![p].toProbe = <<"version", "settings">>]
    BY <1>2 DEF NewConnection
  <2>2. SocketBecomes(p, "connected", <<"version", "settings">>)
    BY <2>1 DEF SocketBecomes, ProbeInv, ProbeTypes, ToProbe, ToLauncher
  <2> QED
    BY <1>1, <2>1, <2>2, SocketsChange
    DEF SocketBecomes, ProbeInv, ProbeTypes, ToProbe, ToLauncher, OneProbe, NotBegun
<1>3. CASE ReadyRead
  <2>1. PICK p \in Probe : /\ socket[p].toLauncher # <<>>
                           /\ socket' = [socket EXCEPT ![p].toLauncher = Tail(@)]
    BY <1>3 DEF ReadyRead
  <2>2. Tail(socket[p].toLauncher) = <<>>
    <3>1. socket[p].toLauncher \in {<<"address">>, <<"error">>}
      BY <2>1 DEF ProbeInv, ProbeTypes
    <3>2. Tail(<<"address">>) = <<>> /\ Tail(<<"error">>) = <<>>
      OBVIOUS
    <3> QED
      BY <3>1, <3>2
  <2>3. socket' = [socket EXCEPT ![p].toLauncher = <<>>]
    BY <2>1, <2>2
  <2>4. SocketBecomes(p, socket[p].state, socket[p].toProbe)
    BY <2>3 DEF SocketBecomes, ProbeInv, ProbeTypes, ToProbe, ToLauncher
  <2> QED
    BY ZenonT(60), <1>1, <2>4, SocketsChange
    DEF SocketBecomes, ProbeInv, ProbeTypes, ToProbe, ToLauncher, OneProbe, NotBegun
<1>4. CASE Gone
  <2>1. socket' = [p \in Probe |-> IF socket[p].state = "connected"
                                   THEN [socket[p] EXCEPT !.state = "lost"] ELSE socket[p]]
    BY <1>4 DEF Gone
  <2>2. socket' \in [Probe -> [state : {"none", "connected", "lost", "closed"},
                               toProbe : ToProbe, toLauncher : ToLauncher]]
    BY ZenonT(60), <2>1 DEF ProbeInv, ProbeTypes, ToProbe, ToLauncher
  <2>3. ASSUME NEW p \in Probe
        PROVE  \/ socket'[p] = socket[p] /\ socket[p].state # "connected"
               \/ socket'[p].state = "lost" /\ socket[p].state = "connected"
    BY <2>1 DEF ProbeInv, ProbeTypes
  <2> QED
    BY <1>1, <2>2, <2>3, SocketsChange
    DEF ProbeInv, ProbeTypes, ToProbe, ToLauncher, OneProbe, NotBegun
<1> QED
  BY <1>2, <1>3, <1>4

LEMMA ProbeStutters ==
  ProbeInv /\ UNCHANGED <<options, main, mutex, receiver, socket, settings>> => ProbeInv'
  BY DEF ProbeInv, ProbeTypes, OneProbe, NotBegun, ConnectsInTime, ServedInTime

LEMMA ProbeStep == ProbeInv /\ [Next]_vars => ProbeInv'
<1> SUFFICES ASSUME ProbeInv, [Next]_vars PROVE ProbeInv'
  OBVIOUS
<1>1. CASE UNCHANGED vars
  BY <1>1, ProbeStutters DEF vars
<1>2. CASE NewConnection \/ ReadyRead \/ Gone
  BY <1>2, LauncherHandlesProbe
<1>3. CASE InjectorFinished \/ Timeout \/ Exit \/ StartFailed \/ Start \/ Interrupt \/ ClientEnds
  <2>1. UNCHANGED <<options, main, mutex, receiver, socket, settings>>
    BY <1>3 DEF InjectorFinished, Timeout, Exit, StartFailed, Start, Interrupt, ClientEnds,
       targetVars
  <2> QED
    BY <2>1, ProbeStutters
<1>4. CASE TargetEnds \/ DebuggerDetaches \/ DebuggerQuits \/ DebuggerFails
  <2>1. UNCHANGED <<options, main, mutex, receiver, socket, settings>>
    BY <1>4 DEF TargetEnds, DebuggerDetaches, DebuggerQuits, DebuggerFails, targetVars
  <2> QED
    BY <2>1, ProbeStutters
<1>5. ASSUME NEW p \in Probe,
             \/ Inject(p) \/ CreateProbe(p) \/ DelayedInit(p) \/ ResendServerAddress(p)
             \/ Send(p) \/ ReceiverSteps(p)
      PROVE  ProbeInv'
  BY <1>5, StartsWaiting, GoesOn, Connects, Receives, Disconnects, Sends DEF ReceiverSteps
<1> QED
  BY <1>1, <1>2, <1>3, <1>4, <1>5 DEF Next, LauncherSteps, Others

(* In every program the probe gets into the wait ends with settings, with a launcher   *)
(* of another version or without one, however the threads are interleaved.             *)
THEOREM ProbeInvariance == Spec => []ProbeInv
  BY ProbeInit, ProbeStep, PTL DEF Spec

(* A probe that is served does not go on before it has its settings                    *)
(* (ProbeSettingsReceiver::run(), readyRead()).                                        *)
THEOREM SettingsInTimeAlways == Spec => []SettingsInTime
<1>1. ProbeInv => SettingsInTime
  BY DEF ProbeInv, OneProbe, ServedInTime, SettingsInTime, Ready
<1> QED
  BY <1>1, ProbeInvariance, PTL

(* The state of launcher, injector, client, target and probes has its type.            *)
THEOREM TypeOKAlways == Spec => []TypeOK
<1>1. LauncherInv /\ ProbeInv => TypeOK
  <2> SUFFICES ASSUME LauncherInv, ProbeInv PROVE TypeOK
    OBVIOUS
  <2>1. /\ main \in [Probe -> AtRest \cup {"queued", "requeued", "ignored", "locked",
                      "relocked", "waiting", "rewaiting", "ready", "reready"}]
        /\ mutex \in [Probe -> {"free", "main"}] /\ settings \in [Probe -> BOOLEAN]
    BY DEF ProbeInv, ProbeTypes, Pending, Holding, Blocked, Ready
  <2>2. ASSUME NEW p \in Probe
        PROVE  /\ receiver[p].thread \in {"none", "running", "done"}
               /\ receiver[p].calls \in {<<>>} \cup {<<c>> : c \in {"run", "address", "error"}}
               /\ socket[p].state \in {"none", "connected", "lost", "closed"}
    BY DEF ProbeInv, ProbeTypes, Calls
  <2> QED
    BY <2>1, <2>2 DEF TypeOK, LauncherInv, LauncherRecord, InjectorRecord
<1> QED
  BY <1>1, LauncherInvariance, ProbeInvariance, PTL
=============================================================================
