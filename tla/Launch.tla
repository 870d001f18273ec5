-------------------------------- MODULE Launch --------------------------------
(***************************************************************************)
(* How a target comes to be inspected: the launcher starts or attaches to  *)
(* it through an injector, serves the probe its settings over a local      *)
(* socket, waits for the address of the probe's server, starts a client    *)
(* for it and decides when it is done.  In the target the main thread of   *)
(* the probe waits for the settings that a receiver thread fetches.        *)
(*                                                                         *)
(* An injector is a process (preload, style: the process is the target) or *)
(* a debugger (gdb, lldb).  A target that is a script may start several    *)
(* programs that the probe is loaded into; all of them know the launcher.  *)
(***************************************************************************)
EXTENDS Integers, Sequences

CONSTANT Probe    \* the programs of the target that the probe gets into

ASSUME ProbeAssumption == Probe # {} /\ "none" \notin Probe

VARIABLES
  options,   \* LaunchOptions, and whether probe and launcher speak one protocol version
  launcher,  \* LauncherPrivate, the event loop of the program and its exit status
  injector,  \* its process, and whether it holds an error; posted: queued injectorFinished()
  client,    \* m_process of ClientLauncher
  target,    \* the process that is inspected
  main,      \* main thread of a probe
  mutex,     \* m_mutex of its ProbeSettingsReceiver
  receiver,  \* its thread, and the calls queued in it
  socket,    \* the connection of a probe to the launcher, and the messages in it
  settings   \* the probe has its settings

vars == <<options, launcher, injector, client, target,
          main, mutex, receiver, socket, settings>>
targetVars == <<main, mutex, receiver, socket, settings>>

None == "none"

Options == { o \in [attach : BOOLEAN, debugger : BOOLEAN, ui : {"client", "inprocess", "none"},
                    listen : BOOLEAN, sameVersion : BOOLEAN] :
               (o.attach => o.debugger) /\ (~o.listen => o.ui = "inprocess") }

NewSocket == [state |-> "none", toProbe |-> <<>>, toLauncher |-> <<>>]

\* An attach may find a probe that an earlier launcher has left in the target.
Init ==
  /\ options \in Options
  /\ launcher = [phase |-> "new", state |-> {}, error |-> FALSE, exitCode |-> 0,
                 timer |-> FALSE, address |-> FALSE, quit |-> FALSE, result |-> 0,
                 socket |-> None, status |-> 0]
  /\ injector = [process |-> "none", error |-> FALSE, exitCode |-> 0, posted |-> 0]
  /\ client = "none"
  /\ target = IF options.attach THEN "running" ELSE "none"
  /\ main \in [Probe -> {"none", "listening", "silent"}]
  /\ \A p \in Probe : main[p] # "none" =>
       options.attach /\ \A q \in Probe \ {p} : main[q] = "none"
  /\ mutex = [p \in Probe |-> "free"]
  /\ receiver = [p \in Probe |-> [thread |-> "none", calls |-> <<>>]]
  /\ socket = [p \in Probe |-> NewSocket]
  /\ settings = [p \in Probe |-> FALSE]

-----------------------------------------------------------------------------
(* The launcher.  Its handlers are functions of its record. *)

\* QCoreApplication::exit(): of no effect before exec(), and the last call wins.
ExitWith(l, r) ==
  IF l.phase = "running" THEN [l EXCEPT !.quit = TRUE, !.result = r] ELSE l

\* emit finished(), which is connected to quit().
Finished(l) == ExitWith(l, 0)

CheckDone(l) ==
  CASE l.state \in {{"finished"}, {"finished", "client"}} -> Finished(l)
    [] "failed" \in l.state -> Finished([l EXCEPT !.exitCode = IF @ = 0 THEN 1 ELSE @])
    [] OTHER -> l

\* Mutant of Terminated: only a client of a launcher that has just failed is terminated.
TerminatedBefore(l, c) ==
  IF "failed" \in l.state /\ "client" \notin l.state /\ c = "running" THEN "terminated" ELSE c

\* checkDone() terminates the client of a launcher that has failed.
Terminated(l, c) == IF "failed" \in l.state /\ c = "running" THEN "terminated" ELSE c

InjectorError(l, code) ==
  CheckDone([l EXCEPT !.exitCode = code, !.error = TRUE, !.state = @ \cup {"failed"}])

\* Launcher::start(): there is no injector, or it cannot start its process; main() returns.
StartFailed ==
  /\ launcher.phase = "new"
  /\ launcher' = LET l == InjectorError(launcher, 1)
                 IN  [l EXCEPT !.phase = "exiting", !.status = l.exitCode,
                               !.timer = options.ui # "inprocess"]
  /\ UNCHANGED <<options, injector, client, target, targetVars>>

\* Launcher::start(): the injector has started its process, which restarts the timer.
Start ==
  /\ launcher.phase = "new"
  /\ launcher' = [launcher EXCEPT !.phase = "running", !.timer = TRUE]
  /\ injector' = [injector EXCEPT !.process = "running"]
  /\ target' = "running"
  /\ UNCHANGED <<options, client, targetVars>>

\* Mutant of InjectorFinished: without checkDone() when there was an error before.
InjectorFinishedQuietly ==
  /\ launcher.phase = "running" /\ injector.posted > 0
  /\ launcher' = IF launcher.error \/ "failed" \in launcher.state
                 THEN [launcher EXCEPT !.exitCode = injector.exitCode]
                 ELSE CheckDone([launcher EXCEPT !.exitCode = injector.exitCode,
                        !.error = injector.error,
                        !.state = @ \cup {IF injector.error THEN "failed" ELSE "finished"}])
  /\ injector' = [injector EXCEPT !.posted = @ - 1]
  /\ client' = Terminated(launcher', client)
  /\ UNCHANGED <<options, target, targetVars>>

\* Launcher::injectorFinished(), queued by finished() and, for a launch, by attached().
InjectorFinished ==
  /\ launcher.phase = "running" /\ injector.posted > 0
  /\ LET newError == ~launcher.error /\ injector.error
         failed   == newError \/ "failed" \in launcher.state
     IN  launcher' = CheckDone([launcher EXCEPT
           !.exitCode = injector.exitCode, !.error = @ \/ newError,
           !.state = @ \cup {IF failed THEN "failed" ELSE "finished"}])
  /\ injector' = [injector EXCEPT !.posted = @ - 1]
  /\ client' = Terminated(launcher', client)
  /\ UNCHANGED <<options, target, targetVars>>

\* Launcher::timeout(): the timer is one-shot.
Timeout ==
  /\ launcher.phase = "running" /\ launcher.timer
  /\ launcher' = CheckDone([launcher EXCEPT !.timer = FALSE, !.state = @ \cup {"failed"}])
  /\ client' = Terminated(launcher', client)
  /\ UNCHANGED <<options, injector, target, targetVars>>

\* Launcher::newConnection(): the first connection is served, and no other one.
NewConnection ==
  \E p \in Probe :
    /\ launcher.phase = "running" /\ launcher.socket = None
    /\ socket[p].state = "connected"
    /\ launcher' = [launcher EXCEPT !.socket = p]
    /\ socket' = [socket EXCEPT ![p].toProbe = <<"version", "settings">>]
    /\ UNCHANGED <<options, injector, client, target, main, mutex, receiver, settings>>

\* The rest of Launcher::readyRead() once there is an address.  attached() is connected
\* to quit(), too.
Announced(l, started) ==
  LET l1 == [l EXCEPT !.timer = FALSE, !.address = TRUE]
      l2 == IF options.ui = "client" /\ ~started THEN ExitWith(l1, 1) ELSE l1
      l3 == IF options.attach THEN ExitWith(l2, 0) ELSE l2
  IN  CheckDone([l3 EXCEPT !.state = @ \cup {"client"}])

\* Mutant of ReadyRead: the timer is stopped before there is an address.
ReadyReadStopsTimer ==
  \E p \in Probe :
    /\ launcher.phase = "running" /\ launcher.socket = p
    /\ socket[p].toLauncher # <<>>
    /\ socket' = [socket EXCEPT ![p].toLauncher = Tail(@)]
    /\ IF Head(socket[p].toLauncher) = "error"
       THEN launcher' = [launcher EXCEPT !.timer = FALSE] /\ UNCHANGED client
       ELSE \E started \in BOOLEAN :
              /\ launcher' = Announced(launcher, started)
              /\ client' = Terminated(launcher',
                   IF options.ui = "client" /\ started THEN "running" ELSE client)
    /\ UNCHANGED <<options, injector, target, main, mutex, receiver, settings>>

\* Launcher::readyRead(): a ServerLaunchError is printed and nothing else.
ReadyRead ==
  \E p \in Probe :
    /\ launcher.phase = "running" /\ launcher.socket = p
    /\ socket[p].toLauncher # <<>>
    /\ socket' = [socket EXCEPT ![p].toLauncher = Tail(@)]
    /\ IF Head(socket[p].toLauncher) = "error" THEN UNCHANGED <<launcher, client>>
       ELSE \E started \in BOOLEAN :   \* ClientLauncher::launch()
              /\ launcher' = Announced(launcher, started)
              /\ client' = Terminated(launcher',
                   IF options.ui = "client" /\ started THEN "running" ELSE client)
    /\ UNCHANGED <<options, injector, target, main, mutex, receiver, settings>>

\* SIGINT and the like, in the command line program.
Interrupt ==
  /\ launcher.phase = "running"
  /\ launcher' = ExitWith(launcher, 0)
  /\ UNCHANGED <<options, injector, client, target, targetVars>>

\* exec() returns and ~Launcher() stops the injector, with its process if that still runs.
\* A debugger that dies resumes its target or takes it along.
Exit ==
  /\ launcher.phase = "running" /\ launcher.quit
  /\ launcher' = [launcher EXCEPT !.phase = "exiting",
                    !.status = IF launcher.result = 0 THEN launcher.exitCode ELSE launcher.result]
  /\ injector' = [injector EXCEPT !.process = IF @ = "running" THEN "ended" ELSE @]
  /\ target' \in IF injector.process # "running" THEN {target}
                 ELSE IF options.debugger THEN {target, "ended"} ELSE {"ended"}
  /\ UNCHANGED <<options, client, targetVars>>

\* ~Launcher() waits for the client, and then the launcher is gone with its sockets.
Gone ==
  /\ launcher.phase = "exiting" /\ client \in {"none", "ended"}
  /\ launcher' = [launcher EXCEPT !.phase = "gone"]
  /\ socket' = [p \in Probe |-> IF socket[p].state = "connected"
                                THEN [socket[p] EXCEPT !.state = "lost"] ELSE socket[p]]
  /\ UNCHANGED <<options, injector, client, target, main, mutex, receiver, settings>>

ClientEnds ==
  /\ client \in {"running", "terminated"}
  /\ client' = "ended"
  /\ UNCHANGED <<options, launcher, injector, target, targetVars>>

-----------------------------------------------------------------------------
(* The injector and the target process. *)

\* Nothing of the target runs while a debugger holds it.
Runs == target = "running" /\ ~(options.debugger /\ injector.process = "running")

\* The process of the injector ends and finished() or attached() is emitted.
Reported(code, error) ==
  injector' = [injector EXCEPT !.process = "ended", !.exitCode = code, !.error = error,
                               !.posted = @ + 1]

\* ProcessInjector: the target ends, in a crash (processFailed()) or with an exit code.
TargetEnds ==
  /\ Runs /\ target' = "ended"
  /\ IF options.debugger \/ injector.process # "running" THEN UNCHANGED injector
     ELSE \E code \in {0, 1}, crash \in BOOLEAN : Reported(code, crash)
  /\ UNCHANGED <<options, launcher, client, targetVars>>

\* main[p] of a program in which no probe has anything to do.
AtRest == {"none", "listening", "silent"}

\* The probe gets into a program: by its start-up hook, or called by the debugger, which
\* holds one program only.  A ProbeCreator is queued in the main thread, if there is a
\* probe already one that has the address of its server sent again.
Inject(p) ==
  /\ target = "running" /\ injector.process = "running"
  /\ main[p] \in AtRest /\ receiver[p].thread = "none"
  /\ options.debugger => \A q \in Probe : main[q] \in AtRest
  /\ main' = [main EXCEPT ![p] = CASE @ = "none"      -> "queued"
                                   [] @ = "listening" -> "requeued"
                                   [] OTHER           -> "ignored"]
  /\ UNCHANGED <<options, launcher, injector, client, target, mutex, receiver, socket, settings>>

\* The debugger has injected the probe and detaches.
DebuggerDetaches ==
  /\ options.debugger /\ injector.process = "running" /\ target = "running"
  /\ \E p \in Probe : main[p] \notin AtRest
  /\ injector' = [injector EXCEPT !.process = "detached"]
  /\ UNCHANGED <<options, launcher, client, target, targetVars>>

\* DebuggerInjector::processFinished() without an error: attached() is connected for a
\* launch only.
DebuggerQuits ==
  /\ injector.process = "detached"
  /\ IF options.attach THEN injector' = [injector EXCEPT !.process = "ended"]
                       ELSE Reported(0, FALSE)
  /\ UNCHANGED <<options, launcher, client, target, targetVars>>

\* DebuggerInjector::setManualError() kills the debugger before it has injected.
DebuggerFails ==
  /\ options.debugger /\ injector.process = "running"
  /\ \A p \in Probe : main[p] \in AtRest
  /\ \E code \in {0, 1} : Reported(code, TRUE)
  /\ target' \in {target, "ended"}
  /\ UNCHANGED <<options, launcher, client, targetVars>>

-----------------------------------------------------------------------------
(* The probe: its main thread, and the thread of its ProbeSettingsReceiver. *)

\* ProbeCreator::createProbe() up to the wait in waitForSettingsReceived(), which holds
\* the mutex: from the constructor of the probe, or to send the address again.
CreateProbe(p) ==
  /\ Runs /\ main[p] \in {"queued", "requeued", "ignored"}
  /\ IF main[p] = "ignored"
     THEN main' = [main EXCEPT ![p] = "silent"] /\ UNCHANGED <<mutex, receiver>>
     ELSE /\ main' = [main EXCEPT ![p] = IF @ = "queued" THEN "locked" ELSE "relocked"]
          /\ mutex' = [mutex EXCEPT ![p] = "main"]
          /\ receiver' = [receiver EXCEPT ![p] = [thread |-> "running", calls |-> <<"run">>]]
  /\ UNCHANGED <<options, launcher, injector, client, target, socket, settings>>

\* QWaitCondition::wait() releases the mutex and blocks.
Wait(p) ==
  /\ Runs /\ main[p] \in {"locked", "relocked"}
  /\ main' = [main EXCEPT ![p] = IF @ = "locked" THEN "waiting" ELSE "rewaiting"]
  /\ mutex' = [mutex EXCEPT ![p] = "free"]
  /\ UNCHANGED <<options, launcher, injector, client, target, receiver, socket, settings>>

\* m_waitCondition.wakeAll(): lost if nobody waits.
WakeAll(p) == main' = [main EXCEPT ![p] = CASE @ = "waiting"   -> "ready"
                                            [] @ = "rewaiting" -> "reready"
                                            [] OTHER           -> @]

Call(p, c) == receiver' = [receiver EXCEPT ![p].calls = Append(@, c)]

\* Probe::delayedInit(): without settings from the launcher those of the environment
\* count, which a process it has started has inherited.
DelayedInit(p) ==
  /\ Runs /\ main[p] = "ready"
  /\ IF options.listen \/ (options.attach /\ ~settings[p])
     THEN \/ main' = [main EXCEPT ![p] = "listening"] /\ Call(p, "address")
          \/ main' = [main EXCEPT ![p] = "silent"] /\ Call(p, "error")
     ELSE main' = [main EXCEPT ![p] = "silent"] /\ UNCHANGED receiver
  /\ UNCHANGED <<options, launcher, injector, client, target, mutex, socket, settings>>

\* Probe::resendServerAddress() after the wait.
ResendServerAddress(p) ==
  /\ Runs /\ main[p] = "reready"
  /\ main' = [main EXCEPT ![p] = "listening"] /\ Call(p, "address")
  /\ UNCHANGED <<options, launcher, injector, client, target, mutex, socket, settings>>

\* The next call queued in the thread of the receiver.
Take(p, c) ==
  /\ Runs /\ receiver[p].thread = "running"
  /\ receiver[p].calls # <<>> /\ Head(receiver[p].calls) = c

ServerThere == launcher.phase \in {"running", "exiting"}

\* Mutant of Run: without the mutex that orders it after the wait.
RunUnordered(p) ==
  /\ Take(p, "run")
  /\ receiver' = [receiver EXCEPT ![p].calls = Tail(@)]
  /\ IF ServerThere
     THEN socket' = [socket EXCEPT ![p].state = "connected"] /\ UNCHANGED main
     ELSE WakeAll(p) /\ UNCHANGED socket
  /\ UNCHANGED <<options, launcher, injector, client, target, mutex, settings>>

\* Mutant of Run: the main thread goes on as soon as there is a connection.
RunWakes(p) ==
  /\ Take(p, "run") /\ mutex[p] = "free"
  /\ receiver' = [receiver EXCEPT ![p].calls = Tail(@)]
  /\ socket' = IF ServerThere THEN [socket EXCEPT ![p].state = "connected"] ELSE socket
  /\ WakeAll(p)
  /\ UNCHANGED <<options, launcher, injector, client, target, mutex, settings>>

\* ProbeSettingsReceiver::run(): connected, or on with what the environment says.
Run(p) ==
  /\ Take(p, "run") /\ mutex[p] = "free"
  /\ receiver' = [receiver EXCEPT ![p].calls = Tail(@)]
  /\ IF ServerThere
     THEN socket' = [socket EXCEPT ![p].state = "connected"] /\ UNCHANGED main
     ELSE WakeAll(p) /\ UNCHANGED socket
  /\ UNCHANGED <<options, launcher, injector, client, target, mutex, settings>>

\* ProbeSettingsReceiver::readyRead(): after another version the settings are read only
\* if they arrive later.
Receive(p) ==
  /\ Runs /\ receiver[p].thread = "running" /\ socket[p].toProbe # <<>>
  /\ LET arrived == Head(socket[p].toProbe)
         rejected == arrived = "version" /\ ~options.sameVersion
     IN  /\ \E rest \in {Tail(socket[p].toProbe)} \cup (IF rejected THEN {<<>>} ELSE {}) :
              socket' = [socket EXCEPT ![p].toProbe = rest]
         /\ settings' = [settings EXCEPT ![p] = @ \/ arrived = "settings"]
         /\ IF rejected \/ arrived = "settings" THEN WakeAll(p) ELSE UNCHANGED main
  /\ UNCHANGED <<options, launcher, injector, client, target, mutex, receiver>>

\* settingsReceivedFallback() when the connection is lost.
Disconnected(p) ==
  /\ Runs /\ receiver[p].thread = "running" /\ socket[p].state = "lost"
  /\ socket' = [socket EXCEPT ![p].state = "closed"]
  /\ WakeAll(p)
  /\ UNCHANGED <<options, launcher, injector, client, target, mutex, receiver, settings>>

\* sendServerAddress() and sendServerLaunchError(): of no effect without a connection,
\* otherwise the last thing the receiver does.
Send(p) ==
  \E c \in {"address", "error"} :
    /\ Take(p, c)
    /\ IF socket[p].state \in {"connected", "lost"}
       THEN /\ socket' = [socket EXCEPT ![p].state = "closed", ![p].toProbe = <<>>,
                                        ![p].toLauncher = <<c>>]
            /\ receiver' = [receiver EXCEPT ![p] = [thread |-> "done", calls |-> <<>>]]
       ELSE /\ receiver' = [receiver EXCEPT ![p].calls = Tail(@)]
            /\ UNCHANGED socket
    /\ UNCHANGED <<options, launcher, injector, client, target, main, mutex, settings>>

-----------------------------------------------------------------------------
LauncherSteps == \/ InjectorFinished \/ Timeout \/ NewConnection \/ ReadyRead \/ Exit \/ Gone
Others == \/ StartFailed \/ Start \/ Interrupt \/ ClientEnds \/ TargetEnds
          \/ DebuggerDetaches \/ DebuggerQuits \/ DebuggerFails
          \/ \E p \in Probe : Inject(p) \/ CreateProbe(p) \/ DelayedInit(p)
                               \/ ResendServerAddress(p) \/ Send(p)
ReceiverSteps(p) == Wait(p) \/ Run(p) \/ Receive(p) \/ Disconnected(p)

Next == LauncherSteps \/ Others \/ \E p \in Probe : ReceiverSteps(p)

\* The event loop of the launcher goes round, its timer ends, and a probe that has begun
\* to fetch its settings goes on.  The target, the debugger and the client may hang.
Fairness ==
  /\ WF_vars(InjectorFinished) /\ WF_vars(Timeout) /\ WF_vars(NewConnection)
  /\ WF_vars(ReadyRead) /\ WF_vars(Exit) /\ WF_vars(Gone)
  /\ \A p \in Probe : WF_vars(Wait(p)) /\ WF_vars(Run(p)) /\ WF_vars(Receive(p))
                       /\ WF_vars(Disconnected(p))

Spec     == Init /\ [][Next]_vars
FairSpec == Spec /\ Fairness

-----------------------------------------------------------------------------
Phases == {"new", "running", "exiting", "gone"}

\* The type of the state.
TypeOK ==
  /\ options \in Options
  /\ launcher \in [phase : Phases, state : SUBSET {"finished", "failed", "client"},
                   error : BOOLEAN, exitCode : {0, 1}, timer : BOOLEAN, address : BOOLEAN,
                   quit : BOOLEAN, result : {0, 1}, socket : Probe \cup {None},
                   status : {0, 1}]
  /\ injector \in [process : {"none", "running", "detached", "ended"}, error : BOOLEAN,
                   exitCode : {0, 1}, posted : {0, 1}]
  /\ client \in {"none", "running", "terminated", "ended"}
  /\ target \in {"none", "running", "ended"}
  /\ main \in [Probe -> AtRest \cup {"queued", "requeued", "ignored", "locked", "relocked",
                                     "waiting", "rewaiting", "ready", "reready"}]
  /\ mutex \in [Probe -> {"free", "main"}]
  /\ \A p \in Probe : /\ receiver[p].thread \in {"none", "running", "done"}
                      /\ receiver[p].calls \in {<<>>} \cup {<<c>> : c \in {"run", "address", "error"}}
                      /\ socket[p].state \in {"none", "connected", "lost", "closed"}
  /\ settings \in [Probe -> BOOLEAN]

(* No client is left running by a launcher that has failed, in whatever order the     *)
(* time-out, the end of the injector and the announcement of the server come          *)
(* (timeout(), injectorFinished(), readyRead(), checkDone()).                         *)
NoClientAfterFailure == "failed" \in launcher.state => client # "running"

(* A launcher that has failed says so by its exit status, whatever it still handles   *)
(* before the event loop ends (injectorFinished() takes over the code of the          *)
(* injector, exit() that of its caller).                                              *)
StatusTells ==
  launcher.phase \in {"exiting", "gone"} /\ "failed" \in launcher.state => launcher.status # 0

(* A probe that the launcher serves does not go on before it has its settings, unless *)
(* the launcher is gone or of another version (run(), readyRead(), wakeAll()).        *)
SettingsInTime ==
  \A p \in Probe :
    main[p] \in {"ready", "reready"} /\ options.sameVersion /\ socket[p].state = "connected" =>
      settings[p]

(* A target that waits for its settings goes on, or a launcher that is still there    *)
(* serves another program: the wake-up is not lost (waitForSettingsReceived(), run()). *)
WaitsEnd ==
  \A p \in Probe :
    main[p] \in {"waiting", "rewaiting"} ~>
      \/ main[p] \notin {"waiting", "rewaiting"} \/ ~Runs
      \/ ServerThere /\ launcher.socket \notin {None, p}

(* A launcher comes to know an address or it ends: neither a target that never        *)
(* answers nor a server that cannot listen keeps it waiting (restartTimer(),          *)
(* readyRead(), timeout()).                                                           *)
LauncherDecides == launcher.phase = "running" ~> launcher.address \/ launcher.phase # "running"
=============================================================================
