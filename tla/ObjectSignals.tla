---------------------------- MODULE ObjectSignals ----------------------------
(***************************************************************************)
(* What core/probe.h promises of objectCreated() and objectDestroyed():    *)
(* an object is announced while it exists, and withdrawn at the end of its *)
(* destructor or, for other threads, some time later, when its address may *)
(* be in use again.  Who listens keeps a set: an announcement of an object *)
(* that was announced already is no step here.                             *)
(***************************************************************************)
CONSTANT Obj

VARIABLES
  alive,   \* QObjects that exist
  shown    \* objects announced and not withdrawn since

TypeOK == alive \subseteq Obj /\ shown \subseteq Obj

Init == alive = {} /\ shown = {}

Construct(o) == o \notin alive /\ alive' = alive \cup {o} /\ UNCHANGED shown

\* ~QObject(): withdrawn here, or later from the probe's thread.
Delete(o) ==
  /\ o \in alive
  /\ alive' = alive \ {o}
  /\ shown' \in {shown, shown \ {o}}

Announce(o) ==
  /\ o \in alive \ shown
  /\ shown' = shown \cup {o}
  /\ UNCHANGED alive

\* Deleted before, or found below one of GammaRay's own objects.
Withdraw(o) ==
  /\ o \in shown
  /\ shown' = shown \ {o}
  /\ UNCHANGED alive

Next == \E o \in Obj : Construct(o) \/ Delete(o) \/ Announce(o) \/ Withdraw(o)

Spec == Init /\ [][Next]_<<alive, shown>>
=============================================================================
