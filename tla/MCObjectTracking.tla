-------------------------- MODULE MCObjectTracking --------------------------
(***************************************************************************)
(* Model values for the instances TLC checks: a is the application object  *)
(* (or a window), b an object of any thread, g one GammaRay creates.       *)
(***************************************************************************)
EXTENDS ObjectTracking

CONSTANTS a, b, g
=============================================================================
