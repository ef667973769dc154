---------------------------- MODULE MCDispatcher ----------------------------
(* Model values for the model-checking run of Dispatcher.                  *)
EXTENDS Dispatcher

CONSTANTS k1, k2
=============================================================================
