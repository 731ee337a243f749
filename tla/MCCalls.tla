-------------------------------- MODULE MCCalls --------------------------------
(***************************************************************************)
(* Slots for model-checking Calls.                                         *)
(***************************************************************************)
EXTENDS Calls

CONSTANTS a, b, c

\* c calls services and provides none.
TwoProviders == {a, b}
==============================================================================
