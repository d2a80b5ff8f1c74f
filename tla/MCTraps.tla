------------------------------ MODULE MCTraps ------------------------------
(***************************************************************************)
(* Traps with enough timer events for two ticks before user mode and two   *)
(* or more in user mode and in the idle loop.                              *)
(***************************************************************************)
EXTENDS Traps

MCMaxTicks == 5

=============================================================================
