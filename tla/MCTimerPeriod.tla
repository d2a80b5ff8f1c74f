--------------------------- MODULE MCTimerPeriod ---------------------------
(***************************************************************************)
(* Instances of TimerPeriod: 4 nanoseconds in a second and a counter that  *)
(* ends at 15.                                                             *)
(***************************************************************************)
EXTENDS TimerPeriod

MCFrequencies == 1 .. 9

MCPeriods == 0 .. 9 \cup {100}

=============================================================================
