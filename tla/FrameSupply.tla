----------------------------- MODULE FrameSupply -----------------------------
(***************************************************************************)
(* What the kernel expects of a source of physical frames (the contract of *)
(* the FrameAllocator trait, kernel/src/memory/frame.rs): every frame that *)
(* is handed out was free, is handed out once, and a request is refused    *)
(* only when nothing is free.                                              *)
(***************************************************************************)
EXTENDS Sequences

CONSTANT Frames       \* every frame the supply might ever hold

VARIABLES
  free,       \* the frames not handed out
  granted,    \* the frames handed out, in order
  refused     \* some request was refused

vars == <<free, granted, refused>>

Init ==
  /\ free \in SUBSET Frames
  /\ granted = << >>
  /\ refused = FALSE

Grant ==
  \E f \in free :
    /\ free' = free \ {f}
    /\ granted' = Append(granted, f)
    /\ UNCHANGED refused

Refuse ==
  /\ free = {}
  /\ refused' = TRUE
  /\ UNCHANGED <<free, granted>>

Next == Grant \/ Refuse

Spec == Init /\ [][Next]_vars

=============================================================================
