------------------------- MODULE FrameWindowProofs -------------------------
(***************************************************************************)
(* The window shows the frame that was asked for, for every region size,   *)
(* every frame and whatever the hart caches.                               *)
(***************************************************************************)
EXTENDS FrameWindow, AlignmentTheorems

\* The leaf belongs to the frame from its write to its clearing, and the cache
\* may disagree with it only before a fence.
WindowInv ==
  /\ region_size \in Nat \ {0}
  /\ pc \in {"idle", "flush_new", "operate", "flush_old"}
  /\ pc = "idle" => slot = Zero
  /\ pc = "flush_old" => slot = Zero
  /\ pc \in {"flush_new", "operate"} => frame \in Nat /\ slot = Base(frame)
  /\ pc \in {"idle", "operate"} => cached \in {slot, None}

\* Region base and offset make the frame again.
LEMMA BaseOffset ==
  ASSUME NEW f \in Nat, region_size \in Nat \ {0}
  PROVE  Base(f) \in Nat /\ Base(f) + Offset(f) = f
<1>1. f % region_size \in 0 .. region_size - 1
  BY DivMod, Zenon
<1>2. PICK q \in Nat : f = region_size * q + (f % region_size)
  BY DivMod, Zenon
<1>3. region_size * q \in Nat
  BY SMTT(30)
<1> QED
  BY <1>1, <1>2, <1>3 DEF Base, Offset

\* For every size of the region, every frame and any caching by the hart, an
\* access through with_frame's window reaches the frame that was asked for, and
\* no translation to it is left when the call is over.
THEOREM WindowShowsFrame == Spec => []WindowExact
<1>1. Init => WindowInv
  BY WindowAssumption DEF Init, WindowInv
<1>2. ASSUME WindowInv, [Next]_vars
      PROVE  WindowInv'
  <2>1. CASE Speculate
    BY <1>2, <2>1 DEF Speculate, WindowInv, Base
  <2>2. ASSUME NEW f \in Frames, Open(f)
        PROVE  WindowInv'
    <3>1. f \in Nat
      BY WindowAssumption
    <3>2. region_size' = region_size /\ cached' = cached /\ pc = "idle"
      BY <2>2 DEF Open
    <3>3. CASE UNCHANGED <<pc, frame, slot>>
      BY <1>2, <3>2, <3>3 DEF WindowInv, Base
    <3>4. CASE slot' = Base(f) /\ frame' = f /\ pc' = "flush_new"
      BY <1>2, <3>1, <3>2, <3>4 DEF WindowInv, Base
    <3> QED
      BY <2>2, <3>3, <3>4 DEF Open
  <2>3. CASE FlushNew
    BY <1>2, <2>3 DEF FlushNew, WindowInv, Base
  <2>4. CASE Clear
    BY <1>2, <2>4 DEF Clear, WindowInv, Base
  <2>5. CASE FlushOld
    BY <1>2, <2>5 DEF FlushOld, WindowInv, Base
  <2>6. CASE UNCHANGED vars
    BY <1>2, <2>6 DEF vars, WindowInv, Base
  <2> QED
    BY <1>2, <2>1, <2>2, <2>3, <2>4, <2>5, <2>6 DEF Next, Step
<1>3. ASSUME WindowInv
      PROVE  WindowExact
  <2>1. pc = "operate" => Translation # Zero /\ Translation + Offset(frame) = frame
    <3> SUFFICES ASSUME pc = "operate"
                 PROVE  Translation # Zero /\ Translation + Offset(frame) = frame
      OBVIOUS
    <3>1. Translation = Base(frame) /\ frame \in Nat
      BY <1>3 DEF WindowInv, Translation
    <3>2. Base(frame) \in Nat /\ Base(frame) + Offset(frame) = frame
      BY <1>3, <3>1, BaseOffset DEF WindowInv
    <3> QED
      BY <3>1, <3>2 DEF Zero
  <2>2. pc = "idle" => slot = Zero /\ cached \in {Zero, None}
    BY <1>3 DEF WindowInv
  <2> QED
    BY <2>1, <2>2 DEF WindowExact
<1> QED
  BY <1>1, <1>2, <1>3, PTL DEF Spec

=============================================================================
