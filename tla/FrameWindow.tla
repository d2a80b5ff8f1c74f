---------------------------- MODULE FrameWindow ----------------------------
(***************************************************************************)
(* Temporary access to a physical frame through a window: with_frame of    *)
(* BootstrapPaging (arch/riscv64/paging.rs), whose one leaf maps a whole   *)
(* region around the frame, and with_frame of KernelPaging                 *)
(* (paging/kernel.rs), whose leaf maps one frame.                          *)
(*                                                                         *)
(* The hart may put the current value of the leaf, valid or not, into its  *)
(* translation cache at any time; sfence.vma empties it. What an access    *)
(* through the window reaches is what the cache says, if it says anything. *)
(***************************************************************************)
EXTENDS Integers

CONSTANTS
  RegionSizes,    \* frames per leaf: a gigapage's worth, and one
  Frames,         \* the frames with_frame may be given
  MaxFrame,       \* the last frame below MAX_PHYSICAL_ADDRESS
  None            \* nothing cached; no frame

ASSUME WindowAssumption ==
  /\ RegionSizes \subseteq Nat \ {0}
  /\ Frames \subseteq Nat
  /\ MaxFrame \in Nat
  /\ None \notin Int

\* The zero page-table entry.
Zero == -1

VARIABLES
  region_size,    \* which of the two windows this is
  pc,             \* where with_frame is
  frame,          \* its argument
  slot,           \* the leaf: Zero or the first frame of the mapped region
  cached,         \* the cached copy of the leaf
  result          \* the result of the latest call, "Ok" while it runs

vars == <<region_size, pc, frame, slot, cached, result>>

Init ==
  /\ region_size \in RegionSizes
  /\ pc = "idle"
  /\ frame = None
  /\ slot = Zero
  /\ cached = None
  /\ result = "Ok"

\* The hart caches the leaf.
Speculate ==
  /\ cached' = slot
  /\ UNCHANGED <<region_size, pc, frame, slot, result>>

\* The mapped region begins at a multiple of its size.
Base(f) == f - (f % region_size)

\* The window address keeps the frame's offset in the region.
Offset(f) == f % region_size

Representable(f) == f <= MaxFrame

\* with_frame up to the write of the leaf, with its early returns (the two
\* windows make the two checks in different orders).
Open(f) ==
  /\ pc = "idle"
  /\ \/ /\ slot # Zero \/ ~Representable(f)
        /\ result' = IF slot # Zero THEN "InUse" ELSE "PhysicalAddressNotRepresentable"
        /\ UNCHANGED <<pc, frame, slot>>
     \/ /\ slot = Zero
        /\ Representable(f)
        /\ slot' = Base(f)
        /\ frame' = f
        /\ pc' = "flush_new"
        /\ result' = "Ok"
  /\ UNCHANGED <<region_size, cached>>

\* Variant: the fence behind the write of the leaf is missing.
FlushNothing ==
  /\ pc = "flush_new"
  /\ pc' = "operate"
  /\ UNCHANGED <<region_size, frame, slot, cached, result>>

\* flush_address behind the write of the leaf.
FlushNew ==
  /\ pc = "flush_new"
  /\ cached' = None
  /\ pc' = "operate"
  /\ UNCHANGED <<region_size, frame, slot, result>>

\* The operation is over: the leaf is cleared.
Clear ==
  /\ pc = "operate"
  /\ slot' = Zero
  /\ pc' = "flush_old"
  /\ UNCHANGED <<region_size, frame, cached, result>>

\* flush_address and return.
FlushOld ==
  /\ pc = "flush_old"
  /\ cached' = None
  /\ frame' = None
  /\ pc' = "idle"
  /\ UNCHANGED <<region_size, slot, result>>

Step == FlushNew \/ Clear \/ FlushOld

Next == Speculate \/ (\E f \in Frames : Open(f)) \/ Step

Spec == Init /\ [][Next]_vars

-----------------------------------------------------------------------------
\* The leaf an access uses.
Translation == IF cached = None THEN slot ELSE cached

\* During the operation every access through the window reaches the frame that
\* was asked for, whatever the hart cached before, in between or meanwhile, and
\* outside a call the window is closed: no leaf, and no cached one either,
\* through which the last frame could still be written.
WindowExact ==
  /\ pc = "operate" => Translation # Zero /\ Translation + Offset(frame) = frame
  /\ pc = "idle" => slot = Zero /\ cached \in {Zero, None}

=============================================================================
