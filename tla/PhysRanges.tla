----------------------------- MODULE PhysRanges -----------------------------
(***************************************************************************)
(* Physical addresses, half-open physical ranges and frame alignment, as   *)
(* in kernel/src/memory.rs, memory/address.rs and memory/frame.rs.         *)
(*                                                                         *)
(* An address is a natural number up to MaxAddr, which stands for          *)
(* usize::MAX: an operation whose exact result would exceed it is the      *)
(* code's checked operation that yields None.                              *)
(***************************************************************************)
EXTENDS FdtEntries

CONSTANTS
  FrameSize,    \* FRAME_SIZE, the bytes of one physical frame
  None          \* Option::None

ASSUME FrameSizeAssumption == FrameSize \in Nat \ {0}

ASSUME NoneAssumption == None \notin Nat

\* A PhysRange: new() refuses start >= end, so a range is never empty.
PhysRange == {r \in [start : Addrs, end : Addrs] : r.start < r.end}

\* PhysAddr::checked_add.
CheckedAdd(a, n) == IF a + n <= MaxAddr THEN a + n ELSE None

\* Variant: a range that begins where the other ends counts as overlapping.
OverlapsTouching(r, s) == r.start < s.end /\ s.start <= r.end

\* PhysRange::overlaps: ranges that only meet at an endpoint do not overlap.
Overlaps(r, s) == r.start < s.end /\ s.start < r.end

\* align_up and align_down.
AlignUp(a) ==
  IF a % FrameSize = 0 THEN a ELSE CheckedAdd(a, FrameSize - (a % FrameSize))

AlignDown(a) == a - (a % FrameSize)

\* PhysFrame::from_start succeeds: the start is aligned and the frame's
\* exclusive end is representable.
IsFrameStart(a) == a % FrameSize = 0 /\ CheckedAdd(a, FrameSize) # None

\* PhysFrame::range of the frame that starts at a.
FrameRange(a) == [start |-> a, end |-> a + FrameSize]

=============================================================================
