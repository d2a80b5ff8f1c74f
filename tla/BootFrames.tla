----------------------------- MODULE BootFrames -----------------------------
(***************************************************************************)
(* The boot-time physical frame allocator,                                 *)
(* kernel/src/memory/frame/boot_allocator.rs.                              *)
(*                                                                         *)
(* The allocator scans the FDT's memory ranges in order, each trimmed to   *)
(* whole frames, moves a cursor forward and jumps over reserved ranges.    *)
(* It keeps no record of what it handed out: issued is a history variable, *)
(* and that no frame is issued twice, that no issued frame is reserved and *)
(* that nothing allocatable is lost all rest on the cursor alone.          *)
(*                                                                         *)
(* One step of the model is one iteration of the loop of allocate() or of  *)
(* the loop of advance_memory_range() it calls.                            *)
(***************************************************************************)
EXTENDS PhysRanges

CONSTANT Platforms      \* the validated boot environments the kernel may meet

ASSUME PlatformsAssumption ==
  Platforms \subseteq [memory : Seq(RangeEntry), kernel : PhysRange, dtb : PhysRange,
                       reservations : Seq(ReservationEntry),
                       reserved_memory : Seq(RangeEntry)]

ASSUME NoneIsNoCursor == None \notin [cursor : Nat, end : Nat]

VARIABLES
  platform,   \* fdt, kernel and dtb: what the allocator was built from
  claimed,    \* BOOT_FRAME_ALLOCATOR_CLAIMED
  outcome,    \* the result of the latest claim()
  calling,    \* a call of allocate() is in progress
  next,       \* memory_ranges: index of the next range the iterator yields
  current,    \* current: None or a CurrentMemoryRange
  issued,     \* history: start addresses of the frames returned, in order
  refused     \* history: some allocate() returned None

vars == <<platform, claimed, outcome, calling, next, current, issued, refused>>

Memory == platform.memory

\* fdt_range, on entries that satisfy the checks above.
FdtRange(e) == [start |-> e.address, end |-> e.address + e.size]

\* The reserved ranges in the order overlapping_reservation() consults them.
Reserved ==
  LET Listed == platform.reservations \o platform.reserved_memory
  IN  <<platform.kernel, platform.dtb>> \o [i \in DOMAIN Listed |-> FdtRange(Listed[i])]

-----------------------------------------------------------------------------
Init ==
  /\ platform \in Platforms
  /\ claimed = FALSE
  /\ outcome = None
  /\ calling = FALSE
  /\ next = 1
  /\ current = None
  /\ issued = << >>
  /\ refused = FALSE

\* validate_memory_ranges finds no two overlapping memory ranges.
MemoryIsDisjoint ==
  \A i, j \in DOMAIN Memory :
    i < j => ~Overlaps(FdtRange(Memory[i]), FdtRange(Memory[j]))

\* Variant: the one-shot flag is not consulted.
ClaimAgain ==
  /\ ~calling
  /\ UNCHANGED <<platform, calling, issued, refused>>
  /\ \/ /\ ~MemoryIsDisjoint
        /\ outcome' = "OverlappingMemoryRanges"
        /\ UNCHANGED <<claimed, next, current>>
     \/ /\ MemoryIsDisjoint
        /\ claimed' = TRUE
        /\ outcome' = "Ok"
        /\ next' = 1
        /\ current' = None

\* BootFrameAllocator::claim: validation first, then the one-shot flag. Only
\* the first success builds an allocator.
Claim ==
  /\ ~calling
  /\ UNCHANGED <<platform, calling, issued, refused>>
  /\ \/ /\ ~MemoryIsDisjoint
        /\ outcome' = "OverlappingMemoryRanges"
        /\ UNCHANGED <<claimed, next, current>>
     \/ /\ MemoryIsDisjoint
        /\ claimed
        /\ outcome' = "AlreadyClaimed"
        /\ UNCHANGED <<claimed, next, current>>
     \/ /\ MemoryIsDisjoint
        /\ ~claimed
        /\ claimed' = TRUE
        /\ outcome' = "Ok"
        /\ next' = 1
        /\ current' = None

\* Entry of allocate(): only the owner of a claimed allocator can call it.
Allocate ==
  /\ claimed
  /\ ~calling
  /\ calling' = TRUE
  /\ UNCHANGED <<platform, claimed, outcome, next, current, issued, refused>>

\* The part of the next memory range that consists of whole frames.
AlignedStart == AlignUp(FdtRange(Memory[next]).start)

AlignedEnd == AlignDown(FdtRange(Memory[next]).end)

HasCompleteFrame == AlignedStart # None /\ AlignedStart < AlignedEnd

\* advance_memory_range: the next range holds no complete frame, or the
\* alignment of its start overflows.
SkipRange ==
  /\ calling
  /\ current = None
  /\ next <= Len(Memory)
  /\ ~HasCompleteFrame
  /\ next' = next + 1
  /\ UNCHANGED <<platform, claimed, outcome, calling, current, issued, refused>>

\* advance_memory_range: start scanning the next range.
TakeRange ==
  /\ calling
  /\ current = None
  /\ next <= Len(Memory)
  /\ HasCompleteFrame
  /\ current' = [cursor |-> AlignedStart, end |-> AlignedEnd]
  /\ next' = next + 1
  /\ UNCHANGED <<platform, claimed, outcome, calling, issued, refused>>

\* allocate() returns None: no memory range remains.
ReturnNone ==
  /\ calling
  /\ current = None
  /\ next > Len(Memory)
  /\ calling' = FALSE
  /\ refused' = TRUE
  /\ UNCHANGED <<platform, claimed, outcome, next, current, issued>>

\* The indices of the reserved ranges that overlap the candidate frame, empty
\* reservations passed over.
Blocking(a) ==
  {i \in DOMAIN Reserved :
    /\ Reserved[i].start # Reserved[i].end
    /\ Overlaps(FrameRange(a), Reserved[i])}

\* overlapping_reservation returns the first of them.
OverlappingReservation(a) ==
  Reserved[CHOOSE i \in Blocking(a) : \A j \in Blocking(a) : i <= j]

\* Where the scan of the current range continues: at addr, or nowhere in it.
ContinueAt(addr) ==
  IF addr = None \/ addr >= current.end
  THEN None
  ELSE [cursor |-> addr, end |-> current.end]

\* Variant: the end of the reservation is rounded down.
SkipReservationDown ==
  /\ calling
  /\ current # None
  /\ Blocking(current.cursor) # {}
  /\ current' = ContinueAt(AlignDown(OverlappingReservation(current.cursor).end))
  /\ UNCHANGED <<platform, claimed, outcome, calling, next, issued, refused>>

\* allocate(): the candidate overlaps a reserved range, so the cursor moves to
\* the end of that range, rounded up.
SkipReservation ==
  /\ calling
  /\ current # None
  /\ Blocking(current.cursor) # {}
  /\ current' = ContinueAt(AlignUp(OverlappingReservation(current.cursor).end))
  /\ UNCHANGED <<platform, claimed, outcome, calling, next, issued, refused>>

\* allocate() returns the candidate frame.
ReturnFrame ==
  /\ calling
  /\ current # None
  /\ Blocking(current.cursor) = {}
  /\ issued' = Append(issued, current.cursor)
  /\ current' = ContinueAt(FrameRange(current.cursor).end)
  /\ calling' = FALSE
  /\ UNCHANGED <<platform, claimed, outcome, next, refused>>

\* One iteration of the loop of a call in progress.
Iterate == SkipRange \/ TakeRange \/ ReturnNone \/ SkipReservation \/ ReturnFrame

Next == Claim \/ Allocate \/ Iterate

Spec == Init /\ [][Next]_vars

\* A call in progress keeps running: it is straight-line supervisor code with
\* interrupts disabled. No caller is obliged to call.
FairSpec == Spec /\ WF_vars(Iterate)

-----------------------------------------------------------------------------
\* The fields of the allocator keep the types the code gives them; the cursor
\* and the end never leave the address space.
TypeOK ==
  /\ platform \in Platforms
  /\ claimed \in BOOLEAN
  /\ outcome \in {None, "Ok", "AlreadyClaimed", "OverlappingMemoryRanges"}
  /\ calling \in BOOLEAN
  /\ next \in 1 .. Len(Memory) + 1
  /\ current \in [cursor : Addrs, end : Addrs] \cup {None}
  /\ issued \in Seq(Addrs)
  /\ refused \in BOOLEAN

\* The documented invariant of CurrentMemoryRange, and why the expect() of
\* allocate() cannot fire: the cursor always starts a complete, representable
\* frame of the range the iterator yielded last.
CursorIsFrame ==
  current # None =>
    /\ IsFrameStart(current.cursor)
    /\ current.end % FrameSize = 0
    /\ current.cursor < current.end
    /\ next > 1
    /\ FdtRange(Memory[next - 1]).start <= current.cursor
    /\ current.end <= FdtRange(Memory[next - 1]).end

\* No physical frame is returned by two calls of allocate(), whatever was
\* skipped between them and however often claim() was tried again.
NoFrameIssuedTwice ==
  \A i, j \in DOMAIN issued : i # j => issued[i] # issued[j]

\* The frames the platform allows the kernel to use, byte by byte: a whole
\* frame inside one memory range, no byte of which is reserved.
Holds(r, b) == r.start <= b /\ b < r.end

ReservedByte(b) ==
  \/ Holds(platform.kernel, b)
  \/ Holds(platform.dtb, b)
  \/ \E i \in DOMAIN platform.reservations : Holds(FdtRange(platform.reservations[i]), b)
  \/ \E i \in DOMAIN platform.reserved_memory : Holds(FdtRange(platform.reserved_memory[i]), b)

BytesOf(a) == a .. a + FrameSize - 1

Allocatable ==
  {a \in Addrs :
    /\ a % FrameSize = 0
    /\ \E k \in DOMAIN Memory : \A b \in BytesOf(a) : Holds(FdtRange(Memory[k]), b)
    /\ \A b \in BytesOf(a) : ~ReservedByte(b)}

\* Every returned frame lies in RAM and touches neither the kernel image, nor
\* the DTB, nor any reservation.
OnlyAllocatableIssued == \A i \in DOMAIN issued : issued[i] \in Allocatable

\* The frame at a is a complete frame of memory range k.
FrameIn(a, k) ==
  /\ FdtRange(Memory[k]).start <= a
  /\ a + FrameSize <= FdtRange(Memory[k]).end

\* The scan is past the frame at a of memory range k.
Passed(a, k) == k < next /\ (k = next - 1 /\ current # None => a < current.cursor)

IsIssued(a) == \E i \in DOMAIN issued : issued[i] = a

\* None is returned only when every allocatable frame of the platform has been
\* handed out: jumping over reservations and trimming ranges loses no frame.
NothingLost == refused => \A a \in Allocatable : IsIssued(a)

\* Why the cursor alone is enough: what the scan has passed is exactly what was
\* issued, as far as it is allocatable, and the scan ends only past everything.
ScanIsExact ==
  /\ \A k \in DOMAIN Memory, a \in Allocatable :
       FrameIn(a, k) => (Passed(a, k) <=> IsIssued(a))
  /\ current # None => current.end = AlignDown(FdtRange(Memory[next - 1]).end)
  /\ refused => current = None /\ next > Len(Memory)

\* The frames not yet issued are the free ones of the contract.
Supply == INSTANCE FrameSupply WITH
  Frames <- Addrs,
  free <- Allocatable \ {issued[i] : i \in DOMAIN issued},
  granted <- issued,
  refused <- refused

\* The allocator implements the FrameAllocator contract: every step of its scan
\* grants a free frame, refuses because none is free, or changes nothing.
ImplementsFrameSupply == Supply!Spec

\* Every call of allocate() returns: the cursor cannot stand still.
AllocateReturns == calling ~> ~calling

=============================================================================
