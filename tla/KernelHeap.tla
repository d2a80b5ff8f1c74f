----------------------------- MODULE KernelHeap -----------------------------
(***************************************************************************)
(* The downward-growing kernel heap, kernel/src/memory/heap.rs.            *)
(*                                                                         *)
(* An allocation is placed below the cursor; the pages that cover it are   *)
(* then backed one by one, from the lower end of the backed suffix down,   *)
(* and only after the last one the cursor moves and the block is returned. *)
(* Any request for a page may fail and end the call half way. One step of  *)
(* the model is one request of back_to() or one entry or return of a call. *)
(*                                                                         *)
(* backed is the page table as far as the heap's range goes: map_page of   *)
(* the backing refuses a page that is mapped already.                      *)
(***************************************************************************)
EXTENDS Integers, Sequences

CONSTANTS
  PageSize,     \* FRAME_SIZE
  Ranges,       \* the virtual ranges new() may be given
  Layouts,      \* the layouts allocate() may be given
  None

ASSUME PageSizeAssumption == PageSize \in Nat \ {0}

ASSUME RangesAssumption ==
  Ranges \subseteq {r \in [start : Nat, end : Nat] : r.start < r.end}

ASSUME LayoutsAssumption == Layouts \subseteq [size : Nat, align : Nat \ {0}]

ASSUME HeapNoneAssumption == None \notin Nat \cup Layouts

VARIABLES
  range,          \* range: the complete reservation
  phase,          \* where the heap is: see Phases
  cursor,         \* cursor: exclusive upper bound of the next block
  mapped_start,   \* mapped_start: lower bound of the backed suffix
  request,        \* the layout of the latest call of allocate()
  address,        \* what the call in progress needs backed
  result,         \* the outcome of the latest call, "Ok" while it runs
  backed,         \* the mapped pages of the range
  blocks          \* history: the blocks returned, in order

vars == <<range, phase, cursor, mapped_start, request, address, result, backed, blocks>>

Phases == {"unclaimed", "building", "ready", "allocating", "failed"}

MaskDown(a, n) == a - (a % n)

Pages == {p \in range.start .. range.end - 1 : p % PageSize = 0}

-----------------------------------------------------------------------------
Init ==
  /\ range \in Ranges
  /\ phase = "unclaimed"
  /\ cursor = range.end
  /\ mapped_start = range.end
  /\ request = None
  /\ address = None
  /\ result = "Ok"
  /\ backed = {}
  /\ blocks = << >>

ValidRange ==
  /\ range.start # 0
  /\ range.start % PageSize = 0
  /\ range.end % PageSize = 0

\* Entry of new(), which claim_heap calls once: check the range, then back its
\* highest page.
New ==
  /\ phase = "unclaimed"
  /\ \/ /\ ~ValidRange
        /\ phase' = "failed"
        /\ result' = "InvalidRange"
        /\ UNCHANGED address
     \/ /\ ValidRange
        /\ phase' = "building"
        /\ address' = range.end - PageSize
        /\ UNCHANGED result
  /\ UNCHANGED <<range, cursor, mapped_start, request, backed, blocks>>

\* Variant: the block is aligned upwards.
PlacementUp(layout) ==
  LET a == MaskDown(cursor - layout.size + layout.align - 1, layout.align)
  IN  IF layout.size <= cursor /\ a >= range.start THEN a ELSE None

\* Variant: the first byte of the range is never used.
PlacementStrict(layout) ==
  LET a == MaskDown(cursor - layout.size, layout.align)
  IN  IF layout.size <= cursor /\ a > range.start THEN a ELSE None

\* The address allocate() computes: checked subtraction, masked alignment and
\* the lower bound of the range.
Placement(layout) ==
  LET a == MaskDown(cursor - layout.size, layout.align)
  IN  IF layout.size <= cursor /\ a >= range.start THEN a ELSE None

\* Entry of allocate().
Allocate(layout) ==
  /\ phase = "ready"
  /\ request' = layout
  /\ \/ /\ layout.size = 0
        /\ result' = "ZeroSizedAllocation"
        /\ UNCHANGED <<phase, address>>
     \/ /\ layout.size > 0
        /\ Placement(layout) = None
        /\ result' = "Exhausted"
        /\ UNCHANGED <<phase, address>>
     \/ /\ layout.size > 0
        /\ Placement(layout) # None
        /\ address' = Placement(layout)
        /\ phase' = "allocating"
        /\ result' = "Ok"
  /\ UNCHANGED <<range, cursor, mapped_start, backed, blocks>>

Calling == phase \in {"building", "allocating"}

\* Variant: backing starts above the page that holds the block's first byte.
FirstPageAbove == MaskDown(address + PageSize - 1, PageSize)

\* The lowest page the call in progress needs.
FirstPage == MaskDown(address, PageSize)

\* back_to: the next lower page is mapped and becomes part of the suffix.
BackPage ==
  /\ Calling
  /\ mapped_start > FirstPage
  /\ mapped_start - PageSize \notin backed
  /\ backed' = backed \cup {mapped_start - PageSize}
  /\ mapped_start' = mapped_start - PageSize
  /\ UNCHANGED <<range, phase, cursor, request, address, result, blocks>>

\* Variant: mapped_start is lowered before the page is requested.
BackPageFailsLate ==
  /\ Calling
  /\ mapped_start > FirstPage
  /\ mapped_start' = mapped_start - PageSize
  /\ result' = "Backing"
  /\ phase' = IF phase = "building" THEN "failed" ELSE "ready"
  /\ address' = None
  /\ UNCHANGED <<range, cursor, request, backed, blocks>>

\* back_to: the backing refuses the page, which ends the call. A failed new()
\* returns no heap.
BackPageFails ==
  /\ Calling
  /\ mapped_start > FirstPage
  /\ result' = "Backing"
  /\ phase' = IF phase = "building" THEN "failed" ELSE "ready"
  /\ address' = None
  /\ UNCHANGED <<range, cursor, mapped_start, request, backed, blocks>>

\* new() returns the heap.
ReturnHeap ==
  /\ phase = "building"
  /\ mapped_start <= FirstPage
  /\ phase' = "ready"
  /\ address' = None
  /\ UNCHANGED <<range, cursor, mapped_start, request, result, backed, blocks>>

\* allocate() moves the cursor and returns the block.
ReturnBlock ==
  /\ phase = "allocating"
  /\ mapped_start <= FirstPage
  /\ cursor' = address
  /\ blocks' = Append(blocks, [start |-> address, layout |-> request])
  /\ phase' = "ready"
  /\ address' = None
  /\ UNCHANGED <<range, mapped_start, request, result, backed>>

\* The steps of a call in progress.
Step == BackPage \/ BackPageFails \/ ReturnHeap \/ ReturnBlock

Next == New \/ (\E layout \in Layouts : Allocate(layout)) \/ Step

Spec == Init /\ [][Next]_vars

-----------------------------------------------------------------------------
\* The fields of the heap keep the types the code gives them; no subtraction
\* leaves the natural numbers.
TypeOK ==
  /\ range \in Ranges
  /\ phase \in Phases
  /\ cursor \in Nat
  /\ mapped_start \in Nat
  /\ request \in Layouts \cup {None}
  /\ address \in Nat \cup {None}
  /\ result \in {"Ok", "InvalidRange", "ZeroSizedAllocation", "Exhausted", "Backing"}
  /\ backed \in SUBSET Nat
  /\ blocks \in Seq([start : Nat, layout : Layouts])

\* The heap's only record of what is mapped is exact, however calls failed:
\* the mapped pages are those from mapped_start up, so that no page is requested
\* twice and none is assumed that was refused.
BackedIsSuffix == backed = {p \in Pages : mapped_start <= p}

\* Virtual space is consumed by returned blocks only: the cursor is where the
\* latest block starts, whatever requests failed since.
CursorAtLatestBlock ==
  cursor = IF blocks = << >> THEN range.end ELSE blocks[Len(blocks)].start

BlockEnd(b) == b.start + b.layout.size

\* Two returned blocks never share a byte.
BlocksDisjoint ==
  \A i, j \in DOMAIN blocks :
    i < j => BlockEnd(blocks[j]) <= blocks[i].start

\* Every returned block is aligned, inside the reservation, not at the null
\* address, and every byte of it lies in a mapped page.
BlocksUsable ==
  \A i \in DOMAIN blocks :
    LET b == blocks[i]
    IN  /\ b.start % b.layout.align = 0
        /\ b.start > 0
        /\ range.start <= b.start
        /\ BlockEnd(b) <= range.end
        /\ \A byte \in b.start .. BlockEnd(b) - 1 : MaskDown(byte, PageSize) \in backed

\* Reference for the placement: the addresses below the cursor that hold the
\* requested layout.
Fits(layout) ==
  {a \in range.start .. cursor :
     a % layout.align = 0 /\ a + layout.size <= cursor}

\* allocate() reports exhaustion only when no aligned address of the remaining
\* space holds the request, and otherwise tries the highest one that does.
PlacementIsExact ==
  /\ result = "Exhausted" => Fits(request) = {}
  /\ phase = "allocating" =>
       address \in Fits(request) /\ \A a \in Fits(request) : a <= address

=============================================================================
