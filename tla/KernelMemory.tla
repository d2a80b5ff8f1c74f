---------------------------- MODULE KernelMemory ----------------------------
(***************************************************************************)
(* The memory state of the running kernel, memory/allocator.rs: the heap   *)
(* of KernelHeap with the tables and frames of PageTables as its backing,  *)
(* from bootstrap paging through init_kernel_allocator of main.rs to the   *)
(* calls of alloc and with_paging in any order.                            *)
(*                                                                         *)
(* The heap works on addresses, the tables on pages; a request of back_to  *)
(* is one step of both, whose outcome the tables decide. The gate of       *)
(* KernelAllocator is held for a whole call, so mappings for the user and  *)
(* the kernel happen between heap calls only.                              *)
(***************************************************************************)
EXTENDS PageTables

CONSTANTS
  Fanout,         \* the entries of a table
  PageSize,       \* FRAME_SIZE
  HeapLayouts,    \* the layouts alloc may be given
  None

ASSUME FanoutAssumption == Vpn = 0 .. Fanout - 1

VARIABLES         \* the heap, see KernelHeap
  heap_range, heap_phase, cursor, mapped_start, request, address, heap_result,
  backed, blocks

heap_vars ==
  <<heap_range, heap_phase, cursor, mapped_start, request, address, heap_result, backed, blocks>>

\* The number of a page: the address without the offset and the sign bits.
Number(page) == (page[1] * Fanout + page[2]) * Fanout + page[3]

\* The table indices of an address.
PageAt(a) ==
  LET n == a \div PageSize
  IN  <<n \div (Fanout * Fanout), (n \div Fanout) % Fanout, n % Fanout>>

\* HEAP_RANGE, up to the top of the modelled part of its root slot.
HeapRange ==
  [start |-> PageSize * Number(<<HeapSlot, 0, 0>>), end |-> PageSize * (Number(HeapTop) + 1)]

Heap == INSTANCE KernelHeap WITH
  Ranges <- {HeapRange}, range <- heap_range, Layouts <- HeapLayouts,
  phase <- heap_phase, result <- heap_result

-----------------------------------------------------------------------------
MemoryInit == Init /\ Heap!Init

\* into_kernel, before there is a heap.
BuildTables ==
  /\ NewRoot \/ MapRangePage \/ PrepareFixmap \/ ActivateRoot
  /\ UNCHANGED heap_vars

\* claim_heap: a root slot in use ends start-up; a free one is reserved and
\* given to KernelHeap::new.
Claim ==
  /\ phase = "active"
  /\ heap_phase = "unclaimed"
  /\ \/ /\ ~HeapSlotFree
        /\ Return(Failed(memory, "RootEntryInUse"))
        /\ heap_phase' = "failed"
        /\ UNCHANGED <<heap_claimed, heap_range, cursor, mapped_start, request, address,
                       heap_result, backed, blocks>>
     \/ /\ HeapSlotFree
        /\ heap_claimed' = TRUE
        /\ Heap!New
        /\ UNCHANGED <<phase, layout, todo, root, memory, result>>

\* A later claim_heap, inside with_paging, is refused.
ClaimAgain ==
  /\ phase = "active"
  /\ heap_phase = "ready"
  /\ heap_claimed
  /\ Return(Failed(memory, "KernelHeapAlreadyClaimed"))
  /\ UNCHANGED heap_claimed
  /\ UNCHANGED heap_vars

\* Entry of alloc once the allocator is initialized.
Alloc(l) ==
  /\ Heap!Allocate(l)
  /\ UNCHANGED vars

\* One request of back_to to KernelHeapBacking.
Back ==
  /\ Heap!Calling
  /\ mapped_start > Heap!FirstPage
  /\ BackHeapPage(PageAt(mapped_start - PageSize))
  /\ IF result' = "Ok" THEN Heap!BackPage ELSE Heap!BackPageFails

\* KernelHeap::new returns and init_kernel_allocator hands heap, paging and
\* frames to the allocator; or allocate returns.
Finish ==
  /\ Heap!ReturnHeap \/ Heap!ReturnBlock
  /\ UNCHANGED vars

\* No heap call is in progress: the paging state is with start-up, or behind
\* the gate.
Idle == heap_phase \in {"unclaimed", "ready"}

\* KernelPaging::map_page, before or after the heap is claimed.
MapForKernel(page) ==
  /\ Idle
  /\ MapKernelPage(page, "ReadWrite")
  /\ UNCHANGED heap_vars

\* The loader inside with_paging, which needs the initialized state.
MapForUser(page) ==
  /\ heap_phase = "ready"
  /\ MapUserPage(page, "ReadWrite")
  /\ UNCHANGED heap_vars

MemoryNext ==
  \/ BuildTables
  \/ Claim \/ ClaimAgain
  \/ \E l \in HeapLayouts : Alloc(l)
  \/ Back
  \/ Finish
  \/ \E page \in Targets : MapForKernel(page) \/ MapForUser(page)

MemorySpec == MemoryInit /\ [][MemoryNext]_<<vars, heap_vars>>

-----------------------------------------------------------------------------
(* Properties.                                                             *)

Bytes(block) == block.start .. block.start + block.layout.size - 1

\* A block that alloc returned is memory, and the caller's alone: every byte
\* translates to a writable kernel page whose zeroed frame no other page shows
\* and no table occupies, and no byte belongs to two blocks. It stays so when
\* frames run out and whatever is mapped later.
BlocksOwned ==
  /\ \A i \in DOMAIN blocks : \A byte \in Bytes(blocks[i]) :
       LET page == PageAt(byte)
           e == Translation[page]
       IN  /\ e # Empty
           /\ e = Leaf(e.frame, "ReadWrite", FALSE)
           /\ e.frame \in memory.cleared \ (DOMAIN memory.tables)
           /\ \A other \in Pages \ {page} :
                Translation[other] # Empty => Translation[other].frame # e.frame
  /\ \A i, j \in DOMAIN blocks : i # j => Bytes(blocks[i]) \cap Bytes(blocks[j]) = {}

\* A heap call that fails for its backing fails for want of a usable frame: the
\* page it asks for is never mapped already, reserved, or behind a broken table,
\* whatever was mapped before the claim or between the calls.
BackingFailsForFrames ==
  [][Back /\ result' # "Ok" =>
       result' \in {"OutOfPhysicalFrames", "PhysicalAddressNotRepresentable"}]_<<vars, heap_vars>>

=============================================================================
