----------------------------- MODULE BootPaging -----------------------------
(***************************************************************************)
(* The stages of paging on one hart: the bootstrap root of Bootstrap, the  *)
(* frame window in its last entry while into_kernel builds the final       *)
(* tables, and the frame window of the kernel's own root after the switch. *)
(* arch/riscv64/paging.rs and paging/kernel.rs.                            *)
(*                                                                         *)
(* The bootstrap window shares root table and translation cache with the   *)
(* kernel's gigapages and the DTB window, so FrameWindow's leaf and cached *)
(* copy are those of one entry of Bootstrap. A frame counts as one unit of *)
(* a gigapage.                                                             *)
(***************************************************************************)
EXTENDS FrameWindow

CONSTANTS
  Gigapage, TableEntries, WindowFirst, HighEntry, MaxAddress, Kernels, Dtbs,
  MaxDtbSize, MaxCached, Stale      \* see Bootstrap

VARIABLES
  boot_pc, index, root, tlb, satp, kernel, dtb

boot_vars == <<boot_pc, index, root, tlb, satp, kernel, dtb>>

Boot == INSTANCE Bootstrap WITH pc <- boot_pc, cached <- tlb

\* BOOT_FRAME_WINDOW_VPN2, VPN_MASK.
FrameEntry == TableEntries - 1

\* An entry as a window's leaf, and back: a gigapage is known by its first frame.
LeafOf(entry) == IF entry \in {Zero, Stale} THEN entry ELSE entry * Gigapage

EntryOf(leaf) == IF leaf = Zero THEN Zero ELSE leaf \div Gigapage

CachedLeaf == IF FrameEntry \in DOMAIN tlb THEN LeafOf(tlb[FrameEntry]) ELSE None

PagingInit ==
  /\ Boot!Init
  /\ region_size = Gigapage
  /\ pc = "unclaimed"
  /\ frame = None
  /\ slot = LeafOf(root[FrameEntry])
  /\ cached = CachedLeaf
  /\ result = "Ok"

\* A step of _start, claim or map_fdt, or the hart caches an entry of the
\* bootstrap root. There is a window once the root is claimed.
BootStep ==
  /\ boot_pc # "kernel"
  /\ Boot!Next
  /\ slot' = LeafOf(root'[FrameEntry])
  /\ cached' = CachedLeaf'
  /\ pc' = IF boot_pc = "claim" /\ boot_pc' = "map_fdt" THEN "idle" ELSE pc
  /\ UNCHANGED <<region_size, frame, result>>

WindowStep == (\E f \in Frames : Open(f)) \/ Step

\* BootstrapPaging::with_frame, used by into_kernel behind map_fdt. Its fences
\* concern one entry.
BootWindow ==
  /\ boot_pc = "mapped"
  /\ WindowStep
  /\ root' = [root EXCEPT ![FrameEntry] = EntryOf(slot')]
  /\ tlb' = [s \in DOMAIN tlb \ (IF cached' = None THEN {FrameEntry} ELSE {}) |-> tlb[s]]
  /\ UNCHANGED <<boot_pc, index, satp, kernel, dtb>>

\* activate_root: the kernel's root, with its own closed window, takes over.
Activate ==
  /\ boot_pc = "mapped"
  /\ pc = "idle"
  /\ boot_pc' = "kernel"
  /\ tlb' = Boot!Empty
  /\ region_size' = 1
  /\ slot' = Zero
  /\ cached' = None
  /\ UNCHANGED <<index, root, satp, kernel, dtb, pc, frame, result>>

\* KernelPaging::with_frame.
KernelWindow ==
  /\ boot_pc = "kernel"
  /\ Speculate \/ WindowStep
  /\ UNCHANGED boot_vars

PagingNext == BootStep \/ BootWindow \/ Activate \/ KernelWindow

PagingSpec == PagingInit /\ [][PagingNext]_<<vars, boot_vars>>

-----------------------------------------------------------------------------
\* The kernel stays mapped where _start, claim, map_fdt and into_kernel execute,
\* at its physical and at its link address, while the DTB window is installed
\* and frame windows open and close in the same live table.
KernelStaysMapped == Boot!KernelStaysMapped

\* The DTB window is installed as a whole or not at all, for a DTB of any size
\* at any place in its gigapage, and stays whole while into_kernel reads the DTB
\* between, and through, its accesses to other frames.
DtbWindowWhole == Boot!DtbWindowWhole

=============================================================================
