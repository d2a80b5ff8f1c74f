----------------------------- MODULE Bootstrap -----------------------------
(***************************************************************************)
(* From the physical entry point to a readable device tree                 *)
(* (kernel/src/arch/riscv64/boot.rs, BootstrapPaging::claim and map_fdt of *)
(* kernel/src/arch/riscv64/paging.rs, main).                               *)
(*                                                                         *)
(* One root table of level-2 leaves carries the kernel through the switch  *)
(* to the higher half; map_fdt then adds the leaves of the DTB window      *)
(* while the table is live.  An entry is the gigapage it maps.  The hart   *)
(* may cache any entry at any moment translation is on, an empty one too,  *)
(* and uses what it cached until a fence.                                  *)
(***************************************************************************)
EXTENDS Integers, FiniteSets

CONSTANTS
  Gigapage,       \* bytes mapped by one entry
  TableEntries,   \* entries of the root table
  WindowFirst,    \* BOOT_FDT_WINDOW_VPN2: the first entry of the upper half
  HighEntry,      \* the entry of the kernel's link address
  MaxAddress,     \* MAX_PHYSICAL_ADDRESS
  Kernels,        \* gigapages the kernel may be loaded in, all in the lower half
  Dtbs,           \* addresses firmware may pass in a1
  MaxDtbSize,     \* largest total size of a DTB, u32::MAX
  MaxCached,      \* bound: entries cached at a time
  Zero,           \* the empty entry
  Stale           \* an entry or translation of whatever ran before

VARIABLES
  pc,       \* the next step
  index,    \* the window entry map_fdt installs next
  root,     \* __boot_page_table
  cached,   \* the translations the hart holds
  satp,     \* translation is on
  kernel,   \* the gigapage of the kernel image
  dtb       \* the physical address of the DTB

vars == <<pc, index, root, cached, satp, kernel, dtb>>

Slots == 0 .. TableEntries - 1

\* Variant: the size of the DTB alone is covered.
FourGigapages == 4

BOOT_FDT_WINDOW_GIGAPAGES == 5

Window == WindowFirst .. WindowFirst + BOOT_FDT_WINDOW_GIGAPAGES - 1

\* Identity entry of the kernel's gigapage.
Identity == kernel % TableEntries

Fixed == UNCHANGED <<kernel, dtb>>

\* The table is in memory nobody cleared; the caches are not known to be empty.
Init ==
  /\ pc = "_start"
  /\ index = 0
  /\ root = [slot \in Slots |-> Stale]
  /\ cached \in {[slot \in {} |-> Stale]} \cup {[slot \in {s} |-> Stale] : s \in Slots}
  /\ satp = FALSE
  /\ kernel \in Kernels
  /\ dtb \in Dtbs

\* The hart walks the table on its own account.
Speculate(slot) ==
  /\ satp
  /\ slot \notin DOMAIN cached
  /\ Cardinality(DOMAIN cached) < MaxCached
  /\ cached' = [s \in DOMAIN cached \cup {slot} |-> IF s = slot THEN root[s] ELSE cached[s]]
  /\ UNCHANGED <<pc, index, root, satp>>
  /\ Fixed

Empty == [slot \in {} |-> Zero]

ClearTable ==
  /\ pc = "_start"
  /\ root' = [slot \in Slots |-> Zero]
  /\ pc' = "map_kernel"
  /\ UNCHANGED <<index, cached, satp>>
  /\ Fixed

\* The identity entry, then the same gigapage at the kernel's link address.
MapKernel ==
  /\ pc = "map_kernel"
  /\ root' = [root EXCEPT ![Identity] = kernel, ![HighEntry] = kernel]
  /\ pc' = "fence"
  /\ UNCHANGED <<index, cached, satp>>
  /\ Fixed

\* Variant: only the fence behind the switch.
NoFence ==
  /\ pc = "fence"
  /\ pc' = "enable"
  /\ UNCHANGED <<index, root, cached, satp>>
  /\ Fixed

Fence ==
  /\ pc = "fence"
  /\ cached' = Empty
  /\ pc' = "enable"
  /\ UNCHANGED <<index, root, satp>>
  /\ Fixed

\* csrw satp: the next instruction is fetched through the identity entry.
Enable ==
  /\ pc = "enable"
  /\ satp' = TRUE
  /\ pc' = "fence_after"
  /\ UNCHANGED <<index, root, cached>>
  /\ Fixed

\* The second fence and the jump; __high_half_start enters main.
JumpHigh ==
  /\ pc = "fence_after"
  /\ cached' = Empty
  /\ pc' = "claim"
  /\ UNCHANGED <<index, root, satp>>
  /\ Fixed

\* BootstrapPaging::claim, for the only time: it fails only without Sv39.
Claim ==
  /\ pc = "claim"
  /\ pc' = IF satp THEN "map_fdt" ELSE "halted"
  /\ UNCHANGED <<index, root, cached, satp>>
  /\ Fixed

PhysicalBase == dtb - (dtb % Gigapage)

\* The address and every gigapage of the window can be represented.
WindowRepresentable ==
  /\ dtb <= MaxAddress
  /\ PhysicalBase + (BOOT_FDT_WINDOW_GIGAPAGES - 1) * Gigapage <= MaxAddress

\* map_fdt up to its first write: the whole window is validated; main halts on
\* an error.
ValidateWindow ==
  /\ pc = "map_fdt"
  /\ pc' = IF WindowRepresentable /\ \A slot \in Window : root[slot] = Zero
           THEN "install" ELSE "halted"
  /\ UNCHANGED <<index, root, cached, satp>>
  /\ Fixed

\* One leaf; page_table_entry checks the address once more.
Install ==
  /\ pc = "install"
  /\ index < BOOT_FDT_WINDOW_GIGAPAGES
  /\ LET address == PhysicalBase + index * Gigapage
     IN  IF address <= MaxAddress
         THEN /\ root' = [root EXCEPT ![WindowFirst + index] = address \div Gigapage]
              /\ index' = index + 1
              /\ UNCHANGED pc
         ELSE pc' = "halted" /\ UNCHANGED <<root, index>>
  /\ UNCHANGED <<cached, satp>>
  /\ Fixed

FlushAll ==
  /\ pc = "install"
  /\ index = BOOT_FDT_WINDOW_GIGAPAGES
  /\ cached' = Empty
  /\ pc' = "mapped"
  /\ UNCHANGED <<index, root, satp>>
  /\ Fixed

Next ==
  \/ \E slot \in Slots : Speculate(slot)
  \/ ClearTable \/ MapKernel \/ Fence \/ Enable \/ JumpHigh
  \/ Claim \/ ValidateWindow \/ Install \/ FlushAll

Spec == Init /\ [][Next]_vars

-----------------------------------------------------------------------------
\* The entry translates to the gigapage, whether or not the hart cached it.
Translates(slot, gigapage) ==
  /\ root[slot] = gigapage
  /\ slot \in DOMAIN cached => cached[slot] = gigapage

\* While translation is on, the kernel is mapped where it executes, and where
\* claim and map_fdt reach the root table: at its physical address and at its
\* link address, through every fence and every change of the live table.
KernelStaysMapped ==
  satp => Translates(Identity, kernel) /\ Translates(HighEntry, kernel)

\* The virtual address map_fdt returns, relative to the window.
DtbOffset == dtb % Gigapage

\* The DTB window is installed as a whole or not at all: every byte a DTB of any
\* admissible size may have is found behind the address map_fdt returns, also
\* when the DTB begins at the end of its gigapage, and a map_fdt that fails has
\* changed nothing.
DtbWindowWhole ==
  /\ pc = "mapped" =>
       \A byte \in 0 .. MaxDtbSize - 1 :
         LET slot == WindowFirst + (DtbOffset + byte) \div Gigapage
         IN  slot \in Window /\ Translates(slot, (dtb + byte) \div Gigapage)
  /\ pc = "halted" => \A slot \in Window : root[slot] = Zero

=============================================================================
