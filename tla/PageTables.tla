----------------------------- MODULE PageTables -----------------------------
(***************************************************************************)
(* The kernel's Sv39 page tables: their construction in bootstrap paging,  *)
(* the switch to them, and the mappings added afterwards.                  *)
(* arch/riscv64/paging.rs, paging/access.rs, paging/kernel.rs, and the     *)
(* loader's map_page of process/image.rs.                                  *)
(*                                                                         *)
(* One hart works on the tables with interrupts masked, so a call is one   *)
(* step; but it allocates tables on the way and may fail at every one of   *)
(* them, and what was done until then stays. The operators below take the  *)
(* memory m = [tables, supply, cleared] and return the memory a call       *)
(* leaves, with its result. How a frame is reached through the temporary   *)
(* window is the subject of FrameWindow; here access only fails for a      *)
(* frame that Sv39 cannot represent.                                       *)
(*                                                                         *)
(* A virtual page is its three table indices <<vpn2, vpn1, vpn0>>.  Which  *)
(* calls happen when is said in KernelMemory, where the heap is one of the *)
(* callers.                                                                *)
(***************************************************************************)
EXTENDS Integers, Sequences

CONSTANTS
  Vpn,            \* the indices of a table
  HighHalf,       \* the root indices of the upper half
  HeapSlot,       \* the root index of the heap range
  HeapTop,        \* the highest page of the heap range
  NullPage,       \* the page at address zero
  FixmapTable,    \* FIXMAP_TABLE_BASE
  FixmapFrame,    \* FIXMAP_FRAME_BASE, the page behind it
  MaxFrame,       \* the last frame below MAX_PHYSICAL_ADDRESS
  Layouts,        \* the pages into_kernel maps: kernel sections, then the DTB
  Targets,        \* the pages that mappings are requested for afterwards
  Supplies,       \* the frames the allocator hands out, in order
  Empty           \* a zero page-table entry

Pages == Vpn \X Vpn \X Vpn

Permissions == {"ReadOnly", "ReadWrite", "ReadExecute"}

\* The frame allocator hands out each frame once and none that the kernel or
\* the DTB occupies; the sections and the DTB are mapped at distinct pages
\* outside the fixmap and the heap.
ASSUME PlatformAssumption ==
  /\ HighHalf \subseteq Vpn /\ HeapSlot \in HighHalf
  /\ {HeapTop, NullPage, FixmapTable, FixmapFrame} \cup Targets \subseteq Pages
  /\ HeapTop[1] = HeapSlot
  /\ NullPage[1] \notin HighHalf
  /\ FixmapTable # FixmapFrame
  /\ FixmapTable[1] = FixmapFrame[1] /\ FixmapTable[2] = FixmapFrame[2]
  /\ FixmapTable[1] \in HighHalf \ {HeapSlot}
  /\ MaxFrame \in Nat
  /\ \A l \in Layouts :
       /\ l \in Seq([page : Pages, frame : 1 .. MaxFrame, permissions : Permissions])
       /\ \A i \in DOMAIN l :
            /\ l[i].page[1] \in HighHalf \ {HeapSlot}
            /\ l[i].page \notin {FixmapTable, FixmapFrame}
       /\ \A i, j \in DOMAIN l : i # j => l[i].page # l[j].page /\ l[i].frame # l[j].frame
  /\ \A supply \in Supplies :
       /\ supply \in Seq(Nat \ {0})
       /\ \A i, j \in DOMAIN supply : i # j => supply[i] # supply[j]
       /\ \A i \in DOMAIN supply, l \in Layouts :
            \A j \in DOMAIN l : supply[i] # l[j].frame

VARIABLES
  phase,          \* "bootstrap", "building", "ready", "active" or "failed"
  layout,         \* what into_kernel was given
  todo,           \* the pages of layout still to be mapped
  root,           \* the root table of the new address space
  memory,         \* the tables, the frames not handed out, the frames zeroed
  heap_claimed,   \* KernelPaging::heap_claimed
  result          \* the result of the latest call

vars == <<phase, layout, todo, root, memory, heap_claimed, result>>

-----------------------------------------------------------------------------
(* Frame and table access.                                                 *)

Done(m, frame) == [memory |-> m, result |-> "Ok", frame |-> frame]

Failed(m, error) == [memory |-> m, result |-> error, frame |-> Empty]

ZeroTable == [i \in Vpn |-> Empty]

\* page_table_entry accepts the frame's address.
Representable(frame) == frame <= MaxFrame

\* Variant: the frame is not taken out of the supply.
AllocateKept(m) ==
  IF m.supply = << >>
  THEN Failed(m, "OutOfPhysicalFrames")
  ELSE Done([m EXCEPT !.cleared = @ \cup {Head(m.supply)}], Head(m.supply))

\* frames.allocate() and zero_frame.
AllocateZeroed(m) ==
  IF m.supply = << >>
  THEN Failed(m, "OutOfPhysicalFrames")
  ELSE LET frame == Head(m.supply)
           taken == [m EXCEPT !.supply = Tail(m.supply)]
       IN  IF Representable(frame)
           THEN Done([taken EXCEPT !.cleared = @ \cup {frame}], frame)
           ELSE Failed(taken, "PhysicalAddressNotRepresentable")

\* A frame becomes an empty table.
WithTable(m, frame) ==
  [m EXCEPT !.tables = [f \in DOMAIN @ \cup {frame} |-> IF f = frame THEN ZeroTable ELSE @[f]]]

\* allocate_page_table: the zeroed frame is an empty table.
AllocatePageTable(m) ==
  LET a == AllocateZeroed(m)
  IN  IF a.result # "Ok" THEN a ELSE Done(WithTable(a.memory, a.frame), a.frame)

Link(frame) == [frame |-> frame, leaf |-> FALSE, permissions |-> "none", user |-> FALSE]

Leaf(frame, permissions, user) ==
  [frame |-> frame, leaf |-> TRUE, permissions |-> permissions, user |-> user]

\* write_page_table_entry.
Write(m, table, index, entry) == [m EXCEPT !.tables[table][index] = entry]

\* next_table: follow the link at index, or create the table.
NextTable(m, parent, index) ==
  LET entry == m.tables[parent][index]
      a == AllocatePageTable(m)
  IN  CASE entry # Empty /\ entry.leaf -> Failed(m, "InvalidIntermediateEntry")
        [] entry # Empty /\ ~entry.leaf -> Done(m, entry.frame)
        [] entry = Empty /\ a.result # "Ok" -> a
        [] OTHER -> Done(Write(a.memory, parent, index, Link(a.frame)), a.frame)

\* The last table on the way to a page.
LastTable(m, page) ==
  LET level_1 == NextTable(m, root, page[1])
  IN  IF level_1.result # "Ok" THEN level_1
      ELSE NextTable(level_1.memory, level_1.frame, page[2])

\* Variant: an existing leaf is overwritten before the error is reported.
InstallOverwrites(m, table, page, entry) ==
  IF m.tables[table][page[3]] # Empty
  THEN Failed(Write(m, table, page[3], entry), "PageAlreadyMapped")
  ELSE Done(Write(m, table, page[3], entry), entry.frame)

\* The leaf is written into an empty entry only.
Install(m, table, page, entry) ==
  IF m.tables[table][page[3]] # Empty
  THEN Failed(m, "PageAlreadyMapped")
  ELSE Done(Write(m, table, page[3], entry), entry.frame)

\* map_page of paging.rs.
MapPage(m, page, frame, permissions, user) ==
  LET level_0 == LastTable(m, page)
  IN  IF ~Representable(frame) THEN Failed(m, "PhysicalAddressNotRepresentable")
      ELSE IF level_0.result # "Ok" THEN level_0
      ELSE Install(level_0.memory, level_0.frame, page, Leaf(frame, permissions, user))

-----------------------------------------------------------------------------
(* into_kernel.                                                            *)

Init ==
  /\ phase = "bootstrap"
  /\ layout \in Layouts
  /\ todo = layout
  /\ root = Empty
  /\ \E supply \in Supplies :
       memory = [tables |-> << >>, supply |-> supply, cleared |-> {}]
  /\ heap_claimed = FALSE
  /\ result = "Ok"

\* Takes over what a call left; startup gives up on an error.
Outcome(r, next_phase) ==
  /\ memory' = r.memory
  /\ result' = r.result
  /\ phase' = IF r.result = "Ok" THEN next_phase ELSE "failed"

\* Sv39PageTable::new.
NewRoot ==
  /\ phase = "bootstrap"
  /\ LET r == AllocatePageTable(memory)
     IN  Outcome(r, "building") /\ root' = r.frame
  /\ UNCHANGED <<layout, todo, heap_claimed>>

\* map_range, one page of a section or of the DTB.
MapRangePage ==
  /\ phase = "building"
  /\ todo # << >>
  /\ LET next == Head(todo)
     IN  Outcome(MapPage(memory, next.page, next.frame, next.permissions, FALSE), "building")
  /\ todo' = Tail(todo)
  /\ UNCHANGED <<layout, root, heap_claimed>>

\* Variant: the frame window's own page is mapped to its table.
FixmapMisplaced(m) ==
  LET level_0 == LastTable(m, FixmapTable)
  IN  IF level_0.result # "Ok" THEN level_0
      ELSE MapPage(level_0.memory, FixmapFrame, level_0.frame, "ReadWrite", FALSE)

\* prepare_fixmap: the table of the window is mapped at the control page.
Fixmap(m) ==
  LET level_0 == LastTable(m, FixmapTable)
  IN  IF level_0.result # "Ok" THEN level_0
      ELSE IF level_0.memory.tables[level_0.frame][FixmapFrame[3]] # Empty
      THEN Failed(level_0.memory, "PageAlreadyMapped")
      ELSE MapPage(level_0.memory, FixmapTable, level_0.frame, "ReadWrite", FALSE)

PrepareFixmap ==
  /\ phase = "building"
  /\ todo = << >>
  /\ Outcome(Fixmap(memory), "ready")
  /\ UNCHANGED <<layout, todo, root, heap_claimed>>

\* activate_root; nothing can fail any more.
ActivateRoot ==
  /\ phase = "ready"
  /\ phase' = "active"
  /\ UNCHANGED <<layout, todo, root, memory, heap_claimed, result>>

-----------------------------------------------------------------------------
(* KernelPaging.                                                           *)

\* A call on the active address space; a failure is the caller's business.
Return(r) ==
  /\ memory' = r.memory
  /\ result' = r.result
  /\ UNCHANGED <<phase, layout, todo, root>>

\* Map a fresh zeroed frame, unless the address is refused after the frame was
\* taken.
MapFresh(m, page, permissions, user, refused, error) ==
  LET a == AllocateZeroed(m)
  IN  IF a.result # "Ok" THEN a
      ELSE IF refused THEN Failed(a.memory, error)
      ELSE MapPage(a.memory, page, a.frame, permissions, user)

\* Variant: only the null page is refused.
NullPageOnly(page) == page # NullPage

\* map_user_page accepts lower-half pages except the null page.
IsUserPage(page) == page[1] \notin HighHalf /\ page # NullPage

\* The loader's map_page: a fresh frame, zeroed, filled and mapped for the user.
MapUserPage(page, permissions) ==
  /\ phase = "active"
  /\ Return(MapFresh(memory, page, permissions, TRUE, ~IsUserPage(page), "VirtualAddressNotUser"))
  /\ UNCHANGED heap_claimed

\* install_page refuses lower-half pages and the frame window.
RefusedKernelPage(page) == page[1] \notin HighHalf \/ page = FixmapFrame

InHeap(page) == page[1] = HeapSlot

\* KernelPaging::map_page leaves a claimed heap range alone.
ReservedPage(page) == (heap_claimed /\ InHeap(page)) \/ RefusedKernelPage(page)

\* KernelPaging::map_page with a frame its caller allocated and zeroed.
MapKernelPage(page, permissions) ==
  /\ phase = "active"
  /\ Return(MapFresh(memory, page, permissions, FALSE, ReservedPage(page), "ReservedVirtualPage"))
  /\ UNCHANGED heap_claimed

\* KernelHeapBacking::map_page, inside the range of a claimed heap.
HeapPage(m, page) ==
  MapFresh(m, page, "ReadWrite", FALSE, RefusedKernelPage(page), "ReservedVirtualPage")

BackHeapPage(page) ==
  /\ phase = "active"
  /\ heap_claimed
  /\ InHeap(page)
  /\ Return(HeapPage(memory, page))
  /\ UNCHANGED heap_claimed

\* Variant: whatever the root entry holds is taken for free.
SlotUnchecked == TRUE

HeapSlotFree == memory.tables[root][HeapSlot] = Empty

-----------------------------------------------------------------------------
(* Properties.                                                             *)

\* What the hardware finds for a page, Empty when the walk ends early.
Walk(tables, page) ==
  LET e2 == tables[root][page[1]]
      e1 == IF e2 = Empty THEN Empty ELSE tables[e2.frame][page[2]]
  IN  IF e1 = Empty THEN Empty ELSE tables[e1.frame][page[3]]

Built == root # Empty

Translation == [page \in Pages |-> IF Built THEN Walk(memory.tables, page) ELSE Empty]

\* The occupied entries.
Slots ==
  {s \in (DOMAIN memory.tables) \X Vpn : memory.tables[s[1]][s[2]] # Empty}

Entry(s) == memory.tables[s[1]][s[2]]

\* Every frame has one place in the address space: no page table is reachable on
\* two ways, no data frame is mapped twice, and none is both, except for the
\* window's table, which the control page shows on purpose. The root is nowhere.
EachFrameOnce ==
  /\ \A s \in Slots : Entry(s).frame # root
  /\ \A s, t \in Slots :
       s # t /\ Entry(s).frame = Entry(t).frame =>
         \E u \in {s, t} : Entry(u) = Translation[FixmapTable] /\ u[2] = FixmapTable[3]
                           /\ u[1] = Entry(u).frame

\* A page is mapped for the user exactly in the lower half, where it shows a
\* zeroed frame of the allocator, never a table, a kernel section or the DTB.
UserIsolated ==
  \A page \in Pages :
    LET e == Translation[page]
    IN  e # Empty =>
          /\ e.user = (page[1] \notin HighHalf)
          /\ e.user =>
               /\ e.frame \in memory.cleared
               /\ e.frame \notin DOMAIN memory.tables
               /\ page # NullPage

\* The address space the hart switches to is complete: every section and DTB
\* page translates as the layout says, the control page shows the table that
\* holds the window's entry, and the window is closed. It stays so.
ActiveComplete ==
  phase \in {"ready", "active"} =>
    /\ \A i \in DOMAIN layout :
         Translation[layout[i].page] = Leaf(layout[i].frame, layout[i].permissions, FALSE)
    /\ Translation[FixmapTable] # Empty
    /\ Translation[FixmapTable].frame \in DOMAIN memory.tables
    /\ Walk(memory.tables, FixmapFrame) = Empty
    /\ memory.tables[Translation[FixmapTable].frame][FixmapTable[3]] = Translation[FixmapTable]

Space == INSTANCE AddressSpace WITH mapping <- Translation

\* The tables implement the address space their callers think of: a call that
\* succeeds adds one translation, of a frame no other page shows; a call that
\* fails part way leaves tables behind, but no translation is added, changed or
\* lost, whatever the order of calls and wherever frames run out.
ImplementsAddressSpace == Space!Spec

=============================================================================
