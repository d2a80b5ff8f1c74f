--------------------------- MODULE KernelMapping ---------------------------
(***************************************************************************)
(* into_kernel on addresses and words: which pages the sections and the    *)
(* DTB cover, where they lie in physical memory, and what the entries that *)
(* map_range writes mean to the hardware. arch/riscv64/paging.rs,          *)
(* paging/kernel.rs and the section ranges of memory.rs.                   *)
(*                                                                         *)
(* PageTables has the same construction with pages and entries taken for   *)
(* granted, and what follows it; here it ends before prepare_fixmap.       *)
(***************************************************************************)
EXTENDS Sv39, Sequences, TLC

CONSTANTS
  Images,         \* what into_kernel may be given
  TableFrames,    \* the frames allocate returns, in order, in several runs
  NoRoot

\* Frames of tables are pages that an entry can name.
ASSUME TableFramesAssumption ==
  \A f \in TableFrames : \A i \in DOMAIN f :
    f[i] \in Words /\ f[i] % PageSize = 0 /\ f[i] <= MaxPhysicalAddress

VARIABLES
  image,          \* the sections, physical start and DTB given
  at,             \* "entry", "ranges", "pages", "mapped" or "failed"
  todo,           \* the ranges still to map
  span,           \* the pages of the range in progress still to map
  root,
  memory,         \* the tables, and the frames not handed out
  result

vars == <<image, at, todo, span, root, memory, result>>

NoSpan == [virtual |-> 0, physical |-> 0, count |-> 0, permissions |-> "ReadOnly"]

Init ==
  /\ image \in Images
  /\ at = "entry"
  /\ todo = << >>
  /\ span = NoSpan
  /\ root = NoRoot
  /\ memory \in [tables : {<< >>}, supply : TableFrames]
  /\ result = "Ok"

Fail(error) ==
  /\ at' = "failed"
  /\ result' = error
  /\ UNCHANGED <<todo, span, root>>

PageDown(address) == address - (address % PageSize)

-----------------------------------------------------------------------------
(* Ranges.                                                                 *)

\* Variant: the pages are counted from the size alone.
DtbCoverFromSize ==
  LET start == PageDown(image.dtb_virtual)
  IN  [start |-> start,
       end |-> start + PageDown(image.dtb.end - image.dtb.start + PageSize - 1)]

\* dtb_page_mapping: the pages the DTB covers at its alias.
DtbCover ==
  [start |-> PageDown(image.dtb_virtual),
   end |-> PageDown(image.dtb_virtual + (image.dtb.end - image.dtb.start) + PageSize - 1)]

\* dtb_page_mapping succeeds: equal offsets, no overflow, a frame to begin with.
DtbMappable ==
  /\ image.dtb_virtual % PageSize = image.dtb.start % PageSize
  /\ image.dtb_virtual + (image.dtb.end - image.dtb.start) + PageSize - 1 \in Words
  /\ DtbCover.start < DtbCover.end
  /\ PageDown(image.dtb.start) + PageSize \in Words

\* kernel_sections: a section without contents is no range.
Sections == SelectSeq(image.sections, LAMBDA s : s.start < s.end)

\* Entry of into_kernel and Sv39PageTable::new.
Enter ==
  /\ at = "entry"
  /\ \/ /\ ~DtbMappable
        /\ Fail("InvalidDtbMapping")
        /\ UNCHANGED memory
     \/ /\ DtbMappable
        /\ memory.supply = << >>
        /\ Fail("OutOfPhysicalFrames")
        /\ UNCHANGED memory
     \/ /\ DtbMappable
        /\ memory.supply # << >>
        /\ root' = Head(memory.supply)
        /\ memory' = [tables |-> (root' :> [i \in 0 .. Fanout - 1 |-> 0]),
                      supply |-> Tail(memory.supply)]
        /\ todo' = Append(Sections, [start |-> DtbCover.start, end |-> DtbCover.end,
                                     permissions |-> "DTB"])
        /\ at' = "ranges"
        /\ UNCHANGED <<span, result>>
  /\ UNCHANGED image

\* The physical start into_kernel computes for a range.
PhysicalStart(r) ==
  IF r.permissions = "DTB" THEN PageDown(image.dtb.start)
  ELSE image.physical_start + (r.start - image.virtual_start)

\* The checks of into_kernel on a section.
ValidSection(r) ==
  \/ r.permissions = "DTB"
  \/ /\ image.virtual_start <= r.start
     /\ PhysicalStart(r) \in Words
     /\ PhysicalStart(r) % PageSize = 0
     /\ PhysicalStart(r) + PageSize \in Words

\* div_ceil(size, PAGE_SIZE).
PageCount(r) == (r.end - r.start + PageSize - 1) \div PageSize

\* Variant: only the first page of the physical span is checked.
FirstRepresentable(r) == PhysicalStart(r) <= MaxPhysicalAddress

\* The last page of the physical span can be encoded.
SpanRepresentable(r) ==
  PhysicalStart(r) + (PageCount(r) - 1) * PageSize <= MaxPhysicalAddress

\* What map_range says of a range before it touches the tables.
RangeError(r) ==
  CASE ~ValidSection(r) -> "InvalidKernelSection"
    [] ValidSection(r) /\ r.start % PageSize # 0 -> "VirtualAddressNotPageAligned"
    [] ValidSection(r) /\ r.start % PageSize = 0
         /\ (NotCanonical(r.start) \/ (r.start < LowHalfEnd /\ r.end > LowHalfEnd)) ->
         "VirtualAddressNotCanonical"
    [] ValidSection(r) /\ r.start % PageSize = 0
         /\ ~NotCanonical(r.start) /\ ~(r.start < LowHalfEnd /\ r.end > LowHalfEnd)
         /\ ~SpanRepresentable(r) -> "PhysicalRangeNotRepresentable"
    [] OTHER -> "Ok"

\* The next section, or the DTB, is handed to map_range.
NextRange ==
  /\ at = "ranges"
  /\ todo # << >>
  /\ LET r == Head(todo)
     IN  \/ /\ RangeError(r) # "Ok"
            /\ Fail(RangeError(r))
         \/ /\ RangeError(r) = "Ok"
            /\ span' = [virtual |-> r.start, physical |-> PhysicalStart(r), count |-> PageCount(r),
                        permissions |-> IF r.permissions = "DTB" THEN "ReadOnly" ELSE r.permissions]
            /\ todo' = Tail(todo)
            /\ at' = "pages"
            /\ UNCHANGED <<root, result>>
  /\ UNCHANGED <<image, memory>>

-----------------------------------------------------------------------------
(* Pages.                                                                  *)

Ok(m, table) == [memory |-> m, result |-> "Ok", table |-> table]

Error(m, error) == [memory |-> m, result |-> error, table |-> NoRoot]

\* next_table on words.
NextTable(m, table, index) ==
  LET entry == m.tables[table][index]
      child == Head(m.supply)
      linked == [m.tables EXCEPT ![table][index] = page_table_entry(child, PTE_VALID)]
  IN  IF entry # 0
      THEN IF IsLink(entry) THEN Ok(m, EntryAddress(entry)) ELSE Error(m, "InvalidIntermediateEntry")
      ELSE IF m.supply = << >> THEN Error(m, "OutOfPhysicalFrames")
      ELSE Ok([tables |-> linked @@ (child :> [i \in 0 .. Fanout - 1 |-> 0]),
               supply |-> Tail(m.supply)], child)

\* map_page for a supervisor page.
MapPage(m, address, physical, permissions) ==
  LET entry == page_table_entry(physical, LeafFlags(permissions, FALSE))
      level_1 == NextTable(m, root, Vpn2(address))
      level_0 == NextTable(level_1.memory, level_1.table, Vpn1(address))
      index == Vpn0(address)
  IN  IF address % PageSize # 0 THEN Error(m, "VirtualAddressNotPageAligned")
      ELSE IF NotCanonical(address) THEN Error(m, "VirtualAddressNotCanonical")
      ELSE IF physical > MaxPhysicalAddress THEN Error(m, "PhysicalAddressNotRepresentable")
      ELSE IF level_1.result # "Ok" THEN level_1
      ELSE IF level_0.result # "Ok" THEN level_0
      ELSE IF level_0.memory.tables[level_0.table][index] # 0
      THEN Error(level_0.memory, "PageAlreadyMapped")
      ELSE Ok([level_0.memory EXCEPT !.tables[level_0.table][index] = entry], level_0.table)

\* One iteration of the loop of map_range.
MapNextPage ==
  /\ at = "pages"
  /\ span.count > 0
  /\ LET r == MapPage(memory, span.virtual, span.physical, span.permissions)
     IN  /\ memory' = r.memory
         /\ IF r.result # "Ok" THEN Fail(r.result)
            ELSE /\ span' = [span EXCEPT !.virtual = @ + PageSize, !.physical = @ + PageSize,
                                         !.count = @ - 1]
                 /\ UNCHANGED <<at, todo, root, result>>
  /\ UNCHANGED image

\* map_range returns; after the DTB the mappings are complete.
RangeDone ==
  /\ at = "pages"
  /\ span.count = 0
  /\ at' = IF todo = << >> THEN "mapped" ELSE "ranges"
  /\ UNCHANGED <<image, todo, span, root, memory, result>>

Next == Enter \/ NextRange \/ MapNextPage \/ RangeDone

Spec == Init /\ [][Next]_vars

-----------------------------------------------------------------------------
(* Properties.                                                             *)

\* The hardware's walk on words: an address that is not the sign extension of
\* its translated bits faults, as does an entry that is not valid. The result is
\* one translation, or none.
SignExtended(address) ==
  LET low == address % TranslatedSpace
  IN  address = IF low < LowHalfEnd THEN low ELSE AddressSpace - TranslatedSpace + low

Translate(address) ==
  LET e2 == memory.tables[root][Vpn2(address)]
      e1 == memory.tables[EntryAddress(e2)][Vpn1(address)]
      e0 == memory.tables[EntryAddress(e1)][Vpn0(address)]
  IN  IF ~SignExtended(address) \/ ~Has(e2, PTE_VALID) THEN {}
      ELSE IF ~Has(e1, PTE_VALID) \/ ~Has(e0, PTE_VALID) THEN {}
      ELSE {[address |-> EntryAddress(e0) + (address % PageSize),
             write |-> Has(e0, PTE_WRITE), execute |-> Has(e0, PTE_EXECUTE),
             user |-> Has(e0, PTE_USER)]}

\* The pages that hold the bytes of [start, end).
Covered(address, start, end) == \E byte \in start .. end - 1 : PageDown(byte) = PageDown(address)

\* What the image wants an address to be.
SectionWants(address, s) ==
  [address |-> image.physical_start + (address - image.virtual_start),
   write |-> s.permissions = "ReadWrite", execute |-> s.permissions = "ReadExecute",
   user |-> FALSE]

DtbWants(address) ==
  [address |-> image.dtb.start + (address - image.dtb_virtual),
   write |-> FALSE, execute |-> FALSE, user |-> FALSE]

DtbVirtualEnd == image.dtb_virtual + (image.dtb.end - image.dtb.start)

Wanted(address) ==
  {SectionWants(address, image.sections[i]) :
     i \in {j \in DOMAIN image.sections :
              Covered(address, image.sections[j].start, image.sections[j].end)}}
  \cup (IF Covered(address, image.dtb_virtual, DtbVirtualEnd) THEN {DtbWants(address)} ELSE {})

\* Every byte of every section and of the DTB is where it was, with the rights
\* of its section, and no other address translates: the walk of the hardware
\* over the words that were written gives, for every address of the machine
\* word, what the image wants or a fault, and in the end no fault is left there.
TranslationExact ==
  root # NoRoot =>
    \A address \in Words :
      /\ Translate(address) \subseteq Wanted(address)
      /\ at = "mapped" /\ Wanted(address) # {} => Translate(address) # {}

\* Address spans are validated before any entry is installed: inside the loop
\* map_range fails for want of a frame or for a page that is taken, never for an
\* address.
SpansCheckedFirst ==
  [][at = "pages" /\ at' = "failed" =>
       result' \in {"OutOfPhysicalFrames", "PageAlreadyMapped"}]_vars

=============================================================================
