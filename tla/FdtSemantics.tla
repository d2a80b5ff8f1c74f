---------------------------- MODULE FdtSemantics ----------------------------
(***************************************************************************)
(* Devicetree-wide validation of a structurally valid tree and the range   *)
(* iterators built on it (fdt/src/structure/semantic.rs and its modules).  *)
(*                                                                         *)
(* validate_semantics walks the tree four times and keeps nothing: the     *)
(* iterators look up cell counts and reg properties again, each time with  *)
(* an expect() in place of an error path.  What they rely on is that both  *)
(* sides take the same nodes for memory and split reg by the same layout.  *)
(*                                                                         *)
(* A tree is the sequence of its nodes in block order, which is the order  *)
(* of every traversal (FdtStructure!ViewsAreExact).  The properties of a   *)
(* node are chosen when validation first looks at them.  A reg value is a  *)
(* sequence of cells, digits below Radix; one whose length is no multiple  *)
(* of a cell is Ragged.  A cell count that is not one u32 is Malformed.    *)
(***************************************************************************)
EXTENDS FdtEntries, FiniteSets, SequencesExt

CONSTANTS
  Trees,          \* shapes: sequences of [name, unit, parent, kind]
  Contents,       \* the properties a node of a kind may have
  Radix,          \* CELL_RADIX
  CellSize,       \* CELL_SIZE, bytes of a cell
  MaxUsize,       \* usize::MAX
  None,           \* Option::None, an absent property
  Malformed,      \* a cell count that is not one u32
  Ragged          \* a reg value that is no sequence of cells

VARIABLES
  nodes,          \* the shape of the tree
  props,          \* the properties of the nodes visited so far
  at,             \* the stage of validate_semantics, "Ok" or an error
  iterator        \* the range iterator in hand

vars == <<nodes, props, at, iterator>>

RootNode == 1

\* Node::children.
Children(i) == SelectSeq([k \in DOMAIN nodes |-> k], LAMBDA k : nodes[k].parent = i)

Has(i, property) == props[i][property] # None

Closed == [kind |-> "none", rest |-> << >>, layout |-> None, current |-> << >>, yielded |-> << >>]

Init ==
  /\ nodes \in Trees
  /\ props = << >>
  /\ at = "required"
  /\ iterator = Closed

-----------------------------------------------------------------------------
(* addressing.rs                                                           *)

\* parse_address_cells and parse_size_cells: Malformed, or the count with its
\* default.
AddressCells(p) == IF p.address_cells = None THEN 2 ELSE p.address_cells

SizeCells(p) == IF p.size_cells = None THEN 1 ELSE p.size_cells

\* RegLayout::new, in cells; None when the widths in bytes overflow.
RegLayout(p) ==
  LET address == AddressCells(p)
      entry == address + SizeCells(p)
  IN  IF entry * CellSize > MaxUsize THEN None ELSE [address |-> address, entry |-> entry]

\* addressing::validate_reg, for a child whose parent has the properties p.
ValidateReg(reg, p) ==
  CASE reg = None -> "Ok"
    [] reg # None /\ RegLayout(p) = None -> "RegEntrySizeOverflow"
    [] reg # None /\ RegLayout(p) # None ->
         IF /\ reg # Ragged
            /\ IF RegLayout(p).entry = 0 THEN reg = << >> ELSE Len(reg) % RegLayout(p).entry = 0
         THEN "Ok" ELSE "InvalidRegLength"

\* validate_node_addressing.
ValidateNodeAddressing(node, p) ==
  IF node.unit /\ p.reg = None /\ p.ranges = None THEN "UnitAddressWithoutReg" ELSE "Ok"

\* validate_node.
ValidateNode(node, p) ==
  CASE AddressCells(p) = Malformed -> "InvalidAddressCells"
    [] AddressCells(p) # Malformed /\ SizeCells(p) = Malformed -> "InvalidSizeCells"
    [] OTHER -> ValidateNodeAddressing(node, p)

\* Variant: a reg is split by the counts of the node it belongs to.
VisitOwnLayout(i, p) ==
  IF i # RootNode /\ Malformed \notin {AddressCells(p), SizeCells(p)} /\ ValidateReg(p.reg, p) # "Ok"
  THEN ValidateReg(p.reg, p)
  ELSE ValidateNode(nodes[i], p)

\* What validate_subtree finds at node i: its reg against the layout of its
\* parent, then the node itself. The root has no parent.
Visit(i, p) ==
  IF i # RootNode /\ ValidateReg(p.reg, props[nodes[i].parent]) # "Ok"
  THEN ValidateReg(p.reg, props[nodes[i].parent])
  ELSE ValidateNode(nodes[i], p)

-----------------------------------------------------------------------------
(* reg_range.rs                                                            *)

Checked(n) == IF n <= MaxAddr THEN n ELSE None

\* decode_cells_u64.
DecodeCells(cells) ==
  FoldLeft(LAMBDA value, cell :
             IF value = None \/ Checked(value * Radix) = None THEN None
             ELSE Checked(value * Radix + cell),
           0, cells)

AddressOf(entry, layout) == DecodeCells(SubSeq(entry, 1, layout.address))

SizeOf(entry, layout) == DecodeCells(SubSeq(entry, layout.address + 1, layout.entry))

\* One iteration of reg_range::validate.
ValidateEntry(entry, layout) ==
  LET address == AddressOf(entry, layout)
      size == SizeOf(entry, layout)
  IN  CASE address = None -> "AddressDoesNotFitU64"
        [] address # None /\ size = None -> "SizeDoesNotFitU64"
        [] address # None /\ size = 0 -> "ZeroSize"
        [] OTHER -> IF Checked(address + size) = None THEN "EndOverflow" ELSE "Ok"

\* Entry k of a reg value, as chunks_exact and split_at cut it.
EntryAt(reg, layout, k) == SubSeq(reg, (k - 1) * layout.entry + 1, k * layout.entry)

\* The first error of a sequence of outcomes.
FirstError(outcomes) ==
  LET i == SelectInSeq(outcomes, LAMBDA outcome : outcome # "Ok")
  IN  IF i = 0 THEN "Ok" ELSE outcomes[i]

\* reg_range::validate.
ValidateRanges(reg, layout) ==
  IF reg = << >> THEN "Empty"
  ELSE FirstError([k \in 1 .. Len(reg) \div layout.entry |-> ValidateEntry(EntryAt(reg, layout, k), layout)])

-----------------------------------------------------------------------------
(* memory.rs and reserved_memory.rs                                        *)

\* name_component() of a root child.
IsMemory(i) == nodes[i].name = "memory"

\* validate_memory_node.
ValidateMemoryNode(p, layout) ==
  CASE p.device_type = None -> "MissingMemoryDeviceType"
    [] p.device_type \notin {None, "memory"} -> "InvalidMemoryDeviceType"
    [] p.device_type = "memory" /\ p.reg = None -> "MissingMemoryReg"
    [] OTHER -> ValidateRanges(p.reg, layout)

\* Both validations begin with the cell counts of the node whose children
\* carry the ranges.
ValidateCells(p) ==
  CASE AddressCells(p) = 0 -> "InvalidCells"
    [] AddressCells(p) # 0 /\ SizeCells(p) = 0 -> "InvalidCells"
    [] OTHER -> IF RegLayout(p) = None THEN "RegEntrySizeOverflow" ELSE "Ok"

\* memory::validate.
ValidateMemory ==
  LET root == props[RootNode]
      memory == SelectSeq(Children(RootNode), IsMemory)
  IN  IF ValidateCells(root) # "Ok" THEN ValidateCells(root)
      ELSE FirstError([k \in DOMAIN memory |-> ValidateMemoryNode(props[memory[k]], RegLayout(root))])

\* reserved_memory_node: the whole name counts here; 0 when there is none.
ReservedMemoryNode ==
  LET k == SelectInSeq(Children(RootNode),
                       LAMBDA i : nodes[i].name = "reserved-memory" /\ ~nodes[i].unit)
  IN  IF k = 0 THEN 0 ELSE Children(RootNode)[k]

\* validate_parent.
ValidateParent(p) ==
  CASE p.address_cells = None -> "MissingReservedMemoryAddressCells"
    [] p.address_cells # None /\ p.size_cells = None -> "MissingReservedMemorySizeCells"
    [] p.address_cells # None /\ p.size_cells # None /\ p.ranges = None -> "MissingReservedMemoryRanges"
    [] OTHER -> IF p.ranges = << >> THEN "Ok" ELSE "NonEmptyReservedMemoryRanges"

\* validate_child.
ValidateChild(p, layout) ==
  CASE p.reg # None -> ValidateRanges(p.reg, layout)
    [] p.reg = None /\ p.size # None -> "UnsupportedDynamicReservedMemory"
    [] OTHER -> "MissingReservedMemoryAllocation"

\* reserved_memory::validate.
ValidateReservedMemory ==
  IF ReservedMemoryNode = 0 THEN "Ok"
  ELSE LET p == props[ReservedMemoryNode]
           children == Children(ReservedMemoryNode)
       IN  CASE ValidateParent(p) # "Ok" -> ValidateParent(p)
             [] ValidateParent(p) = "Ok" /\ ValidateCells(p) # "Ok" -> ValidateCells(p)
             [] OTHER -> FirstError([k \in DOMAIN children |->
                                       ValidateChild(props[children[k]], RegLayout(p))])

-----------------------------------------------------------------------------
(* validate_semantics                                                      *)

Proceed(outcome, stage) ==
  /\ at' = IF outcome = "Ok" THEN stage ELSE outcome
  /\ UNCHANGED <<nodes, iterator>>

\* validate_required_root_nodes.
RequireRootNodes ==
  LET root == {i \in DOMAIN nodes : nodes[i].parent = RootNode}
  IN  /\ at = "required"
      /\ Proceed(CASE ~\E i \in root : nodes[i].name = "cpus" /\ ~nodes[i].unit -> "MissingCpusNode"
                   [] OTHER -> IF \E i \in root : IsMemory(i) THEN "Ok" ELSE "MissingMemoryNode",
                 "addressing")
      /\ UNCHANGED props

\* One node of addressing::validate.
VisitNode ==
  LET i == Len(props) + 1
  IN  /\ at = "addressing"
      /\ \E p \in Contents[nodes[i].kind] :
           /\ props' = Append(props, p)
           /\ Proceed(Visit(i, p), IF i = Len(nodes) THEN "memory" ELSE "addressing")

CheckMemory == at = "memory" /\ Proceed(ValidateMemory, "reserved") /\ UNCHANGED props

CheckReservedMemory == at = "reserved" /\ Proceed(ValidateReservedMemory, "Ok") /\ UNCHANGED props

Validate == RequireRootNodes \/ VisitNode \/ CheckMemory \/ CheckReservedMemory

-----------------------------------------------------------------------------
(* MemoryRanges and ReservedMemoryRanges                                   *)

Validated == at = "Ok" /\ UNCHANGED <<nodes, props, at>>

Panic == [iterator EXCEPT !.kind = "panic"]

\* Variant: the layout is the root's.
RootLayout(parent) == RegLayout(props[RootNode])

\* child_addressing and the expect() on the layout.
LayoutFor(parent) ==
  IF Malformed \in {AddressCells(props[parent]), SizeCells(props[parent])} THEN None
  ELSE RegLayout(props[parent])

\* MemoryRanges::new and ReservedMemoryRanges::new. The nodes are those the
\* iterator will stop at: find() passes over root children that are no memory.
Open(kind) ==
  LET parent == IF kind = "memory" THEN RootNode ELSE ReservedMemoryNode
  IN  /\ Validated
      /\ iterator = Closed
      /\ iterator' =
           IF parent = 0 THEN [Closed EXCEPT !.kind = kind]
           ELSE IF LayoutFor(parent) = None THEN Panic
           ELSE [Closed EXCEPT !.kind = kind,
                               !.layout = LayoutFor(parent),
                               !.rest = IF kind = "memory" THEN SelectSeq(Children(RootNode), IsMemory)
                                        ELSE Children(parent)]

\* RegRanges::next: split off one entry and decode it.
YieldRange ==
  LET layout == iterator.layout
      address == AddressOf(iterator.current, layout)
      size == SizeOf(iterator.current, layout)
  IN  /\ Validated
      /\ iterator.kind \in {"memory", "reserved"}
      /\ iterator.current # << >>
      /\ iterator' =
           IF layout.entry > Len(iterator.current) \/ address = None \/ size = None THEN Panic
           ELSE [iterator EXCEPT
                   !.current = SubSeq(@, layout.entry + 1, Len(@)),
                   !.yielded = Append(@, [address |-> address, size |-> size])]

\* The next node; its reg must be there.
NextNode ==
  /\ Validated
  /\ iterator.kind \in {"memory", "reserved"}
  /\ iterator.current = << >>
  /\ iterator.rest # << >>
  /\ iterator' =
       IF ~Has(Head(iterator.rest), "reg") THEN Panic
       ELSE [iterator EXCEPT !.rest = Tail(@), !.current = props[Head(iterator.rest)].reg]

Exhausted ==
  /\ iterator.kind \in {"memory", "reserved"}
  /\ iterator.current = << >>
  /\ iterator.rest = << >>

\* next() returns None, and the caller asks for ranges anew.
Drop ==
  /\ Validated
  /\ Exhausted
  /\ iterator' = Closed

Ranges == Open("memory") \/ Open("reserved") \/ YieldRange \/ NextNode \/ Drop

Next == Validate \/ Ranges

Spec == Init /\ [][Next]_vars

-----------------------------------------------------------------------------
(* Reference: the meaning of a tree, without a traversal.                  *)

\* The number a sequence of cells stands for.
Value(cells) ==
  FoldFunctionOnSet(+, 0, [k \in DOMAIN cells |-> cells[k] * Radix ^ (Len(cells) - k)], DOMAIN cells)

\* The ranges the children of a node describe: entry k of node i.
RangesOf(parent, stops) ==
  LET a == AddressCells(props[parent])
      n == a + SizeCells(props[parent])
      RangeAt(reg, k) == [address |-> Value(SubSeq(reg, k * n + 1, k * n + a)),
                          size |-> Value(SubSeq(reg, k * n + a + 1, k * n + n))]
      EntriesOf(reg) == [k \in 1 .. Len(reg) \div n |-> RangeAt(reg, k - 1)]
  IN  FlattenSeq([j \in DOMAIN stops |-> EntriesOf(props[stops[j]].reg)])

MemoryChildren == SelectSeq(Children(RootNode), LAMBDA i : nodes[i].name = "memory")

ReservedParents ==
  {i \in DOMAIN nodes : nodes[i].parent = RootNode /\ nodes[i].name = "reserved-memory" /\ ~nodes[i].unit}

\* Counts that a reg entry can be built from.
Countable(p) ==
  /\ Malformed \notin {AddressCells(p), SizeCells(p)}
  /\ (AddressCells(p) + SizeCells(p)) * CellSize <= MaxUsize

WholeEntries(reg, p) ==
  LET n == AddressCells(p) + SizeCells(p)
  IN  reg # Ragged /\ \E k \in 0 .. Len(reg) : Len(reg) = k * n

\* A node that describes ranges for the allocator.
Usable(parent, stops) ==
  /\ AddressCells(props[parent]) > 0 /\ SizeCells(props[parent]) > 0
  /\ Countable(props[parent])
  /\ \A j \in DOMAIN stops : props[stops[j]].reg \notin {None, << >>}
  /\ \A k \in DOMAIN RangesOf(parent, stops) : RangesOf(parent, stops)[k] \in RangeEntry

RequiredNodes ==
  /\ \E i \in DOMAIN nodes : nodes[i].parent = RootNode /\ nodes[i].name = "cpus" /\ ~nodes[i].unit
  /\ MemoryChildren # << >>

\* The generic rules, for the nodes visited so far.
WellAddressed ==
  \A i \in DOMAIN props :
    /\ Malformed \notin {AddressCells(props[i]), SizeCells(props[i])}
    /\ nodes[i].unit => Has(i, "reg") \/ Has(i, "ranges")
    /\ i # RootNode /\ Has(i, "reg") =>
         Countable(props[nodes[i].parent]) /\ WholeEntries(props[i].reg, props[nodes[i].parent])

DescribesMemory ==
  /\ Usable(RootNode, MemoryChildren)
  /\ \A j \in DOMAIN MemoryChildren : props[MemoryChildren[j]].device_type = "memory"
  /\ \A i \in ReservedParents :
       /\ Has(i, "address_cells") /\ Has(i, "size_cells") /\ props[i].ranges = << >>
       /\ Usable(i, Children(i))

\* What has been read of the tree may belong to a valid one.
ValidSoFar == RequiredNodes /\ WellAddressed /\ (Len(props) = Len(nodes) => DescribesMemory)

\* Whatever the order of the checks and wherever the first error ends them,
\* validate_semantics accepts a tree exactly when every reg in it can be split
\* by its parent's counts and every memory and reserved range is not empty and
\* ends within the address space, and it rejects on nothing but a violation.
SemanticsExact ==
  at \notin {"required", "addressing", "memory", "reserved"} =>
    (at = "Ok" <=> Len(props) = Len(nodes) /\ ValidSoFar) /\ (at # "Ok" => ~ValidSoFar)

\* The range iterators find the cell counts, the layout and the reg properties
\* their expect()s assume, and yield exactly the ranges of the memory nodes, or
\* of the children of /reserved-memory, in block order; each is what the boot
\* frame allocator takes for granted of a range.
RangesExact ==
  iterator.kind # "none" =>
    /\ iterator.kind # "panic"
    /\ LET expected == IF iterator.kind = "memory" THEN RangesOf(RootNode, MemoryChildren)
                       ELSE IF ReservedParents = {} THEN << >>
                       ELSE LET parent == CHOOSE i \in ReservedParents : TRUE
                            IN  RangesOf(parent, Children(parent))
       IN  /\ IsPrefix(iterator.yielded, expected)
           /\ Exhausted => iterator.yielded = expected
    /\ \A k \in DOMAIN iterator.yielded : iterator.yielded[k] \in RangeEntry

=============================================================================
