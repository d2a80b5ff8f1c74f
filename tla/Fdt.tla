--------------------------------- MODULE Fdt ---------------------------------
(***************************************************************************)
(* Fdt::from_ptr as a whole, fdt/src/fdt.rs: FdtBlob with the semantic     *)
(* validation of FdtSemantics at its place between the slices and the      *)
(* reservations, and the three range iterators over what was accepted.     *)
(***************************************************************************)
EXTENDS FdtBlob

CONSTANTS
  Explored(_, _, _),    \* bound: the placements and trees that are combined
  Trees, Contents, Radix, CellSize, None, Malformed, Ragged    \* see FdtSemantics

VARIABLES
  nodes, props, semantics, iterator     \* FdtSemantics, with its stage

tree_vars == <<nodes, props, semantics, iterator>>

Tree == INSTANCE FdtSemantics WITH at <- semantics

FdtInit ==
  /\ Init
  /\ Tree!Init
  /\ Explored(ptr, header, nodes)

\* The steps of from_ptr on either side of the structure block, and the
\* iterator of reservations.
BlobStep ==
  /\ \/ CheckPointer \/ CheckHeader \/ CheckRange \/ TakeSlices
     \/ ReadReservation \/ CheckOverlaps \/ Iterate \/ NextReservation
  /\ UNCHANGED tree_vars

\* Structure::new fails; why is the subject of FdtStructure and FdtReader.
RejectStructure ==
  /\ at = "structure"
  /\ semantics = "required"
  /\ Proceed("Structure")
  /\ UNCHANGED tree_vars

\* validate_semantics.
ValidateTree ==
  /\ at = "structure"
  /\ Tree!Validate
  /\ UNCHANGED vars

\* validate_semantics returned.
ParsedStructure ==
  /\ at = "structure"
  /\ semantics \notin {"required", "addressing", "memory", "reserved"}
  /\ Proceed(IF semantics = "Ok" THEN "reservations" ELSE "Structure")
  /\ UNCHANGED tree_vars

\* Fdt::memory_ranges and Fdt::reserved_memory_ranges.
TreeRanges ==
  /\ at = "Ok"
  /\ Tree!Ranges
  /\ UNCHANGED vars

FdtNext == BlobStep \/ RejectStructure \/ ValidateTree \/ ParsedStructure \/ TreeRanges

FdtSpec == FdtInit /\ [][FdtNext]_<<vars, tree_vars>>

-----------------------------------------------------------------------------
\* Whatever the order of the checks and wherever the first error ends them,
\* validate_semantics accepts a tree exactly when every reg in it can be split
\* by its parent's counts and every memory and reserved range is not empty and
\* ends within the address space; from_ptr returns no tree it did not accept.
SemanticsExact == Tree!SemanticsExact /\ (at = "Ok" => semantics = "Ok")

\* The range iterators over an accepted blob find the cell counts, the layout
\* and the reg properties their expect()s assume, and yield exactly the ranges
\* of the memory nodes, or of the children of /reserved-memory, in block order.
RangesExact == Tree!RangesExact

=============================================================================
