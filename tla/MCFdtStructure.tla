--------------------------- MODULE MCFdtStructure ---------------------------
(***************************************************************************)
(* Blocks of up to 11 items.  The largest is a tree of five nodes: enough  *)
(* for two nodes of equal depth with equally named children.  The names    *)
(* are interchangeable.                                                    *)
(***************************************************************************)
EXTENDS FdtStructure, TLC

CONSTANTS a, b

MCNames == {a, b}

MCSymmetry == Permutations(MCNames)

=============================================================================
