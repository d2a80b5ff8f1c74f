---------------------------- MODULE MCKernelHeap ----------------------------
(***************************************************************************)
(* Instances of KernelHeap: pages of 4 bytes, a range of 3 pages, blocks   *)
(* below, of and above the size and the alignment of a page.               *)
(***************************************************************************)
EXTENDS KernelHeap

MCRanges ==
  { [start |-> 8, end |-> 20], [start |-> 4, end |-> 12],
    [start |-> 0, end |-> 8], [start |-> 6, end |-> 12], [start |-> 4, end |-> 10] }

MCLayouts == [size : {0, 1, 3, 5, 8, 30}, align : {1, 4, 8}]

=============================================================================
