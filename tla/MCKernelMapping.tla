--------------------------- MODULE MCKernelMapping --------------------------
(***************************************************************************)
(* Instances of KernelMapping: pages of 4 bytes, tables of 2 entries, a    *)
(* machine word of 6 bits. The halves are 0 to 15 and 48 to 63; physical   *)
(* addresses end at 31.                                                    *)
(***************************************************************************)
EXTENDS KernelMapping

Section(start, end, permissions) == [start |-> start, end |-> end, permissions |-> permissions]

\* Two sections as the linker lays them out, of any length, possibly empty.
Linked(base) ==
  {<<Section(base, e1, "ReadExecute"), Section(base + 4, e2, "ReadWrite")>> :
      e1 \in base .. base + 4, e2 \in base + 4 .. base + 9}

\* Ranges that map_range refuses: unaligned, between the halves, across the end
\* of the lower half, below the image.
Refused ==
  {<<Section(50, 53, "ReadOnly")>>, <<Section(24, 26, "ReadOnly")>>,
   <<Section(12, 18, "ReadOnly")>>, <<Section(0, 3, "ReadOnly")>>}

MCImages ==
  [virtual_start : {48}, physical_start : {8, 16, 24}, sections : Linked(48) \cup Linked(52),
   dtb_virtual : {0, 49, 57, 61},
   dtb : {[start |-> 1, end |-> 3], [start |-> 1, end |-> 4], [start |-> 4, end |-> 8]}]
  \cup
  [virtual_start : {8, 48}, physical_start : {8, 10}, sections : Refused,
   dtb_virtual : {57}, dtb : {[start |-> 1, end |-> 2]}]
  \cup
  [virtual_start : {48}, physical_start : {8}, sections : {<<Section(48, 52, "ReadOnly")>>},
   dtb_virtual : 52 .. 56, dtb : {[start |-> s, end |-> e] : s \in 0 .. 5, e \in 6 .. 9}]

MCTableFrames == {<<20, 0, 28, 4, 16, 24, 12>>, <<4, 8>>, << >>}

=============================================================================
