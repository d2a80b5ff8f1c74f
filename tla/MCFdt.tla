-------------------------------- MODULE MCFdt --------------------------------
(***************************************************************************)
(* Every placement of blocks with a tree of fixed content, and every tree  *)
(* with a blob of fixed placement.                                         *)
(*                                                                         *)
(* Blobs of up to 12 bytes with two reservations and a header of 4 bytes,  *)
(* blocks at, before and behind every border; blobs of 20 bytes with room  *)
(* for three reservations and the terminator.                              *)
(*                                                                         *)
(* Binary cells, addresses of two cells (0 to 3), entries of at most four  *)
(* cells of 4 bytes.  Eleven cells stand for counts whose width overflows. *)
(***************************************************************************)
EXTENDS Fdt

H(total, reservation, structure, structure_size, strings, strings_size) ==
  [magic |-> TRUE, version |-> TRUE, total_size |-> total, reservation_offset |-> reservation,
   structure_offset |-> structure, structure_size |-> structure_size,
   strings_offset |-> strings, strings_size |-> strings_size]

Small ==
  {H(total, reservation, structure, structure_size, strings, strings_size) :
     total \in {3, 4, 8, 11, 12}, reservation \in {0, 4, 6, 8, 12, 16},
     structure \in {2, 4, 5, 6, 8, 10, 12}, structure_size \in {0, 2, 4, 5, 8},
     strings \in {3, 4, 5, 7, 8, 11, 12}, strings_size \in {0, 1, 3, 4, 8}}

Large ==
  {H(20, 4, 20, 0, 20, 0), H(24, 4, 4, 0, 4, 0), H(20, 8, 4, 4, 20, 0), H(32, 4, 4, 0, 4, 0),
   H(20, 8, 4, 40, 20, 0)}

\* Room for one reservation or the terminator, for the trees.
SmallHeader == H(8, 4, 8, 0, 8, 0)

MCHeaders ==
  Small \cup Large \cup {SmallHeader}
    \cup {[H(12, 8, 4, 4, 12, 0) EXCEPT !.magic = m, !.version = v] : m \in BOOLEAN, v \in BOOLEAN}

-----------------------------------------------------------------------------
Plain ==
  [address_cells |-> None, size_cells |-> None, reg |-> None, ranges |-> None,
   device_type |-> None, size |-> None]

Ram == [Plain EXCEPT !.reg = <<0, 1, 1>>, !.device_type = "memory"]

Counts == {None, Malformed, 0, 1, 2, 3, 11}

\* Counts for the other tree shapes, where few combinations suffice.
FewCounts == {<<None, None>>, <<1, 1>>, <<0, 1>>, <<1, 0>>, <<3, 1>>, <<11, 1>>}

Cells(n) == [1 .. n -> {0, 1}]

Regs == {None, Ragged} \cup UNION {Cells(n) : n \in 0 .. 4}

\* No entry, one and two of them in most layouts; the last does not fit.
FewRegs == {None, << >>, <<0, 1>>, <<1, 0, 1>>, <<0, 1, 1, 1>>, <<1, 0, 0, 1>>, <<0, 1, 1, 1, 0, 1>>}

MCContents ==
  [ cells |-> {[Plain EXCEPT !.address_cells = a, !.size_cells = s] : a \in Counts, s \in Counts},
    some_cells |-> {[Plain EXCEPT !.address_cells = c[1], !.size_cells = c[2]] : c \in FewCounts},
    plain |-> {Plain},
    ram |-> {Ram},
    unit |-> {[Plain EXCEPT !.reg = r, !.ranges = g] : r \in {None, <<1, 1>>}, g \in {None, << >>}},
    memory |-> {[Plain EXCEPT !.reg = r, !.device_type = d] : r \in Regs, d \in {None, "memory", "other"}},
    some_memory |-> {[Plain EXCEPT !.reg = r, !.device_type = "memory"] : r \in FewRegs},
    reserved |-> {[Plain EXCEPT !.address_cells = a, !.size_cells = s, !.ranges = g] :
                    a \in Counts, s \in Counts, g \in {None, << >>, <<0>>}},
    some_reserved |-> {[Plain EXCEPT !.address_cells = c[1], !.size_cells = c[2], !.ranges = << >>] :
                         c \in FewCounts},
    region |-> {[Plain EXCEPT !.reg = r, !.size = z] : r \in Regs, z \in {None, <<0>>}},
    some_region |-> {[Plain EXCEPT !.reg = r] : r \in FewRegs} ]

N(name, unit, parent, kind) == [name |-> name, unit |-> unit, parent |-> parent, kind |-> kind]

Cpus == N("cpus", FALSE, 1, "plain")

\* Required nodes that are missing or nested; one and two memory nodes, one of
\* them below another node; reserved memory behind and before memory, with a
\* nested region, with a unit address, and below another node.
MCTrees ==
  { <<N("root", FALSE, 0, "plain"), N("memory", FALSE, 1, "plain")>>,
    <<N("root", FALSE, 0, "plain"), Cpus, N("other", FALSE, 1, "plain"), N("memory", FALSE, 3, "plain")>>,
    <<N("root", FALSE, 0, "cells"), Cpus, N("memory", FALSE, 1, "memory")>>,
    <<N("root", FALSE, 0, "some_cells"), N("memory", TRUE, 1, "some_memory"), N("other", TRUE, 1, "unit"),
      N("memory", TRUE, 3, "plain"), Cpus, N("memory", TRUE, 1, "memory")>>,
    <<N("root", FALSE, 0, "some_cells"), N("memory", TRUE, 1, "some_memory"), Cpus,
      N("reserved-memory", FALSE, 1, "reserved"), N("region", TRUE, 4, "region")>>,
    <<N("root", FALSE, 0, "some_cells"), N("reserved-memory", FALSE, 1, "some_reserved"),
      N("region", TRUE, 2, "some_region"), N("part", FALSE, 3, "some_region"), N("region", FALSE, 2, "some_region"),
      Cpus, N("memory", FALSE, 1, "some_memory")>>,
    <<N("root", FALSE, 0, "some_cells"), N("memory", FALSE, 1, "some_memory"), Cpus,
      N("reserved-memory", TRUE, 1, "unit"), N("region", FALSE, 4, "some_region"),
      N("other", FALSE, 1, "some_cells"), N("reserved-memory", FALSE, 6, "plain")>> }

-----------------------------------------------------------------------------
MCPointers == {0, 2, 8, 24}

\* The smallest tree that is accepted, for the headers.
SmallTree == <<N("root", FALSE, 0, "plain"), Cpus, N("memory", FALSE, 1, "ram")>>

MCAllTrees == MCTrees \cup {SmallTree}

MCExplored(p, h, tree) == tree = SmallTree \/ (p = 8 /\ h = SmallHeader)

=============================================================================
