---------------------------- MODULE MCBootFrames ----------------------------
(***************************************************************************)
(* Instances of BootFrames: frames of 4 bytes, a 6-frame address space.    *)
(***************************************************************************)
EXTENDS BootFrames

R(s, e) == [start |-> s, end |-> e]

Ent(a, n) == [address |-> a, size |-> n]

\* Whole, unaligned and frameless ranges; neighbours that share a frame;
\* ranges that end at the last representable address; overlapping ranges.
MCMemory ==
  { <<Ent(0, 23)>>, <<Ent(1, 21)>>, <<Ent(3, 2), Ent(7, 14)>>,
    <<Ent(8, 12), Ent(0, 8)>>, <<Ent(10, 13), Ent(1, 9)>>, <<Ent(21, 2), Ent(4, 12)>>,
    <<Ent(0, 5), Ent(5, 3), Ent(8, 15)>>,
    <<Ent(0, 12), Ent(8, 8)>>, <<Ent(4, 8), Ent(20, 3), Ent(7, 5)>> }

MCReserved == {R(0, 4), R(3, 5), R(4, 12), R(9, 10), R(15, 17), R(17, 23), R(22, 23)}

MCPlatforms ==
  {p \in [memory : MCMemory, kernel : MCReserved, dtb : MCReserved,
          reservations : {<< >>, <<Ent(5, 0), Ent(8, 4)>>, <<Ent(6, 11)>>},
          reserved_memory : {<< >>, <<Ent(12, 1), Ent(12, 5)>>, <<Ent(2, 21)>>}] :
     ~Overlaps(p.kernel, p.dtb)}

=============================================================================
