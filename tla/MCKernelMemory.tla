--------------------------- MODULE MCKernelMemory ---------------------------
(***************************************************************************)
(* Instances of KernelMemory: tables of 3 entries, root entry 0 the lower  *)
(* half, 1 the heap and 2 the kernel; pages of 2 bytes, a heap of 5 pages  *)
(* in two tables.                                                          *)
(***************************************************************************)
EXTENDS KernelMemory

MCVpn == 0 .. 2

MCHeapTop == <<1, 1, 1>>

MCNullPage == <<0, 0, 0>>

MCFixmapTable == <<2, 1, 0>>

MCFixmapFrame == <<2, 1, 1>>

Section(page, frame, permissions) ==
  [page |-> page, frame |-> frame, permissions |-> permissions]

\* Frames of the kernel and the DTB are 21 to 23; those above 30 cannot be
\* represented.
MCLayouts ==
  { <<Section(<<2, 0, 0>>, 21, "ReadExecute"), Section(<<2, 0, 1>>, 22, "ReadWrite"),
      Section(<<2, 1, 2>>, 23, "ReadOnly")>> }

\* For the user: the null page, a page of the same table and one of another. In
\* the heap: its top and a page of its lower table. For the kernel: a section,
\* both pages of the fixmap and a free page.
MCTargets ==
  { <<0, 0, 0>>, <<0, 0, 1>>, <<0, 1, 0>>, <<1, 1, 1>>, <<1, 0, 2>>, <<2, 0, 0>>, <<2, 1, 0>>,
    <<2, 1, 1>>, <<2, 2, 0>> }

\* A block within a page, and an aligned one across pages and tables.
MCHeapLayouts == { [size |-> 1, align |-> 1], [size |-> 3, align |-> 4] }

Frames(n) == [i \in 1 .. n |-> i]

\* Root and kernel tables take 4 frames, the top of the heap 3 more, the rest
\* of the heap 5 and a first page of the user or the kernel up to 3.
MCSupplies ==
  {Frames(n) : n \in {0, 1, 2, 3, 6, 9, 14}}
    \cup {<<1, 31>>, <<1, 2, 3, 4, 5, 31, 6, 7, 8>>, <<1, 2, 3, 4, 5, 6, 7, 31, 8, 9, 10, 11>>}

=============================================================================
