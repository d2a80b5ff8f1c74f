-------------------------- MODULE KernelHeapProofs --------------------------
(***************************************************************************)
(* Proofs about the kernel heap for every page size, range and set of      *)
(* layouts, whatever requests for pages fail.                              *)
(***************************************************************************)
EXTENDS KernelHeap, AlignmentTheorems, SequenceTheorems

USE PageSizeAssumption

\* Masking an address.
LEMMA MaskDownSound ==
  ASSUME NEW x \in Nat, NEW m \in Nat \ {0}
  PROVE  /\ MaskDown(x, m) \in Nat
         /\ MaskDown(x, m) <= x
         /\ MaskDown(x, m) % m = 0
         /\ \A b \in Nat : b % m = 0 /\ b <= x => b <= MaskDown(x, m)
  BY RoundDown, RoundDownGreatest DEF MaskDown

-----------------------------------------------------------------------------
(* The inductive invariant.                                                *)

Active == phase \in {"building", "ready", "allocating"}

\* The backed suffix, the cursor and the range are in order.
Bounds ==
  /\ range.start <= mapped_start
  /\ mapped_start <= cursor
  /\ cursor <= range.end
  /\ Active => ValidRange /\ mapped_start % PageSize = 0
  /\ phase \in {"unclaimed", "building", "failed"} => blocks = << >>

\* What the call in progress is after.
CallShape ==
  /\ Calling => address \in Nat /\ range.start <= address /\ result = "Ok"
  /\ phase = "allocating" =>
       /\ request \in Layouts
       /\ address % request.align = 0
       /\ address + request.size <= cursor
  /\ result = "Exhausted" => request \in Layouts

\* Blocks lie between the cursor and the end of the range.
BlocksAboveCursor ==
  \A i \in DOMAIN blocks :
    /\ blocks[i].start % blocks[i].layout.align = 0
    /\ cursor <= blocks[i].start
    /\ BlockEnd(blocks[i]) <= range.end

\* The state new() starts from.
Unclaimed == phase = "unclaimed" => mapped_start = range.end /\ result = "Ok"

HeapInv ==
  /\ TypeOK
  /\ Unclaimed
  /\ Bounds
  /\ CallShape
  /\ BlocksAboveCursor
  /\ BackedIsSuffix
  /\ CursorAtLatestBlock
  /\ BlocksDisjoint
  /\ PlacementIsExact

\* The range is a pair of naturals in order.
LEMMA RangeType ==
  ASSUME TypeOK
  PROVE  range.start \in Nat /\ range.end \in Nat /\ range.start < range.end
  BY RangesAssumption DEF TypeOK

LEMMA LayoutType ==
  ASSUME NEW l \in Layouts
  PROVE  l.size \in Nat /\ l.align \in Nat \ {0}
  BY LayoutsAssumption

\* Nothing is mapped above the end of the range.
LEMMA NothingBackedAtEnd ==
  ASSUME range.start \in Nat, range.end \in Nat
  PROVE  {p \in Pages : range.end <= p} = {}
  BY DEF Pages

LEMMA InitHeapInv == Init => HeapInv
<1> SUFFICES ASSUME Init PROVE HeapInv
  OBVIOUS
<1>1. range \in Ranges /\ range.start \in Nat /\ range.end \in Nat /\ range.start < range.end
  BY RangesAssumption DEF Init
<1>2. TypeOK
  <2>1. blocks \in Seq([start : Nat, layout : Layouts])
    BY DEF Init
  <2>2. cursor \in Nat /\ mapped_start \in Nat
    BY <1>1 DEF Init
  <2> QED
    BY <1>1, <2>1, <2>2, Zenon DEF Init, TypeOK, Phases
<1>3. BackedIsSuffix
  BY <1>1, NothingBackedAtEnd DEF Init, BackedIsSuffix
<1>4. Bounds /\ CallShape
  BY <1>1 DEF Init, Bounds, CallShape, Active, Calling
<1>5. BlocksAboveCursor /\ BlocksDisjoint /\ CursorAtLatestBlock
  BY DEF Init, BlocksAboveCursor, BlocksDisjoint, CursorAtLatestBlock
<1>6. PlacementIsExact /\ Unclaimed
  BY DEF Init, PlacementIsExact, Unclaimed
<1> QED
  BY <1>2, <1>3, <1>4, <1>5, <1>6 DEF HeapInv

\* A step that leaves the range, the cursor and the blocks alone keeps what is
\* said of them alone.
LEMMA BlocksKept ==
  ASSUME HeapInv, UNCHANGED <<range, cursor, blocks>>
  PROVE  BlocksAboveCursor' /\ BlocksDisjoint' /\ CursorAtLatestBlock'
  BY DEF HeapInv, BlocksAboveCursor, BlocksDisjoint, CursorAtLatestBlock, BlockEnd

\* Entry of new().
LEMMA NewHeapInv == HeapInv /\ New => HeapInv'
<1> SUFFICES ASSUME HeapInv, New PROVE HeapInv'
  OBVIOUS
<1>1. /\ UNCHANGED <<range, cursor, mapped_start, request, backed, blocks>>
      /\ phase = "unclaimed" /\ range \in Ranges
  BY DEF New, HeapInv, TypeOK
<1>2. range.start \in Nat /\ range.end \in Nat /\ range.start < range.end
  BY RangeType DEF HeapInv
<1>3. cursor = range.end
  BY <1>1 DEF HeapInv, Bounds, CursorAtLatestBlock
<1>4. BackedIsSuffix'
  BY <1>1 DEF HeapInv, BackedIsSuffix, Pages
<1>5. BlocksAboveCursor' /\ BlocksDisjoint' /\ CursorAtLatestBlock'
  BY <1>1, BlocksKept
<1>6. CASE ~ValidRange
  <2>1. phase' = "failed" /\ result' = "InvalidRange" /\ UNCHANGED address
    BY <1>6 DEF New
  <2>2. TypeOK'
    BY <1>1, <2>1 DEF HeapInv, TypeOK, Phases
  <2>3. Bounds' /\ CallShape' /\ PlacementIsExact'
    BY <1>1, <2>1 DEF HeapInv, Bounds, CallShape, PlacementIsExact, Active, Calling
  <2> QED
    BY <1>4, <1>5, <2>1, <2>2, <2>3 DEF HeapInv, Unclaimed
<1>7. CASE ValidRange
  <2>1. phase' = "building" /\ address' = range.end - PageSize /\ UNCHANGED result
    BY <1>7 DEF New
  <2>2. range.start + PageSize <= range.end
    BY <1>2, <1>7, MultiplesApart DEF ValidRange
  <2>3. TypeOK'
    BY <1>1, <1>2, <2>1, <2>2 DEF HeapInv, TypeOK, Phases
  <2>4. mapped_start = range.end /\ result = "Ok"
    BY <1>1 DEF HeapInv, Unclaimed
  <2>5. Bounds'
    BY <1>1, <1>2, <1>3, <1>7, <2>1, <2>4 DEF HeapInv, Bounds, Active, ValidRange
  <2>6. CallShape' /\ PlacementIsExact'
    BY <1>1, <1>2, <2>1, <2>2, <2>4 DEF HeapInv, CallShape, PlacementIsExact, Calling
  <2> QED
    BY <1>4, <1>5, <2>1, <2>3, <2>5, <2>6 DEF HeapInv, Unclaimed
<1> QED
  BY <1>6, <1>7

\* The computed placement is the highest address that fits.
LEMMA PlacementSound ==
  ASSUME TypeOK, NEW l \in Layouts, Bounds
  PROVE  /\ Placement(l) \in Nat \cup {None}
         /\ Placement(l) = None => Fits(l) = {}
         /\ Placement(l) # None =>
              /\ Placement(l) \in Fits(l)
              /\ \A a \in Fits(l) : a <= Placement(l)
<1>1. /\ range.start \in Nat /\ range.end \in Nat /\ cursor \in Nat
      /\ l.size \in Nat /\ l.align \in Nat \ {0}
  BY RangeType, LayoutType DEF TypeOK
<1> DEFINE a0 == MaskDown(cursor - l.size, l.align)
<1>2. Placement(l) = IF l.size <= cursor /\ a0 >= range.start THEN a0 ELSE None
  BY DEF Placement
<1>3. ASSUME l.size <= cursor
      PROVE  /\ a0 \in Nat /\ a0 + l.size <= cursor /\ a0 % l.align = 0
             /\ \A b \in Nat : b % l.align = 0 /\ b + l.size <= cursor => b <= a0
  <2>1. cursor - l.size \in Nat
    BY <1>1, <1>3
  <2>2. /\ a0 \in Nat /\ a0 <= cursor - l.size /\ a0 % l.align = 0
        /\ \A b \in Nat : b % l.align = 0 /\ b <= cursor - l.size => b <= a0
    BY <1>1, <2>1, MaskDownSound
  <2> HIDE DEF a0
  <2> QED
    BY <1>1, <2>2
<1> HIDE DEF a0
<1>4. ASSUME NEW a \in Fits(l)
      PROVE  /\ a \in Nat /\ a % l.align = 0 /\ a + l.size <= cursor
             /\ range.start <= a /\ l.size <= cursor
  BY <1>1, <1>4 DEF Fits
<1>5. CASE l.size <= cursor /\ a0 >= range.start
  <2>1. a0 \in Fits(l)
    BY <1>1, <1>3, <1>5 DEF Fits
  <2>2. \A a \in Fits(l) : a <= a0
    BY <1>3, <1>4, <1>5
  <2> QED
    BY <1>2, <1>3, <1>5, <2>1, <2>2, HeapNoneAssumption
<1>6. CASE ~(l.size <= cursor /\ a0 >= range.start)
  <2>1. Fits(l) = {}
    <3> SUFFICES ASSUME NEW a \in Fits(l) PROVE FALSE
      OBVIOUS
    <3> QED
      BY <1>1, <1>3, <1>4, <1>6
  <2> QED
    BY <1>2, <1>6, <2>1
<1> QED
  BY <1>5, <1>6

\* Entry of allocate().
LEMMA AllocateHeapInv ==
  ASSUME HeapInv, NEW l \in Layouts, Allocate(l)
  PROVE  HeapInv'
<1>1. /\ UNCHANGED <<range, cursor, mapped_start, backed, blocks>>
      /\ phase = "ready" /\ request' = l
  BY DEF Allocate
<1>2. TypeOK /\ Bounds /\ range.start \in Nat /\ range.end \in Nat /\ cursor \in Nat
  BY RangeType DEF HeapInv, TypeOK
<1>3. l.size \in Nat /\ l.align \in Nat \ {0}
  BY LayoutType
<1>4. BackedIsSuffix'
  BY <1>1 DEF HeapInv, BackedIsSuffix, Pages
<1>5. BlocksAboveCursor' /\ BlocksDisjoint' /\ CursorAtLatestBlock'
  BY <1>1, BlocksKept
<1>6. \A x : Fits(x)' = Fits(x)
  BY <1>1 DEF Fits
<1>7. CASE phase' = "ready"
  <2>1. UNCHANGED address /\ result' \in {"ZeroSizedAllocation", "Exhausted"}
    BY <1>7 DEF Allocate
  <2>2. TypeOK'
    BY <1>1, <1>2, <1>7, <2>1 DEF TypeOK, Phases
  <2>3. Bounds'
    BY <1>1, <1>2, <1>7 DEF Bounds, Active, ValidRange
  <2>4. CallShape'
    BY <1>1, <1>7 DEF CallShape, Calling
  <2>5. result' = "Exhausted" => Fits(l) = {}
    BY <1>2, <1>7, PlacementSound DEF Allocate
  <2>6. PlacementIsExact'
    BY <1>1, <1>6, <1>7, <2>5 DEF PlacementIsExact
  <2> QED
    BY <1>4, <1>5, <1>7, <2>2, <2>3, <2>4, <2>6 DEF HeapInv, Unclaimed
<1>8. CASE phase' # "ready"
  <2>1. /\ phase' = "allocating" /\ result' = "Ok"
        /\ address' = Placement(l) /\ Placement(l) # None
    BY <1>1, <1>8 DEF Allocate
  <2>2. address' \in Fits(l) /\ \A a \in Fits(l) : a <= address'
    BY <1>2, <2>1, PlacementSound
  <2>3. /\ address' \in Nat /\ range.start <= address' /\ address' % l.align = 0
        /\ address' + l.size <= cursor
    BY <1>2, <2>2 DEF Fits
  <2>4. TypeOK'
    BY <1>1, <1>2, <2>1, <2>3 DEF TypeOK, Phases
  <2>5. Bounds'
    BY <1>1, <1>2, <2>1 DEF Bounds, Active, ValidRange
  <2>6. CallShape'
    BY <1>1, <2>1, <2>3 DEF CallShape, Calling
  <2>7. PlacementIsExact'
    BY <1>1, <1>6, <2>1, <2>2 DEF PlacementIsExact
  <2> QED
    BY <1>4, <1>5, <2>1, <2>4, <2>5, <2>6, <2>7 DEF HeapInv, Unclaimed
<1> QED
  BY <1>7, <1>8

\* The page a call in progress asks for next lies in the range, right below the
\* backed suffix.
LEMMA NextPage ==
  ASSUME HeapInv, Calling, mapped_start > FirstPage
  PROVE  /\ mapped_start - PageSize \in Nat
         /\ (mapped_start - PageSize) % PageSize = 0
         /\ range.start <= mapped_start - PageSize
<1>1. /\ range.start \in Nat /\ mapped_start \in Nat /\ address \in Nat
      /\ range.start <= address /\ ValidRange /\ mapped_start % PageSize = 0
  BY RangeType DEF HeapInv, TypeOK, CallShape, Bounds, Active, Calling
<1>2. /\ FirstPage \in Nat /\ FirstPage % PageSize = 0 /\ range.start <= FirstPage
  BY <1>1, MaskDownSound DEF FirstPage, ValidRange
<1>3. FirstPage + PageSize <= mapped_start
  BY <1>1, <1>2, MultiplesApart
<1>4. mapped_start > 0
  BY <1>1, <1>2
<1>5. mapped_start - PageSize \in Nat /\ (mapped_start - PageSize) % PageSize = 0
  BY <1>1, <1>4, PreviousMultiple
<1> QED
  BY <1>1, <1>2, <1>3, <1>5

\* A page is added to the backed suffix.
LEMMA BackPageHeapInv == HeapInv /\ BackPage => HeapInv'
<1> SUFFICES ASSUME HeapInv, BackPage PROVE HeapInv'
  OBVIOUS
<1> DEFINE page == mapped_start - PageSize
<1>1. /\ UNCHANGED <<range, phase, cursor, request, address, result, blocks>>
      /\ Calling /\ mapped_start > FirstPage
      /\ backed' = backed \cup {page} /\ mapped_start' = page
  BY DEF BackPage
<1>2. page \in Nat /\ page % PageSize = 0 /\ range.start <= page
  BY <1>1, NextPage
<1>3. /\ range.start \in Nat /\ range.end \in Nat /\ mapped_start \in Nat
      /\ cursor \in Nat /\ mapped_start <= cursor /\ cursor <= range.end
      /\ mapped_start % PageSize = 0
  BY <1>1, RangeType DEF HeapInv, TypeOK, Bounds, Active, Calling
<1>4. page + PageSize = mapped_start
  BY <1>3
<1> HIDE DEF page
<1>5. TypeOK'
  BY <1>1, <1>2 DEF HeapInv, TypeOK
<1>6. Bounds'
  BY <1>1, <1>2, <1>3, <1>4 DEF HeapInv, Bounds, Active, ValidRange
<1>7. BackedIsSuffix'
  <2>1. Pages' = Pages
    BY <1>1 DEF Pages
  <2>2. page \in Pages
    BY <1>2, <1>3, <1>4 DEF Pages
  <2>3. \A p \in Pages : page <= p <=> p = page \/ mapped_start <= p
    <3> TAKE p \in Pages
    <3>1. p \in Nat /\ p % PageSize = 0
      BY <1>3 DEF Pages
    <3>2. page < p => page + PageSize <= p
      BY <1>2, <3>1, MultiplesApart
    <3> QED
      BY <1>2, <1>3, <1>4, <3>1, <3>2
  <2> QED
    BY <1>1, <2>1, <2>2, <2>3 DEF HeapInv, BackedIsSuffix
<1>8. BlocksAboveCursor' /\ BlocksDisjoint' /\ CursorAtLatestBlock'
  BY <1>1, BlocksKept
<1>9. CallShape' /\ Unclaimed'
  BY <1>1 DEF HeapInv, CallShape, Unclaimed, Calling
<1>10. PlacementIsExact'
  BY <1>1 DEF HeapInv, PlacementIsExact, Fits
<1> QED
  BY <1>5, <1>6, <1>7, <1>8, <1>9, <1>10 DEF HeapInv

\* A refused page ends the call and changes nothing of the heap; new() returns
\* its heap without touching it either.
LEMMA EndOfCallHeapInv == HeapInv /\ (BackPageFails \/ ReturnHeap) => HeapInv'
<1> SUFFICES ASSUME HeapInv, BackPageFails \/ ReturnHeap PROVE HeapInv'
  OBVIOUS
<1>1. /\ UNCHANGED <<range, cursor, mapped_start, request, backed, blocks>>
      /\ Calling /\ address' = None
      /\ phase' \in {"ready", "failed"} /\ (phase' = "failed" => phase = "building")
      /\ result' = "Backing" \/ (result' = result /\ phase' = "ready")
  BY DEF BackPageFails, ReturnHeap, Calling
<1>2. TypeOK'
  BY <1>1 DEF HeapInv, TypeOK, Phases
<1>3. Bounds'
  BY <1>1 DEF HeapInv, Bounds, Active, Calling, ValidRange
<1>4. BackedIsSuffix'
  BY <1>1 DEF HeapInv, BackedIsSuffix, Pages
<1>5. BlocksAboveCursor' /\ BlocksDisjoint' /\ CursorAtLatestBlock'
  BY <1>1, BlocksKept
<1>6. result' # "Exhausted"
  BY <1>1 DEF HeapInv, CallShape
<1>7. CallShape' /\ Unclaimed' /\ PlacementIsExact'
  BY <1>1, <1>6 DEF CallShape, Unclaimed, PlacementIsExact, Calling
<1> QED
  BY <1>2, <1>3, <1>4, <1>5, <1>7 DEF HeapInv

\* The returned block lies below all others and above the backed suffix's end.
LEMMA ReturnBlockHeapInv == HeapInv /\ ReturnBlock => HeapInv'
<1> SUFFICES ASSUME HeapInv, ReturnBlock PROVE HeapInv'
  OBVIOUS
<1> DEFINE b == [start |-> address, layout |-> request]
           B == [start : Nat, layout : Layouts]
<1>1. /\ UNCHANGED <<range, mapped_start, request, result, backed>>
      /\ phase = "allocating" /\ phase' = "ready" /\ address' = None
      /\ mapped_start <= FirstPage /\ cursor' = address /\ blocks' = Append(blocks, b)
  BY DEF ReturnBlock
<1>2. /\ address \in Nat /\ range.start <= address /\ result = "Ok"
      /\ request \in Layouts /\ address % request.align = 0
      /\ address + request.size <= cursor
  BY <1>1 DEF HeapInv, CallShape, Calling
<1>3. request.size \in Nat /\ request.align \in Nat \ {0}
  BY <1>2, LayoutType
<1>4. /\ range.start \in Nat /\ range.end \in Nat /\ mapped_start \in Nat /\ cursor \in Nat
      /\ range.start <= mapped_start /\ cursor <= range.end
      /\ ValidRange /\ mapped_start % PageSize = 0 /\ blocks \in Seq(B)
  BY <1>1, RangeType DEF HeapInv, TypeOK, Bounds, Active
<1>5. b \in B /\ b.start = address /\ b.layout = request /\ BlockEnd(b) = address + request.size
  BY <1>2 DEF BlockEnd
<1> HIDE DEF b, B
<1>6. /\ blocks' \in Seq(B) /\ Len(blocks) \in Nat /\ Len(blocks') = Len(blocks) + 1
      /\ DOMAIN blocks = 1 .. Len(blocks) /\ DOMAIN blocks' = 1 .. Len(blocks) + 1
      /\ \A i \in 1 .. Len(blocks) : blocks'[i] = blocks[i]
      /\ blocks'[Len(blocks) + 1] = b
  BY <1>1, <1>4, <1>5
<1>7. FirstPage <= address /\ FirstPage \in Nat
  BY <1>2, MaskDownSound DEF FirstPage
<1>8. TypeOK'
  BY <1>1, <1>2, <1>6 DEF HeapInv, TypeOK, Phases, B
<1>9. Bounds'
  BY <1>1, <1>2, <1>3, <1>4, <1>7 DEF Bounds, Active, ValidRange
<1>10. ASSUME NEW i \in 1 .. Len(blocks)
       PROVE  /\ blocks[i].start \in Nat /\ cursor <= blocks[i].start
              /\ blocks[i].start % blocks[i].layout.align = 0
              /\ BlockEnd(blocks[i]) <= range.end
  <2>1. blocks[i] \in B
    BY <1>4, <1>6
  <2>2. blocks[i].start \in Nat
    BY <2>1 DEF B
  <2> QED
    BY <1>6, <2>2, Zenon DEF HeapInv, BlocksAboveCursor
<1>11. BlocksAboveCursor'
  <2> SUFFICES ASSUME NEW i \in 1 .. Len(blocks) + 1
               PROVE  /\ blocks'[i].start % blocks'[i].layout.align = 0
                      /\ address <= blocks'[i].start
                      /\ BlockEnd(blocks'[i]) <= range.end
    BY <1>1, <1>6 DEF BlocksAboveCursor, BlockEnd
  <2>1. CASE i = Len(blocks) + 1
    <3>1. blocks'[i] = b
      BY <1>6, <2>1
    <3>2. blocks'[i].start = address /\ blocks'[i].layout = request
          /\ BlockEnd(blocks'[i]) = address + request.size
      BY <1>5, <3>1, Zenon
    <3>3. blocks'[i].start % blocks'[i].layout.align = 0
      BY <1>2, <3>2, Zenon
    <3>4. address <= address /\ address + request.size <= range.end
      BY <1>2, <1>3, <1>4
    <3> QED
      BY <3>2, <3>3, <3>4, Zenon
  <2>2. CASE i \in 1 .. Len(blocks)
    <3>1. blocks'[i] = blocks[i]
      BY <1>6, <2>2, Zenon
    <3>2. /\ blocks[i].start \in Nat /\ cursor <= blocks[i].start
          /\ blocks[i].start % blocks[i].layout.align = 0
          /\ BlockEnd(blocks[i]) <= range.end
      BY <1>10, <2>2, Zenon
    <3>3. address <= cursor
      BY <1>2, <1>3, <1>4
    <3>4. address <= blocks[i].start
      BY <1>2, <1>4, <3>2, <3>3
    <3> QED
      BY <3>1, <3>2, <3>4, Zenon
  <2> QED
    BY <1>6, <2>1, <2>2
<1>12. BlocksDisjoint'
  <2> SUFFICES ASSUME NEW i \in 1 .. Len(blocks) + 1, NEW j \in 1 .. Len(blocks) + 1, i < j
               PROVE  BlockEnd(blocks'[j]) <= blocks'[i].start
    BY <1>6 DEF BlocksDisjoint, BlockEnd
  <2>1. i \in 1 .. Len(blocks)
    BY <1>6
  <2>2. CASE j = Len(blocks) + 1
    BY <1>2, <1>3, <1>4, <1>5, <1>6, <1>10, <2>1, <2>2
  <2>3. CASE j \in 1 .. Len(blocks)
    BY <1>6, <2>1, <2>3 DEF HeapInv, BlocksDisjoint
  <2> QED
    BY <1>6, <2>2, <2>3
<1>13. CursorAtLatestBlock'
  BY <1>1, <1>5, <1>6 DEF CursorAtLatestBlock
<1>14. BackedIsSuffix'
  BY <1>1 DEF HeapInv, BackedIsSuffix, Pages
<1>15. CallShape' /\ Unclaimed' /\ PlacementIsExact'
  BY <1>1, <1>2 DEF CallShape, Unclaimed, PlacementIsExact, Calling
<1> QED
  BY <1>8, <1>9, <1>11, <1>12, <1>13, <1>14, <1>15 DEF HeapInv

LEMMA NextHeapInv == HeapInv /\ [Next]_vars => HeapInv'
<1>1. HeapInv /\ UNCHANGED vars => HeapInv'
  <2> SUFFICES ASSUME HeapInv, UNCHANGED vars PROVE HeapInv'
    OBVIOUS
  <2>1. UNCHANGED <<range, phase, cursor, mapped_start, request, address, result, backed, blocks>>
    BY DEF vars
  <2>2. BlocksAboveCursor' /\ BlocksDisjoint' /\ CursorAtLatestBlock'
    BY <2>1, BlocksKept
  <2>3. TypeOK' /\ Unclaimed' /\ Bounds' /\ CallShape'
    BY <2>1 DEF HeapInv, TypeOK, Unclaimed, Bounds, CallShape, Active, Calling, ValidRange
  <2>4. BackedIsSuffix' /\ PlacementIsExact'
    BY <2>1 DEF HeapInv, BackedIsSuffix, PlacementIsExact, Pages, Fits
  <2> QED
    BY <2>2, <2>3, <2>4 DEF HeapInv
<1> QED
  BY <1>1, NewHeapInv, AllocateHeapInv, BackPageHeapInv, EndOfCallHeapInv,
     ReturnBlockHeapInv DEF Next, Step

-----------------------------------------------------------------------------
(* The theorems.                                                           *)

\* The inductive invariant of the heap holds in every reachable state.
THEOREM HeapInductive == Spec => []HeapInv
  BY InitHeapInv, NextHeapInv, PTL DEF Spec

\* Type correctness of the heap's state.
THEOREM HeapTypeCorrect == Spec => []TypeOK
<1>1. HeapInv => TypeOK
  BY DEF HeapInv
<1> QED
  BY <1>1, HeapInductive, PTL

\* mapped_start describes the mapped pages exactly, after any failures.
THEOREM BackedSuffixExact == Spec => []BackedIsSuffix
<1>1. HeapInv => BackedIsSuffix
  BY DEF HeapInv
<1> QED
  BY <1>1, HeapInductive, PTL

\* No two blocks returned by allocate() overlap.
THEOREM HeapBlocksDisjoint == Spec => []BlocksDisjoint
<1>1. HeapInv => BlocksDisjoint
  BY DEF HeapInv
<1> QED
  BY <1>1, HeapInductive, PTL

\* Failed calls consume no virtual space.
THEOREM FailureCostsNoSpace == Spec => []CursorAtLatestBlock
<1>1. HeapInv => CursorAtLatestBlock
  BY DEF HeapInv
<1> QED
  BY <1>1, HeapInductive, PTL

\* allocate() finds the highest aligned address that holds the request, and
\* reports exhaustion only if there is none.
THEOREM PlacementExact == Spec => []PlacementIsExact
<1>1. HeapInv => PlacementIsExact
  BY DEF HeapInv
<1> QED
  BY <1>1, HeapInductive, PTL

\* Every returned block is aligned, inside the reservation and fully backed.
THEOREM HeapBlocksUsable == Spec => []BlocksUsable
<1>1. HeapInv => BlocksUsable
  <2> SUFFICES ASSUME HeapInv, NEW i \in DOMAIN blocks
               PROVE  /\ blocks[i].start % blocks[i].layout.align = 0
                      /\ blocks[i].start > 0
                      /\ range.start <= blocks[i].start
                      /\ BlockEnd(blocks[i]) <= range.end
                      /\ \A byte \in blocks[i].start .. BlockEnd(blocks[i]) - 1 :
                           MaskDown(byte, PageSize) \in backed
    BY DEF BlocksUsable
  <2>1. blocks[i] \in [start : Nat, layout : Layouts]
    <3>1. blocks \in Seq([start : Nat, layout : Layouts])
      BY DEF HeapInv, TypeOK
    <3>2. i \in 1 .. Len(blocks)
      BY <3>1, LenProperties, Zenon
    <3> QED
      BY <3>1, <3>2, ElementOfSeq, Zenon
  <2>2. /\ blocks[i].start \in Nat /\ BlockEnd(blocks[i]) \in Nat
    BY <2>1, LayoutType DEF BlockEnd
  <2>3. blocks # << >>
    OBVIOUS
  <2>4. phase \in {"ready", "allocating"}
    BY <2>3 DEF HeapInv, Bounds, TypeOK, Phases
  <2>5. /\ range.start \in Nat /\ range.end \in Nat /\ mapped_start \in Nat /\ cursor \in Nat
        /\ range.start <= mapped_start /\ mapped_start <= cursor
        /\ ValidRange /\ mapped_start % PageSize = 0
    BY <2>4, RangeType DEF HeapInv, TypeOK, Bounds, Active
  <2>6. /\ blocks[i].start % blocks[i].layout.align = 0
        /\ cursor <= blocks[i].start /\ BlockEnd(blocks[i]) <= range.end
    BY Zenon DEF HeapInv, BlocksAboveCursor
  <2>7. ASSUME NEW byte \in blocks[i].start .. BlockEnd(blocks[i]) - 1
        PROVE  MaskDown(byte, PageSize) \in backed
    <3>1. byte \in Nat /\ mapped_start <= byte /\ byte < range.end
      BY <2>2, <2>5, <2>6
    <3>2. /\ MaskDown(byte, PageSize) \in Nat /\ MaskDown(byte, PageSize) <= byte
          /\ MaskDown(byte, PageSize) % PageSize = 0
          /\ mapped_start <= MaskDown(byte, PageSize)
      BY <2>5, <3>1, MaskDownSound
    <3> HIDE DEF MaskDown
    <3>3. MaskDown(byte, PageSize) \in Pages
      BY <2>5, <3>1, <3>2 DEF Pages
    <3> QED
      BY <3>2, <3>3 DEF HeapInv, BackedIsSuffix
  <2> QED
    BY <2>2, <2>5, <2>6, <2>7 DEF ValidRange
<1> QED
  BY <1>1, HeapInductive, PTL

=============================================================================
