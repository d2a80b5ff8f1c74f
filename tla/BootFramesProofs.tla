-------------------------- MODULE BootFramesProofs --------------------------
(***************************************************************************)
(* Proofs about the boot frame allocator for every frame size, address     *)
(* width and platform.                                                     *)
(***************************************************************************)
EXTENDS BootFrames, AlignmentTheorems, WellFoundedInduction,
        NaturalsInduction, SequenceTheorems

USE FrameSizeAssumption, MaxAddrAssumption

-----------------------------------------------------------------------------
(* Rounding to frames.                                                     *)

\* align_up yields an aligned address that is not below its argument.
LEMMA AlignUpSound ==
  ASSUME NEW x \in Addrs, AlignUp(x) # None
  PROVE  AlignUp(x) \in Addrs /\ x <= AlignUp(x) /\ AlignUp(x) % FrameSize = 0
<1>1. CASE x % FrameSize = 0
  BY <1>1 DEF AlignUp, Addrs
<1>2. CASE x % FrameSize # 0
  <2>1. AlignUp(x) = x + (FrameSize - (x % FrameSize)) /\ AlignUp(x) <= MaxAddr
    BY <1>2 DEF AlignUp, CheckedAdd
  <2> QED
    BY <1>2, <2>1, RoundUp DEF Addrs
<1> QED
  BY <1>1, <1>2

\* No aligned address above x lies below align_up(x), which in particular
\* exists when there is one.
LEMMA AlignUpLeast ==
  ASSUME NEW x \in Addrs, NEW a \in Addrs, a % FrameSize = 0, x <= a
  PROVE  AlignUp(x) # None /\ AlignUp(x) <= a
<1>1. CASE x % FrameSize = 0
  BY <1>1, NoneAssumption DEF AlignUp, Addrs
<1>2. CASE x % FrameSize # 0
  <2> DEFINE up == x + (FrameSize - (x % FrameSize))
  <2>1. x \in Nat /\ a \in Nat /\ a <= MaxAddr
    BY DEF Addrs
  <2>2. up \in Nat /\ up <= a
    BY <1>2, <2>1, RoundUp, Zenon
  <2>3. up <= MaxAddr
    BY <2>1, <2>2
  <2>4. AlignUp(x) = up
    BY <1>2, <2>3 DEF AlignUp, CheckedAdd
  <2> QED
    BY <2>2, <2>4, NoneAssumption
<1> QED
  BY <1>1, <1>2

\* align_down keeps every complete frame below its argument.
LEMMA AlignDownSound ==
  ASSUME NEW x \in Addrs
  PROVE  /\ AlignDown(x) \in Addrs
         /\ AlignDown(x) <= x
         /\ AlignDown(x) % FrameSize = 0
         /\ \A a \in Nat : a % FrameSize = 0 /\ a + FrameSize <= x
                             => a + FrameSize <= AlignDown(x)
<1>1. /\ AlignDown(x) \in Nat
      /\ AlignDown(x) <= x
      /\ x < AlignDown(x) + FrameSize
      /\ AlignDown(x) % FrameSize = 0
  BY RoundDown DEF AlignDown, Addrs
<1>2. ASSUME NEW a \in Nat, a % FrameSize = 0, a + FrameSize <= x
      PROVE  a + FrameSize <= AlignDown(x)
  <2>1. a < AlignDown(x)
    BY <1>1, <1>2 DEF Addrs
  <2> QED
    BY <1>1, <1>2, <2>1, MultiplesApart
<1> QED
  BY <1>1, <1>2 DEF Addrs

-----------------------------------------------------------------------------
(* The platform.                                                           *)

\* The ranges of a validated platform are what the type says.
LEMMA PlatformTypes ==
  ASSUME platform \in Platforms
  PROVE  /\ Memory \in Seq(RangeEntry)
         /\ platform.kernel \in PhysRange
         /\ platform.dtb \in PhysRange
         /\ platform.reservations \in Seq(ReservationEntry)
         /\ platform.reserved_memory \in Seq(RangeEntry)
  BY PlatformsAssumption DEF Memory

\* A memory range is a nonempty PhysRange.
LEMMA MemoryRange ==
  ASSUME platform \in Platforms, NEW k \in DOMAIN Memory
  PROVE  FdtRange(Memory[k]) \in PhysRange
<1>1. Memory[k] \in RangeEntry
  BY PlatformTypes
<1> QED
  BY <1>1 DEF RangeEntry, Entry, FdtRange, PhysRange, Addrs

\* The sequence of reserved ranges: kernel and DTB first, then the entries of
\* the reservation block, then those of /reserved-memory.
LEMMA ReservedElements ==
  ASSUME platform \in Platforms
  PROVE  /\ DOMAIN Reserved \subseteq Nat
         /\ \A i \in DOMAIN Reserved :
              \/ Reserved[i] = platform.kernel
              \/ Reserved[i] = platform.dtb
              \/ \E j \in DOMAIN platform.reservations :
                   Reserved[i] = FdtRange(platform.reservations[j])
              \/ \E j \in DOMAIN platform.reserved_memory :
                   Reserved[i] = FdtRange(platform.reserved_memory[j])
         /\ \E i \in DOMAIN Reserved : Reserved[i] = platform.kernel
         /\ \E i \in DOMAIN Reserved : Reserved[i] = platform.dtb
         /\ \A j \in DOMAIN platform.reservations :
              \E i \in DOMAIN Reserved : Reserved[i] = FdtRange(platform.reservations[j])
         /\ \A j \in DOMAIN platform.reserved_memory :
              \E i \in DOMAIN Reserved : Reserved[i] = FdtRange(platform.reserved_memory[j])
<1> DEFINE S == [start : Nat, end : Nat]
           P == platform.reservations
           Q == platform.reserved_memory
           L == P \o Q
           F == [i \in DOMAIN L |-> FdtRange(L[i])]
           K == <<platform.kernel, platform.dtb>>
<1>1. P \in Seq(Entry) /\ Q \in Seq(Entry)
  BY PlatformTypes, SeqMonotonic DEF RangeEntry, ReservationEntry
<1> HIDE DEF P, Q
<1>2. /\ L \in Seq(Entry)
      /\ Len(L) = Len(P) + Len(Q)
      /\ \A i \in 1 .. Len(P) + Len(Q) :
           L[i] = IF i <= Len(P) THEN P[i] ELSE Q[i - Len(P)]
  BY <1>1, ConcatProperties
<1>3. Len(P) \in Nat /\ DOMAIN P = 1 .. Len(P) /\ Len(Q) \in Nat /\ DOMAIN Q = 1 .. Len(Q)
  BY <1>1
<1> HIDE DEF L
<1>4. Len(L) \in Nat /\ DOMAIN L = 1 .. Len(L)
  BY <1>2
<1>5. \A i \in 1 .. Len(L) : FdtRange(L[i]) \in S
  <2> TAKE i \in 1 .. Len(L)
  <2>1. L[i] \in Entry
    BY <1>2, <1>4
  <2> QED
    BY <2>1 DEF Entry, FdtRange, Addrs
<1>6. F \in [1 .. Len(L) -> S]
  BY <1>4, <1>5
<1>7. F \in Seq(S)
  BY <1>4, <1>6, SeqDef
<1>8. Len(F) = Len(L) /\ \A i \in 1 .. Len(L) : F[i] = FdtRange(L[i])
  BY <1>4, <1>6, <1>7
<1> HIDE DEF F
<1>9. K \in Seq(S) /\ Len(K) = 2 /\ K[1] = platform.kernel /\ K[2] = platform.dtb
  BY PlatformTypes DEF PhysRange, Addrs
<1>10. Reserved = K \o F
  BY DEF Reserved, F, L, P, Q
<1> HIDE DEF K
<1>11. /\ Reserved \in Seq(S)
       /\ Len(Reserved) = 2 + Len(L)
       /\ \A i \in 1 .. 2 + Len(L) : Reserved[i] = IF i <= 2 THEN K[i] ELSE F[i - 2]
  <2>1. /\ K \o F \in Seq(S)
        /\ Len(K \o F) = Len(K) + Len(F)
        /\ \A i \in 1 .. Len(K) + Len(F) :
             (K \o F)[i] = IF i <= Len(K) THEN K[i] ELSE F[i - Len(K)]
    BY <1>7, <1>9, ConcatProperties, Zenon
  <2> QED
    BY <1>8, <1>9, <1>10, <2>1, Zenon
<1>12. DOMAIN Reserved = 1 .. 2 + Len(L)
  BY <1>11
<1>13. Reserved[1] = platform.kernel /\ Reserved[2] = platform.dtb
  BY <1>4, <1>9, <1>11
<1>14. \A i \in 1 .. Len(P) : Reserved[i + 2] = FdtRange(P[i])
  <2> TAKE i \in 1 .. Len(P)
  <2>1. i + 2 \in 1 .. 2 + Len(L) /\ i \in 1 .. Len(L) /\ ~(i + 2 <= 2) /\ (i + 2) - 2 = i
    BY <1>2, <1>3
  <2>2. Reserved[i + 2] = F[i]
    BY <1>11, <2>1, Zenon
  <2>3. L[i] = P[i]
    BY <1>2, <1>3
  <2> QED
    BY <1>8, <2>1, <2>2, <2>3
<1>15. \A i \in 1 .. Len(Q) : Reserved[i + Len(P) + 2] = FdtRange(Q[i])
  <2> TAKE i \in 1 .. Len(Q)
  <2> DEFINE j == i + Len(P)
  <2>1. j + 2 \in 1 .. 2 + Len(L) /\ j \in 1 .. Len(L) /\ ~(j + 2 <= 2) /\ (j + 2) - 2 = j
    BY <1>2, <1>3
  <2>2. Reserved[j + 2] = F[j]
    BY <1>11, <2>1, Zenon
  <2>3. L[j] = Q[i]
    BY <1>2, <1>3
  <2> QED
    BY <1>8, <2>1, <2>2, <2>3
<1>16. ASSUME NEW i \in DOMAIN Reserved
       PROVE  \/ Reserved[i] = platform.kernel
              \/ Reserved[i] = platform.dtb
              \/ \E j \in DOMAIN P : Reserved[i] = FdtRange(P[j])
              \/ \E j \in DOMAIN Q : Reserved[i] = FdtRange(Q[j])
  <2>1. i = 1 \/ i = 2 \/ i - 2 \in 1 .. Len(P) \/ i - 2 - Len(P) \in 1 .. Len(Q)
    BY <1>2, <1>3, <1>12
  <2>2. CASE i - 2 \in 1 .. Len(P)
    <3>1. (i - 2) + 2 = i
      BY <1>12
    <3> QED
      BY <1>3, <1>14, <2>2, <3>1
  <2>3. CASE i - 2 - Len(P) \in 1 .. Len(Q)
    <3>1. (i - 2 - Len(P)) + Len(P) + 2 = i
      BY <1>3, <1>12
    <3> QED
      BY <1>3, <1>15, <2>3, <3>1
  <2> QED
    BY <1>13, <2>1, <2>2, <2>3
<1>17. 1 \in DOMAIN Reserved /\ 2 \in DOMAIN Reserved
  BY <1>4, <1>12
<1>18. ASSUME NEW j \in DOMAIN P
       PROVE  \E i \in DOMAIN Reserved : Reserved[i] = FdtRange(P[j])
  <2>1. j + 2 \in DOMAIN Reserved
    BY <1>2, <1>3, <1>12
  <2> QED
    BY <1>3, <1>14, <2>1
<1>19. ASSUME NEW j \in DOMAIN Q
       PROVE  \E i \in DOMAIN Reserved : Reserved[i] = FdtRange(Q[j])
  <2>1. j + Len(P) + 2 \in DOMAIN Reserved
    BY <1>2, <1>3, <1>12
  <2> QED
    BY <1>3, <1>15, <2>1
<1>20. DOMAIN Reserved \subseteq Nat
  BY <1>4, <1>12
<1> QED
  BY <1>13, <1>16, <1>17, <1>18, <1>19, <1>20 DEF P, Q

\* Every reserved range has representable ends in order; those of the
\* reservation block may be empty.
LEMMA ReservedRange ==
  ASSUME platform \in Platforms, NEW i \in DOMAIN Reserved
  PROVE  /\ Reserved[i].start \in Addrs
         /\ Reserved[i].end \in Addrs
         /\ Reserved[i].start <= Reserved[i].end
<1>1. ASSUME NEW e \in ReservationEntry
      PROVE  FdtRange(e).start \in Addrs /\ FdtRange(e).end \in Addrs
             /\ FdtRange(e).start <= FdtRange(e).end
  BY DEF ReservationEntry, Entry, FdtRange, Addrs
<1>2. ASSUME NEW r \in PhysRange
      PROVE  r.start \in Addrs /\ r.end \in Addrs /\ r.start <= r.end
  BY DEF PhysRange, Addrs
<1>3. \A j \in DOMAIN platform.reservations : platform.reservations[j] \in ReservationEntry
  BY PlatformTypes
<1>4. \A j \in DOMAIN platform.reserved_memory :
        platform.reserved_memory[j] \in ReservationEntry
  <2> TAKE j \in DOMAIN platform.reserved_memory
  <2>1. platform.reserved_memory[j] \in RangeEntry
    BY PlatformTypes
  <2> QED
    BY <2>1 DEF RangeEntry, ReservationEntry
<1> QED
  BY <1>1, <1>2, <1>3, <1>4, PlatformTypes, ReservedElements, Zenon

\* The overlap test of allocate() finds nothing exactly when no byte of the
\* candidate frame is reserved.
LEMMA BlockingIffReservedByte ==
  ASSUME platform \in Platforms, NEW a \in Nat
  PROVE  Blocking(a) = {} <=> \A b \in BytesOf(a) : ~ReservedByte(b)
<1> DEFINE Meets(r) == r.start # r.end /\ Overlaps(FrameRange(a), r)
<1>1. ASSUME NEW i \in DOMAIN Reserved
      PROVE  Meets(Reserved[i]) <=> \E b \in BytesOf(a) : Holds(Reserved[i], b)
  <2> DEFINE r == Reserved[i]
             b0 == IF r.start <= a THEN a ELSE r.start
  <2>1. r.start \in Nat /\ r.end \in Nat /\ r.start <= r.end
    BY ReservedRange DEF Addrs
  <2>2. ASSUME Meets(r) PROVE b0 \in BytesOf(a) /\ Holds(r, b0)
    BY <2>1, <2>2 DEF Overlaps, FrameRange, BytesOf, Holds
  <2>3. ASSUME NEW b \in BytesOf(a), Holds(r, b) PROVE Meets(r)
    BY <2>1, <2>3 DEF Overlaps, FrameRange, BytesOf, Holds
  <2> HIDE DEF b0
  <2> QED
    BY <2>2, <2>3
<1>2. Blocking(a) = {} <=> \A i \in DOMAIN Reserved : ~Meets(Reserved[i])
  BY DEF Blocking
<1>3. ASSUME NEW b
      PROVE  ReservedByte(b) <=> \E i \in DOMAIN Reserved : Holds(Reserved[i], b)
  <2>1. ASSUME NEW i \in DOMAIN Reserved, Holds(Reserved[i], b)
        PROVE  ReservedByte(b)
    BY <2>1, ReservedElements, Zenon DEF ReservedByte
  <2>2. ASSUME ReservedByte(b)
        PROVE  \E i \in DOMAIN Reserved : Holds(Reserved[i], b)
    BY <2>2, ReservedElements, Zenon DEF ReservedByte
  <2> QED
    BY <2>1, <2>2
<1> HIDE DEF Meets
<1> QED
  BY <1>1, <1>2, <1>3, Zenon

\* A nonempty set of naturals has a least element.
LEMMA LeastNatural ==
  ASSUME NEW T \in SUBSET Nat, T # {}
  PROVE  \E x \in T : \A y \in T : x <= y
<1>1. PICK x \in T : \A y \in T : ~(<<y, x>> \in OpToRel(<, Nat))
  BY NatLessThanWellFounded, WFMin
<1>2. \A y \in T : ~(y < x)
  BY <1>1 DEF OpToRel
<1> QED
  BY <1>2

\* overlapping_reservation returns one of the ranges that block the candidate.
LEMMA OverlappingReservationBlocks ==
  ASSUME platform \in Platforms, NEW a \in Nat, Blocking(a) # {}
  PROVE  \E i \in Blocking(a) : OverlappingReservation(a) = Reserved[i]
<1>1. Blocking(a) \subseteq Nat
  BY ReservedElements DEF Blocking
<1>2. PICK i \in Blocking(a) : \A j \in Blocking(a) : i <= j
  BY <1>1, LeastNatural
<1> QED
  BY <1>2, Zenon DEF OverlappingReservation

-----------------------------------------------------------------------------
(* Allocatable frames.                                                     *)

\* The byte-wise reference in the terms the scan uses.
LEMMA AllocatableIff ==
  ASSUME platform \in Platforms, NEW a \in Addrs
  PROVE  a \in Allocatable <=> /\ a % FrameSize = 0
                              /\ \E k \in DOMAIN Memory : FrameIn(a, k)
                              /\ Blocking(a) = {}
<1>1. ASSUME NEW k \in DOMAIN Memory
      PROVE  (\A b \in BytesOf(a) : Holds(FdtRange(Memory[k]), b)) <=> FrameIn(a, k)
  <2> DEFINE r == FdtRange(Memory[k])
  <2>1. r.start \in Nat /\ r.end \in Nat
    BY MemoryRange DEF PhysRange, Addrs
  <2>2. a \in BytesOf(a) /\ a + FrameSize - 1 \in BytesOf(a)
    BY DEF BytesOf, Addrs
  <2>3. ASSUME Holds(r, a), Holds(r, a + FrameSize - 1) PROVE FrameIn(a, k)
    BY <2>1, <2>3 DEF Holds, FrameIn, Addrs
  <2>4. ASSUME FrameIn(a, k), NEW b \in BytesOf(a) PROVE Holds(r, b)
    BY <2>1, <2>4 DEF Holds, FrameIn, BytesOf, Addrs
  <2> HIDE DEF r
  <2> QED
    BY <2>2, <2>3, <2>4, Zenon DEF r
<1>2. Blocking(a) = {} <=> \A b \in BytesOf(a) : ~ReservedByte(b)
  BY BlockingIffReservedByte DEF Addrs
<1> QED
  BY <1>1, <1>2, Zenon DEF Allocatable

\* With disjoint memory ranges, a frame belongs to one of them only.
LEMMA FrameInOneRange ==
  ASSUME platform \in Platforms, MemoryIsDisjoint, NEW a \in Addrs,
         NEW j \in DOMAIN Memory, NEW k \in DOMAIN Memory,
         FrameIn(a, j), FrameIn(a, k)
  PROVE  j = k
<1>1. j \in Nat /\ k \in Nat
  BY PlatformTypes
<1>2. ASSUME NEW x \in DOMAIN Memory, NEW y \in DOMAIN Memory, x < y,
             FrameIn(a, x), FrameIn(a, y)
      PROVE  FALSE
  <2>1. ~Overlaps(FdtRange(Memory[x]), FdtRange(Memory[y]))
    BY <1>2 DEF MemoryIsDisjoint
  <2>2. /\ FdtRange(Memory[x]).start \in Nat /\ FdtRange(Memory[x]).end \in Nat
        /\ FdtRange(Memory[y]).start \in Nat /\ FdtRange(Memory[y]).end \in Nat
    BY MemoryRange DEF PhysRange, Addrs
  <2> QED
    BY <1>2, <2>1, <2>2 DEF Overlaps, FrameIn, Addrs
<1> QED
  BY <1>1, <1>2

\* The aligned part of the next range keeps every complete frame of it.
LEMMA AlignedPartKeepsFrames ==
  ASSUME platform \in Platforms, next \in DOMAIN Memory, NEW a \in Addrs,
         a % FrameSize = 0, FrameIn(a, next)
  PROVE  HasCompleteFrame /\ AlignedStart <= a /\ a + FrameSize <= AlignedEnd
<1> DEFINE r == FdtRange(Memory[next])
<1>1. r.start \in Addrs /\ r.end \in Addrs
  BY MemoryRange DEF PhysRange
<1>2. r.start <= a /\ a + FrameSize <= r.end
  BY DEF FrameIn
<1>3. AlignUp(r.start) # None /\ AlignUp(r.start) <= a
  BY <1>1, <1>2, AlignUpLeast
<1>4. a + FrameSize <= AlignDown(r.end)
  BY <1>1, <1>2, AlignDownSound DEF Addrs
<1>5. AlignUp(r.start) \in Nat /\ AlignDown(r.end) \in Nat
  BY <1>1, <1>3, AlignUpSound, AlignDownSound DEF Addrs
<1>6. AlignedStart = AlignUp(r.start) /\ AlignedEnd = AlignDown(r.end)
  BY DEF AlignedStart, AlignedEnd
<1> HIDE DEF r
<1> QED
  BY <1>3, <1>4, <1>5, <1>6 DEF HasCompleteFrame, Addrs

-----------------------------------------------------------------------------
(* The inductive invariant.                                                *)

\* Nothing happens before the successful claim, and a claim succeeds only on
\* disjoint memory.
ClaimGuards ==
  /\ claimed => MemoryIsDisjoint
  /\ ~claimed => /\ ~calling /\ ~refused
                 /\ next = 1 /\ current = None /\ issued = << >>

IndInv ==
  /\ TypeOK
  /\ ClaimGuards
  /\ CursorIsFrame
  /\ ScanIsExact
  /\ NoFrameIssuedTwice
  /\ OnlyAllocatableIssued

\* What depends on the platform alone does not change with the scan.
LEMMA PlatformConstant ==
  ASSUME platform' = platform
  PROVE  /\ Memory' = Memory
         /\ Allocatable' = Allocatable
         /\ MemoryIsDisjoint' = MemoryIsDisjoint
         /\ \A a, k : FrameIn(a, k)' = FrameIn(a, k)
         /\ \A a : Blocking(a)' = Blocking(a)
<1>1. Memory' = Memory
  BY DEF Memory
<1>2. Allocatable' = Allocatable
  BY <1>1 DEF Allocatable, ReservedByte
<1>3. MemoryIsDisjoint' = MemoryIsDisjoint
  BY <1>1 DEF MemoryIsDisjoint
<1>4. \A a, k : FrameIn(a, k)' = FrameIn(a, k)
  BY <1>1 DEF FrameIn
<1>5. \A a : Blocking(a)' = Blocking(a)
  BY DEF Blocking, Reserved
<1> QED
  BY <1>1, <1>2, <1>3, <1>4, <1>5

\* A CurrentMemoryRange is not None.
LEMMA RangeIsSome ==
  ASSUME NEW c \in Addrs, NEW e \in Addrs
  PROVE  [cursor |-> c, end |-> e] # None
  BY NoneIsNoCursor DEF Addrs

\* The candidate of a scan in progress is a complete frame of the range the
\* iterator yielded last.
LEMMA CandidateIsFrame ==
  ASSUME IndInv, current # None
  PROVE  /\ next - 1 \in DOMAIN Memory
         /\ current.cursor \in Addrs /\ current.end \in Addrs
         /\ current.cursor % FrameSize = 0
         /\ current.cursor + FrameSize <= current.end
         /\ FrameIn(current.cursor, next - 1)
         /\ \A a \in Addrs : a % FrameSize = 0 /\ FrameIn(a, next - 1)
                              => a + FrameSize <= current.end
<1> USE DEF IndInv
<1>1. next - 1 \in DOMAIN Memory
  BY PlatformTypes DEF TypeOK, CursorIsFrame
<1> DEFINE r == FdtRange(Memory[next - 1])
<1>2. r.start \in Addrs /\ r.end \in Addrs
  BY <1>1, MemoryRange DEF PhysRange, TypeOK
<1>3. current.cursor \in Addrs /\ current.end \in Addrs
  BY DEF TypeOK
<1>4. /\ current.cursor % FrameSize = 0 /\ current.end % FrameSize = 0
      /\ current.cursor < current.end
      /\ r.start <= current.cursor /\ current.end <= r.end
      /\ current.end = AlignDown(r.end)
  BY DEF CursorIsFrame, IsFrameStart, ScanIsExact
<1>5. current.cursor + FrameSize <= current.end
  BY <1>3, <1>4, MultiplesApart DEF Addrs
<1>6. FrameIn(current.cursor, next - 1)
  BY <1>2, <1>3, <1>4, <1>5 DEF FrameIn, Addrs
<1>7. ASSUME NEW a \in Addrs, a % FrameSize = 0, FrameIn(a, next - 1)
      PROVE  a + FrameSize <= current.end
  BY <1>2, <1>4, <1>7, AlignDownSound DEF FrameIn, Addrs
<1> QED
  BY <1>1, <1>3, <1>4, <1>5, <1>6, <1>7

\* The initial state.
LEMMA InitIndInv == Init => IndInv
<1> SUFFICES ASSUME Init PROVE IndInv
  OBVIOUS
<1> USE DEF Init
<1>1. TypeOK
  <2>1. Len(Memory) \in Nat
    BY PlatformTypes
  <2>2. next \in 1 .. Len(Memory) + 1
    BY <2>1
  <2>3. issued \in Seq(Addrs)
    OBVIOUS
  <2> QED
    BY <2>2, <2>3, Zenon DEF TypeOK
<1>2. ScanIsExact
  BY PlatformTypes DEF ScanIsExact, Passed, IsIssued
<1> QED
  BY <1>1, <1>2 DEF IndInv, ClaimGuards, CursorIsFrame, NoFrameIssuedTwice,
                    OnlyAllocatableIssued

\* claim() and the entry of allocate() leave the scan alone.
LEMMA ClaimIndInv == IndInv /\ (Claim \/ Allocate) => IndInv'
<1> SUFFICES ASSUME IndInv, Claim \/ Allocate PROVE IndInv'
  OBVIOUS
<1>1. UNCHANGED <<platform, next, current, issued, refused>>
  BY DEF Claim, Allocate, IndInv, ClaimGuards
<1>2. /\ Memory' = Memory /\ Allocatable' = Allocatable
      /\ MemoryIsDisjoint' = MemoryIsDisjoint
  BY <1>1, PlatformConstant
<1>3. TypeOK'
  BY <1>1, <1>2 DEF IndInv, TypeOK, Claim, Allocate
<1>4. ClaimGuards'
  BY <1>1, <1>2 DEF IndInv, ClaimGuards, Claim, Allocate, TypeOK
<1>5. CursorIsFrame' /\ NoFrameIssuedTwice' /\ OnlyAllocatableIssued'
  BY <1>1, <1>2 DEF IndInv, CursorIsFrame, NoFrameIssuedTwice, OnlyAllocatableIssued
<1>6. ScanIsExact'
  BY <1>1, <1>2 DEF IndInv, ScanIsExact, FrameIn, Passed, IsIssued
<1> QED
  BY <1>3, <1>4, <1>5, <1>6 DEF IndInv

\* advance_memory_range passes only ranges without a complete frame, and starts
\* a scan at the first complete frame.
LEMMA AdvanceIndInv == IndInv /\ (SkipRange \/ TakeRange) => IndInv'
<1> SUFFICES ASSUME IndInv, SkipRange \/ TakeRange PROVE IndInv'
  OBVIOUS
<1> DEFINE r == FdtRange(Memory[next])
<1>1. /\ UNCHANGED <<platform, claimed, outcome, calling, issued, refused>>
      /\ current = None /\ calling /\ next <= Len(Memory) /\ next' = next + 1
  BY DEF SkipRange, TakeRange
<1>2. platform \in Platforms /\ next \in DOMAIN Memory /\ next \in Nat /\ Len(Memory) \in Nat
  BY <1>1, PlatformTypes DEF IndInv, TypeOK
<1>3. /\ Memory' = Memory /\ Allocatable' = Allocatable
      /\ MemoryIsDisjoint' = MemoryIsDisjoint
  BY <1>1, PlatformConstant
<1>4. r.start \in Addrs /\ r.end \in Addrs
  BY <1>2, MemoryRange DEF PhysRange
<1>5. AlignedStart = AlignUp(r.start) /\ AlignedEnd = AlignDown(r.end)
  BY DEF AlignedStart, AlignedEnd
<1> HIDE DEF r
<1>6. \/ current' = None /\ ~HasCompleteFrame
      \/ /\ HasCompleteFrame
         /\ current' = [cursor |-> AlignedStart, end |-> AlignedEnd]
         /\ current' # None
         /\ AlignedStart \in Addrs /\ AlignedEnd \in Addrs
         /\ AlignedStart < AlignedEnd
         /\ AlignedStart % FrameSize = 0 /\ AlignedEnd % FrameSize = 0
         /\ r.start <= AlignedStart /\ AlignedEnd <= r.end
  <2>1. CASE SkipRange
    BY <1>1, <2>1 DEF SkipRange
  <2>2. CASE TakeRange
    <3>1. HasCompleteFrame /\ current' = [cursor |-> AlignedStart, end |-> AlignedEnd]
      BY <2>2 DEF TakeRange
    <3>2. AlignedStart # None /\ AlignedStart < AlignedEnd
      BY <3>1 DEF HasCompleteFrame
    <3>3. AlignedStart \in Addrs /\ r.start <= AlignedStart /\ AlignedStart % FrameSize = 0
      BY <1>4, <1>5, <3>2, AlignUpSound
    <3>4. AlignedEnd \in Addrs /\ AlignedEnd <= r.end /\ AlignedEnd % FrameSize = 0
      BY <1>4, <1>5, AlignDownSound
    <3>5. current' # None
      BY <3>1, <3>3, <3>4, RangeIsSome
    <3> QED
      BY <3>1, <3>2, <3>3, <3>4, <3>5
  <2> QED
    BY <2>1, <2>2
<1>7. TypeOK'
  BY <1>1, <1>2, <1>3, <1>6 DEF IndInv, TypeOK
<1>8. ClaimGuards'
  BY <1>1, <1>3 DEF IndInv, ClaimGuards
<1>9. CursorIsFrame'
  <2> SUFFICES ASSUME current' # None PROVE CursorIsFrame'
    BY DEF CursorIsFrame
  <2>1. AlignedStart + FrameSize <= AlignedEnd
    BY <1>6, MultiplesApart DEF Addrs
  <2>2. IsFrameStart(AlignedStart)
    BY <1>6, <2>1, NoneAssumption DEF IsFrameStart, CheckedAdd, Addrs
  <2>3. next' - 1 = next /\ next' > 1
    BY <1>1, <1>2 DEF IndInv, TypeOK
  <2> QED
    BY <1>3, <1>6, <2>2, <2>3 DEF CursorIsFrame, r
<1>10. NoFrameIssuedTwice' /\ OnlyAllocatableIssued'
  BY <1>1, <1>3 DEF IndInv, NoFrameIssuedTwice, OnlyAllocatableIssued
<1>11. ScanIsExact'
  <2>1. ASSUME NEW k \in DOMAIN Memory, NEW a \in Allocatable, FrameIn(a, k)
        PROVE  Passed(a, k)' <=> Passed(a, k)
    <3>1. a \in Addrs /\ a % FrameSize = 0 /\ a \in Nat /\ k \in Nat
      BY <1>2, PlatformTypes DEF Allocatable, Addrs
    <3>2. Passed(a, k) <=> k < next
      BY <1>1 DEF Passed
    <3>3. CASE k = next
      <4>1. HasCompleteFrame /\ AlignedStart <= a
        BY <1>2, <2>1, <3>1, <3>3, AlignedPartKeepsFrames
      <4>2. current' # None /\ current'.cursor = AlignedStart /\ AlignedStart \in Addrs
        BY <1>6, <4>1
      <4>3. ~(a < current'.cursor)
        BY <3>1, <4>1, <4>2 DEF Addrs
      <4> QED
        BY <1>1, <1>2, <3>2, <3>3, <4>2, <4>3 DEF Passed
    <3>4. CASE k # next
      BY <1>1, <1>2, <3>1, <3>2, <3>4 DEF Passed
    <3> QED
      BY <3>3, <3>4
  <2>2. \A a : IsIssued(a)' <=> IsIssued(a)
    BY <1>1 DEF IsIssued
  <2>3. ASSUME NEW k \in DOMAIN Memory', NEW a \in Allocatable', FrameIn(a, k)'
        PROVE  Passed(a, k)' <=> IsIssued(a)'
    <3>1. FrameIn(a, k)
      BY <1>1, <2>3, PlatformConstant
    <3> QED
      BY <1>3, <2>1, <2>2, <2>3, <3>1 DEF IndInv, ScanIsExact
  <2>4. current' # None => current'.end = AlignDown(FdtRange(Memory'[next' - 1]).end)
    <3>1. next' - 1 = next
      BY <1>1, <1>2
    <3> QED
      BY <1>3, <1>5, <1>6, <3>1 DEF r
  <2>5. ~refused'
    BY <1>1, <1>2 DEF IndInv, ScanIsExact
  <2> QED
    BY <2>3, <2>4, <2>5 DEF ScanIsExact
<1> QED
  BY <1>7, <1>8, <1>9, <1>10, <1>11 DEF IndInv

\* A call that returns None leaves the scan where it ended.
LEMMA ReturnNoneIndInv == IndInv /\ ReturnNone => IndInv'
<1> SUFFICES ASSUME IndInv, ReturnNone PROVE IndInv'
  OBVIOUS
<1>1. /\ UNCHANGED <<platform, claimed, outcome, next, current, issued>>
      /\ current = None /\ next > Len(Memory) /\ calling
      /\ calling' = FALSE /\ refused' = TRUE
  BY DEF ReturnNone
<1>2. /\ Memory' = Memory /\ Allocatable' = Allocatable
      /\ MemoryIsDisjoint' = MemoryIsDisjoint
  BY <1>1, PlatformConstant
<1>3. TypeOK'
  BY <1>1, <1>2 DEF IndInv, TypeOK
<1>4. ClaimGuards'
  BY <1>1, <1>2 DEF IndInv, ClaimGuards
<1>5. CursorIsFrame' /\ NoFrameIssuedTwice' /\ OnlyAllocatableIssued'
  BY <1>1, <1>2 DEF IndInv, CursorIsFrame, NoFrameIssuedTwice, OnlyAllocatableIssued
<1>6. ScanIsExact'
  BY <1>1, <1>2 DEF IndInv, ScanIsExact, FrameIn, Passed, IsIssued
<1> QED
  BY <1>3, <1>4, <1>5, <1>6 DEF IndInv

\* Continuing the current scan at an aligned address beyond the cursor keeps
\* the shape of CurrentMemoryRange.
LEMMA ContinueKeepsCursor ==
  ASSUME IndInv, current # None, NEW n,
         n = None \/ (n \in Nat /\ n % FrameSize = 0 /\ current.cursor <= n),
         current' = ContinueAt(n), UNCHANGED <<platform, next>>
  PROVE  /\ current' \in [cursor : Addrs, end : Addrs] \cup {None}
         /\ CursorIsFrame'
         /\ current' # None => /\ n # None /\ n < current.end
                               /\ current'.cursor = n /\ current'.end = current.end
         /\ current' = None => n = None \/ n >= current.end
<1>1. /\ current.cursor \in Addrs /\ current.end \in Addrs
  BY CandidateIsFrame
<1>2. CASE current' = None
  <2>1. n = None \/ n >= current.end
    <3> SUFFICES ASSUME n # None, ~(n >= current.end) PROVE FALSE
      OBVIOUS
    <3>1. n \in Addrs
      BY <1>1 DEF Addrs
    <3>2. current' = [cursor |-> n, end |-> current.end]
      BY DEF ContinueAt
    <3> QED
      BY <1>1, <1>2, <3>1, <3>2, RangeIsSome
  <2> QED
    BY <1>2, <2>1 DEF CursorIsFrame
<1>3. CASE current' # None
  <2>1. /\ n # None /\ ~(n >= current.end)
        /\ current' = [cursor |-> n, end |-> current.end]
    BY <1>3 DEF ContinueAt
  <2>2. n \in Addrs /\ n < current.end /\ n % FrameSize = 0 /\ current.cursor <= n
    BY <1>1, <2>1 DEF Addrs
  <2>3. current.end % FrameSize = 0
    BY DEF IndInv, CursorIsFrame
  <2>4. n + FrameSize <= current.end
    BY <1>1, <2>2, <2>3, MultiplesApart DEF Addrs
  <2>5. IsFrameStart(n)
    BY <1>1, <2>2, <2>4, NoneAssumption DEF IsFrameStart, CheckedAdd, Addrs
  <2>6. Memory' = Memory
    BY PlatformConstant
  <2>7. /\ next > 1
        /\ FdtRange(Memory[next - 1]).start <= current.cursor
        /\ current.end <= FdtRange(Memory[next - 1]).end
    BY DEF IndInv, CursorIsFrame
  <2>8. FdtRange(Memory[next - 1]).start \in Nat
    BY CandidateIsFrame, MemoryRange DEF IndInv, TypeOK, PhysRange, Addrs
  <2>9. FdtRange(Memory[next - 1]).start <= n
    BY <1>1, <2>2, <2>7, <2>8 DEF Addrs
  <2>10. CursorIsFrame'
    BY <2>1, <2>2, <2>3, <2>5, <2>6, <2>7, <2>9 DEF CursorIsFrame
  <2> QED
    BY <1>1, <1>3, <2>1, <2>2, <2>10
<1> QED
  BY <1>2, <1>3

\* Jumping to the rounded end of a reservation passes no allocatable frame.
LEMMA SkipReservationIndInv == IndInv /\ SkipReservation => IndInv'
<1> SUFFICES ASSUME IndInv, SkipReservation PROVE IndInv'
  OBVIOUS
<1> DEFINE c == current.cursor
           n == AlignUp(OverlappingReservation(c).end)
<1>1. /\ UNCHANGED <<platform, claimed, outcome, calling, next, issued, refused>>
      /\ current # None /\ calling /\ Blocking(c) # {} /\ current' = ContinueAt(n)
  BY DEF SkipReservation
<1>2. /\ Memory' = Memory /\ Allocatable' = Allocatable
      /\ MemoryIsDisjoint' = MemoryIsDisjoint
  BY <1>1, PlatformConstant
<1>3. platform \in Platforms /\ c \in Addrs /\ c \in Nat /\ current.end \in Nat
  BY <1>1, CandidateIsFrame DEF IndInv, TypeOK, Addrs
<1>4. PICK i \in Blocking(c) : OverlappingReservation(c) = Reserved[i]
  BY <1>1, <1>3, OverlappingReservationBlocks
<1> DEFINE r == Reserved[i]
<1>5. /\ i \in DOMAIN Reserved /\ r.start # r.end
      /\ c < r.end /\ r.start < c + FrameSize
  BY <1>4 DEF Blocking, Overlaps, FrameRange
<1>6. r.start \in Addrs /\ r.end \in Addrs
  BY <1>3, <1>5, ReservedRange
<1>7. n = AlignUp(r.end)
  BY <1>4
<1> HIDE DEF c, n, r
<1>8. n = None \/ (n \in Nat /\ n % FrameSize = 0 /\ c <= n)
  BY <1>3, <1>5, <1>6, <1>7, AlignUpSound DEF Addrs
<1>9. /\ current' \in [cursor : Addrs, end : Addrs] \cup {None}
      /\ CursorIsFrame'
      /\ current' # None => /\ n # None /\ n < current.end
                            /\ current'.cursor = n /\ current'.end = current.end
      /\ current' = None => n = None \/ n >= current.end
  BY <1>1, <1>8, ContinueKeepsCursor DEF c
<1>10. ASSUME NEW a \in Allocatable, FrameIn(a, next - 1), c <= a
       PROVE  current' # None /\ n <= a
  <2>1. a \in Addrs /\ a \in Nat /\ a % FrameSize = 0
    BY DEF Allocatable, Addrs
  <2>2. Blocking(a) = {}
    BY <1>3, <2>1, AllocatableIff
  <2>3. ~(a < r.end /\ r.start < a + FrameSize)
    BY <1>5, <2>2 DEF Blocking, Overlaps, FrameRange, r
  <2>4. r.end <= a
    BY <1>3, <1>5, <1>6, <1>10, <2>1, <2>3 DEF Addrs
  <2>5. n # None /\ n <= a
    BY <1>6, <1>7, <2>1, <2>4, AlignUpLeast
  <2>6. a + FrameSize <= current.end
    BY <1>1, <1>10, <2>1, CandidateIsFrame
  <2>7. n < current.end
    BY <1>3, <1>8, <2>1, <2>5, <2>6
  <2> QED
    BY <1>3, <1>8, <1>9, <2>5, <2>7
<1>11. TypeOK'
  BY <1>1, <1>2, <1>9 DEF IndInv, TypeOK
<1>12. ClaimGuards'
  BY <1>1, <1>2 DEF IndInv, ClaimGuards
<1>13. NoFrameIssuedTwice' /\ OnlyAllocatableIssued'
  BY <1>1, <1>2 DEF IndInv, NoFrameIssuedTwice, OnlyAllocatableIssued
<1>14. ScanIsExact'
  <2>1. ASSUME NEW k \in DOMAIN Memory, NEW a \in Allocatable, FrameIn(a, k)
        PROVE  Passed(a, k)' <=> Passed(a, k)
    <3>1. a \in Nat
      BY DEF Allocatable, Addrs
    <3>2. CASE k # next - 1
      BY <1>1, <3>2 DEF Passed
    <3>3. CASE k = next - 1
      <4>1. c <= a => ~Passed(a, k) /\ ~Passed(a, k)'
        BY <1>1, <1>3, <1>8, <1>9, <1>10, <2>1, <3>1, <3>3 DEF Passed, c
      <4>2. a < c => Passed(a, k) /\ Passed(a, k)'
        <5>1. k < next
          BY <3>3 DEF IndInv, TypeOK
        <5> QED
          BY <1>1, <1>3, <1>8, <1>9, <3>1, <3>3, <5>1 DEF Passed, c
      <4> QED
        BY <1>3, <3>1, <4>1, <4>2
    <3> QED
      BY <3>2, <3>3
  <2>2. \A a : IsIssued(a)' <=> IsIssued(a)
    BY <1>1 DEF IsIssued
  <2>3. ASSUME NEW k \in DOMAIN Memory', NEW a \in Allocatable', FrameIn(a, k)'
        PROVE  Passed(a, k)' <=> IsIssued(a)'
    <3>1. FrameIn(a, k)
      BY <1>1, <2>3, PlatformConstant
    <3> QED
      BY <1>2, <2>1, <2>2, <2>3, <3>1 DEF IndInv, ScanIsExact
  <2>4. current' # None => current'.end = AlignDown(FdtRange(Memory'[next' - 1]).end)
    BY <1>1, <1>2, <1>9 DEF IndInv, ScanIsExact
  <2>5. ~refused'
    BY <1>1 DEF IndInv, ScanIsExact
  <2> QED
    BY <2>3, <2>4, <2>5 DEF ScanIsExact
<1> QED
  BY <1>9, <1>11, <1>12, <1>13, <1>14 DEF IndInv

\* The frame allocate() returns is allocatable and was not returned before.
LEMMA CandidateIsFree ==
  ASSUME IndInv, current # None, Blocking(current.cursor) = {}
  PROVE  current.cursor \in Allocatable /\ ~IsIssued(current.cursor)
<1>1. /\ next - 1 \in DOMAIN Memory /\ current.cursor \in Addrs
      /\ current.cursor % FrameSize = 0 /\ FrameIn(current.cursor, next - 1)
  BY CandidateIsFrame
<1>2. current.cursor \in Allocatable
  BY <1>1, AllocatableIff DEF IndInv, TypeOK
<1>3. ~Passed(current.cursor, next - 1)
  BY <1>1 DEF Passed, Addrs
<1> QED
  BY <1>1, <1>2, <1>3 DEF IndInv, ScanIsExact

\* Returning a frame adds it, and nothing else, to what was issued.
LEMMA IssuedGrows ==
  ASSUME issued \in Seq(Addrs), NEW c \in Addrs, issued' = Append(issued, c)
  PROVE  /\ issued' \in Seq(Addrs)
         /\ \A a : IsIssued(a)' <=> (IsIssued(a) \/ a = c)
<1>1. /\ issued' \in Seq(Addrs) /\ Len(issued') = Len(issued) + 1 /\ Len(issued) \in Nat
      /\ DOMAIN issued = 1 .. Len(issued) /\ DOMAIN issued' = 1 .. Len(issued) + 1
      /\ \A i \in 1 .. Len(issued) : issued'[i] = issued[i]
      /\ issued'[Len(issued) + 1] = c
  OBVIOUS
<1>2. ASSUME NEW a, NEW i \in DOMAIN issued', issued'[i] = a
      PROVE  IsIssued(a) \/ a = c
  <2>1. i \in 1 .. Len(issued) \/ i = Len(issued) + 1
    BY <1>1
  <2> QED
    BY <1>1, <1>2, <2>1 DEF IsIssued
<1>3. ASSUME NEW a, IsIssued(a) \/ a = c PROVE IsIssued(a)'
  <2>1. CASE IsIssued(a)
    <3>1. PICK i \in 1 .. Len(issued) : issued[i] = a
      BY <1>1, <2>1 DEF IsIssued
    <3>2. i \in DOMAIN issued'
      BY <1>1
    <3> QED
      BY <1>1, <3>1, <3>2 DEF IsIssued
  <2>2. CASE a = c
    <3>1. Len(issued) + 1 \in DOMAIN issued'
      BY <1>1
    <3> QED
      BY <1>1, <2>2, <3>1 DEF IsIssued
  <2> QED
    BY <1>3, <2>1, <2>2
<1>4. ASSUME NEW a PROVE IsIssued(a)' => IsIssued(a) \/ a = c
  BY <1>2 DEF IsIssued
<1> QED
  BY <1>1, <1>3, <1>4

LEMMA ReturnFrameIndInv == IndInv /\ ReturnFrame => IndInv'
<1> SUFFICES ASSUME IndInv, ReturnFrame PROVE IndInv'
  OBVIOUS
<1> DEFINE c == current.cursor
           n == c + FrameSize
<1>1. /\ UNCHANGED <<platform, claimed, outcome, next, refused>>
      /\ current # None /\ calling /\ calling' = FALSE /\ Blocking(c) = {}
      /\ issued' = Append(issued, c) /\ current' = ContinueAt(n)
  BY DEF ReturnFrame, FrameRange
<1>2. /\ Memory' = Memory /\ Allocatable' = Allocatable
      /\ MemoryIsDisjoint' = MemoryIsDisjoint
  BY <1>1, PlatformConstant
<1>3. /\ c \in Addrs /\ c \in Nat /\ current.end \in Nat /\ c % FrameSize = 0
      /\ next - 1 \in DOMAIN Memory /\ FrameIn(c, next - 1)
  BY <1>1, CandidateIsFrame DEF Addrs
<1>4. c \in Allocatable /\ ~IsIssued(c)
  BY <1>1, CandidateIsFree
<1>5. /\ issued' \in Seq(Addrs)
      /\ \A a : IsIssued(a)' <=> (IsIssued(a) \/ a = c)
  <2>1. issued \in Seq(Addrs)
    BY DEF IndInv, TypeOK
  <2> QED
    BY <1>1, <1>3, <2>1, IssuedGrows
<1>6. n \in Nat /\ n % FrameSize = 0 /\ c <= n
  BY <1>3, NextMultiple
<1> HIDE DEF c, n
<1>7. /\ current' \in [cursor : Addrs, end : Addrs] \cup {None}
      /\ CursorIsFrame'
      /\ current' # None => n < current.end /\ current'.cursor = n /\ current'.end = current.end
      /\ current' = None => n >= current.end
  <2>1. n # None
    BY <1>6, NoneAssumption
  <2> QED
    BY <1>1, <1>6, <2>1, ContinueKeepsCursor DEF c
<1>8. TypeOK'
  BY <1>1, <1>2, <1>5, <1>7 DEF IndInv, TypeOK
<1>9. ClaimGuards'
  BY <1>1, <1>2 DEF IndInv, ClaimGuards
<1>10. OnlyAllocatableIssued'
  BY <1>2, <1>4, <1>5 DEF IndInv, OnlyAllocatableIssued, IsIssued
<1>11. NoFrameIssuedTwice'
  <2>1. /\ Len(issued) \in Nat /\ DOMAIN issued = 1 .. Len(issued)
        /\ DOMAIN issued' = 1 .. Len(issued) + 1
        /\ \A i \in 1 .. Len(issued) : issued'[i] = issued[i] /\ issued[i] # c
        /\ issued'[Len(issued) + 1] = c
    BY <1>1, <1>3, <1>4 DEF IndInv, TypeOK, IsIssued
  <2>2. \A i, j \in 1 .. Len(issued) : i # j => issued[i] # issued[j]
    BY <2>1 DEF IndInv, NoFrameIssuedTwice
  <2> QED
    BY <2>1, <2>2 DEF NoFrameIssuedTwice
<1>12. ScanIsExact'
  <2>1. ASSUME NEW k \in DOMAIN Memory, NEW a \in Allocatable, FrameIn(a, k)
        PROVE  Passed(a, k)' <=> (Passed(a, k) \/ a = c)
    <3>1. a \in Addrs /\ a \in Nat /\ a % FrameSize = 0
      BY DEF Allocatable, Addrs
    <3>2. CASE k # next - 1
      <4>1. a # c
        BY <1>1, <1>3, <2>1, <3>1, <3>2, FrameInOneRange DEF IndInv, TypeOK, ClaimGuards
      <4> QED
        BY <1>1, <3>2, <4>1 DEF Passed
    <3>3. CASE k = next - 1
      <4>1. k < next
        BY <3>3 DEF IndInv, TypeOK
      <4>2. a < n <=> a < c \/ a = c
        <5>1. c < a => n <= a
          BY <1>3, <3>1, MultiplesApart DEF n
        <5> QED
          BY <1>3, <3>1, <5>1 DEF n
      <4>3. a + FrameSize <= current.end
        BY <1>1, <2>1, <3>1, <3>3, CandidateIsFrame
      <4>4. Passed(a, k) <=> a < c
        BY <1>1, <3>3, <4>1 DEF Passed, c
      <4>5. Passed(a, k)' <=> a < n
        <5>1. CASE current' = None
          BY <1>1, <1>3, <1>6, <1>7, <3>1, <3>3, <4>1, <4>3, <5>1 DEF Passed, n
        <5>2. CASE current' # None
          BY <1>1, <1>7, <3>3, <4>1, <5>2 DEF Passed
        <5> QED
          BY <5>1, <5>2
      <4> QED
        BY <4>2, <4>4, <4>5
    <3> QED
      BY <3>2, <3>3
  <2>2. ASSUME NEW k \in DOMAIN Memory', NEW a \in Allocatable', FrameIn(a, k)'
        PROVE  Passed(a, k)' <=> IsIssued(a)'
    <3>1. FrameIn(a, k)
      BY <1>1, <2>2, PlatformConstant
    <3> QED
      BY <1>2, <1>5, <2>1, <2>2, <3>1 DEF IndInv, ScanIsExact
  <2>3. current' # None => current'.end = AlignDown(FdtRange(Memory'[next' - 1]).end)
    BY <1>1, <1>2, <1>7 DEF IndInv, ScanIsExact
  <2>4. ~refused'
    BY <1>1 DEF IndInv, ScanIsExact
  <2> QED
    BY <2>2, <2>3, <2>4 DEF ScanIsExact
<1> QED
  BY <1>7, <1>8, <1>9, <1>10, <1>11, <1>12 DEF IndInv

\* Steps that change nothing.
LEMMA StutterIndInv == IndInv /\ UNCHANGED vars => IndInv'
<1> SUFFICES ASSUME IndInv, UNCHANGED vars PROVE IndInv'
  OBVIOUS
<1>1. UNCHANGED <<platform, claimed, outcome, calling, next, current, issued, refused>>
  BY DEF vars
<1>2. Memory' = Memory /\ Allocatable' = Allocatable /\ MemoryIsDisjoint' = MemoryIsDisjoint
  BY <1>1, PlatformConstant
<1>3. TypeOK' /\ ClaimGuards' /\ CursorIsFrame'
  BY <1>1, <1>2 DEF IndInv, TypeOK, ClaimGuards, CursorIsFrame
<1>4. NoFrameIssuedTwice' /\ OnlyAllocatableIssued'
  BY <1>1, <1>2 DEF IndInv, NoFrameIssuedTwice, OnlyAllocatableIssued
<1>5. ScanIsExact'
  BY <1>1, <1>2 DEF IndInv, ScanIsExact, FrameIn, Passed, IsIssued
<1> QED
  BY <1>3, <1>4, <1>5 DEF IndInv

LEMMA NextIndInv == IndInv /\ [Next]_vars => IndInv'
  BY ClaimIndInv, AdvanceIndInv, ReturnNoneIndInv, SkipReservationIndInv,
     ReturnFrameIndInv, StutterIndInv DEF Next, Iterate

-----------------------------------------------------------------------------
(* The theorems.                                                           *)

\* The inductive invariant holds in every reachable state of the allocator.
THEOREM Inductive == Spec => []IndInv
  BY InitIndInv, NextIndInv, PTL DEF Spec

\* Type correctness of the allocator's state.
THEOREM TypeCorrect == Spec => []TypeOK
<1>1. IndInv => TypeOK
  BY DEF IndInv
<1> QED
  BY <1>1, Inductive, PTL

\* The documented invariant of CurrentMemoryRange: the expect() of allocate()
\* never fires.
THEOREM CursorAlwaysFrame == Spec => []CursorIsFrame
<1>1. IndInv => CursorIsFrame
  BY DEF IndInv
<1> QED
  BY <1>1, Inductive, PTL

\* A frame that allocate() returned is never returned again.
THEOREM FramesIssuedOnce == Spec => []NoFrameIssuedTwice
<1>1. IndInv => NoFrameIssuedTwice
  BY DEF IndInv
<1> QED
  BY <1>1, Inductive, PTL

\* allocate() returns only whole frames of RAM of which no byte is reserved.
THEOREM IssuedFramesAllocatable == Spec => []OnlyAllocatableIssued
<1>1. IndInv => OnlyAllocatableIssued
  BY DEF IndInv
<1> QED
  BY <1>1, Inductive, PTL

\* When the scan is over, everything allocatable has been issued.
LEMMA ScanOverMeansAllIssued ==
  ASSUME IndInv, current = None, next > Len(Memory), NEW a \in Allocatable
  PROVE  IsIssued(a)
<1>1. platform \in Platforms /\ a \in Addrs
  BY DEF IndInv, TypeOK, Allocatable
<1>2. PICK k \in DOMAIN Memory : FrameIn(a, k)
  BY <1>1, AllocatableIff
<1>3. k \in Nat /\ k <= Len(Memory) /\ Len(Memory) \in Nat /\ next \in Nat
  BY <1>1, PlatformTypes DEF IndInv, TypeOK
<1>4. Passed(a, k)
  BY <1>3 DEF Passed
<1> QED
  BY <1>2, <1>4 DEF IndInv, ScanIsExact

\* allocate() answers None only when no allocatable frame is left.
THEOREM ExhaustionIsReal == Spec => []NothingLost
<1>1. IndInv => NothingLost
  BY ScanOverMeansAllIssued DEF NothingLost, IndInv, ScanIsExact
<1> QED
  BY <1>1, Inductive, PTL

\* The cursor-only allocator implements the abstract supply of frames: each
\* returned frame is taken from the free ones, and only an empty supply refuses.
THEOREM Refinement == Spec => ImplementsFrameSupply
<1> DEFINE Free == Allocatable \ {issued[i] : i \in DOMAIN issued}
<1>1. Init => Supply!Init
  BY DEF Init, Supply!Init, Allocatable
<1>2. IndInv /\ [Next]_vars => [Supply!Next]_(Supply!vars)
  <2> SUFFICES ASSUME IndInv, [Next]_vars PROVE [Supply!Next]_(Supply!vars)
    OBVIOUS
  <2>1. platform' = platform
    BY DEF Next, Iterate, vars, Claim, Allocate, SkipRange, TakeRange, ReturnNone,
           SkipReservation, ReturnFrame
  <2>2. Allocatable' = Allocatable
    BY <2>1, PlatformConstant
  <2>3. ASSUME UNCHANGED <<issued, refused>> PROVE UNCHANGED Supply!vars
    BY <2>2, <2>3 DEF Supply!vars
  <2>4. CASE ReturnNone
    <3>1. refused' = TRUE /\ UNCHANGED issued /\ current = None /\ next > Len(Memory)
      BY <2>4 DEF ReturnNone
    <3>2. Free = {}
      BY <3>1, ScanOverMeansAllIssued DEF IsIssued
    <3> QED
      BY <2>2, <3>1, <3>2 DEF Supply!Next, Supply!Refuse
  <2>5. CASE ReturnFrame
    <3> DEFINE c == current.cursor
    <3>1. issued' = Append(issued, c) /\ UNCHANGED refused
      BY <2>5 DEF ReturnFrame
    <3>2. c \in Allocatable /\ ~IsIssued(c) /\ c \in Addrs
      BY <2>5, CandidateIsFree DEF ReturnFrame, Allocatable
    <3>3. c \in Free
      BY <3>2 DEF IsIssued
    <3>4. \A a : IsIssued(a)' <=> (IsIssued(a) \/ a = c)
      BY <3>1, <3>2, IssuedGrows DEF IndInv, TypeOK
    <3> HIDE DEF c
    <3>5. Free' = Free \ {c}
      BY <2>2, <3>4 DEF IsIssued
    <3> QED
      BY <3>1, <3>3, <3>5 DEF Supply!Next, Supply!Grant
  <2>6. CASE Claim \/ Allocate \/ SkipRange \/ TakeRange \/ SkipReservation \/ UNCHANGED vars
    BY <2>3, <2>6 DEF Claim, Allocate, SkipRange, TakeRange, SkipReservation, vars
  <2> QED
    BY <2>4, <2>5, <2>6 DEF Next, Iterate
<1> QED
  BY <1>1, <1>2, Inductive, PTL DEF Spec, Supply!Spec, ImplementsFrameSupply

=============================================================================
