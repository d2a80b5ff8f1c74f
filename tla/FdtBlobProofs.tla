---------------------------- MODULE FdtBlobProofs ----------------------------
(***************************************************************************)
(* Proofs about the entry of a devicetree blob, for every header, blob     *)
(* size, alignment and width of integers.                                  *)
(***************************************************************************)
EXTENDS FdtBlob, SequenceTheorems, TLAPS

USE MaxAddrAssumption, HeadersAssumption, PointersAssumption, SizesAssumption

\* The ranges of a decoded header are natural numbers in order.
LEMMA RangesTyped ==
  ASSUME header \in Header
  PROVE  /\ header.total_size \in Nat /\ header.reservation_offset \in Nat
         /\ Structure.start = header.structure_offset /\ Strings.start = header.strings_offset
         /\ Structure.start \in Nat /\ Structure.end \in Nat /\ Structure.start <= Structure.end
         /\ Strings.start \in Nat /\ Strings.end \in Nat /\ Strings.start <= Strings.end
  BY DEF Header, Field, Structure, Strings, BlockRange

\* What an accepted header says about its blocks.
LEMMA HeaderFacts ==
  ASSUME header \in Header, HeaderOutcome = "Ok"
  PROVE  /\ HeaderSize <= header.reservation_offset /\ header.reservation_offset <= header.total_size
         /\ HeaderSize <= Structure.start /\ Structure.end <= header.total_size
         /\ HeaderSize <= Strings.start /\ Strings.end <= header.total_size
         /\ ~RangesOverlap(Structure, Strings)
         /\ ~Contains(Structure, header.reservation_offset)
         /\ ~Contains(Strings, header.reservation_offset)
<1>1. /\ ~(\E offset \in {header.reservation_offset, header.structure_offset, header.strings_offset} :
               offset < HeaderSize)
      /\ ~(header.reservation_offset > header.total_size)
      /\ ~OutOfBounds(Structure) /\ ~OutOfBounds(Strings)
      /\ ~RangesOverlap(Structure, Strings)
      /\ ~\E block \in {Structure, Strings} : Contains(block, header.reservation_offset)
  BY DEF HeaderOutcome
<1>2. /\ ~Contains(Structure, header.reservation_offset)
      /\ ~Contains(Strings, header.reservation_offset)
  BY <1>1
<1>3. /\ ~(header.reservation_offset < HeaderSize)
      /\ ~(header.structure_offset < HeaderSize)
      /\ ~(header.strings_offset < HeaderSize)
  BY <1>1
<1> QED  BY <1>1, <1>2, <1>3, RangesTyped DEF OutOfBounds

\* The limit of the reservation block lies behind its start, within the blob,
\* and not behind the start of a later block.
LEMMA LimitFacts ==
  ASSUME header \in Header, HeaderOutcome = "Ok"
  PROVE  /\ ReservationLimit \in Nat
         /\ header.reservation_offset <= ReservationLimit
         /\ ReservationLimit <= header.total_size
         /\ Structure.start > header.reservation_offset => ReservationLimit <= Structure.start
         /\ Strings.start > header.reservation_offset => ReservationLimit <= Strings.start
  BY HeaderFacts, RangesTyped DEF ReservationLimit, Smaller

\* Each entry takes two values.
LEMMA PositionStep ==
  ASSUME NEW n \in Nat
  PROVE  /\ 2 * ValueSize * n \in Nat
         /\ 2 * ValueSize * (n + 1) = 2 * ValueSize * n + 2 * ValueSize
  OBVIOUS

\* The reader stands behind the start of the reservation block.
LEMMA PositionBehindStart ==
  ASSUME header \in Header, Len(entries) \in Nat
  PROVE  Position \in Nat /\ header.reservation_offset <= Position
<1>1. header.reservation_offset \in Nat
  BY RangesTyped
<1>2. 2 * ValueSize * Len(entries) \in Nat
  BY PositionStep
<1> QED  BY <1>1, <1>2 DEF Position

-----------------------------------------------------------------------------
(* The inductive invariant.                                                *)

Accepted == at \in {"range", "slices", "structure", "reservations", "overlaps", "Ok"}

Reading == at \in {"reservations", "overlaps", "Ok"}

\* What has been read stays below the limit of an accepted header.
Placed ==
  /\ ptr \in Nat /\ header \in Header /\ entries \in Seq(Entry)
  /\ at # "panic"
  /\ Accepted => HeaderOutcome = "Ok"
  /\ at \in {"pointer", "header", "range", "slices", "structure"} => entries = << >>
  /\ at \in {"slices", "structure"} \/ Reading => ptr + header.total_size <= MaxUsize
  /\ Reading => Position <= ReservationLimit

LEMMA PlacedInit == Init => Placed
  BY DEF Init, Placed, Accepted, Reading

\* The header does not change.
LEMMA HeaderKept ==
  ASSUME header' = header, entries' = entries
  PROVE  /\ HeaderOutcome' = HeaderOutcome /\ Position' = Position
         /\ ReservationLimit' = ReservationLimit
  BY DEF HeaderOutcome, Position, ReservationLimit, Structure, Strings, BlockRange, OutOfBounds,
         RangesOverlap, Contains

LEMMA PlacedStep == Placed /\ [Next]_vars => Placed'
<1> SUFFICES ASSUME Placed, [Next]_vars PROVE Placed'
  OBVIOUS
<1>1. CASE CheckPointer
  <2>1. at = "pointer" /\ at' \in {"NullPointer", "Misaligned", "header"}
        /\ UNCHANGED <<ptr, header, entries>>
    BY <1>1 DEF CheckPointer, Proceed
  <2> QED  BY <2>1 DEF Placed, Accepted, Reading
<1>2. CASE CheckHeader
  <2>1. /\ at = "header" /\ UNCHANGED <<ptr, header, entries>>
        /\ at' = IF HeaderOutcome = "Ok" THEN "range" ELSE HeaderOutcome
    BY <1>2 DEF CheckHeader, Proceed
  <2>2. HeaderOutcome \in HeaderErrors \cup {"Ok"}
    BY DEF HeaderOutcome, HeaderErrors
  <2>3. HeaderOutcome' = HeaderOutcome
    BY <2>1, HeaderKept
  <2>4. at' \in HeaderErrors \/ (at' = "range" /\ HeaderOutcome = "Ok")
    BY <2>1, <2>2
  <2> QED  BY <2>1, <2>3, <2>4 DEF Placed, Accepted, Reading, HeaderErrors
<1>3. CASE CheckRange
  <2>1. /\ at = "range" /\ UNCHANGED <<ptr, header, entries>>
        /\ \/ at' \in {"TooLarge", "AddressRangeOverflow"}
           \/ at' = "slices" /\ ~(ptr + header.total_size > MaxUsize)
    <3>1. header.total_size \in Nat
      BY RangesTyped DEF Placed
    <3> QED  BY <1>3, <3>1 DEF CheckRange, Proceed
  <2>2. HeaderOutcome' = HeaderOutcome
    BY <2>1, HeaderKept
  <2>3. ptr \in Nat /\ header.total_size \in Nat
    BY RangesTyped DEF Placed
  <2> QED  BY <2>1, <2>2, <2>3 DEF Placed, Accepted, Reading
<1>4. CASE TakeSlices
  <2>1. at = "slices" /\ HeaderOutcome = "Ok" /\ header \in Header
    BY <1>4 DEF TakeSlices, Placed, Accepted
  <2>2. InBounds(Strings) /\ InBounds(Structure)
    BY <2>1, HeaderFacts, RangesTyped DEF InBounds
  <2>3. at' = "structure" /\ UNCHANGED <<ptr, header, entries>>
    BY <1>4, <2>2 DEF TakeSlices, Proceed
  <2>4. HeaderOutcome' = HeaderOutcome
    BY <2>3, HeaderKept
  <2> QED  BY <2>1, <2>3, <2>4 DEF Placed, Accepted, Reading
<1>5. CASE ParseStructure
  <2>1. /\ at = "structure" /\ at' \in {"reservations", "Structure"}
        /\ UNCHANGED <<ptr, header, entries>>
    BY <1>5 DEF ParseStructure, Proceed
  <2>2. entries = << >> /\ HeaderOutcome = "Ok" /\ header \in Header
    BY <2>1 DEF Placed, Accepted
  <2>3. Position <= ReservationLimit
    <3>1. Position = header.reservation_offset + 2 * ValueSize * 0
      BY <2>2 DEF Position
    <3> QED  BY <3>1, <2>2, LimitFacts, RangesTyped
  <2>4. HeaderOutcome' = HeaderOutcome /\ Position' = Position /\ ReservationLimit' = ReservationLimit
    BY <2>1, HeaderKept
  <2> QED  BY <2>1, <2>2, <2>3, <2>4 DEF Placed, Accepted, Reading
<1>6. CASE ReadReservation
  <2>1. at = "reservations" /\ HeaderOutcome = "Ok" /\ header \in Header /\ Position <= ReservationLimit
    BY <1>6 DEF ReadReservation, Placed, Accepted, Reading
  <2>2. InBounds([start |-> header.reservation_offset, end |-> ReservationLimit])
    BY <2>1, LimitFacts DEF InBounds
  <2>3. CASE Proceed("Read")
    BY <2>1, <2>3 DEF Proceed, Placed, Accepted, Reading
  <2>4. CASE /\ Remaining >= 2 * ValueSize
             /\ \E entry \in Entry :
                  /\ entries' = Append(entries, entry)
                  /\ at' = CASE entry = Terminator -> "overlaps"
                             [] entry # Terminator /\ EndOverflows(entry) -> "RangeEndOverflow"
                             [] OTHER -> "reservations"
                  /\ UNCHANGED <<ptr, header, rest, yielded>>
    <3>1. PICK entry \in Entry :
                  /\ entries' = Append(entries, entry)
                  /\ at' \in {"overlaps", "RangeEndOverflow", "reservations"}
                  /\ UNCHANGED <<ptr, header>>
      BY <2>4
    <3>2. entries \in Seq(Entry) /\ entries' \in Seq(Entry) /\ Len(entries') = Len(entries) + 1
          /\ Len(entries) \in Nat
      BY <3>1, AppendProperties, LenProperties DEF Placed
    <3>3. ReservationLimit' = ReservationLimit /\ HeaderOutcome' = HeaderOutcome
      BY <3>1 DEF HeaderOutcome, ReservationLimit, Structure, Strings, BlockRange, OutOfBounds,
                  RangesOverlap, Contains
    <3>4. Position' = Position + 2 * ValueSize
      <4>1. Position' = header.reservation_offset + 2 * ValueSize * (Len(entries) + 1)
        BY <3>1, <3>2 DEF Position
      <4>2. header.reservation_offset \in Nat
        BY <2>1, RangesTyped
      <4>3. /\ 2 * ValueSize * Len(entries) \in Nat
            /\ 2 * ValueSize * (Len(entries) + 1) = 2 * ValueSize * Len(entries) + 2 * ValueSize
        BY <3>2, PositionStep
      <4> QED  BY <4>1, <4>2, <4>3 DEF Position
    <3>5. Position' <= ReservationLimit'
      <4>1. Position \in Nat
        BY <2>1, <3>2, PositionBehindStart
      <4> QED  BY <4>1, <3>3, <3>4, <2>1, <2>4, LimitFacts DEF Remaining
    <3> QED  BY <2>1, <3>1, <3>2, <3>3, <3>5 DEF Placed, Accepted, Reading
  <2> QED  BY <1>6, <2>2, <2>3, <2>4 DEF ReadReservation
<1>7. CASE CheckOverlaps
  <2>1. at = "overlaps" /\ at' \in {"Overlap", "Ok"} /\ UNCHANGED <<ptr, header, entries>>
    BY <1>7 DEF CheckOverlaps, Proceed
  <2>2. HeaderOutcome' = HeaderOutcome /\ Position' = Position /\ ReservationLimit' = ReservationLimit
    BY <2>1, HeaderKept
  <2> QED  BY <2>1, <2>2 DEF Placed, Accepted, Reading
<1>8. CASE UNCHANGED <<ptr, header, at, entries>>
  <2>1. HeaderOutcome' = HeaderOutcome /\ Position' = Position /\ ReservationLimit' = ReservationLimit
    BY <1>8, HeaderKept
  <2> QED  BY <1>8, <2>1 DEF Placed, Accepted, Reading
<1> QED
  BY <1>1, <1>2, <1>3, <1>4, <1>5, <1>6, <1>7, <1>8 DEF Next, Iterate, NextReservation, vars
\* No slice of from_ptr leaves the blob, and the reservation block, whose size
\* no field gives, stays apart from structure and strings while it is read and
\* after: for every header Header::new accepts.
THEOREM BlobBlocksApart == Spec => []BlocksApart
<1>1. Placed => BlocksApart
  <2> SUFFICES ASSUME Placed, Reading
               PROVE  /\ \A block \in {Structure, Strings, Reservations} :
                           /\ HeaderSize <= block.start /\ block.start <= block.end
                           /\ block.end <= header.total_size
                      /\ Apart(Structure, Strings)
                      /\ Apart(Reservations, Structure) /\ Apart(Reservations, Strings)
    BY DEF Placed, BlocksApart, Reading
  <2>1. header \in Header /\ HeaderOutcome = "Ok" /\ Position <= ReservationLimit
    BY DEF Placed, Accepted, Reading
  <2>2. /\ Reservations.start = header.reservation_offset /\ Reservations.end = Position
        /\ Position \in Nat /\ Reservations.start <= Reservations.end
    <3>1. Len(entries) \in Nat
      BY LenProperties DEF Placed
    <3>2. Position \in Nat /\ header.reservation_offset <= Position
      BY <2>1, <3>1, PositionBehindStart
    <3> QED  BY <3>2 DEF Reservations
  <2>3. /\ HeaderSize <= Reservations.start /\ Reservations.end <= header.total_size
    BY <2>1, <2>2, HeaderFacts, LimitFacts, RangesTyped
  <2>4. Apart(Structure, Strings)
    BY <2>1, HeaderFacts, RangesTyped DEF Apart, RangesOverlap
  <2>5. Apart(Reservations, Structure) /\ Apart(Reservations, Strings)
    BY <2>1, <2>2, HeaderFacts, LimitFacts, RangesTyped DEF Apart, Contains
  <2> QED  BY <2>1, <2>2, <2>3, <2>4, <2>5, HeaderFacts, RangesTyped
<1> QED  BY <1>1, PlacedInit, PlacedStep, PTL DEF Spec
-----------------------------------------------------------------------------
(* The header check.                                                       *)

\* The comparison of bounds in Header::new says what the sets of bytes say.
LEMMA OverlapMeaning ==
  ASSUME NEW r \in [start : Nat, end : Nat], NEW s \in [start : Nat, end : Nat],
         r.start <= r.end, s.start <= s.end
  PROVE  ~RangesOverlap(r, s) <=>
           Bytes(r) \cap Bytes(s) = {} /\ r.start \notin Interior(s) /\ s.start \notin Interior(r)
<1>1. ASSUME ~RangesOverlap(r, s)
      PROVE  Bytes(r) \cap Bytes(s) = {} /\ r.start \notin Interior(s) /\ s.start \notin Interior(r)
  BY <1>1 DEF RangesOverlap, Bytes, Interior
<1>2. ASSUME RangesOverlap(r, s), r.start \notin Interior(s), s.start \notin Interior(r)
      PROVE  r.start \in Bytes(r) \cap Bytes(s)
  BY <1>2 DEF RangesOverlap, Bytes, Interior
<1> QED  BY <1>1, <1>2

\* A block fits when its start and its bytes are in the blob.
LEMMA FitMeaning ==
  ASSUME header \in Header, NEW r \in [start : Nat, end : Nat], r.start <= r.end
  PROVE  ~OutOfBounds(r) <=>
           r.start <= header.total_size /\ Bytes(r) \subseteq 0 .. header.total_size - 1
<1>1. header.total_size \in Nat /\ header.total_size <= MaxUsize
  BY DEF Header, Field
<1>2. ASSUME ~OutOfBounds(r)
      PROVE  r.start <= header.total_size /\ Bytes(r) \subseteq 0 .. header.total_size - 1
  BY <1>1, <1>2 DEF OutOfBounds, Bytes
<1>3. ASSUME r.start <= header.total_size, Bytes(r) \subseteq 0 .. header.total_size - 1
      PROVE  ~OutOfBounds(r)
  <2>1. CASE r.start = r.end
    BY <1>1, <1>3, <2>1 DEF OutOfBounds
  <2>2. CASE r.start < r.end
    <3>1. r.end - 1 \in Bytes(r)
      BY <2>2 DEF Bytes
    <3> QED  BY <1>1, <1>3, <3>1 DEF OutOfBounds
  <2> QED  BY <2>1, <2>2
<1> QED  BY <1>2, <1>3

LEMMA HeaderMeaning == header \in Header => (HeaderOutcome = "Ok" <=> WellPlaced)
<1> SUFFICES ASSUME header \in Header PROVE HeaderOutcome = "Ok" <=> WellPlaced
  OBVIOUS
<1>1. Structure \in [start : Nat, end : Nat] /\ Strings \in [start : Nat, end : Nat]
  BY DEF Header, Field, Structure, Strings, BlockRange
<1>2. ~RangesOverlap(Structure, Strings) <=>
        /\ Bytes(Structure) \cap Bytes(Strings) = {}
        /\ Structure.start \notin Interior(Strings) /\ Strings.start \notin Interior(Structure)
  BY <1>1, RangesTyped, OverlapMeaning
<1>3. /\ ~OutOfBounds(Structure) <=>
             Structure.start <= header.total_size /\ Bytes(Structure) \subseteq 0 .. header.total_size - 1
      /\ ~OutOfBounds(Strings) <=>
             Strings.start <= header.total_size /\ Bytes(Strings) \subseteq 0 .. header.total_size - 1
  BY <1>1, RangesTyped, FitMeaning
<1>4. (\E block \in {Structure, Strings} : Contains(block, header.reservation_offset))
        <=> header.reservation_offset \in Bytes(Structure) \cup Bytes(Strings)
  BY RangesTyped DEF Contains, Bytes
<1>5. (\E offset \in {header.reservation_offset, header.structure_offset, header.strings_offset} :
         offset < HeaderSize)
        <=> header.reservation_offset < HeaderSize \/ Structure.start < HeaderSize \/ Strings.start < HeaderSize
  BY RangesTyped
<1>6. HeaderOutcome = "Ok" <=>
        /\ header.magic /\ ~(header.total_size < HeaderSize) /\ header.version
        /\ ~(\/ header.reservation_offset % ReservationAlign # 0
             \/ header.structure_offset % StructureAlign # 0)
        /\ ~(\E offset \in {header.reservation_offset, header.structure_offset, header.strings_offset} :
                offset < HeaderSize)
        /\ ~(header.reservation_offset > header.total_size)
        /\ ~OutOfBounds(Structure) /\ ~OutOfBounds(Strings)
        /\ ~RangesOverlap(Structure, Strings)
        /\ ~\E block \in {Structure, Strings} : Contains(block, header.reservation_offset)
  BY Zenon DEF HeaderOutcome
<1> QED  BY <1>2, <1>3, <1>4, <1>5, <1>6, RangesTyped DEF WellPlaced
\* An error of the header is the one Header::new returned.
Judged == at \in HeaderErrors => HeaderOutcome # "Ok"

LEMMA JudgedStep == Judged /\ [Next]_vars => Judged'
<1> SUFFICES ASSUME Judged, [Next]_vars, at' \in HeaderErrors PROVE HeaderOutcome' # "Ok"
  BY DEF Judged
<1>1. CASE CheckHeader
  <2>1. UNCHANGED <<header, entries>> /\ at' = IF HeaderOutcome = "Ok" THEN "range" ELSE HeaderOutcome
    BY <1>1 DEF CheckHeader, Proceed
  <2>2. HeaderOutcome # "Ok"
    BY <2>1 DEF HeaderErrors
  <2> QED  BY <2>1, <2>2, HeaderKept
<1>2. CASE UNCHANGED <<header, at, entries>>
  BY <1>2, HeaderKept DEF Judged
<1>3. at' \notin {"NullPointer", "Misaligned", "header", "TooLarge", "AddressRangeOverflow", "slices",
                 "structure", "panic", "reservations", "Structure", "Read", "overlaps",
                 "RangeEndOverflow", "Overlap", "Ok"}
  BY DEF HeaderErrors
<1>4. ~CheckPointer /\ ~CheckRange /\ ~TakeSlices /\ ~ParseStructure /\ ~CheckOverlaps
  BY <1>3 DEF CheckPointer, CheckRange, TakeSlices, ParseStructure, CheckOverlaps, Proceed
<1>5. ~ReadReservation
  BY <1>3 DEF ReadReservation, Proceed
<1> QED  BY <1>1, <1>2, <1>4, <1>5 DEF Next, Iterate, NextReservation, vars

\* Header::new accepts exactly the headers whose blocks are well placed, for
\* every size of blob and every alignment.
THEOREM HeaderCheckExact == Spec => []HeaderExact
<1>1. Init => Judged
  BY DEF Init, Judged, HeaderErrors
<1>2. Placed /\ Judged => HeaderExact
  BY HeaderMeaning DEF Placed, Accepted, Judged, HeaderExact, HeaderErrors
<1> QED  BY <1>1, <1>2, PlacedInit, PlacedStep, JudgedStep, PTL DEF Spec

-----------------------------------------------------------------------------
(* The reservation list.                                                   *)

\* What the loop lets through before the terminator.
Admitted(n) == \A i \in 1 .. n : entries[i] \in ReservationEntry \ {Terminator}

Listed ==
  /\ entries \in Seq(Entry) /\ rest \in Seq(Entry) /\ yielded \in Seq(Entry)
  /\ at \in {"pointer", "header", "range", "slices", "structure"} => entries = << >>
  /\ at = "reservations" => Admitted(Len(entries))
  /\ at \in {"overlaps", "Ok"} =>
       Len(entries) > 0 /\ entries[Len(entries)] = Terminator /\ Admitted(Len(entries) - 1)
  /\ at = "Ok" => ~\E i, j \in DOMAIN entries : ReservationsOverlap(i, j)
  /\ at # "Ok" => rest = << >> /\ yielded = << >>
  /\ rest # << >> => yielded \o rest = entries
  /\ at = "Ok" /\ yielded # << >> /\ rest = << >> => yielded = SubSeq(entries, 1, Len(entries) - 1)

LEMMA ListedInit == Init => Listed
  BY DEF Init, Listed

\* Steps of from_ptr before the reservations are read leave the list alone.
LEMMA ListedBefore ==
  ASSUME Listed, UNCHANGED <<entries, rest, yielded>>, at # "Ok",
         at' \notin {"overlaps", "Ok"},
         at' \in {"pointer", "header", "range", "slices", "structure"} => entries = << >>,
         at' = "reservations" => entries = << >>
  PROVE  Listed'
<1>1. at' = "reservations" => Admitted(Len(entries))'
  BY DEF Admitted
<1> QED  BY <1>1 DEF Listed

\* One more entry has been read.
LEMMA ListedRead == Listed /\ ReadReservation => Listed'
<1> SUFFICES ASSUME Listed, ReadReservation PROVE Listed'
  OBVIOUS
<1>1. CASE \E outcome \in {"panic", "Read"} : Proceed(outcome)
  <2>1. at = "reservations" /\ at' \in {"panic", "Read"} /\ UNCHANGED <<entries, rest, yielded>>
    BY <1>1 DEF Proceed, ReadReservation
  <2> QED  BY <2>1, ListedBefore
<1>2. CASE \E entry \in Entry :
             /\ entries' = Append(entries, entry)
             /\ at' = CASE entry = Terminator -> "overlaps"
                        [] entry # Terminator /\ EndOverflows(entry) -> "RangeEndOverflow"
                        [] OTHER -> "reservations"
             /\ UNCHANGED <<ptr, header, rest, yielded>>
  <2>1. PICK entry \in Entry :
             /\ entries' = Append(entries, entry)
             /\ at' = CASE entry = Terminator -> "overlaps"
                        [] entry # Terminator /\ EndOverflows(entry) -> "RangeEndOverflow"
                        [] OTHER -> "reservations"
             /\ UNCHANGED <<ptr, header, rest, yielded>>
    BY <1>2
  <2>2. /\ at = "reservations" /\ Admitted(Len(entries)) /\ rest = << >> /\ yielded = << >>
        /\ entries \in Seq(Entry) /\ Len(entries) \in Nat
    BY LenProperties DEF ReadReservation, Listed
  <2>3. /\ entries' \in Seq(Entry) /\ Len(entries') = Len(entries) + 1
        /\ \A i \in 1 .. Len(entries) : entries'[i] = entries[i]
        /\ entries'[Len(entries) + 1] = entry
    BY <2>1, <2>2, AppendProperties
  <2>4. Admitted(Len(entries) - 1)'
    BY <2>2, <2>3 DEF Admitted
  <2>5. at' = "reservations" => Admitted(Len(entries))'
    <3>1. at' = "reservations" => entry \in ReservationEntry \ {Terminator}
      BY <2>1 DEF EndOverflows, ReservationEntry, Entry, Addrs
    <3> QED  BY <2>2, <2>3, <3>1 DEF Admitted
  <2>6. at' = "overlaps" => Len(entries') > 0 /\ entries'[Len(entries')] = Terminator
    <3>1. at' = "overlaps" => entry = Terminator
      BY <2>1
    <3> QED  BY <3>1, <2>2, <2>3
  <2>7. at' \in {"overlaps", "RangeEndOverflow", "reservations"}
    BY <2>1
  <2> QED  BY <2>1, <2>2, <2>3, <2>4, <2>5, <2>6, <2>7 DEF Listed
<1> QED  BY <1>1, <1>2 DEF ReadReservation
\* Moving the head of one sequence to the end of another.
LEMMA MoveHead ==
  ASSUME NEW S, NEW y \in Seq(S), NEW r \in Seq(S), r # << >>
  PROVE  Append(y, Head(r)) \o Tail(r) = y \o r
<1>1. Head(r) \in S /\ Tail(r) \in Seq(S) /\ <<Head(r)>> \in Seq(S) /\ r \in Seq(S)
  BY HeadTailProperties
<1>2. Append(y, Head(r)) = y \o <<Head(r)>>
  BY <1>1, AppendIsConcat
<1>3. (y \o <<Head(r)>>) \o Tail(r) = y \o (<<Head(r)>> \o Tail(r))
  BY <1>1, ConcatAssociative
<1>4. SubSeq(r, 1, Len(r)) = <<r[1]>> \o SubSeq(r, 2, Len(r))
  <2>1. 1 \in 1 .. Len(r) /\ Len(r) \in 1 .. Len(r)
    BY EmptySeq, LenProperties
  <2> QED  BY <2>1, SubSeqRecursiveFirst
<1>5. <<Head(r)>> \o Tail(r) = r
  BY <1>4, SubSeqFull, TailIsSubSeq
<1> QED  BY <1>2, <1>3, <1>5

\* The iterator consumes an entry: what it has returned and what is left stay
\* the two halves of the list.
LEMMA ListedNext == Listed /\ NextReservation => Listed'
<1> SUFFICES ASSUME Listed, NextReservation PROVE Listed'
  OBVIOUS
<1>1. /\ at = "Ok" /\ rest # << >> /\ UNCHANGED <<at, entries>>
      /\ entries \in Seq(Entry) /\ rest \in Seq(Entry) /\ yielded \in Seq(Entry)
      /\ yielded \o rest = entries
  BY DEF Listed, NextReservation
<1>2. /\ Len(yielded) \in Nat /\ Len(rest) \in Nat /\ Len(rest) > 0
      /\ Len(entries) = Len(yielded) + Len(rest)
      /\ \A i \in 1 .. Len(entries) :
           entries[i] = IF i <= Len(yielded) THEN yielded[i] ELSE rest[i - Len(yielded)]
      /\ Head(rest) = rest[1] /\ Head(rest) \in Entry
  BY <1>1, ConcatProperties, LenProperties, EmptySeq, HeadTailProperties
<1>3. /\ Admitted(Len(entries) - 1)' /\ Admitted(Len(entries) - 1)
      /\ Len(entries) > 0 /\ entries[Len(entries)] = Terminator
      /\ ~\E i, j \in DOMAIN entries' : ReservationsOverlap(i, j)'
  BY <1>1 DEF Listed, Admitted, ReservationsOverlap
<1>4. CASE Head(rest) = Terminator
  <2>1. rest' = << >> /\ yielded' = yielded
    BY <1>4 DEF NextReservation
  <2>2. Len(rest) = 1
    <3>1. entries[Len(yielded) + 1] = Terminator
      BY <1>2, <1>4
    <3>2. ~(Len(yielded) + 1 \in 1 .. Len(entries) - 1)
      BY <3>1, <1>3 DEF Admitted
    <3>3. Len(yielded) \in Nat /\ Len(rest) \in Nat /\ Len(rest) > 0 /\ Len(entries) = Len(yielded) + Len(rest)
      BY <1>2
    <3>4. \A y, r \in Nat : r > 0 /\ ~(y + 1 \in 1 .. (y + r) - 1) => r = 1
      OBVIOUS
    <3> QED  BY <3>2, <3>3, <3>4
  <2>3. yielded = SubSeq(entries, 1, Len(entries) - 1)
    <3>1. /\ SubSeq(entries, 1, Len(yielded)) \in Seq(Entry)
          /\ Len(SubSeq(entries, 1, Len(yielded))) = Len(yielded)
          /\ \A i \in 1 .. Len(yielded) : SubSeq(entries, 1, Len(yielded))[i] = yielded[i]
      <4>1. \A i \in 1 .. Len(yielded) : entries[i] \in Entry /\ entries[i] = yielded[i]
        BY <1>1, <1>2, ElementOfSeq
      <4> QED  BY <4>1, <1>2, SubSeqProperties
    <3>2. SubSeq(entries, 1, Len(yielded)) = yielded
      BY <3>1, <1>1, SeqEqual
    <3> QED  BY <3>2, <2>2, <1>2
  <2>4. rest' \in Seq(Entry)
    BY <2>1, EmptySeq
  <2> QED  BY <1>1, <1>3, <2>1, <2>3, <2>4 DEF Listed
<1>5. CASE Head(rest) # Terminator
  <2>1. rest' = Tail(rest) /\ yielded' = Append(yielded, Head(rest))
    BY <1>5 DEF NextReservation
  <2>2. rest' \in Seq(Entry) /\ yielded' \in Seq(Entry)
    BY <1>1, <1>2, <2>1, HeadTailProperties, AppendProperties
  <2>3. Len(rest') = Len(rest) - 1
    BY <1>1, <2>1, HeadTailProperties
  <2>5. yielded' \o rest' = entries
    BY <1>1, <2>1, MoveHead
  <2>6. rest' # << >>
    <3>1. ~(Len(rest) = 1)
      BY <1>2, <1>3, <1>5
    <3> QED  BY <3>1, <1>2, <2>3, EmptySeq
  <2> QED  BY <1>1, <1>3, <2>2, <2>5, <2>6 DEF Listed
<1> QED  BY <1>4, <1>5

LEMMA ListedStep == Listed /\ [Next]_vars => Listed'
<1> SUFFICES ASSUME Listed, [Next]_vars PROVE Listed'
  OBVIOUS
<1>1. CASE CheckPointer \/ CheckRange \/ TakeSlices \/ ParseStructure
  <2>1. /\ at \in {"pointer", "range", "slices", "structure"} /\ UNCHANGED <<entries, rest, yielded>>
        /\ at' \in {"NullPointer", "Misaligned", "header", "TooLarge", "AddressRangeOverflow", "slices",
                    "structure", "panic", "reservations", "Structure"}
    BY <1>1 DEF CheckPointer, CheckRange, TakeSlices, ParseStructure, Proceed
  <2>2. entries = << >>
    BY <2>1 DEF Listed
  <2> QED  BY <2>1, <2>2, ListedBefore
<1>2. CASE CheckHeader
  <2>1. HeaderOutcome \in HeaderErrors \cup {"Ok"}
    BY DEF HeaderOutcome, HeaderErrors
  <2>2. at = "header" /\ at' \in HeaderErrors \cup {"range"} /\ UNCHANGED <<entries, rest, yielded>>
    BY <1>2, <2>1 DEF CheckHeader, Proceed
  <2>3. entries = << >>
    BY <2>2 DEF Listed
  <2> QED  BY <2>2, <2>3, ListedBefore DEF HeaderErrors
<1>3. CASE ReadReservation
  BY <1>3, ListedRead
<1>4. CASE CheckOverlaps
  <2>1. /\ at = "overlaps" /\ at' \in {"Overlap", "Ok"} /\ UNCHANGED <<entries, rest, yielded>>
        /\ at' = "Ok" => ~\E i, j \in DOMAIN entries : ReservationsOverlap(i, j)
    BY <1>4 DEF CheckOverlaps, Proceed
  <2>2. Admitted(Len(entries) - 1)'
    BY <2>1 DEF Listed, Admitted
  <2>3. at' = "Ok" => ~\E i, j \in DOMAIN entries' : ReservationsOverlap(i, j)'
    BY <2>1 DEF ReservationsOverlap
  <2> QED  BY <2>1, <2>2, <2>3 DEF Listed
<1>5. CASE Iterate
  <2>1. /\ at = "Ok" /\ at' = at /\ entries' = entries /\ rest' = entries /\ yielded' = << >>
        /\ entries \in Seq(Entry)
    BY <1>5 DEF Iterate, Listed
  <2>2. yielded' \in Seq(Entry) /\ yielded' \o rest' = entries'
    BY <2>1, EmptySeq, ConcatEmptySeq
  <2>3. Admitted(Len(entries) - 1)' /\ ~\E i, j \in DOMAIN entries' : ReservationsOverlap(i, j)'
    BY <2>1 DEF Listed, Admitted, ReservationsOverlap
  <2> QED  BY <2>1, <2>2, <2>3 DEF Listed
<1>6. CASE NextReservation
  BY <1>6, ListedNext
<1>7. CASE UNCHANGED vars
  BY <1>7 DEF vars, Listed, Admitted, ReservationsOverlap
<1> QED  BY <1>1, <1>2, <1>3, <1>4, <1>5, <1>6, <1>7 DEF Next

\* The iterator over an accepted reservation block yields exactly the entries
\* before the terminator; the ones that are not empty are disjoint and all have
\* an end that fits the address space, for every list that fits the blob.
THEOREM ReservationListExact == Spec => []ReservationsExact
<1>1. Listed => ReservationsExact
  <2> SUFFICES ASSUME Listed, at = "Ok" PROVE ReservationsExact
    BY DEF ReservationsExact
  <2> DEFINE listed == SubSeq(entries, 1, Len(entries) - 1)
  <2>1. /\ entries \in Seq(Entry) /\ Len(entries) \in Nat /\ DOMAIN entries = 1 .. Len(entries)
        /\ Len(entries) > 0 /\ entries[Len(entries)] = Terminator /\ Admitted(Len(entries) - 1)
        /\ ~\E i, j \in DOMAIN entries : ReservationsOverlap(i, j)
    BY LenProperties DEF Listed
  <2>2. /\ listed \in Seq(Entry) /\ Len(listed) = Len(entries) - 1
        /\ \A i \in 1 .. Len(entries) - 1 : listed[i] = entries[i]
    <3>1. \A i \in 1 .. Len(entries) - 1 : entries[i] \in Entry
      BY <2>1 DEF Admitted, ReservationEntry
    <3> QED  BY <2>1, <3>1, SubSeqProperties
  <2>3. DOMAIN listed = 1 .. Len(entries) - 1
    BY <2>2, LenProperties
  <2>4. \A i \in DOMAIN listed : listed[i] \in ReservationEntry \ {Terminator}
    BY <2>1, <2>2, <2>3 DEF Admitted
  <2>5. ASSUME NEW i \in DOMAIN listed, NEW j \in DOMAIN listed, i < j
        PROVE  Bytes(BlockRange(listed[i].address, listed[i].size))
                 \cap Bytes(BlockRange(listed[j].address, listed[j].size)) = {}
    <3>1. /\ listed[i] = entries[i] /\ listed[j] = entries[j] /\ ~ReservationsOverlap(i, j)
          /\ entries[i] \in Entry /\ entries[j] \in Entry /\ i \in Nat /\ j \in Nat
      BY <2>1, <2>2, <2>3, <2>4, <2>5 DEF ReservationEntry
    <3>2. /\ entries[i].address \in Nat /\ entries[i].size \in Nat
          /\ entries[j].address \in Nat /\ entries[j].size \in Nat
      BY <3>1 DEF Entry, Addrs
    <3> HIDE DEF listed
    <3> QED  BY <3>1, <3>2, <2>5 DEF ReservationsOverlap, Bytes, BlockRange
  <2>6. \A i, j \in DOMAIN listed :
          i # j => Bytes(BlockRange(listed[i].address, listed[i].size))
                     \cap Bytes(BlockRange(listed[j].address, listed[j].size)) = {}
    <3> HIDE DEF listed
    <3> TAKE i, j \in DOMAIN listed
    <3>1. i \in Int /\ j \in Int
      BY <2>1, <2>3
    <3>2. CASE i < j
      BY <2>5, <3>2
    <3>3. CASE j < i
      BY <2>5, <3>3
    <3> QED  BY <3>1, <3>2, <3>3
  <2> QED  BY <2>1, <2>4, <2>6 DEF Listed, ReservationsExact
<1> QED  BY <1>1, ListedInit, ListedStep, PTL DEF Spec

=============================================================================
