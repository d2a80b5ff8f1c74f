------------------------------- MODULE FdtBlob -------------------------------
(***************************************************************************)
(* Entry of a flattened devicetree blob into the parser: Fdt::from_ptr     *)
(* (fdt/src/fdt.rs), the header (header.rs) and the memory reservation     *)
(* block (reservation.rs, reader.rs).                                      *)
(*                                                                         *)
(* The header places three blocks in the blob, but gives the size of two.  *)
(* The reservation block ends at its own terminator; from_ptr bounds it by *)
(* the nearest block behind it.  The slices taken on the way panic when    *)
(* they leave the blob.                                                    *)
(*                                                                         *)
(* Magic and version are right or wrong, offsets and sizes are bytes.  The *)
(* content of structure and strings is FdtStructure's and FdtSemantics'    *)
(* matter: here it is valid or not.  Reservations are chosen as they are   *)
(* read.                                                                   *)
(***************************************************************************)
EXTENDS FdtEntries

CONSTANTS
  Pointers,           \* addresses from_ptr may be called with
  Headers,            \* decoded headers it may find there
  HeaderSize,         \* HEADER_SIZE
  BlobAlign,          \* alignment of the blob in memory
  ReservationAlign,   \* alignment of the reservation block in the blob
  StructureAlign,     \* alignment of the structure block in the blob
  ValueSize,          \* RESERVATION_VALUE_SIZE
  MaxUsize,           \* usize::MAX
  MaxSlice            \* isize::MAX where a u32 may exceed it, else u32::MAX

\* A header field converted by read_be_u32_as_usize, which loses nothing.
Field == 0 .. MaxUsize

Header ==
  [magic : BOOLEAN, version : BOOLEAN, total_size : Field, reservation_offset : Field,
   structure_offset : Field, structure_size : Field, strings_offset : Field, strings_size : Field]

ASSUME HeadersAssumption == Headers \subseteq Header

ASSUME PointersAssumption == Pointers \subseteq Nat

ASSUME SizesAssumption ==
  /\ HeaderSize \in Nat /\ ValueSize \in Nat \ {0}
  /\ {BlobAlign, ReservationAlign, StructureAlign} \subseteq Nat \ {0}
  /\ MaxUsize \in Nat /\ MaxSlice \in Nat

VARIABLES
  ptr,        \* the address of the blob
  header,     \* what the header bytes decode to
  at,         \* the stage of from_ptr, "Ok", an error or "panic"
  entries,    \* the reservations read so far, the terminator included
  rest,       \* MemoryReservations: what the iterator has not consumed
  yielded     \* the reservations it returned

vars == <<ptr, header, at, entries, rest, yielded>>

HeaderErrors ==
  {"InvalidMagic", "TotalSizeTooSmall", "UnsupportedVersion", "MisalignedBlock",
   "BlockOffsetInsideHeader", "BlockOffsetOutOfBounds", "BlockOutOfBounds", "BlocksOverlap",
   "BlockOffsetInsideBlock"}

BlockRange(start, size) == [start |-> start, end |-> start + size]

\* Header::structure_range and Header::strings_range.
Structure == BlockRange(header.structure_offset, header.structure_size)

Strings == BlockRange(header.strings_offset, header.strings_size)

Init ==
  /\ ptr \in Pointers
  /\ header \in Headers
  /\ at = "pointer"
  /\ entries = << >>
  /\ rest = << >>
  /\ yielded = << >>

Proceed(stage) == at' = stage /\ UNCHANGED <<ptr, header, entries, rest, yielded>>

-----------------------------------------------------------------------------
(* Header::new                                                             *)

\* block_range fails.
OutOfBounds(range) == range.end > MaxUsize \/ range.end > header.total_size

\* Variant: a block that begins where the other ends counts as overlapping.
RangesTouch(r, s) == r.start <= s.end /\ s.start < r.end

RangesOverlap(r, s) == r.start < s.end /\ s.start < r.end

Contains(r, offset) == r.start <= offset /\ offset < r.end

\* The first check of Header::new that fails.
HeaderOutcome ==
  IF ~header.magic THEN "InvalidMagic"
  ELSE IF header.total_size < HeaderSize THEN "TotalSizeTooSmall"
  ELSE IF ~header.version THEN "UnsupportedVersion"
  ELSE IF \/ header.reservation_offset % ReservationAlign # 0
          \/ header.structure_offset % StructureAlign # 0
  THEN "MisalignedBlock"
  ELSE IF \E offset \in {header.reservation_offset, header.structure_offset, header.strings_offset} :
       offset < HeaderSize
  THEN "BlockOffsetInsideHeader"
  ELSE IF header.reservation_offset > header.total_size THEN "BlockOffsetOutOfBounds"
  ELSE IF OutOfBounds(Structure) \/ OutOfBounds(Strings) THEN "BlockOutOfBounds"
  ELSE IF RangesOverlap(Structure, Strings) THEN "BlocksOverlap"
  ELSE IF \E block \in {Structure, Strings} : Contains(block, header.reservation_offset)
  THEN "BlockOffsetInsideBlock"
  ELSE "Ok"

-----------------------------------------------------------------------------
(* Fdt::from_ptr                                                           *)

CheckPointer ==
  /\ at = "pointer"
  /\ Proceed(CASE ptr = 0 -> "NullPointer"
               [] ptr # 0 /\ ptr % BlobAlign # 0 -> "Misaligned"
               [] OTHER -> "header")

CheckHeader ==
  /\ at = "header"
  /\ Proceed(IF HeaderOutcome = "Ok" THEN "range" ELSE HeaderOutcome)

\* The blob as a slice: its length and its end in memory.
CheckRange ==
  /\ at = "range"
  /\ Proceed(CASE header.total_size > MaxSlice -> "TooLarge"
               [] header.total_size <= MaxSlice /\ ptr + header.total_size > MaxUsize ->
                    "AddressRangeOverflow"
               [] OTHER -> "slices")

\* Indexing the blob's bytes by a range.
InBounds(range) == range.start <= range.end /\ range.end <= header.total_size

TakeSlices ==
  /\ at = "slices"
  /\ Proceed(IF InBounds(Strings) /\ InBounds(Structure) THEN "structure" ELSE "panic")

\* Structure::new and validate_semantics.
ParseStructure ==
  /\ at = "structure"
  /\ \E outcome \in {"reservations", "Structure"} : Proceed(outcome)

Smaller(a, b) == IF a < b THEN a ELSE b

\* Variant: only the structure block bounds the reservations.
LimitOfStructure ==
  IF Structure.start > header.reservation_offset THEN Structure.start ELSE header.total_size

\* The candidate end of the reservation block: the nearest block that begins
\* behind it, or the end of the blob.
ReservationLimit ==
  LET Bounded(limit, block) ==
        IF block.start > header.reservation_offset THEN Smaller(limit, block.start) ELSE limit
  IN  Bounded(Bounded(header.total_size, Structure), Strings)

\* Reader::position and Reader::remaining behind the entries read so far.
Position == header.reservation_offset + 2 * ValueSize * Len(entries)

Remaining == ReservationLimit - Position

Terminator == [address |-> 0, size |-> 0]

\* reservation_end fails.
EndOverflows(entry) == entry.address + entry.size > MaxAddr

\* One iteration of the loop of Reservations::new: two values, of which the
\* first or the second may be cut short.
ReadReservation ==
  /\ at = "reservations"
  /\ \/ /\ ~InBounds([start |-> header.reservation_offset, end |-> ReservationLimit])
        /\ Proceed("panic")
     \/ /\ InBounds([start |-> header.reservation_offset, end |-> ReservationLimit])
        /\ Remaining < 2 * ValueSize
        /\ Proceed("Read")
     \/ /\ InBounds([start |-> header.reservation_offset, end |-> ReservationLimit])
        /\ Remaining >= 2 * ValueSize
        /\ \E entry \in Entry :
             /\ entries' = Append(entries, entry)
             /\ at' = CASE entry = Terminator -> "overlaps"
                        [] entry # Terminator /\ EndOverflows(entry) -> "RangeEndOverflow"
                        [] OTHER -> "reservations"
             /\ UNCHANGED <<ptr, header, rest, yielded>>

\* Variant: each reservation is compared with the next one only.
OverlapsNext(i, j) ==
  /\ j = i + 1
  /\ entries[i].size # 0 /\ entries[j].size # 0
  /\ entries[i].address < entries[j].address + entries[j].size
  /\ entries[j].address < entries[i].address + entries[i].size

\* Reservation i collides with the later reservation j.
ReservationsOverlap(i, j) ==
  /\ i < j
  /\ entries[i].size # 0 /\ entries[j].size # 0
  /\ entries[i].address < entries[j].address + entries[j].size
  /\ entries[j].address < entries[i].address + entries[i].size

\* validate_no_overlaps, the end of Reservations::new and of from_ptr.
CheckOverlaps ==
  /\ at = "overlaps"
  /\ Proceed(IF \E i, j \in DOMAIN entries : ReservationsOverlap(i, j) THEN "Overlap" ELSE "Ok")

\* Fdt::memory_reservations.
Iterate ==
  /\ at = "Ok"
  /\ rest = << >>
  /\ rest' = entries
  /\ yielded' = << >>
  /\ UNCHANGED <<ptr, header, at, entries>>

\* MemoryReservations::next: an entry, or the terminator that ends it.
NextReservation ==
  /\ at = "Ok"
  /\ rest # << >>
  /\ IF Head(rest) = Terminator
     THEN rest' = << >> /\ UNCHANGED yielded
     ELSE rest' = Tail(rest) /\ yielded' = Append(yielded, Head(rest))
  /\ UNCHANGED <<ptr, header, at, entries>>

Next ==
  \/ CheckPointer \/ CheckHeader \/ CheckRange \/ TakeSlices \/ ParseStructure
  \/ ReadReservation \/ CheckOverlaps \/ Iterate \/ NextReservation

Spec == Init /\ [][Next]_vars

-----------------------------------------------------------------------------
(* Properties                                                              *)

Bytes(range) == range.start .. range.end - 1

\* Offsets behind the first byte of a block.
Interior(range) == range.start + 1 .. range.end - 1

\* The blocks are inside the blob and behind the header; structure and strings
\* share no byte and neither begins in the middle of the other, not even empty;
\* the reservation block begins in neither.
WellPlaced ==
  /\ header.magic /\ header.version
  /\ header.reservation_offset % ReservationAlign = 0
  /\ header.structure_offset % StructureAlign = 0
  /\ header.reservation_offset \in HeaderSize .. header.total_size
  /\ Structure.start \in HeaderSize .. header.total_size
  /\ Strings.start \in HeaderSize .. header.total_size
  /\ Bytes(Structure) \cup Bytes(Strings) \subseteq 0 .. header.total_size - 1
  /\ Bytes(Structure) \cap Bytes(Strings) = {}
  /\ Structure.start \notin Interior(Strings) /\ Strings.start \notin Interior(Structure)
  /\ header.reservation_offset \notin Bytes(Structure) \cup Bytes(Strings)

\* Header::new accepts a header exactly when its blocks are well placed: no
\* order of checks, overflow or empty block lets a bad one through or keeps a
\* good one out.
HeaderExact == at \in {"range"} \cup HeaderErrors => (at = "range" <=> WellPlaced)

Apart(r, s) == r.end <= s.start \/ s.end <= r.start

\* The reservation block as Reservations::new retains it.
Reservations == [start |-> header.reservation_offset, end |-> Position]

\* No slice of from_ptr leaves the blob, and what has been read of the
\* reservation block never reaches into structure, strings or the end of the
\* blob, although the header does not say where it ends.
BlocksApart ==
  /\ at # "panic"
  /\ at \in {"reservations", "overlaps", "Ok"} =>
       /\ \A block \in {Structure, Strings, Reservations} :
            HeaderSize <= block.start /\ block.start <= block.end /\ block.end <= header.total_size
       /\ Apart(Structure, Strings)
       /\ Apart(Reservations, Structure) /\ Apart(Reservations, Strings)
  /\ at = "Ok" => ptr + header.total_size <= MaxUsize

\* The iterator over an accepted block yields the reservations before the
\* terminator, in order and none left out; no two of them that are not empty
\* share an address, and each has the end that the boot frame allocator
\* computes without a check.
ReservationsExact ==
  at = "Ok" =>
    LET listed == SubSeq(entries, 1, Len(entries) - 1)
    IN  /\ entries[Len(entries)] = Terminator
        /\ \A i \in DOMAIN listed : listed[i] \in ReservationEntry \ {Terminator}
        /\ \A i, j \in DOMAIN listed :
             i # j => Bytes(BlockRange(listed[i].address, listed[i].size))
                        \cap Bytes(BlockRange(listed[j].address, listed[j].size)) = {}
        /\ rest # << >> => yielded \o rest = entries
        /\ yielded # << >> /\ rest = << >> => yielded = listed

=============================================================================
