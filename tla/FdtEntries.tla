----------------------------- MODULE FdtEntries -----------------------------
(***************************************************************************)
(* What the FDT crate hands to the kernel: entries of an address and a     *)
(* size.  The conditions below are what the validation of the blob must    *)
(* establish (FdtSemantics, FdtBlob) and what the boot frame allocator     *)
(* builds on (BootFrames).                                                 *)
(***************************************************************************)
EXTENDS Integers, Sequences

CONSTANT MaxAddr        \* u64::MAX and usize::MAX, the largest address

ASSUME MaxAddrAssumption == MaxAddr \in Nat

Addrs == 0 .. MaxAddr

\* An entry as the iterators yield it.
Entry == [address : Addrs, size : Addrs]

\* What reg_range::validate lets through for /memory and /reserved-memory: not
\* empty, with a representable end.
RangeEntry == {e \in Entry : e.size > 0 /\ e.address + e.size <= MaxAddr}

\* What Reservations::new lets through: zero sizes are allowed, overflow is not.
ReservationEntry == {e \in Entry : e.address + e.size <= MaxAddr}

=============================================================================
