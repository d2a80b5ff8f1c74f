-------------------------------- MODULE Sv39 --------------------------------
(***************************************************************************)
(* Addresses and page-table entries as the words they are:                 *)
(* arch/riscv64/paging.rs. A shift by n bits is a division by, and a mask  *)
(* of n bits a remainder of, 2^n; the constants below are such powers, and *)
(* nothing here depends on more than the assumptions say.                  *)
(***************************************************************************)
EXTENDS Integers

CONSTANTS
  PageSize,       \* PAGE_SIZE
  Fanout,         \* PAGE_TABLE_ENTRIES, VPN_MASK + 1
  AddressSpace,   \* usize::MAX + 1
  FlagSpace,      \* 1 << PTE_PPN_SHIFT
  PageNumbers     \* 1 << PHYSICAL_PAGE_NUMBER_BITS

\* The virtual address space that three levels of tables tell apart.
TranslatedSpace == PageSize * Fanout * Fanout * Fanout

ASSUME Sv39Assumption ==
  /\ {PageSize, Fanout, AddressSpace, FlagSpace, PageNumbers} \subseteq Nat \ {0}
  /\ Fanout % 2 = 0
  /\ AddressSpace % TranslatedSpace = 0
  /\ FlagSpace % 256 = 0
  /\ PageSize * PageNumbers <= AddressSpace

Words == 0 .. AddressSpace - 1

\* SV39_LOW_HALF_END, 1 << SV39_SIGN_BIT.
LowHalfEnd == PageSize * Fanout * Fanout * (Fanout \div 2)

\* SV39_HIGH_HALF_BASE, usize::MAX << SV39_SIGN_BIT.
HighHalfBase == AddressSpace - LowHalfEnd

\* The address lies between the two halves.
NotCanonical(address) == LowHalfEnd <= address /\ address < HighHalfBase

MaxPhysicalAddress == PageSize * PageNumbers - 1

\* vpn0, vpn1 and vpn2 of map_page.
Vpn0(address) == (address \div PageSize) % Fanout

Vpn1(address) == (address \div (PageSize * Fanout)) % Fanout

Vpn2(address) == (address \div (PageSize * Fanout * Fanout)) % Fanout

-----------------------------------------------------------------------------
(* Entries. The flags do not overlap the page number, so `|' is a sum.     *)

PTE_VALID == 1

PTE_READ == 2

PTE_WRITE == 4

PTE_EXECUTE == 8

PTE_USER == 16

PTE_ACCESSED == 64

PTE_DIRTY == 128

Has(word, bit) == (word \div bit) % 2 = 1

permission_bits(permissions) ==
  CASE permissions = "ReadOnly" -> PTE_READ
    [] permissions = "ReadWrite" -> PTE_READ + PTE_WRITE
    [] permissions = "ReadExecute" -> PTE_READ + PTE_EXECUTE

\* The flags map_page gives a leaf.
LeafFlags(permissions, user) ==
  LET bits == permission_bits(permissions)
  IN  PTE_VALID + PTE_ACCESSED + bits
        + (IF user THEN PTE_USER ELSE 0)
        + (IF Has(bits, PTE_WRITE) THEN PTE_DIRTY ELSE 0)

\* page_table_entry for a representable address.
page_table_entry(physical, flags) == (physical \div PageSize) * FlagSpace + flags

\* The physical page an entry names: intermediate_frame, and the hardware.
EntryAddress(entry) == ((entry \div FlagSpace) % PageNumbers) * PageSize

\* intermediate_frame accepts the entry.
IsLink(entry) ==
  Has(entry, PTE_VALID) /\ \A bit \in {PTE_READ, PTE_WRITE, PTE_EXECUTE} : ~Has(entry, bit)

=============================================================================
