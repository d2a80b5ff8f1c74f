---------------------------- MODULE ProcessLoad ----------------------------
(***************************************************************************)
(* process::load_init: validating the embedded BBUSER01 image, claiming    *)
(* the one process slot, and filling the user half of the active address   *)
(* space page by page.  Byte k of the payload is the number k + 1, so that *)
(* no payload byte looks like a zeroed one.  The image is immutable        *)
(* kernel storage; load_init may be called again.                          *)
(***************************************************************************)
EXTENDS Integers, TLC

CONSTANTS
  FRAME_SIZE,       \* bytes of a page
  USER_STACK_TOP,   \* exclusive upper boundary of the user stack
  STACK_SIZE,       \* bytes of the user stack
  MaxAddress,       \* usize::MAX
  Images            \* the images a build may embed

ASSUME LayoutAssumption ==
  /\ FRAME_SIZE \in Nat \ {0} /\ FRAME_SIZE % 2 = 0
  /\ USER_STACK_TOP % FRAME_SIZE = 0 /\ STACK_SIZE % FRAME_SIZE = 0
  /\ STACK_SIZE + 2 * FRAME_SIZE <= USER_STACK_TOP /\ USER_STACK_TOP <= MaxAddress

VARIABLES
  image,      \* INIT_IMAGE: [empty, whole, base, entry, size, len]
  CLAIMED,    \* the process slot has been claimed
  pages,      \* user pages of the active root: address -> [perm, bytes]
  address,    \* next page to map, while a load is in its mapping loops
  result      \* "None" while loading or before the first call, "Ok" or an error

vars == <<image, CLAIMED, pages, address, result>>

USER_STACK_BOTTOM == USER_STACK_TOP - STACK_SIZE

\* Variant: the image may grow up to the stack.
NoGuardPage == USER_STACK_BOTTOM

\* One page below the stack stays out of the image's reach.
IMAGE_LIMIT == USER_STACK_BOTTOM - FRAME_SIZE

Idle == -1

Zero == 0

Init ==
  /\ image \in Images
  /\ CLAIMED = FALSE
  /\ pages = <<>>
  /\ address = Idle
  /\ result = "None"

-----------------------------------------------------------------------------
(* Image::parse.                                                           *)

End(img) == img.base + img.size

RoundUp(a) == ((a + FRAME_SIZE - 1) \div FRAME_SIZE) * FRAME_SIZE

MappedEnd(img) == RoundUp(End(img))

\* Both checked additions succeed.
Representable(img) == End(img) + FRAME_SIZE - 1 <= MaxAddress

\* "whole": 32 header bytes are there and start with the magic.
Parse(img) ==
  IF img.empty THEN "MissingImage"
  ELSE IF /\ img.whole
          /\ Representable(img)
          /\ img.size # 0
          /\ img.size = img.len
          /\ img.base >= FRAME_SIZE
          /\ img.base % FRAME_SIZE = 0
          /\ img.base <= img.entry /\ img.entry < End(img)
          /\ img.entry % 2 = 0
          /\ MappedEnd(img) <= IMAGE_LIMIT
       THEN "Ok" ELSE "InvalidImage"

-----------------------------------------------------------------------------
(* load_init.                                                              *)

\* A call ends before it maps anything.
RefuseLoad ==
  /\ address = Idle
  /\ \/ /\ Parse(image) # "Ok"
        /\ result' = Parse(image)
        /\ UNCHANGED CLAIMED
     \/ /\ Parse(image) = "Ok" /\ CLAIMED
        /\ result' = "AlreadyClaimed"
        /\ UNCHANGED CLAIMED
     \/ /\ Parse(image) = "Ok" /\ ~CLAIMED
        /\ CLAIMED' = TRUE
        /\ result' \in {"KernelStackAllocation", "Memory"}
  /\ UNCHANGED <<image, pages, address>>

\* A call claims the slot, gets its kernel stack and the paging state.
BeginLoad ==
  /\ address = Idle
  /\ Parse(image) = "Ok" /\ ~CLAIMED
  /\ CLAIMED' = TRUE
  /\ address' = image.base
  /\ result' = "None"
  /\ UNCHANGED <<image, pages>>

InImage == address < MappedEnd(image)

\* chunks(FRAME_SIZE): the bytes of the payload that belong to this page.
ChunkLength ==
  IF ~InImage THEN 0
  ELSE IF End(image) - address < FRAME_SIZE THEN End(image) - address ELSE FRAME_SIZE

\* zero_frame
ZeroFrame == [i \in 0 .. FRAME_SIZE - 1 |-> Zero]

\* zero_frame, then copy_nonoverlapping of the chunk.
Contents ==
  [i \in 0 .. FRAME_SIZE - 1 |->
     IF i < ChunkLength THEN address - image.base + i + 1 ELSE ZeroFrame[i]]

Permissions == IF InImage THEN "ReadExecute" ELSE "ReadWrite"

\* The next page of the image's loop, then of the stack's loop.
NextAddress ==
  IF InImage /\ address + FRAME_SIZE >= MappedEnd(image)
  THEN USER_STACK_BOTTOM ELSE address + FRAME_SIZE

\* map_page for an image or a stack page.
MapPage ==
  /\ address # Idle /\ address < USER_STACK_TOP
  /\ address \notin DOMAIN pages
  /\ pages' = (address :> [perm |-> Permissions, bytes |-> Contents]) @@ pages
  /\ address' = NextAddress
  /\ UNCHANGED <<image, CLAIMED, result>>

\* Variant: a failed load gives the slot back.
ClaimReleased == FALSE

\* "Failures after claiming the slot retain the claim and any mapped frames."
ClaimAfterFailure == CLAIMED

\* map_page fails: no frame for the page or its tables, or no frame access.
MapPageFails ==
  /\ address # Idle /\ address < USER_STACK_TOP
  /\ address' = Idle
  /\ CLAIMED' = ClaimAfterFailure
  /\ result' = "Paging"
  /\ UNCHANGED <<image, pages>>

FinishLoad ==
  /\ address = USER_STACK_TOP
  /\ address' = Idle
  /\ result' = "Ok"
  /\ UNCHANGED <<image, CLAIMED, pages>>

Next == RefuseLoad \/ BeginLoad \/ MapPage \/ MapPageFails \/ FinishLoad

Spec == Init /\ [][Next]_vars

-----------------------------------------------------------------------------
(* Properties.                                                             *)

\* Byte a of the user half as a program sees it.
ByteAt(a) == pages[a - (a % FRAME_SIZE)].bytes[a % FRAME_SIZE]
PermAt(a) == pages[a - (a % FRAME_SIZE)].perm

\* A load that succeeds has made exactly the user memory the process expects:
\* payload byte k executable and read-only at base + k, zeros up to the end of
\* the last image page, a zeroed writable stack, an even entry address on a
\* payload byte, and nothing else - every other mapped page holds a payload byte,
\* and the null page and the page just below the stack are unmapped.  About load_init, Image::parse, load and map_page.
LoadedExactly ==
  result = "Ok" =>
    LET mapped == {a \in 0 .. MaxAddress : a - (a % FRAME_SIZE) \in DOMAIN pages}
    IN /\ \A k \in 0 .. image.len - 1 :
            /\ image.base + k \in mapped
            /\ ByteAt(image.base + k) = k + 1
            /\ PermAt(image.base + k) = "ReadExecute"
       /\ \A a \in mapped \ (image.base .. image.base + image.len - 1) : ByteAt(a) = Zero
       /\ {a \in mapped : PermAt(a) = "ReadWrite"} = USER_STACK_BOTTOM .. USER_STACK_TOP - 1
       /\ \A p \in DOMAIN pages : pages[p].perm = "ReadExecute" =>
            \E k \in 0 .. image.len - 1 : p <= image.base + k /\ image.base + k < p + FRAME_SIZE
       /\ image.entry % 2 = 0 /\ image.entry \in mapped /\ ByteAt(image.entry) # Zero
       /\ (0 .. FRAME_SIZE - 1) \cap mapped = {}
       /\ (USER_STACK_BOTTOM - FRAME_SIZE .. USER_STACK_BOTTOM - 1) \cap mapped = {}

\* One call of load_init at most ever maps pages: once a load that mapped some
\* has ended, well or badly, a later call neither maps another nor reports
\* success, so no process is built over the remains of a failed load.
OneLoadOnly ==
  [][address = Idle /\ pages # <<>> =>
       pages' = pages /\ address' = Idle /\ result' # "Ok"]_vars
=============================================================================
