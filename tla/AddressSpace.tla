---------------------------- MODULE AddressSpace ----------------------------
(***************************************************************************)
(* What the kernel expects of an address space that is only ever added to: *)
(* a call gives one empty page a frame that no other page shows, or it is  *)
(* refused and changes nothing.  Tables, and the frames they cost, do not  *)
(* show.                                                                   *)
(***************************************************************************)
CONSTANTS
  Pages,      \* the virtual pages
  Empty       \* a page that does not translate

VARIABLES
  mapping,    \* what each page translates to: Empty or [frame, ...]
  result      \* the result of the latest call

vars == <<mapping, result>>

Init ==
  /\ mapping = [page \in Pages |-> Empty]
  /\ result = "Ok"

Mapped == {page \in Pages : mapping[page] # Empty}

Map ==
  \E page \in Pages \ Mapped :
    /\ mapping'[page] # Empty
    /\ \A other \in Mapped : mapping'[page].frame # mapping[other].frame
    /\ mapping' = [mapping EXCEPT ![page] = mapping'[page]]
    /\ result' = "Ok"

Refuse ==
  /\ result' # "Ok"
  /\ UNCHANGED mapping

Next == Map \/ Refuse

Spec == Init /\ [][Next]_vars

=============================================================================
