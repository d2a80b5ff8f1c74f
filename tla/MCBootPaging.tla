---------------------------- MODULE MCBootPaging ----------------------------
(***************************************************************************)
(* A root table of 14 entries, 16 gigapages of 4 bytes or frames.  The DTB *)
(* is at either end of every gigapage, those the window does not fit       *)
(* behind included, and above the last address.  Frames lie in the first   *)
(* and the last gigapage and beyond.                                       *)
(***************************************************************************)
EXTENDS BootPaging

MCDtbs == {a \in 0 .. 67 : a % 4 \in {0, 3}}

MCFrames == {0, 3, 5, 60, 63, 64, 67}

=============================================================================
