--------------------------- MODULE MCProcessLoad ---------------------------
(***************************************************************************)
(* Pages of four bytes, 32 addresses, a stack of two pages below 28: the   *)
(* image limit is 16, so an image has up to three pages.  The headers      *)
(* contain null, misaligned, exactly fitting, too high and overflowing     *)
(* bases, every entry address and every declared and real payload size up  *)
(* to one byte more than fits.                                             *)
(***************************************************************************)
EXTENDS ProcessLoad

MCBases == {0, 2, 4, 8, 12, 16, 28}
MCMaxSize == 13

MCImages ==
  [empty : {FALSE}, whole : {TRUE}, base : MCBases, entry : 0 .. MaxAddress,
   size : 0 .. MCMaxSize, len : 0 .. MCMaxSize]
  \cup
  [empty : BOOLEAN, whole : {FALSE}, base : {4}, entry : {4}, size : {4}, len : {4}]
=============================================================================
