------------------------------ MODULE MCSeedLog ------------------------------
(***************************************************************************)
(* Instances of SeedLog for TLC.  A log of 2 entries that may grow to 7 is *)
(* resized twice, the second time to less than double, and reaches its     *)
(* limit; blocks of 3 seeds and counter words of 2 values carry into the   *)
(* second word after the first seed and run out after 12 outputs, so that  *)
(* 8 seeds are the whole period.                                           *)
(***************************************************************************)
EXTENDS SeedLog

CONSTANTS k1, k2

MCKeys == {k1, k2}
MCOrds == 0 .. 1

=============================================================================
