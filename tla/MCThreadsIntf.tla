--------------------------- MODULE MCThreadsIntf ---------------------------
(***************************************************************************)
(* Instances of ThreadsIntf for TLC.  Three jobs and two identifiers: an   *)
(* identifier has to be used again, and two threads may live at a time.    *)
(* The ordinals include 0, which find_xorshift_params.c gives to its first *)
(* thread and which is also THREAD_ORD_UNKNOWN.                            *)
(***************************************************************************)
EXTENDS ThreadsIntf, TLC

CONSTANTS j1, j2, j3

MCJobs == {j1, j2, j3}
MCIds  == 1..2
MCOrds == 0..2

Symmetry == Permutations(MCJobs)

=============================================================================
