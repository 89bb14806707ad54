-------------------------- MODULE MCBatteryThreads --------------------------
(***************************************************************************)
(* Instances of BatteryThreads for TLC; the bounds are in the .cfg files.  *)
(***************************************************************************)
EXTENDS BatteryThreads

=============================================================================
