---------------------------- MODULE MC_LaunchNode ----------------------------
(* Small instances of LaunchNode for TLC. *)
EXTENDS LaunchNode

TwoSubs == {1, 2}
=============================================================================
