---------------------------- MODULE MC_SocketNode ----------------------------
(* Small instances of SocketNode for TLC. *)
EXTENDS SocketNode

TwoSocks == {1, 2}
=============================================================================
