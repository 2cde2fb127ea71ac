---------------------------- MODULE MCLogShipper ----------------------------
(* Small instances of LogShipper for TLC. *)
EXTENDS LogShipper

CONSTANTS cp, dp

OneTarget == {cp}
TwoTargets == {cp, dp}
=============================================================================
