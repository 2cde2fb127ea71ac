-------------------------- MODULE MCCallbackServer --------------------------
(* A small instance of CallbackServer for TLC. *)
EXTENDS CallbackServer

CONSTANTS stop1, stop2

TwoStops == {stop1, stop2}
=============================================================================
