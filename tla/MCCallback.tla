------------------------------ MODULE MCCallback ------------------------------
(* TLC instance of the callback listeners, which share nothing: one listener,
   of any protocol, is enough. *)
EXTENDS Callback
=============================================================================
