---------------------------- MODULE MCSessionBase ----------------------------
(* Instances of SessionBase for TLC; the .cfg files give the bounds. *)
EXTENDS SessionBase
=============================================================================
