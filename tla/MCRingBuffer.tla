---------------------------- MODULE MCRingBuffer ----------------------------
(* Instances of RingBuffer for TLC; the .cfg files give the bounds. *)
EXTENDS RingBuffer
=============================================================================
