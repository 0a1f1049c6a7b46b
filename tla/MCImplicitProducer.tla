-------------------------- MODULE MCImplicitProducer --------------------------
(* Instances of ImplicitProducer for TLC; the .cfg files give the bounds. *)
EXTENDS ImplicitProducer, TLC

(* Consumers are interchangeable, and so are blocks. *)
StreamSymmetry == Permutations(Consumers) \cup Permutations(Blocks)
=============================================================================
