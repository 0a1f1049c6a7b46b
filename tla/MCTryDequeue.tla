---------------------------- MODULE MCTryDequeue ----------------------------
(* Instances of TryDequeue for TLC; the .cfg files give the bounds. *)
EXTENDS TryDequeue, TLC

(* Consumers are interchangeable. *)
ConsumerSymmetry == Permutations(Consumers)
=============================================================================
