----------------------- MODULE MCImplicitProducerHash -----------------------
(* An instance of ImplicitProducerHash for TLC; the .cfg file gives the bounds. *)
EXTENDS ImplicitProducerHash

(* Every identifier has the last slot as its first: all searches wrap. *)
AllCollide == [t \in Threads |-> 7]
=============================================================================
