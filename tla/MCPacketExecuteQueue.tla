------------------------ MODULE MCPacketExecuteQueue ------------------------
(* Instances of PacketExecuteQueue for TLC; the .cfg files give the bounds. *)
EXTENDS PacketExecuteQueue

CONSTANTS p1, p2   \* producers

(* One producer that sends twice and one that comes in between. *)
MCQuota == [p \in Producers |-> IF p = p1 THEN MaxPackets ELSE 1]
=============================================================================
