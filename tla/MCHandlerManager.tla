--------------------------- MODULE MCHandlerManager ---------------------------
(* Instances of HandlerManager for TLC; the .cfg files give the bounds. *)
EXTENDS HandlerManager
CONSTANTS s1, s2, s3

(* Two sessions share an identifier. *)
MCIdOf == [s \in Sessions |-> IF s = s3 THEN 2 ELSE 1]

(* Every packet is an echo request but the first of s3. *)
MCEchoItems == Items \ {<<s3, 1>>}
=============================================================================
