---------------------------- MODULE MCConnections ----------------------------
(***************************************************************************)
(* An instance of TcpAcceptor and SessionManager for TLC; the .cfg file    *)
(* gives the bounds.  The two share no state, and no property relates      *)
(* them: an interleaving of both says no more than one behaviour of each.  *)
(* So either the one or the other takes steps.                             *)
(***************************************************************************)
EXTENDS TcpAcceptor, SessionManager
CONSTANTS s1, s2, s3

(* Two sessions share an identifier. *)
MCIdOf == [s \in Sessions |-> IF s = s3 THEN 2 ELSE 1]

ConnectionsInit == AcceptorInit /\ Init

ConnectionsNext ==
    \/ AcceptorNext /\ Init /\ UNCHANGED vars
    \/ Next /\ AcceptorInit /\ hasFactory /\ UNCHANGED acceptorVars

ConnectionsSpec ==
    /\ ConnectionsInit /\ [][ConnectionsNext]_<<acceptorVars, vars>>
    /\ Fairness
    /\ \A t \in Threads : WF_vars(Proceeds(t))
=============================================================================
