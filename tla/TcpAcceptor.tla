------------------------------ MODULE TcpAcceptor ------------------------------
(***************************************************************************)
(* core::TcpAcceptor: the owner calls Start and Stop; the thread of the    *)
(* io_context runs the handlers of async_accept, each of which makes a     *)
(* session and accepts again.  The two threads share _isRunning, a plain   *)
(* bool, and the acceptor, without a lock.  A session factory that throws  *)
(* takes the exception through the handler out of io_context::run.         *)
(*                                                                         *)
(* A step is what a thread does up to its next access of either.  Accepts  *)
(* are counted by where they are: under way, completed with a socket or    *)
(* completed with an error, the handler of the latter two still to run.    *)
(* Completed handlers run in any order.                                    *)
(***************************************************************************)
EXTENDS Integers

CONSTANTS
    MaxStarts,       \* bound: calls of Start
    MaxConnections,  \* bound: connections that peers make
    MaxErrors,       \* bound: accepts that fail by themselves
    MaxThrows        \* bound: session factories that throw

ASSUME AcceptorAssumption ==
    /\ MaxStarts \in Nat /\ MaxConnections \in Nat
    /\ MaxErrors \in Nat /\ MaxThrows \in Nat

VARIABLES
    isRunning,    \* _isRunning
    isOpen,       \* _acceptor.is_open()
    hasFactory,   \* _sessionFactory is not empty
    pending,      \* accepts under way
    accepted,     \* accepts completed with a socket
    refused,      \* accepts completed with an error
    acceptorPc,   \* where each thread is in Start, Stop, DoAccept
    starts, connections, errors, throws,   \* what the bounds count
    late,         \* history: sessions made after the acceptor was closed
    due           \* history: accepts completed with a socket at the close

memberVars == <<isRunning, isOpen, hasFactory>>
acceptVars == <<pending, accepted, refused>>
countVars == <<starts, connections, errors, throws, late, due>>
acceptorVars == <<memberVars, acceptVars, acceptorPc, countVars>>

Owner == "owner"
Io == "io"
AcceptorThreads == {Owner, Io}

Goes(t, from, to) == acceptorPc[t] = from /\ acceptorPc' = [acceptorPc EXCEPT ![t] = to]

-----------------------------------------------------------------------------

(* The constructor opens the acceptor. *)
AcceptorInit ==
    /\ isRunning = FALSE /\ isOpen = TRUE /\ hasFactory \in BOOLEAN
    /\ pending = 0 /\ accepted = 0 /\ refused = 0
    /\ acceptorPc = [t \in AcceptorThreads |-> "idle"]
    /\ starts = 0 /\ connections = 0 /\ errors = 0 /\ throws = 0
    /\ late = 0 /\ due = 0

(* _isRunning = true, on to DoAccept. *)
Start ==
    /\ starts < MaxStarts
    /\ Goes(Owner, "idle", "check")
    /\ isRunning' = TRUE
    /\ starts' = starts + 1
    /\ UNCHANGED <<isOpen, hasFactory, acceptVars, connections, errors, throws,
                   late, due>>

(* _isRunning = false *)
StopStore ==
    /\ Goes(Owner, "idle", "close")
    /\ isRunning' = FALSE
    /\ UNCHANGED <<isOpen, hasFactory, acceptVars, countVars>>

(* Mutant: one accept is taken to be under way, though there may be none. *)
StopClose_AbortsOne ==
    /\ Goes(Owner, "close", "idle")
    /\ due' = IF isOpen THEN accepted ELSE due
    /\ isOpen' = FALSE
    /\ pending' = pending - 1
    /\ refused' = refused + 1
    /\ UNCHANGED <<isRunning, hasFactory, accepted, starts, connections,
                   errors, throws, late>>

(* Mutant: the accepts under way are not aborted. *)
StopClose_KeepsAccepts ==
    /\ Goes(Owner, "close", "idle")
    /\ due' = IF isOpen THEN accepted ELSE due
    /\ isOpen' = FALSE
    /\ UNCHANGED <<isRunning, hasFactory, acceptVars, starts, connections,
                   errors, throws, late>>

(* _acceptor.close(ec) aborts the accepts under way; what has completed    *)
(* keeps its result.                                                       *)
StopClose ==
    /\ Goes(Owner, "close", "idle")
    /\ due' = IF isOpen THEN accepted ELSE due
    /\ isOpen' = FALSE
    /\ pending' = 0
    /\ refused' = refused + pending
    /\ UNCHANGED <<isRunning, hasFactory, accepted, starts, connections,
                   errors, throws, late>>

-----------------------------------------------------------------------------
(* DoAccept, on the owner's thread out of Start or on the io thread. *)

(* if (!_isRunning) return *)
DoAcceptCheck(t) ==
    /\ Goes(t, "check", IF isRunning THEN "accept" ELSE "idle")
    /\ UNCHANGED <<memberVars, acceptVars, countVars>>

(* async_accept; on a closed acceptor it completes with an error. *)
DoAcceptBegins(t) ==
    /\ Goes(t, "accept", "idle")
    /\ pending' = IF isOpen THEN pending + 1 ELSE pending
    /\ refused' = IF isOpen THEN refused ELSE refused + 1
    /\ UNCHANGED <<memberVars, accepted, countVars>>

(* Mutant: the handler accepts again after an error. *)
HandlerFails_Retries ==
    /\ refused > 0
    /\ Goes(Io, "idle", "check")
    /\ refused' = refused - 1
    /\ UNCHANGED <<memberVars, pending, accepted, countVars>>

(* The handler, with an error: if (ec) return. *)
HandlerFails ==
    /\ refused > 0
    /\ Goes(Io, "idle", "idle")
    /\ refused' = refused - 1
    /\ UNCHANGED <<memberVars, pending, accepted, countVars>>

(* Mutant: without a session factory the handler returns. *)
HandlerAccepts_Returns ==
    /\ accepted > 0
    /\ Goes(Io, "idle", IF hasFactory THEN "check" ELSE "idle")
    /\ accepted' = accepted - 1
    /\ late' = IF hasFactory /\ ~isOpen THEN late + 1 ELSE late
    /\ UNCHANGED <<memberVars, pending, refused, starts, connections, errors,
                   throws, due>>

(* The handler, with a socket: the factory, if there is one, makes a       *)
(* session; on to DoAccept either way.                                     *)
HandlerAccepts ==
    /\ accepted > 0
    /\ Goes(Io, "idle", "check")
    /\ accepted' = accepted - 1
    /\ late' = IF hasFactory /\ ~isOpen THEN late + 1 ELSE late
    /\ UNCHANGED <<memberVars, pending, refused, starts, connections, errors,
                   throws, due>>

(* The factory throws: no session is made, the handler does not go on to   *)
(* DoAccept, and the thread is out of io_context::run.                     *)
FactoryThrows ==
    /\ accepted > 0 /\ hasFactory
    /\ throws < MaxThrows
    /\ Goes(Io, "idle", "out")
    /\ accepted' = accepted - 1
    /\ throws' = throws + 1
    /\ UNCHANGED <<memberVars, pending, refused, starts, connections, errors,
                   late, due>>

(* Somebody calls io_context::run again. *)
RunAgain ==
    /\ Goes(Io, "out", "idle")
    /\ UNCHANGED <<memberVars, acceptVars, countVars>>

-----------------------------------------------------------------------------
(* The operating system completes an accept that is under way. *)

ConnectionArrives ==
    /\ pending > 0
    /\ connections < MaxConnections
    /\ connections' = connections + 1
    /\ pending' = pending - 1
    /\ accepted' = accepted + 1
    /\ UNCHANGED <<memberVars, refused, acceptorPc, starts, errors, throws, late,
                   due>>

(* Out of descriptors, for instance. *)
AcceptFails ==
    /\ pending > 0
    /\ errors < MaxErrors
    /\ errors' = errors + 1
    /\ pending' = pending - 1
    /\ refused' = refused + 1
    /\ UNCHANGED <<memberVars, accepted, acceptorPc, starts, connections, throws,
                   late, due>>

-----------------------------------------------------------------------------

DoAccept(t) == DoAcceptCheck(t) \/ DoAcceptBegins(t)
Handler == HandlerFails \/ HandlerAccepts \/ FactoryThrows

AcceptorNext ==
    \/ Start \/ StopStore \/ StopClose
    \/ \E t \in AcceptorThreads : DoAccept(t)
    \/ Handler \/ RunAgain
    \/ ConnectionArrives \/ AcceptFails

AcceptorSpec == AcceptorInit /\ [][AcceptorNext]_acceptorVars

(* A call that was begun is finished; the io_context runs its handlers for *)
(* as long as a thread is in io_context::run.                              *)
Fairness ==
    /\ WF_acceptorVars(StopClose \/ DoAccept(Owner))
    /\ WF_acceptorVars(Handler \/ DoAccept(Io))

AcceptorFairSpec == AcceptorSpec /\ Fairness

-----------------------------------------------------------------------------

(* Every member, thread and count has its type. *)
AcceptorTypeOK ==
    /\ isRunning \in BOOLEAN /\ isOpen \in BOOLEAN /\ hasFactory \in BOOLEAN
    /\ pending \in Nat /\ accepted \in Nat /\ refused \in Nat
    /\ acceptorPc \in [AcceptorThreads -> {"idle", "check", "accept", "close", "out"}]
    /\ starts \in 0..MaxStarts /\ connections \in 0..MaxConnections
    /\ errors \in 0..MaxErrors /\ throws \in 0..MaxThrows
    /\ late \in Nat /\ due \in Nat

(* Each Start begins a chain of accepts, and only a failure ends one: a    *)
(* running acceptor that had fewer accepts fail and factories throw than   *)
(* it was started has an accept under way, or one that has brought a       *)
(* socket its handler will go on from, or is about to begin one.           *)
DeafOnlyAfterFailures ==
    isRunning /\ isOpen /\ errors + throws < starts =>
        \/ pending > 0 \/ accepted > 0
        \/ \E t \in AcceptorThreads : acceptorPc[t] \in {"check", "accept"}

(* What makes it inductive: where the chain of each Start is, as long as   *)
(* Stop has not come.                                                      *)
Busy(t) == IF acceptorPc[t] \in {"check", "accept"} THEN 1 ELSE 0
ChainInv ==
    /\ isRunning => acceptorPc[Owner] # "close"
    /\ isOpen /\ acceptorPc[Owner] # "close" =>
           /\ starts = pending + accepted + Busy(Owner) + Busy(Io) + errors + throws
           /\ isRunning \/ starts = 0

(* Stop is not the end of sessions, but nearly: after it has closed the    *)
(* acceptor there are at most as many sessions as accepts had completed by *)
(* then, whatever the handlers and later Starts do.                        *)
LateSessionsBounded == late <= due

(* What makes it inductive: nothing is under way on a closed acceptor. *)
ClosedInv ==
    /\ isOpen => late = 0 /\ due = 0
    /\ ~isOpen => pending = 0 /\ late + accepted <= due

Quiet ==
    /\ pending = 0 /\ accepted = 0 /\ refused = 0
    /\ \A t \in AcceptorThreads : acceptorPc[t] = "idle"

(* Stop ends the chain of accepts, and a Start after it, on an acceptor    *)
(* that stays closed, begins none that lasts: unless nobody runs the       *)
(* io_context any more after an exception.                                 *)
NobodyRuns == <>[](acceptorPc[Io] = "out")
StopEndsAccepts == NobodyRuns \/ (acceptorPc[Owner] = "close" ~> Quiet)
=============================================================================
