--------------------------- MODULE Connections_proof ---------------------------
(***************************************************************************)
(* TLAPS proofs about the two components that a connection passes on its   *)
(* way to a handler: TcpAcceptor, for any number of starts, connections,   *)
(* errors and exceptions, and SessionManager, for any threads, sessions    *)
(* and calls.                                                              *)
(* The two share no state; each is proved about by itself.                 *)
(***************************************************************************)
EXTENDS TcpAcceptor, SessionManager, TLAPS

-----------------------------------------------------------------------------
(* TcpAcceptor *)

(* The inductive invariant. *)
AcceptorInv == AcceptorTypeOK /\ ChainInv /\ ClosedInv

Pcs == {"idle", "check", "accept", "close", "out"}

(* It holds of a new acceptor. *)
LEMMA InitAcceptor == AcceptorInit => AcceptorInv
<1> SUFFICES ASSUME AcceptorInit PROVE AcceptorInv
  OBVIOUS
<1>1. AcceptorTypeOK
  <2>1. isRunning \in BOOLEAN /\ isOpen \in BOOLEAN /\ hasFactory \in BOOLEAN
    BY Zenon DEF AcceptorInit
  <2>2. pending \in Nat /\ accepted \in Nat /\ refused \in Nat
    BY DEF AcceptorInit
  <2>3. acceptorPc \in [AcceptorThreads -> Pcs] BY DEF AcceptorInit, Pcs
  <2>4. /\ starts \in 0..MaxStarts /\ connections \in 0..MaxConnections
        /\ errors \in 0..MaxErrors /\ throws \in 0..MaxThrows
        /\ late \in Nat /\ due \in Nat
    BY AcceptorAssumption DEF AcceptorInit
  <2>5. QED BY <2>1, <2>2, <2>3, <2>4 DEF AcceptorTypeOK, Pcs
<1>2. ChainInv
  <2>1. Busy(Owner) = 0 /\ Busy(Io) = 0 /\ isRunning = FALSE
    BY DEF AcceptorInit, AcceptorThreads, Busy
  <2>2. acceptorPc[Owner] = "idle" BY DEF AcceptorInit, AcceptorThreads
  <2>3. QED BY <2>1, <2>2 DEF AcceptorInit, ChainInv
<1>3. ClosedInv BY DEF AcceptorInit, ClosedInv
<1>4. QED BY <1>1, <1>2, <1>3 DEF AcceptorInv

(* Where a step of one thread leaves the threads. *)
LEMMA GoesTo ==
    ASSUME AcceptorTypeOK, NEW t \in AcceptorThreads, NEW from \in Pcs, NEW to \in Pcs,
           Goes(t, from, to)
    PROVE  /\ acceptorPc' \in [AcceptorThreads -> Pcs]
           /\ acceptorPc[t] = from /\ acceptorPc'[t] = to
           /\ \A u \in AcceptorThreads : u # t => acceptorPc'[u] = acceptorPc[u]
BY DEF Goes, AcceptorTypeOK, Pcs

(* One step of one thread changes where that thread is, and no other.      *)
LEMMA BusyAfter ==
    ASSUME AcceptorTypeOK, NEW t \in AcceptorThreads, NEW from \in Pcs, NEW to \in Pcs,
           Goes(t, from, to)
    PROVE  \A u \in AcceptorThreads :
               /\ Busy(u) = IF acceptorPc[u] \in {"check", "accept"} THEN 1 ELSE 0
               /\ Busy(u)' = IF u = t
                             THEN IF to \in {"check", "accept"} THEN 1 ELSE 0
                             ELSE Busy(u)
BY GoesTo DEF Busy

(* Every step of the owner, of a handler and of the operating system keeps *)
(* it.                                                                     *)
LEMMA NextAcceptor == AcceptorInv /\ [AcceptorNext]_acceptorVars => AcceptorInv'
<1> SUFFICES ASSUME AcceptorTypeOK, ChainInv, ClosedInv, [AcceptorNext]_acceptorVars
             PROVE  AcceptorInv'
  BY DEF AcceptorInv
<1> USE DEF memberVars, acceptVars, countVars
<1>0. /\ Owner \in AcceptorThreads /\ Io \in AcceptorThreads /\ Owner # Io
      /\ \A t \in AcceptorThreads : t = Owner \/ t = Io
  BY DEF AcceptorThreads, Owner, Io
<1>a. /\ Busy(Owner) \in 0..1 /\ Busy(Io) \in 0..1
      /\ pending \in Nat /\ accepted \in Nat /\ refused \in Nat
      /\ starts \in Nat /\ errors \in Nat /\ throws \in Nat
  BY AcceptorAssumption DEF Busy, AcceptorTypeOK
<1>1. CASE Start
  <2>1. /\ acceptorPc' \in [AcceptorThreads -> Pcs] /\ acceptorPc'[Owner] = "check"
    BY <1>0, <1>1, GoesTo DEF Start, Pcs
  <2>2. AcceptorTypeOK' BY <1>1, <2>1, AcceptorAssumption DEF Start, AcceptorTypeOK, Pcs
  <2>3. ChainInv'
    <3>1. Busy(Owner) = 0 /\ Busy(Owner)' = 1 /\ Busy(Io)' = Busy(Io)
      BY <1>0, <1>1, BusyAfter, GoesTo DEF Start, Pcs
    <3>2. acceptorPc[Owner] # "close" BY <1>1 DEF Start, Goes
    <3>3. QED BY <1>1, <1>a, <2>1, <3>1, <3>2 DEF Start, ChainInv
  <2>4. ClosedInv' BY <1>1 DEF Start, ClosedInv
  <2>5. QED BY <2>2, <2>3, <2>4 DEF AcceptorInv
<1>2. CASE StopStore
  <2>1. acceptorPc' \in [AcceptorThreads -> Pcs] /\ acceptorPc'[Owner] = "close"
    BY <1>0, <1>2, GoesTo DEF StopStore, Pcs
  <2>2. AcceptorTypeOK' BY <1>2, <2>1 DEF StopStore, AcceptorTypeOK, Pcs
  <2>3. ChainInv' BY <1>2, <2>1, Zenon DEF StopStore, ChainInv
  <2>4. ClosedInv' BY <1>2 DEF StopStore, ClosedInv
  <2>5. QED BY <2>2, <2>3, <2>4 DEF AcceptorInv
<1>3. CASE StopClose
  <2>1. acceptorPc' \in [AcceptorThreads -> Pcs] /\ acceptorPc'[Owner] = "idle"
    BY <1>0, <1>3, GoesTo DEF StopClose, Pcs
  <2>2. AcceptorTypeOK'
    <3>1. due' \in Nat /\ pending' \in Nat /\ refused' \in Nat
      BY <1>3 DEF StopClose, AcceptorTypeOK
    <3>2. QED BY <1>3, <2>1, <3>1 DEF StopClose, AcceptorTypeOK, Pcs
  <2>3. ChainInv'
    <3>1. ~isOpen' BY <1>3 DEF StopClose
    <3>2. acceptorPc'[Owner] # "close" BY <2>1
    <3>3. QED BY <3>1, <3>2, Zenon DEF ChainInv
  <2>4. ClosedInv' BY <1>3 DEF StopClose, ClosedInv, AcceptorTypeOK
  <2>5. QED BY <2>2, <2>3, <2>4 DEF AcceptorInv
<1>4. ASSUME NEW t \in AcceptorThreads, DoAcceptCheck(t) PROVE AcceptorInv'
  <2> DEFINE to == IF isRunning THEN "accept" ELSE "idle"
  <2>1. /\ acceptorPc' \in [AcceptorThreads -> Pcs] /\ acceptorPc'[t] = to
        /\ \A u \in AcceptorThreads : u # t => acceptorPc'[u] = acceptorPc[u]
    BY <1>4, GoesTo DEF DoAcceptCheck, Pcs
  <2>2. AcceptorTypeOK' BY <1>4, <2>1 DEF DoAcceptCheck, AcceptorTypeOK, Pcs
  <2>3. ChainInv'
    <3>1. acceptorPc[t] = "check" BY <1>4 DEF DoAcceptCheck, Goes
    <3>2. Busy(t) = 1 BY <3>1 DEF Busy
    <3>3. acceptorPc'[Owner] = "close" <=> acceptorPc[Owner] = "close"
      BY <1>0, <2>1, <3>1
    <3>4. CASE isRunning
      <4>1. Busy(t)' = 1 BY <2>1, <3>4 DEF Busy
      <4>2. \A u \in AcceptorThreads : Busy(u)' = Busy(u) BY <2>1, <3>2, <4>1 DEF Busy
      <4>3. QED BY <1>0, <1>4, <3>3, <4>2 DEF DoAcceptCheck, ChainInv
    <3>5. CASE ~isRunning
      <4>1. ~(isOpen /\ acceptorPc[Owner] # "close")
        BY <1>0, <1>a, <3>2, <3>5 DEF ChainInv
      <4>2. QED BY <1>4, <3>3, <3>5, <4>1 DEF DoAcceptCheck, ChainInv
    <3>6. QED BY <3>4, <3>5
  <2>4. ClosedInv' BY <1>4 DEF DoAcceptCheck, ClosedInv
  <2>5. QED BY <2>2, <2>3, <2>4 DEF AcceptorInv
<1>5. ASSUME NEW t \in AcceptorThreads, DoAcceptBegins(t) PROVE AcceptorInv'
  <2>1. /\ acceptorPc' \in [AcceptorThreads -> Pcs]
        /\ acceptorPc[t] = "accept" /\ acceptorPc'[t] = "idle"
        /\ \A u \in AcceptorThreads : u # t => acceptorPc'[u] = acceptorPc[u]
    BY <1>5, GoesTo DEF DoAcceptBegins, Pcs
  <2>2. AcceptorTypeOK' BY <1>5, <2>1 DEF DoAcceptBegins, AcceptorTypeOK, Pcs
  <2>3. ChainInv'
    <3>1. acceptorPc'[Owner] = "close" <=> acceptorPc[Owner] = "close"
      BY <1>0, <2>1
    <3>2. Busy(t) = 1 /\ Busy(t)' = 0 BY <2>1 DEF Busy
    <3>3. \A u \in AcceptorThreads : u # t => Busy(u)' = Busy(u) BY <2>1 DEF Busy
    <3>4. Busy(Owner)' + Busy(Io)' + 1 = Busy(Owner) + Busy(Io)
      <4>1. CASE t = Owner BY <1>0, <1>a, <3>2, <3>3, <4>1
      <4>2. CASE t = Io BY <1>0, <1>a, <3>2, <3>3, <4>2
      <4>3. QED BY <1>0, <4>1, <4>2
    <3>5. Busy(Owner)' \in 0..1 /\ Busy(Io)' \in 0..1 BY DEF Busy
    <3>6. QED BY <1>5, <1>a, <3>1, <3>4, <3>5 DEF DoAcceptBegins, ChainInv
  <2>4. ClosedInv' BY <1>5 DEF DoAcceptBegins, ClosedInv
  <2>5. QED BY <2>2, <2>3, <2>4 DEF AcceptorInv
<1>6. CASE HandlerFails
  <2>1. /\ acceptorPc' \in [AcceptorThreads -> Pcs]
        /\ \A u \in AcceptorThreads : acceptorPc'[u] = acceptorPc[u]
    BY <1>0, <1>6, GoesTo DEF HandlerFails, Pcs
  <2>2. AcceptorTypeOK' BY <1>6, <2>1 DEF HandlerFails, AcceptorTypeOK, Pcs
  <2>3. ChainInv'
    <3>1. \A u \in AcceptorThreads : Busy(u)' = Busy(u) BY <2>1 DEF Busy
    <3>2. QED BY <1>0, <1>6, <2>1, <3>1 DEF HandlerFails, ChainInv
  <2>4. ClosedInv' BY <1>6 DEF HandlerFails, ClosedInv
  <2>5. QED BY <2>2, <2>3, <2>4 DEF AcceptorInv
<1>7. CASE HandlerAccepts
  <2>1. /\ acceptorPc' \in [AcceptorThreads -> Pcs] /\ acceptorPc'[Io] = "check"
        /\ acceptorPc'[Owner] = acceptorPc[Owner]
    BY <1>0, <1>7, GoesTo DEF HandlerAccepts, Pcs
  <2>2. AcceptorTypeOK' BY <1>7, <2>1 DEF HandlerAccepts, AcceptorTypeOK, Pcs
  <2>3. ChainInv'
    <3>1. Busy(Io) = 0 /\ Busy(Io)' = 1 /\ Busy(Owner)' = Busy(Owner)
      BY <1>0, <1>7, BusyAfter, GoesTo DEF HandlerAccepts, Pcs
    <3>2. QED BY <1>7, <1>a, <2>1, <3>1 DEF HandlerAccepts, ChainInv
  <2>4. ClosedInv' BY <1>7 DEF HandlerAccepts, ClosedInv, AcceptorTypeOK
  <2>5. QED BY <2>2, <2>3, <2>4 DEF AcceptorInv
<1>8. CASE FactoryThrows
  <2>1. /\ acceptorPc' \in [AcceptorThreads -> Pcs] /\ acceptorPc'[Io] = "out"
        /\ acceptorPc'[Owner] = acceptorPc[Owner]
    BY <1>0, <1>8, GoesTo DEF FactoryThrows, Pcs
  <2>2. AcceptorTypeOK'
    BY <1>8, <2>1, AcceptorAssumption DEF FactoryThrows, AcceptorTypeOK, Pcs
  <2>3. ChainInv'
    <3>1. Busy(Io) = 0 /\ Busy(Io)' = 0 /\ Busy(Owner)' = Busy(Owner)
      BY <1>0, <1>8, BusyAfter, GoesTo DEF FactoryThrows, Pcs
    <3>2. QED BY <1>8, <1>a, <2>1, <3>1 DEF FactoryThrows, ChainInv
  <2>4. ClosedInv' BY <1>8 DEF FactoryThrows, ClosedInv, AcceptorTypeOK
  <2>5. QED BY <2>2, <2>3, <2>4 DEF AcceptorInv
<1>9. CASE RunAgain
  <2>1. /\ acceptorPc' \in [AcceptorThreads -> Pcs]
        /\ acceptorPc'[Owner] = acceptorPc[Owner]
    BY <1>0, <1>9, GoesTo DEF RunAgain, Pcs
  <2>2. AcceptorTypeOK' BY <1>9, <2>1 DEF RunAgain, AcceptorTypeOK, Pcs
  <2>3. ChainInv'
    <3>1. Busy(Io) = 0 /\ Busy(Io)' = 0 /\ Busy(Owner)' = Busy(Owner)
      BY <1>0, <1>9, BusyAfter, GoesTo DEF RunAgain, Pcs
    <3>2. QED BY <1>9, <2>1, <3>1 DEF RunAgain, ChainInv
  <2>4. ClosedInv' BY <1>9 DEF RunAgain, ClosedInv
  <2>5. QED BY <2>2, <2>3, <2>4 DEF AcceptorInv
<1>10. CASE ConnectionArrives
  <2>1. AcceptorTypeOK' BY <1>10, AcceptorAssumption DEF ConnectionArrives, AcceptorTypeOK
  <2>2. ChainInv'
    <3>1. Busy(Owner)' = Busy(Owner) /\ Busy(Io)' = Busy(Io)
      BY <1>10 DEF ConnectionArrives, Busy
    <3>2. QED BY <1>10, <1>a, <3>1 DEF ConnectionArrives, ChainInv
  <2>3. ClosedInv' BY <1>10 DEF ConnectionArrives, ClosedInv, AcceptorTypeOK
  <2>4. QED BY <2>1, <2>2, <2>3 DEF AcceptorInv
<1>11. CASE AcceptFails
  <2>1. AcceptorTypeOK' BY <1>11, AcceptorAssumption DEF AcceptFails, AcceptorTypeOK
  <2>2. ChainInv'
    <3>1. Busy(Owner)' = Busy(Owner) /\ Busy(Io)' = Busy(Io)
      BY <1>11 DEF AcceptFails, Busy
    <3>2. QED BY <1>11, <1>a, <3>1 DEF AcceptFails, ChainInv
  <2>3. ClosedInv' BY <1>11 DEF AcceptFails, ClosedInv, AcceptorTypeOK
  <2>4. QED BY <2>1, <2>2, <2>3 DEF AcceptorInv
<1>12. CASE UNCHANGED acceptorVars
  BY <1>12 DEF acceptorVars, AcceptorInv, AcceptorTypeOK, ChainInv, Busy, ClosedInv
<1>13. QED
  BY <1>1, <1>2, <1>3, <1>4, <1>5, <1>6, <1>7, <1>8, <1>9, <1>10, <1>11, <1>12
  DEF AcceptorNext, DoAccept, Handler

(* The members, the threads and the counts of an acceptor keep their types. *)
THEOREM AcceptorTypeCorrect == AcceptorSpec => []AcceptorTypeOK
<1>1. AcceptorInv => AcceptorTypeOK BY DEF AcceptorInv
<1>2. QED BY InitAcceptor, NextAcceptor, <1>1, PTL DEF AcceptorSpec

(* A running acceptor listens as long as fewer accepts have failed and     *)
(* session factories thrown than there were Starts, however Start, Stop,   *)
(* the handlers and the runs of the io_context interleave.                 *)
THEOREM AcceptorListens == AcceptorSpec => []DeafOnlyAfterFailures
<1>1. AcceptorInv => DeafOnlyAfterFailures
  <2> SUFFICES ASSUME AcceptorTypeOK, ChainInv, isRunning, isOpen, errors + throws < starts,
                      pending = 0, accepted = 0
               PROVE  \E t \in AcceptorThreads : acceptorPc[t] \in {"check", "accept"}
    BY DEF AcceptorInv, DeafOnlyAfterFailures, AcceptorTypeOK
  <2>1. Busy(Owner) + Busy(Io) + errors + throws = starts
    BY AcceptorAssumption DEF ChainInv, AcceptorTypeOK, Busy
  <2>2. Busy(Owner) = 1 \/ Busy(Io) = 1
    BY <2>1, AcceptorAssumption DEF Busy, AcceptorTypeOK
  <2>3. QED BY <2>2 DEF Busy, AcceptorThreads
<1>2. QED BY InitAcceptor, NextAcceptor, <1>1, PTL DEF AcceptorSpec

(* After Stop has closed the acceptor no more sessions are made than       *)
(* accepts had completed by then.                                          *)
THEOREM AcceptorLateSessions == AcceptorSpec => []LateSessionsBounded
<1>1. AcceptorInv => LateSessionsBounded
  BY DEF AcceptorInv, ClosedInv, LateSessionsBounded, AcceptorTypeOK
<1>2. QED BY InitAcceptor, NextAcceptor, <1>1, PTL DEF AcceptorSpec

-----------------------------------------------------------------------------
(***************************************************************************)
(* For every number of threads, sessions and calls: the session manager    *)
(* keeps its types, and its calls, locks and loops implement the directory *)
(* in which every call takes effect at once.                               *)
(*                                                                         *)
(* The argument is mutual exclusion: LockInv says that the thread past its *)
(* lock is the holder of the mutex, so there is one at most, and the map   *)
(* that WalkInv compares with what a FuncToAll has passed on cannot change *)
(* under it.                                                               *)
(***************************************************************************)

IInv == TypeOK /\ LockInv /\ CallInv /\ WalkInv

Locked == {"body", "loop", "func", "relock"}

USE ManagerAssumption

(* What a method's name says about its argument. *)
LEMMA MethodArgument ==
    ASSUME NEW m \in Methods
    PROVE  /\ m[1] \in {"Add", "Remove"} => m[2] \in Sessions
           /\ m[1] = "Find" => m[2] \in Ids
           /\ m[1] = "FuncToAll" => m = <<"FuncToAll">>
<1>1. CASE m \in {"Add", "Remove"} \X Sessions
  BY <1>1
<1>2. CASE m \in {"Find"} \X Ids
  BY <1>2
<1>3. CASE m = <<"FuncToAll">>
  BY <1>3
<1> QED BY <1>1, <1>2, <1>3 DEF Methods

(* A thread in the body of a method has a call of that name. *)
LEMMA InBody ==
    ASSUME IInv, NEW t \in Threads, NEW method, In(t, method)
    PROVE  /\ call[t] \in Methods /\ call[t][1] = method
           /\ pc[t] = "body" /\ mutex = t
           /\ \A u \in Threads \ {t} : pc[u] \notin Locked
BY DEF IInv, TypeOK, LockInv, CallInv, In, Locked

(* So has a thread in the loop of FuncToAll. *)
LEMMA InLoop ==
    ASSUME IInv, NEW t \in Threads, pc[t] \in {"loop", "func", "relock"}
    PROVE  /\ mutex = t
           /\ \A u \in Threads \ {t} : pc[u] \notin Locked
BY DEF IInv, TypeOK, LockInv, Locked

LEMMA InitIInv == Init => IInv
<1> SUFFICES ASSUME Init PROVE IInv
  OBVIOUS
<1>1. TypeOK
  <2>1. call \in [Threads -> Methods \cup {Idle}]
    BY DEF Init
  <2> QED BY <2>1 DEF Init, TypeOK
<1>2. LockInv
  BY DEF Init, LockInv
<1>3. CallInv
  BY DEF Init, CallInv
<1>4. WalkInv
  BY DEF Init, WalkInv
<1> QED BY <1>1, <1>2, <1>3, <1>4 DEF IInv

(* A call that ends gives the mutex back and leaves the other threads      *)
(* where they were.                                                        *)
LEMMA ReturnsIInv ==
    ASSUME IInv, NEW t \in Threads, NEW S \in SUBSET Sessions, Returns(t, S),
           pc[t] \in Locked,
           sessions' \in [Ids -> Sessions \cup {NoSession}],
           UNCHANGED <<left, seen>>
    PROVE  IInv'
<1>0. /\ mutex = t
      /\ \A u \in Threads \ {t} : pc[u] \notin Locked
      /\ pc \in [Threads -> {"idle", "lock", "body", "loop", "func", "relock"}]
  BY DEF IInv, TypeOK, LockInv, Locked
<1>1. TypeOK'
  <2>1. call' \in [Threads -> Methods \cup {Idle}]
    BY DEF IInv, TypeOK, Returns
  <2>2. returned' \in [Threads -> SUBSET Sessions]
    BY DEF IInv, TypeOK, Returns
  <2> QED BY <2>1, <2>2 DEF IInv, TypeOK, Returns
<1>2. LockInv'
  BY <1>0 DEF Returns, LockInv, Locked
<1>3. CallInv'
  BY <1>0 DEF IInv, TypeOK, Returns, CallInv
<1>4. WalkInv'
  BY <1>0 DEF Returns, WalkInv, Locked
<1> QED BY <1>1, <1>2, <1>3, <1>4 DEF IInv

(* Every step preserves the invariant. *)
LEMMA NextIInv == IInv /\ [Next]_vars => IInv'
<1> SUFFICES ASSUME IInv, [Next]_vars PROVE IInv'
  OBVIOUS
<1>1. ASSUME NEW t \in Threads, NEW m \in Methods, Call(t, m) PROVE IInv'
  <2>1. TypeOK'
    <3>1. call' \in [Threads -> Methods \cup {Idle}]
      BY <1>1 DEF IInv, TypeOK, Call
    <3>2. calls' \in [Threads -> 0..MaxCalls]
      BY <1>1 DEF IInv, TypeOK, Call
    <3> QED BY <1>1, <3>1, <3>2 DEF IInv, TypeOK, Call
  <2>2. LockInv'
    BY <1>1 DEF IInv, TypeOK, LockInv, Call
  <2>3. CallInv'
    BY <1>1 DEF IInv, TypeOK, CallInv, Call
  <2>4. WalkInv'
    BY <1>1 DEF IInv, TypeOK, WalkInv, Call
  <2> QED BY <2>1, <2>2, <2>3, <2>4 DEF IInv
<1>2. ASSUME NEW t \in Threads, Lock(t) PROVE IInv'
  <2>1. TypeOK'
    BY <1>2 DEF IInv, TypeOK, Lock
  <2>2. LockInv'
    BY <1>2 DEF IInv, TypeOK, LockInv, Lock
  <2>3. CallInv'
    BY <1>2 DEF IInv, TypeOK, CallInv, Lock
  <2>4. WalkInv'
    BY <1>2 DEF IInv, TypeOK, WalkInv, Lock
  <2> QED BY <2>1, <2>2, <2>3, <2>4 DEF IInv
<1>3. ASSUME NEW t \in Threads, Add(t) PROVE IInv'
  <2>1. call[t][2] \in Sessions /\ pc[t] \in Locked
    BY <1>3, InBody, MethodArgument DEF Add, Locked
  <2>2. sessions' \in [Ids -> Sessions \cup {NoSession}]
    BY <1>3, <2>1 DEF IInv, TypeOK, Add
  <2> QED BY <1>3, <2>1, <2>2, ReturnsIInv DEF Add
<1>4. ASSUME NEW t \in Threads, Remove(t) PROVE IInv'
  <2>1. pc[t] \in Locked
    BY <1>4 DEF Remove, In, Locked
  <2>2. sessions' \in [Ids -> Sessions \cup {NoSession}]
    BY <1>4 DEF IInv, TypeOK, Remove
  <2> QED BY <1>4, <2>1, <2>2, ReturnsIInv DEF Remove
<1>5. ASSUME NEW t \in Threads, FindBySessionId(t) PROVE IInv'
  <2>1. call[t][2] \in Ids /\ pc[t] \in Locked
    BY <1>5, InBody, MethodArgument DEF FindBySessionId, Locked
  <2>2. {sessions[call[t][2]]} \ {NoSession} \in SUBSET Sessions
    BY <2>1 DEF IInv, TypeOK
  <2>3. sessions' \in [Ids -> Sessions \cup {NoSession}]
    BY <1>5 DEF IInv, TypeOK, FindBySessionId
  <2> QED BY <1>5, <2>1, <2>2, <2>3, ReturnsIInv DEF FindBySessionId
<1>6. ASSUME NEW t \in Threads, FuncToAll(t) PROVE IInv'
  <2>0. /\ call[t] = <<"FuncToAll">> /\ mutex = t
        /\ \A u \in Threads \ {t} : pc[u] \notin Locked
    BY <1>6, InBody, MethodArgument DEF FuncToAll
  <2>1. TypeOK'
    <3>1. left' \in [Threads -> SUBSET Ids]
      BY <1>6 DEF IInv, TypeOK, FuncToAll
    <3> QED BY <1>6, <3>1 DEF IInv, TypeOK, FuncToAll
  <2>2. LockInv'
    BY <1>6, <2>0 DEF IInv, TypeOK, LockInv, FuncToAll, In
  <2>3. CallInv'
    BY <1>6, <2>0 DEF IInv, TypeOK, CallInv, FuncToAll
  <2>4. WalkInv'
    <3> SUFFICES ASSUME NEW u \in Threads, pc'[u] \in {"loop", "func", "relock"}
                 PROVE  /\ \A i \in left'[u] : sessions[i] # NoSession
                        /\ seen'[u] = {sessions[i] : i \in Ids \ left'[u]} \ {NoSession}
      BY <1>6 DEF WalkInv, FuncToAll
    <3>1. u = t
      BY <1>6, <2>0 DEF IInv, TypeOK, FuncToAll, Locked
    <3>2. /\ left'[t] = {i \in Ids : sessions[i] # NoSession}
          /\ seen'[t] = {}
      BY <1>6 DEF IInv, TypeOK, FuncToAll
    <3> QED BY <3>1, <3>2
  <2> QED BY <2>1, <2>2, <2>3, <2>4 DEF IInv
<1>7. ASSUME NEW t \in Threads, NEW i \in Ids, FuncCalled(t, i) PROVE IInv'
  <2>0. /\ mutex = t /\ pc[t] = "loop" /\ i \in left[t]
        /\ \A u \in Threads \ {t} : pc[u] \notin Locked
        /\ \A j \in left[t] : sessions[j] # NoSession
        /\ seen[t] = {sessions[j] : j \in Ids \ left[t]} \ {NoSession}
    BY <1>7, InLoop DEF IInv, WalkInv, FuncCalled
  <2>1. TypeOK'
    <3>1. left' \in [Threads -> SUBSET Ids]
      BY <1>7 DEF IInv, TypeOK, FuncCalled
    <3>2. seen' \in [Threads -> SUBSET Sessions]
      BY <1>7, <2>0 DEF IInv, TypeOK, FuncCalled
    <3> QED BY <1>7, <3>1, <3>2 DEF IInv, TypeOK, FuncCalled
  <2>2. LockInv'
    BY <1>7 DEF IInv, TypeOK, LockInv, FuncCalled
  <2>3. CallInv'
    BY <1>7 DEF IInv, TypeOK, CallInv, FuncCalled
  <2>4. WalkInv'
    <3> SUFFICES ASSUME NEW u \in Threads, pc'[u] \in {"loop", "func", "relock"}
                 PROVE  /\ \A j \in left'[u] : sessions[j] # NoSession
                        /\ seen'[u] = {sessions[j] : j \in Ids \ left'[u]} \ {NoSession}
      BY <1>7 DEF WalkInv, FuncCalled
    <3>1. u = t
      BY <1>7, <2>0 DEF IInv, TypeOK, FuncCalled, Locked
    <3>2. /\ left'[t] = left[t] \ {i}
          /\ seen'[t] = seen[t] \cup {sessions[i]}
      BY <1>7 DEF IInv, TypeOK, FuncCalled
    <3>3. sessions[i] # NoSession
      BY <2>0
    <3> QED BY <2>0, <3>1, <3>2, <3>3
  <2> QED BY <2>1, <2>2, <2>3, <2>4 DEF IInv
<1>8. ASSUME NEW t \in Threads, FuncReturns(t) \/ FuncCallsBack(t) PROVE IInv'
  <2>1. TypeOK'
    BY <1>8 DEF IInv, TypeOK, FuncReturns, FuncCallsBack
  <2>2. LockInv'
    BY <1>8 DEF IInv, TypeOK, LockInv, FuncReturns, FuncCallsBack
  <2>3. CallInv'
    BY <1>8 DEF IInv, TypeOK, CallInv, FuncReturns, FuncCallsBack
  <2>4. WalkInv'
    BY <1>8 DEF IInv, TypeOK, WalkInv, FuncReturns, FuncCallsBack
  <2> QED BY <2>1, <2>2, <2>3, <2>4 DEF IInv
<1>9. ASSUME NEW t \in Threads, FuncThrows(t) \/ RelockThrows(t) PROVE IInv'
  <2>1. Returns(t, returned[t]) /\ pc[t] \in Locked /\ UNCHANGED <<sessions, left, seen>>
    BY <1>9 DEF FuncThrows, RelockThrows, Locked
  <2>2. returned[t] \in SUBSET Sessions /\ sessions \in [Ids -> Sessions \cup {NoSession}]
    BY DEF IInv, TypeOK
  <2> QED BY <2>1, <2>2, ReturnsIInv
<1>10. ASSUME NEW t \in Threads, FuncToAllReturns(t) PROVE IInv'
  <2>1. Returns(t, seen[t]) /\ pc[t] \in Locked /\ UNCHANGED <<sessions, left, seen>>
    BY <1>10 DEF FuncToAllReturns, Locked
  <2>2. seen[t] \in SUBSET Sessions /\ sessions \in [Ids -> Sessions \cup {NoSession}]
    BY DEF IInv, TypeOK
  <2> QED BY <2>1, <2>2, ReturnsIInv
<1>11. CASE UNCHANGED vars
  BY <1>11 DEF vars, IInv, TypeOK, LockInv, CallInv, WalkInv
<1> QED
  BY <1>1, <1>2, <1>3, <1>4, <1>5, <1>6, <1>7, <1>8, <1>9, <1>10, <1>11
  DEF Next, Proceeds

(* What the proofs below rest on holds of every behaviour. *)
LEMMA Invariant == Spec => []IInv
BY InitIInv, NextIInv, PTL DEF Spec

(* Every variable of the manager and of the threads that call it keeps its *)
(* type; in particular what FuncToAll has passed on are sessions.          *)
THEOREM TypeCorrect == Spec => []TypeOK
BY Invariant, PTL DEF IInv

(* A thread past std::lock_guard holds _mutex, so no two are in the bodies *)
(* of methods or in callbacks at a time.                                   *)
THEOREM MutualExclusion ==
    Spec => []\A t, u \in Threads : pc[t] \in Locked /\ pc[u] \in Locked => t = u
<1>1. IInv => \A t, u \in Threads : pc[t] \in Locked /\ pc[u] \in Locked => t = u
  BY DEF IInv, LockInv, Locked
<1> QED BY <1>1, Invariant, PTL

(* A step of the manager is a step of the directory or none. *)
LEMMA StepSimulation == IInv /\ [Next]_vars => [Directory!Next]_(Directory!vars)
<1> SUFFICES ASSUME IInv, [Next]_vars PROVE [Directory!Next]_(Directory!vars)
  OBVIOUS
<1> USE DEF Directory!vars
<1>1. ASSUME NEW t \in Threads, Add(t) PROVE Directory!Next
  <2>1. call[t][2] \in Sessions
    BY <1>1, InBody, MethodArgument DEF Add
  <2>2. Directory!Add(t, call[t][2])
    BY <1>1 DEF Add, Returns, Directory!Add, Directory!Answers
  <2> QED BY <2>1, <2>2 DEF Directory!Next
<1>2. ASSUME NEW t \in Threads, Remove(t) PROVE Directory!Next
  <2>1. call[t][2] \in Sessions
    BY <1>2, InBody, MethodArgument DEF Remove
  <2>2. Directory!Remove(t, call[t][2])
    BY <1>2 DEF Remove, Returns, Directory!Remove, Directory!Answers
  <2> QED BY <2>1, <2>2 DEF Directory!Next
<1>3. ASSUME NEW t \in Threads, FindBySessionId(t) PROVE Directory!Next
  <2>1. call[t][2] \in Ids
    BY <1>3, InBody, MethodArgument DEF FindBySessionId
  <2>2. Directory!Find(t, call[t][2])
    BY <1>3 DEF FindBySessionId, Returns, Directory!Find, Directory!Answers
  <2> QED BY <2>1, <2>2 DEF Directory!Next
<1>4. ASSUME NEW t \in Threads, FuncToAllReturns(t) PROVE Directory!Next
  <2>1. seen[t] = {sessions[i] : i \in Ids} \ {NoSession}
    <3>1. /\ left[t] = {}
          /\ seen[t] = {sessions[i] : i \in Ids \ left[t]} \ {NoSession}
      BY <1>4 DEF IInv, WalkInv, FuncToAllReturns
    <3> QED BY <3>1
  <2>2. seen[t] = Directory!Listed(sessions)
    BY <2>1 DEF IInv, TypeOK, Directory!Listed, Directory!Range
  <2>3. Directory!Walk(t)
    BY <1>4, <2>2 DEF FuncToAllReturns, Returns, Directory!Walk, Directory!Answers
  <2> QED BY <2>3 DEF Directory!Next
<1>5. ASSUME NEW t \in Threads, FuncThrows(t) \/ RelockThrows(t)
      PROVE  UNCHANGED <<sessions, returned>>
  BY <1>5 DEF IInv, TypeOK, FuncThrows, RelockThrows, Returns
<1>6. ASSUME NEW t \in Threads, NEW m \in Methods, Call(t, m)
      PROVE  UNCHANGED <<sessions, returned>>
  BY <1>6 DEF Call
<1>7. ASSUME NEW t \in Threads, NEW i \in Ids, FuncCalled(t, i)
      PROVE  UNCHANGED <<sessions, returned>>
  BY <1>7 DEF FuncCalled
<1>8. ASSUME NEW t \in Threads,
             Lock(t) \/ FuncToAll(t) \/ FuncReturns(t) \/ FuncCallsBack(t)
      PROVE  UNCHANGED <<sessions, returned>>
  BY <1>8 DEF Lock, FuncToAll, FuncReturns, FuncCallsBack
<1>9. CASE UNCHANGED vars
  BY <1>9 DEF vars
<1> QED
  BY <1>1, <1>2, <1>3, <1>4, <1>5, <1>6, <1>7, <1>8, <1>9 DEF Next, Proceeds

(* SessionManager implements SessionDirectory: Add, Remove and             *)
(* FindBySessionId take effect at once, and a FuncToAll that returns has   *)
(* passed on the sessions of one moment, for any number of threads.        *)
THEOREM Refinement == Spec => ImplementsDirectory
<1>1. Init => Directory!Init
  BY DEF Init, Directory!Init
<1>2. IInv /\ [Next]_vars => [Directory!Next]_(Directory!vars)
  BY StepSimulation
<1> QED BY <1>1, <1>2, Invariant, PTL DEF Spec, ImplementsDirectory, Directory!Spec
=============================================================================
