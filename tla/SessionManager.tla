---------------------------- MODULE SessionManager ----------------------------
(***************************************************************************)
(* core::SessionManager: threads call Add, Remove, FindBySessionId and     *)
(* FuncToAll on one map, each under _mutex.  Taking the mutex is a step,   *)
(* the rest of a call with the unlock at its end another; FuncToAll takes  *)
(* one step per session and runs its callback, which may call the manager  *)
(* again, with the mutex held.  Sessions may share an identifier: nothing  *)
(* in the repository makes identifiers unique.                             *)
(***************************************************************************)
EXTENDS Integers, Functions

CONSTANTS
    Threads,     \* threads that call the manager
    Sessions,    \* sessions
    Ids,         \* session identifiers
    IdOf,        \* SessionBase::GetSessionId
    MaxCalls,    \* bound: calls each thread makes
    NoSession,   \* a null shared_ptr, an identifier that is not in the map
    Free         \* no owner of the mutex

ASSUME ManagerAssumption ==
    /\ IdOf \in [Sessions -> Ids]
    /\ MaxCalls \in Nat
    /\ NoSession \notin Sessions
    /\ Free \notin Threads

VARIABLES
    mutex,       \* _mutex: the thread that holds it
    sessions,    \* _sessions
    call,        \* the call each thread is in: the method and its argument
    pc,          \* where it is in it
    left,        \* the identifiers its FuncToAll has not come to
    seen,        \* the sessions its FuncToAll has passed to the callback
    returned,    \* the sessions its last call returned or passed on
    calls        \* what the bound counts

vars == <<mutex, sessions, call, pc, left, seen, returned, calls>>

Methods ==
    ({"Add", "Remove"} \X Sessions) \cup ({"Find"} \X Ids) \cup {<<"FuncToAll">>}
Idle == <<"Idle">>

Init ==
    /\ mutex = Free
    /\ sessions = [i \in Ids |-> NoSession]
    /\ call = [t \in Threads |-> Idle]
    /\ pc = [t \in Threads |-> "idle"]
    /\ left = [t \in Threads |-> {}]
    /\ seen = [t \in Threads |-> {}]
    /\ returned = [t \in Threads |-> {}]
    /\ calls = [t \in Threads |-> 0]

-----------------------------------------------------------------------------

Call(t, m) ==
    /\ pc[t] = "idle"
    /\ calls[t] < MaxCalls
    /\ calls' = [calls EXCEPT ![t] = @ + 1]
    /\ call' = [call EXCEPT ![t] = m]
    /\ pc' = [pc EXCEPT ![t] = "lock"]
    /\ UNCHANGED <<mutex, sessions, left, seen, returned>>

(* Mutant: the const methods do not lock. *)
Lock_WritersOnly(t) ==
    /\ pc[t] = "lock"
    /\ mutex = Free \/ call[t][1] \in {"Find", "FuncToAll"}
    /\ mutex' = t
    /\ pc' = [pc EXCEPT ![t] = "body"]
    /\ UNCHANGED <<sessions, call, left, seen, returned, calls>>

(* std::lock_guard lock(_mutex) *)
Lock(t) ==
    /\ pc[t] = "lock"
    /\ mutex = Free
    /\ mutex' = t
    /\ pc' = [pc EXCEPT ![t] = "body"]
    /\ UNCHANGED <<sessions, call, left, seen, returned, calls>>

(* Thread t is in the body of the method. *)
In(t, method) == pc[t] = "body" /\ call[t][1] = method

(* The call of t ends with S, and its lock_guard is destroyed. *)
Returns(t, S) ==
    /\ mutex' = Free
    /\ returned' = [returned EXCEPT ![t] = S]
    /\ pc' = [pc EXCEPT ![t] = "idle"]
    /\ call' = [call EXCEPT ![t] = Idle]
    /\ UNCHANGED calls

(* _sessions[session->GetSessionId()] = session *)
Add(t) ==
    /\ In(t, "Add")
    /\ sessions' = [sessions EXCEPT ![IdOf[call[t][2]]] = call[t][2]]
    /\ Returns(t, {})
    /\ UNCHANGED <<left, seen>>

(* _sessions.erase(session->GetSessionId()): whichever session is there. *)
Remove(t) ==
    /\ In(t, "Remove")
    /\ sessions' = [sessions EXCEPT ![IdOf[call[t][2]]] = NoSession]
    /\ Returns(t, {})
    /\ UNCHANGED <<left, seen>>

FindBySessionId(t) ==
    /\ In(t, "Find")
    /\ Returns(t, {sessions[call[t][2]]} \ {NoSession})
    /\ UNCHANGED <<sessions, left, seen>>

-----------------------------------------------------------------------------
(* FuncToAll *)

(* The loop begins. *)
FuncToAll(t) ==
    /\ In(t, "FuncToAll")
    /\ left' = [left EXCEPT ![t] = {i \in Ids : sessions[i] # NoSession}]
    /\ seen' = [seen EXCEPT ![t] = {}]
    /\ pc' = [pc EXCEPT ![t] = "loop"]
    /\ UNCHANGED <<mutex, sessions, call, returned, calls>>

(* Mutant: the mutex is released while the callback runs. *)
FuncCalled_Unlocked(t, i) ==
    /\ pc[t] = "loop" /\ i \in left[t]
    /\ left' = [left EXCEPT ![t] = @ \ {i}]
    /\ seen' = [seen EXCEPT ![t] = @ \cup {sessions[i]}]
    /\ pc' = [pc EXCEPT ![t] = "func"]
    /\ mutex' = Free
    /\ UNCHANGED <<sessions, call, returned, calls>>

(* func(snd): the map's order is arbitrary. *)
FuncCalled(t, i) ==
    /\ pc[t] = "loop" /\ i \in left[t]
    /\ left' = [left EXCEPT ![t] = @ \ {i}]
    /\ seen' = [seen EXCEPT ![t] = @ \cup {sessions[i]}]
    /\ pc' = [pc EXCEPT ![t] = "func"]
    /\ UNCHANGED <<mutex, sessions, call, returned, calls>>

FuncReturns(t) ==
    /\ pc[t] = "func"
    /\ pc' = [pc EXCEPT ![t] = "loop"]
    /\ UNCHANGED <<mutex, sessions, call, left, seen, returned, calls>>

(* Mutant: lock and unlock by hand, so that the exception leaves it locked. *)
FuncThrows_Locked(t) ==
    /\ pc[t] = "func"
    /\ pc' = [pc EXCEPT ![t] = "idle"]
    /\ call' = [call EXCEPT ![t] = Idle]
    /\ UNCHANGED <<mutex, sessions, left, seen, returned, calls>>

(* The callback throws, and the exception leaves FuncToAll. *)
FuncThrows(t) ==
    /\ pc[t] = "func"
    /\ Returns(t, returned[t])
    /\ UNCHANGED <<sessions, left, seen>>

(* The callback calls a method of the manager, which locks the mutex that  *)
(* its own thread holds: undefined for a std::mutex.  The implementations  *)
(* block for ever or throw std::system_error.                              *)
FuncCallsBack(t) ==
    /\ pc[t] = "func"
    /\ pc' = [pc EXCEPT ![t] = "relock"]
    /\ UNCHANGED <<mutex, sessions, call, left, seen, returned, calls>>

RelockThrows(t) ==
    /\ pc[t] = "relock"
    /\ Returns(t, returned[t])
    /\ UNCHANGED <<sessions, left, seen>>

FuncToAllReturns(t) ==
    /\ pc[t] = "loop" /\ left[t] = {}
    /\ Returns(t, seen[t])
    /\ UNCHANGED <<sessions, left, seen>>

-----------------------------------------------------------------------------

(* The steps that a thread in a call takes by itself. *)
Proceeds(t) ==
    \/ Lock(t) \/ Add(t) \/ Remove(t) \/ FindBySessionId(t)
    \/ FuncToAll(t) \/ (\E i \in Ids : FuncCalled(t, i))
    \/ FuncReturns(t) \/ FuncThrows(t) \/ FuncToAllReturns(t)

Next ==
    \E t \in Threads :
        \/ \E m \in Methods : Call(t, m)
        \/ Proceeds(t) \/ FuncCallsBack(t) \/ RelockThrows(t)

Spec == Init /\ [][Next]_vars

(* A thread in a call runs when it can; the callback returns or throws. *)
FairSpec == Spec /\ \A t \in Threads : WF_vars(Proceeds(t))

-----------------------------------------------------------------------------

(* Every variable of the manager and its callers has its type. *)
TypeOK ==
    /\ mutex \in Threads \cup {Free}
    /\ sessions \in [Ids -> Sessions \cup {NoSession}]
    /\ call \in [Threads -> Methods \cup {Idle}]
    /\ pc \in [Threads -> {"idle", "lock", "body", "loop", "func", "relock"}]
    /\ left \in [Threads -> SUBSET Ids]
    /\ seen \in [Threads -> SUBSET Sessions]
    /\ returned \in [Threads -> SUBSET Sessions]
    /\ calls \in [Threads -> 0..MaxCalls]

Directory == INSTANCE SessionDirectory
    WITH directory <- sessions, answer <- returned

(* Calls on any threads take effect one at a time, and what a FuncToAll    *)
(* passes to its callback, session by session, is the map of one moment:   *)
(* none registered throughout is left out, none gone before is passed on.  *)
ImplementsDirectory == Directory!Spec

(* Every call returns, whatever the others do and callbacks throw, unless  *)
(* a callback called the manager again and blocks on its own mutex.        *)
CallsReturn ==
    \A t \in Threads :
        pc[t] = "lock" ~> (pc[t] = "idle" \/ \E u \in Threads : pc[u] = "relock")

-----------------------------------------------------------------------------
(* What the proof of the refinement rests on. *)

(* A thread is past its lock exactly while it holds the mutex, ... *)
LockInv ==
    \A t \in Threads :
        mutex = t <=> pc[t] \in {"body", "loop", "func", "relock"}

(* ... knows what it was called for, ... *)
CallInv ==
    \A t \in Threads :
        /\ pc[t] \in {"lock", "body"} => call[t] \in Methods
        /\ pc[t] \in {"loop", "func", "relock"} => call[t] = <<"FuncToAll">>

(* ... and its FuncToAll has passed on what is in the map, but for what it *)
(* has yet to come to.                                                     *)
WalkInv ==
    \A t \in Threads : pc[t] \in {"loop", "func", "relock"} =>
        /\ \A i \in left[t] : sessions[i] # NoSession
        /\ seen[t] = {sessions[i] : i \in Ids \ left[t]} \ {NoSession}
=============================================================================
