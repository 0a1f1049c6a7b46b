---------------------------- MODULE HandlerManager ----------------------------
(***************************************************************************)
(* game::HandlerManager in the life of the program: main registers the     *)
(* session manager and the handler manager, starts the worker, serves, and *)
(* returns, which destroys everything; the worker runs ProcessPacket; the  *)
(* network makes, registers, removes and drops sessions and submits their  *)
(* packets, between RegisterService and the return of main, where main     *)
(* has nothing yet at this commit.                                         *)
(*                                                                         *)
(* The execute queue is the service of PacketService and the session       *)
(* manager the directory of SessionDirectory, which PacketExecuteQueue and *)
(* SessionManager implement.  Packet <<s, n>> is the n-th packet that the  *)
(* connection of session s submits; it carries the identifier of s.        *)
(***************************************************************************)
EXTENDS Integers, Sequences, Functions

CONSTANTS
    Sessions, Ids, IdOf, NoSession,   \* as in SessionDirectory
    MaxPackets, NoItem,               \* as in PacketService
    EchoItems                         \* the packets whose packetId is REQ_ECHO

VARIABLES
    phase, pending, busy, sent, executed, gone, due,   \* _executeQueue
    directory, answer,   \* the session manager; answer[Worker]: local session
    mainPc,        \* where main is
    holders,       \* who holds a shared_ptr to each service
    members,       \* the members of the handler manager that exist
    workerPc,      \* where the worker is in ProcessPacket
    owners,        \* who holds a shared_ptr to each session
    born,          \* the sessions that were made
    displaced,     \* history: those removed or replaced under their identifier
    handled        \* history: which session the handler got with which packet

queueVars == <<phase, pending, busy, sent, executed, gone, due>>
managerVars == <<directory, answer>>
mainVars == <<mainPc, holders, members>>
sessionVars == <<owners, born, displaced>>
vars == <<queueVars, managerVars, mainVars, workerPc, sessionVars, handled>>

Worker == "worker"
Network == "network"
Services == {"SessionManager", "HandlerManager"}
Members == {"_executeQueue", "_handlers", "_sessionManager"}
Items == Sessions \X (1..MaxPackets)

ASSUME HandlerAssumption ==
    /\ IdOf \in [Sessions -> Ids]
    /\ NoSession \notin Sessions
    /\ MaxPackets \in Nat
    /\ NoItem \notin Items
    /\ EchoItems \subseteq Items

Queue == INSTANCE PacketService WITH Producers <- Sessions
Manager == INSTANCE SessionDirectory WITH Threads <- {Worker, Network}

Init ==
    /\ Queue!Init
    /\ Manager!Init
    /\ mainPc = "register"
    /\ holders = [o \in Services |-> {}]
    /\ members = {}
    /\ workerPc = "idle"
    /\ owners = [s \in Sessions |-> {}]
    /\ born = {} /\ displaced = {} /\ handled = {}

-----------------------------------------------------------------------------
(* main *)

(* RegisterService up to Start: both services are made and registered, the *)
(* constructor of HandlerManager fills _handlers and sets the processor.   *)
RegisterService ==
    /\ mainPc = "register"
    /\ mainPc' = "start"
    /\ holders' = [SessionManager |-> {"local", "registry", "HandlerManager"},
                   HandlerManager |-> {"local", "registry"}]
    /\ members' = Members
    /\ UNCHANGED <<queueVars, managerVars, workerPc, sessionVars, handled>>

Start ==
    /\ mainPc = "start"
    /\ mainPc' = "started"
    /\ Queue!Begin
    /\ UNCHANGED <<managerVars, holders, members, workerPc, sessionVars, handled>>

(* RegisterService returns: its local pointers go. *)
RegisterServiceReturns ==
    /\ mainPc = "started"
    /\ mainPc' = "serve"
    /\ holders' = [o \in Services |-> holders[o] \ {"local"}]
    /\ UNCHANGED <<queueVars, managerVars, members, workerPc, sessionVars, handled>>

(* return 0 *)
MainReturns ==
    /\ mainPc = "serve"
    /\ mainPc' = "destroy"
    /\ UNCHANGED <<queueVars, managerVars, holders, members, workerPc, sessionVars,
                   handled>>

(* The manager's map lets go of the sessions of S. *)
ManagerLets(S) ==
    owners' = [s \in Sessions |-> owners[s] \ (IF s \in S THEN {"manager"} ELSE {})]

(* h lets go of the session manager, which takes its map with it. *)
LetsGo(h) ==
    /\ holders' = [holders EXCEPT !["SessionManager"] = @ \ {h}]
    /\ IF holders["SessionManager"] = {h} THEN ManagerLets(Sessions)
       ELSE UNCHANGED owners

(* The map of ~ServiceRegistry is unordered: either service may go first.  *)
(* The registry is the last holder of the handler manager.                 *)
RegistryDropsSessionManager ==
    /\ mainPc = "destroy"
    /\ "registry" \in holders["SessionManager"]
    /\ LetsGo("registry")
    /\ UNCHANGED <<queueVars, managerVars, mainPc, members, workerPc, born,
                   displaced, handled>>

RegistryDropsHandlerManager ==
    /\ mainPc = "destroy"
    /\ "registry" \in holders["HandlerManager"]
    /\ holders' = [holders EXCEPT !["HandlerManager"] = @ \ {"registry"}]
    /\ mainPc' = "stop"
    /\ UNCHANGED <<queueVars, managerVars, members, workerPc, sessionVars, handled>>

(* Mutant: the destructor leaves the stop to the one of the queue. *)
HandlerManagerStops_Missing ==
    /\ mainPc = "stop"
    /\ mainPc' = "members"
    /\ UNCHANGED <<queueVars, managerVars, holders, members, workerPc, sessionVars,
                   handled>>

(* Mutant: the worker is joined without having been told to stop. *)
HandlerManagerStops_Untold ==
    /\ mainPc = "stop"
    /\ mainPc' = "join"
    /\ UNCHANGED <<queueVars, managerVars, holders, members, workerPc, sessionVars,
                   handled>>

(* ~HandlerManager: Stop is called, ... *)
HandlerManagerStops ==
    /\ mainPc = "stop"
    /\ mainPc' = "join"
    /\ Queue!RequestStop
    /\ UNCHANGED <<managerVars, holders, members, workerPc, sessionVars, handled>>

(* Mutant: Stop waits for the packet in hand, not for those in the queue. *)
HandlerManagerJoins_Undrained ==
    /\ mainPc = "join"
    /\ mainPc' = "members"
    /\ busy = NoItem
    /\ phase' = "stopped"
    /\ UNCHANGED <<pending, busy, sent, executed, gone, due, managerVars, holders,
                   members, workerPc, sessionVars, handled>>

(* ... and returns when the worker has; ... *)
HandlerManagerJoins ==
    /\ mainPc = "join"
    /\ mainPc' = "members"
    /\ Queue!Halt
    /\ UNCHANGED <<managerVars, holders, members, workerPc, sessionVars, handled>>

(* ... the members go in the reverse of their order, _sessionManager and   *)
(* _handlers first, ...                                                    *)
MembersDestroyed ==
    /\ mainPc = "members"
    /\ mainPc' = "queue"
    /\ members' = {"_executeQueue"}
    /\ LetsGo("HandlerManager")
    /\ UNCHANGED <<queueVars, managerVars, workerPc, born, displaced, handled>>

(* ... and ~PacketExecuteQueue, whose Stop finds no thread to join. *)
QueueDestroyed ==
    /\ mainPc = "queue"
    /\ phase = "stopped"
    /\ mainPc' = "destroy"
    /\ members' = {}
    /\ UNCHANGED <<queueVars, managerVars, holders, workerPc, sessionVars, handled>>

MainDone ==
    /\ mainPc = "destroy"
    /\ \A o \in Services : "registry" \notin holders[o]
    /\ mainPc' = "done"
    /\ UNCHANGED <<queueVars, managerVars, holders, members, workerPc, sessionVars,
                   handled>>

-----------------------------------------------------------------------------
(* The worker: ProcessPacket, called for the packet in its hands. *)

WorkerTakes(p) ==
    /\ workerPc = "idle"
    /\ workerPc' = "find"
    /\ Queue!Take(p)
    /\ UNCHANGED <<managerVars, mainVars, sessionVars, handled>>

Sought == IdOf[busy[1]]

(* Mutant: the pointer that is found is not a shared_ptr. *)
ProcessPacketFinds_Raw ==
    /\ workerPc = "find"
    /\ Manager!Find(Worker, Sought)
    /\ workerPc' = IF directory[Sought] = NoSession THEN "return" ELSE "lookup"
    /\ UNCHANGED <<queueVars, mainVars, sessionVars, handled>>

(* Mutant: the session of the previous packet is kept and used again. *)
ProcessPacketFinds_Cached ==
    /\ workerPc = "find"
    /\ IF answer[Worker] # {} THEN UNCHANGED managerVars
       ELSE Manager!Find(Worker, Sought)
    /\ workerPc' = IF answer'[Worker] = {} THEN "return" ELSE "lookup"
    /\ owners' = [s \in Sessions |->
                     owners[s] \cup IF s \in answer'[Worker] THEN {Worker} ELSE {}]
    /\ UNCHANGED <<queueVars, mainVars, born, displaced, handled>>

(* _sessionManager->FindBySessionId(sessionId) *)
ProcessPacketFinds ==
    /\ workerPc = "find"
    /\ Manager!Find(Worker, Sought)
    /\ workerPc' = IF answer'[Worker] = {} THEN "return" ELSE "lookup"
    /\ owners' = [s \in Sessions |->
                     owners[s] \cup IF s \in answer'[Worker] THEN {Worker} ELSE {}]
    /\ UNCHANGED <<queueVars, mainVars, born, displaced, handled>>

(* Mutant: _handlers[packetId], whose empty function throws when called. *)
ProcessPacketLooksUp_Default ==
    /\ workerPc = "lookup"
    /\ workerPc' = IF busy \in EchoItems THEN "handle" ELSE "throw"
    /\ UNCHANGED <<queueVars, managerVars, mainVars, sessionVars, handled>>

(* _handlers.find(packetId) *)
ProcessPacketLooksUp ==
    /\ workerPc = "lookup"
    /\ workerPc' = IF busy \in EchoItems THEN "handle" ELSE "return"
    /\ UNCHANGED <<queueVars, managerVars, mainVars, sessionVars, handled>>

(* it->second( *session, payload, size): the echo handler builds a reply   *)
(* and returns, or throws; it does not use the session otherwise.          *)
ProcessPacketHandles ==
    /\ workerPc = "handle"
    /\ workerPc' = "return"
    /\ handled' = handled \cup {<<busy, s>> : s \in answer[Worker]}
    /\ UNCHANGED <<queueVars, managerVars, mainVars, sessionVars>>

(* The local session is released and the worker is done with the packet. *)
ProcessPacketReturns ==
    /\ workerPc = "return"
    /\ workerPc' = "idle"
    /\ Queue!Execute
    /\ owners' = [s \in Sessions |-> owners[s] \ {Worker}]
    /\ UNCHANGED <<managerVars, mainVars, born, displaced, handled>>

-----------------------------------------------------------------------------
(* The network, while main serves. *)

(* The sessions that leave the manager's map when s is added or removed. *)
Displaces(s) == {directory[IdOf[s]]} \cap Sessions

(* A connection makes session s and registers it. *)
Connect(s) ==
    /\ mainPc = "serve"
    /\ s \notin born
    /\ born' = born \cup {s}
    /\ Manager!Add(Network, s)
    /\ owners' = [t \in Sessions |->
           IF t = s THEN {"connection", "manager"}
           ELSE owners[t] \ (IF t \in Displaces(s) THEN {"manager"} ELSE {})]
    /\ displaced' = displaced \cup {t \in born : IdOf[t] = IdOf[s]}
    /\ UNCHANGED <<queueVars, mainVars, workerPc, handled>>

RemoveSession(s) ==
    /\ mainPc = "serve"
    /\ "connection" \in owners[s]
    /\ Manager!Remove(Network, s)
    /\ ManagerLets(Displaces(s))
    /\ displaced' = displaced \cup {t \in born : IdOf[t] = IdOf[s]}
    /\ UNCHANGED <<queueVars, mainVars, workerPc, born, handled>>

(* The connection drops its own pointer. *)
Release(s) ==
    /\ mainPc = "serve"
    /\ "connection" \in owners[s]
    /\ owners' = [owners EXCEPT ![s] = @ \ {"connection"}]
    /\ UNCHANGED <<queueVars, managerVars, mainVars, workerPc, born, displaced,
                   handled>>

(* The connection of s hands a packet to Enqueue; there may be no memory. *)
Submit(s) ==
    /\ mainPc = "serve"
    /\ "connection" \in owners[s]
    /\ Queue!Submit(s) \/ Queue!Refuse(s)
    /\ UNCHANGED <<managerVars, mainVars, workerPc, sessionVars, handled>>

-----------------------------------------------------------------------------

Main ==
    \/ RegisterService \/ Start \/ RegisterServiceReturns
    \/ RegistryDropsSessionManager \/ RegistryDropsHandlerManager
    \/ HandlerManagerStops \/ HandlerManagerJoins \/ MembersDestroyed
    \/ QueueDestroyed \/ MainDone

ProcessPacket ==
    \/ ProcessPacketFinds \/ ProcessPacketLooksUp
    \/ ProcessPacketHandles \/ ProcessPacketReturns

Next ==
    \/ Main \/ MainReturns \/ ProcessPacket
    \/ \E s \in Sessions :
           WorkerTakes(s) \/ Connect(s) \/ RemoveSession(s) \/ Release(s) \/ Submit(s)

Spec == Init /\ [][Next]_vars

(* Threads run, and a worker that was told to stop works the queue off, as *)
(* StopReturns of PacketExecuteQueue says.  Before that a packet may wait, *)
(* its notification lost.                                                  *)
Drains == phase = "stopping" /\ \E s \in Sessions : WorkerTakes(s)
FairSpec ==
    /\ Spec
    /\ WF_vars(Main) /\ WF_vars(ProcessPacket) /\ WF_vars(Drains)

-----------------------------------------------------------------------------

(* Every variable of the program has its type. *)
TypeOK ==
    /\ phase \in {"stopped", "running", "stopping"}
    /\ pending \in [Sessions -> Seq(1..MaxPackets)]
    /\ busy \in Items \cup {NoItem}
    /\ sent \in [Sessions -> 0..MaxPackets]
    /\ executed \in [Sessions -> Seq(1..MaxPackets)]
    /\ gone \in [Sessions -> SUBSET (1..MaxPackets)]
    /\ due \subseteq Items
    /\ directory \in [Ids -> Sessions \cup {NoSession}]
    /\ answer \in [{Worker, Network} -> SUBSET Sessions]
    /\ mainPc \in {"register", "start", "started", "serve", "destroy", "stop",
                   "join", "members", "queue", "done"}
    /\ holders \in [Services -> SUBSET {"local", "registry", "HandlerManager"}]
    /\ members \subseteq Members
    /\ workerPc \in {"idle", "find", "lookup", "handle", "return"}
    /\ owners \in [Sessions -> SUBSET {"connection", "manager", Worker}]
    /\ born \subseteq Sessions
    /\ displaced \subseteq Sessions
    /\ handled \subseteq Items \X Sessions

(* While the worker is in ProcessPacket the handlers, the pointer to the   *)
(* session manager, the session manager and the queue exist, in whichever  *)
(* order the registry drops the services: the destructor joins the worker  *)
(* before any member goes.                                                 *)
UsesLiveServices ==
    workerPc # "idle" => members = Members /\ holders["SessionManager"] # {}

(* The session the handler works on is not destroyed under it, although    *)
(* its connection may remove and drop it, or another session may take its  *)
(* place, between the lookup and the call.                                 *)
HandledSessionAlive ==
    workerPc \in {"lookup", "handle"} =>
        answer[Worker] # {} /\ \A s \in answer[Worker] : owners[s] # {}

(* A packet is handled once at most, and by a session with the identifier  *)
(* it carries: its own session, unless another shares the identifier.      *)
HandledByRightSession ==
    \A h \in handled :
        /\ IdOf[h[2]] = IdOf[h[1][1]]
        /\ \A g \in handled : g[1] = h[1] => g = h

(* No answerable packet is forgotten at the end: when main has returned,   *)
(* every echo request that got into the queue was handled, unless its      *)
(* session was removed or replaced.                                        *)
ServedBeforeExit ==
    mainPc = "done" =>
        \A x \in EchoItems :
            x[2] <= sent[x[1]] /\ x[2] \notin gone[x[1]] /\ x[1] \notin displaced
                => <<x, x[1]>> \in handled

(* The program ends: the destructors return although the worker may be     *)
(* anywhere in ProcessPacket with packets waiting.                         *)
MainEnds == mainPc = "destroy" ~> mainPc = "done"
=============================================================================
