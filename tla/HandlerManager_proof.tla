------------------------- MODULE HandlerManager_proof -------------------------
(***************************************************************************)
(* For any sessions, identifiers and packets: what the worker uses exists, *)
(* the session it works on is alive and the right one, and the program     *)
(* does not end before the packets it accepted are handled.                *)
(***************************************************************************)
EXTENDS HandlerManager, TLAPS

-----------------------------------------------------------------------------
(* What joining a line at its end and leaving it at its head does to the   *)
(* elements of the line.                                                   *)

(* Appending adds exactly the new element at the end. *)
LEMMA AppendElements ==
    ASSUME NEW S, NEW s \in Seq(S), NEW x \in S
    PROVE  /\ Append(s, x) \in Seq(S)
           /\ Range(Append(s, x)) = Range(s) \cup {x}
<1>1. /\ Append(s, x) \in Seq(S)
      /\ Len(Append(s, x)) = Len(s) + 1
      /\ \A i \in 1..Len(s) : Append(s, x)[i] = s[i]
      /\ Append(s, x)[Len(s) + 1] = x
  OBVIOUS
<1>2. /\ DOMAIN s = 1..Len(s)
      /\ DOMAIN Append(s, x) = 1..(Len(s) + 1)
      /\ Len(s) \in Nat
  BY <1>1
<1>3. QED
  BY <1>1, <1>2 DEF Range

(* The elements of a non-empty sequence are its head and those of its tail. *)
LEMMA TailElements ==
    ASSUME NEW S, NEW s \in Seq(S), s # <<>>
    PROVE  /\ Head(s) \in S
           /\ Tail(s) \in Seq(S)
           /\ Range(s) = {Head(s)} \cup Range(Tail(s))
<1>1. /\ Len(s) \in Nat \ {0}
      /\ DOMAIN s = 1..Len(s)
      /\ Head(s) = s[1]
      /\ Tail(s) \in Seq(S)
      /\ Len(Tail(s)) = Len(s) - 1
      /\ DOMAIN Tail(s) = 1..(Len(s) - 1)
      /\ \A i \in 1..(Len(s) - 1) : Tail(s)[i] = s[i + 1]
  OBVIOUS
<1>2. ASSUME NEW i \in DOMAIN s
      PROVE  s[i] = Head(s) \/ s[i] \in Range(Tail(s))
  <2>1. CASE i = 1 BY <1>1, <2>1
  <2>2. CASE i # 1
    <3>1. i - 1 \in DOMAIN Tail(s) /\ s[i] = Tail(s)[i - 1] BY <1>1, <1>2, <2>2
    <3>2. QED BY <3>1 DEF Range
  <2>3. QED BY <2>1, <2>2
<1>3. ASSUME NEW i \in DOMAIN Tail(s)
      PROVE  Tail(s)[i] \in Range(s)
  <2>1. i + 1 \in DOMAIN s /\ Tail(s)[i] = s[i + 1] BY <1>1, <1>3
  <2>2. QED BY <2>1 DEF Range
<1>4. Head(s) \in S /\ Head(s) \in Range(s) BY <1>1 DEF Range
<1>5. QED BY <1>1, <1>2, <1>3, <1>4 DEF Range

(* A new element keeps a line free of repetitions. *)
LEMMA AppendKeepsInjective ==
    ASSUME NEW S, NEW s \in Seq(S), NEW x \in S, IsInjective(s), x \notin Range(s)
    PROVE  IsInjective(Append(s, x))
<1>1. /\ Append(s, x) \in Seq(S)
      /\ Len(s) \in Nat /\ DOMAIN s = 1..Len(s)
      /\ DOMAIN Append(s, x) = 1..(Len(s) + 1)
      /\ \A i \in 1..Len(s) : Append(s, x)[i] = s[i]
      /\ Append(s, x)[Len(s) + 1] = x
  OBVIOUS
<1>2. \A i \in 1..Len(s) : s[i] # x
  BY <1>1 DEF Range
<1>3. ASSUME NEW i \in DOMAIN Append(s, x), NEW j \in DOMAIN Append(s, x),
             Append(s, x)[i] = Append(s, x)[j]
      PROVE  i = j
  <2>1. CASE i \in 1..Len(s) /\ j \in 1..Len(s)
    BY <1>1, <1>3, <2>1 DEF IsInjective
  <2>2. CASE i = Len(s) + 1 \/ j = Len(s) + 1
    BY <1>1, <1>2, <1>3, <2>2
  <2>3. QED BY <1>1, <2>1, <2>2
<1>4. QED BY <1>3 DEF IsInjective

(* So does the loss of its head, which then is in it no more. *)
LEMMA TailInjective ==
    ASSUME NEW S, NEW s \in Seq(S), s # <<>>, IsInjective(s)
    PROVE  IsInjective(Tail(s)) /\ Head(s) \notin Range(Tail(s))
<1>1. /\ Len(s) \in Nat \ {0}
      /\ DOMAIN s = 1..Len(s)
      /\ Head(s) = s[1]
      /\ DOMAIN Tail(s) = 1..(Len(s) - 1)
      /\ \A i \in 1..(Len(s) - 1) : Tail(s)[i] = s[i + 1]
  OBVIOUS
<1>2. ASSUME NEW i \in DOMAIN Tail(s) PROVE Tail(s)[i] # s[1]
  <2>1. i + 1 \in DOMAIN s /\ 1 \in DOMAIN s /\ i + 1 # 1
    BY <1>1
  <2>2. QED BY <1>1, <2>1 DEF IsInjective
<1>3. ASSUME NEW i \in DOMAIN Tail(s), NEW j \in DOMAIN Tail(s), Tail(s)[i] = Tail(s)[j]
      PROVE  i = j
  <2>1. i + 1 \in DOMAIN s /\ j + 1 \in DOMAIN s /\ s[i + 1] = s[j + 1]
    BY <1>1, <1>3
  <2>2. i + 1 = j + 1
    BY <2>1 DEF IsInjective
  <2>3. QED BY <1>1, <2>2
<1>4. IsInjective(Tail(s)) BY <1>3 DEF IsInjective
<1>5. Head(s) \notin Range(Tail(s)) BY <1>1, <1>2 DEF Range
<1>6. QED BY <1>4, <1>5

-----------------------------------------------------------------------------
USE HandlerAssumption

-----------------------------------------------------------------------------
(* The inductive invariant. *)

(* The worker has been started and not yet told to stop. *)
Serving ==
    \/ mainPc \in {"started", "serve", "stop"}
    \/ mainPc = "destroy" /\ "registry" \in holders["HandlerManager"]

(* The worker has been joined. *)
Joined ==
    \/ mainPc \in {"members", "queue", "done"}
    \/ mainPc = "destroy" /\ "registry" \notin holders["HandlerManager"]

(* How far main is decides about the queue, the registry and the members. *)
LifeInv ==
    /\ Serving => phase = "running"
    /\ mainPc = "join" => phase = "stopping"
    /\ mainPc \in {"register", "start"} \/ Joined => phase = "stopped"
    /\ mainPc \in {"start", "started", "serve"} =>
           "registry" \in holders["HandlerManager"]
    /\ mainPc \in {"stop", "join", "members", "queue", "done"} =>
           "registry" \notin holders["HandlerManager"]
    /\ Serving \/ mainPc \in {"start", "join", "members"} =>
           members = Members /\ "HandlerManager" \in holders["SessionManager"]

(* The worker is in ProcessPacket exactly while it has a packet in hand,   *)
(* and then has not been joined.                                           *)
WorkInv ==
    /\ busy = NoItem <=> workerPc = "idle"
    /\ busy # NoItem => phase # "stopped"

(* A registered session was made and stands under its identifier, where    *)
(* one that was not displaced still is; only sessions that were made have  *)
(* owners or packets.                                                      *)
DirectoryInv ==
    /\ \A i \in Ids : directory[i] # NoSession =>
           directory[i] \in born /\ IdOf[directory[i]] = i
    /\ \A s \in born \ displaced : directory[IdOf[s]] = s
    /\ \A s \in Sessions : owners[s] # {} \/ sent[s] > 0 => s \in born
    /\ displaced \subseteq born

(* From the lookup to the end of the handler the worker owns one session:  *)
(* the one of the packet, unless that was displaced.                       *)
FoundInv ==
    workerPc \in {"lookup", "handle"} =>
        \E s \in born :
            /\ answer[Worker] = {s}
            /\ Worker \in owners[s]
            /\ IdOf[s] = IdOf[busy[1]]
            /\ s = busy[1] \/ busy[1] \in displaced

(* No packet is in two places: waiting twice, waiting and in hand, or      *)
(* handled and still to be handled.                                        *)
PacketInv ==
    /\ \A s \in Sessions : IsInjective(pending[s]) /\ Range(pending[s]) \subseteq 1..sent[s]
    /\ busy # NoItem =>
           busy[2] \in 1..sent[busy[1]] /\ busy[2] \notin Range(pending[busy[1]])
    /\ \A h \in handled :
           /\ h[1][2] \in 1..sent[h[1][1]] /\ h[1][2] \notin Range(pending[h[1][1]])
           /\ h[1] = busy => workerPc = "return"

(* Every packet is accounted for; what is waiting when Stop is called is   *)
(* due, and done when the worker has been joined.                          *)
AccountInv ==
    /\ \A s \in Sessions : \A n \in 1..sent[s] :
           \/ n \in Range(pending[s]) \cup Range(executed[s]) \cup gone[s]
           \/ busy = <<s, n>>
    /\ mainPc = "join" \/ Joined => Queue!Unfinished \subseteq due
    /\ Joined => due \subseteq Queue!Finished

(* An echo request that the worker is done with was handled by its own     *)
(* session or that session was displaced.                                  *)
ServedInv ==
    /\ workerPc = "return" /\ busy \in EchoItems =>
           <<busy, busy[1]>> \in handled \/ busy[1] \in displaced
    /\ \A x \in EchoItems : x[2] \in Range(executed[x[1]]) =>
           <<x, x[1]>> \in handled \/ x[1] \in displaced

IInv ==
    /\ TypeOK /\ LifeInv /\ WorkInv /\ DirectoryInv /\ FoundInv
    /\ PacketInv /\ AccountInv /\ ServedInv /\ HandledByRightSession

-----------------------------------------------------------------------------
(* Type correctness. *)

LEMMA InitType == Init => TypeOK
<1> SUFFICES ASSUME Init PROVE TypeOK
  OBVIOUS
<1> USE DEF Init, Queue!Init, Queue!EmptyQueue, Manager!Init
<1>1. pending \in [Sessions -> Seq(1..MaxPackets)]
  OBVIOUS
<1>2. executed \in [Sessions -> Seq(1..MaxPackets)]
  OBVIOUS
<1>3. gone \in [Sessions -> SUBSET (1..MaxPackets)]
  OBVIOUS
<1>4. sent \in [Sessions -> 0..MaxPackets]
  OBVIOUS
<1>5. answer \in [{Worker, Network} -> SUBSET Sessions]
  OBVIOUS
<1>6. holders \in [Services -> SUBSET {"local", "registry", "HandlerManager"}]
  OBVIOUS
<1>7. owners \in [Sessions -> SUBSET {"connection", "manager", Worker}]
  OBVIOUS
<1> QED BY <1>1, <1>2, <1>3, <1>4, <1>5, <1>6, <1>7 DEF TypeOK

(* The packets and the sessions that one session's entries hold. *)
LEMMA EntryTypes ==
    ASSUME TypeOK, NEW s \in Sessions
    PROVE  /\ pending[s] \in Seq(1..MaxPackets)
           /\ executed[s] \in Seq(1..MaxPackets)
           /\ gone[s] \subseteq 1..MaxPackets
           /\ sent[s] \in 0..MaxPackets
           /\ sent[s] < MaxPackets => sent[s] + 1 \in 1..MaxPackets
           /\ IdOf[s] \in Ids
           /\ owners[s] \subseteq {"connection", "manager", Worker}
BY DEF TypeOK

LEMMA NextType == TypeOK /\ WorkInv /\ [Next]_vars => TypeOK'
<1> SUFFICES ASSUME TypeOK, WorkInv, [Next]_vars PROVE TypeOK'
  OBVIOUS
<1> USE DEF queueVars, managerVars, mainVars, sessionVars
<1>1. CASE RegisterService
  <2>1. holders' \in [Services -> SUBSET {"local", "registry", "HandlerManager"}]
    BY <1>1 DEF RegisterService, Services
  <2> QED BY <1>1, <2>1 DEF RegisterService, TypeOK
<1>2. CASE Start
  BY <1>2 DEF Start, Queue!Begin, TypeOK
<1>3. CASE RegisterServiceReturns
  <2>1. holders' \in [Services -> SUBSET {"local", "registry", "HandlerManager"}]
    BY <1>3 DEF RegisterServiceReturns, TypeOK
  <2> QED BY <1>3, <2>1 DEF RegisterServiceReturns, TypeOK
<1>4. CASE MainReturns
  BY <1>4 DEF MainReturns, TypeOK
<1>5. ASSUME NEW h, LetsGo(h)
      PROVE  /\ holders' \in [Services -> SUBSET {"local", "registry", "HandlerManager"}]
             /\ owners' \in [Sessions -> SUBSET {"connection", "manager", Worker}]
  <2>1. holders' \in [Services -> SUBSET {"local", "registry", "HandlerManager"}]
    BY <1>5 DEF LetsGo, TypeOK, Services
  <2>2. owners' \in [Sessions -> SUBSET {"connection", "manager", Worker}]
    BY <1>5 DEF LetsGo, ManagerLets, TypeOK
  <2> QED BY <2>1, <2>2
<1>6. CASE RegistryDropsSessionManager
  BY <1>5, <1>6 DEF RegistryDropsSessionManager, TypeOK
<1>7. CASE RegistryDropsHandlerManager
  <2>1. holders' \in [Services -> SUBSET {"local", "registry", "HandlerManager"}]
    BY <1>7 DEF RegistryDropsHandlerManager, TypeOK, Services
  <2> QED BY <1>7, <2>1 DEF RegistryDropsHandlerManager, TypeOK
<1>8. CASE HandlerManagerStops
  BY <1>8 DEF HandlerManagerStops, Queue!RequestStop, Queue!Unfinished, Queue!Items,
              Items, TypeOK
<1>9. CASE HandlerManagerJoins
  BY <1>9 DEF HandlerManagerJoins, Queue!Halt, TypeOK
<1>10. CASE MembersDestroyed
  BY <1>5, <1>10 DEF MembersDestroyed, Members, TypeOK
<1>11. CASE QueueDestroyed
  BY <1>11 DEF QueueDestroyed, TypeOK
<1>12. CASE MainDone
  BY <1>12 DEF MainDone, TypeOK
<1>13. ASSUME NEW s \in Sessions, WorkerTakes(s) PROVE TypeOK'
  <2>1. /\ Head(pending[s]) \in 1..MaxPackets
        /\ Tail(pending[s]) \in Seq(1..MaxPackets)
    BY <1>13, EntryTypes, TailElements DEF WorkerTakes, Queue!Take, Queue!Servable
  <2>2. busy' \in Items
    BY <1>13, <2>1 DEF WorkerTakes, Queue!Take, Items
  <2>3. pending' \in [Sessions -> Seq(1..MaxPackets)]
    BY <1>13, <2>1 DEF WorkerTakes, Queue!Take, Queue!dequeue, TypeOK
  <2> QED BY <1>13, <2>2, <2>3 DEF WorkerTakes, Queue!Take, TypeOK
<1>14. CASE ProcessPacketFinds
  <2>1. Sought \in Ids
    BY <1>14 DEF ProcessPacketFinds, WorkInv, TypeOK, Sought, Items
  <2>2. answer' \in [{Worker, Network} -> SUBSET Sessions]
    BY <1>14, <2>1 DEF ProcessPacketFinds, Manager!Find, Manager!Answers, TypeOK
  <2>3. owners' \in [Sessions -> SUBSET {"connection", "manager", Worker}]
    BY <1>14 DEF ProcessPacketFinds, TypeOK
  <2> QED BY <1>14, <2>2, <2>3 DEF ProcessPacketFinds, Manager!Find, TypeOK
<1>15. CASE ProcessPacketLooksUp
  BY <1>15 DEF ProcessPacketLooksUp, TypeOK
<1>16. CASE ProcessPacketHandles
  <2>1. busy \in Items /\ answer[Worker] \subseteq Sessions
    BY <1>16 DEF ProcessPacketHandles, WorkInv, TypeOK
  <2>2. handled' \subseteq Items \X Sessions
    BY <1>16, <2>1 DEF ProcessPacketHandles, TypeOK
  <2> QED BY <1>16, <2>2 DEF ProcessPacketHandles, TypeOK
<1>17. CASE ProcessPacketReturns
  <2>1. busy[1] \in Sessions /\ busy[2] \in 1..MaxPackets
    BY <1>17 DEF ProcessPacketReturns, WorkInv, TypeOK, Items
  <2>2. Append(executed[busy[1]], busy[2]) \in Seq(1..MaxPackets)
    BY <2>1, EntryTypes, AppendElements
  <2>3. executed' \in [Sessions -> Seq(1..MaxPackets)]
    BY <1>17, <2>1, <2>2 DEF ProcessPacketReturns, Queue!Execute, TypeOK
  <2>4. owners' \in [Sessions -> SUBSET {"connection", "manager", Worker}]
    BY <1>17 DEF ProcessPacketReturns, TypeOK
  <2> QED BY <1>17, <2>3, <2>4 DEF ProcessPacketReturns, Queue!Execute, TypeOK
<1>18. ASSUME NEW s \in Sessions, Connect(s) PROVE TypeOK'
  <2>1. directory' \in [Ids -> Sessions \cup {NoSession}]
    BY <1>18 DEF Connect, Manager!Add, TypeOK
  <2>2. answer' \in [{Worker, Network} -> SUBSET Sessions]
    BY <1>18 DEF Connect, Manager!Add, Manager!Answers, TypeOK
  <2>3. owners' \in [Sessions -> SUBSET {"connection", "manager", Worker}]
    BY <1>18 DEF Connect, TypeOK
  <2> QED BY <1>18, <2>1, <2>2, <2>3 DEF Connect, TypeOK
<1>19. ASSUME NEW s \in Sessions, RemoveSession(s) PROVE TypeOK'
  <2>1. directory' \in [Ids -> Sessions \cup {NoSession}]
    BY <1>19 DEF RemoveSession, Manager!Remove, TypeOK
  <2>2. answer' \in [{Worker, Network} -> SUBSET Sessions]
    BY <1>19 DEF RemoveSession, Manager!Remove, Manager!Answers, TypeOK
  <2>3. owners' \in [Sessions -> SUBSET {"connection", "manager", Worker}]
    BY <1>19 DEF RemoveSession, ManagerLets, TypeOK
  <2> QED BY <1>19, <2>1, <2>2, <2>3 DEF RemoveSession, TypeOK
<1>20. ASSUME NEW s \in Sessions, Release(s) PROVE TypeOK'
  <2>1. owners' \in [Sessions -> SUBSET {"connection", "manager", Worker}]
    BY <1>20 DEF Release, TypeOK
  <2> QED BY <1>20, <2>1 DEF Release, TypeOK
<1>21. ASSUME NEW s \in Sessions, Submit(s) PROVE TypeOK'
  <2>1. CASE Queue!Submit(s)
    <3>1. Append(pending[s], sent[s] + 1) \in Seq(1..MaxPackets)
      BY <2>1, EntryTypes, AppendElements DEF Queue!Submit
    <3>2. pending' \in [Sessions -> Seq(1..MaxPackets)]
      BY <2>1, <3>1 DEF Queue!Submit, Queue!enqueue, TypeOK
    <3>3. sent' \in [Sessions -> 0..MaxPackets]
      BY <2>1 DEF Queue!Submit, TypeOK
    <3> QED BY <1>21, <2>1, <3>2, <3>3 DEF Submit, Queue!Submit, TypeOK
  <2>2. CASE Queue!Refuse(s)
    <3>1. gone' \in [Sessions -> SUBSET (1..MaxPackets)]
      BY <2>2, EntryTypes DEF Queue!Refuse, TypeOK
    <3>2. sent' \in [Sessions -> 0..MaxPackets]
      BY <2>2 DEF Queue!Refuse, TypeOK
    <3> QED BY <1>21, <2>2, <3>1, <3>2 DEF Submit, Queue!Refuse, TypeOK
  <2> QED BY <1>21, <2>1, <2>2 DEF Submit
<1>22. CASE UNCHANGED vars
  BY <1>22 DEF vars, TypeOK
<1> QED
  BY <1>1, <1>2, <1>3, <1>4, <1>6, <1>7, <1>8, <1>9, <1>10, <1>11, <1>12, <1>13,
     <1>14, <1>15, <1>16, <1>17, <1>18, <1>19, <1>20, <1>21, <1>22
  DEF Next, Main, ProcessPacket

-----------------------------------------------------------------------------
(* The life of the services, and the worker in it. *)

LEMMA InitLife == Init => LifeInv /\ WorkInv
BY DEF Init, Queue!Init, LifeInv, WorkInv, Serving, Joined

LEMMA NextLife == TypeOK /\ LifeInv /\ [Next]_vars => LifeInv'
<1> SUFFICES ASSUME TypeOK, LifeInv, [Next]_vars PROVE LifeInv'
  OBVIOUS
<1> USE DEF LifeInv, Serving, Joined, queueVars, mainVars
<1>0. /\ holders \in [Services -> SUBSET {"local", "registry", "HandlerManager"}]
      /\ mainPc \in {"register", "start", "started", "serve", "destroy", "stop",
                     "join", "members", "queue", "done"}
  BY DEF TypeOK
<1>1. CASE RegisterService
  BY <1>1 DEF RegisterService
<1>2. CASE Start
  BY <1>2 DEF Start, Queue!Begin
<1>3. CASE RegisterServiceReturns
  BY <1>0, <1>3 DEF RegisterServiceReturns, Services
<1>4. CASE MainReturns
  BY <1>4 DEF MainReturns
<1>5. CASE RegistryDropsSessionManager
  BY <1>0, <1>5 DEF RegistryDropsSessionManager, LetsGo, Services
<1>6. CASE RegistryDropsHandlerManager
  BY <1>0, <1>6 DEF RegistryDropsHandlerManager, Services
<1>7. CASE HandlerManagerStops
  BY <1>7 DEF HandlerManagerStops, Queue!RequestStop
<1>8. CASE HandlerManagerJoins
  BY <1>8 DEF HandlerManagerJoins, Queue!Halt
<1>9. CASE MembersDestroyed
  BY <1>0, <1>9 DEF MembersDestroyed, LetsGo, Services
<1>10. CASE QueueDestroyed
  BY <1>10 DEF QueueDestroyed
<1>11. CASE MainDone
  BY <1>11 DEF MainDone, Services
<1>12. ASSUME UNCHANGED mainVars, UNCHANGED phase PROVE LifeInv'
  BY <1>12
<1>13. CASE ProcessPacket
  BY <1>12, <1>13 DEF ProcessPacket, ProcessPacketFinds, ProcessPacketLooksUp,
         ProcessPacketHandles, ProcessPacketReturns, Queue!Execute
<1>14. ASSUME NEW s \in Sessions,
              WorkerTakes(s) \/ Connect(s) \/ RemoveSession(s) \/ Release(s) \/ Submit(s)
       PROVE  LifeInv'
  BY <1>12, <1>14 DEF WorkerTakes, Connect, RemoveSession, Release, Submit, Queue!Take,
         Queue!Submit, Queue!Refuse
<1>15. CASE UNCHANGED vars
  BY <1>12, <1>15 DEF vars
<1> QED
  BY <1>1, <1>2, <1>3, <1>4, <1>5, <1>6, <1>7, <1>8, <1>9, <1>10, <1>11, <1>13,
     <1>14, <1>15 DEF Next, Main

LEMMA NextWork == TypeOK /\ WorkInv /\ [Next]_vars => WorkInv'
<1> SUFFICES ASSUME TypeOK, WorkInv, [Next]_vars PROVE WorkInv'
  OBVIOUS
<1> USE DEF WorkInv, queueVars
<1>1. CASE Main \/ MainReturns
  BY <1>1 DEF Main, MainReturns, RegisterService, Start, RegisterServiceReturns,
         RegistryDropsSessionManager, RegistryDropsHandlerManager, HandlerManagerStops,
         HandlerManagerJoins, MembersDestroyed, QueueDestroyed, MainDone,
         Queue!Begin, Queue!RequestStop, Queue!Halt
<1>2. ASSUME NEW s \in Sessions, WorkerTakes(s) PROVE WorkInv'
  <2>1. Head(pending[s]) \in 1..MaxPackets
    BY <1>2, EntryTypes, TailElements DEF WorkerTakes, Queue!Take, Queue!Servable
  <2>2. busy' \in Items
    BY <1>2, <2>1 DEF WorkerTakes, Queue!Take, Items
  <2> QED BY <1>2, <2>2 DEF WorkerTakes, Queue!Take
<1>3. CASE ProcessPacket
  BY <1>3 DEF ProcessPacket, ProcessPacketFinds, ProcessPacketLooksUp,
         ProcessPacketHandles, ProcessPacketReturns, Queue!Execute
<1>4. ASSUME NEW s \in Sessions,
             Connect(s) \/ RemoveSession(s) \/ Release(s) \/ Submit(s)
      PROVE  WorkInv'
  BY <1>4 DEF Connect, RemoveSession, Release, Submit, Queue!Submit, Queue!Refuse
<1>5. CASE UNCHANGED vars
  BY <1>5 DEF vars
<1> QED BY <1>1, <1>2, <1>3, <1>4, <1>5 DEF Next

-----------------------------------------------------------------------------
(* The sessions. *)

LEMMA InitSessions == Init => DirectoryInv /\ FoundInv
BY DEF Init, Queue!Init, Manager!Init, DirectoryInv, FoundInv

LEMMA NextDirectory == TypeOK /\ WorkInv /\ DirectoryInv /\ [Next]_vars => DirectoryInv'
<1> SUFFICES ASSUME TypeOK, WorkInv, DirectoryInv, [Next]_vars PROVE DirectoryInv'
  OBVIOUS
<1> USE DEF queueVars, managerVars, sessionVars
<1>0. ASSUME UNCHANGED <<directory, born, displaced, sent>>,
             \A s \in Sessions : owners'[s] # {} => s \in born
      PROVE  DirectoryInv'
  BY <1>0 DEF DirectoryInv
<1>1. CASE Main \/ MainReturns
  <2>1. UNCHANGED <<directory, born, displaced, sent>>
    BY <1>1 DEF Main, MainReturns, RegisterService, Start, RegisterServiceReturns,
         RegistryDropsSessionManager, RegistryDropsHandlerManager, HandlerManagerStops,
         HandlerManagerJoins, MembersDestroyed, QueueDestroyed, MainDone,
         Queue!Begin, Queue!RequestStop, Queue!Halt
  <2>2. ASSUME NEW h, LetsGo(h), NEW s \in Sessions PROVE owners'[s] \subseteq owners[s]
    BY <2>2 DEF LetsGo, ManagerLets, TypeOK
  <2>3. \A s \in Sessions : owners'[s] \subseteq owners[s]
    BY <1>1, <2>2 DEF Main, MainReturns, RegisterService, Start, RegisterServiceReturns,
         RegistryDropsSessionManager, RegistryDropsHandlerManager, HandlerManagerStops,
         HandlerManagerJoins, MembersDestroyed, QueueDestroyed, MainDone
  <2> QED BY <1>0, <2>1, <2>3 DEF DirectoryInv
<1>2. ASSUME NEW s \in Sessions, WorkerTakes(s) PROVE DirectoryInv'
  BY <1>0, <1>2 DEF WorkerTakes, Queue!Take, DirectoryInv
<1>3. CASE ProcessPacketFinds
  <2>1. Sought \in Ids
    BY <1>3 DEF ProcessPacketFinds, WorkInv, TypeOK, Sought, Items
  <2>2. answer'[Worker] = {directory[Sought]} \ {NoSession}
    BY <1>3 DEF ProcessPacketFinds, Manager!Find, Manager!Answers, TypeOK
  <2>3. answer'[Worker] \subseteq born
    BY <2>1, <2>2 DEF DirectoryInv
  <2>4. \A s \in Sessions : owners'[s] # {} => s \in born
    BY <1>3, <2>3 DEF ProcessPacketFinds, DirectoryInv
  <2> QED BY <1>0, <1>3, <2>4 DEF ProcessPacketFinds, Manager!Find
<1>4. CASE ProcessPacketLooksUp \/ ProcessPacketHandles
  BY <1>0, <1>4 DEF ProcessPacketLooksUp, ProcessPacketHandles, DirectoryInv
<1>5. CASE ProcessPacketReturns
  BY <1>0, <1>5 DEF ProcessPacketReturns, Queue!Execute, DirectoryInv
<1>6. ASSUME NEW s \in Sessions, Connect(s) PROVE DirectoryInv'
  <2>1. /\ directory' = [directory EXCEPT ![IdOf[s]] = s]
        /\ born' = born \cup {s} /\ s \notin born /\ UNCHANGED sent
        /\ displaced' = displaced \cup {t \in born : IdOf[t] = IdOf[s]}
    BY <1>6 DEF Connect, Manager!Add
  <2>2. \A t \in Sessions \ {s} : owners'[t] \subseteq owners[t]
    BY <1>6 DEF Connect
  <2>3. IdOf[s] \in Ids /\ directory \in [Ids -> Sessions \cup {NoSession}]
        /\ born \subseteq Sessions
    BY DEF TypeOK
  <2>4. \A i \in Ids : directory'[i] # NoSession =>
            directory'[i] \in born' /\ IdOf[directory'[i]] = i
    BY <2>1, <2>3 DEF DirectoryInv
  <2>5. \A t \in born' \ displaced' : directory'[IdOf[t]] = t
    BY <2>1, <2>3 DEF DirectoryInv
  <2>6. \A t \in Sessions : owners'[t] # {} \/ sent'[t] > 0 => t \in born'
    BY <2>1, <2>2 DEF DirectoryInv
  <2>7. displaced' \subseteq born'
    BY <2>1 DEF DirectoryInv
  <2> QED BY <2>4, <2>5, <2>6, <2>7 DEF DirectoryInv
<1>7. ASSUME NEW s \in Sessions, RemoveSession(s) PROVE DirectoryInv'
  <2>1. /\ directory' = [directory EXCEPT ![IdOf[s]] = NoSession]
        /\ UNCHANGED <<born, sent>>
        /\ displaced' = displaced \cup {t \in born : IdOf[t] = IdOf[s]}
    BY <1>7 DEF RemoveSession, Manager!Remove
  <2>2. \A t \in Sessions : owners'[t] \subseteq owners[t]
    BY <1>7 DEF RemoveSession, ManagerLets
  <2>3. IdOf[s] \in Ids /\ directory \in [Ids -> Sessions \cup {NoSession}]
        /\ born \subseteq Sessions
    BY DEF TypeOK
  <2>4. \A i \in Ids : directory'[i] # NoSession =>
            directory'[i] \in born' /\ IdOf[directory'[i]] = i
    BY <2>1, <2>3 DEF DirectoryInv
  <2>5. \A t \in born' \ displaced' : directory'[IdOf[t]] = t
    BY <2>1, <2>3 DEF DirectoryInv
  <2>6. \A t \in Sessions : owners'[t] # {} \/ sent'[t] > 0 => t \in born'
    BY <2>1, <2>2 DEF DirectoryInv
  <2>7. displaced' \subseteq born'
    BY <2>1 DEF DirectoryInv
  <2> QED BY <2>4, <2>5, <2>6, <2>7 DEF DirectoryInv
<1>8. ASSUME NEW s \in Sessions, Release(s) PROVE DirectoryInv'
  BY <1>0, <1>8 DEF Release, TypeOK, DirectoryInv
<1>9. ASSUME NEW s \in Sessions, Submit(s) PROVE DirectoryInv'
  <2>1. s \in born
    BY <1>9 DEF Submit, DirectoryInv
  <2>2. /\ sent' = [sent EXCEPT ![s] = sent[s] + 1]
        /\ UNCHANGED <<directory, born, displaced, owners>>
    BY <1>9 DEF Submit, Queue!Submit, Queue!Refuse
  <2>3. \A t \in Sessions \ {s} : sent'[t] = sent[t]
    BY <2>2 DEF TypeOK
  <2> QED BY <2>1, <2>2, <2>3 DEF DirectoryInv
<1>10. CASE UNCHANGED vars
  BY <1>0, <1>10 DEF vars, DirectoryInv
<1> QED
  BY <1>1, <1>2, <1>3, <1>4, <1>5, <1>6, <1>7, <1>8, <1>9, <1>10
  DEF Next, ProcessPacket

-----------------------------------------------------------------------------
(* The packets. *)

LEMMA InitPackets == Init => PacketInv
<1> SUFFICES ASSUME Init PROVE PacketInv
  OBVIOUS
<1>1. ASSUME NEW s \in Sessions
      PROVE  IsInjective(pending[s]) /\ Range(pending[s]) = {}
  BY DEF Init, Queue!Init, Queue!EmptyQueue, IsInjective, Range
<1> QED BY <1>1 DEF Init, Queue!Init, PacketInv

(* The worker takes the head of a line. *)
LEMMA TakesHead ==
    ASSUME TypeOK, PacketInv, NEW s \in Sessions, Queue!Take(s)
    PROVE  /\ pending[s] # <<>>
           /\ busy' = <<s, Head(pending[s])>>
           /\ pending' = [pending EXCEPT ![s] = Tail(pending[s])]
           /\ Head(pending[s]) \in Range(pending[s])
           /\ Range(pending[s]) = {Head(pending[s])} \cup Range(Tail(pending[s]))
           /\ Head(pending[s]) \notin Range(Tail(pending[s]))
           /\ IsInjective(Tail(pending[s]))
<1>1. pending[s] # <<>> /\ pending[s] \in Seq(1..MaxPackets) /\ IsInjective(pending[s])
  BY EntryTypes DEF Queue!Take, Queue!Servable, PacketInv
<1>2. Range(pending[s]) = {Head(pending[s])} \cup Range(Tail(pending[s]))
  BY <1>1, TailElements
<1>3. IsInjective(Tail(pending[s])) /\ Head(pending[s]) \notin Range(Tail(pending[s]))
  BY <1>1, TailInjective
<1> QED BY <1>1, <1>2, <1>3 DEF Queue!Take, Queue!dequeue

(* A packet that is submitted joins its line or is gone. *)
LEMMA SubmitJoins ==
    ASSUME TypeOK, PacketInv, NEW s \in Sessions, Queue!Submit(s)
    PROVE  /\ pending' = [pending EXCEPT ![s] = Append(pending[s], sent[s] + 1)]
           /\ Range(Append(pending[s], sent[s] + 1)) = Range(pending[s]) \cup {sent[s] + 1}
           /\ IsInjective(Append(pending[s], sent[s] + 1))
<1>1. /\ pending[s] \in Seq(1..MaxPackets) /\ sent[s] + 1 \in 1..MaxPackets
      /\ IsInjective(pending[s]) /\ Range(pending[s]) \subseteq 1..sent[s]
      /\ sent[s] \in Nat
  BY EntryTypes DEF Queue!Submit, PacketInv
<1>2. sent[s] + 1 \notin Range(pending[s])
  BY <1>1
<1> QED BY <1>1, <1>2, AppendElements, AppendKeepsInjective DEF Queue!Submit, Queue!enqueue

LEMMA NextPacket == TypeOK /\ WorkInv /\ PacketInv /\ [Next]_vars => PacketInv'
<1> SUFFICES ASSUME TypeOK, WorkInv, PacketInv, [Next]_vars PROVE PacketInv'
  OBVIOUS
<1> USE DEF queueVars
<1>0. ASSUME UNCHANGED <<pending, sent, busy, handled>>, workerPc = "return" => workerPc' = "return"
      PROVE  PacketInv'
  BY <1>0 DEF PacketInv
<1>1. CASE Main \/ MainReturns
  BY <1>0, <1>1 DEF Main, MainReturns, RegisterService, Start, RegisterServiceReturns,
         RegistryDropsSessionManager, RegistryDropsHandlerManager, HandlerManagerStops,
         HandlerManagerJoins, MembersDestroyed, QueueDestroyed, MainDone,
         Queue!Begin, Queue!RequestStop, Queue!Halt
<1>2. ASSUME NEW s \in Sessions, WorkerTakes(s) PROVE PacketInv'
  <2> DEFINE h1 == Head(pending[s])
             rest == Tail(pending[s])
  <2>1. /\ busy' = <<s, h1>> /\ pending' = [pending EXCEPT ![s] = rest]
        /\ h1 \in Range(pending[s]) /\ Range(pending[s]) = {h1} \cup Range(rest)
        /\ h1 \notin Range(rest) /\ IsInjective(rest)
    BY <1>2, TakesHead DEF WorkerTakes
  <2>2. UNCHANGED <<sent, handled>>
    BY <1>2 DEF WorkerTakes, Queue!Take
  <2> HIDE DEF h1, rest
  <2>3. /\ pending'[s] = rest
        /\ \A t \in Sessions \ {s} : pending'[t] = pending[t]
    BY <2>1 DEF TypeOK
  <2>4. \A t \in Sessions : IsInjective(pending'[t]) /\ Range(pending'[t]) \subseteq 1..sent[t]
    BY <2>1, <2>3 DEF PacketInv
  <2>5. h1 \in 1..sent[s]
    BY <2>1 DEF PacketInv
  <2>6. ASSUME NEW h \in handled
        PROVE  /\ h[1][2] \in 1..sent[h[1][1]] /\ h[1][2] \notin Range(pending'[h[1][1]])
               /\ h[1] # busy'
    <3>1. h[1][1] \in Sessions
      BY DEF TypeOK, Items
    <3>2. h[1][2] \in 1..sent[h[1][1]] /\ h[1][2] \notin Range(pending[h[1][1]])
      BY DEF PacketInv
    <3> QED BY <2>1, <2>3, <3>1, <3>2
  <2> QED BY <2>1, <2>2, <2>3, <2>4, <2>5, <2>6 DEF PacketInv
<1>3. CASE ProcessPacketFinds \/ ProcessPacketLooksUp
  BY <1>0, <1>3 DEF ProcessPacketFinds, ProcessPacketLooksUp
<1>4. CASE ProcessPacketHandles
  <2>1. /\ UNCHANGED <<pending, sent, busy>> /\ busy # NoItem /\ workerPc' = "return"
        /\ handled' = handled \cup {<<busy, s>> : s \in answer[Worker]}
    BY <1>4 DEF ProcessPacketHandles, WorkInv
  <2>2. \A h \in handled' : h \in handled \/ h[1] = busy
    BY <2>1
  <2> QED BY <2>1, <2>2 DEF PacketInv
<1>5. CASE ProcessPacketReturns
  <2>1. UNCHANGED <<pending, sent, handled>> /\ busy' = NoItem
    BY <1>5 DEF ProcessPacketReturns, Queue!Execute
  <2>2. \A h \in handled : h[1] # NoItem
    BY DEF TypeOK
  <2> QED BY <2>1, <2>2 DEF PacketInv
<1>6. ASSUME NEW s \in Sessions, Connect(s) \/ RemoveSession(s) \/ Release(s)
      PROVE  PacketInv'
  BY <1>0, <1>6 DEF Connect, RemoveSession, Release
<1>7. ASSUME NEW s \in Sessions, Submit(s) PROVE PacketInv'
  <2>1. /\ sent' = [sent EXCEPT ![s] = sent[s] + 1]
        /\ UNCHANGED <<busy, handled, workerPc>>
    BY <1>7 DEF Submit, Queue!Submit, Queue!Refuse
  <2>2. /\ sent[s] \in Nat /\ sent'[s] = sent[s] + 1
        /\ \A t \in Sessions \ {s} : sent'[t] = sent[t]
    BY <2>1 DEF TypeOK
  <2>3. /\ \A t \in Sessions \ {s} : pending'[t] = pending[t]
        /\ Range(pending'[s]) \subseteq Range(pending[s]) \cup {sent[s] + 1}
        /\ IsInjective(pending'[s])
    <3>1. CASE Queue!Submit(s)
      <4> DEFINE line == Append(pending[s], sent[s] + 1)
      <4>1. /\ pending' = [pending EXCEPT ![s] = line]
            /\ Range(line) = Range(pending[s]) \cup {sent[s] + 1}
            /\ IsInjective(line)
        BY <3>1, SubmitJoins
      <4> HIDE DEF line
      <4>2. pending'[s] = line /\ \A t \in Sessions \ {s} : pending'[t] = pending[t]
        BY <4>1 DEF TypeOK
      <4> QED BY <4>1, <4>2
    <3>2. CASE Queue!Refuse(s)
      BY <3>2 DEF Queue!Refuse, PacketInv
    <3> QED BY <1>7, <3>1, <3>2 DEF Submit
  <2>4. \A t \in Sessions : IsInjective(pending'[t]) /\ Range(pending'[t]) \subseteq 1..sent'[t]
    BY <2>2, <2>3 DEF PacketInv
  <2>5. ASSUME NEW t \in Sessions, NEW n \in 1..sent[t], n \notin Range(pending[t])
        PROVE  n \in 1..sent'[t] /\ n \notin Range(pending'[t])
    BY <2>2, <2>3, <2>5
  <2>6. busy # NoItem =>
            busy[2] \in 1..sent'[busy[1]] /\ busy[2] \notin Range(pending'[busy[1]])
    BY <2>5 DEF PacketInv, TypeOK, Items
  <2>7. ASSUME NEW h \in handled
        PROVE  h[1][2] \in 1..sent'[h[1][1]] /\ h[1][2] \notin Range(pending'[h[1][1]])
    <3>1. h[1][1] \in Sessions
      BY DEF TypeOK, Items
    <3> QED BY <2>5, <3>1 DEF PacketInv
  <2> QED BY <2>1, <2>4, <2>6, <2>7 DEF PacketInv
<1>8. CASE UNCHANGED vars
  BY <1>0, <1>8 DEF vars
<1> QED
  BY <1>1, <1>2, <1>3, <1>4, <1>5, <1>6, <1>7, <1>8 DEF Next, ProcessPacket

LEMMA NextFound ==
    TypeOK /\ WorkInv /\ PacketInv /\ DirectoryInv /\ FoundInv /\ [Next]_vars => FoundInv'
<1> SUFFICES ASSUME TypeOK, WorkInv, PacketInv, DirectoryInv, FoundInv, [Next]_vars
             PROVE  FoundInv'
  OBVIOUS
<1> USE DEF queueVars, managerVars, mainVars, sessionVars
<1>0. ASSUME workerPc' \in {"lookup", "handle"} => workerPc \in {"lookup", "handle"},
             answer'[Worker] = answer[Worker], busy' = busy,
             born \subseteq born', displaced \subseteq displaced',
             \A s \in born : Worker \in owners[s] => Worker \in owners'[s]
      PROVE  FoundInv'
  BY <1>0 DEF FoundInv
<1>1. CASE Main \/ MainReturns
  <2>1. UNCHANGED <<answer, busy, workerPc, born, displaced>>
    BY <1>1 DEF Main, MainReturns, RegisterService, Start, RegisterServiceReturns,
         RegistryDropsSessionManager, RegistryDropsHandlerManager, HandlerManagerStops,
         HandlerManagerJoins, MembersDestroyed, QueueDestroyed, MainDone,
         Queue!Begin, Queue!RequestStop, Queue!Halt
  <2>2. ASSUME NEW h, LetsGo(h), NEW s \in Sessions, Worker \in owners[s]
        PROVE  Worker \in owners'[s]
    BY <2>2 DEF LetsGo, ManagerLets, Worker
  <2>3. \A s \in Sessions : Worker \in owners[s] => Worker \in owners'[s]
    BY <1>1, <2>2 DEF Main, MainReturns, RegisterService, Start, RegisterServiceReturns,
         RegistryDropsSessionManager, RegistryDropsHandlerManager, HandlerManagerStops,
         HandlerManagerJoins, MembersDestroyed, QueueDestroyed, MainDone
  <2> QED BY <1>0, <2>1, <2>3 DEF TypeOK
<1>2. ASSUME NEW s \in Sessions, WorkerTakes(s) PROVE FoundInv'
  BY <1>2 DEF WorkerTakes, FoundInv
<1>3. CASE ProcessPacketFinds
  <2>1. /\ Sought \in Ids /\ Sought = IdOf[busy[1]] /\ busy[1] \in Sessions
        /\ busy' = busy /\ displaced' = displaced /\ born' = born
    BY <1>3 DEF ProcessPacketFinds, WorkInv, TypeOK, Sought, Items
  <2>2. answer'[Worker] = {directory[Sought]} \ {NoSession}
    BY <1>3 DEF ProcessPacketFinds, Manager!Find, Manager!Answers, TypeOK
  <2>3. CASE directory[Sought] = NoSession
    BY <1>3, <2>2, <2>3 DEF ProcessPacketFinds, FoundInv
  <2>4. CASE directory[Sought] # NoSession
    <3> DEFINE s == directory[Sought]
    <3>1. s \in born /\ s \in Sessions /\ IdOf[s] = IdOf[busy[1]] /\ answer'[Worker] = {s}
      BY <2>1, <2>2, <2>4 DEF DirectoryInv, TypeOK
    <3>2. Worker \in owners'[s]
      BY <1>3, <3>1 DEF ProcessPacketFinds
    <3>3. s = busy[1] \/ busy[1] \in displaced
      <4>1. busy[1] \in born
        <5>1. busy[2] \in 1..sent[busy[1]] /\ sent[busy[1]] \in Nat
          BY <1>3, <2>1 DEF ProcessPacketFinds, WorkInv, PacketInv, TypeOK
        <5>2. sent[busy[1]] > 0
          BY <5>1
        <5> QED BY <2>1, <5>2 DEF DirectoryInv
      <4> QED BY <2>1, <4>1 DEF DirectoryInv
    <3> HIDE DEF s
    <3> QED BY <2>1, <3>1, <3>2, <3>3 DEF FoundInv
  <2> QED BY <2>3, <2>4
<1>4. CASE ProcessPacketLooksUp
  BY <1>0, <1>4 DEF ProcessPacketLooksUp
<1>5. CASE ProcessPacketHandles \/ ProcessPacketReturns
  BY <1>5 DEF ProcessPacketHandles, ProcessPacketReturns, FoundInv
<1>6. ASSUME NEW s \in Sessions, Connect(s) PROVE FoundInv'
  <2>1. \A t \in born : Worker \in owners[t] => Worker \in owners'[t]
    BY <1>6 DEF Connect, TypeOK, Worker
  <2>2. answer'[Worker] = answer[Worker]
    BY <1>6 DEF Connect, Manager!Add, Manager!Answers, TypeOK, Worker, Network
  <2> QED BY <1>0, <1>6, <2>1, <2>2 DEF Connect
<1>7. ASSUME NEW s \in Sessions, RemoveSession(s) PROVE FoundInv'
  <2>1. \A t \in born : Worker \in owners[t] => Worker \in owners'[t]
    BY <1>7 DEF RemoveSession, ManagerLets, TypeOK, Worker
  <2>2. answer'[Worker] = answer[Worker]
    BY <1>7 DEF RemoveSession, Manager!Remove, Manager!Answers, TypeOK, Worker, Network
  <2> QED BY <1>0, <1>7, <2>1, <2>2 DEF RemoveSession
<1>8. ASSUME NEW s \in Sessions, Release(s) PROVE FoundInv'
  <2>1. \A t \in born : Worker \in owners[t] => Worker \in owners'[t]
    BY <1>8 DEF Release, TypeOK, Worker
  <2> QED BY <1>0, <1>8, <2>1 DEF Release
<1>9. ASSUME NEW s \in Sessions, Submit(s) PROVE FoundInv'
  BY <1>0, <1>9 DEF Submit, Queue!Submit, Queue!Refuse
<1>10. CASE UNCHANGED vars
  BY <1>0, <1>10 DEF vars
<1> QED
  BY <1>1, <1>2, <1>3, <1>4, <1>5, <1>6, <1>7, <1>8, <1>9, <1>10
  DEF Next, ProcessPacket

LEMMA InitAccount == Init => AccountInv /\ ServedInv /\ HandledByRightSession
<1> SUFFICES ASSUME Init PROVE AccountInv /\ ServedInv /\ HandledByRightSession
  OBVIOUS
<1> USE DEF Init, Queue!Init
<1>1. AccountInv
  BY DEF AccountInv, Joined
<1>2. ASSUME NEW x \in EchoItems PROVE Range(executed[x[1]]) = {}
  BY DEF Range, Items
<1>3. ServedInv
  BY <1>2 DEF ServedInv
<1> QED BY <1>1, <1>3 DEF HandledByRightSession

(* The unfinished and the finished packets, in this module's terms. *)
LEMMA QueueSets ==
    /\ Queue!Unfinished = {x \in Items : x = busy \/ x[2] \in Range(pending[x[1]])}
    /\ Queue!Finished = {x \in Items : x[2] \in Range(executed[x[1]]) \cup gone[x[1]]}
    /\ Queue!Unfinished' = {x \in Items : x = busy' \/ x[2] \in Range(pending'[x[1]])}
BY DEF Queue!Unfinished, Queue!Finished, Queue!Items, Items, Queue!Range, Range

(* The packet that the worker has done with is finished. *)
LEMMA ExecuteFinishes ==
    ASSUME TypeOK, Queue!Execute
    PROVE  /\ busy \in Items /\ busy' = NoItem /\ busy = <<busy[1], busy[2]>>
           /\ UNCHANGED <<phase, pending, sent, gone, due>>
           /\ \A s \in Sessions : Range(executed'[s]) =
                  Range(executed[s]) \cup (IF s = busy[1] THEN {busy[2]} ELSE {})
<1>1. /\ busy \in Items /\ busy' = NoItem /\ busy = <<busy[1], busy[2]>>
      /\ UNCHANGED <<phase, pending, sent, gone, due>>
      /\ busy[1] \in Sessions /\ busy[2] \in 1..MaxPackets
      /\ executed' = [executed EXCEPT ![busy[1]] = Append(executed[busy[1]], busy[2])]
  BY DEF Queue!Execute, TypeOK, Items
<1> DEFINE line == Append(executed[busy[1]], busy[2])
<1>2. Range(line) = Range(executed[busy[1]]) \cup {busy[2]}
  <2>1. executed[busy[1]] \in Seq(1..MaxPackets) BY <1>1, EntryTypes
  <2>2. QED BY <1>1, <2>1, AppendElements
<1> HIDE DEF line
<1>3. executed'[busy[1]] = line /\ \A s \in Sessions \ {busy[1]} : executed'[s] = executed[s]
  BY <1>1 DEF TypeOK, line
<1> QED BY <1>1, <1>2, <1>3

LEMMA NextAccount ==
    TypeOK /\ LifeInv /\ WorkInv /\ PacketInv /\ AccountInv /\ [Next]_vars => AccountInv'
<1> SUFFICES ASSUME TypeOK, LifeInv, WorkInv, PacketInv, AccountInv, [Next]_vars
             PROVE  AccountInv'
  OBVIOUS
<1> USE DEF queueVars, mainVars
<1>0. ASSUME UNCHANGED <<pending, executed, gone, sent, busy, due>>,
             mainPc' = "join" \/ Joined' => mainPc = "join" \/ Joined,
             Joined' => Joined
      PROVE  AccountInv'
  <2>1. UNCHANGED <<Queue!Unfinished, Queue!Finished>>
    BY <1>0 DEF Queue!Unfinished, Queue!Finished
  <2> QED BY <1>0, <2>1 DEF AccountInv
<1>1. CASE RegisterService \/ RegisterServiceReturns \/ MainReturns
           \/ RegistryDropsSessionManager \/ RegistryDropsHandlerManager
           \/ MembersDestroyed \/ QueueDestroyed \/ MainDone
  <2>1. UNCHANGED <<pending, executed, gone, sent, busy, due>>
    BY <1>1 DEF RegisterService, RegisterServiceReturns, MainReturns,
           RegistryDropsSessionManager, RegistryDropsHandlerManager,
           MembersDestroyed, QueueDestroyed, MainDone
  <2>2. mainPc' # "join" /\ (Joined' => Joined)
    BY <1>1 DEF RegisterService, RegisterServiceReturns, MainReturns, LetsGo,
           RegistryDropsSessionManager, RegistryDropsHandlerManager, MembersDestroyed,
           QueueDestroyed, MainDone, Joined, LifeInv, Services, TypeOK
  <2> QED BY <1>0, <2>1, <2>2
<1>2. CASE Start
  BY <1>0, <1>2 DEF Start, Queue!Begin, Joined
<1>3. CASE HandlerManagerStops
  <2>1. /\ UNCHANGED <<pending, executed, gone, sent, busy>>
        /\ due' = Queue!Unfinished /\ mainPc' = "join"
    BY <1>3 DEF HandlerManagerStops, Queue!RequestStop
  <2>2. UNCHANGED Queue!Unfinished
    BY <2>1 DEF Queue!Unfinished
  <2> QED BY <2>1, <2>2 DEF AccountInv, Joined
<1>4. CASE HandlerManagerJoins
  <2>1. /\ UNCHANGED <<pending, executed, gone, sent, busy, due>>
        /\ due \subseteq Queue!Finished /\ mainPc = "join"
    BY <1>4 DEF HandlerManagerJoins, Queue!Halt
  <2>2. UNCHANGED <<Queue!Unfinished, Queue!Finished>>
    BY <2>1 DEF Queue!Unfinished, Queue!Finished
  <2> QED BY <2>1, <2>2 DEF AccountInv
<1>5. ASSUME NEW s \in Sessions, WorkerTakes(s) PROVE AccountInv'
  <2> DEFINE h1 == Head(pending[s])
             rest == Tail(pending[s])
  <2>1. /\ busy' = <<s, h1>> /\ pending' = [pending EXCEPT ![s] = rest]
        /\ h1 \in Range(pending[s]) /\ Range(pending[s]) = {h1} \cup Range(rest)
    BY <1>5, TakesHead DEF WorkerTakes
  <2> HIDE DEF h1, rest
  <2>2. /\ UNCHANGED <<executed, gone, sent, due, mainPc, holders>>
        /\ busy = NoItem /\ phase # "stopped"
    BY <1>5 DEF WorkerTakes, Queue!Take
  <2>3. pending'[s] = rest /\ \A t \in Sessions \ {s} : pending'[t] = pending[t]
    BY <2>1 DEF TypeOK
  <2>4. \A t \in Sessions : \A n \in 1..sent[t] :
            \/ n \in Range(pending'[t]) \cup Range(executed[t]) \cup gone[t]
            \/ busy' = <<t, n>>
    <3> SUFFICES ASSUME NEW t \in Sessions, NEW n \in 1..sent[t]
                 PROVE  \/ n \in Range(pending'[t]) \cup Range(executed[t]) \cup gone[t]
                        \/ busy' = <<t, n>>
      OBVIOUS
    <3>1. n \in Range(pending[t]) \cup Range(executed[t]) \cup gone[t]
      <4>1. busy # <<t, n>>
        <5>1. <<t, n>> \in Items
          BY DEF TypeOK, Items
        <5> QED BY <2>2, <5>1
      <4> QED BY <4>1 DEF AccountInv
    <3> QED BY <2>1, <2>3, <3>1
  <2>5. Queue!Unfinished' \subseteq Queue!Unfinished
    <3> SUFFICES ASSUME NEW x \in Items, x = busy' \/ x[2] \in Range(pending'[x[1]])
                 PROVE  x[2] \in Range(pending[x[1]])
      BY QueueSets
    <3>1. x[1] \in Sessions
      BY DEF Items
    <3> QED BY <2>1, <2>3, <3>1
  <2>6. ~Joined
    BY <2>2 DEF LifeInv
  <2>7. Joined' = Joined
    BY <2>2 DEF Joined
  <2> QED BY <2>2, <2>4, <2>5, <2>6, <2>7 DEF AccountInv
<1>6. CASE ProcessPacketFinds \/ ProcessPacketLooksUp \/ ProcessPacketHandles
  BY <1>0, <1>6 DEF ProcessPacketFinds, ProcessPacketLooksUp, ProcessPacketHandles, Joined
<1>7. CASE ProcessPacketReturns
  <2>1. /\ busy \in Items /\ busy' = NoItem /\ busy = <<busy[1], busy[2]>>
        /\ UNCHANGED <<phase, pending, sent, gone, due>>
        /\ \A s \in Sessions : Range(executed'[s]) =
               Range(executed[s]) \cup (IF s = busy[1] THEN {busy[2]} ELSE {})
    BY <1>7, ExecuteFinishes DEF ProcessPacketReturns
  <2>2. UNCHANGED <<mainPc, holders>> /\ phase # "stopped"
    BY <1>7 DEF ProcessPacketReturns, Queue!Execute
  <2>3. \A t \in Sessions : \A n \in 1..sent[t] :
            n \in Range(pending[t]) \cup Range(executed'[t]) \cup gone[t]
    BY <2>1 DEF AccountInv
  <2>4. Queue!Unfinished' \subseteq Queue!Unfinished
    <3>1. \A x \in Items : x # NoItem
      OBVIOUS
    <3> QED BY <2>1, <3>1, QueueSets
  <2>5. ~Joined /\ Joined' = Joined
    BY <2>2 DEF LifeInv, Joined
  <2> QED BY <2>1, <2>2, <2>3, <2>4, <2>5 DEF AccountInv
<1>8. ASSUME NEW s \in Sessions, Connect(s) \/ RemoveSession(s) \/ Release(s)
      PROVE  AccountInv'
  BY <1>0, <1>8 DEF Connect, RemoveSession, Release, Joined
<1>9. ASSUME NEW s \in Sessions, Submit(s) PROVE AccountInv'
  <2>1. /\ sent' = [sent EXCEPT ![s] = sent[s] + 1]
        /\ UNCHANGED <<busy, executed, mainPc, holders>> /\ mainPc = "serve"
    BY <1>9 DEF Submit, Queue!Submit, Queue!Refuse
  <2>2. /\ sent[s] \in Nat /\ sent'[s] = sent[s] + 1
        /\ \A t \in Sessions \ {s} : sent'[t] = sent[t]
    BY <2>1 DEF TypeOK
  <2>3. /\ \A t \in Sessions : Range(pending[t]) \cup gone[t]
                                   \subseteq Range(pending'[t]) \cup gone'[t]
        /\ sent[s] + 1 \in Range(pending'[s]) \cup gone'[s]
    <3>1. CASE Queue!Submit(s)
      <4> DEFINE line == Append(pending[s], sent[s] + 1)
      <4>1. /\ pending' = [pending EXCEPT ![s] = line]
            /\ Range(line) = Range(pending[s]) \cup {sent[s] + 1}
        BY <3>1, SubmitJoins
      <4> HIDE DEF line
      <4>2. pending'[s] = line /\ \A t \in Sessions \ {s} : pending'[t] = pending[t]
        BY <4>1 DEF TypeOK
      <4>3. UNCHANGED gone
        BY <3>1 DEF Queue!Submit
      <4> QED BY <4>1, <4>2, <4>3
    <3>2. CASE Queue!Refuse(s)
      <4>1. UNCHANGED pending /\ gone' = [gone EXCEPT ![s] = gone[s] \cup {sent[s] + 1}]
        BY <3>2 DEF Queue!Refuse
      <4> QED BY <4>1 DEF TypeOK
    <3> QED BY <1>9, <3>1, <3>2 DEF Submit
  <2>4. \A t \in Sessions : \A n \in 1..sent'[t] :
            \/ n \in Range(pending'[t]) \cup Range(executed[t]) \cup gone'[t]
            \/ busy = <<t, n>>
    <3> SUFFICES ASSUME NEW t \in Sessions, NEW n \in 1..sent'[t]
                 PROVE  \/ n \in Range(pending'[t]) \cup Range(executed[t]) \cup gone'[t]
                        \/ busy = <<t, n>>
      OBVIOUS
    <3>1. n \in 1..sent[t] \/ (t = s /\ n = sent[s] + 1)
      BY <2>2
    <3> QED BY <2>3, <3>1 DEF AccountInv
  <2>5. mainPc' # "join" /\ ~Joined'
    BY <2>1 DEF Joined
  <2> QED BY <2>1, <2>4, <2>5 DEF AccountInv
<1>10. CASE UNCHANGED vars
  BY <1>0, <1>10 DEF vars, Joined
<1> QED
  BY <1>1, <1>2, <1>3, <1>4, <1>5, <1>6, <1>7, <1>8, <1>9, <1>10
  DEF Next, Main, ProcessPacket

(* What was handled stays so, and so does who was displaced: the steps     *)
(* that do not execute, look up or handle a packet serve and lose none.    *)
LEMMA NextServed ==
    TypeOK /\ WorkInv /\ PacketInv /\ DirectoryInv /\ FoundInv /\ ServedInv /\ [Next]_vars
        => ServedInv'
<1> SUFFICES ASSUME TypeOK, WorkInv, PacketInv, DirectoryInv, FoundInv, ServedInv,
                    [Next]_vars
             PROVE  ServedInv'
  OBVIOUS
<1> USE DEF queueVars, managerVars, mainVars, sessionVars
<1>0. ASSUME UNCHANGED <<busy, executed, workerPc>>, handled \subseteq handled',
             displaced \subseteq displaced'
      PROVE  ServedInv'
  BY <1>0 DEF ServedInv
<1>1. CASE Main \/ MainReturns
  BY <1>0, <1>1 DEF Main, MainReturns, RegisterService, Start, RegisterServiceReturns,
         RegistryDropsSessionManager, RegistryDropsHandlerManager, HandlerManagerStops,
         HandlerManagerJoins, MembersDestroyed, QueueDestroyed, MainDone,
         Queue!Begin, Queue!RequestStop, Queue!Halt
<1>2. ASSUME NEW s \in Sessions, WorkerTakes(s) PROVE ServedInv'
  BY <1>2 DEF WorkerTakes, Queue!Take, ServedInv
<1>3. CASE ProcessPacketFinds
  <2>1. /\ Sought \in Ids /\ Sought = IdOf[busy[1]] /\ busy[1] \in Sessions
        /\ UNCHANGED <<busy, executed, handled, displaced>> /\ busy # NoItem
    BY <1>3 DEF ProcessPacketFinds, WorkInv, TypeOK, Sought, Items
  <2>2. answer'[Worker] = {directory[Sought]} \ {NoSession}
    BY <1>3 DEF ProcessPacketFinds, Manager!Find, Manager!Answers, TypeOK
  <2>3. busy[1] \in born
    <3>1. busy[2] \in 1..sent[busy[1]] /\ sent[busy[1]] \in Nat
      BY <2>1 DEF PacketInv, TypeOK
    <3>2. sent[busy[1]] > 0
      BY <3>1
    <3> QED BY <2>1, <3>2 DEF DirectoryInv
  <2>4. CASE directory[Sought] = NoSession
    BY <2>1, <2>3, <2>4 DEF DirectoryInv, ServedInv
  <2>5. CASE directory[Sought] # NoSession
    BY <1>3, <2>1, <2>2, <2>5 DEF ProcessPacketFinds, ServedInv
  <2> QED BY <2>4, <2>5
<1>4. CASE ProcessPacketLooksUp
  BY <1>4 DEF ProcessPacketLooksUp, ServedInv
<1>5. CASE ProcessPacketHandles
  <2>1. /\ UNCHANGED <<busy, executed, displaced>>
        /\ handled' = handled \cup {<<busy, s>> : s \in answer[Worker]}
    BY <1>5 DEF ProcessPacketHandles
  <2>2. busy[1] \in answer[Worker] \/ busy[1] \in displaced
    BY <1>5 DEF ProcessPacketHandles, FoundInv
  <2> QED BY <2>1, <2>2 DEF ServedInv
<1>6. CASE ProcessPacketReturns
  <2>1. /\ busy' = NoItem /\ busy = <<busy[1], busy[2]>>
        /\ \A s \in Sessions : Range(executed'[s]) =
               Range(executed[s]) \cup (IF s = busy[1] THEN {busy[2]} ELSE {})
    BY <1>6, ExecuteFinishes DEF ProcessPacketReturns
  <2>2. UNCHANGED <<handled, displaced>> /\ workerPc = "return" /\ workerPc' = "idle"
    BY <1>6 DEF ProcessPacketReturns
  <2>3. ASSUME NEW x \in EchoItems, x[2] \in Range(executed'[x[1]])
        PROVE  <<x, x[1]>> \in handled \/ x[1] \in displaced
    <3>1. x[1] \in Sessions /\ x = <<x[1], x[2]>>
      BY DEF Items
    <3>2. x[2] \in Range(executed[x[1]]) \/ x = busy
      BY <2>1, <2>3, <3>1
    <3> QED BY <2>2, <3>2 DEF ServedInv
  <2> QED BY <2>2, <2>3 DEF ServedInv
<1>7. ASSUME NEW s \in Sessions,
             Connect(s) \/ RemoveSession(s) \/ Release(s) \/ Submit(s)
      PROVE  ServedInv'
  BY <1>0, <1>7 DEF Connect, RemoveSession, Release, Submit, Queue!Submit, Queue!Refuse
<1>8. CASE UNCHANGED vars
  BY <1>0, <1>8 DEF vars
<1> QED
  BY <1>1, <1>2, <1>3, <1>4, <1>5, <1>6, <1>7, <1>8 DEF Next, ProcessPacket

(* Only the handler's step adds to what is handled, once per packet. *)
LEMMA NextHandled ==
    TypeOK /\ WorkInv /\ PacketInv /\ FoundInv /\ HandledByRightSession /\ [Next]_vars
        => HandledByRightSession'
<1> SUFFICES ASSUME TypeOK, WorkInv, PacketInv, FoundInv, HandledByRightSession,
                    [Next]_vars
             PROVE  HandledByRightSession'
  OBVIOUS
<1>0. ASSUME UNCHANGED handled PROVE HandledByRightSession'
  BY <1>0 DEF HandledByRightSession
<1>1. CASE ProcessPacketHandles
  <2>1. PICK s \in born : answer[Worker] = {s} /\ IdOf[s] = IdOf[busy[1]]
    BY <1>1 DEF ProcessPacketHandles, FoundInv
  <2>2. handled' = handled \cup {<<busy, s>>}
    BY <1>1, <2>1 DEF ProcessPacketHandles
  <2>3. \A h \in handled : h[1] # busy
    BY <1>1 DEF ProcessPacketHandles, PacketInv
  <2> QED BY <2>1, <2>2, <2>3 DEF HandledByRightSession
<1>2. CASE ~ProcessPacketHandles
  <2>1. UNCHANGED handled
    BY <1>2 DEF Next, Main, MainReturns, ProcessPacket, RegisterService, Start,
         RegisterServiceReturns, RegistryDropsSessionManager,
         RegistryDropsHandlerManager, HandlerManagerStops, HandlerManagerJoins,
         MembersDestroyed, QueueDestroyed, MainDone, ProcessPacketFinds,
         ProcessPacketLooksUp, ProcessPacketReturns, WorkerTakes, Connect,
         RemoveSession, Release, Submit, vars
  <2> QED BY <1>0, <2>1
<1> QED BY <1>1, <1>2

-----------------------------------------------------------------------------
(* What holds of every behaviour. *)

LEMMA Invariant == Spec => []IInv
<1>1. Init => IInv
  BY InitType, InitLife, InitSessions, InitPackets, InitAccount DEF IInv
<1>2. IInv /\ [Next]_vars => IInv'
  BY NextType, NextLife, NextWork, NextDirectory, NextFound, NextPacket, NextAccount,
     NextServed, NextHandled DEF IInv
<1> QED BY <1>1, <1>2, PTL DEF Spec

(* The variables of main, the services, the worker and the sessions keep   *)
(* their types; the worker is always at a place of ProcessPacket.          *)
THEOREM TypeCorrect == Spec => []TypeOK
BY Invariant, PTL DEF IInv

(* While the worker is in ProcessPacket every member of the handler        *)
(* manager and the session manager exist: ~HandlerManager joins it first.  *)
THEOREM LiveServices == Spec => []UsesLiveServices
<1>1. IInv => UsesLiveServices
  <2> SUFFICES ASSUME IInv, workerPc # "idle"
               PROVE  members = Members /\ holders["SessionManager"] # {}
    BY DEF UsesLiveServices
  <2>1. phase # "stopped"
    BY DEF IInv, WorkInv
  <2>2. Serving \/ mainPc = "join"
    BY <2>1 DEF IInv, LifeInv, Serving, Joined, TypeOK
  <2> QED BY <2>2 DEF IInv, LifeInv
<1> QED BY <1>1, Invariant, PTL

(* The shared_ptr that FindBySessionId returned keeps the session alive to *)
(* the end of the handler, whatever the network does meanwhile.            *)
THEOREM SessionAlive == Spec => []HandledSessionAlive
<1>1. IInv => HandledSessionAlive
  BY DEF IInv, FoundInv, HandledSessionAlive
<1> QED BY <1>1, Invariant, PTL

(* A packet is handled once at most, and by a session with its identifier. *)
THEOREM RightSession == Spec => []HandledByRightSession
BY Invariant, PTL DEF IInv

(* When main has returned, every echo request that got into the queue was  *)
(* handled by its session, unless that was removed or replaced.            *)
THEOREM Served == Spec => []ServedBeforeExit
<1>1. IInv => ServedBeforeExit
  <2> SUFFICES ASSUME IInv, mainPc = "done", NEW x \in EchoItems,
                      x[2] <= sent[x[1]], x[2] \notin gone[x[1]], x[1] \notin displaced
               PROVE  <<x, x[1]>> \in handled
    BY DEF ServedBeforeExit
  <2>1. /\ x \in Items /\ x[1] \in Sessions /\ x = <<x[1], x[2]>>
        /\ x[2] \in 1..MaxPackets /\ sent[x[1]] \in Nat
    BY DEF IInv, TypeOK, Items
  <2>2. x[2] \in 1..sent[x[1]]
    BY <2>1
  <2>3. x[2] \in Range(executed[x[1]]) \/ x \in Queue!Unfinished
    BY <2>1, <2>2, QueueSets DEF IInv, AccountInv
  <2>4. Queue!Unfinished \subseteq Queue!Finished
    BY DEF IInv, AccountInv, Joined
  <2>5. x[2] \in Range(executed[x[1]])
    BY <2>3, <2>4, QueueSets
  <2> QED BY <2>5 DEF IInv, ServedInv
<1> QED BY <1>1, Invariant, PTL
=============================================================================
