---------------------------- MODULE PacketService ----------------------------
(***************************************************************************)
(* What a packet execute queue promises its callers, without threads,      *)
(* locks or condition variables: packets submitted by one producer wait in *)
(* line, at most one packet at a time is in execution and only while the   *)
(* service is not stopped, and the service does not stop before it is done *)
(* with every packet that was waiting when the stop was requested.         *)
(* PacketExecuteQueue implements this specification.                       *)
(***************************************************************************)
EXTENDS ConcurrentQueue, Integers, Functions

CONSTANTS Producers, MaxPackets, NoItem

VARIABLES
    phase,      \* "stopped", "running" or "stopping"
    pending,    \* the lines of packets, one per producer
    busy,       \* the packet in execution, or NoItem
    sent,       \* how many packets each producer has submitted
    executed,   \* the packets of each producer that were executed
    gone,       \* the packets of each producer that will never be executed
    due         \* what was unfinished when the last stop was requested

vars == <<phase, pending, busy, sent, executed, gone, due>>

Items == Producers \X (1..MaxPackets)
Unfinished == {x \in Items : x = busy \/ x[2] \in Range(pending[x[1]])}
Finished ==
    {x \in Items : x[2] \in Range(executed[x[1]]) \cup gone[x[1]]}

Init ==
    /\ phase = "stopped"
    /\ pending = EmptyQueue(Producers)
    /\ busy = NoItem
    /\ sent = [p \in Producers |-> 0]
    /\ executed = [p \in Producers |-> <<>>]
    /\ gone = [p \in Producers |-> {}]
    /\ due = {}

Begin ==
    /\ phase = "stopped"
    /\ phase' = "running"
    /\ UNCHANGED <<pending, busy, sent, executed, gone, due>>

RequestStop ==
    /\ phase = "running"
    /\ phase' = "stopping"
    /\ due' = Unfinished
    /\ UNCHANGED <<pending, busy, sent, executed, gone>>

Halt ==
    /\ phase = "stopping"
    /\ busy = NoItem
    /\ due \subseteq Finished
    /\ phase' = "stopped"
    /\ UNCHANGED <<pending, busy, sent, executed, gone, due>>

Submit(p) ==
    /\ sent[p] < MaxPackets
    /\ sent' = [sent EXCEPT ![p] = @ + 1]
    /\ pending' = enqueue(pending, p, sent[p] + 1)
    /\ UNCHANGED <<phase, busy, executed, gone, due>>

(* The packet never gets in line. *)
Refuse(p) ==
    /\ sent[p] < MaxPackets
    /\ sent' = [sent EXCEPT ![p] = @ + 1]
    /\ gone' = [gone EXCEPT ![p] = @ \cup {sent[p] + 1}]
    /\ UNCHANGED <<phase, pending, busy, executed, due>>

(* The first packet in line is handed to somebody else. *)
HandOver(p) ==
    /\ p \in Servable(pending)
    /\ pending' = dequeue(pending, p)
    /\ gone' = [gone EXCEPT ![p] = @ \cup {Head(pending[p])}]
    /\ UNCHANGED <<phase, busy, sent, executed, due>>

Take(p) ==
    /\ phase # "stopped"
    /\ busy = NoItem
    /\ p \in Servable(pending)
    /\ busy' = <<p, Head(pending[p])>>
    /\ pending' = dequeue(pending, p)
    /\ UNCHANGED <<phase, sent, executed, gone, due>>

Execute ==
    /\ phase # "stopped"
    /\ busy # NoItem
    /\ executed' = [executed EXCEPT ![busy[1]] = Append(@, busy[2])]
    /\ busy' = NoItem
    /\ UNCHANGED <<phase, pending, sent, gone, due>>

Discard ==
    /\ phase # "stopped"
    /\ busy # NoItem
    /\ gone' = [gone EXCEPT ![busy[1]] = @ \cup {busy[2]}]
    /\ busy' = NoItem
    /\ UNCHANGED <<phase, pending, sent, executed, due>>

Next ==
    \/ Begin \/ RequestStop \/ Halt \/ Execute \/ Discard
    \/ \E p \in Producers : Submit(p) \/ Refuse(p) \/ HandOver(p) \/ Take(p)

Spec == Init /\ [][Next]_vars
=============================================================================
