----------------------------- MODULE FlowQueue -----------------------------
(***************************************************************************)
(* What the NFQUEUE workers promise: the packets of a flow are decided one *)
(* after the other in the order they were received.  The one exception is  *)
(* a packet that is let through, unprocessed, at the moment it is received *)
(* (its worker's channel is full): it overtakes the ones before it.        *)
(* Packets are numbered in the order the kernel queued them.               *)
(***************************************************************************)
EXTENDS Naturals

CONSTANTS
    MaxPackets,  \* bound: packets the kernel queues
    Flows        \* TCP streams

ASSUME PacketsAssumption == MaxPackets \in Nat

VARIABLES
    flow,     \* the stream of each packet
    got,      \* packets received so far
    verdict   \* what was decided on each packet

queueVars == <<flow, got, verdict>>
Packets   == 1..MaxPackets
Verdicts  == {"none", "served", "bypassed"}

QueueInit ==
    /\ flow \in [Packets -> Flows]
    /\ got = 0
    /\ verdict = [i \in Packets |-> "none"]

Receive ==
    /\ got < MaxPackets
    /\ got' = got + 1
    /\ UNCHANGED <<flow, verdict>>

(* The packets of its flow before it are decided. *)
First(i) == \A k \in Packets : k < i /\ flow[k] = flow[i] => verdict[k] # "none"

Serve(i) ==
    /\ i <= got /\ verdict[i] = "none" /\ First(i)
    /\ verdict' = [verdict EXCEPT ![i] = "served"]
    /\ UNCHANGED <<flow, got>>

Bypass ==
    /\ got > 0 /\ verdict[got] = "none"
    /\ verdict' = [verdict EXCEPT ![got] = "bypassed"]
    /\ UNCHANGED <<flow, got>>

QueueNext == Receive \/ Bypass \/ \E i \in Packets : Serve(i)
QueueSpec == QueueInit /\ [][QueueNext]_queueVars
=============================================================================
