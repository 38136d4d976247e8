--------------------------- MODULE NfqueueServer ---------------------------
(***************************************************************************)
(* The NFQUEUE packet server: the netlink callback hands every packet to   *)
(* the worker its flow hashes to, through a channel of bounded length;     *)
(* each worker decides its packets one by one; Close cancels the callback, *)
(* closes the channels, waits for the workers and closes the socket.       *)
(*                                                                         *)
(* Packets are numbered in the order the kernel queued them, and at[i] is  *)
(* where packet i is.  A channel is the set of the packets in it: they are *)
(* sent in the order of their numbers, so its head is the least.           *)
(* A definition named Mutant... is the one after it with a plausible fault *)
(* in it; the specification does not use it.                               *)
(***************************************************************************)
EXTENDS Naturals, FiniteSets

CONSTANTS
    MaxPackets,     \* bound: packets the kernel queues
    Flows,          \* TCP streams
    Workers,        \* worker goroutines (NumWorkers of them)
    Hashes,         \* which worker a flow can hash to: [Flows -> Workers]
    WorkerChanLen,  \* capacity of a worker's channel
    Forms           \* what a packet can look like to a worker

ASSUME SizesAssumption == MaxPackets \in Nat /\ WorkerChanLen \in Nat
ASSUME HashesAssumption == Hashes \subseteq [Flows -> Workers]
ASSUME FormsAssumption == Forms \subseteq {"ok", "undecodable", "invalid"}

VARIABLES
    flow, form,   \* the stream and the form of each packet
    hash,         \* computeWorkerIndex: a flow keeps its conntrack id
    got,          \* packets the callback has received
    at,           \* where each packet is
    cb,           \* the netlink goroutine
    worker,       \* the worker goroutines
    closed,       \* workers whose channel is closed
    closer,       \* how far Close has come
    crashed       \* the process died of a panic

input == <<flow, form, hash>>
vars  == <<flow, form, hash, got, at, cb, worker, closed, closer, crashed>>

Packets == 1..MaxPackets
Places  == {"kernel", "held", "chan", "work", "handled", "accepted", "bypassed"}
Decided == {"handled", "accepted", "bypassed"}

(* Start. *)
Init ==
    /\ flow \in [Packets -> Flows] /\ form \in [Packets -> Forms]
    /\ hash \in Hashes
    /\ got = 0
    /\ at = [i \in Packets |-> "kernel"]
    /\ cb = "check"
    /\ worker = [w \in Workers |-> "recv"]
    /\ closed = {} /\ closer = "open" /\ crashed = FALSE

MutantWorkerByPacket(i) == CHOOSE w \in Workers : i % 2 = 1 <=> w = hash[flow[1]]
WorkerOf(i) == hash[flow[i]]

Chan(w) == {i \in Packets : at[i] = "chan" /\ WorkerOf(i) = w}
MutantHeadNewest(i) == at[i] = "chan" /\ \A j \in Chan(WorkerOf(i)) : i >= j
Head(i) == at[i] = "chan" /\ \A j \in Chan(WorkerOf(i)) : i <= j

SocketOpen == closer \notin {"closing", "shut"}

-----------------------------------------------------------------------------
(* The kernel, and the goroutine of go-nfqueue that calls the callback: it *)
(* looks at its context before every receive, which it does not leave when *)
(* there is a packet.                                                      *)

CbCheck ==
    /\ ~crashed /\ cb = "check"
    /\ cb' = IF closer = "open" THEN "recv" ELSE "stopped"
    /\ UNCHANGED <<input, got, at, worker, closed, closer, crashed>>

CbReceive ==
    /\ ~crashed /\ cb = "recv" /\ SocketOpen /\ got < MaxPackets
    /\ got' = got + 1
    /\ at' = [at EXCEPT ![got + 1] = "held"]
    /\ cb' = "held"
    /\ UNCHANGED <<input, worker, closed, closer, crashed>>

CbInterrupted ==
    /\ ~crashed /\ cb = "recv" /\ closer # "open"
    /\ cb' = "check"
    /\ UNCHANGED <<input, got, at, worker, closed, closer, crashed>>

-----------------------------------------------------------------------------
(* The registered callback: a send that does not block. *)

Holding == ~crashed /\ cb = "held"

CbSend ==
    /\ Holding /\ WorkerOf(got) \notin closed
    /\ Cardinality(Chan(WorkerOf(got))) < WorkerChanLen
    /\ at' = [at EXCEPT ![got] = "chan"]
    /\ cb' = "check"
    /\ UNCHANGED <<input, got, worker, closed, closer, crashed>>

MutantCbDrop ==
    /\ Holding /\ WorkerOf(got) \notin closed
    /\ Cardinality(Chan(WorkerOf(got))) >= WorkerChanLen
    /\ cb' = "check"
    /\ UNCHANGED <<input, got, at, worker, closed, closer, crashed>>
CbFull ==
    /\ Holding /\ WorkerOf(got) \notin closed
    /\ Cardinality(Chan(WorkerOf(got))) >= WorkerChanLen
    /\ at' = [at EXCEPT ![got] = "bypassed"]
    /\ cb' = "check"
    /\ UNCHANGED <<input, got, worker, closed, closer, crashed>>

(* Sending on a closed channel panics, in a select too. *)
CbPanic ==
    /\ Holding /\ WorkerOf(got) \in closed
    /\ crashed' = TRUE
    /\ UNCHANGED <<input, got, at, cb, worker, closed, closer>>

-----------------------------------------------------------------------------
(* worker *)

(* Worker w receives packet i, which looks like f. *)
Taking(w, i, f) ==
    /\ ~crashed /\ worker[w] = "recv"
    /\ WorkerOf(i) = w /\ Head(i) /\ form[i] = f

(* An attribute without packet id or with a short payload ends the worker. *)
WorkerInvalid(w) ==
    /\ \E i \in Packets : /\ Taking(w, i, "invalid")
                          /\ at' = [at EXCEPT ![i] = "accepted"]
    /\ worker' = [worker EXCEPT ![w] = "gone"]
    /\ UNCHANGED <<input, got, cb, closed, closer, crashed>>

WorkerUndecodable(w) ==
    /\ \E i \in Packets : /\ Taking(w, i, "undecodable")
                          /\ at' = [at EXCEPT ![i] = "accepted"]
    /\ UNCHANGED <<input, got, cb, worker, closed, closer, crashed>>

WorkerTake(w) ==
    /\ \E i \in Packets : /\ Taking(w, i, "ok")
                          /\ at' = [at EXCEPT ![i] = "work"]
    /\ worker' = [worker EXCEPT ![w] = "busy"]
    /\ UNCHANGED <<input, got, cb, closed, closer, crashed>>

(* HandlePacket gives the verdict. *)
WorkerHandle(w) ==
    /\ ~crashed /\ worker[w] = "busy"
    /\ \E i \in Packets : /\ at[i] = "work" /\ WorkerOf(i) = w
                          /\ at' = [at EXCEPT ![i] = "handled"]
    /\ worker' = [worker EXCEPT ![w] = "recv"]
    /\ UNCHANGED <<input, got, cb, closed, closer, crashed>>

(* The range over a closed channel ends once it is empty. *)
WorkerEnd(w) ==
    /\ ~crashed /\ worker[w] = "recv" /\ w \in closed /\ Chan(w) = {}
    /\ worker' = [worker EXCEPT ![w] = "gone"]
    /\ UNCHANGED <<input, got, at, cb, closed, closer, crashed>>

-----------------------------------------------------------------------------
(* Close *)

CloseCancel ==
    /\ ~crashed /\ closer = "open"
    /\ closer' = "cancelled"
    /\ UNCHANGED <<input, got, at, cb, worker, closed, crashed>>

MutantCloseChanSome(w) ==
    /\ ~crashed /\ closer = "cancelled" /\ closed = {}
    /\ closed' = {w}
    /\ UNCHANGED <<input, got, at, cb, worker, closer, crashed>>
CloseChan(w) ==
    /\ ~crashed /\ closer = "cancelled" /\ w \notin closed
    /\ closed' = closed \cup {w}
    /\ UNCHANGED <<input, got, at, cb, worker, closer, crashed>>

CloseWait ==
    /\ ~crashed /\ closer = "cancelled" /\ closed = Workers
    /\ \A w \in Workers : worker[w] = "gone"
    /\ closer' = "closing"
    /\ UNCHANGED <<input, got, at, cb, worker, closed, crashed>>

(* Nf.Close waits for the netlink goroutine. *)
CloseNf ==
    /\ ~crashed /\ closer = "closing" /\ cb = "stopped"
    /\ closer' = "shut"
    /\ UNCHANGED <<input, got, at, cb, worker, closed, crashed>>

-----------------------------------------------------------------------------
CbStep == CbCheck \/ CbInterrupted \/ CbSend \/ CbFull \/ CbPanic
CbNext == CbReceive \/ CbStep
WorkerNext(w) == \/ WorkerInvalid(w) \/ WorkerUndecodable(w) \/ WorkerTake(w)
                 \/ WorkerHandle(w) \/ WorkerEnd(w)
CloseStep == CloseWait \/ CloseNf \/ \E w \in Workers : CloseChan(w)
CloseNext == CloseCancel \/ CloseStep
Next == CbNext \/ CloseNext \/ \E w \in Workers : WorkerNext(w)

Spec == Init /\ [][Next]_vars

(* Goroutines that can run do; the kernel need not queue another packet and
   nobody has to call Close.                                               *)
FairSpec == /\ Spec /\ WF_vars(CbStep) /\ WF_vars(CloseStep)
            /\ \A w \in Workers : WF_vars(WorkerNext(w))

-----------------------------------------------------------------------------
(* The types; a channel never holds more than its capacity. *)
TypeOK ==
    /\ flow \in [Packets -> Flows] /\ form \in [Packets -> Forms]
    /\ hash \in Hashes
    /\ got \in 0..MaxPackets
    /\ at \in [Packets -> Places]
    /\ cb \in {"check", "recv", "held", "stopped"}
    /\ worker \in [Workers -> {"recv", "busy", "gone"}]
    /\ closed \subseteq Workers
    /\ closer \in {"open", "cancelled", "closing", "shut"}
    /\ crashed \in BOOLEAN
    /\ \A w \in Workers : Cardinality(Chan(w)) <= WorkerChanLen

(* A packet is decided after the packets of its flow before it, unless the
   callback let it through because the channel was full.                   *)
FlowOrder ==
    \A i, j \in Packets :
        i < j /\ flow[i] = flow[j] /\ at[j] \in {"handled", "accepted"} => at[i] \in Decided

(* Close returns with every packet the callback received decided, except
   the ones in the channel of a worker that met an invalid attribute.      *)
DrainedOnClose ==
    closer = "shut" =>
        \A i \in 1..got : \/ at[i] \in Decided
                          \/ \E j \in 1..got : /\ j < i /\ form[j] = "invalid"
                                               /\ WorkerOf(j) = WorkerOf(i)

(* Every packet received is decided in the end, unless the process died or
   its worker met an invalid attribute before.                             *)
EveryPacketDecided ==
    \A i \in Packets :
        got >= i ~> \/ at[i] \in Decided \/ crashed
                    \/ \E j \in Packets : /\ j < i /\ form[j] = "invalid"
                                          /\ WorkerOf(j) = WorkerOf(i)

(* Close ends: no worker and no netlink goroutine stays behind. *)
CloseReturns == closer # "open" ~> closer = "shut" \/ crashed

(* Closing the server, to restart it, does not kill the process. *)
NeverPanics == ~crashed

(* The workers implement FlowQueue. *)
Abstract == INSTANCE FlowQueue WITH
    verdict <- [i \in Packets |-> IF at[i] \in {"handled", "accepted"} THEN "served"
                                  ELSE IF at[i] = "bypassed" THEN "bypassed" ELSE "none"]
ImplementsFlowQueue == Abstract!QueueSpec
=============================================================================
