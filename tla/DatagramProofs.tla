-------------------------- MODULE DatagramProofs --------------------------
(***************************************************************************)
(* Theorems about the two goroutines that handle datagrams one by one, in  *)
(* the order they are read, until somebody closes what they read from:     *)
(* NfqueueServer, for every number of packets, flows and workers, every    *)
(* channel capacity and every mix of packets, and the UDP relay of Socks5, *)
(* for any addresses and any number of datagrams.                          *)
(***************************************************************************)
EXTENDS NfqueueServer, Socks5, FiniteSetTheorems, TLAPS

(* The types alone: TypeOK without the capacity of the channels. *)
Types ==
    /\ flow \in [Packets -> Flows] /\ form \in [Packets -> Forms]
    /\ hash \in Hashes
    /\ got \in 0..MaxPackets
    /\ at \in [Packets -> Places]
    /\ cb \in {"check", "recv", "held", "stopped"}
    /\ worker \in [Workers -> {"recv", "busy", "gone"}]
    /\ closed \subseteq Workers
    /\ closer \in {"open", "cancelled", "closing", "shut"}
    /\ crashed \in BOOLEAN

Capacity == \A w \in Workers : Cardinality(Chan(w)) <= WorkerChanLen

(* The kernel has the packets not yet received; the callback holds at most
   the last one it received.                                               *)
Received ==
    /\ \A i \in Packets : at[i] = "kernel" <=> i > got
    /\ \A i \in Packets : at[i] = "held" <=> cb = "held" /\ i = got
    /\ cb = "held" => got > 0

(* A worker has at most one packet in hand, and only while it is busy. *)
OneInHand ==
    /\ \A i \in Packets : at[i] = "work" => worker[WorkerOf(i)] = "busy"
    /\ \A i, j \in Packets :
          at[i] = "work" /\ at[j] = "work" /\ WorkerOf(i) = WorkerOf(j) => i = j

(* What a worker has taken leaves nothing behind it in its channel, and what
   it has finished leaves nothing in its hand.                             *)
TakenInOrder ==
    \A i, j \in Packets :
        i < j /\ WorkerOf(i) = WorkerOf(j) =>
            /\ at[j] \in {"work", "handled", "accepted"} => at[i] # "chan"
            /\ at[j] \in {"handled", "accepted"} => at[i] # "work"

(* A worker leaves for one of two reasons. *)
GoneFor ==
    \A w \in Workers :
        worker[w] = "gone" =>
            \/ w \in closed /\ Chan(w) = {}
            \/ \E j \in Packets : at[j] = "accepted" /\ form[j] = "invalid" /\ WorkerOf(j) = w

(* How far the goroutines are, when Close has come so far. *)
ClosedBehind ==
    /\ closer \in {"closing", "shut"} => \A w \in Workers : worker[w] = "gone"
    /\ closer = "shut" => cb = "stopped"

IInv == Types /\ Received /\ OneInHand /\ TakenInOrder /\ GoneFor /\ ClosedBehind

(* A flow has a worker. *)
LEMMA WorkerType == Types => \A i \in Packets : WorkerOf(i) \in Workers
  BY HashesAssumption DEF Types, WorkerOf

LEMMA InitInv == Init => IInv
<1> SUFFICES ASSUME Init PROVE IInv
  OBVIOUS
<1> USE SizesAssumption DEF Init, Packets
<1>1. Types
  <2>1. crashed \in BOOLEAN
    OBVIOUS
  <2>2. at \in [Packets -> Places] /\ worker \in [Workers -> {"recv", "busy", "gone"}]
    BY DEF Places
  <2> QED BY <2>1, <2>2 DEF Types
<1>2. Received /\ OneInHand /\ TakenInOrder /\ ClosedBehind
  BY DEF Received, OneInHand, TakenInOrder, ClosedBehind
<1>3. GoneFor
  BY DEF GoneFor
<1> QED BY <1>1, <1>2, <1>3 DEF IInv

(* The inputs never change. *)
LEMMA InputFixed == [Next]_vars => input' = input
  BY DEF input, vars, Next, CbNext, CbStep, CbCheck, CbReceive, CbInterrupted, CbSend, CbFull,
         CbPanic, CloseNext, CloseStep, CloseCancel, CloseChan, CloseWait, CloseNf,
         WorkerNext, WorkerInvalid, WorkerUndecodable, WorkerTake, WorkerHandle, WorkerEnd

(* The steps of the netlink goroutine. *)
LEMMA CbInv == IInv /\ CbNext => IInv'
<1> SUFFICES ASSUME IInv, CbNext PROVE IInv'
  OBVIOUS
<1> USE SizesAssumption DEF IInv, input, Packets, WorkerOf, Chan
<1>1. CASE CbCheck
  <2>1. Types'
    BY <1>1 DEF Types, CbCheck
  <2>2. Received' /\ OneInHand' /\ TakenInOrder'
    BY <1>1 DEF CbCheck, Received, OneInHand, TakenInOrder
  <2>3. GoneFor' /\ ClosedBehind'
    BY <1>1 DEF CbCheck, GoneFor, ClosedBehind
  <2> QED BY <2>1, <2>2, <2>3
<1>2. CASE CbReceive
  <2>1. Types'
    BY <1>2 DEF Types, CbReceive, Places
  <2>2. Received'
    BY <1>2 DEF CbReceive, Types, Received
  <2>3. OneInHand' /\ TakenInOrder'
    BY <1>2 DEF CbReceive, Types, OneInHand, TakenInOrder
  <2>4. GoneFor' /\ ClosedBehind'
    BY <1>2 DEF CbReceive, Types, Received, GoneFor, ClosedBehind
  <2> QED BY <2>1, <2>2, <2>3, <2>4
<1>3. CASE CbInterrupted
  <2>1. Types'
    BY <1>3 DEF Types, CbInterrupted
  <2>2. Received' /\ OneInHand' /\ TakenInOrder'
    BY <1>3 DEF CbInterrupted, Received, OneInHand, TakenInOrder
  <2>3. GoneFor' /\ ClosedBehind'
    BY <1>3 DEF CbInterrupted, GoneFor, ClosedBehind
  <2> QED BY <2>1, <2>2, <2>3
<1>4. CASE CbSend
  <2>1. Types'
    BY <1>4 DEF Types, CbSend, Holding, Places
  <2>2. Received'
    BY <1>4 DEF CbSend, Holding, Types, Received
  <2>3. OneInHand' /\ TakenInOrder'
    BY <1>4 DEF CbSend, Holding, Types, Received, OneInHand, TakenInOrder
  <2>4. GoneFor' /\ ClosedBehind'
    BY <1>4 DEF CbSend, Holding, Types, Received, GoneFor, ClosedBehind
  <2> QED BY <2>1, <2>2, <2>3, <2>4
<1>5. CASE CbFull
  <2>1. Types'
    BY <1>5 DEF Types, CbFull, Holding, Places
  <2>2. Received'
    BY <1>5 DEF CbFull, Holding, Types, Received
  <2>3. OneInHand' /\ TakenInOrder'
    BY <1>5 DEF CbFull, Holding, Types, Received, OneInHand, TakenInOrder
  <2>4. GoneFor' /\ ClosedBehind'
    BY <1>5 DEF CbFull, Holding, Types, Received, GoneFor, ClosedBehind
  <2> QED BY <2>1, <2>2, <2>3, <2>4
<1>6. CASE CbPanic
  <2>1. Types'
    BY <1>6 DEF Types, CbPanic
  <2>2. Received' /\ OneInHand' /\ TakenInOrder'
    BY <1>6 DEF CbPanic, Received, OneInHand, TakenInOrder
  <2>3. GoneFor' /\ ClosedBehind'
    BY <1>6 DEF CbPanic, GoneFor, ClosedBehind
  <2> QED BY <2>1, <2>2, <2>3
<1> QED BY <1>1, <1>2, <1>3, <1>4, <1>5, <1>6 DEF CbNext, CbStep

(* The steps of the workers. *)
LEMMA WorkerInv == ASSUME NEW w \in Workers PROVE IInv /\ WorkerNext(w) => IInv'
<1> SUFFICES ASSUME IInv, WorkerNext(w) PROVE IInv'
  OBVIOUS
<1> USE SizesAssumption DEF IInv, input, Packets, WorkerOf, Chan
<1>1. CASE WorkerInvalid(w) \/ WorkerUndecodable(w)
  <2>1. PICK i \in Packets : /\ Taking(w, i, "invalid") \/ Taking(w, i, "undecodable")
                             /\ at' = [at EXCEPT ![i] = "accepted"]
    BY <1>1 DEF WorkerInvalid, WorkerUndecodable
  <2>2. \/ worker' = [worker EXCEPT ![w] = "gone"] /\ form[i] = "invalid"
        \/ worker' = worker
    <3>1. CASE WorkerUndecodable(w)
      BY <3>1 DEF WorkerUndecodable
    <3>2. CASE WorkerInvalid(w)
      <4>1. PICK j \in Packets : Taking(w, j, "invalid") /\ at' = [at EXCEPT ![j] = "accepted"]
        BY <3>2 DEF WorkerInvalid
      <4>2. i = j
        BY <2>1, <4>1 DEF Types, Taking, Head
      <4> QED BY <3>2, <4>1, <4>2 DEF WorkerInvalid, Taking
    <3> QED BY <1>1, <3>1, <3>2
  <2>3. UNCHANGED <<input, got, cb, closed, closer, crashed>>
    BY <1>1 DEF WorkerInvalid, WorkerUndecodable
  <2>4. at[i] = "chan" /\ WorkerOf(i) = w /\ worker[w] = "recv"
    BY <2>1 DEF Taking, Head
  <2>5. \A j \in Packets : at[j] = "chan" /\ WorkerOf(j) = w => i <= j
    BY <2>1 DEF Taking, Head
  <2> HIDE DEF WorkerOf
  <2>6. \A j \in Packets : WorkerOf(j)' = WorkerOf(j)
    BY <2>3 DEF WorkerOf
  <2>7. Types'
    BY <2>1, <2>2, <2>3 DEF Types, Places
  <2>8. Received'
    BY <2>1, <2>3, <2>4 DEF Types, Received
  <2>9. OneInHand'
    <3>1. \A j \in Packets : at'[j] = "work" => at[j] = "work"
      BY <2>1, <2>4 DEF Types
    <3>2. \A j \in Packets : at[j] = "work" => worker'[WorkerOf(j)] = "busy"
      BY <2>2, <2>4, WorkerType DEF Types, OneInHand
    <3> QED BY <2>6, <3>1, <3>2 DEF OneInHand
  <2>10. TakenInOrder'
    BY <2>1, <2>4, <2>5, <2>6 DEF Types, OneInHand, TakenInOrder
  <2>11. GoneFor'
    BY <2>1, <2>2, <2>3, <2>4, <2>6 DEF Types, GoneFor
  <2>12. ClosedBehind'
    BY <2>2, <2>3, <2>4 DEF Types, ClosedBehind
  <2> QED BY <2>7, <2>8, <2>9, <2>10, <2>11, <2>12
<1>2. CASE WorkerTake(w)
  <2>1. PICK i \in Packets : /\ Taking(w, i, "ok")
                             /\ at' = [at EXCEPT ![i] = "work"]
    BY <1>2 DEF WorkerTake
  <2>2. worker' = [worker EXCEPT ![w] = "busy"]
    BY <1>2 DEF WorkerTake
  <2>3. UNCHANGED <<input, got, cb, closed, closer, crashed>>
    BY <1>2 DEF WorkerTake
  <2>4. at[i] = "chan" /\ WorkerOf(i) = w /\ worker[w] = "recv"
    BY <2>1 DEF Taking, Head
  <2>5. \A j \in Packets : at[j] = "chan" /\ WorkerOf(j) = w => i <= j
    BY <2>1 DEF Taking, Head
  <2> HIDE DEF WorkerOf
  <2>6. \A j \in Packets : WorkerOf(j)' = WorkerOf(j)
    BY <2>3 DEF WorkerOf
  <2>7. Types'
    BY <2>1, <2>2, <2>3 DEF Types, Places
  <2>8. Received'
    BY <2>1, <2>3, <2>4 DEF Types, Received
  <2>9. OneInHand'
    BY <2>1, <2>2, <2>4, <2>6 DEF Types, OneInHand
  <2>10. TakenInOrder'
    BY <2>1, <2>4, <2>5, <2>6 DEF Types, OneInHand, TakenInOrder
  <2>11. GoneFor'
    BY <2>1, <2>2, <2>3, <2>4, <2>6 DEF Types, GoneFor
  <2>12. ClosedBehind'
    BY <2>2, <2>3, <2>4 DEF Types, ClosedBehind
  <2> QED BY <2>7, <2>8, <2>9, <2>10, <2>11, <2>12
<1>3. CASE WorkerHandle(w)
  <2>1. PICK i \in Packets : /\ at[i] = "work" /\ WorkerOf(i) = w
                             /\ at' = [at EXCEPT ![i] = "handled"]
    BY <1>3 DEF WorkerHandle
  <2>2. worker[w] = "busy" /\ worker' = [worker EXCEPT ![w] = "recv"]
    BY <1>3 DEF WorkerHandle
  <2>3. UNCHANGED <<input, got, cb, closed, closer, crashed>>
    BY <1>3 DEF WorkerHandle
  <2> HIDE DEF WorkerOf
  <2>6. \A j \in Packets : WorkerOf(j)' = WorkerOf(j)
    BY <2>3 DEF WorkerOf
  <2>7. Types'
    BY <2>1, <2>2, <2>3 DEF Types, Places
  <2>8. Received'
    BY <2>1, <2>3 DEF Types, Received
  <2>9. OneInHand'
    BY <2>1, <2>2, <2>6 DEF Types, OneInHand
  <2>10. TakenInOrder'
    BY <2>1, <2>6 DEF Types, OneInHand, TakenInOrder
  <2>11. GoneFor'
    BY <2>1, <2>2, <2>3, <2>6 DEF Types, GoneFor
  <2>12. ClosedBehind'
    BY <2>2, <2>3 DEF Types, ClosedBehind
  <2> QED BY <2>7, <2>8, <2>9, <2>10, <2>11, <2>12
<1>4. CASE WorkerEnd(w)
  <2>1. Types'
    BY <1>4 DEF Types, WorkerEnd
  <2>2. Received' /\ TakenInOrder'
    BY <1>4 DEF WorkerEnd, Received, TakenInOrder
  <2>3. OneInHand'
    BY <1>4 DEF WorkerEnd, Types, OneInHand
  <2>4. GoneFor' /\ ClosedBehind'
    BY <1>4 DEF WorkerEnd, Types, GoneFor, ClosedBehind
  <2> QED BY <2>1, <2>2, <2>3, <2>4
<1> QED BY <1>1, <1>2, <1>3, <1>4 DEF WorkerNext

(* The steps of Close. *)
LEMMA CloseInv == IInv /\ CloseNext => IInv'
<1> SUFFICES ASSUME IInv, CloseNext PROVE IInv'
  OBVIOUS
<1> USE DEF IInv, input, Packets, WorkerOf, Chan
<1>1. CASE CloseCancel
  BY <1>1 DEF CloseCancel, Types, Received, OneInHand, TakenInOrder, GoneFor, ClosedBehind
<1>2. ASSUME NEW w \in Workers, CloseChan(w) PROVE IInv'
  BY <1>2 DEF CloseChan, Types, Received, OneInHand, TakenInOrder, GoneFor, ClosedBehind
<1>3. CASE CloseWait
  BY <1>3 DEF CloseWait, Types, Received, OneInHand, TakenInOrder, GoneFor, ClosedBehind
<1>4. CASE CloseNf
  BY <1>4 DEF CloseNf, Types, Received, OneInHand, TakenInOrder, GoneFor, ClosedBehind
<1> QED BY <1>1, <1>2, <1>3, <1>4 DEF CloseNext, CloseStep

LEMMA StepInv == IInv /\ [Next]_vars => IInv'
<1> SUFFICES ASSUME IInv, [Next]_vars PROVE IInv'
  OBVIOUS
<1>1. CASE UNCHANGED vars
  BY <1>1 DEF vars, IInv, Types, Received, OneInHand, TakenInOrder, GoneFor, ClosedBehind,
              Packets, WorkerOf, Chan
<1> QED BY <1>1, CbInv, WorkerInv, CloseInv DEF Next

LEMMA AlwaysInv == Spec => []IInv
  BY InitInv, StepInv, PTL DEF Spec

-----------------------------------------------------------------------------
(* Packets of a flow are decided in the order they were queued, except the
   ones let through because a channel was full: for any number of packets,
   flows and workers (server/base/nfqueue.go, callback and worker).        *)
THEOREM DecidedInFlowOrder == Spec => []FlowOrder
<1>1. IInv => FlowOrder
  <2> SUFFICES ASSUME IInv, NEW i \in Packets, NEW j \in Packets,
                      i < j, flow[i] = flow[j], at[j] \in {"handled", "accepted"}
               PROVE  at[i] \in Decided
    BY DEF FlowOrder
  <2>1. at[i] \in Places /\ got \in 0..MaxPackets
    BY DEF IInv, Types
  <2>2. at[i] # "kernel" /\ at[i] # "held"
    BY <2>1, SizesAssumption DEF IInv, Received, Packets
  <2>3. WorkerOf(i) = WorkerOf(j)
    BY DEF WorkerOf
  <2>4. at[i] # "chan" /\ at[i] # "work"
    BY <2>3 DEF IInv, TakenInOrder
  <2> QED BY <2>1, <2>2, <2>4 DEF Places, Decided
<1> QED BY <1>1, AlwaysInv, PTL

(* When Close has returned, every packet the callback received is decided,
   or stands behind an invalid attribute that ended its worker.            *)
THEOREM CloseDrains == Spec => []DrainedOnClose
<1>1. IInv => DrainedOnClose
  <2> SUFFICES ASSUME IInv, closer = "shut", NEW i \in 1..got, at[i] \notin Decided
               PROVE  \E j \in 1..got : /\ j < i /\ form[j] = "invalid"
                                        /\ WorkerOf(j) = WorkerOf(i)
    BY DEF DrainedOnClose
  <2>1. i \in Packets /\ at[i] \in Places /\ got \in 0..MaxPackets
    BY SizesAssumption DEF IInv, Types, Packets
  <2>2. at[i] # "kernel"
    BY <2>1, SizesAssumption DEF IInv, Received, Packets
  <2>3. at[i] # "held"
    BY <2>1 DEF IInv, Received, ClosedBehind
  <2>4. WorkerOf(i) \in Workers /\ worker[WorkerOf(i)] = "gone"
    BY <2>1, WorkerType DEF IInv, ClosedBehind
  <2>5. at[i] # "work"
    BY <2>1, <2>4 DEF IInv, OneInHand
  <2>6. at[i] = "chan"
    BY <2>1, <2>2, <2>3, <2>5 DEF Places, Decided
  <2>7. PICK j \in Packets : /\ at[j] = "accepted" /\ form[j] = "invalid"
                             /\ WorkerOf(j) = WorkerOf(i)
    BY <2>1, <2>4, <2>6 DEF IInv, GoneFor, Chan
  <2>8. j < i
    <3>1. ~(i < j)
      BY <2>1, <2>6, <2>7 DEF IInv, TakenInOrder
    <3>2. i # j
      BY <2>6, <2>7
    <3> QED BY <2>1, <3>1, <3>2, SizesAssumption DEF Packets
  <2>9. j \in 1..got
    BY <2>1, <2>8, SizesAssumption DEF Packets
  <2> QED BY <2>7, <2>8, <2>9
<1> QED BY <1>1, AlwaysInv, PTL

-----------------------------------------------------------------------------
(* Capacity: only CbSend lets a channel grow, and it looks at the length. *)

LEMMA ChanFinite == \A w : IsFiniteSet(Chan(w))
<1>1. IsFiniteSet(Packets)
  BY FS_Interval, SizesAssumption DEF Packets
<1> QED BY <1>1, FS_Subset DEF Chan

LEMMA ShrinkKeepsCapacity ==
    ASSUME Capacity, \A w \in Workers : Chan(w)' \subseteq Chan(w)
    PROVE  Capacity'
<1> SUFFICES ASSUME NEW w \in Workers PROVE Cardinality(Chan(w)') <= WorkerChanLen
  BY DEF Capacity
<1>1. Cardinality(Chan(w)') <= Cardinality(Chan(w))
  BY ChanFinite, FS_Subset
<1>2. Cardinality(Chan(w)) \in Nat /\ Cardinality(Chan(w)') \in Nat
  <2>1. IsFiniteSet(Chan(w)) /\ IsFiniteSet(Chan(w)')
    BY ChanFinite, FS_Subset
  <2> QED BY <2>1, FS_CardinalityType
<1>3. Cardinality(Chan(w)) <= WorkerChanLen
  BY DEF Capacity
<1> QED BY <1>1, <1>2, <1>3, SizesAssumption

LEMMA SendKeepsCapacity == IInv /\ Capacity /\ CbSend => Capacity'
<1> SUFFICES ASSUME IInv, Capacity, CbSend, NEW w \in Workers
             PROVE  Cardinality(Chan(w)') <= WorkerChanLen
  BY DEF Capacity
<1>1. got \in Packets /\ at \in [Packets -> Places]
  BY SizesAssumption DEF IInv, Types, Received, CbSend, Holding, Packets
<1>2. /\ at' = [at EXCEPT ![got] = "chan"] /\ \A i : WorkerOf(i)' = WorkerOf(i)
      /\ Cardinality(Chan(WorkerOf(got))) < WorkerChanLen
  BY DEF CbSend, input, WorkerOf
<1>3. IsFiniteSet(Chan(w)) /\ Cardinality(Chan(w)) \in Nat /\ Cardinality(Chan(w)) <= WorkerChanLen
  BY ChanFinite, FS_CardinalityType DEF Capacity
<1>4. CASE w = WorkerOf(got)
  <2>1. Chan(w)' = Chan(w) \cup {got}
    BY <1>1, <1>2, <1>4 DEF Chan, Packets
  <2>2. got \notin Chan(w)
    BY DEF IInv, Received, CbSend, Holding, Chan
  <2>3. Cardinality(Chan(w) \cup {got}) = Cardinality(Chan(w)) + 1
    BY <1>3, <2>2, FS_AddElement
  <2>4. Cardinality(Chan(w)) < WorkerChanLen
    BY <1>2, <1>4
  <2> QED BY <1>3, <2>1, <2>3, <2>4, SizesAssumption
<1>5. CASE w # WorkerOf(got)
  <2>1. Chan(w)' = Chan(w)
    <3>1. \A i \in Packets : WorkerOf(i) = w => (at'[i] = "chan" <=> at[i] = "chan")
      BY <1>1, <1>2, <1>5
    <3> QED BY <1>2, <3>1 DEF Chan, Packets
  <2> QED BY <1>3, <2>1
<1> QED BY <1>4, <1>5

LEMMA OthersShrink ==
    IInv /\ [Next]_vars /\ ~CbSend => \A w \in Workers : Chan(w)' \subseteq Chan(w)
<1> SUFFICES ASSUME IInv, [Next]_vars, ~CbSend
             PROVE  \A w \in Workers : Chan(w)' \subseteq Chan(w)
  OBVIOUS
<1>0. at \in [Packets -> Places]
  BY DEF IInv, Types
<1> DEFINE NoneAdded == \A i \in Packets : at'[i] = "chan" => at[i] = "chan"
<1>1. ASSUME UNCHANGED vars PROVE NoneAdded
  BY <1>1 DEF vars
<1>2. ASSUME CbNext PROVE NoneAdded
  BY <1>0, <1>2 DEF CbNext, CbStep, CbCheck, CbReceive, CbInterrupted, CbFull, CbPanic
<1>3. ASSUME CloseNext PROVE NoneAdded
  BY <1>3 DEF CloseNext, CloseStep, CloseCancel, CloseChan, CloseWait, CloseNf
<1>4. ASSUME NEW w \in Workers, WorkerNext(w) PROVE NoneAdded
  BY <1>0, <1>4 DEF WorkerNext, WorkerInvalid, WorkerUndecodable, WorkerTake,
                    WorkerHandle, WorkerEnd
<1>5. NoneAdded
  BY <1>1, <1>2, <1>3, <1>4 DEF Next
<1>6. \A i : WorkerOf(i)' = WorkerOf(i)
  <2>1. input' = input
    BY InputFixed
  <2> QED BY <2>1 DEF input, WorkerOf
<1> QED BY <1>5, <1>6 DEF Chan, Packets

(* The types, and that no channel of a worker ever holds more packets than
   its capacity (server/base/nfqueue.go, Start and the callback).          *)
THEOREM TypeCorrect == Spec => []TypeOK
<1>1. Init => Capacity
  <2> SUFFICES ASSUME Init, NEW w \in Workers PROVE Cardinality(Chan(w)) <= WorkerChanLen
    BY DEF Capacity
  <2>1. Chan(w) = {}
    BY DEF Init, Chan
  <2> QED BY <2>1, FS_EmptySet, SizesAssumption
<1>2. IInv /\ Capacity /\ [Next]_vars => Capacity'
  BY ShrinkKeepsCapacity, SendKeepsCapacity, OthersShrink
<1>3. IInv /\ Capacity => TypeOK
  BY DEF IInv, Types, Capacity, TypeOK
<1> QED BY <1>1, <1>2, <1>3, AlwaysInv, PTL DEF Spec

-----------------------------------------------------------------------------
(* The refinement.  What FlowQueue sees of the places: *)
Seen == [i \in Packets |-> IF at[i] \in {"handled", "accepted"} THEN "served"
                           ELSE IF at[i] = "bypassed" THEN "bypassed" ELSE "none"]

(* A worker that decides a packet serves one that is first in its flow. *)
LEMMA ServesFirst ==
    ASSUME IInv, IInv', NEW i \in Packets, NEW p \in {"handled", "accepted"},
           at[i] \in {"chan", "work"}, at' = [at EXCEPT ![i] = p], UNCHANGED <<input, got>>
    PROVE  Abstract!Serve(i)
<1>1. at \in [Packets -> Places] /\ at' \in [Packets -> Places] /\ got \in 0..MaxPackets
  BY DEF IInv, Types
<1>2. i <= got
  BY <1>1, SizesAssumption DEF IInv, Received, Packets
<1>3. Seen[i] = "none" /\ Seen' = [Seen EXCEPT ![i] = "served"]
  <2>1. Seen[i] = "none"
    BY DEF Seen
  <2>2. Packets' = Packets
    BY DEF Packets
  <2> QED BY <1>1, <2>1, <2>2 DEF Seen
<1>4. \A k \in Packets : k < i /\ flow[k] = flow[i] => Seen[k] # "none"
  <2> SUFFICES ASSUME NEW k \in Packets, k < i, flow[k] = flow[i] PROVE Seen[k] # "none"
    OBVIOUS
  <2>1. WorkerOf(k) = WorkerOf(i) /\ WorkerOf(k)' = WorkerOf(i)'
    BY DEF WorkerOf, input
  <2>2. at[k] = at'[k] /\ at'[i] \in {"handled", "accepted"}
    BY <1>1, SizesAssumption DEF Packets
  <2>3. at[k] # "chan" /\ at[k] # "work"
    BY <2>1, <2>2 DEF IInv, TakenInOrder, Packets
  <2>4. at[k] # "kernel" /\ at[k] # "held"
    BY <1>1, <1>2, SizesAssumption DEF IInv, Received, Packets
  <2> QED BY <1>1, <2>3, <2>4 DEF Seen, Places
<1> QED
  BY <1>2, <1>3, <1>4 DEF Abstract!Serve, Abstract!First, Abstract!Packets, Packets, Seen, input

LEMMA StepRefines == IInv /\ IInv' /\ [Next]_vars => [Abstract!QueueNext]_Abstract!queueVars
<1> SUFFICES ASSUME IInv, IInv', [Next]_vars
             PROVE  Abstract!QueueNext \/ (UNCHANGED <<flow, got>> /\ Seen' = Seen)
  BY DEF Abstract!queueVars, Seen
<1>0. at \in [Packets -> Places] /\ got \in 0..MaxPackets /\ Packets' = Packets
  BY DEF IInv, Types, Packets
<1> DEFINE Stutter == UNCHANGED <<flow, got>> /\ Seen' = Seen
<1>1. ASSUME UNCHANGED vars PROVE Stutter
  BY <1>1 DEF vars, Seen, Packets
<1>2. ASSUME CloseNext PROVE Stutter
  BY <1>2 DEF CloseNext, CloseStep, CloseCancel, CloseChan, CloseWait, CloseNf, input,
              Seen, Packets
<1>3. ASSUME CbCheck \/ CbInterrupted \/ CbPanic PROVE Stutter
  BY <1>3 DEF CbCheck, CbInterrupted, CbPanic, input, Seen, Packets
<1>4. ASSUME CbReceive PROVE Abstract!Receive
  <2>1. got' = got + 1 /\ at' = [at EXCEPT ![got + 1] = "held"] /\ flow' = flow /\ got < MaxPackets
    BY <1>4 DEF CbReceive, input
  <2>2. at[got + 1] = "kernel"
    BY <1>0, <2>1, SizesAssumption DEF IInv, Received, Packets
  <2>3. Seen' = Seen
    BY <1>0, <2>1, <2>2 DEF Seen
  <2> QED BY <2>1, <2>3 DEF Abstract!Receive, Seen
<1>5. ASSUME CbSend PROVE Stutter
  <2>1. at[got] = "held" /\ at' = [at EXCEPT ![got] = "chan"]
    BY <1>0, <1>5, SizesAssumption DEF CbSend, Holding, IInv, Received, Packets
  <2>2. Seen' = Seen
    BY <1>0, <2>1 DEF Seen
  <2> QED BY <1>5, <2>2 DEF CbSend, input
<1>6. ASSUME CbFull PROVE Abstract!Bypass
  <2>1. /\ got \in Packets /\ at[got] = "held" /\ at' = [at EXCEPT ![got] = "bypassed"]
        /\ UNCHANGED <<flow, got>>
    BY <1>0, <1>6, SizesAssumption DEF CbFull, Holding, IInv, Received, Packets, input
  <2>2. got > 0
    BY <2>1 DEF Packets
  <2>3. Seen[got] = "none" /\ Seen' = [Seen EXCEPT ![got] = "bypassed"]
    BY <1>0, <2>1 DEF Seen
  <2> QED BY <2>1, <2>2, <2>3 DEF Abstract!Bypass, Seen
<1>7. ASSUME NEW w \in Workers, WorkerNext(w)
      PROVE  Stutter \/ \E i \in Packets : Abstract!Serve(i)
  <2>1. CASE WorkerInvalid(w) \/ WorkerUndecodable(w)
    <3>1. PICK i \in Packets : at[i] = "chan" /\ at' = [at EXCEPT ![i] = "accepted"]
      BY <2>1 DEF WorkerInvalid, WorkerUndecodable, Taking, Head
    <3>2. UNCHANGED <<input, got>>
      BY <2>1 DEF WorkerInvalid, WorkerUndecodable
    <3> QED BY <3>1, <3>2, ServesFirst
  <2>2. CASE WorkerHandle(w)
    <3>1. PICK i \in Packets : at[i] = "work" /\ at' = [at EXCEPT ![i] = "handled"]
      BY <2>2 DEF WorkerHandle
    <3>2. UNCHANGED <<input, got>>
      BY <2>2 DEF WorkerHandle
    <3> QED BY <3>1, <3>2, ServesFirst
  <2>3. CASE WorkerTake(w)
    <3>1. PICK i \in Packets : at[i] = "chan" /\ at' = [at EXCEPT ![i] = "work"]
      BY <2>3 DEF WorkerTake, Taking, Head
    <3>2. Seen' = Seen
      BY <1>0, <3>1 DEF Seen
    <3> QED BY <2>3, <3>2 DEF WorkerTake, input
  <2>4. CASE WorkerEnd(w)
    BY <2>4 DEF WorkerEnd, input, Seen, Packets
  <2> QED BY <1>7, <2>1, <2>2, <2>3, <2>4 DEF WorkerNext
<1>8. Packets = Abstract!Packets
  BY DEF Packets, Abstract!Packets
<1> QED
  BY <1>1, <1>2, <1>3, <1>4, <1>5, <1>6, <1>7, <1>8
  DEF Next, CbNext, CbStep, Abstract!QueueNext

(* The packet server implements FlowQueue: seen from outside, the packets of
   a flow are served one at a time in the order they came in, and only the
   newest packet can be let through out of turn.                           *)
THEOREM ServesLikeAFlowQueue == Spec => ImplementsFlowQueue
<1>1. Init => Abstract!QueueInit
  BY DEF Init, Abstract!QueueInit, Abstract!Packets, Packets
<1> QED BY <1>1, StepRefines, AlwaysInv, PTL DEF Spec, ImplementsFlowQueue, Abstract!QueueSpec

-----------------------------------------------------------------------------
(* Socks5: the UDP relay. *)

USE DEF None, Bad

(* What has been sent and not lost came from somewhere; the relay learns the
   client's address from a datagram only, and handles at most one datagram
   between two looks at done.                                                *)
FromSomewhere == net \subseteq sent /\ \A d \in sent : d.from \in Ports \cup Hosts
OneAfter == late \in {0, 1} /\ (late = 1 => done /\ relay # "read")
Nobody   == \A d \in sent : d.from \notin Local
AddrSeen == clientUDPAddr # None => \E c \in sent : c.from \in Ports /\ c.from = clientUDPAddr
Relayed  == Nobody => AskedFor /\ Returned /\ AddrSeen
RInv == FromSomewhere /\ OneAfter /\ Relayed

(* A step that neither sends, loses nor relays a datagram. *)
LEMMA Untouched ==
    ASSUME RInv, UNCHANGED <<clientUDPAddr, sent, net, out>>
    PROVE  FromSomewhere' /\ Relayed'
<1>1. FromSomewhere'
  BY DEF RInv, FromSomewhere
<1>2. Relayed'
  BY DEF RInv, Relayed, Nobody, AskedFor, Returned, AddrSeen
<1> QED
  BY <1>1, <1>2

LEMMA RInvInit == Socks5Init => RInv
  BY DEF Socks5Init, RInv, FromSomewhere, OneAfter, Relayed, Nobody, AskedFor, Returned, AddrSeen

(* The relay looks at done before it reads. *)
LEMMA ReadFromKeeps == ASSUME RInv, NEW d \in net, ReadFrom(d) PROVE RInv'
<1> USE DEF ReadFrom
<1>1. FromSomewhere'
  BY DEF RInv, FromSomewhere, udp, tcp
<1>2. OneAfter'
  BY DEF RInv, OneAfter
<1>3. ASSUME Nobody' PROVE AskedFor' /\ Returned' /\ AddrSeen'
  <2>1. sent' = sent /\ Nobody /\ AskedFor /\ Returned /\ AddrSeen
    BY <1>3 DEF RInv, Relayed, Nobody
  <2>2. d \in sent /\ d.from \in Ports \cup Hosts /\ d.from \notin Local
    BY <2>1 DEF RInv, FromSomewhere, Nobody
  <2>3. CASE IsFromClient(d.from)
    <3>1. d.from \in Ports
      BY <2>2, <2>3 DEF IsFromClient
    <3>2. clientUDPAddr' = d.from /\ (out' = out \/ out' = out \cup {Request(d, d.to)})
      BY <2>3, <3>1 DEF Destinations
    <3>3. AskedFor'
      BY <2>1, <2>2, <3>1, <3>2 DEF AskedFor, Request
    <3>4. Returned'
      BY <2>1, <3>2 DEF Returned, Request
    <3>5. AddrSeen'
      BY <2>1, <2>2, <3>1, <3>2 DEF AddrSeen
    <3> QED
      BY <3>3, <3>4, <3>5
  <2>4. CASE ~IsFromClient(d.from)
    <3>1. d.from \in Hosts
      BY <2>2, <2>4 DEF IsFromClient
    <3>2. clientUDPAddr' = clientUDPAddr /\ out' = (IF clientUDPAddr = None THEN out ELSE out \cup {Reply(d)})
      BY <2>4
    <3>3. AskedFor'
      BY <2>1, <3>2 DEF AskedFor, Reply
    <3>4. Returned'
      BY <2>1, <2>2, <3>1, <3>2 DEF Returned, AddrSeen, Reply
    <3>5. AddrSeen'
      BY <2>1, <3>2 DEF AddrSeen
    <3> QED
      BY <3>3, <3>4, <3>5
  <2> QED
    BY <2>3, <2>4
<1> QED
  BY <1>1, <1>2, <1>3 DEF RInv, Relayed

(* A datagram more or less on its way. *)
LEMMA SendKeeps == ASSUME RInv, NEW p \in Ports \cup Hosts, NEW h, Send(p, h) PROVE RInv'
<1> USE DEF Send, tcp
<1>1. PICK d : d.from = p /\ sent' = sent \cup {d} /\ net' = net \cup {d}
  OBVIOUS
<1>2. FromSomewhere'
  BY <1>1 DEF RInv, FromSomewhere
<1>3. OneAfter'
  BY DEF RInv, OneAfter
<1>4. Relayed'
  BY <1>1 DEF RInv, Relayed, Nobody, AskedFor, Returned, AddrSeen
<1> QED
  BY <1>2, <1>3, <1>4 DEF RInv

LEMMA LoseKeeps == ASSUME RInv, NEW d \in net, Lose(d) PROVE RInv'
<1> USE DEF Lose, tcp
<1>1. FromSomewhere'
  BY DEF RInv, FromSomewhere
<1>2. OneAfter'
  BY DEF RInv, OneAfter
<1>3. Relayed'
  BY DEF RInv, Relayed, Nobody, AskedFor, Returned, AddrSeen
<1> QED
  BY <1>1, <1>2, <1>3 DEF RInv

LEMMA RInvStep == ASSUME RInv, [Socks5Next]_socks5Vars PROVE RInv'
<1>1. CASE UNCHANGED udp
  <2>1. OneAfter'
    BY <1>1 DEF RInv, OneAfter, udp
  <2> QED
    BY <1>1, <2>1, Untouched DEF RInv, udp
<1>2. CASE handleUDPAssociate
  <2>1. OneAfter'
    BY <1>2 DEF RInv, OneAfter, handleUDPAssociate
  <2> QED
    BY <1>2, <2>1, Untouched DEF RInv, handleUDPAssociate
<1>3. CASE MonitorClosed \/ MonitorTimeout
  <2>1. OneAfter'
    BY <1>3 DEF RInv, OneAfter, MonitorClosed, MonitorTimeout, Stop
  <2> QED
    BY <1>3, <2>1, Untouched DEF RInv, MonitorClosed, MonitorTimeout, Stop
<1>4. CASE CheckDone
  <2>1. OneAfter'
    BY <1>4 DEF RInv, OneAfter, CheckDone
  <2> QED
    BY <1>4, <2>1, Untouched DEF RInv, CheckDone
<1>5. CASE ReadFails
  <2>1. OneAfter'
    BY <1>5 DEF RInv, OneAfter, ReadFails
  <2> QED
    BY <1>5, <2>1, Untouched DEF RInv, ReadFails
<1>6. ASSUME NEW d \in net, ReadFrom(d) PROVE RInv'
  BY <1>6, ReadFromKeeps
<1>7. ASSUME NEW d \in net, Lose(d) PROVE RInv'
  BY <1>7, LoseKeeps
<1>8. ASSUME NEW p \in Ports, NEW h \in Hosts \cup {Bad}, Send(p, h) PROVE RInv'
  BY <1>8, SendKeeps
<1>9. ASSUME NEW h \in Hosts, Send(h, "client") PROVE RInv'
  BY <1>9, SendKeeps
<1>10. CASE AcceptTCP \/ Served \/ Leave
  BY <1>10, <1>1 DEF AcceptTCP, Served, Leave, Keep
<1>11. CASE Talks
  BY <1>11, <1>1, <1>2, <1>3
     DEF Talks, Keep, handShake, ReadRequest, Dial, Listen, handleConnect, handleBind, BindReply
<1>12. CASE UNCHANGED socks5Vars
  BY <1>12, <1>1 DEF socks5Vars
<1> QED
  BY <1>3, <1>4, <1>5, <1>6, <1>7, <1>8, <1>9, <1>10, <1>11, <1>12 DEF Socks5Next, Relays

LEMMA RInvAlways == Socks5Spec => []RInv
<1> QED
  BY RInvInit, RInvStep, PTL DEF Socks5Spec

(* Every datagram that goes out was asked for or comes from a host the client
   may have written to, whatever the network loses or reorders; after the end
   of the association one datagram at most is relayed (socks5.go:313-395).   *)
THEOREM OnlyWhatWasSent == Socks5Spec => []RelayedRight
<1>1. RInv => RelayedRight
  BY DEF RInv, OneAfter, Relayed, Nobody, RelayedRight, OneLate
<1> QED
  BY <1>1, RInvAlways, PTL
=============================================================================
