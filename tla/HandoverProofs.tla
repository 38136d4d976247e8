---------------------------- MODULE HandoverProofs ----------------------------
(***************************************************************************)
(* Proofs about what UA3F hands over to the kernel: flows that the         *)
(* firewall no longer queues (CtMark), for every number of packets, flows  *)
(* and destinations and every length of the ladder; and connections whose  *)
(* sockets are in the sockmap (Offload), for every number of chunks and of *)
(* failed system calls.                                                    *)
(***************************************************************************)
EXTENDS CtMark, Offload, FiniteSetTheorems, TLAPS

LEMMA InitType == Init => TypeOK
<1> SUFFICES ASSUME Init PROVE TypeOK
  OBVIOUS
<1>1. kind \in [Packets -> Kinds] /\ verdict \in [Packets -> Verdicts \cup {"exempt"}]
  BY DEF Init, QueueInit, Kinds, Verdicts
<1>2. mark \in [Flows -> Marks] /\ snap \in [Packets -> Marks \cup {Absent}]
  BY DEF Init, Marks
<1> QED
  BY <1>1, <1>2, PacketsAssumption DEF Init, QueueInit, TypeOK

(* The mark a handler gives is on the ladder, or one of the fixed ones. *)
LEMMA NextMarkType ==
    ASSUME TypeOK, NEW i \in Packets, NEW modified \in BOOLEAN, NEW cached \in BOOLEAN
    PROVE  NextMark(i, modified, cached) \in Marks
<1>1. snap[i] \in Marks \cup {Absent} /\ mark[flow[i]] \in Marks
  BY DEF TypeOK
<1>2. snap[i] \in Lower..Upper /\ snap[i] # Upper => snap[i] + 1 \in Lower..Upper
  BY MarkAssumption
<1>3. Lower \in Lower..Upper
  BY MarkAssumption
<1>4. {Lower, NotHTTP, HTTP} \subseteq Marks /\ Lower..Upper \subseteq Marks
  BY <1>3 DEF Marks
<1> QED BY <1>1, <1>2, <1>4 DEF NextMark

LEMMA StepType == TypeOK /\ [Next]_vars => TypeOK'
<1> SUFFICES ASSUME TypeOK, [Next]_vars PROVE TypeOK'
  OBVIOUS
<1> USE DEF TypeOK, queueVars, Packets, DstOf
<1>1. CASE UNCHANGED vars
  BY <1>1 DEF vars
<1>2. CASE Queue
  <2>1. got' \in 0..MaxPackets /\ UNCHANGED <<flow, verdict>>
    BY <1>2, PacketsAssumption DEF Queue, Receive
  <2>2. PICK m \in {mark[flow[got + 1]], Absent} : snap' = [snap EXCEPT ![got + 1] = m]
    BY <1>2 DEF Queue
  <2>3. got + 1 \in Packets
    BY <1>2, PacketsAssumption DEF Queue, Receive
  <2>4. snap' \in [Packets -> Marks \cup {Absent}]
    BY <2>2, <2>3
  <2>5. kind' \in [Packets -> Kinds]
    BY <1>2, <2>3 DEF Queue, Arrives
  <2> QED BY <1>2, <2>1, <2>4, <2>5 DEF Queue
<1>3. CASE PassBy
  BY <1>3, PacketsAssumption DEF PassBy
<1>4. CASE PassFull
  BY <1>4 DEF PassFull, Bypass, Verdicts
<1>5. ASSUME NEW i \in Packets,
             \/ ServeCached(i) \/ ServePlain(i) \/ ServeUA(i) \/ ServeUAFails(i) \/ ServeSkip(i)
      PROVE  TypeOK'
  <2>1. verdict' \in [Packets -> Verdicts \cup {"exempt"}] /\ UNCHANGED <<flow, got, kind, snap, skipset>>
    BY <1>5 DEF ServeCached, ServePlain, ServeUA, ServeUAFails, ServeSkip, Serve, Verdicts
  <2>2. mark' \in [Flows -> Marks]
    <3>1. \/ mark' = mark
          \/ mark' = [mark EXCEPT ![flow[i]] = NotHTTP]
          \/ \E m, c \in BOOLEAN : mark' = [mark EXCEPT ![flow[i]] = NextMark(i, m, c)]
      BY <1>5 DEF ServeCached, ServePlain, ServeUA, ServeUAFails, ServeSkip, SetMark
    <3>2. NotHTTP \in Marks
      BY DEF Marks
    <3> QED BY <3>1, <3>2, NextMarkType
  <2>3. DstOf(i) \in Dsts
    BY DstAssumption
  <2>4. rewritten' \subseteq Packets /\ cache' \subseteq Dsts /\ skipping' \subseteq Dsts
    BY <1>5, <2>3 DEF ServeCached, ServePlain, ServeUA, ServeUAFails, ServeSkip
  <2> QED BY <2>1, <2>2, <2>4
<1>6. ASSUME NEW d \in Dsts, AddSkipIP(d) \/ SkipIPExpires(d) \/ CacheForgets(d)
      PROVE  TypeOK'
  BY <1>6 DEF AddSkipIP, SkipIPExpires, CacheForgets
<1>7. CASE AddSkipDomains
  BY <1>7, DstAssumption DEF AddSkipDomains
<1> QED BY <1>1, <1>2, <1>3, <1>4, <1>5, <1>6, <1>7 DEF Next

(* The types; in particular no mark runs past the end of the ladder
   (server/nfqueue, getNextMark).                                          *)
THEOREM TypeCorrect == Spec => []TypeOK
  BY InitType, StepType, PTL DEF Spec

-----------------------------------------------------------------------------
(* A mark on the ladder, or one a queued packet carries, has behind it as
   many packets of the flow that count as its rung is high.                   *)
W(f) == Cardinality(Sniffed(f))
Rung(m) == m - Lower + 1
Ladder == Upper - Lower + 2
Climbed(d) == \E g \in Flows : Dst[g] = d /\ W(g) >= Ladder
SpokenOn(f) == \E k \in 1..got : flow[k] = f /\ verdict[k] = "served" /\ kind[k] = "skip"
SpokenTo(d) == \E k \in 1..got : verdict[k] = "served" /\ kind[k] = "skip" /\ DstOf(k) = d

MarkHasRungs == \A f \in Flows : mark[f] \in Lower..Upper => W(f) >= Rung(mark[f])
SnapHasRungs == \A i \in Packets : snap[i] \in Lower..Upper => W(flow[i]) >= Rung(snap[i])
MarkHasCause == \A f \in Flows : mark[f] = NotHTTP => SpokenOn(f) \/ Climbed(Dst[f])
CacheHasCause == \A d \in cache : Climbed(d)
Skipped == skipping \cup (skipset \ SkipDomains)
SkipHasCause == \A d \in Skipped : SpokenTo(d)
FutureUndecided == \A i \in Packets : i > got => verdict[i] = "none"

IInv == /\ TypeOK /\ MarkHasRungs /\ SnapHasRungs /\ MarkHasCause
        /\ CacheHasCause /\ SkipHasCause /\ FutureUndecided

LEMMA SniffedFinite ==
    ASSUME TypeOK, NEW f
    PROVE  IsFiniteSet(Sniffed(f)) /\ W(f) \in Nat
<1>1. IsFiniteSet(1..got)
  BY FS_Interval DEF TypeOK
<1>2. IsFiniteSet(Sniffed(f))
  BY <1>1, FS_Subset DEF Sniffed
<1> QED BY <1>2, FS_CardinalityType DEF W

(* A decided packet stays decided, and its kind does not change. *)
LEMMA DecidedStays ==
    ASSUME TypeOK, TypeOK', FutureUndecided, [Next]_vars
    PROVE  /\ flow' = flow /\ got <= got'
           /\ \A k \in 1..got : verdict[k] = "served" =>
                 verdict'[k] = "served" /\ kind'[k] = kind[k] /\ snap'[k] = snap[k]
<1>0. got \in Nat /\ MaxPackets \in Nat /\ 1..got \subseteq Packets
  BY PacketsAssumption DEF TypeOK, Packets
<1> DEFINE Goal == /\ flow' = flow /\ got <= got'
                   /\ \A k \in 1..got : verdict[k] = "served" =>
                         verdict'[k] = "served" /\ kind'[k] = kind[k] /\ snap'[k] = snap[k]
<1>1. ASSUME UNCHANGED vars PROVE Goal
  BY <1>0, <1>1 DEF vars, queueVars
<1>2. ASSUME Queue PROVE Goal
  <2>1. flow' = flow /\ verdict' = verdict /\ got' = got + 1
    BY <1>2 DEF Queue, Receive
  <2>2. PICK c \in Kinds : kind' = [kind EXCEPT ![got + 1] = c]
    BY <1>2 DEF Queue, Arrives
  <2>3. \A k \in 1..got : kind'[k] = kind[k]
    BY <1>0, <2>2 DEF TypeOK
  <2>4. PICK m \in {mark[flow[got + 1]], Absent} : snap' = [snap EXCEPT ![got + 1] = m]
    BY <1>2 DEF Queue
  <2>5. \A k \in 1..got : snap'[k] = snap[k]
    BY <1>0, <2>4 DEF TypeOK
  <2> QED BY <1>0, <2>1, <2>3, <2>5
<1>3. ASSUME PassBy PROVE Goal
  BY <1>0, <1>3 DEF PassBy, TypeOK
<1>4. ASSUME PassFull PROVE Goal
  <2>1. /\ UNCHANGED <<flow, got, kind, snap>> /\ verdict[got] = "none"
        /\ verdict' = [verdict EXCEPT ![got] = "bypassed"]
    BY <1>4 DEF PassFull, Bypass
  <2>2. \A k \in 1..got : verdict[k] = "served" => verdict'[k] = "served"
    BY <1>0, <2>1 DEF TypeOK
  <2> QED BY <1>0, <2>1, <2>2
<1>5. ASSUME NEW i \in Packets,
             \/ ServeCached(i) \/ ServePlain(i) \/ ServeUA(i) \/ ServeUAFails(i) \/ ServeSkip(i)
      PROVE  Goal
  <2>1. UNCHANGED <<flow, got, kind, snap>> /\ verdict' = [verdict EXCEPT ![i] = "served"]
    BY <1>5 DEF ServeCached, ServePlain, ServeUA, ServeUAFails, ServeSkip, Serve
  <2>2. \A k \in 1..got : verdict[k] = "served" => verdict'[k] = "served"
    BY <1>0, <2>1 DEF TypeOK
  <2> QED BY <1>0, <2>1, <2>2
<1>6. ASSUME NEW d \in Dsts, AddSkipIP(d) \/ SkipIPExpires(d) \/ CacheForgets(d)
      PROVE  Goal
  BY <1>0, <1>6 DEF AddSkipIP, SkipIPExpires, CacheForgets, queueVars
<1>7. ASSUME AddSkipDomains PROVE Goal
  BY <1>0, <1>7 DEF AddSkipDomains, queueVars
<1> QED BY <1>1, <1>2, <1>3, <1>4, <1>5, <1>6, <1>7 DEF Next

(* So what was counted stays counted, and every cause stays one. *)
LEMMA CausesStay ==
    ASSUME TypeOK, TypeOK', FutureUndecided, [Next]_vars
    PROVE  /\ \A f \in Flows : W(f)' >= W(f) /\ (SpokenOn(f) => SpokenOn(f)')
           /\ \A d \in Dsts : (SpokenTo(d) => SpokenTo(d)') /\ (Climbed(d) => Climbed(d)')
<1>1. /\ flow' = flow /\ got <= got'
      /\ \A k \in 1..got : verdict[k] = "served" =>
            verdict'[k] = "served" /\ kind'[k] = kind[k] /\ snap'[k] = snap[k]
  BY DecidedStays
<1>2. 1..got \subseteq 1..got' /\ IsFiniteSet(1..got')
  BY <1>1, FS_Interval, PacketsAssumption DEF TypeOK
<1>3. ASSUME NEW f \in Flows PROVE W(f)' >= W(f)
  <2>1. Sniffed(f) \subseteq Sniffed(f)'
    BY <1>1, <1>2 DEF Sniffed
  <2>2. IsFiniteSet(Sniffed(f)')
    <3>1. Sniffed(f)' \subseteq 1..got'
      BY DEF Sniffed
    <3> QED BY <1>2, <3>1, FS_Subset
  <2>3. Cardinality(Sniffed(f)) <= Cardinality(Sniffed(f)')
    BY <2>1, <2>2, FS_Subset
  <2>4. W(f) \in Nat /\ W(f)' \in Nat
    BY <2>2, SniffedFinite, FS_CardinalityType DEF W
  <2> QED BY <2>3, <2>4 DEF W
<1>4. \A f \in Flows : SpokenOn(f) => SpokenOn(f)'
  BY <1>1, <1>2 DEF SpokenOn
<1>5. \A d \in Dsts : SpokenTo(d) => SpokenTo(d)'
  BY <1>1, <1>2 DEF SpokenTo, DstOf
<1>6. ASSUME NEW d \in Dsts, Climbed(d) PROVE Climbed(d)'
  <2>1. PICK g \in Flows : Dst[g] = d /\ W(g) >= Ladder
    BY <1>6 DEF Climbed
  <2>2. W(g) \in Nat /\ W(g)' \in Nat /\ W(g)' >= W(g)
    <3>1. IsFiniteSet(Sniffed(g)')
      <4>1. Sniffed(g)' \subseteq 1..got'
        BY DEF Sniffed
      <4> QED BY <1>2, <4>1, FS_Subset
    <3> QED BY <1>3, <3>1, SniffedFinite, FS_CardinalityType DEF W
  <2>3. W(g)' >= Ladder
    BY <2>1, <2>2, MarkAssumption DEF Ladder
  <2> QED BY <2>1, <2>3 DEF Climbed, Ladder
<1> QED BY <1>3, <1>4, <1>5, <1>6

(* Every decision counts on a packet that found nothing or had no mark. *)
LEMMA ServeCounts ==
    ASSUME TypeOK, NEW i \in Packets, Serve(i), UNCHANGED <<kind, snap>>,
           kind[i] = "plain" \/ snap[i] = Absent
    PROVE  W(flow[i])' = W(flow[i]) + 1
<1> DEFINE f == flow[i]
<1>1. verdict' = [verdict EXCEPT ![i] = "served"] /\ verdict[i] = "none" /\ i <= got
      /\ UNCHANGED <<flow, got>>
  BY DEF Serve
<1>2. i \in 1..got /\ 1..got \subseteq Packets
  BY <1>1, PacketsAssumption DEF Packets, TypeOK
<1>3. i \notin Sniffed(f)
  BY <1>1 DEF Sniffed
<1>4. Sniffed(f)' = Sniffed(f) \cup {i}
  <2>1. \A k \in 1..got : verdict'[k] = IF k = i THEN "served" ELSE verdict[k]
    BY <1>1, <1>2 DEF TypeOK
  <2> QED BY <1>1, <1>2, <2>1 DEF Sniffed
<1>5. IsFiniteSet(Sniffed(f))
  BY SniffedFinite
<1>6. Cardinality(Sniffed(f) \cup {i}) = Cardinality(Sniffed(f)) + 1
  BY <1>3, <1>5, FS_AddElement
<1> QED BY <1>1, <1>4, <1>6 DEF W

LEMMA InitInv == Init => IInv
<1> SUFFICES ASSUME Init PROVE IInv
  OBVIOUS
<1>1. \A f : Sniffed(f) = {}
  BY DEF Init, QueueInit, Sniffed
<1>2. MarkHasRungs /\ SnapHasRungs /\ MarkHasCause
  BY MarkAssumption DEF Init, MarkHasRungs, SnapHasRungs, MarkHasCause, NotHTTP, HTTP, Foreign, Absent
<1>3. CacheHasCause /\ SkipHasCause /\ FutureUndecided
  BY DEF Init, QueueInit, CacheHasCause, SkipHasCause, Skipped, FutureUndecided
<1> QED BY InitType, <1>2, <1>3 DEF IInv

(* The handler's step: the new mark is one rung up, or has its cause. *)
LEMMA NextMarkHasCause ==
    ASSUME IInv, NEW i \in Packets, NEW f \in Flows, f = flow[i], Serve(i), TypeOK',
           NEW modified \in BOOLEAN, NEW cached \in BOOLEAN, cached => DstOf(i) \in cache,
           ~modified /\ ~cached => kind[i] = "plain", UNCHANGED <<kind, snap>>,
           [Next]_vars
    PROVE  LET m == NextMark(i, modified, cached)
           IN  /\ m \in Lower..Upper => W(f)' >= Rung(m)
               /\ m = NotHTTP => SpokenOn(f)' \/ Climbed(Dst[f])'
<1> DEFINE m == NextMark(i, modified, cached)
<1>1. snap[i] \in Marks \cup {Absent} /\ mark[f] \in Marks
  BY DEF IInv, TypeOK
<1>2. W(f)' >= W(f) /\ W(f) \in Nat /\ W(f)' \in Nat /\ UNCHANGED <<flow, got>>
  <2>1. UNCHANGED <<flow, got>> /\ TypeOK
    BY DEF IInv, Serve
  <2>2. IsFiniteSet(1..got') /\ Sniffed(f)' \subseteq 1..got'
    BY FS_Interval DEF TypeOK, Sniffed
  <2>3. W(f)' \in Nat
    BY <2>2, FS_Subset, FS_CardinalityType DEF W
  <2> QED BY <2>1, <2>3, SniffedFinite, CausesStay DEF IInv
<1>11. kind[i] = "plain" \/ snap[i] = Absent => W(f)' = W(f) + 1
  <2>1. UNCHANGED flow /\ TypeOK
    BY DEF IInv, Serve
  <2> QED BY <2>1, ServeCounts DEF W, Sniffed
<1>3. /\ SpokenOn(f) => SpokenOn(f)'
      /\ Climbed(Dst[f]) => Climbed(Dst[f])'
  BY <1>1, CausesStay, DstAssumption DEF IInv
<1>4. CASE m = mark[f] /\ snap[i] \in {HTTP, NotHTTP, Foreign}
  <2>1. m \in Lower..Upper => W(f) >= Rung(m)
    BY <1>1, <1>4 DEF IInv, MarkHasRungs
  <2>2. m = NotHTTP => SpokenOn(f) \/ Climbed(Dst[f])
    BY <1>1, <1>4 DEF IInv, MarkHasCause
  <2>3. m \in Lower..Upper => W(f)' >= Rung(m)
    BY <1>2, <2>1, MarkAssumption DEF Rung
  <2> QED BY <1>2, <1>3, <2>2, <2>3
<1>5. CASE cached /\ m = NotHTTP
  <2>1. Climbed(Dst[f])
    BY <1>5 DEF IInv, CacheHasCause, DstOf
  <2>2. m \notin Lower..Upper
    <3>1. NotHTTP \notin Lower..Upper
      BY MarkAssumption DEF NotHTTP, HTTP
    <3> QED BY <1>5, <3>1
  <2> QED BY <1>2, <1>3, <2>1, <2>2
<1>6. CASE m = HTTP
  BY <1>6, MarkAssumption DEF NotHTTP, HTTP
<1>7. CASE m = Lower /\ (snap[i] = Absent \/ (~modified /\ ~cached))
  <2>1. W(f)' >= Rung(m) /\ m # NotHTTP
    BY <1>2, <1>7, <1>11, MarkAssumption DEF NotHTTP, HTTP, Rung
  <2> QED BY <2>1
<1>8. CASE snap[i] = Upper /\ m = NotHTTP /\ ~modified /\ ~cached
  <2>1. W(f) >= Rung(Upper)
    BY <1>8, MarkAssumption DEF IInv, SnapHasRungs
  <2>2. W(f)' >= Ladder
    BY <1>2, <1>8, <1>11, <2>1, MarkAssumption DEF Ladder, Rung
  <2>3. Climbed(Dst[f])'
    BY <1>1, <1>2, <2>2 DEF Climbed, Ladder
  <2>4. m \notin Lower..Upper
    BY <1>8, MarkAssumption DEF NotHTTP, HTTP
  <2> QED BY <1>2, <2>3, <2>4
<1>9. CASE snap[i] \in Lower..Upper /\ m = snap[i] + 1 /\ ~modified /\ ~cached
  <2>1. W(f) >= Rung(snap[i])
    BY <1>9 DEF IInv, SnapHasRungs
  <2>2. W(f)' >= Rung(m) /\ m # NotHTTP
    BY <1>2, <1>9, <1>11, <2>1, MarkAssumption DEF Rung, NotHTTP, HTTP
  <2> QED BY <2>2
<1>10. snap[i] \in {0, Foreign, HTTP, NotHTTP, Absent} \cup Lower..Upper
  BY <1>1 DEF Marks
<1>12. snap[i] = Absent => m = Lower
  BY DEF NextMark
<1>13. snap[i] \in {HTTP, NotHTTP} => m = mark[f]
  BY DEF NextMark, Absent, HTTP, NotHTTP
<1>14. snap[i] \notin {Absent, HTTP, NotHTTP} /\ (cached \/ modified) =>
          m = HTTP \/ (cached /\ m = NotHTTP)
  BY DEF NextMark
<1>15. snap[i] = 0 /\ ~cached /\ ~modified => m = Lower
  BY DEF NextMark, Absent, HTTP, NotHTTP
<1>16. snap[i] = Foreign /\ ~cached /\ ~modified => m = mark[f]
  BY MarkAssumption DEF NextMark, Absent, HTTP, NotHTTP, Foreign
<1>17. snap[i] \in Lower..Upper /\ ~cached /\ ~modified =>
          (snap[i] = Upper /\ m = NotHTTP) \/ m = snap[i] + 1
  BY MarkAssumption DEF NextMark, Absent, HTTP, NotHTTP
<1> HIDE DEF m
<1> QED BY <1>4, <1>5, <1>6, <1>7, <1>8, <1>9, <1>10, <1>12, <1>13, <1>14, <1>15, <1>16, <1>17 DEF m

(* Steps that set no mark and remember nothing new. *)
LEMMA QuietStep ==
    ASSUME IInv, TypeOK', [Next]_vars, mark' = mark, cache' \subseteq cache,
           \A i \in Packets : snap'[i] = snap[i] \/ snap'[i] = mark[flow[i]] \/ snap'[i] = Absent,
           Skipped' \subseteq Skipped
    PROVE  MarkHasRungs' /\ SnapHasRungs' /\ MarkHasCause' /\ CacheHasCause' /\ SkipHasCause'
<1>0. TypeOK /\ FutureUndecided /\ Packets' = Packets
  BY DEF IInv, Packets
<1>1. flow' = flow
  BY <1>0, DecidedStays
<1>2. \A f \in Flows : W(f) \in Nat /\ W(f)' \in Nat /\ W(f)' >= W(f) /\ (SpokenOn(f) => SpokenOn(f)')
  <2>1. \A f \in Flows : W(f) \in Nat
    BY <1>0, SniffedFinite
  <2>2. \A f \in Flows : W(f)' \in Nat
    <3>1. IsFiniteSet(1..got')
      BY FS_Interval DEF TypeOK
    <3>2. \A f \in Flows : IsFiniteSet(Sniffed(f)')
      BY <3>1, FS_Subset DEF Sniffed
    <3> QED BY <3>2, FS_CardinalityType DEF W
  <2> QED BY <1>0, <2>1, <2>2, CausesStay
<1>3. \A d \in Dsts : (SpokenTo(d) => SpokenTo(d)') /\ (Climbed(d) => Climbed(d)')
  BY <1>0, CausesStay
<1>4. \A f \in Flows : mark[f] \in Lower..Upper => W(f)' >= Rung(mark[f])
  BY <1>2, MarkAssumption DEF IInv, MarkHasRungs, Rung
<1>5. MarkHasRungs'
  BY <1>4 DEF MarkHasRungs, Rung
<1>6. SnapHasRungs'
  <2> SUFFICES ASSUME NEW i \in Packets, snap'[i] \in Lower..Upper
               PROVE  W(flow[i])' >= Rung(snap'[i])
    BY <1>0 DEF SnapHasRungs, Rung
  <2>1. PICK f \in Flows : f = flow[i] /\ f = flow'[i]
    BY <1>0, <1>1 DEF TypeOK
  <2>2. CASE snap'[i] = snap[i]
    <3>1. W(f) >= Rung(snap[i])
      BY <2>1, <2>2 DEF IInv, SnapHasRungs
    <3>2. W(f)' >= Rung(snap'[i])
      BY <1>2, <2>2, <3>1, MarkAssumption DEF Rung
    <3> QED BY <2>1, <3>2 DEF W, Sniffed
  <2>3. CASE snap'[i] = mark[f]
    <3>1. W(f)' >= Rung(snap'[i])
      BY <1>4, <2>3
    <3> QED BY <2>1, <3>1 DEF W, Sniffed
  <2>4. snap'[i] # Absent
    BY MarkAssumption DEF Absent, HTTP
  <2> QED BY <2>1, <2>2, <2>3, <2>4
<1>7. MarkHasCause'
  BY <1>2, <1>3, DstAssumption DEF IInv, MarkHasCause
<1>8. CacheHasCause'
  BY <1>0, <1>3 DEF IInv, CacheHasCause, TypeOK
<1>9. SkipHasCause'
  BY <1>0, <1>3 DEF IInv, SkipHasCause, Skipped, TypeOK
<1> QED BY <1>5, <1>6, <1>7, <1>8, <1>9

(* Steps of the handler on a flow f that give it a mark with its cause. *)
LEMMA MarkStep ==
    ASSUME IInv, TypeOK', [Next]_vars, NEW f \in Flows, NEW m \in Marks,
           mark' = [mark EXCEPT ![f] = m], snap' = snap,
           m \in Lower..Upper => W(f)' >= Rung(m),
           m = NotHTTP => SpokenOn(f)' \/ Climbed(Dst[f])'
    PROVE  MarkHasRungs' /\ SnapHasRungs' /\ MarkHasCause'
<1>0. TypeOK /\ FutureUndecided /\ Packets' = Packets
  BY DEF IInv, Packets
<1>1. flow' = flow
  BY <1>0, DecidedStays
<1>2. \A g \in Flows : W(g) \in Nat /\ W(g)' \in Nat /\ W(g)' >= W(g) /\ (SpokenOn(g) => SpokenOn(g)')
  <2>1. \A g \in Flows : W(g) \in Nat
    BY <1>0, SniffedFinite
  <2>2. \A g \in Flows : W(g)' \in Nat
    <3>1. IsFiniteSet(1..got')
      BY FS_Interval DEF TypeOK
    <3>2. \A g \in Flows : IsFiniteSet(Sniffed(g)')
      BY <3>1, FS_Subset DEF Sniffed
    <3> QED BY <3>2, FS_CardinalityType DEF W
  <2> QED BY <1>0, <2>1, <2>2, CausesStay
<1>3. \A d \in Dsts : Climbed(d) => Climbed(d)'
  BY <1>0, CausesStay
<1>4. \A g \in Flows : mark'[g] = IF g = f THEN m ELSE mark[g]
  BY <1>0 DEF TypeOK
<1>5. MarkHasRungs'
  <2> SUFFICES ASSUME NEW g \in Flows, mark'[g] \in Lower..Upper PROVE W(g)' >= Rung(mark'[g])
    BY DEF MarkHasRungs, Rung
  <2>1. CASE g = f
    BY <1>4, <2>1
  <2>2. CASE g # f
    <3>1. W(g) >= Rung(mark[g])
      BY <1>4, <2>2 DEF IInv, MarkHasRungs
    <3> QED BY <1>2, <1>4, <2>2, <3>1, MarkAssumption DEF Rung
  <2> QED BY <2>1, <2>2
<1>6. SnapHasRungs'
  <2> SUFFICES ASSUME NEW i \in Packets, snap[i] \in Lower..Upper
               PROVE  W(flow[i])' >= Rung(snap[i])
    BY <1>0 DEF SnapHasRungs, Rung
  <2>1. PICK g \in Flows : g = flow[i] /\ g = flow'[i]
    BY <1>0, <1>1 DEF TypeOK
  <2>2. W(g) >= Rung(snap[i])
    BY <2>1 DEF IInv, SnapHasRungs
  <2>3. W(g)' >= Rung(snap[i])
    BY <1>2, <2>2, MarkAssumption DEF Rung
  <2> QED BY <2>1, <2>3 DEF W, Sniffed
<1>7. MarkHasCause'
  <2> SUFFICES ASSUME NEW g \in Flows, mark'[g] = NotHTTP PROVE SpokenOn(g)' \/ Climbed(Dst[g])'
    BY DEF MarkHasCause
  <2>1. CASE g = f
    BY <1>4, <2>1
  <2>2. CASE g # f
    <3>1. SpokenOn(g) \/ Climbed(Dst[g])
      BY <1>4, <2>2 DEF IInv, MarkHasCause
    <3> QED BY <1>2, <1>3, <3>1, DstAssumption
  <2> QED BY <2>1, <2>2
<1> QED BY <1>5, <1>6, <1>7

LEMMA FutureStep == TypeOK /\ FutureUndecided /\ [Next]_vars => FutureUndecided'
<1> SUFFICES ASSUME TypeOK, FutureUndecided, [Next]_vars PROVE FutureUndecided'
  OBVIOUS
<1> USE PacketsAssumption DEF TypeOK, FutureUndecided, Packets
<1>1. CASE UNCHANGED vars
  BY <1>1 DEF vars, queueVars
<1>2. CASE Queue
  BY <1>2 DEF Queue, Receive
<1>3. CASE PassBy
  BY <1>3 DEF PassBy
<1>4. CASE PassFull
  BY <1>4 DEF PassFull, Bypass
<1>5. ASSUME NEW i \in Packets,
             \/ ServeCached(i) \/ ServePlain(i) \/ ServeUA(i) \/ ServeUAFails(i) \/ ServeSkip(i)
      PROVE  FutureUndecided'
  <2>1. got' = got /\ i <= got /\ verdict' = [verdict EXCEPT ![i] = "served"]
    BY <1>5 DEF ServeCached, ServePlain, ServeUA, ServeUAFails, ServeSkip, Serve
  <2> QED BY <2>1
<1>6. ASSUME NEW d \in Dsts, AddSkipIP(d) \/ SkipIPExpires(d) \/ CacheForgets(d)
      PROVE  FutureUndecided'
  BY <1>6 DEF AddSkipIP, SkipIPExpires, CacheForgets, queueVars
<1>7. CASE AddSkipDomains
  BY <1>7 DEF AddSkipDomains, queueVars
<1> QED BY <1>1, <1>2, <1>3, <1>4, <1>5, <1>6, <1>7 DEF Next

LEMMA StepInv == IInv /\ [Next]_vars => IInv'
<1> SUFFICES ASSUME IInv, [Next]_vars PROVE IInv'
  OBVIOUS
<1>0. TypeOK /\ TypeOK' /\ FutureUndecided /\ FutureUndecided'
  BY StepType, FutureStep DEF IInv
<1> DEFINE Rest == MarkHasRungs' /\ SnapHasRungs' /\ MarkHasCause' /\ CacheHasCause' /\ SkipHasCause'
<1>1. ASSUME UNCHANGED vars PROVE Rest
  BY <1>0, <1>1, QuietStep DEF vars, Skipped
<1>2. ASSUME Queue PROVE Rest
  <2>1. PICK m \in {mark[flow[got + 1]], Absent} : snap' = [snap EXCEPT ![got + 1] = m]
    BY <1>2 DEF Queue
  <2>2. \A i \in Packets : snap'[i] = snap[i] \/ snap'[i] = mark[flow[i]] \/ snap'[i] = Absent
    BY <1>0, <2>1 DEF TypeOK
  <2>3. mark' = mark /\ cache' = cache /\ skipping' = skipping /\ skipset' = skipset
    BY <1>2 DEF Queue
  <2> QED BY <1>0, <2>2, <2>3, QuietStep DEF Skipped
<1>3. ASSUME PassBy \/ PassFull PROVE Rest
  BY <1>0, <1>3, QuietStep DEF PassBy, PassFull, Skipped
<1>4. ASSUME NEW i \in Packets, ServeUAFails(i) PROVE Rest
  BY <1>0, <1>4, QuietStep DEF ServeUAFails, Skipped
<1>5. ASSUME \/ \E d \in Dsts : AddSkipIP(d) \/ SkipIPExpires(d) \/ CacheForgets(d)
             \/ AddSkipDomains
      PROVE  Rest
  <2>1. mark' = mark /\ snap' = snap /\ cache' \subseteq cache
    BY <1>5 DEF AddSkipIP, SkipIPExpires, CacheForgets, AddSkipDomains
  <2>2. Skipped' \subseteq Skipped
    BY <1>5 DEF AddSkipIP, SkipIPExpires, CacheForgets, AddSkipDomains, Skipped
  <2> QED BY <1>0, <2>1, <2>2, QuietStep
(* The remaining steps of the handler give packet i's flow a mark. *)
<1>6. ASSUME NEW i \in Packets, Serve(i), NEW f \in Flows, f = flow[i], NEW m \in Marks,
             SetMark(i, m), snap' = snap, kind' = kind,
             m \in Lower..Upper => W(f)' >= Rung(m),
             m = NotHTTP => SpokenOn(f)' \/ Climbed(Dst[f])'
      PROVE  MarkHasRungs' /\ SnapHasRungs' /\ MarkHasCause'
  BY <1>0, <1>6, MarkStep DEF SetMark
<1>7. flow' = flow /\ \A d \in Dsts : (SpokenTo(d) => SpokenTo(d)') /\ (Climbed(d) => Climbed(d)')
  BY <1>0, DecidedStays, CausesStay
<1>8. ASSUME cache' = cache PROVE CacheHasCause'
  BY <1>0, <1>7, <1>8 DEF IInv, CacheHasCause, TypeOK
<1>9. ASSUME skipping' = skipping, skipset' = skipset PROVE SkipHasCause'
  BY <1>0, <1>7, <1>9 DEF IInv, SkipHasCause, Skipped, TypeOK
<1>10. ASSUME NEW i \in Packets, ServeUA(i) PROVE Rest
  <2>1. PICK f \in Flows : f = flow[i]
    BY <1>0 DEF TypeOK
  <2>2. /\ Serve(i) /\ UNCHANGED <<kind, snap, cache, skipping, skipset>>
        /\ SetMark(i, NextMark(i, TRUE, FALSE))
    BY <1>10 DEF ServeUA
  <2>3. NextMark(i, TRUE, FALSE) \in Marks
    BY <1>0, NextMarkType
  <2>4. MarkHasRungs' /\ SnapHasRungs' /\ MarkHasCause'
    <3> DEFINE m == NextMark(i, TRUE, FALSE)
    <3>1. /\ m \in Lower..Upper => W(f)' >= Rung(m)
          /\ m = NotHTTP => SpokenOn(f)' \/ Climbed(Dst[f])'
      BY <1>0, <2>1, <2>2, NextMarkHasCause
    <3> HIDE DEF m
    <3> QED BY <1>6, <2>1, <2>2, <2>3, <3>1 DEF m
  <2> QED BY <1>8, <1>9, <2>2, <2>4
<1>11. ASSUME NEW i \in Packets, ServeCached(i) PROVE Rest
  <2>1. PICK f \in Flows : f = flow[i]
    BY <1>0 DEF TypeOK
  <2>2. /\ Serve(i) /\ DstOf(i) \in cache /\ UNCHANGED <<kind, snap, cache, skipping, skipset>>
        /\ SetMark(i, NextMark(i, FALSE, TRUE))
    BY <1>11 DEF ServeCached
  <2>3. NextMark(i, FALSE, TRUE) \in Marks
    BY <1>0, NextMarkType
  <2>4. MarkHasRungs' /\ SnapHasRungs' /\ MarkHasCause'
    <3> DEFINE m == NextMark(i, FALSE, TRUE)
    <3>1. /\ m \in Lower..Upper => W(f)' >= Rung(m)
          /\ m = NotHTTP => SpokenOn(f)' \/ Climbed(Dst[f])'
      BY <1>0, <2>1, <2>2, NextMarkHasCause
    <3> HIDE DEF m
    <3> QED BY <1>6, <2>1, <2>2, <2>3, <3>1 DEF m
  <2> QED BY <1>8, <1>9, <2>2, <2>4
<1>12. ASSUME NEW i \in Packets, ServePlain(i) PROVE Rest
  <2>1. PICK f \in Flows : f = flow[i]
    BY <1>0 DEF TypeOK
  <2>2. /\ Serve(i) /\ kind[i] = "plain" /\ UNCHANGED <<kind, snap, skipping, skipset>>
        /\ SetMark(i, NextMark(i, FALSE, FALSE))
    BY <1>12 DEF ServePlain
  <2>3. NextMark(i, FALSE, FALSE) \in Marks
    BY <1>0, NextMarkType
  <2>4. MarkHasRungs' /\ SnapHasRungs' /\ MarkHasCause'
    BY <1>0, <1>6, <2>1, <2>2, <2>3, NextMarkHasCause
  <2>5. CacheHasCause'
    <3>1. CASE cache' = cache
      BY <1>8, <3>1
    <3>2. CASE snap[i] = Upper /\ cache' = cache \cup {DstOf(i)}
      <4>1. W(f) >= Rung(Upper) /\ W(f) \in Nat
        BY <1>0, <2>1, <3>2, MarkAssumption, SniffedFinite DEF IInv, SnapHasRungs
      <4>2. W(f)' = W(f) + 1
        BY <1>0, <2>1, <2>2, ServeCounts, <1>7 DEF W, Sniffed
      <4>3. W(f)' >= Ladder
        BY <4>1, <4>2, MarkAssumption DEF Ladder, Rung
      <4>4. Climbed(Dst[f])'
        BY <4>3 DEF Climbed, Ladder
      <4>5. \A d \in cache : Climbed(d)'
        BY <1>0, <1>7 DEF IInv, CacheHasCause, TypeOK
      <4>6. DstOf(i) = Dst[f]
        BY <2>1 DEF DstOf
      <4>7. \A d \in cache' : Climbed(d)'
        BY <3>2, <4>4, <4>5, <4>6
      <4> QED BY <4>7 DEF CacheHasCause
    <3> QED BY <1>12, <3>1, <3>2 DEF ServePlain
  <2> QED BY <1>9, <2>2, <2>4, <2>5
<1>13. ASSUME NEW i \in Packets, ServeSkip(i) PROVE Rest
  <2>1. PICK f \in Flows : f = flow[i]
    BY <1>0 DEF TypeOK
  <2>2. /\ Serve(i) /\ kind[i] = "skip" /\ UNCHANGED <<kind, snap, cache, skipset>>
        /\ SetMark(i, NotHTTP) /\ skipping' \subseteq skipping \cup {DstOf(i)}
    BY <1>13 DEF ServeSkip
  <2>3. i \in 1..got' /\ verdict'[i] = "served" /\ kind'[i] = "skip"
    BY <1>0, <2>2, PacketsAssumption DEF Serve, Packets, TypeOK
  <2> DEFINE e == Dst[f]
  <2>4. SpokenOn(f)' /\ SpokenTo(e)'
    BY <1>7, <2>1, <2>3 DEF SpokenOn, SpokenTo, DstOf
  <2>5. NotHTTP \in Marks /\ NotHTTP \notin Lower..Upper
    BY MarkAssumption DEF Marks, NotHTTP, HTTP
  <2>6. MarkHasRungs' /\ SnapHasRungs' /\ MarkHasCause'
    <3>1. SetMark(i, NotHTTP) /\ Serve(i) /\ snap' = snap /\ kind' = kind
      BY <2>2
    <3> HIDE DEF NotHTTP
    <3> QED BY <1>6, <2>1, <2>4, <2>5, <3>1
  <2>7. SkipHasCause'
    <3>1. \A d \in Skipped : SpokenTo(d)'
      BY <1>0, <1>7 DEF IInv, SkipHasCause, Skipped, TypeOK
    <3>2. \A d \in Skipped' : d \in Skipped \/ d = e
      BY <2>1, <2>2 DEF DstOf, Skipped
    <3>3. \A d \in Skipped' : SpokenTo(d)'
      BY <2>4, <3>1, <3>2
    <3> QED BY <3>3 DEF SkipHasCause
  <2> QED BY <1>8, <2>2, <2>6, <2>7
<1>14. Rest
  BY <1>1, <1>2, <1>3, <1>4, <1>5, <1>10, <1>11, <1>12, <1>13 DEF Next
<1> QED BY <1>0, <1>14 DEF IInv

LEMMA AlwaysInv == Spec => []IInv
  BY InitInv, StepInv, PTL DEF Spec

(* Whatever packets wait in the queue together and in whatever order the
   flows are served, a flow is marked NotHTTP only for the exempted client
   or when a flow to its destination climbed a whole ladder of packets that
   were queued unmarked or held no User-Agent; and the firewall's set holds
   only addresses the exempted client spoke to and those of SKIP_DOMAINS
   (server/nfqueue, getNextMark, handlePacket and nftWatch).               *)
THEOREM ExemptionHasCause == Spec => []ExemptHasCause
<1>1. IInv => ExemptHasCause
  BY DEF IInv, MarkHasCause, SkipHasCause, Skipped, SpokenOn, SpokenTo, Climbed, W, Ladder, ExemptHasCause
<1> QED BY <1>1, AlwaysInv, PTL

(* Only a packet queued before the flow was marked HTTP, or the exempted
   client, can take that mark away again.                                  *)
THEOREM HTTPMarkSticks == Spec => HTTPSticks
<1> DEFINE Kept(f) == mark[f] = HTTP /\ mark'[f] # HTTP =>
              \E i \in Packets : /\ flow[i] = f /\ verdict'[i] # verdict[i]
                                 /\ snap[i] # HTTP \/ kind[i] = "skip"
<1>1. ASSUME TypeOK, [Next]_vars, NEW f \in Flows PROVE Kept(f)
  <2>1. ASSUME NEW i \in Packets, NEW m \in Marks, Serve(i), SetMark(i, m),
               m = mark[flow[i]] \/ snap[i] # HTTP \/ kind[i] = "skip"
        PROVE  Kept(f)
    <3>1. verdict'[i] # verdict[i]
      BY <1>1, <2>1 DEF Serve, TypeOK
    <3> QED BY <1>1, <2>1, <3>1 DEF SetMark, TypeOK
  <2>2. ASSUME NEW i \in Packets, NEW a \in BOOLEAN, NEW b \in BOOLEAN
        PROVE  NextMark(i, a, b) = mark[flow[i]] \/ snap[i] # HTTP
    BY MarkAssumption DEF NextMark, HTTP, Absent
  <2>3. ASSUME NEW i \in Packets, ServeCached(i) \/ ServePlain(i) \/ ServeUA(i) \/ ServeSkip(i)
        PROVE  Kept(f)
    <3>1. Serve(i)
      BY <2>3 DEF ServeCached, ServePlain, ServeUA, ServeSkip
    <3>2. CASE ServeSkip(i)
      <4>1. NotHTTP \in Marks
        BY DEF Marks
      <4> QED BY <2>1, <3>1, <3>2, <4>1 DEF ServeSkip
    <3>3. CASE ~ServeSkip(i)
      <4>1. PICK a \in BOOLEAN, b \in BOOLEAN : SetMark(i, NextMark(i, a, b))
        BY <2>3, <3>3 DEF ServeCached, ServePlain, ServeUA
      <4>2. NextMark(i, a, b) \in Marks
        BY <1>1, NextMarkType
      <4> QED BY <2>1, <2>2, <3>1, <4>1, <4>2
    <3> QED BY <3>2, <3>3
  <2>4. CASE mark' = mark
    BY <2>4
  <2> QED
    BY <1>1, <2>3, <2>4
    DEF Next, vars, Queue, PassBy, PassFull, ServeUAFails, AddSkipIP, SkipIPExpires, CacheForgets, AddSkipDomains
<1>2. TypeOK /\ [Next]_vars => [\A f \in Flows : Kept(f)]_vars
  BY <1>1
<1> QED BY <1>2, TypeCorrect, PTL DEF Spec, HTTPSticks

-----------------------------------------------------------------------------
(* Offload.  A chunk is in one of five sequences of its sender, or dropped; and
   that each number is in one of them once is a matter of two sums: as many
   places as numbers, and every number in some place.                        *)

(* b, p, s, h, o and the set d hold the numbers from 1 to n once each. *)
Shared(b, p, s, h, o, d, n) ==
    /\ Len(b) + Len(p) + Len(s) + Len(h) + Len(o) + Cardinality(d) = n
    /\ ToSet(b) \cup ToSet(p) \cup ToSet(s) \cup ToSet(h) \cup ToSet(o) \cup d = 1..n
Buf(x) == IF x = "l" THEN buf ELSE <<>>

ChunkTypes ==
    /\ sent \in [Sides -> Nat] /\ buf \in Seq(Nat)
    /\ sock \in [Sides -> Seq(Nat)] /\ passed \in [Sides -> Seq(Nat)]
    /\ held \in [Sides -> Seq(Nat)] /\ out \in [Sides -> Seq(Nat)]
    /\ lost \in [Sides -> SUBSET Nat] /\ \A x \in Sides : IsFiniteSet(lost[x])
    /\ DOMAIN copy = Sides /\ DOMAIN ended = Sides

SharedAt(x) == Shared(Buf(x), passed[x], sock[x], held[x], out[x], lost[x], sent[x])
AllShared   == \A x \in Sides : SharedAt(x)

(* What the goroutine can have before it. *)
Sniffing  == <<Do("sniff", "l")>>
Copying   == <<Do("copy", "l")>>
TurningOn == <<Do("on", "l"), Do("copy", "l")>>
PeeringL  == <<Do("peer", "l"), Do("on", "l"), Do("copy", "l")>>
PeeringR  == <<Do("peer", "r"), Do("peer", "l"), Do("on", "l"), Do("copy", "l")>>
HashingR  == <<Do("hash", "r"), Do("peer", "r"), Do("peer", "l"), Do("on", "l"), Do("copy", "l")>>
HashingL  == <<Do("hash", "l"), Do("hash", "r"), Do("peer", "r"), Do("peer", "l"), Do("on", "l"),
               Do("copy", "l")>>
Asking    == <<Do("fds", "l"), Do("hash", "l"), Do("hash", "r"), Do("peer", "r"), Do("peer", "l"),
               Do("on", "l"), Do("copy", "l")>>
Draining  == <<Do("drain", "l"), Do("fds", "l"), Do("hash", "l"), Do("hash", "r"), Do("peer", "r"),
               Do("peer", "l"), Do("on", "l"), Do("copy", "l")>>
UndoL     == <<Do("unhash", "l"), Do("copy", "l")>>
UndoR     == <<Do("unhash", "r"), Do("copy", "l")>>
UndoBoth  == <<Do("unhash", "l"), Do("unhash", "r"), Do("copy", "l")>>
UndoPeer  == <<Do("unpeer", "l"), Do("unhash", "l"), Do("unhash", "r"), Do("copy", "l")>>
Delete3   == <<Do("unpeer", "r"), Do("unhash", "l"), Do("unhash", "r")>>
Delete2   == <<Do("unhash", "l"), Do("unhash", "r")>>
Delete1   == <<Do("unhash", "r")>>

(* The maps, by what is still to be done. *)
Planned ==
    \/ todo \in {<<>>, Copying, Delete}
    \/ todo \in {Sniffing, Draining, Asking, HashingL} /\ sockhash = {} /\ peer = {}
    \/ todo = HashingR  /\ sockhash = {"l"} /\ peer = {}
    \/ todo = PeeringR  /\ sockhash = Sides /\ peer = {}
    \/ todo = PeeringL  /\ sockhash = Sides /\ peer = {"r"}
    \/ todo = TurningOn /\ sockhash = Sides /\ peer = Sides
    \/ todo \in {UndoL, UndoR, UndoBoth} /\ peer = {}
    \/ todo \in {UndoR, UndoBoth, UndoPeer} /\ "l" \notin peer /\ unpaired
    \/ todo = Delete3 /\ ("l" \notin peer \/ sm = "closed")
    \/ todo \in {Delete1, Delete2} /\ (peer = {} \/ sm = "closed")

(* What the client sends is never dropped, what the server sends only after
   the last update of Add has failed.                                        *)
Paired ==
    /\ sockhash \subseteq Sides /\ peer \subseteq Sides
    /\ "l" \in peer => sockhash = Sides
    /\ "r" \in peer /\ "l" \notin sockhash => unpaired
Lossy == (lost["r"] # {} => unpaired) /\ lost["l"] = {}

(* Where the first chunk of a sniffed client is.  Before it is sniffed it is
   the first one in the socket; then it is in sniffReader, where it waits for
   the drain or for the copy; the copy holds it; it is out.  A client that has
   ended without sending anything has none.                                  *)
InBuf  == buf # <<>> /\ Head(buf) = 1 /\ held["l"] = <<>>
InHand == buf = <<>> /\ held["l"] # <<>> /\ Head(held["l"]) = 1
Alone  == out["l"] = <<>> /\ passed["l"] = <<>> /\ sockhash = {}
BeforeSniff == /\ todo = Sniffing /\ copy["l"] = "off" /\ Alone /\ buf = <<>> /\ held["l"] = <<>>
               /\ sock["l"] # <<>> => Head(sock["l"]) = 1
AfterSniff  == todo = Draining /\ copy["l"] = "off" /\ Alone /\ InBuf
InCopy      == todo \in {Copying, <<>>} /\ Alone /\ (InBuf \/ InHand)
WentOut     == out["l"] # <<>> /\ Head(out["l"]) = 1
NeverSpoke  == sent["l"] = 0 /\ ended["l"]
(* sniffReader is empty before the sniff: nothing is overwritten. *)
Unopened   == todo = Sniffing => buf = <<>>
FirstChunk == mode = "SNIFF" => BeforeSniff \/ AfterSniff \/ InCopy \/ WentOut \/ NeverSpoke

OffloadInv == ChunkTypes /\ AllShared /\ Planned /\ Paired /\ Lossy /\ Unopened /\ FirstChunk

-----------------------------------------------------------------------------
(* Sequences. *)
LEMMA Joined ==
    ASSUME NEW S, NEW s \in Seq(S), NEW t \in Seq(S)
    PROVE  /\ s \o t \in Seq(S) /\ Len(s \o t) = Len(s) + Len(t)
           /\ \A i \in 1..Len(s) : (s \o t)[i] = s[i]
           /\ \A i \in 1..Len(t) : (s \o t)[Len(s) + i] = t[i]
           /\ ToSet(s \o t) = ToSet(s) \cup ToSet(t)
           /\ s # <<>> => s \o t # <<>> /\ Head(s \o t) = Head(s)
  <1>1. /\ s \o t \in Seq(S) /\ Len(s \o t) = Len(s) + Len(t)
        /\ \A i \in 1..Len(s) : (s \o t)[i] = s[i]
        /\ \A i \in 1..Len(t) : (s \o t)[Len(s) + i] = t[i]
    OBVIOUS
  <1>2. ToSet(s \o t) = ToSet(s) \cup ToSet(t)
    <2>1. \A e : e \in ToSet(s \o t) => e \in ToSet(s) \cup ToSet(t)
      <3>1. TAKE e
      <3>2. HAVE e \in ToSet(s \o t)
      <3>3. PICK i \in 1..(Len(s) + Len(t)) : e = (s \o t)[i]
        BY <1>1, <3>2 DEF ToSet
      <3>4. CASE i \in 1..Len(s)
        BY <1>1, <3>3, <3>4 DEF ToSet
      <3>5. CASE i \notin 1..Len(s)
        <4>1. i - Len(s) \in 1..Len(t) /\ Len(s) + (i - Len(s)) = i
          BY <3>3, <3>5
        <4>. QED
          BY <1>1, <3>3, <4>1 DEF ToSet
      <3>. QED
        BY <3>4, <3>5
    <2>2. \A e \in ToSet(s) : e \in ToSet(s \o t)
      BY <1>1 DEF ToSet
    <2>3. \A e \in ToSet(t) : e \in ToSet(s \o t)
      <3>1. TAKE e \in ToSet(t)
      <3>2. PICK i \in 1..Len(t) : e = t[i]
        BY DEF ToSet
      <3>3. Len(s) + i \in 1..Len(s \o t) /\ (s \o t)[Len(s) + i] = e
        BY <1>1, <3>2
      <3>. QED
        BY <1>1, <3>3 DEF ToSet
    <2>. QED
      BY <2>1, <2>2, <2>3
  <1>3. s # <<>> => s \o t # <<>> /\ Head(s \o t) = Head(s)
    BY <1>1
  <1>. QED
    BY <1>1, <1>2, <1>3
LEMMA SameSeq ==
    ASSUME NEW S, NEW s \in Seq(S), NEW t \in Seq(S), Len(s) = Len(t), \A i \in 1..Len(s) : s[i] = t[i]
    PROVE  s = t
  OBVIOUS

LEMMA Appended ==
    ASSUME NEW S, NEW s \in Seq(S), NEW e \in S
    PROVE  /\ Append(s, e) \in Seq(S) /\ Len(Append(s, e)) = Len(s) + 1
           /\ ToSet(Append(s, e)) = ToSet(s) \cup {e}
           /\ Append(s, e) # <<>> /\ Head(Append(s, e)) = IF s = <<>> THEN e ELSE Head(s)
  <1>1. /\ Append(s, e) \in Seq(S) /\ Len(Append(s, e)) = Len(s) + 1
        /\ \A i \in 1..Len(s) : Append(s, e)[i] = s[i]
        /\ Append(s, e)[Len(s) + 1] = e
    OBVIOUS
  <1>2. ToSet(Append(s, e)) = ToSet(s) \cup {e}
    <2>1. DOMAIN Append(s, e) = 1..Len(s) + 1 /\ DOMAIN s = 1..Len(s)
      BY <1>1
    <2>2. DOMAIN Append(s, e) = DOMAIN s \cup {Len(s) + 1}
      BY <2>1
    <2>. QED
      BY <1>1, <2>1, <2>2 DEF ToSet
  <1>3. Append(s, e) # <<>> /\ Head(Append(s, e)) = IF s = <<>> THEN e ELSE Head(s)
    <2>1. Append(s, e) # <<>> /\ Head(Append(s, e)) = Append(s, e)[1]
      BY <1>1
    <2>2. CASE s = <<>>
      <3>1. Len(s) + 1 = 1
        BY <2>2
      <3>. QED
        BY <1>1, <2>1, <2>2, <3>1
    <2>3. CASE s # <<>>
      <3>1. 1 \in 1..Len(s) /\ Head(s) = s[1]
        BY <2>3
      <3>. QED
        BY <1>1, <2>1, <2>3, <3>1
    <2>. QED
      BY <2>2, <2>3
  <1>. QED
    BY <1>1, <1>2, <1>3

LEMMA NoElement == ToSet(<<>>) = {} /\ Len(<<>>) = 0 /\ \A S : <<>> \in Seq(S)
  <1>1. Len(<<>>) = 0 /\ \A S : <<>> \in Seq(S)
    OBVIOUS
  <1>2. DOMAIN <<>> = {}
    OBVIOUS
  <1>3. ToSet(<<>>) = {}
    BY <1>2 DEF ToSet
  <1>. QED
    BY <1>1, <1>3

LEMMA NoLength == ASSUME NEW S, NEW s \in Seq(S) PROVE Len(s) \in Nat /\ (Len(s) = 0 <=> s = <<>>)
  OBVIOUS

LEMMA SetOfSeq ==
    ASSUME NEW S, NEW s \in Seq(S)
    PROVE  IsFiniteSet(ToSet(s)) /\ Cardinality(ToSet(s)) \in Nat /\ Cardinality(ToSet(s)) <= Len(s)
           /\ ToSet(s) \subseteq S
  <1>1. s \in Surjection(1..Len(s), ToSet(s))
    BY DEF Surjection, ToSet
  <1>2. IsFiniteSet(1..Len(s)) /\ Cardinality(1..Len(s)) = Len(s)
    <2>1. ASSUME NEW n \in Nat PROVE IsFiniteSet(1..n) /\ Cardinality(1..n) = n
      BY FS_Interval
    <2>. QED
      BY <2>1
  <1>3. ToSet(s) \subseteq S
    BY DEF ToSet
  <1>. QED
    BY <1>1, <1>2, <1>3, FS_Surjection, FS_CardinalityType

LEMMA AtMost ==
    ASSUME NEW S, NEW T, IsFiniteSet(S), IsFiniteSet(T), NEW m \in Nat, NEW n \in Nat,
           Cardinality(S) <= m, Cardinality(T) <= n
    PROVE  IsFiniteSet(S \cup T) /\ Cardinality(S \cup T) <= m + n
  <1>1. IsFiniteSet(S \cup T) /\ Cardinality(S \cup T) = Cardinality(S) + Cardinality(T) - Cardinality(S \cap T)
    BY FS_Union
  <1>2. Cardinality(S) \in Nat /\ Cardinality(T) \in Nat /\ Cardinality(S \cap T) \in Nat
    BY FS_CardinalityType, FS_Intersection
  <1>. QED
    BY <1>1, <1>2

LEMMA SeqOfSet ==
    ASSUME NEW S \in SUBSET Nat, IsFiniteSet(S)
    PROVE  SetToSeq(S) \in Seq(Nat) /\ Len(SetToSeq(S)) = Cardinality(S) /\ ToSet(SetToSeq(S)) = S
  <1>1. PICK n : n = Cardinality(S)
    OBVIOUS
  <1>2. n \in Nat /\ ExistsBijection(1..n, S)
    BY <1>1, FS_CardinalityType
  <1>3. \E f \in [1..n -> S] : IsInjective(f)
    BY <1>2 DEF ExistsBijection, Bijection, Injection
  <1>4. PICK f : f = SetToSeq(S)
    OBVIOUS
  <1>5. f \in [1..n -> S] /\ IsInjective(f)
    BY <1>1, <1>3, <1>4 DEF SetToSeq
  <1>6. f \in Surjection(1..n, S)
    <2>1. f \in Injection(1..n, S)
      BY <1>5 DEF Injection
    <2>2. IsFiniteSet(1..n) /\ Cardinality(1..n) = n
      BY <1>2, FS_Interval
    <2>. QED
      BY <1>1, <2>1, <2>2, FS_Injection
  <1>7. f \in Seq(Nat) /\ Len(f) = n
    <2>1. f \in [1..n -> Nat]
      BY <1>5
    <2>. QED
      BY <1>2, <2>1
  <1>8. ToSet(f) = S
    BY <1>5, <1>6 DEF ToSet, Surjection
  <1>. QED
    BY <1>1, <1>4, <1>7, <1>8

-----------------------------------------------------------------------------
(* The plans: what comes first, and what is left after it. *)
FirstOp(s)  == Head(s).op
FirstSide(s)   == Head(s).side
Remaining(s) == Tail(s)
UndonePlan(s) == Undo(Head(s)) \o Copying
LEMMA Plans ==
    /\ FirstOp(Sniffing) = "sniff" /\ FirstSide(Sniffing) = "l" /\ Remaining(Sniffing) = <<>> /\ Sniffing # <<>>
    /\ FirstOp(Copying) = "copy" /\ FirstSide(Copying) = "l" /\ Remaining(Copying) = <<>> /\ Copying # <<>>
    /\ FirstOp(TurningOn) = "on" /\ FirstSide(TurningOn) = "l" /\ Remaining(TurningOn) = Copying /\ TurningOn # <<>>
    /\ FirstOp(PeeringL) = "peer" /\ FirstSide(PeeringL) = "l" /\ Remaining(PeeringL) = TurningOn /\ PeeringL # <<>>
    /\ FirstOp(PeeringR) = "peer" /\ FirstSide(PeeringR) = "r" /\ Remaining(PeeringR) = PeeringL /\ PeeringR # <<>>
    /\ FirstOp(HashingR) = "hash" /\ FirstSide(HashingR) = "r" /\ Remaining(HashingR) = PeeringR /\ HashingR # <<>>
    /\ FirstOp(HashingL) = "hash" /\ FirstSide(HashingL) = "l" /\ Remaining(HashingL) = HashingR /\ HashingL # <<>>
    /\ FirstOp(Asking) = "fds" /\ FirstSide(Asking) = "l" /\ Remaining(Asking) = HashingL /\ Asking # <<>>
    /\ FirstOp(Draining) = "drain" /\ FirstSide(Draining) = "l" /\ Remaining(Draining) = Asking /\ Draining # <<>>
    /\ FirstOp(UndoL) = "unhash" /\ FirstSide(UndoL) = "l" /\ Remaining(UndoL) = Copying /\ UndoL # <<>>
    /\ FirstOp(UndoR) = "unhash" /\ FirstSide(UndoR) = "r" /\ Remaining(UndoR) = Copying /\ UndoR # <<>>
    /\ FirstOp(UndoBoth) = "unhash" /\ FirstSide(UndoBoth) = "l" /\ Remaining(UndoBoth) = UndoR /\ UndoBoth # <<>>
    /\ FirstOp(UndoPeer) = "unpeer" /\ FirstSide(UndoPeer) = "l" /\ Remaining(UndoPeer) = UndoBoth /\ UndoPeer # <<>>
    /\ FirstOp(Delete) = "unpeer" /\ FirstSide(Delete) = "l" /\ Remaining(Delete) = Delete3 /\ Delete # <<>>
    /\ FirstOp(Delete3) = "unpeer" /\ FirstSide(Delete3) = "r" /\ Remaining(Delete3) = Delete2 /\ Delete3 # <<>>
    /\ FirstOp(Delete2) = "unhash" /\ FirstSide(Delete2) = "l" /\ Remaining(Delete2) = Delete1 /\ Delete2 # <<>>
    /\ FirstOp(Delete1) = "unhash" /\ FirstSide(Delete1) = "r" /\ Remaining(Delete1) = <<>> /\ Delete1 # <<>>
  BY DEF FirstOp, FirstSide, Remaining, Do, Sniffing, Copying, TurningOn, PeeringL, PeeringR, HashingR,
     HashingL, Asking, Draining, UndoL, UndoR, UndoBoth, UndoPeer, Delete, Delete3, Delete2, Delete1

LEMMA OneMore ==
    ASSUME NEW a, NEW b
    PROVE  <<a>> \o <<b>> = <<a, b>>
  <1>. PICK S, s : S = {a, b} /\ s = <<a>> \o <<b>>
    OBVIOUS
  <1>1. <<a>> \in Seq(S) /\ Len(<<a>>) = 1
    OBVIOUS
  <1>2. <<b>> \in Seq(S) /\ Len(<<b>>) = 1
    OBVIOUS
  <1>3. <<a, b>> \in Seq(S) /\ Len(<<a, b>>) = 2
    OBVIOUS
  <1>4. s \in Seq(S) /\ Len(s) = 2
    BY <1>1, <1>2, Joined
  <1>5. s[1] = a
    BY <1>1, <1>2, Joined
  <1>6. s[2] = b
    BY <1>1, <1>2, Joined
  <1>7. ASSUME NEW i \in 1..2 PROVE s[i] = <<a, b>>[i]
    <2>1. i = 1 \/ i = 2
      OBVIOUS
    <2>2. CASE i = 1
      BY <2>2, <1>5
    <2>3. CASE i = 2
      BY <2>3, <1>6
    <2>. QED
      BY <2>1, <2>2, <2>3
  <1>. QED
    BY <1>3, <1>4, <1>7, SameSeq

LEMMA TwoAndOne ==
    ASSUME NEW a, NEW b, NEW c
    PROVE  <<a, b>> \o <<c>> = <<a, b, c>>
  <1>. PICK S, s : S = {a, b, c} /\ s = <<a, b>> \o <<c>>
    OBVIOUS
  <1>1. <<a, b>> \in Seq(S) /\ Len(<<a, b>>) = 2
    OBVIOUS
  <1>2. <<c>> \in Seq(S) /\ Len(<<c>>) = 1
    OBVIOUS
  <1>3. <<a, b, c>> \in Seq(S) /\ Len(<<a, b, c>>) = 3
    OBVIOUS
  <1>4. s \in Seq(S) /\ Len(s) = 3
    BY <1>1, <1>2, Joined
  <1>5. s[1] = a /\ s[2] = b
    BY <1>1, <1>2, Joined
  <1>6. s[3] = c
    BY <1>1, <1>2, Joined
  <1>7. ASSUME NEW i \in 1..3 PROVE s[i] = <<a, b, c>>[i]
    <2>1. i = 1 \/ i = 2 \/ i = 3
      OBVIOUS
    <2>. QED
      BY <2>1, <1>5, <1>6
  <1>. QED
    BY <1>3, <1>4, <1>7, SameSeq

LEMMA ThreeAndOne ==
    ASSUME NEW a, NEW b, NEW c, NEW d
    PROVE  <<a, b, c>> \o <<d>> = <<a, b, c, d>>
  <1>. PICK S, s : S = {a, b, c, d} /\ s = <<a, b, c>> \o <<d>>
    OBVIOUS
  <1>1. <<a, b, c>> \in Seq(S) /\ Len(<<a, b, c>>) = 3
    OBVIOUS
  <1>2. <<d>> \in Seq(S) /\ Len(<<d>>) = 1
    OBVIOUS
  <1>3. <<a, b, c, d>> \in Seq(S) /\ Len(<<a, b, c, d>>) = 4
    OBVIOUS
  <1>4. s \in Seq(S) /\ Len(s) = 4
    BY <1>1, <1>2, Joined
  <1>5. s[1] = a /\ s[2] = b /\ s[3] = c
    BY <1>1, <1>2, Joined
  <1>6. s[4] = d
    BY <1>1, <1>2, Joined
  <1>7. ASSUME NEW i \in 1..4 PROVE s[i] = <<a, b, c, d>>[i]
    <2>1. i = 1 \/ i = 2 \/ i = 3 \/ i = 4
      OBVIOUS
    <2>. QED
      BY <2>1, <1>5, <1>6
  <1>. QED
    BY <1>3, <1>4, <1>7, SameSeq

LEMMA TwoAndFive ==
    ASSUME NEW a, NEW b, NEW c, NEW d, NEW e, NEW f, NEW g
    PROVE  <<a, b>> \o <<c, d, e, f, g>> = <<a, b, c, d, e, f, g>>
  <1>. PICK S, s : S = {a, b, c, d, e, f, g} /\ s = <<a, b>> \o <<c, d, e, f, g>>
    OBVIOUS
  <1>1. <<a, b>> \in Seq(S) /\ Len(<<a, b>>) = 2
    OBVIOUS
  <1>2. <<c, d, e, f, g>> \in Seq(S) /\ Len(<<c, d, e, f, g>>) = 5
    OBVIOUS
  <1>3. <<a, b, c, d, e, f, g>> \in Seq(S) /\ Len(<<a, b, c, d, e, f, g>>) = 7
    OBVIOUS
  <1>4. s \in Seq(S) /\ Len(s) = 7
    BY <1>1, <1>2, Joined
  <1>5. s[1] = a /\ s[2] = b
    BY <1>1, <1>2, Joined
  <1>6. s[3] = c
    BY <1>1, <1>2, Joined
  <1>7. s[4] = d
    BY <1>1, <1>2, Joined
  <1>8. s[5] = e
    BY <1>1, <1>2, Joined
  <1>9. s[6] = f
    BY <1>1, <1>2, Joined
  <1>10. s[7] = g
    BY <1>1, <1>2, Joined
  <1>11. ASSUME NEW i \in 1..7 PROVE s[i] = <<a, b, c, d, e, f, g>>[i]
    <2>1. i = 1 \/ i = 2 \/ i = 3 \/ i = 4 \/ i = 5 \/ i = 6 \/ i = 7
      OBVIOUS
    <2>. QED
      BY <2>1, <1>5, <1>6, <1>7, <1>8, <1>9, <1>10
  <1>. QED
    BY <1>3, <1>4, <1>11, SameSeq

LEMMA SevenAndOne ==
    ASSUME NEW a, NEW b, NEW c, NEW d, NEW e, NEW f, NEW g, NEW h
    PROVE  <<a, b, c, d, e, f, g>> \o <<h>> = <<a, b, c, d, e, f, g, h>>
  <1>. PICK S, s : S = {a, b, c, d, e, f, g, h} /\ s = <<a, b, c, d, e, f, g>> \o <<h>>
    OBVIOUS
  <1>1. <<a, b, c, d, e, f, g>> \in Seq(S) /\ Len(<<a, b, c, d, e, f, g>>) = 7
    OBVIOUS
  <1>2. <<h>> \in Seq(S) /\ Len(<<h>>) = 1
    OBVIOUS
  <1>3. <<a, b, c, d, e, f, g, h>> \in Seq(S) /\ Len(<<a, b, c, d, e, f, g, h>>) = 8
    OBVIOUS
  <1>4. s \in Seq(S) /\ Len(s) = 8
    BY <1>1, <1>2, Joined
  <1>5. s[1] = a /\ s[2] = b /\ s[3] = c /\ s[4] = d /\ s[5] = e /\ s[6] = f /\ s[7] = g
    BY <1>1, <1>2, Joined
  <1>6. s[8] = h
    BY <1>1, <1>2, Joined
  <1>7. ASSUME NEW i \in 1..8 PROVE s[i] = <<a, b, c, d, e, f, g, h>>[i]
    <2>1. i = 1 \/ i = 2 \/ i = 3 \/ i = 4 \/ i = 5 \/ i = 6 \/ i = 7 \/ i = 8
      OBVIOUS
    <2>. QED
      BY <2>1, <1>5, <1>6
  <1>. QED
    BY <1>3, <1>4, <1>7, SameSeq

LEMMA FirstPlan == TryOffload = IF sm = "nil" THEN Copying ELSE Draining
  <1>1. CASE sm = "nil"
    <2>1. <<>> \o <<Do("copy", "l")>> = <<Do("copy", "l")>>
      OBVIOUS
    <2>. QED
      BY <1>1, <2>1 DEF TryOffload, Copying
  <1>2. CASE sm # "nil"
    <2>1. TryOffload = (<<Do("drain", "l"), Do("fds", "l")>> \o Add) \o <<Do("copy", "l")>>
      BY <1>2 DEF TryOffload
    <2>2. <<Do("drain", "l"), Do("fds", "l")>> \o Add
            = <<Do("drain", "l"), Do("fds", "l"), Do("hash", "l"), Do("hash", "r"), Do("peer", "r"),
                Do("peer", "l"), Do("on", "l")>>
      BY TwoAndFive DEF Add
    <2>3. <<Do("drain", "l"), Do("fds", "l"), Do("hash", "l"), Do("hash", "r"), Do("peer", "r"),
            Do("peer", "l"), Do("on", "l")>> \o <<Do("copy", "l")>> = Draining
      BY SevenAndOne DEF Draining
    <2>. QED
      BY <1>2, <2>1, <2>2, <2>3, Zenon
  <1>. QED
    BY <1>1, <1>2

LEMMA UndoPlans ==
    /\ UndonePlan(Asking) = Copying /\ UndonePlan(HashingL) = Copying /\ UndonePlan(HashingR) = UndoL
    /\ UndonePlan(PeeringR) = UndoBoth /\ UndonePlan(PeeringL) = UndoPeer
  <1>1. /\ Undo(Do("fds", "l")) = <<>> /\ Undo(Do("hash", "l")) = <<>>
        /\ Undo(Do("hash", "r")) = <<Do("unhash", "l")>>
        /\ Undo(Do("peer", "r")) = <<Do("unhash", "l"), Do("unhash", "r")>>
        /\ Undo(Do("peer", "l")) = <<Do("unpeer", "l"), Do("unhash", "l"), Do("unhash", "r")>>
    BY DEF Undo, Do
  <1>2. <<>> \o Copying = Copying
    BY DEF Copying
  <1>3. /\ Head(Asking) = Do("fds", "l") /\ Head(HashingL) = Do("hash", "l") /\ Head(HashingR) = Do("hash", "r")
        /\ Head(PeeringR) = Do("peer", "r") /\ Head(PeeringL) = Do("peer", "l")
    BY DEF Asking, HashingL, HashingR, PeeringR, PeeringL
  <1>4. /\ <<Do("unhash", "l")>> \o Copying = UndoL
        /\ <<Do("unhash", "l"), Do("unhash", "r")>> \o Copying = UndoBoth
        /\ <<Do("unpeer", "l"), Do("unhash", "l"), Do("unhash", "r")>> \o Copying = UndoPeer
    BY OneMore, TwoAndOne, ThreeAndOne DEF Copying, UndoL, UndoBoth, UndoPeer
  <1>. QED
    BY <1>1, <1>2, <1>3, <1>4 DEF UndonePlan

LEMMA ControlKeeps == Planned /\ Paired /\ OffloadNext => Planned' /\ Paired'
  <1>. SUFFICES ASSUME Planned, Paired, OffloadNext PROVE Planned' /\ Paired'
    OBVIOUS
  <1>1. CASE UNCHANGED <<todo, maps>>
    BY <1>1 DEF Planned, Paired, maps
  <1>2. ASSUME NEW x \in Sides, HostSend(x) \/ HostEnd(x) \/ CopyRead(x) \/ CopyWrite(x)
        PROVE  UNCHANGED <<todo, maps>>
    BY <1>2 DEF HostSend, HostEnd, CopyRead, CopyWrite, streams, maps
  <1>3. ASSUME NEW x \in Sides, CopyEnd(x)
        PROVE  Planned' /\ Paired'
    <2>1. todo' \in {todo, Delete} /\ UNCHANGED maps
      BY <1>3 DEF CopyEnd
    <2>. QED
      BY <2>1 DEF Planned, Paired, maps
  <1>4. CASE Sniff
    <2>1. todo' \in {Draining, Copying} /\ UNCHANGED maps /\ todo # <<>> /\ FirstOp(todo) = "sniff"
      BY <1>4, FirstPlan DEF Sniff, Doing, Step, FirstOp
    <2>2. sockhash = {} /\ peer = {}
      BY <2>1, Plans DEF Planned
    <2>. QED
      BY <2>1, <2>2 DEF Planned, Paired, maps
  <1>5. CASE SniffEOF
    BY <1>5 DEF SniffEOF, Planned, Paired, maps, Copying
  <1>6. CASE Drain \/ Cookies
    <2>1. /\ UNCHANGED maps /\ todo # <<>> /\ FirstOp(todo) \in {"drain", "fds"}
          /\ todo' = Remaining(todo)
      BY <1>6 DEF Drain, Cookies, Doing, Step, Proceed, FirstOp, FirstSide, Remaining
    <2>2. todo \in {Draining, Asking} /\ sockhash = {} /\ peer = {}
      BY <2>1, Plans DEF Planned
    <2>. QED
      BY <2>1, <2>2, Plans DEF Planned, Paired, maps
  <1>7. CASE Put
    <2>1. /\ UNCHANGED <<sm, unpaired, offloaded>> /\ todo # <<>> /\ FirstOp(todo) \in {"hash", "peer"}
          /\ todo' = Remaining(todo)
          /\ IF FirstOp(todo) = "hash" THEN sockhash' = sockhash \cup {FirstSide(todo)} /\ UNCHANGED peer
                                       ELSE peer' = peer \cup {FirstSide(todo)} /\ UNCHANGED sockhash
      BY <1>7 DEF Put, Doing, Step, Proceed, FirstOp, FirstSide, Remaining
    <2>2. \/ todo = HashingL /\ sockhash = {} /\ peer = {}
          \/ todo = HashingR /\ sockhash = {"l"} /\ peer = {}
          \/ todo = PeeringR /\ sockhash = Sides /\ peer = {}
          \/ todo = PeeringL /\ sockhash = Sides /\ peer = {"r"}
      BY <2>1, Plans DEF Planned
    <2>3. \/ todo' = HashingR /\ sockhash' = {"l"} /\ peer' = {}
          \/ todo' = PeeringR /\ sockhash' = Sides /\ peer' = {}
          \/ todo' = PeeringL /\ sockhash' = Sides /\ peer' = {"r"}
          \/ todo' = TurningOn /\ sockhash' = Sides /\ peer' = Sides
      <3>1. CASE todo = HashingL /\ sockhash = {} /\ peer = {}
        BY <2>1, <3>1, Plans
      <3>2. CASE todo = HashingR /\ sockhash = {"l"} /\ peer = {}
        BY <2>1, <3>2, Plans DEF Sides
      <3>3. CASE todo = PeeringR /\ sockhash = Sides /\ peer = {}
        BY <2>1, <3>3, Plans
      <3>4. CASE todo = PeeringL /\ sockhash = Sides /\ peer = {"r"}
        BY <2>1, <3>4, Plans DEF Sides
      <3>. QED
        BY <2>2, <3>1, <3>2, <3>3, <3>4
    <2>4. Planned'
      BY <2>3 DEF Planned
    <2>5. Paired'
      BY <2>3 DEF Paired, Sides
    <2>. QED
      BY <2>4, <2>5
  <1>8. CASE PutFails
    <2>1. /\ UNCHANGED <<sm, sockhash, peer, offloaded>> /\ todo # <<>>
          /\ FirstOp(todo) \in {"fds", "hash", "peer"} /\ todo' = UndonePlan(todo)
      BY <1>8 DEF PutFails, Doing, Step, Copying, FirstOp, UndonePlan
    <2>2. unpaired => unpaired'
      BY <1>8 DEF PutFails
    <2>3. \/ todo \in {Asking, HashingL}
          \/ todo \in {HashingR, PeeringR} /\ peer = {}
          \/ todo = PeeringL /\ peer = {"r"}
      BY <2>1, Plans DEF Planned
    <2>4. todo = PeeringL => unpaired'
      <3>1. Head(PeeringL) = Do("peer", "l")
        BY DEF PeeringL
      <3>2. unpaired' = (unpaired \/ Head(todo) = Do("peer", "l"))
        BY <1>8 DEF PutFails, Step
      <3>. QED
        BY <3>1, <3>2, Zenon
    <2>5. Planned'
      BY <2>1, <2>3, <2>4, UndoPlans DEF Planned
    <2>6. Paired'
      BY <2>1, <2>2 DEF Paired
    <2>. QED
      BY <2>5, <2>6
  <1>9. CASE Erase
    <2>1. /\ UNCHANGED <<sm, unpaired, offloaded>> /\ todo # <<>> /\ FirstOp(todo) \in {"unhash", "unpeer"}
          /\ todo' = Remaining(todo)
          /\ \/ sm = "closed" /\ UNCHANGED <<sockhash, peer>>
             \/ /\ sm # "closed" /\ FirstOp(todo) = "unhash"
                /\ sockhash' = sockhash \ {FirstSide(todo)} /\ UNCHANGED peer
             \/ /\ sm # "closed" /\ FirstOp(todo) = "unpeer"
                /\ peer' = peer \ {FirstSide(todo)} /\ UNCHANGED sockhash
      BY <1>9 DEF Erase, Doing, Step, Proceed, FirstOp, FirstSide, Remaining
    <2>2. \/ todo \in {UndoL, UndoR, UndoBoth} /\ peer = {}
          \/ todo \in {UndoR, UndoBoth, UndoPeer} /\ "l" \notin peer /\ unpaired
          \/ todo = Delete
          \/ todo = Delete3 /\ ("l" \notin peer \/ sm = "closed")
          \/ todo \in {Delete1, Delete2} /\ (peer = {} \/ sm = "closed")
      BY <2>1, Plans DEF Planned
    <2>3. CASE todo \in {UndoL, UndoR, UndoBoth} /\ peer = {}
      <3>1. todo' \in {Copying, UndoR} /\ peer' = {} /\ sockhash' \subseteq sockhash
        BY <2>1, <2>3, Plans
      <3>. QED
        BY <3>1 DEF Planned, Paired
    <2>4. CASE todo \in {UndoR, UndoBoth, UndoPeer} /\ "l" \notin peer /\ unpaired
      <3>1. /\ todo' \in {Copying, UndoR, UndoBoth} /\ peer' \subseteq peer /\ sockhash' \subseteq sockhash
            /\ unpaired'
        BY <2>1, <2>4, Plans
      <3>. QED
        BY <2>4, <3>1 DEF Planned, Paired
    <2>5. CASE todo = Delete
      <3>1. /\ todo' = Delete3 /\ sockhash' = sockhash /\ peer' \subseteq peer
            /\ "l" \notin peer' \/ sm' = "closed"
        BY <2>1, <2>5, Plans
      <3>. QED
        BY <2>1, <3>1 DEF Planned, Paired
    <2>6. CASE todo = Delete3 /\ ("l" \notin peer \/ sm = "closed")
      <3>1. todo' = Delete2 /\ sockhash' = sockhash /\ peer' \subseteq peer
        BY <2>1, <2>6, Plans
      <3>2. peer' = {} \/ sm' = "closed"
        <4>1. CASE sm = "closed"
          BY <2>1, <4>1
        <4>2. CASE sm # "closed"
          <5>1. peer' = peer \ {"r"} /\ "l" \notin peer
            BY <2>1, <2>6, <4>2, Plans
          <5>2. \A x \in peer : x = "l" \/ x = "r"
            BY DEF Paired, Sides
          <5>. QED
            BY <5>1, <5>2
        <4>. QED
          BY <4>1, <4>2
      <3>. QED
        BY <2>1, <3>1, <3>2 DEF Planned, Paired
    <2>7. CASE todo \in {Delete1, Delete2} /\ (peer = {} \/ sm = "closed")
      <3>1. /\ todo' \in {Delete1, <<>>} /\ peer' = peer /\ sockhash' \subseteq sockhash
            /\ (sockhash' = sockhash \/ peer = {}) /\ sm' = sm
        BY <2>1, <2>7, Plans
      <3>. QED
        BY <2>1, <2>7, <3>1 DEF Planned, Paired
    <2>. QED
      BY <2>2, <2>3, <2>4, <2>5, <2>6, <2>7
  <1>10. CASE Activated
    <2>1. UNCHANGED <<sm, sockhash, peer, unpaired>> /\ todo # <<>> /\ FirstOp(todo) = "on" /\ todo' = Remaining(todo)
      BY <1>10 DEF Activated, Doing, Step, Proceed, FirstOp, FirstSide, Remaining
    <2>2. todo = TurningOn
      BY <2>1, Plans DEF Planned
    <2>. QED
      BY <2>1, <2>2, Plans DEF Planned, Paired
  <1>11. CASE StartCopy
    <2>1. UNCHANGED maps /\ todo # <<>> /\ FirstOp(todo) = "copy" /\ todo' = Remaining(todo)
      BY <1>11 DEF StartCopy, Doing, Step, Proceed, FirstOp, FirstSide, Remaining
    <2>2. todo = Copying
      BY <2>1, Plans DEF Planned
    <2>. QED
      BY <2>1, <2>2, Plans DEF Planned, Paired, maps
  <1>12. CASE CloseSockmap
    BY <1>12 DEF CloseSockmap, Planned, Paired
  <1>. QED
    BY <1>1, <1>2, <1>3, <1>4, <1>5, <1>6, <1>7, <1>8, <1>9, <1>10, <1>11, <1>12 DEF OffloadNext

-----------------------------------------------------------------------------
(* Counting. *)
LEMMA Lengths ==
    ASSUME NEW b \in Seq(Nat), NEW p \in Seq(Nat), NEW s \in Seq(Nat), NEW h \in Seq(Nat), NEW o \in Seq(Nat),
           NEW d \in SUBSET Nat, IsFiniteSet(d)
    PROVE  /\ Len(b) \in Nat /\ Len(p) \in Nat /\ Len(s) \in Nat /\ Len(h) \in Nat /\ Len(o) \in Nat
           /\ Cardinality(d) \in Nat
  <1>1. Cardinality(d) \in Nat
    BY FS_CardinalityType
  <1>. QED
    BY <1>1

LEMMA UpTo ==
    ASSUME NEW n \in Nat
    PROVE  /\ 1..(n + 1) = 1..n \cup {n + 1}
           /\ IsFiniteSet(1..n) /\ Cardinality(1..n) = n /\ IsFiniteSet(1..(n + 1)) /\ Cardinality(1..(n + 1)) = n + 1
  <1>1. ASSUME NEW m \in Nat PROVE IsFiniteSet(1..m) /\ Cardinality(1..m) = m
    BY FS_Interval
  <1>2. n + 1 \in Nat /\ 1..(n + 1) = 1..n \cup {n + 1}
    OBVIOUS
  <1>3. PICK m \in Nat : m = n + 1
    BY <1>2
  <1>4. IsFiniteSet(1..m) /\ Cardinality(1..m) = m
    BY <1>1
  <1>. QED
    BY <1>1, <1>2, <1>3, <1>4

LEMMA JoinedChunks ==
    ASSUME NEW s \in Seq(Nat), NEW t \in Seq(Nat)
    PROVE  /\ s \o t \in Seq(Nat) /\ Len(s \o t) = Len(s) + Len(t)
           /\ ToSet(s \o t) = ToSet(s) \cup ToSet(t)
  BY Joined

LEMMA AppendedChunk ==
    ASSUME NEW s \in Seq(Nat), NEW n \in Nat
    PROVE  /\ Append(s, n + 1) \in Seq(Nat) /\ Len(Append(s, n + 1)) = Len(s) + 1
           /\ ToSet(Append(s, n + 1)) = ToSet(s) \cup {n + 1}
  <1>1. PICK m \in Nat : m = n + 1
    OBVIOUS
  <1>. QED
    BY <1>1, Appended

(* A chunk arrives, and stays in the socket, is passed to user space, goes to
   the other end.                                                            *)
LEMMA ChunkArrives ==
    ASSUME NEW b \in Seq(Nat), NEW p \in Seq(Nat), NEW s \in Seq(Nat), NEW h \in Seq(Nat), NEW o \in Seq(Nat),
           NEW d \in SUBSET Nat, IsFiniteSet(d), NEW n \in Nat, Shared(b, p, s, h, o, d, n)
    PROVE  /\ Shared(b, p, Append(s, n + 1), h, o, d, n + 1)
           /\ Shared(b, p \o Append(s, n + 1), <<>>, h, o, d, n + 1)
           /\ Shared(b, p, <<>>, h, o \o Append(s, n + 1), d, n + 1)
  <1>1. PICK c : c = Append(s, n + 1)
    OBVIOUS
  <1>2. c \in Seq(Nat) /\ Len(c) = Len(s) + 1 /\ ToSet(c) = ToSet(s) \cup {n + 1}
    BY <1>1, AppendedChunk
  <1>3. Len(p \o c) = Len(p) + Len(c) /\ ToSet(p \o c) = ToSet(p) \cup ToSet(c)
    BY <1>2, JoinedChunks
  <1>4. Len(o \o c) = Len(o) + Len(c) /\ ToSet(o \o c) = ToSet(o) \cup ToSet(c)
    BY <1>2, JoinedChunks
  <1>5. /\ Len(b) \in Nat /\ Len(p) \in Nat /\ Len(s) \in Nat /\ Len(h) \in Nat /\ Len(o) \in Nat
        /\ Cardinality(d) \in Nat /\ Len(b) + Len(p) + Len(s) + Len(h) + Len(o) + Cardinality(d) = n
    BY Lengths DEF Shared
  <1>6. PICK i, j, k, l, m, q : /\ i = Len(b) /\ j = Len(p) /\ k = Len(s) /\ l = Len(h) /\ m = Len(o)
                               /\ q = Cardinality(d)
    OBVIOUS
  <1>7. /\ i \in Nat /\ j \in Nat /\ k \in Nat /\ l \in Nat /\ m \in Nat /\ q \in Nat
         /\ i + j + k + l + m + q = n
    BY <1>5, <1>6
  <1>8. /\ i + j + (k + 1) + l + m + q = n + 1
         /\ i + (j + (k + 1)) + 0 + l + m + q = n + 1
         /\ i + j + 0 + l + (m + (k + 1)) + q = n + 1
    BY <1>7
  <1>9. Shared(b, p, c, h, o, d, n + 1)
    <2>1. Len(b) + Len(p) + Len(c) + Len(h) + Len(o) + Cardinality(d) = n + 1
      BY <1>6, <1>8, <1>2
    <2>2. ToSet(b) \cup ToSet(p) \cup ToSet(c) \cup ToSet(h) \cup ToSet(o) \cup d = 1..(n + 1)
      BY <1>2, UpTo DEF Shared
    <2>. QED
      BY <2>1, <2>2 DEF Shared
  <1>10. Shared(b, p \o c, <<>>, h, o, d, n + 1)
    <2>1. Len(<<>>) = 0 /\ ToSet(<<>>) = {}
      BY NoElement
    <2>2. Len(b) + Len(p \o c) + Len(<<>>) + Len(h) + Len(o) + Cardinality(d) = n + 1
      BY <1>6, <1>8, <1>2, <1>3, <2>1
    <2>3. ToSet(b) \cup ToSet(p \o c) \cup ToSet(<<>>) \cup ToSet(h) \cup ToSet(o) \cup d = 1..(n + 1)
      BY <1>2, <1>3, <2>1, UpTo DEF Shared
    <2>. QED
      BY <2>2, <2>3 DEF Shared
  <1>11. Shared(b, p, <<>>, h, o \o c, d, n + 1)
    <2>1. Len(<<>>) = 0 /\ ToSet(<<>>) = {}
      BY NoElement
    <2>2. Len(b) + Len(p) + Len(<<>>) + Len(h) + Len(o \o c) + Cardinality(d) = n + 1
      BY <1>6, <1>8, <1>2, <1>4, <2>1
    <2>3. ToSet(b) \cup ToSet(p) \cup ToSet(<<>>) \cup ToSet(h) \cup ToSet(o \o c) \cup d = 1..(n + 1)
      BY <1>2, <1>4, <2>1, UpTo DEF Shared
    <2>. QED
      BY <2>2, <2>3 DEF Shared
  <1>. QED
    BY <1>1, <1>9, <1>10, <1>11

(* It is dropped with what was there: with every number up to n + 1 in some
   place and no more places than numbers, none of these was dropped before.  *)
LEMMA ChunksDropped ==
    ASSUME NEW b \in Seq(Nat), NEW p \in Seq(Nat), NEW s \in Seq(Nat), NEW h \in Seq(Nat), NEW o \in Seq(Nat),
           NEW d \in SUBSET Nat, IsFiniteSet(d), NEW n \in Nat, Shared(b, p, s, h, o, d, n)
    PROVE  /\ IsFiniteSet(d \cup ToSet(Append(s, n + 1))) /\ d \cup ToSet(Append(s, n + 1)) \in SUBSET Nat
           /\ Shared(b, p, <<>>, h, o, d \cup ToSet(Append(s, n + 1)), n + 1)
  <1>1. PICK c : c = Append(s, n + 1)
    OBVIOUS
  <1>2. c \in Seq(Nat) /\ Len(c) = Len(s) + 1 /\ ToSet(c) = ToSet(s) \cup {n + 1}
    BY <1>1, AppendedChunk
  <1>3. Len(<<>>) = 0 /\ ToSet(<<>>) = {}
    BY NoElement
  <1>4. IsFiniteSet(ToSet(c)) /\ Cardinality(ToSet(c)) <= Len(s) + 1 /\ ToSet(c) \subseteq Nat
    BY <1>2, SetOfSeq
  <1>5. /\ Len(b) \in Nat /\ Len(p) \in Nat /\ Len(s) \in Nat /\ Len(h) \in Nat /\ Len(o) \in Nat
        /\ Cardinality(d) \in Nat
    BY Lengths
  <1>6. PICK e : e = d \cup ToSet(c)
    OBVIOUS
  <1>7. /\ IsFiniteSet(e) /\ Cardinality(e) <= Cardinality(d) + (Len(s) + 1) /\ Cardinality(e) \in Nat
        /\ e \in SUBSET Nat
    <2>1. PICK C, i, j : C = ToSet(c) /\ i = Cardinality(d) /\ j = Len(s) + 1
      OBVIOUS
    <2>0. i \in Nat /\ j \in Nat
      BY <1>5, <2>1
    <2>2. IsFiniteSet(C) /\ Cardinality(C) <= j /\ Cardinality(d) <= i
      BY <1>4, <1>5, <2>0, <2>1
    <2>3. IsFiniteSet(d \cup C) /\ Cardinality(d \cup C) <= i + j
      BY <2>0, <2>2, AtMost
    <2>. QED
      BY <1>4, <1>6, <2>1, <2>3, FS_CardinalityType
  <1>8. PICK m : m = ToSet(b) \cup ToSet(p) \cup ToSet(h) \cup ToSet(o)
    OBVIOUS
  <1>9. IsFiniteSet(m) /\ Cardinality(m) <= Len(b) + Len(p) + Len(h) + Len(o)
    <2>1. PICK B, P, H, O : B = ToSet(b) /\ P = ToSet(p) /\ H = ToSet(h) /\ O = ToSet(o)
      OBVIOUS
    <2>2. /\ IsFiniteSet(B) /\ Cardinality(B) <= Len(b) /\ IsFiniteSet(P) /\ Cardinality(P) <= Len(p)
          /\ IsFiniteSet(H) /\ Cardinality(H) <= Len(h) /\ IsFiniteSet(O) /\ Cardinality(O) <= Len(o)
      BY <2>1, SetOfSeq
    <2>3. IsFiniteSet(B \cup P) /\ Cardinality(B \cup P) <= Len(b) + Len(p)
      BY <1>5, <2>2, AtMost
    <2>4. IsFiniteSet(H \cup O) /\ Cardinality(H \cup O) <= Len(h) + Len(o)
      BY <1>5, <2>2, AtMost
    <2>5. IsFiniteSet((B \cup P) \cup (H \cup O))
          /\ Cardinality((B \cup P) \cup (H \cup O)) <= (Len(b) + Len(p)) + (Len(h) + Len(o))
      <3>1. PICK U, V, i, j : U = B \cup P /\ V = H \cup O /\ i = Len(b) + Len(p) /\ j = Len(h) + Len(o)
        OBVIOUS
      <3>0. i \in Nat /\ j \in Nat
        BY <1>5, <3>1
      <3>2. IsFiniteSet(U \cup V) /\ Cardinality(U \cup V) <= i + j
        BY <2>3, <2>4, <3>0, <3>1, AtMost
      <3>. QED
        BY <3>1, <3>2
    <2>6. m = (B \cup P) \cup (H \cup O)
      BY <1>8, <2>1
    <2>. QED
      BY <1>5, <2>5, <2>6
  <1>10. m \cup e = 1..(n + 1)
    BY <1>2, <1>6, <1>8, UpTo DEF Shared
  <1>11. n + 1 <= (Len(b) + Len(p) + Len(h) + Len(o)) + Cardinality(e)
    <2>1. PICK k \in Nat, l \in Nat : k = Len(b) + Len(p) + Len(h) + Len(o) /\ l = Cardinality(e)
      BY <1>5, <1>7
    <2>0. Cardinality(m) <= k /\ Cardinality(e) <= l
      BY <1>5, <1>7, <1>9, <2>1
    <2>2. Cardinality(m \cup e) <= k + l
      BY <1>7, <1>9, <2>0, AtMost
    <2>3. Cardinality(1..(n + 1)) = n + 1
      BY UpTo
    <2>. QED
      BY <1>10, <2>1, <2>2, <2>3
  <1>12. Len(b) + Len(p) + Len(<<>>) + Len(h) + Len(o) + Cardinality(e) = n + 1
    <2>1. Len(b) + Len(p) + Len(s) + Len(h) + Len(o) + Cardinality(d) = n
      BY DEF Shared
    <2>2. PICK i, j, k, l, m1, q, r : /\ i = Len(b) /\ j = Len(p) /\ k = Len(s) /\ l = Len(h) /\ m1 = Len(o)
                                     /\ q = Cardinality(d) /\ r = Cardinality(e)
      OBVIOUS
    <2>3. /\ i \in Nat /\ j \in Nat /\ k \in Nat /\ l \in Nat /\ m1 \in Nat /\ q \in Nat /\ r \in Nat
          /\ i + j + k + l + m1 + q = n /\ r <= q + (k + 1) /\ n + 1 <= (i + j + l + m1) + r
      BY <1>5, <1>7, <1>11, <2>1, <2>2
    <2>4. i + j + 0 + l + m1 + r = n + 1
      BY <2>3
    <2>. QED
      BY <1>3, <2>2, <2>4
  <1>13. ToSet(b) \cup ToSet(p) \cup ToSet(<<>>) \cup ToSet(h) \cup ToSet(o) \cup e = 1..(n + 1)
    BY <1>3, <1>8, <1>10
  <1>. QED
    BY <1>1, <1>6, <1>7, <1>12, <1>13 DEF Shared

(* What is there moves on. *)
LEMMA ChunksMove ==
    ASSUME NEW b \in Seq(Nat), NEW p \in Seq(Nat), NEW s \in Seq(Nat), NEW h \in Seq(Nat), NEW o \in Seq(Nat),
           NEW d \in SUBSET Nat, IsFiniteSet(d), NEW n \in Nat, Shared(b, p, s, h, o, d, n)
    PROVE  /\ h = <<>> => /\ Shared(<<>>, p, s, b, o, d, n)
                          /\ Shared(b, <<>>, s, p, o, d, n)
                          /\ Shared(b, p, <<>>, s, o, d, n)
           /\ b = <<>> => Shared(s, p, <<>>, h, o, d, n)
           /\ Shared(<<>>, p, s, h, o \o b, d, n)
           /\ Shared(b, p, s, <<>>, o \o h, d, n)
  <1>1. Len(<<>>) = 0 /\ ToSet(<<>>) = {}
    BY NoElement
  <1>2. /\ Len(b) \in Nat /\ Len(p) \in Nat /\ Len(s) \in Nat /\ Len(h) \in Nat /\ Len(o) \in Nat
        /\ Cardinality(d) \in Nat
    BY Lengths
  <1>3. /\ Len(o \o b) = Len(o) + Len(b) /\ ToSet(o \o b) = ToSet(o) \cup ToSet(b)
        /\ Len(o \o h) = Len(o) + Len(h) /\ ToSet(o \o h) = ToSet(o) \cup ToSet(h)
    BY JoinedChunks
  <1>4. ASSUME h = <<>>
        PROVE  /\ Shared(<<>>, p, s, b, o, d, n) /\ Shared(b, <<>>, s, p, o, d, n)
               /\ Shared(b, p, <<>>, s, o, d, n)
    <2>1. Len(h) = 0 /\ ToSet(h) = {}
      BY <1>1, <1>4
    <2>. QED
      BY <1>1, <1>2, <2>1 DEF Shared
  <1>5. ASSUME b = <<>> PROVE Shared(s, p, <<>>, h, o, d, n)
    <2>1. Len(b) = 0 /\ ToSet(b) = {}
      BY <1>1, <1>5
    <2>. QED
      BY <1>1, <1>2, <2>1 DEF Shared
  <1>6. Shared(<<>>, p, s, h, o \o b, d, n)
    BY <1>1, <1>2, <1>3 DEF Shared
  <1>7. Shared(b, p, s, <<>>, o \o h, d, n)
    BY <1>1, <1>2, <1>3 DEF Shared
  <1>. QED
    BY <1>4, <1>5, <1>6, <1>7

(* NoElement sent is nothing anywhere. *)
LEMMA NothingSent ==
    ASSUME NEW b \in Seq(Nat), NEW p \in Seq(Nat), NEW s \in Seq(Nat), NEW h \in Seq(Nat), NEW o \in Seq(Nat),
           NEW n \in Nat, Shared(b, p, s, h, o, {}, n)
    PROVE  /\ n = 0 => o = <<>>
           /\ b = <<>> /\ p = <<>> /\ s = <<>> /\ h = <<>> /\ o = <<>> => n = 0
  <1>1. Cardinality({}) = 0
    BY FS_EmptySet
  <1>2. Len(b) + Len(p) + Len(s) + Len(h) + Len(o) + 0 = n
    BY <1>1 DEF Shared
  <1>3. Len(b) \in Nat /\ Len(p) \in Nat /\ Len(s) \in Nat /\ Len(h) \in Nat /\ Len(o) \in Nat
    OBVIOUS
  <1>4. n = 0 => o = <<>>
    <2>1. n = 0 => Len(o) = 0
      BY <1>2, <1>3
    <2>. QED
      BY <2>1, NoLength
  <1>5. Len(<<>>) = 0
    BY NoElement
  <1>. QED
    BY <1>2, <1>4, <1>5

-----------------------------------------------------------------------------
(* The streams. *)
LEMMA Sequences ==
    ASSUME ChunkTypes, NEW x \in Sides
    PROVE  /\ Buf(x) \in Seq(Nat) /\ passed[x] \in Seq(Nat) /\ sock[x] \in Seq(Nat)
           /\ held[x] \in Seq(Nat) /\ out[x] \in Seq(Nat) /\ buf \in Seq(Nat)
           /\ lost[x] \in SUBSET Nat /\ IsFiniteSet(lost[x]) /\ sent[x] \in Nat
  BY NoElement DEF ChunkTypes, Buf

LEMMA Elsewhere ==
    ASSUME NEW x, sent'[x] = sent[x], lost'[x] = lost[x], Buf(x)' = Buf(x), passed'[x] = passed[x],
           sock'[x] = sock[x], held'[x] = held[x], out'[x] = out[x], SharedAt(x)
    PROVE  SharedAt(x)'
  BY DEF SharedAt

LEMMA HostSendShares ==
    ASSUME ChunkTypes, AllShared, Paired, Lossy, NEW x \in Sides, HostSend(x)
    PROVE  ChunkTypes' /\ AllShared' /\ Lossy'
  <1>1. PICK c : c = Append(sock[x], sent[x] + 1)
    OBVIOUS
  <1>2. c \in Seq(Nat) /\ sent[x] + 1 \in Nat
    BY <1>1, Sequences, AppendedChunk
  <1>3. /\ sent' = [sent EXCEPT ![x] = sent[x] + 1] /\ sent'[x] = sent[x] + 1
        /\ UNCHANGED <<maps, ended, buf, copy, held>>
    BY DEF HostSend, ChunkTypes
  <1>4. \/ sock' = [sock EXCEPT ![x] = c] /\ UNCHANGED <<passed, out, lost>>
        \/ /\ sock' = [sock EXCEPT ![x] = <<>>] /\ out' = [out EXCEPT ![x] = out[x] \o c]
           /\ UNCHANGED <<passed, lost>>
        \/ /\ sock' = [sock EXCEPT ![x] = <<>>] /\ passed' = [passed EXCEPT ![x] = passed[x] \o c]
           /\ UNCHANGED <<out, lost>>
        \/ /\ sock' = [sock EXCEPT ![x] = <<>>] /\ lost' = [lost EXCEPT ![x] = lost[x] \cup ToSet(c)]
           /\ UNCHANGED <<passed, out>> /\ x \in peer /\ Other(x) \notin sockhash
    BY <1>1, <1>3 DEF HostSend, stream_verdict
  <1>5. \A y \in Sides : y # x => SharedAt(y)'
    <2>1. TAKE y \in Sides
    <2>2. HAVE y # x
    <2>3. /\ sent'[y] = sent[y] /\ lost'[y] = lost[y] /\ passed'[y] = passed[y]
          /\ sock'[y] = sock[y] /\ held'[y] = held[y] /\ out'[y] = out[y] /\ Buf(y)' = Buf(y)
      BY <1>3, <1>4, <2>2 DEF ChunkTypes, Buf
    <2>. QED
      BY <2>3, Elsewhere DEF AllShared
  <1>6. Shared(Buf(x), passed[x], sock[x], held[x], out[x], lost[x], sent[x])
    BY DEF AllShared, SharedAt
  <1>7. Buf(x)' = Buf(x) /\ held'[x] = held[x]
    BY <1>3 DEF Buf
  <1>8. sent' \in [Sides -> Nat]
    BY <1>2, <1>3 DEF ChunkTypes
  <1>9. CASE sock' = [sock EXCEPT ![x] = c] /\ UNCHANGED <<passed, out, lost>>
    <2>1. sock'[x] = c /\ sock' \in [Sides -> Seq(Nat)]
      BY <1>2, <1>9 DEF ChunkTypes
    <2>2. Shared(Buf(x), passed[x], c, held[x], out[x], lost[x], sent[x] + 1)
      BY <1>1, <1>6, ChunkArrives, Sequences
    <2>3. SharedAt(x)'
      BY <1>3, <1>7, <1>9, <2>1, <2>2 DEF SharedAt
    <2>. QED
      BY <1>3, <1>5, <1>8, <1>9, <2>1, <2>3 DEF ChunkTypes, AllShared, Lossy, maps
  <1>10. CASE /\ sock' = [sock EXCEPT ![x] = <<>>] /\ out' = [out EXCEPT ![x] = out[x] \o c]
              /\ UNCHANGED <<passed, lost>>
    <2>1. out[x] \o c \in Seq(Nat) /\ <<>> \in Seq(Nat)
      BY <1>2, Sequences, JoinedChunks, NoElement
    <2>2. /\ sock'[x] = <<>> /\ sock' \in [Sides -> Seq(Nat)]
          /\ out'[x] = out[x] \o c /\ out' \in [Sides -> Seq(Nat)]
      BY <1>10, <2>1 DEF ChunkTypes
    <2>3. Shared(Buf(x), passed[x], <<>>, held[x], out[x] \o c, lost[x], sent[x] + 1)
      BY <1>1, <1>6, ChunkArrives, Sequences
    <2>4. SharedAt(x)'
      BY <1>3, <1>7, <1>10, <2>2, <2>3 DEF SharedAt
    <2>. QED
      BY <1>3, <1>5, <1>8, <1>10, <2>2, <2>4 DEF ChunkTypes, AllShared, Lossy, maps
  <1>11. CASE /\ sock' = [sock EXCEPT ![x] = <<>>] /\ passed' = [passed EXCEPT ![x] = passed[x] \o c]
              /\ UNCHANGED <<out, lost>>
    <2>1. passed[x] \o c \in Seq(Nat) /\ <<>> \in Seq(Nat)
      BY <1>2, Sequences, JoinedChunks, NoElement
    <2>2. /\ sock'[x] = <<>> /\ sock' \in [Sides -> Seq(Nat)]
          /\ passed'[x] = passed[x] \o c /\ passed' \in [Sides -> Seq(Nat)]
      BY <1>11, <2>1 DEF ChunkTypes
    <2>3. Shared(Buf(x), passed[x] \o c, <<>>, held[x], out[x], lost[x], sent[x] + 1)
      BY <1>1, <1>6, ChunkArrives, Sequences
    <2>4. SharedAt(x)'
      BY <1>3, <1>7, <1>11, <2>2, <2>3 DEF SharedAt
    <2>. QED
      BY <1>3, <1>5, <1>8, <1>11, <2>2, <2>4 DEF ChunkTypes, AllShared, Lossy, maps
  <1>12. CASE /\ sock' = [sock EXCEPT ![x] = <<>>] /\ lost' = [lost EXCEPT ![x] = lost[x] \cup ToSet(c)]
              /\ UNCHANGED <<passed, out>> /\ x \in peer /\ Other(x) \notin sockhash
    <2>1. /\ IsFiniteSet(lost[x] \cup ToSet(c)) /\ lost[x] \cup ToSet(c) \in SUBSET Nat
          /\ Shared(Buf(x), passed[x], <<>>, held[x], out[x], lost[x] \cup ToSet(c), sent[x] + 1)
      BY <1>1, <1>6, ChunksDropped, Sequences
    <2>2. /\ sock'[x] = <<>> /\ sock' \in [Sides -> Seq(Nat)]
          /\ lost'[x] = lost[x] \cup ToSet(c) /\ lost' \in [Sides -> SUBSET Nat]
      BY <1>12, <2>1, NoElement DEF ChunkTypes
    <2>3. \A y \in Sides : IsFiniteSet(lost'[y])
      BY <1>12, <2>1 DEF ChunkTypes
    <2>4. SharedAt(x)'
      BY <1>3, <1>7, <1>12, <2>1, <2>2 DEF SharedAt
    <2>5. x = "r" /\ unpaired
      BY <1>12 DEF Sides, Other, Paired
    <2>6. Lossy'
      BY <1>3, <1>12, <2>5 DEF Lossy, maps, ChunkTypes, Sides
    <2>. QED
      BY <1>3, <1>5, <1>8, <1>12, <2>2, <2>3, <2>4, <2>6 DEF ChunkTypes, AllShared
  <1>. QED
    BY <1>4, <1>9, <1>10, <1>11, <1>12

LEMMA CopyReadShares ==
    ASSUME ChunkTypes, AllShared, NEW x \in Sides, CopyRead(x)
    PROVE  ChunkTypes' /\ AllShared'
  <1>1. held[x] = <<>> /\ UNCHANGED <<sent, ended, copy, out, lost>>
    BY DEF CopyRead, ends
  <1>2. \/ /\ x = "l" /\ held' = [held EXCEPT ![x] = buf] /\ buf' = <<>> /\ UNCHANGED <<passed, sock>>
        \/ /\ held' = [held EXCEPT ![x] = passed[x]] /\ passed' = [passed EXCEPT ![x] = <<>>]
           /\ UNCHANGED <<buf, sock>>
        \/ /\ held' = [held EXCEPT ![x] = sock[x]] /\ sock' = [sock EXCEPT ![x] = <<>>]
           /\ UNCHANGED <<buf, passed>>
    BY DEF CopyRead
  <1>3. \A y \in Sides : y # x => SharedAt(y)'
    <2>1. TAKE y \in Sides
    <2>2. HAVE y # x
    <2>3. /\ sent'[y] = sent[y] /\ lost'[y] = lost[y] /\ passed'[y] = passed[y]
          /\ sock'[y] = sock[y] /\ held'[y] = held[y] /\ out'[y] = out[y] /\ Buf(y)' = Buf(y)
      BY <1>1, <1>2, <2>2 DEF ChunkTypes, Buf
    <2>. QED
      BY <2>3, Elsewhere DEF AllShared
  <1>4. /\ Shared(<<>>, passed[x], sock[x], Buf(x), out[x], lost[x], sent[x])
        /\ Shared(Buf(x), <<>>, sock[x], passed[x], out[x], lost[x], sent[x])
        /\ Shared(Buf(x), passed[x], <<>>, sock[x], out[x], lost[x], sent[x])
    <2>1. Shared(Buf(x), passed[x], sock[x], held[x], out[x], lost[x], sent[x])
      BY DEF AllShared, SharedAt
    <2>. QED
      BY <1>1, <2>1, ChunksMove, Sequences
  <1>5. <<>> \in Seq(Nat)
    BY NoElement
  <1>6. CASE /\ x = "l" /\ held' = [held EXCEPT ![x] = buf] /\ buf' = <<>> /\ UNCHANGED <<passed, sock>>
    <2>1. held'[x] = Buf(x) /\ Buf(x)' = <<>> /\ ChunkTypes'
      BY <1>1, <1>5, <1>6 DEF ChunkTypes, Buf
    <2>2. SharedAt(x)'
      BY <1>1, <1>4, <1>6, <2>1 DEF SharedAt
    <2>. QED
      BY <1>3, <2>1, <2>2 DEF AllShared
  <1>7. CASE /\ held' = [held EXCEPT ![x] = passed[x]] /\ passed' = [passed EXCEPT ![x] = <<>>]
             /\ UNCHANGED <<buf, sock>>
    <2>1. held'[x] = passed[x] /\ passed'[x] = <<>> /\ Buf(x)' = Buf(x) /\ ChunkTypes'
      BY <1>1, <1>5, <1>7 DEF ChunkTypes, Buf
    <2>2. SharedAt(x)'
      BY <1>1, <1>4, <1>7, <2>1 DEF SharedAt
    <2>. QED
      BY <1>3, <2>1, <2>2 DEF AllShared
  <1>8. CASE /\ held' = [held EXCEPT ![x] = sock[x]] /\ sock' = [sock EXCEPT ![x] = <<>>]
             /\ UNCHANGED <<buf, passed>>
    <2>1. held'[x] = sock[x] /\ sock'[x] = <<>> /\ Buf(x)' = Buf(x) /\ ChunkTypes'
      BY <1>1, <1>5, <1>8 DEF ChunkTypes, Buf
    <2>2. SharedAt(x)'
      BY <1>1, <1>4, <1>8, <2>1 DEF SharedAt
    <2>. QED
      BY <1>3, <2>1, <2>2 DEF AllShared
  <1>. QED
    BY <1>2, <1>6, <1>7, <1>8

LEMMA CopyWriteShares ==
    ASSUME ChunkTypes, AllShared, NEW x \in Sides, CopyWrite(x)
    PROVE  ChunkTypes' /\ AllShared'
  <1>1. /\ out' = [out EXCEPT ![x] = out[x] \o held[x]] /\ held' = [held EXCEPT ![x] = <<>>]
        /\ UNCHANGED <<sent, ended, copy, sock, passed, buf, lost>>
    BY DEF CopyWrite, ends
  <1>2. out[x] \o held[x] \in Seq(Nat) /\ <<>> \in Seq(Nat)
    BY Sequences, JoinedChunks, NoElement
  <1>3. ChunkTypes'
    BY <1>1, <1>2 DEF ChunkTypes
  <1>4. \A y \in Sides : y # x => SharedAt(y)'
    <2>1. TAKE y \in Sides
    <2>2. HAVE y # x
    <2>3. /\ sent'[y] = sent[y] /\ lost'[y] = lost[y] /\ passed'[y] = passed[y]
          /\ sock'[y] = sock[y] /\ held'[y] = held[y] /\ out'[y] = out[y] /\ Buf(y)' = Buf(y)
      BY <1>1, <2>2 DEF ChunkTypes, Buf
    <2>. QED
      BY <2>3, Elsewhere DEF AllShared
  <1>5. Shared(Buf(x), passed[x], sock[x], <<>>, out[x] \o held[x], lost[x], sent[x])
    <2>1. Shared(Buf(x), passed[x], sock[x], held[x], out[x], lost[x], sent[x])
      BY DEF AllShared, SharedAt
    <2>. QED
      BY <2>1, ChunksMove, Sequences
  <1>6. out'[x] = out[x] \o held[x] /\ held'[x] = <<>> /\ Buf(x)' = Buf(x)
    BY <1>1 DEF ChunkTypes, Buf
  <1>7. SharedAt(x)'
    BY <1>1, <1>5, <1>6 DEF SharedAt
  <1>. QED
    BY <1>3, <1>4, <1>7 DEF AllShared

LEMMA SniffShares ==
    ASSUME ChunkTypes, AllShared, buf = <<>>, Sniff
    PROVE  ChunkTypes' /\ AllShared'
  <1>1. /\ buf' = sock["l"] /\ sock' = [sock EXCEPT !["l"] = <<>>]
        /\ UNCHANGED <<sent, ended, passed, copy, held, out, lost>>
    BY DEF Sniff, ends
  <1>2. "l" \in Sides /\ "r" \in Sides /\ \A y \in Sides : y = "l" \/ y = "r"
    BY DEF Sides
  <1>3. /\ sock'["l"] = <<>> /\ sock'["r"] = sock["r"] /\ Buf("r")' = Buf("r")
        /\ Buf("l")' = sock["l"] /\ Buf("l") = <<>>
    BY <1>1, <1>2 DEF ChunkTypes, Buf
  <1>4. ChunkTypes'
    BY <1>1, <1>2, Sequences, NoElement DEF ChunkTypes
  <1>5. SharedAt("r")'
    BY <1>1, <1>2, <1>3, Elsewhere DEF AllShared
  <1>6. SharedAt("l")'
    <2>1. Shared(Buf("l"), passed["l"], sock["l"], held["l"], out["l"], lost["l"], sent["l"])
      BY <1>2 DEF AllShared, SharedAt
    <2>2. Shared(sock["l"], passed["l"], <<>>, held["l"], out["l"], lost["l"], sent["l"])
      BY <1>2, <1>3, <2>1, ChunksMove, Sequences
    <2>. QED
      BY <1>1, <1>3, <2>2 DEF SharedAt
  <1>. QED
    BY <1>2, <1>4, <1>5, <1>6 DEF AllShared

LEMMA DrainShares ==
    ASSUME ChunkTypes, AllShared, Drain
    PROVE  ChunkTypes' /\ AllShared'
  <1>1. /\ out' = [out EXCEPT !["l"] = out["l"] \o buf] /\ buf' = <<>>
        /\ UNCHANGED <<sent, ended, sock, passed, copy, held, lost>>
    BY DEF Drain, ends
  <1>2. "l" \in Sides /\ "r" \in Sides /\ \A y \in Sides : y = "l" \/ y = "r"
    BY DEF Sides
  <1>3. out["l"] \o buf \in Seq(Nat) /\ <<>> \in Seq(Nat)
    BY <1>2, Sequences, JoinedChunks, NoElement
  <1>4. /\ out'["l"] = out["l"] \o buf /\ out'["r"] = out["r"] /\ Buf("r")' = Buf("r")
        /\ Buf("l")' = <<>> /\ Buf("l") = buf
    BY <1>1, <1>2 DEF ChunkTypes, Buf
  <1>5. ChunkTypes'
    BY <1>1, <1>2, <1>3 DEF ChunkTypes
  <1>6. SharedAt("r")'
    BY <1>1, <1>2, <1>4, Elsewhere DEF AllShared
  <1>7. SharedAt("l")'
    <2>1. Shared(Buf("l"), passed["l"], sock["l"], held["l"], out["l"], lost["l"], sent["l"])
      BY <1>2 DEF AllShared, SharedAt
    <2>2. Shared(<<>>, passed["l"], sock["l"], held["l"], out["l"] \o buf, lost["l"], sent["l"])
      BY <1>2, <1>4, <2>1, ChunksMove, Sequences
    <2>. QED
      BY <1>1, <1>4, <2>2 DEF SharedAt
  <1>. QED
    BY <1>2, <1>5, <1>6, <1>7 DEF AllShared

(* No step loses or repeats a chunk, and one that drops some has its excuse. *)
LEMMA StreamsShared ==
    ASSUME ChunkTypes, AllShared, Paired, Lossy, Unopened, Planned, [OffloadNext]_offloadVars
    PROVE  ChunkTypes' /\ AllShared' /\ Lossy'
  <1>1. ASSUME UNCHANGED <<sent, streams>>, DOMAIN ended' = DOMAIN ended, DOMAIN copy' = DOMAIN copy
        PROVE  ChunkTypes' /\ AllShared'
    <2>1. ChunkTypes'
      BY <1>1 DEF ChunkTypes, streams
    <2>2. \A x \in Sides : SharedAt(x)'
      BY <1>1, Elsewhere DEF AllShared, streams, Buf
    <2>. QED
      BY <2>1, <2>2 DEF AllShared
  <1>2. ASSUME UNCHANGED lost, unpaired => unpaired' PROVE Lossy'
    BY <1>2 DEF Lossy
  <1>3. ASSUME NEW x \in Sides, HostSend(x) PROVE ChunkTypes' /\ AllShared' /\ Lossy'
    BY <1>3, HostSendShares
  <1>4. ASSUME NEW x \in Sides, CopyRead(x) PROVE ChunkTypes' /\ AllShared' /\ Lossy'
    <2>1. UNCHANGED <<lost, unpaired>>
      BY <1>4 DEF CopyRead, maps
    <2>. QED
      BY <1>2, <1>4, <2>1, CopyReadShares
  <1>5. ASSUME NEW x \in Sides, CopyWrite(x) PROVE ChunkTypes' /\ AllShared' /\ Lossy'
    <2>1. UNCHANGED <<lost, unpaired>>
      BY <1>5 DEF CopyWrite, maps
    <2>. QED
      BY <1>2, <1>5, <2>1, CopyWriteShares
  <1>6. CASE Sniff
    <2>1. UNCHANGED <<lost, unpaired>> /\ todo # <<>> /\ FirstOp(todo) = "sniff"
      BY <1>6 DEF Sniff, maps, Doing, Step, FirstOp
    <2>2. todo = Sniffing
      BY <2>1, Plans DEF Planned
    <2>3. buf = <<>>
      BY <2>2 DEF Unopened
    <2>. QED
      BY <1>2, <1>6, <2>1, <2>3, SniffShares
  <1>7. CASE Drain
    <2>1. UNCHANGED <<lost, unpaired>>
      BY <1>7 DEF Drain, maps
    <2>. QED
      BY <1>2, <1>7, <2>1, DrainShares
  <1>8. ASSUME NEW x \in Sides, HostEnd(x) PROVE ChunkTypes' /\ AllShared' /\ Lossy'
    <2>1. UNCHANGED <<sent, streams, unpaired>> /\ DOMAIN ended' = DOMAIN ended
      BY <1>8 DEF HostEnd, maps
    <2>. QED
      BY <1>1, <1>2, <2>1 DEF streams
  <1>9. (\E x \in Sides : CopyEnd(x)) \/ StartCopy => ChunkTypes' /\ AllShared' /\ Lossy'
    <2>1. SUFFICES ASSUME (\E x \in Sides : CopyEnd(x)) \/ StartCopy PROVE ChunkTypes' /\ AllShared' /\ Lossy'
      OBVIOUS
    <2>2. /\ UNCHANGED <<sent, ended, sock, passed, buf, held, out, lost, unpaired>>
          /\ DOMAIN copy' = DOMAIN copy
      BY <2>1 DEF CopyEnd, StartCopy, maps, ends, ChunkTypes
    <2>3. ChunkTypes'
      BY <2>2 DEF ChunkTypes
    <2>4. \A x \in Sides : SharedAt(x)'
      BY <2>2, Elsewhere DEF AllShared, Buf
    <2>. QED
      BY <1>2, <2>2, <2>3, <2>4 DEF AllShared
  <1>10. CASE SniffEOF \/ Cookies \/ Put \/ PutFails \/ Erase \/ Activated \/ CloseSockmap \/ UNCHANGED offloadVars
    <2>0. ASSUME PutFails PROVE UNCHANGED <<sent, ended, streams>> /\ (unpaired => unpaired')
      <3>1. UNCHANGED <<sent, ended, streams>>
        BY <2>0 DEF PutFails, ends
      <3>2. unpaired' = (unpaired \/ Step = Do("peer", "l"))
        BY <2>0 DEF PutFails
      <3>. QED
        BY <3>1, <3>2, Zenon
    <2>1. UNCHANGED <<sent, ended, streams>> /\ (unpaired => unpaired')
      BY <1>10, <2>0 DEF SniffEOF, Cookies, Put, Erase, Activated, CloseSockmap, offloadVars, maps, ends
    <2>2. UNCHANGED <<copy, lost>>
      BY <2>1 DEF streams
    <2>. QED
      BY <1>1, <1>2, <2>1, <2>2
  <1>. QED
    BY <1>3, <1>4, <1>5, <1>6, <1>7, <1>8, <1>9, <1>10 DEF OffloadNext

-----------------------------------------------------------------------------
(* The first chunk of a sniffed client. *)
LEMMA SniffsOnce ==
    ASSUME Planned, Unopened, [OffloadNext]_offloadVars
    PROVE  Unopened'
  <1>1. CASE UNCHANGED todo /\ (buf = <<>> => buf' = <<>>)
    BY <1>1 DEF Unopened
  <1>2. CASE todo' = <<>> \/ FirstOp(todo') # "sniff"
    BY <1>2, Plans DEF Unopened
  <1>3. ASSUME NEW x \in Sides, HostSend(x) \/ HostEnd(x) \/ CopyRead(x) \/ CopyWrite(x)
        PROVE  UNCHANGED todo /\ (buf = <<>> => buf' = <<>>)
    BY <1>3 DEF HostSend, HostEnd, CopyRead, CopyWrite, streams
  <1>4. ASSUME NEW x \in Sides, CopyEnd(x)
        PROVE  Unopened'
    <2>1. UNCHANGED buf /\ todo' \in {todo, Delete}
      BY <1>4 DEF CopyEnd
    <2>. QED
      BY <1>1, <1>2, <2>1, Plans
  <1>5. CASE Sniff \/ SniffEOF
    <2>1. todo' \in {Copying, Draining}
      BY <1>5, FirstPlan DEF Sniff, SniffEOF, Copying
    <2>. QED
      BY <1>2, <2>1, Plans
  <1>6. CASE Drain \/ Cookies \/ Put \/ Erase \/ Activated \/ StartCopy
    <2>1. todo # <<>> /\ FirstOp(todo) # "sniff" /\ todo' = Remaining(todo)
      BY <1>6 DEF Drain, Cookies, Put, Erase, Activated, StartCopy, Doing, Step, Proceed, FirstOp, Remaining
    <2>2. todo \in {Copying, Delete, Draining, Asking, HashingL, HashingR, PeeringR, PeeringL, TurningOn,
                    UndoL, UndoR, UndoBoth, UndoPeer, Delete3, Delete2, Delete1}
      BY <2>1, Plans DEF Planned
    <2>3. todo' \in {<<>>, Delete3, Delete2, Delete1, Asking, HashingL, HashingR, PeeringR, PeeringL, TurningOn,
                     Copying, UndoR, UndoBoth}
      BY <2>1, <2>2, Plans
    <2>. QED
      BY <1>2, <2>3, Plans
  <1>7. CASE PutFails
    <2>1. todo # <<>> /\ FirstOp(todo) \in {"fds", "hash", "peer"} /\ todo' = UndonePlan(todo)
      BY <1>7 DEF PutFails, Doing, Step, Copying, FirstOp, UndonePlan
    <2>2. todo \in {Asking, HashingL, HashingR, PeeringR, PeeringL}
      BY <2>1, Plans DEF Planned
    <2>3. todo' \in {Copying, UndoL, UndoBoth, UndoPeer}
      BY <2>1, <2>2, UndoPlans
    <2>. QED
      BY <1>2, <2>3, Plans
  <1>8. CASE CloseSockmap \/ UNCHANGED offloadVars
    BY <1>1, <1>8 DEF CloseSockmap, offloadVars, streams
  <1>. QED
    BY <1>1, <1>3, <1>4, <1>5, <1>6, <1>7, <1>8 DEF OffloadNext

LEMMA WentOutStays ==
    ASSUME ChunkTypes, WentOut, [OffloadNext]_offloadVars
    PROVE  WentOut'
  <1>. PICK o : o = out["l"]
    OBVIOUS
  <1>0. "l" \in Sides /\ o \in Seq(Nat) /\ o # <<>> /\ Head(o) = 1
    BY Sequences DEF WentOut, Sides
  <1>1. CASE out'["l"] = o
    BY <1>0, <1>1 DEF WentOut
  <1>2. ASSUME NEW c \in Seq(Nat), out'["l"] = o \o c PROVE WentOut'
    <2>1. o \o c # <<>> /\ Head(o \o c) = Head(o)
      BY <1>0, Joined
    <2>. QED
      BY <1>0, <1>2, <2>1 DEF WentOut
  <1>3. ASSUME NEW x \in Sides, HostSend(x) PROVE WentOut'
    <2>1. PICK c : c = Append(sock[x], sent[x] + 1)
      OBVIOUS
    <2>2. c \in Seq(Nat)
      BY <2>1, Sequences, AppendedChunk
    <2>3. sent'[x] = sent[x] + 1
      BY <1>3 DEF HostSend, ChunkTypes
    <2>4. UNCHANGED out \/ out' = [out EXCEPT ![x] = out[x] \o c]
      BY <1>3, <2>1, <2>3 DEF HostSend, stream_verdict
    <2>5. out'["l"] = o \/ out'["l"] = o \o c
      BY <1>0, <2>4 DEF ChunkTypes
    <2>. QED
      BY <1>1, <1>2, <2>2, <2>5
  <1>4. ASSUME NEW x \in Sides, CopyWrite(x) PROVE WentOut'
    <2>1. out' = [out EXCEPT ![x] = out[x] \o held[x]] /\ held[x] \in Seq(Nat)
      BY <1>4, Sequences DEF CopyWrite
    <2>2. out'["l"] = o \/ out'["l"] = o \o held[x]
      BY <1>0, <2>1 DEF ChunkTypes
    <2>. QED
      BY <1>1, <1>2, <2>1, <2>2
  <1>5. CASE Drain
    <2>1. out' = [out EXCEPT !["l"] = out["l"] \o buf] /\ buf \in Seq(Nat)
      BY <1>5 DEF Drain, ChunkTypes
    <2>2. out'["l"] = o \o buf
      BY <1>0, <2>1 DEF ChunkTypes
    <2>. QED
      BY <1>2, <2>1, <2>2
  <1>6. ASSUME NEW x \in Sides, HostEnd(x) \/ CopyRead(x) \/ CopyEnd(x) PROVE WentOut'
    BY <1>1, <1>6 DEF HostEnd, CopyRead, CopyEnd, streams
  <1>7. CASE \/ Sniff \/ SniffEOF \/ Cookies \/ Put \/ PutFails \/ Erase \/ Activated
             \/ StartCopy \/ CloseSockmap \/ UNCHANGED offloadVars
    BY <1>1, <1>7 DEF Sniff, SniffEOF, Cookies, Put, PutFails, Erase, Activated, StartCopy, CloseSockmap,
       offloadVars, streams
  <1>. QED
    BY <1>3, <1>4, <1>5, <1>6, <1>7 DEF OffloadNext

LEMMA NeverSpokeStays ==
    ASSUME ChunkTypes, NeverSpoke, [OffloadNext]_offloadVars
    PROVE  NeverSpoke'
  <1>1. "l" \in Sides
    BY DEF Sides
  <1>2. ASSUME NEW x \in Sides, HostSend(x) PROVE NeverSpoke'
    BY <1>1, <1>2 DEF HostSend, NeverSpoke, ChunkTypes
  <1>3. ASSUME NEW x \in Sides, HostEnd(x) PROVE NeverSpoke'
    BY <1>1, <1>3 DEF HostEnd, NeverSpoke, ChunkTypes
  <1>4. ASSUME NEW x \in Sides, CopyRead(x) \/ CopyWrite(x) \/ CopyEnd(x) PROVE NeverSpoke'
    BY <1>4 DEF CopyRead, CopyWrite, CopyEnd, NeverSpoke, ends
  <1>5. CASE \/ Sniff \/ SniffEOF \/ Drain \/ Cookies \/ Put \/ PutFails \/ Erase \/ Activated
             \/ StartCopy \/ CloseSockmap \/ UNCHANGED offloadVars
    BY <1>5 DEF Sniff, SniffEOF, Drain, Cookies, Put, PutFails, Erase, Activated, StartCopy, CloseSockmap,
       NeverSpoke,
                offloadVars, ends
  <1>. QED
    BY <1>2, <1>3, <1>4, <1>5 DEF OffloadNext

(* While nothing has gone out and the client is in no map, what it sends waits
   in its socket, and the server does not touch its stream.                  *)
LEMMA AloneStays ==
    ASSUME ChunkTypes, Alone, NEW x \in Sides, HostSend(x)
    PROVE  /\ Alone' /\ UNCHANGED <<todo, buf, copy, held>>
           /\ sock'["l"] = IF x = "l" THEN Append(sock["l"], sent["l"] + 1) ELSE sock["l"]
  <1>1. "l" \in Sides /\ x \notin sockhash
    BY DEF Sides, Alone
  <1>2. /\ sock' = [sock EXCEPT ![x] = Append(sock[x], sent'[x])] /\ sent'[x] = sent[x] + 1
        /\ UNCHANGED <<passed, out, todo, buf, copy, held, sockhash>>
    BY <1>1 DEF HostSend, maps, ChunkTypes
  <1>. QED
    BY <1>1, <1>2 DEF Alone, ChunkTypes

(* The copies of the other direction do not touch the client's stream. *)
LEMMA ServerCopies ==
    ASSUME ChunkTypes, CopyRead("r") \/ CopyWrite("r") \/ CopyEnd("r")
    PROVE  /\ UNCHANGED <<todo, buf, sockhash>> /\ copy'["l"] = copy["l"] /\ out'["l"] = out["l"]
           /\ passed'["l"] = passed["l"] /\ held'["l"] = held["l"] /\ sock'["l"] = sock["l"]
  <1>1. "l" \in Sides /\ "r" \in Sides
    BY DEF Sides
  <1>2. CASE CopyRead("r")
    BY <1>1, <1>2 DEF CopyRead, maps, ChunkTypes
  <1>3. CASE CopyWrite("r")
    BY <1>1, <1>3 DEF CopyWrite, maps, ChunkTypes
  <1>4. CASE CopyEnd("r")
    BY <1>1, <1>4 DEF CopyEnd, maps, ChunkTypes
  <1>. QED
    BY <1>2, <1>3, <1>4

LEMMA BeforeSniffMoves ==
    ASSUME ChunkTypes, AllShared, Lossy, mode = "SNIFF", BeforeSniff, [OffloadNext]_offloadVars
    PROVE  FirstChunk'
  <1>. PICK s : s = sock["l"]
    OBVIOUS
  <1>1. "l" \in Sides /\ s \in Seq(Nat) /\ mode' = mode /\ todo # <<>> /\ FirstOp(todo) = "sniff"
    BY Sequences, Plans DEF Sides, OffloadNext, offloadVars, BeforeSniff, HostSend, HostEnd, CopyRead,
       CopyWrite, CopyEnd, Sniff,
       SniffEOF, Drain, Cookies, Put, PutFails, Erase, Activated, StartCopy, CloseSockmap
  <1>2. s = <<>> => sent["l"] = 0
    <2>1. Shared(Buf("l"), passed["l"], sock["l"], held["l"], out["l"], {}, sent["l"])
      BY <1>1 DEF AllShared, SharedAt, Lossy
    <2>2. Buf("l") = <<>> /\ passed["l"] = <<>> /\ held["l"] = <<>> /\ out["l"] = <<>>
      BY DEF BeforeSniff, Alone, Buf
    <2>. QED
      BY <1>1, <2>1, <2>2, NothingSent, Sequences
  <1>3. CASE /\ UNCHANGED <<todo, buf, sockhash>> /\ copy'["l"] = copy["l"] /\ out'["l"] = out["l"]
             /\ passed'["l"] = passed["l"] /\ held'["l"] = held["l"] /\ sock'["l"] = sock["l"]
    BY <1>3 DEF BeforeSniff, Alone, FirstChunk
  <1>4. ASSUME NEW x \in Sides, HostSend(x) PROVE FirstChunk'
    <2>1. /\ Alone' /\ UNCHANGED <<todo, buf, copy, held>>
          /\ sock'["l"] = IF x = "l" THEN Append(sock["l"], sent["l"] + 1) ELSE sock["l"]
      BY <1>4, AloneStays DEF BeforeSniff
    <2>2. sock'["l"] # <<>> => Head(sock'["l"]) = 1
      <3>1. CASE x # "l"
        BY <2>1, <3>1 DEF BeforeSniff
      <3>2. CASE x = "l"
        <4>1. PICK n : n = sent["l"] + 1
          OBVIOUS
        <4>2. n \in Nat /\ (s = <<>> => n = 1)
          BY <1>1, <1>2, <4>1, Sequences
        <4>3. Head(Append(s, n)) = IF s = <<>> THEN n ELSE Head(s)
          BY <1>1, <4>2, Appended
        <4>4. s # <<>> => Head(s) = 1
          BY DEF BeforeSniff
        <4>. QED
          BY <2>1, <3>2, <4>1, <4>2, <4>3, <4>4
      <3>. QED
        BY <3>1, <3>2
    <2>. QED
      BY <2>1, <2>2 DEF BeforeSniff, FirstChunk
  <1>5. ASSUME NEW x \in Sides, HostEnd(x) PROVE FirstChunk'
    BY <1>3, <1>5 DEF HostEnd, maps, streams
  <1>6. ASSUME NEW x \in Sides, CopyRead(x) \/ CopyWrite(x) \/ CopyEnd(x) PROVE FirstChunk'
    <2>1. x = "r"
      BY <1>6 DEF CopyRead, CopyWrite, CopyEnd, BeforeSniff, Sides
    <2>. QED
      BY <1>3, <1>6, <2>1, ServerCopies
  <1>7. CASE Sniff
    <2>1. /\ todo' \in {Draining, Copying} /\ buf' = s /\ s # <<>>
          /\ UNCHANGED <<sockhash, copy, held, out, passed>>
      BY <1>7, FirstPlan DEF Sniff, maps
    <2>2. Alone' /\ InBuf' /\ copy'["l"] = "off"
      BY <2>1 DEF BeforeSniff, Alone, InBuf
    <2>. QED
      BY <2>1, <2>2 DEF FirstChunk, AfterSniff, InCopy
  <1>8. CASE SniffEOF
    BY <1>2, <1>8 DEF SniffEOF, FirstChunk, NeverSpoke, ends
  <1>9. CASE CloseSockmap \/ UNCHANGED offloadVars
    BY <1>3, <1>9 DEF CloseSockmap, offloadVars, maps, streams
  <1>10. ~(Drain \/ Cookies \/ Put \/ PutFails \/ Erase \/ Activated \/ StartCopy)
    BY <1>1 DEF Drain, Cookies, Put, PutFails, Erase, Activated, StartCopy, Doing, Step, FirstOp
  <1>. QED
    BY <1>4, <1>5, <1>6, <1>7, <1>8, <1>9, <1>10 DEF OffloadNext

LEMMA AfterSniffMoves ==
    ASSUME ChunkTypes, mode = "SNIFF", AfterSniff, [OffloadNext]_offloadVars
    PROVE  FirstChunk'
  <1>1. "l" \in Sides /\ todo # <<>> /\ FirstOp(todo) = "drain"
    BY Plans DEF Sides, AfterSniff
  <1>2. CASE /\ UNCHANGED <<todo, buf, sockhash>> /\ copy'["l"] = copy["l"] /\ out'["l"] = out["l"]
             /\ passed'["l"] = passed["l"] /\ held'["l"] = held["l"]
    BY <1>2 DEF AfterSniff, Alone, InBuf, FirstChunk
  <1>3. ASSUME NEW x \in Sides, HostSend(x) PROVE FirstChunk'
    <2>1. Alone' /\ UNCHANGED <<todo, buf, copy, held>>
      BY <1>3, AloneStays DEF AfterSniff
    <2>. QED
      BY <2>1 DEF AfterSniff, InBuf, FirstChunk
  <1>4. ASSUME NEW x \in Sides, HostEnd(x) PROVE FirstChunk'
    BY <1>2, <1>4 DEF HostEnd, maps, streams
  <1>5. ASSUME NEW x \in Sides, CopyRead(x) \/ CopyWrite(x) \/ CopyEnd(x) PROVE FirstChunk'
    <2>1. x = "r"
      BY <1>5 DEF CopyRead, CopyWrite, CopyEnd, AfterSniff, InBuf, Sides
    <2>. QED
      BY <1>2, <1>5, <2>1, ServerCopies
  <1>6. CASE Drain
    <2>1. out'["l"] = out["l"] \o buf
      BY <1>1, <1>6 DEF Drain, ChunkTypes
    <2>2. out["l"] = <<>> /\ buf \in Seq(Nat) /\ buf # <<>> /\ Head(buf) = 1
      BY DEF AfterSniff, Alone, InBuf, ChunkTypes
    <2>3. out'["l"] = buf
      BY <2>1, <2>2
    <2>. QED
      BY <2>2, <2>3 DEF FirstChunk, WentOut
  <1>7. CASE CloseSockmap \/ UNCHANGED offloadVars
    BY <1>2, <1>7 DEF CloseSockmap, offloadVars, maps, streams
  <1>8. ~(Sniff \/ SniffEOF \/ Cookies \/ Put \/ PutFails \/ Erase \/ Activated \/ StartCopy)
    BY <1>1 DEF Sniff, SniffEOF, Cookies, Put, PutFails, Erase, Activated, StartCopy, Doing, Step, FirstOp
  <1>. QED
    BY <1>3, <1>4, <1>5, <1>6, <1>7, <1>8 DEF OffloadNext

LEMMA InCopyMoves ==
    ASSUME ChunkTypes, mode = "SNIFF", InCopy, [OffloadNext]_offloadVars
    PROVE  FirstChunk'
  <1>0. todo = Copying \/ todo = <<>>
    BY DEF InCopy
  <1>1. "l" \in Sides /\ (todo = <<>> \/ (FirstOp(todo) = "copy" /\ Remaining(todo) = <<>>))
    <2>1. "l" \in Sides
      BY DEF Sides
    <2>2. FirstOp(Copying) = "copy" /\ Remaining(Copying) = <<>>
      BY Plans
    <2>. QED
      BY <1>0, <2>1, <2>2
  <1>2. CASE /\ UNCHANGED <<todo, buf, sockhash>> /\ out'["l"] = out["l"]
             /\ passed'["l"] = passed["l"] /\ held'["l"] = held["l"]
    BY <1>2 DEF InCopy, Alone, InBuf, InHand, FirstChunk
  <1>3. ASSUME NEW x \in Sides, HostSend(x) PROVE FirstChunk'
    <2>1. Alone' /\ UNCHANGED <<todo, buf, copy, held>>
      BY <1>3, AloneStays DEF InCopy
    <2>. QED
      BY <2>1 DEF InCopy, InBuf, InHand, FirstChunk
  <1>4. ASSUME NEW x \in Sides, HostEnd(x) PROVE FirstChunk'
    BY <1>2, <1>4 DEF HostEnd, maps, streams
  <1>5. ASSUME NEW x \in Sides, x # "l", CopyRead(x) \/ CopyWrite(x) \/ CopyEnd(x) PROVE FirstChunk'
    <2>1. x = "r"
      BY <1>5 DEF Sides
    <2>. QED
      BY <1>2, <1>5, <2>1, ServerCopies
  <1>6. CASE CopyRead("l")
    <2>1. held["l"] = <<>> /\ UNCHANGED <<todo, sockhash, out>>
      BY <1>6 DEF CopyRead, maps
    <2>2. buf # <<>> /\ Head(buf) = 1
      BY <2>1 DEF InCopy, InBuf, InHand
    <2>3. held' = [held EXCEPT !["l"] = buf] /\ buf' = <<>> /\ UNCHANGED passed
      BY <1>6, <2>2 DEF CopyRead
    <2>4. held'["l"] = buf
      BY <1>1, <2>3 DEF ChunkTypes
    <2>. QED
      BY <2>1, <2>2, <2>3, <2>4 DEF FirstChunk, InCopy, Alone, InHand
  <1>7. CASE CopyWrite("l")
    <2>1. held["l"] # <<>>
      BY <1>7 DEF CopyWrite
    <2>2. Head(held["l"]) = 1 /\ out["l"] = <<>> /\ held["l"] \in Seq(Nat)
      BY <1>1, <2>1, Sequences DEF InCopy, InBuf, InHand, Alone
    <2>3. out'["l"] = out["l"] \o held["l"]
      BY <1>1, <1>7 DEF CopyWrite, ChunkTypes
    <2>4. out'["l"] = held["l"]
      BY <2>2, <2>3
    <2>. QED
      BY <2>1, <2>2, <2>4 DEF FirstChunk, WentOut
  <1>8. ~CopyEnd("l")
    <2>1. SUFFICES ASSUME CopyEnd("l") PROVE FALSE
      OBVIOUS
    <2>2. buf \o passed["l"] \o sock["l"] \o held["l"] = <<>>
      BY <2>1 DEF CopyEnd, Unread
    <2>3. Len(buf) = 0 /\ Len(held["l"]) = 0
      <3>. PICK b, p, s, h : b = buf /\ p = passed["l"] /\ s = sock["l"] /\ h = held["l"]
        OBVIOUS
      <3>1. b \in Seq(Nat) /\ p \in Seq(Nat) /\ s \in Seq(Nat) /\ h \in Seq(Nat)
        BY <1>1, Sequences
      <3>2. PICK bp : bp = b \o p
        OBVIOUS
      <3>3. PICK bps : bps = bp \o s
        OBVIOUS
      <3>4. bp \in Seq(Nat) /\ Len(bp) = Len(b) + Len(p)
        BY <3>1, <3>2, JoinedChunks
      <3>5. bps \in Seq(Nat) /\ Len(bps) = Len(bp) + Len(s)
        BY <3>1, <3>3, <3>4, JoinedChunks
      <3>6. Len(bps \o h) = Len(bps) + Len(h)
        BY <3>1, <3>5, JoinedChunks
      <3>7. Len(bps \o h) = 0
        BY <2>2, <3>2, <3>3, NoElement
      <3>8. PICK i, j, k, l, m : i = Len(b) /\ j = Len(p) /\ k = Len(s) /\ l = Len(h) /\ m = Len(bp)
        OBVIOUS
      <3>9. /\ i \in Nat /\ j \in Nat /\ k \in Nat /\ l \in Nat /\ m = i + j /\ (m + k) + l = 0
        <4>1. i \in Nat /\ j \in Nat /\ k \in Nat /\ l \in Nat
          BY <3>1, <3>8
        <4>2. m = i + j
          BY <3>4, <3>8
        <4>3. (m + k) + l = 0
          BY <3>5, <3>6, <3>7, <3>8
        <4>. QED
          BY <4>1, <4>2, <4>3
      <3>10. i = 0 /\ l = 0
        BY <3>9
      <3>. QED
        BY <3>8, <3>10
    <2>4. buf = <<>> /\ held["l"] = <<>>
      BY <1>1, <2>3, Sequences, NoLength
    <2>. QED
      BY <2>4 DEF InCopy, InBuf, InHand
  <1>9. CASE StartCopy
    <2>1. /\ todo' = <<>> /\ UNCHANGED <<sockhash, passed, buf, held, out>>
      BY <1>1, <1>9 DEF StartCopy, Doing, Step, Proceed, FirstOp, Remaining, maps
    <2>. QED
      BY <2>1 DEF FirstChunk, InCopy, Alone, InBuf, InHand
  <1>10. CASE CloseSockmap \/ UNCHANGED offloadVars
    BY <1>2, <1>10 DEF CloseSockmap, offloadVars, maps, streams
  <1>11. ~(Sniff \/ SniffEOF \/ Drain \/ Cookies \/ Put \/ PutFails \/ Erase \/ Activated)
    BY <1>1 DEF Sniff, SniffEOF, Drain, Cookies, Put, PutFails, Erase, Activated, Doing, Step, FirstOp
  <1>. QED
    BY <1>3, <1>4, <1>5, <1>6, <1>7, <1>8, <1>9, <1>10, <1>11 DEF OffloadNext

-----------------------------------------------------------------------------
LEMMA OffloadStarts == OffloadInit => OffloadInv
  <1>. SUFFICES ASSUME OffloadInit PROVE OffloadInv
    OBVIOUS
  <1>1. <<>> \in Seq(Nat) /\ IsFiniteSet({}) /\ Cardinality({}) = 0
    BY NoElement, FS_EmptySet
  <1>2. ChunkTypes
    BY <1>1 DEF OffloadInit, ChunkTypes
  <1>3. AllShared
    <2>1. Shared(<<>>, <<>>, <<>>, <<>>, <<>>, {}, 0)
      <3>1. 1..0 = {} /\ Len(<<>>) = 0 /\ ToSet(<<>>) = {}
        BY NoElement
      <3>. QED
        BY <1>1, <3>1 DEF Shared
    <2>. QED
      BY <2>1 DEF OffloadInit, AllShared, SharedAt, Buf
  <1>4. todo \in {Sniffing, Copying, Draining} /\ sockhash = {} /\ peer = {} /\ buf = <<>>
        /\ (mode = "SNIFF" => todo = Sniffing)
    BY FirstPlan DEF OffloadInit, Sniffing
  <1>5. Planned /\ Unopened
    BY <1>4 DEF Planned, Unopened
  <1>6. Paired /\ Lossy
    BY <1>4 DEF Paired, Lossy, OffloadInit, Sides
  <1>7. FirstChunk
    BY <1>4 DEF OffloadInit, FirstChunk, BeforeSniff, Alone, Sides
  <1>. QED
    BY <1>2, <1>3, <1>5, <1>6, <1>7 DEF OffloadInv

LEMMA OffloadSteps == OffloadInv /\ [OffloadNext]_offloadVars => OffloadInv'
  <1>. SUFFICES ASSUME OffloadInv, [OffloadNext]_offloadVars PROVE OffloadInv'
    OBVIOUS
  <1>0. ChunkTypes /\ AllShared /\ Planned /\ Paired /\ Lossy /\ Unopened /\ FirstChunk
    BY DEF OffloadInv
  <1>1. ChunkTypes' /\ AllShared' /\ Lossy'
    BY <1>0, StreamsShared
  <1>2. Planned' /\ Paired'
    <2>1. CASE UNCHANGED offloadVars
      BY <1>0, <2>1 DEF offloadVars, maps, Planned, Paired
    <2>. QED
      BY <1>0, <2>1, ControlKeeps
  <1>3. Unopened'
    BY <1>0, SniffsOnce
  <1>4. FirstChunk'
    <2>1. mode' = mode
      BY DEF OffloadNext, offloadVars, HostSend, HostEnd, CopyRead, CopyWrite, CopyEnd, Sniff, SniffEOF,
         Drain, Cookies, Put,
         PutFails, Erase, Activated, StartCopy, CloseSockmap
    <2>2. CASE mode # "SNIFF"
      BY <2>1, <2>2 DEF FirstChunk
    <2>3. CASE mode = "SNIFF"
      <3>1. CASE WentOut \/ NeverSpoke
        BY <1>0, <3>1, WentOutStays, NeverSpokeStays DEF FirstChunk
      <3>2. CASE BeforeSniff
        BY <1>0, <2>3, <3>2, BeforeSniffMoves
      <3>3. CASE AfterSniff
        BY <1>0, <2>3, <3>3, AfterSniffMoves
      <3>4. CASE InCopy
        BY <1>0, <2>3, <3>4, InCopyMoves
      <3>. QED
        BY <1>0, <2>3, <3>1, <3>2, <3>3, <3>4 DEF FirstChunk
    <2>. QED
      BY <2>2, <2>3
  <1>. QED
    BY <1>1, <1>2, <1>3, <1>4 DEF OffloadInv

LEMMA OffloadInvariant == OffloadSpec => []OffloadInv
  <1>. QED
    BY OffloadStarts, OffloadSteps, PTL DEF OffloadSpec

(* However the kernel, the copies, the system calls that make and delete the
   entries, their failures and the server's end follow each other, no chunk is
   lost or repeated, unless the second peer entry could not be added; and then
   only chunks of the server are (server_linux.go, TryOffload and
   DeleteOffload; sockmap_linux.go, Add and Delete; sockmap.c).             *)
THEOREM KernelKeepsChunks == OffloadSpec => []ChunksKept
  <1>1. OffloadInv => ChunksKept
    <2>. SUFFICES ASSUME OffloadInv PROVE ChunksKept
      OBVIOUS
    <2>1. ASSUME NEW x \in Sides
          PROVE  Len(Places(x)) = sent[x] /\ ToSet(Places(x)) = 1..sent[x]
      <3>. PICK b, p, s, h, o, d, n : /\ b = Buf(x) /\ p = passed[x] /\ s = sock[x] /\ h = held[x] /\ o = out[x]
                                      /\ d = lost[x] /\ n = sent[x]
        OBVIOUS
      <3>1. /\ b \in Seq(Nat) /\ p \in Seq(Nat) /\ s \in Seq(Nat) /\ h \in Seq(Nat) /\ o \in Seq(Nat)
            /\ d \in SUBSET Nat /\ IsFiniteSet(d) /\ n \in Nat
        BY Sequences DEF OffloadInv
      <3>2. Shared(b, p, s, h, o, d, n)
        BY DEF OffloadInv, AllShared, SharedAt
      <3>3. PICK q : q = SetToSeq(d)
        OBVIOUS
      <3>4. q \in Seq(Nat) /\ Len(q) = Cardinality(d) /\ ToSet(q) = d
        BY <3>1, <3>3, SeqOfSet
      <3>5. PICK bp, bps, bpsh, bpsho : bp = b \o p /\ bps = bp \o s /\ bpsh = bps \o h /\ bpsho = bpsh \o o
        OBVIOUS
      <3>6. bp \in Seq(Nat) /\ Len(bp) = Len(b) + Len(p) /\ ToSet(bp) = ToSet(b) \cup ToSet(p)
        BY <3>1, <3>5, JoinedChunks
      <3>7. bps \in Seq(Nat) /\ Len(bps) = Len(bp) + Len(s) /\ ToSet(bps) = ToSet(bp) \cup ToSet(s)
        BY <3>1, <3>5, <3>6, JoinedChunks
      <3>8. bpsh \in Seq(Nat) /\ Len(bpsh) = Len(bps) + Len(h) /\ ToSet(bpsh) = ToSet(bps) \cup ToSet(h)
        BY <3>1, <3>5, <3>7, JoinedChunks
      <3>9. bpsho \in Seq(Nat) /\ Len(bpsho) = Len(bpsh) + Len(o) /\ ToSet(bpsho) = ToSet(bpsh) \cup ToSet(o)
        BY <3>1, <3>5, <3>8, JoinedChunks
      <3>10. Len(bpsho \o q) = Len(bpsho) + Len(q) /\ ToSet(bpsho \o q) = ToSet(bpsho) \cup ToSet(q)
        BY <3>4, <3>9, JoinedChunks
      <3>11. Places(x) = bpsho \o q
        BY <3>3, <3>5 DEF Places, Unread, Buf
      <3>12. ToSet(bpsho \o q) = 1..n
        BY <3>2, <3>4, <3>6, <3>7, <3>8, <3>9, <3>10 DEF Shared
      <3>13. Len(bpsho \o q) = n
        BY <3>2, <3>4, <3>6, <3>7, <3>8, <3>9, <3>10 DEF Shared
      <3>. QED
        BY <3>11, <3>12, <3>13
    <2>2. (lost["l"] \cup lost["r"] # {}) => unpaired /\ lost["l"] = {}
      BY DEF OffloadInv, Lossy
    <2>. QED
      BY <2>1, <2>2 DEF ChunksKept
  <1>. QED
    BY <1>1, OffloadInvariant, PTL

(* The bytes read to find out that a connection is not HTTP are the first the
   server gets (base.go, ProcessLR; server_linux.go, TryOffload: the drain of
   sniffReader before the entries are made).                                *)
THEOREM SniffedGoesFirst == OffloadSpec => []SniffedFirst
  <1>1. OffloadInv => SniffedFirst
    <2>. SUFFICES ASSUME OffloadInv, mode = "SNIFF", out["l"] # <<>> PROVE Head(out["l"]) = 1
      BY DEF SniffedFirst
    <2>1. CASE BeforeSniff \/ AfterSniff \/ InCopy
      BY <2>1 DEF BeforeSniff, AfterSniff, InCopy, Alone
    <2>2. CASE NeverSpoke
      <3>1. "l" \in Sides /\ lost["l"] = {}
        BY DEF Sides, OffloadInv, Lossy
      <3>2. Shared(Buf("l"), passed["l"], sock["l"], held["l"], out["l"], {}, 0)
        BY <2>2, <3>1 DEF OffloadInv, AllShared, SharedAt, NeverSpoke
      <3>3. out["l"] = <<>>
        BY <3>1, <3>2, NothingSent, Sequences DEF OffloadInv
      <3>. QED
        BY <3>3
    <2>. QED
      BY <2>1, <2>2 DEF OffloadInv, FirstChunk, WentOut
  <1>. QED
    BY <1>1, OffloadInvariant, PTL
===============================================================================
