-------------------------- MODULE LifecycleProofs --------------------------
(* Theorems about Lifecycle, for any number of servers, connections and      *)
(* callers: how often a replaced server serves, that somebody always does,   *)
(* what a panic goes back to, and who serves after lone restarts.            *)
EXTENDS Lifecycle, TLAPS

(* The steps of the plans are always in view. *)
USE DEF SOCKS5Restart, TPROXYRestart, REDIRECTRestart, HTTPRestart, NFQUEUERestart,
        SOCKS5Stop, TPROXYStop, REDIRECTStop, HTTPStop, NFQUEUEStop

-----------------------------------------------------------------------------
(* The plans: a step that goes on is not the last one. *)
LEMMA PlanLength ==
    ASSUME mode \in {"SOCKS5", "HTTP", "TPROXY", "REDIRECT", "NFQUEUE"}
    PROVE  \A p : 1 <= Len(Plan(p)) /\ Len(Plan(p)) \in Nat
<1>1. Len(StopSteps) \in Nat /\ 1 <= Len(StopSteps)
  BY DEF StopSteps
<1>2. Len(RestartSteps) \in Nat /\ 1 <= Len(RestartSteps)
  BY DEF RestartSteps
<1> QED
  BY <1>1, <1>2 DEF Plan

LEMMA GoesOn ==
    ASSUME TypeOK, NEW p \in Callers, NEW step, Doing(p, step), step \notin {"assign", "exit"}
    PROVE  at[p] + 1 <= Len(Plan(p))
<1>1. mode \in {"SOCKS5", "HTTP", "TPROXY", "REDIRECT", "NFQUEUE"}
  BY ModesAssumption DEF TypeOK
<1>2. at[p] \in Nat \ {0} /\ at[p] <= Len(Plan(p)) /\ Plan(p)[at[p]] = step
  BY DEF TypeOK, Doing
<1>3. StopSteps[Len(StopSteps)] = "exit" /\ Len(StopSteps) \in Nat
  BY <1>1 DEF StopSteps
<1>4. RestartSteps[Len(RestartSteps)] = "assign" /\ Len(RestartSteps) \in Nat
  BY <1>1 DEF RestartSteps
<1> QED
  BY <1>2, <1>3, <1>4 DEF Plan

(* Connections are counted where they are; a server has a listener when its
   caller is about to make it the current one, and earlier if it inherits it. *)
Counted == \A s \in Servers : stale[s] + waiting <= arrived
HasListener ==
    /\ Inherits => \A s \in 1..built : lsn[s] # None
    /\ lsn[current] # None /\ \A p \in Callers : lsn[old[p]] # None
    /\ \A p \in Callers : Doing(p, "assign") => lsn[new[p]] # None
NotBuilt == \A s \in Servers : acc[s] # "none" => s <= built

TypeInv == TypeOK /\ Counted /\ HasListener /\ NotBuilt

LEMMA InitType == Init => TypeInv
<1> SUFFICES ASSUME Init PROVE TypeInv
  OBVIOUS
<1> USE BoundsAssumption
<1>1. mode \in {"SOCKS5", "HTTP", "TPROXY", "REDIRECT", "NFQUEUE"}
  BY ModesAssumption DEF Init
<1>2. built \in Servers /\ current \in 1..built /\ open \subseteq Servers /\ done \subseteq 1..built
  BY DEF Init, Servers
<1>3. rules \in BOOLEAN /\ overlapped \in BOOLEAN /\ failed \in BOOLEAN
  <2>1. Firewalled \in BOOLEAN
    BY DEF Firewalled
  <2> QED BY <2>1 DEF Init
<1>10. saw \in [Callers -> BOOLEAN]
  BY DEF Init
<1>4. lsn \in [Servers -> 0..MaxServers] /\ acc \in [Servers -> AccStates]
  BY DEF Init, Servers, AccStates, None
<1>5. \A s \in Servers : acc[s] # "none" => lsn[s] # None
  BY DEF Init, None
<1>6. /\ job \in [Callers -> {"restart", "stop"}]
      /\ at \in [Callers -> Nat] /\ \A p \in Callers : at[p] <= Len(Plan(p))
  BY <1>1, PlanLength DEF Init
<1>7. old \in [Callers -> 1..built] /\ new \in [Callers -> 1..built]
  BY DEF Init
<1>8. waiting \in 0..MaxConns /\ arrived \in 0..MaxConns /\ stale \in [Servers -> 0..MaxConns]
  BY DEF Init
<1>9. Counted /\ HasListener /\ NotBuilt
  BY DEF Init, Counted, HasListener, NotBuilt, Servers, None, Doing
<1> QED
  BY <1>2, <1>3, <1>4, <1>5, <1>6, <1>7, <1>8, <1>9, <1>10 DEF TypeInv, TypeOK, Init

(* Where the callers are, after one of them has made a step. *)
LEMMA MovesTo ==
    ASSUME TypeOK, mode' = mode, job' = job, NEW p \in Callers, NEW n \in Nat,
           n <= Len(Plan(p)), at' = [at EXCEPT ![p] = n]
    PROVE  at' \in [Callers -> Nat] /\ \A q \in Callers : at'[q] <= Len(Plan(q)')
<1>1. \A q \in Callers : Plan(q)' = Plan(q)
  BY DEF Plan, StopSteps, RestartSteps
<1>2. at \in [Callers -> Nat] /\ \A q \in Callers : at[q] <= Len(Plan(q))
  BY DEF TypeOK
<1>3. \A q \in Callers : at'[q] <= Len(Plan(q))
  BY <1>2
<1> QED
  BY <1>1, <1>2, <1>3

LEMMA CallersType ==
    ASSUME TypeOK, NEW p \in Callers, NEW step, Doing(p, step), step # "exit",
           mode' = mode, job' = job,
           Abort(p) \/ (Proceed(p) /\ step # "assign")
                    \/ (at' = [at EXCEPT ![p] = 0] /\ failed' = FALSE)
    PROVE  /\ at' \in [Callers -> Nat] /\ \A q \in Callers : at'[q] <= Len(Plan(q)')
           /\ failed' \in BOOLEAN
<1>2. Proceed(p) /\ step # "assign" => at[p] + 1 <= Len(Plan(p))
  BY GoesOn
<1>3. 0 <= Len(Plan(p)) /\ 0 \in Nat
  BY PlanLength, ModesAssumption DEF TypeOK
<1>4. failed' \in BOOLEAN
  BY DEF TypeOK, Abort, Proceed
<1>5. at[p] + 1 \in Nat
  BY DEF TypeOK
<1>6. at' \in [Callers -> Nat] /\ \A q \in Callers : at'[q] <= Len(Plan(q)')
  <2>1. CASE at' = [at EXCEPT ![p] = 0]
    BY <2>1, <1>3, MovesTo
  <2>2. CASE Proceed(p) /\ step # "assign"
    <3>1. at' = [at EXCEPT ![p] = at[p] + 1]
      BY <2>2 DEF Proceed
    <3> QED BY <3>1, <2>2, <1>2, <1>5, MovesTo
  <2> QED BY <2>1, <2>2 DEF Abort
<1> QED
  BY <1>4, <1>6

(* What the plans have in common. *)
LEMMA Positions ==
    ASSUME TypeOK, NEW p \in Callers, NEW step, Doing(p, step)
    PROVE  /\ step = "assign" => job[p] = "restart" /\ ~Doing(p, "start")
           /\ step = "down" => ~Inherits
           /\ step = "shut" => Inherits
<1>1. mode \in {"SOCKS5", "HTTP", "TPROXY", "REDIRECT", "NFQUEUE"}
  BY ModesAssumption DEF TypeOK
<1>2. at[p] \in Nat \ {0} /\ at[p] <= Len(Plan(p)) /\ Plan(p)[at[p]] = step
  BY DEF TypeOK, Doing
<1>3. CASE job[p] = "stop"
  BY <1>1, <1>2, <1>3 DEF Plan, StopSteps, Inherits, Doing
<1>4. CASE job[p] # "stop"
  <2>1. job[p] = "restart"
    BY <1>4 DEF TypeOK
  <2> QED
    BY <1>1, <1>2, <1>4, <2>1 DEF Plan, RestartSteps, Inherits, Doing
<1> QED
  BY <1>3, <1>4

(* A server that opens a port of its own is assigned right after its start. *)
LEMMA AssignAfterStart ==
    ASSUME TypeOK, NEW p \in Callers, NEW step, Doing(p, step), ~Inherits,
           step \notin {"assign", "exit"}, mode' = mode, job' = job, at' = [at EXCEPT ![p] = at[p] + 1],
           Doing(p, "assign")'
    PROVE  step = "start"
<1>1. mode \in {"HTTP", "NFQUEUE"}
  BY ModesAssumption DEF TypeOK, Inherits
<1>2. at[p] \in Nat \ {0} /\ at[p] <= Len(Plan(p)) /\ Plan(p)[at[p]] = step
  BY DEF TypeOK, Doing
<1>3. Plan(p)' = Plan(p)
  BY DEF Plan, StopSteps, RestartSteps
<1>4. at'[p] = at[p] + 1
  BY DEF TypeOK
<1>5. Plan(p)[at[p] + 1] = "assign"
  BY <1>3, <1>4 DEF Doing
<1>6. step \notin {"assign", "exit"} => at[p] + 1 <= Len(Plan(p))
  BY GoesOn
<1>7. CASE job[p] = "stop"
  BY <1>1, <1>2, <1>5, <1>6, <1>7 DEF Plan, StopSteps
<1>8. CASE job[p] # "stop"
  BY <1>1, <1>2, <1>5, <1>6, <1>8 DEF Plan, RestartSteps
<1> QED
  BY <1>7, <1>8

-----------------------------------------------------------------------------
(* Types, step by step. *)
ServersType ==
    /\ built \in Servers /\ current \in 1..built
    /\ lsn \in [Servers -> 0..MaxServers] /\ open \subseteq Servers
    /\ done \subseteq 1..built /\ acc \in [Servers -> AccStates]
    /\ \A s \in Servers : acc[s] # "none" => lsn[s] # None
    /\ NotBuilt
CallersAt ==
    at \in [Callers -> Nat] /\ \A p \in Callers : at[p] <= Len(Plan(p))
CallersHave ==
    /\ job \in [Callers -> {"restart", "stop"}]
    /\ old \in [Callers -> 1..built] /\ new \in [Callers -> 1..built]
    /\ saw \in [Callers -> BOOLEAN]
ConnsType ==
    /\ waiting \in 0..MaxConns /\ arrived \in 0..MaxConns
    /\ stale \in [Servers -> 0..MaxConns] /\ Counted
FlagsType ==
    /\ mode \in ServerModes /\ rules \in BOOLEAN /\ overlapped \in BOOLEAN
    /\ failed \in BOOLEAN /\ process \in {"up", "exited", "crashed"}

LEMMA TypeParts ==
    TypeInv <=> ServersType /\ CallersAt /\ CallersHave /\ ConnsType /\ FlagsType /\ HasListener
BY DEF TypeInv, TypeOK, NotBuilt, ServersType, CallersAt, CallersHave, ConnsType, FlagsType

LEMMA TypePartsNext ==
    ASSUME ServersType', CallersAt', CallersHave', ConnsType', FlagsType', HasListener'
    PROVE  TypeInv'
BY DEF TypeInv, TypeOK, NotBuilt, ServersType, CallersAt, CallersHave, ConnsType, FlagsType

(* A step of a caller that does not touch the servers keeps HasListener. *)
LEMMA ListenerKept ==
    ASSUME TypeInv, NEW p \in Callers, NEW step, Doing(p, step),
           step \notin {"assign", "exit", "start"},
           UNCHANGED <<mode, job, built, current, lsn, old, new>>,
           Abort(p) \/ Proceed(p)
    PROVE  HasListener'
<1>1. Inherits' = Inherits /\ new[p] \in 1..built /\ at \in [Callers -> Nat]
  BY DEF Inherits, TypeInv, TypeOK
<1>2. ASSUME NEW q \in Callers, Doing(q, "assign")'  PROVE lsn[new[q]] # None
  <2>1. CASE q # p
    <3>1. Doing(q, "assign")
      BY <1>1, <1>2, <2>1 DEF Doing, Abort, Proceed, Plan, StopSteps, RestartSteps
    <3> QED BY <3>1 DEF TypeInv, HasListener
  <2>2. CASE q = p /\ ~Inherits
    <3>1. at' = [at EXCEPT ![p] = at[p] + 1]
      BY <1>1, <1>2, <2>2 DEF Abort, Proceed, Doing
    <3> QED BY <1>2, <2>2, <3>1, AssignAfterStart DEF TypeInv
  <2>3. CASE q = p /\ Inherits
    BY <2>3, <1>1 DEF TypeInv, HasListener
  <2> QED BY <2>1, <2>2, <2>3
<1> QED
  BY <1>1, <1>2 DEF TypeInv, HasListener

LEMMA BeginType ==
    ASSUME TypeInv, NEW p \in Callers, NEW task \in {"restart", "stop"}, Begin(p, task)
    PROVE  TypeInv'
<1>1. mode \in {"SOCKS5", "HTTP", "TPROXY", "REDIRECT", "NFQUEUE"} /\ mode' = mode
  BY ModesAssumption DEF TypeInv, TypeOK, Begin
<1>2. ServersType' /\ CallersHave' /\ ConnsType'
  BY TypeParts DEF Begin, servers, conns, ServersType, CallersHave, ConnsType, Counted, NotBuilt
<1>3. FlagsType'
  <2>1. overlapped' \in BOOLEAN
    BY DEF Begin
  <2> QED BY <2>1 DEF Begin, TypeInv, TypeOK, FlagsType
<1>4. CallersAt'
  <2>1. ASSUME NEW q \in Callers PROVE at'[q] <= Len(Plan(q)')
    <3>1. CASE q = p
      <4>1. at'[q] = 1
        BY <3>1 DEF Begin, TypeInv, TypeOK
      <4> QED
        BY <4>1, <1>1, PlanLength DEF Plan, StopSteps, RestartSteps
    <3>2. CASE q # p
      <4>1. at'[q] = at[q] /\ Plan(q)' = Plan(q)
        BY <3>2, <1>1 DEF Begin, TypeInv, TypeOK, Plan, StopSteps, RestartSteps
      <4> QED BY <4>1 DEF TypeInv, TypeOK
    <3> QED BY <3>1, <3>2
  <2>2. at' \in [Callers -> Nat]
    BY DEF Begin, TypeInv, TypeOK
  <2> QED BY <2>1, <2>2 DEF CallersAt
<1>5. HasListener'
  <2>1. ASSUME NEW q \in Callers, Doing(q, "assign")' PROVE q # p /\ Doing(q, "assign")
    <3>1. CASE q = p
      <4>1. at'[q] = 1 /\ job'[q] = task
        BY <3>1 DEF Begin, TypeInv, TypeOK
      <4> QED BY <4>1, <2>1, <1>1 DEF Doing, Plan, StopSteps, RestartSteps
    <3>2. CASE q # p
      BY <3>2, <2>1, <1>1 DEF Begin, TypeInv, TypeOK, Doing, Plan, StopSteps, RestartSteps, Up
    <3> QED BY <3>1, <3>2
  <2>2. lsn[current] # None /\ old' = [old EXCEPT ![p] = current]
    BY DEF TypeInv, HasListener, Begin
  <2> QED
    BY <2>1, <2>2, <1>1 DEF HasListener, Inherits, Begin, servers, TypeInv, TypeOK
<1> QED
  BY <1>2, <1>3, <1>4, <1>5, TypePartsNext

LEMMA BuildType ==
    ASSUME TypeInv, NEW p \in Callers, Build(p)
    PROVE  TypeInv'
<1>1. CallersAt' /\ failed' \in BOOLEAN
  BY CallersType DEF Build, CallersAt, TypeInv
<1>2. FlagsType' /\ mode' = mode
  BY <1>1 DEF Build, TypeInv, TypeOK, FlagsType
<1>3. CASE built < MaxServers /\ built' = built + 1 /\ new' = [new EXCEPT ![p] = built + 1]
           /\ lsn' = [lsn EXCEPT ![built + 1] = IF Inherits THEN lsn[old[p]] ELSE None]
           /\ Proceed(p)
  <2>1. built + 1 \in Servers /\ built \in Nat /\ ~(built + 1 <= built)
    BY <1>3, BoundsAssumption DEF TypeInv, TypeOK, Servers
  <2>2. acc[built + 1] = "none"
    BY <2>1 DEF TypeInv, NotBuilt
  <2>3. ServersType'
    <3>1. \A s \in Servers : acc[s] # "none" => lsn'[s] # None /\ s <= built + 1
      <4>1. ASSUME NEW s \in Servers, acc[s] # "none"
            PROVE  lsn'[s] # None /\ s <= built + 1
        <5>1. s # built + 1 /\ s <= built /\ lsn[s] # None /\ s \in Nat
          BY <4>1, <2>2 DEF TypeInv, TypeOK, NotBuilt, Servers
        <5>2. lsn'[s] = lsn[s]
          BY <5>1, <1>3 DEF TypeInv, TypeOK
        <5>3. s <= built + 1
          BY <5>1, <2>1
        <5> QED BY <5>1, <5>2, <5>3
      <4> QED BY <4>1
    <3>2. lsn' \in [Servers -> 0..MaxServers] /\ 1..built \subseteq 1..(built + 1)
      <4>1. lsn[old[p]] \in 0..MaxServers /\ None \in 0..MaxServers
        BY BoundsAssumption DEF TypeInv, TypeOK, Servers, None
      <4>2. lsn \in [Servers -> 0..MaxServers]
        BY DEF TypeInv, TypeOK
      <4>3. 1..built \subseteq 1..(built + 1)
        BY <2>1
      <4> QED BY <4>1, <4>2, <4>3, <1>3
    <3>3. current \in 1..(built + 1) /\ done \subseteq 1..(built + 1)
      BY <3>2 DEF TypeInv, TypeOK
    <3>4. /\ open \subseteq Servers /\ acc \in [Servers -> AccStates]
          /\ UNCHANGED <<current, open, done, acc>>
      BY DEF Build, TypeInv, TypeOK
    <3> QED
      BY <3>1, <3>2, <3>3, <3>4, <2>1, <1>3 DEF ServersType, NotBuilt
  <2>4. CallersHave' /\ ConnsType'
    <3>1. old \in [Callers -> 1..(built + 1)] /\ new' \in [Callers -> 1..(built + 1)]
      <4>1. 1..built \subseteq 1..(built + 1) /\ built + 1 \in 1..(built + 1)
        BY <2>1
      <4> QED BY <4>1, <1>3 DEF TypeInv, TypeOK
    <3> QED
      BY <1>3, <3>1 DEF Build, conns, TypeInv, TypeOK, CallersHave, ConnsType, Counted
  <2>5. \A s \in 1..built : lsn'[s] = lsn[s]
    BY <1>3, <2>1 DEF TypeInv, TypeOK, Servers
  <2>6. lsn'[built + 1] = IF Inherits THEN lsn[old[p]] ELSE None
    BY <1>3, <2>1 DEF TypeInv, TypeOK
  <2>7. HasListener'
    <3>1. ASSUME NEW q \in Callers, Doing(q, "assign")', ~Inherits
          PROVE  lsn'[new'[q]] # None
      <4>1. at' = [at EXCEPT ![p] = at[p] + 1] /\ job' = job /\ Doing(p, "build")
        BY <1>3 DEF Proceed, Build
      <4>2. q # p
        BY <4>1, <1>2, <3>1, AssignAfterStart DEF TypeInv
      <4>3. Doing(q, "assign") /\ new'[q] = new[q]
        BY <3>1, <4>1, <4>2, <1>2, <1>3 DEF Build, TypeInv, TypeOK, Doing, Up, Plan, StopSteps, RestartSteps
      <4> QED BY <4>3, <2>5 DEF TypeInv, TypeOK, HasListener
    <3>2. Inherits => \A s \in 1..built + 1 : lsn'[s] # None
      BY <2>1, <2>5, <2>6 DEF TypeInv, HasListener
    <3>3. new' \in [Callers -> 1..built + 1] /\ Inherits' = Inherits
      BY <2>4, <1>2, <1>3 DEF CallersHave, Inherits
    <3>4. lsn'[current] # None /\ \A q \in Callers : lsn'[old[q]] # None
      BY <2>5 DEF TypeInv, TypeOK, HasListener
    <3> QED
      BY <3>1, <3>2, <3>3, <3>4, <1>3 DEF HasListener, Build
  <2> QED BY <1>1, <1>2, <2>3, <2>4, <2>7, TypePartsNext
<1>4. CASE Abort(p) /\ UNCHANGED <<built, new, lsn>>
  <2>1. HasListener'
    BY <1>2, <1>4, ListenerKept DEF Build
  <2>2. ServersType' /\ CallersHave' /\ ConnsType'
    BY <1>4, TypeParts DEF Build, conns, ServersType, CallersHave, ConnsType, Counted, NotBuilt
  <2> QED BY <1>1, <1>2, <2>1, <2>2, TypePartsNext
<1> QED
  BY <1>3, <1>4 DEF Build

LEMMA Ranges ==
    ASSUME TypeInv
    PROVE  /\ built \in Nat /\ MaxServers \in Nat /\ built <= MaxServers /\ None = 0
           /\ \A s \in 1..built : s \in Servers /\ s \in 0..MaxServers /\ s # None /\ s <= built
BY BoundsAssumption DEF TypeInv, TypeOK, Servers, None

LEMMA StartType ==
    ASSUME TypeInv, NEW p \in Callers, Start(p)
    PROVE  TypeInv'
<1> DEFINE a == IF mode = "NFQUEUE" THEN "accept" ELSE "check"
<1>1. CallersAt' /\ failed' \in BOOLEAN
  BY CallersType DEF Start, CallersAt, TypeInv
<1>2. FlagsType' /\ CallersHave' /\ ConnsType'
  BY <1>1, TypeParts DEF Start, conns, FlagsType, CallersHave, ConnsType, Counted
<1>3. new[p] \in Servers /\ new[p] <= built /\ new[p] \in 0..MaxServers /\ new[p] # None
      /\ new[p] \in 1..built /\ old[p] \in Servers /\ current \in Servers
      /\ \A q \in Callers : old[q] \in Servers /\ new[q] \in Servers
  <2>1. new[p] \in 1..built /\ current \in 1..built
        /\ \A q \in Callers : old[q] \in 1..built /\ new[q] \in 1..built
    BY DEF TypeInv, TypeOK
  <2> QED BY <2>1, Ranges
<1>4. a \in AccStates
  BY DEF AccStates
<1>5. Doing(p, "start") /\ UNCHANGED <<mode, built, current, done, job, old, new>>
  BY DEF Start
<1>6. CASE acc' = [acc EXCEPT ![new[p]] = a] /\ Inherits /\ UNCHANGED <<lsn, open>> /\ Proceed(p)
  <2>1. lsn[new[p]] # None
    BY <1>3, <1>6 DEF TypeInv, HasListener
  <2>2. ServersType'
    BY <1>3, <1>4, <1>5, <1>6, <2>1 DEF TypeInv, TypeOK, ServersType, NotBuilt
  <2>3. HasListener'
    BY <1>3, <1>5, <1>6 DEF TypeInv, TypeOK, HasListener, Inherits
  <2> QED BY <1>1, <1>2, <2>2, <2>3, TypePartsNext
<1>7. CASE /\ acc' = [acc EXCEPT ![new[p]] = a] /\ ~Inherits /\ Proceed(p)
           /\ lsn' = [lsn EXCEPT ![new[p]] = new[p]] /\ open' = {new[p]}
  <2>1. \A s \in Servers : lsn[s] # None => lsn'[s] # None
    BY <1>3, <1>7 DEF TypeInv, TypeOK
  <2>2. lsn'[new[p]] # None /\ lsn' \in [Servers -> 0..MaxServers]
    BY <1>3, <1>7 DEF TypeInv, TypeOK
  <2>3. ServersType'
    BY <1>3, <1>4, <1>5, <1>7, <2>1, <2>2 DEF TypeInv, TypeOK, ServersType, NotBuilt
  <2>4. HasListener'
    <3>1. ASSUME NEW q \in Callers, Doing(q, "assign")', q # p PROVE lsn'[new[q]] # None
      <4>1. Doing(q, "assign")
        BY <1>5, <1>7, <3>1 DEF TypeInv, TypeOK, Doing, Up, Proceed, Plan, StopSteps, RestartSteps, Start
      <4> QED BY <1>3, <2>1, <4>1 DEF TypeInv, TypeOK, HasListener
    <3>2. lsn'[current] # None /\ \A q \in Callers : lsn'[old[q]] # None
      BY <1>3, <2>1 DEF TypeInv, TypeOK, HasListener
    <3> QED BY <1>5, <1>7, <2>2, <3>1, <3>2 DEF HasListener, Inherits
  <2> QED BY <1>1, <1>2, <2>3, <2>4, TypePartsNext
<1>8. CASE ~Inherits /\ Abort(p) /\ UNCHANGED <<lsn, open, acc>>
  <2>1. \A q \in Callers : Doing(q, "assign")' => Doing(q, "assign")
    BY <1>5, <1>8 DEF TypeInv, TypeOK, Doing, Up, Abort, Plan, StopSteps, RestartSteps, Start
  <2>2. HasListener'
    BY <1>5, <1>8, <2>1 DEF TypeInv, HasListener, Inherits
  <2>3. ServersType'
    BY <1>5, <1>8, TypeParts DEF ServersType, NotBuilt
  <2> QED BY <1>1, <1>2, <2>2, <2>3, TypePartsNext
<1> QED
  BY <1>6, <1>7, <1>8 DEF Start

(* A listener that is closed takes its backlog with it. *)
LEMMA ClosingType ==
    ASSUME TypeInv, NEW l, Closing(l), UNCHANGED <<arrived, stale>>
    PROVE  open' \subseteq Servers /\ ConnsType'
<1>1. open' \subseteq Servers
  BY DEF TypeInv, TypeOK, Closing
<1>2. waiting' \in 0..MaxConns /\ waiting' <= waiting
  BY BoundsAssumption DEF TypeInv, TypeOK, Closing
<1>3. waiting \in Nat /\ waiting' \in Nat /\ arrived \in Nat /\ \A s \in Servers : stale[s] \in Nat
  BY <1>2, BoundsAssumption DEF TypeInv, TypeOK
<1>4. \A s \in Servers : stale[s] + waiting' <= arrived
  BY <1>2, <1>3 DEF TypeInv, Counted
<1> QED
  BY <1>1, <1>2, <1>4 DEF TypeInv, TypeOK, ConnsType, Counted

LEMMA DownType ==
    ASSUME TypeInv, NEW p \in Callers, Down(p)
    PROVE  TypeInv'
<1>1. CallersAt' /\ failed' \in BOOLEAN
  BY CallersType DEF Down, Panic, CallersAt, TypeInv
<1>2. FlagsType' /\ CallersHave'
  BY <1>1, TypeParts DEF Down, Panic, FlagsType, CallersHave
<1>3. open' \subseteq Servers /\ ConnsType'
  <2>1. CASE Closing(lsn[old[p]])
    BY <2>1, ClosingType DEF Down
  <2>2. CASE UNCHANGED <<open, waiting>>
    BY <2>2, TypeParts DEF Down, ServersType, ConnsType, Counted
  <2> QED BY <2>1, <2>2 DEF Down
<1>4. old[p] \in 1..built /\ old[p] \in Servers /\ lsn[old[p]] # None /\ old[p] <= built
  BY Ranges DEF TypeInv, TypeOK, HasListener
<1>5. ServersType'
  <2>1. acc' \in [Servers -> AccStates]
    BY DEF Down, TypeInv, TypeOK, AccStates
  <2>2. \A s \in Servers : acc'[s] # "none" => lsn[s] # None /\ s <= built
    BY <1>4 DEF Down, TypeInv, TypeOK, NotBuilt
  <2>3. done' \subseteq 1..built
    BY <1>4 DEF Down, TypeInv, TypeOK
  <2> QED
    BY <1>3, <2>1, <2>2, <2>3 DEF Down, TypeInv, TypeOK, ServersType, NotBuilt
<1>6. HasListener'
  BY ListenerKept DEF Down, Panic
<1> QED
  BY <1>1, <1>2, <1>3, <1>5, <1>6, TypePartsNext

(* The other steps of a caller. *)
LEMMA CallerType ==
    ASSUME TypeInv, NEW p \in Callers,
           Rule(p) \/ Unrule(p) \/ Look(p) \/ Shut(p) \/ Hangup(p)
    PROVE  TypeInv'
<1>1. CallersAt' /\ failed' \in BOOLEAN
  BY CallersType DEF Rule, Unrule, Look, Shut, Hangup, Panic, CallersAt, TypeInv
<1>2. FlagsType'
  BY <1>1, TypeParts DEF Rule, Unrule, Look, Shut, Hangup, Panic, FlagsType
<1>3. CallersHave'
  <2>1. (old[p] \in done) \in BOOLEAN
    OBVIOUS
  <2> QED
    BY <2>1, TypeParts DEF Rule, Unrule, Look, Shut, Hangup, servers, CallersHave
<1>4. HasListener'
  BY ListenerKept DEF Rule, Unrule, Look, Shut, Hangup, Panic, servers
<1>5. ConnsType' /\ open' \subseteq Servers
  <2>1. CASE Hangup(p)
    BY <2>1, ClosingType DEF Hangup
  <2>2. CASE ~Hangup(p)
    BY <2>2, TypeParts DEF Rule, Unrule, Look, Shut, servers, conns, ConnsType, Counted, ServersType
  <2> QED BY <2>1, <2>2
<1>6. ServersType'
  <2>1. done' \subseteq 1..built
    <3>1. old[p] \in 1..built /\ done \subseteq 1..built
      BY DEF TypeInv, TypeOK
    <3>2. done' = done \/ done' = done \cup {old[p]}
      BY DEF Rule, Unrule, Look, Shut, Hangup, servers
    <3> QED BY <3>1, <3>2
  <2> QED
    BY <1>5, <2>1, TypeParts DEF Rule, Unrule, Look, Shut, Hangup, servers, ServersType, NotBuilt
<1> QED
  BY <1>1, <1>2, <1>3, <1>4, <1>5, <1>6, TypePartsNext

LEMMA AssignType ==
    ASSUME TypeInv, NEW p \in Callers, Assign(p)
    PROVE  TypeInv'
<1>1. CallersAt' /\ failed' \in BOOLEAN
  BY CallersType DEF Assign, CallersAt, TypeInv
<1>2. FlagsType' /\ CallersHave' /\ ConnsType'
  BY <1>1, TypeParts DEF Assign, conns, FlagsType, CallersHave, ConnsType, Counted
<1>3. new[p] \in 1..built /\ lsn[new[p]] # None /\ current' = new[p]
  BY DEF Assign, TypeInv, TypeOK, HasListener
<1>4. ServersType'
  BY <1>3, TypeParts DEF Assign, ServersType, NotBuilt
<1>5. \A q \in Callers : Doing(q, "assign")' => Doing(q, "assign")
  BY DEF Assign, TypeInv, TypeOK, Doing, Up, Plan, StopSteps, RestartSteps
<1>6. HasListener'
  BY <1>3, <1>5 DEF Assign, TypeInv, HasListener, Inherits
<1> QED
  BY <1>1, <1>2, <1>4, <1>6, TypePartsNext

LEMMA ExitType ==
    ASSUME TypeInv, Exit
    PROVE  TypeInv'
<1>1. ServersType' /\ CallersHave' /\ ConnsType' /\ FlagsType'
  BY TypeParts DEF Exit, servers, callers, conns, ServersType, CallersHave, ConnsType, FlagsType,
                   Counted, NotBuilt
<1>2. CallersAt'
  BY TypeParts DEF Exit, callers, CallersAt, Plan, StopSteps, RestartSteps
<1>3. HasListener'
  BY DEF Exit, servers, callers, TypeInv, HasListener, Inherits, Doing, Up
<1> QED
  BY <1>1, <1>2, <1>3, TypePartsNext

(* A step of an accept loop or of a client. *)
LEMMA LoopType ==
    ASSUME TypeInv, Arrive \/ \E s \in Servers : Loop(s) \/ AcceptFails(s)
    PROVE  TypeInv'
<1>1. UNCHANGED <<mode, built, current, lsn, done, rules, callers, overlapped, failed, process>>
  BY DEF Arrive, Loop, AcceptCheck, Accept, AcceptClosed, AcceptFails, servers
<1>2. CallersHave' /\ FlagsType' /\ HasListener'
  BY <1>1, TypeParts DEF callers, CallersHave, FlagsType, HasListener, Inherits, Doing, Up, Plan,
                         StopSteps, RestartSteps
<1>3. CallersAt'
  BY <1>1, TypeParts DEF callers, CallersAt, Plan, StopSteps, RestartSteps
<1>4. open' \subseteq Servers /\ ConnsType'
  <2>1. CASE Arrive
    <3>1. /\ waiting \in Nat /\ arrived \in Nat /\ MaxConns \in Nat
          /\ \A s \in Servers : stale[s] \in 0..MaxConns
      BY BoundsAssumption DEF TypeInv, TypeOK
    <3>2. \E s \in Servers : stale[s] \in Nat /\ stale[s] + waiting <= arrived
      BY <3>1, BoundsAssumption DEF TypeInv, Counted, Servers
    <3>3. waiting' = waiting + 1 /\ arrived' = arrived + 1 /\ arrived < MaxConns /\ waiting <= arrived
      BY <2>1, <3>1, <3>2 DEF Arrive
    <3>4. waiting' \in 0..MaxConns /\ arrived' \in 0..MaxConns
      BY <3>1, <3>3
    <3> QED
      BY <2>1, <3>1, <3>3, <3>4 DEF Arrive, servers, TypeInv, TypeOK, ConnsType, Counted
  <2>2. ASSUME NEW s \in Servers, Accept(s) PROVE open' \subseteq Servers /\ ConnsType'
    <3>1. /\ waiting \in Nat \ {0} /\ arrived \in 0..MaxConns /\ MaxConns \in Nat
          /\ waiting \in 0..MaxConns /\ \A t \in Servers : stale[t] \in Nat
      BY <2>2, BoundsAssumption DEF Accept, TypeInv, TypeOK
    <3>2. waiting' = waiting - 1 /\ waiting' \in 0..MaxConns /\ UNCHANGED <<arrived, open>>
      BY <2>2, <3>1 DEF Accept
    <3>3. stale' = stale \/ stale' = [stale EXCEPT ![s] = stale[s] + 1]
      BY <2>2 DEF Accept
    <3>4. ASSUME NEW t \in Servers
          PROVE  stale'[t] + waiting' <= arrived /\ stale'[t] \in 0..MaxConns
      <4>1. stale'[t] = stale[t] \/ stale'[t] = stale[t] + 1
        BY <3>3 DEF TypeInv, TypeOK
      <4>2. stale[t] + waiting <= arrived
        BY DEF TypeInv, Counted
      <4> QED BY <3>1, <3>2, <4>1, <4>2
    <3>5. stale' \in [Servers -> 0..MaxConns]
      <4>1. stale' = [t \in Servers |-> stale'[t]]
        BY <3>3 DEF TypeInv, TypeOK
      <4> QED BY <4>1, <3>4
    <3> QED BY <3>1, <3>2, <3>4, <3>5 DEF TypeInv, TypeOK, ConnsType, Counted
  <2>3. ASSUME NEW s \in Servers, AcceptCheck(s) PROVE open' \subseteq Servers /\ ConnsType'
    <3>1. CASE Closing(lsn[s])
      BY <2>3, <3>1, ClosingType DEF AcceptCheck
    <3>2. CASE UNCHANGED <<open, waiting>>
      BY <2>3, <3>2, TypeParts DEF AcceptCheck, ServersType, ConnsType, Counted
    <3> QED BY <2>3, <3>1, <3>2 DEF AcceptCheck
  <2>4. ASSUME NEW s \in Servers, AcceptClosed(s) \/ AcceptFails(s)
        PROVE  open' \subseteq Servers /\ ConnsType'
    BY <2>4, TypeParts DEF AcceptClosed, AcceptFails, conns, ServersType, ConnsType, Counted
  <2> QED BY <2>1, <2>2, <2>3, <2>4 DEF Loop
<1>5. acc' \in [Servers -> AccStates] /\ \A s \in Servers : acc'[s] # "none" => acc[s] # "none"
  <2>1. CASE Arrive
    BY <2>1 DEF Arrive, servers, TypeInv, TypeOK
  <2>2. ASSUME NEW s \in Servers, Loop(s) \/ AcceptFails(s)
        PROVE  \E a \in AccStates : acc' = [acc EXCEPT ![s] = a] /\ acc[s] # "none"
    BY <2>2 DEF Loop, AcceptCheck, Accept, AcceptClosed, AcceptFails, Loops, AccStates
  <2> QED BY <2>1, <2>2 DEF TypeInv, TypeOK
<1>6. ServersType'
  BY <1>1, <1>4, <1>5, TypeParts DEF ServersType, NotBuilt
<1> QED
  BY <1>2, <1>3, <1>4, <1>6, TypePartsNext

LEMMA NextType == TypeInv /\ [Next]_vars => TypeInv'
<1> SUFFICES ASSUME TypeInv, [Next]_vars PROVE TypeInv'
  OBVIOUS
<1>1. CASE Stop
  BY <1>1, BeginType, CallersAssumption DEF Stop
<1>2. CASE Exit
  BY <1>2, ExitType
<1>3. CASE Arrive
  BY <1>3, LoopType
<1>4. ASSUME NEW p \in Callers, Restart(p) PROVE TypeInv'
  BY <1>4, BeginType DEF Restart
<1>5. ASSUME NEW p \in Callers, Step(p) PROVE TypeInv'
  BY <1>5, BuildType, StartType, DownType, CallerType, AssignType DEF Step
<1>6. ASSUME NEW s \in Servers, Loop(s) \/ AcceptFails(s) PROVE TypeInv'
  BY <1>6, LoopType
<1>7. CASE UNCHANGED vars
  <2>1. ServersType' /\ CallersHave' /\ ConnsType' /\ FlagsType'
    BY <1>7, TypeParts DEF vars, servers, callers, conns, ServersType, CallersHave, ConnsType,
                           FlagsType, Counted, NotBuilt
  <2>2. CallersAt' /\ HasListener'
    BY <1>7, TypeParts DEF vars, servers, callers, CallersAt, HasListener, Plan, StopSteps,
                           RestartSteps, Inherits, Doing, Up
  <2> QED BY <2>1, <2>2, TypePartsNext
<1> QED
  BY <1>1, <1>2, <1>3, <1>4, <1>5, <1>6, <1>7 DEF Next

(* The types hold for any number of servers, connections and callers, and a
   server whose accept loop was started has a listener (TypeOK).           *)
THEOREM TypeCorrect == Spec => []TypeOK
<1>1. TypeInv => TypeOK
  BY DEF TypeInv
<1> QED
  BY <1>1, InitType, NextType, PTL DEF Spec

-----------------------------------------------------------------------------
(* A server that has been built and is not the current one yet belongs to the
   caller that built it, and nobody has closed it.                         *)
BuildAt == IF mode = "NFQUEUE" THEN 3 ELSE IF mode = "REDIRECT" THEN 5 ELSE 1
HasNew(p) == job[p] = "restart" /\ at[p] > BuildAt
Fresh ==
    \A p \in Callers : HasNew(p) =>
        /\ new[p] \notin done /\ new[p] # current
        /\ \A q \in Callers : old[q] # new[p] /\ (q # p => new[q] # new[p])

LEMMA PlanOrder ==
    ASSUME TypeInv, NEW p \in Callers, NEW step, Doing(p, step)
    PROVE  /\ step # "build" /\ job[p] = "restart" => at[p] # BuildAt
           /\ step \in {"start", "assign"} => HasNew(p)
<1>1. mode \in {"SOCKS5", "HTTP", "TPROXY", "REDIRECT", "NFQUEUE"}
  BY ModesAssumption DEF TypeInv, TypeOK
<1>2. at[p] \in Nat \ {0} /\ at[p] <= Len(Plan(p)) /\ Plan(p)[at[p]] = step
  BY DEF TypeInv, TypeOK, Doing
<1>3. CASE job[p] = "stop"
  BY <1>1, <1>2, <1>3 DEF Plan, StopSteps
<1>4. CASE job[p] = "restart"
  BY <1>1, <1>2, <1>4 DEF Plan, RestartSteps, BuildAt, HasNew
<1> QED
  BY <1>3, <1>4 DEF TypeInv, TypeOK

(* Only Build makes a new server. *)
LEMMA NoneNew ==
    ASSUME TypeInv, NEW p \in Callers, NEW step, Doing(p, step), step # "build",
           UNCHANGED <<mode, job>>, Proceed(p) \/ at' = [at EXCEPT ![p] = 0]
    PROVE  \A q \in Callers : HasNew(q)' => HasNew(q)
<1>1. at \in [Callers -> Nat] /\ BuildAt' = BuildAt /\ BuildAt \in Nat
  BY DEF TypeInv, TypeOK, BuildAt
<1>2. job[p] = "restart" => at[p] # BuildAt
  BY PlanOrder
<1>3. \E n \in {0, at[p] + 1} : at' = [at EXCEPT ![p] = n]
  BY DEF Proceed
<1> QED
  BY <1>1, <1>2, <1>3 DEF HasNew

LEMMA FreshKept ==
    ASSUME Fresh, UNCHANGED new,
           \A q \in Callers : HasNew(q)' => HasNew(q),
           \A s \in done' : s \in done \/ \E q \in Callers : s = old[q],
           \A q \in Callers : old'[q] = old[q] \/ old'[q] = current,
           \/ current' = current
           \/ \E r \in Callers : HasNew(r) /\ ~HasNew(r)' /\ current' = new[r]
    PROVE  Fresh'
BY DEF Fresh

LEMMA BuildFresh ==
    ASSUME TypeInv, Fresh, NEW p \in Callers, Build(p)
    PROVE  Fresh'
<1>1. CASE built' = built + 1 /\ new' = [new EXCEPT ![p] = built + 1] /\ Proceed(p)
  <2>1. /\ built + 1 \notin 1..built /\ new \in [Callers -> 1..built] /\ done \subseteq 1..built
        /\ current \in 1..built /\ old \in [Callers -> 1..built]
    <3>1. built + 1 \notin 1..built
      BY Ranges
    <3> QED BY <3>1 DEF TypeInv, TypeOK
  <2>2. \A q \in Callers : q # p => new'[q] = new[q] /\ (HasNew(q)' => HasNew(q))
    BY <1>1, <2>1 DEF Build, Proceed, HasNew, BuildAt, TypeInv, TypeOK
  <2>3. new'[p] = built + 1 /\ UNCHANGED <<done, current, old>>
    BY <1>1, <2>1 DEF Build
  <2>4. ASSUME NEW q \in Callers, HasNew(q)'
        PROVE  /\ new'[q] \notin done /\ new'[q] # current
               /\ \A r \in Callers : old[r] # new'[q] /\ (r # q => new'[r] # new'[q])
    <3>1. CASE q = p
      BY <2>1, <2>2, <2>3, <3>1
    <3>2. CASE q # p
      BY <2>1, <2>2, <2>3, <2>4, <3>2 DEF Fresh
    <3> QED BY <3>1, <3>2
  <2> QED BY <2>3, <2>4 DEF Fresh
<1>2. CASE Abort(p) /\ UNCHANGED new
  <2>1. \A q \in Callers : HasNew(q)' => HasNew(q)
    BY <1>2 DEF Build, Abort, HasNew, BuildAt, TypeInv, TypeOK
  <2> QED BY <1>2, <2>1, FreshKept DEF Build
<1> QED
  BY <1>1, <1>2 DEF Build

LEMMA NextFresh ==
    ASSUME TypeInv, Fresh, [Next]_vars
    PROVE  Fresh'
<1>1. ASSUME NEW p \in Callers, NEW task, Begin(p, task) PROVE Fresh'
  <2>1. \A q \in Callers : HasNew(q)' => HasNew(q)
    BY <1>1 DEF Begin, HasNew, BuildAt, TypeInv, TypeOK
  <2>2. \A q \in Callers : old'[q] = old[q] \/ old'[q] = current
    BY <1>1 DEF Begin, TypeInv, TypeOK
  <2> QED BY <1>1, <2>1, <2>2, FreshKept DEF Begin, servers
<1>2. ASSUME NEW p \in Callers, Step(p) PROVE Fresh'
  <2>1. CASE Build(p)
    BY <2>1, BuildFresh
  <2>2. CASE Assign(p)
    <3>1. HasNew(p) /\ \A q \in Callers : HasNew(q)' => HasNew(q)
      BY <2>2, PlanOrder, NoneNew DEF Assign
    <3>2. ~HasNew(p)'
      BY <2>2 DEF Assign, HasNew, BuildAt, TypeInv, TypeOK
    <3> QED BY <2>2, <3>1, <3>2, FreshKept DEF Assign
  <2>3. CASE Rule(p) \/ Unrule(p) \/ Start(p) \/ Look(p) \/ Shut(p) \/ Hangup(p) \/ Down(p)
    <3>1. \A q \in Callers : HasNew(q)' => HasNew(q)
      BY <2>3, NoneNew DEF Rule, Unrule, Start, Look, Shut, Hangup, Down, Panic, Abort
    <3>2. UNCHANGED <<new, old, current>> /\ (done' = done \/ done' = done \cup {old[p]})
      BY <2>3 DEF Rule, Unrule, Start, Look, Shut, Hangup, Down, servers
    <3> QED BY <3>1, <3>2, FreshKept
  <2> QED BY <1>2, <2>1, <2>2, <2>3 DEF Step
<1>3. CASE UNCHANGED <<mode, callers, done, current>>
  BY <1>3, FreshKept DEF callers, HasNew, BuildAt
<1> QED
  BY <1>1, <1>2, <1>3, CallersAssumption
     DEF Next, Stop, Restart, Exit, Arrive, Loop, AcceptCheck, Accept, AcceptClosed, AcceptFails,
         vars, servers

-----------------------------------------------------------------------------
(* A server that was replaced serves one connection only if its loop was in
   Accept by then; with a listener of its own it serves none.              *)
SharedStale ==
    Inherits => \A s \in Servers :
        stale[s] \in {0, 1} /\ (stale[s] = 1 => s \in done /\ acc[s] \in {"check", "gone"})
OwnStale ==
    ~Inherits => \A s \in Servers :
        /\ stale[s] = 0 /\ lsn[s] \in {s, None}
        /\ s \in done /\ acc[s] = "accept" => lsn[s] \notin open
StaleInv == TypeInv /\ Fresh /\ SharedStale /\ OwnStale

LEMMA InitStale == Init => StaleInv
<1> SUFFICES ASSUME Init PROVE StaleInv
  OBVIOUS
<1>1. Fresh
  BY DEF Init, Fresh, HasNew, BuildAt
<1>2. SharedStale /\ OwnStale
  BY DEF Init, SharedStale, OwnStale, Servers
<1> QED
  BY <1>1, <1>2, InitType DEF StaleInv

(* Nothing is accepted, no loop resumes, no listener opens. *)
LEMMA StaleKept ==
    ASSUME StaleInv, mode' = mode, stale' = stale, done \subseteq done', open' \subseteq open,
           \A s \in Servers : acc'[s] = acc[s] \/ acc'[s] \in {"check", "gone"}
                                             \/ (acc'[s] = "accept" /\ s \notin done'),
           ~Inherits => \A s \in Servers : lsn'[s] \in {lsn[s], None},
           ~Inherits => \A s \in Servers :
               s \in done' \ done /\ acc'[s] = "accept" => lsn[s] \notin open'
    PROVE  SharedStale' /\ OwnStale'
<1>1. Inherits' = Inherits
  BY DEF Inherits
<1>2. SharedStale'
  BY <1>1 DEF StaleInv, SharedStale
<1>3. ASSUME ~Inherits, NEW s \in Servers
      PROVE  /\ stale'[s] = 0 /\ lsn'[s] \in {s, None}
             /\ s \in done' /\ acc'[s] = "accept" => lsn'[s] \notin open'
  <2>1. None \notin open
    BY DEF StaleInv, TypeInv, TypeOK, Servers, None
  <2> QED BY <1>3, <2>1 DEF StaleInv, OwnStale
<1> QED
  BY <1>1, <1>2, <1>3 DEF OwnStale

LEMMA StartStale ==
    ASSUME StaleInv, NEW p \in Callers, Start(p), ~Inherits,
           acc' = [acc EXCEPT ![new[p]] = IF mode = "NFQUEUE" THEN "accept" ELSE "check"],
           lsn' = [lsn EXCEPT ![new[p]] = new[p]], open' = {new[p]}
    PROVE  SharedStale' /\ OwnStale'
<1>1. Inherits' = Inherits /\ UNCHANGED <<stale, done>>
  BY DEF Start, conns, Inherits
<1>2. new[p] \notin done
  BY PlanOrder DEF Start, StaleInv, Fresh
<1>3. new[p] \in Servers /\ new[p] # None
  BY Ranges DEF StaleInv, TypeInv, TypeOK
<1>4. ASSUME NEW s \in Servers
      PROVE  /\ stale'[s] = 0 /\ lsn'[s] \in {s, None}
             /\ s \in done' /\ acc'[s] = "accept" => lsn'[s] \notin open'
  <2>1. CASE s = new[p]
    BY <1>1, <1>2, <2>1 DEF StaleInv, TypeInv, TypeOK, OwnStale
  <2>2. CASE s # new[p]
    BY <1>1, <1>3, <2>2 DEF StaleInv, TypeInv, TypeOK, OwnStale
  <2> QED BY <2>1, <2>2
<1> QED
  BY <1>1, <1>4 DEF SharedStale, OwnStale

LEMMA StepStale ==
    ASSUME StaleInv, NEW p \in Callers, Step(p)
    PROVE  SharedStale' /\ OwnStale'
<1>1. CASE Build(p)
  <2>1. ~Inherits => \A s \in Servers : lsn'[s] \in {lsn[s], None}
    BY <1>1 DEF Build, StaleInv, TypeInv, TypeOK
  <2> QED BY <1>1, <2>1, StaleKept DEF Build, conns
<1>2. CASE Start(p)
  <2>1. CASE Inherits
    <3>1. UNCHANGED <<mode, stale, done, open>>
      BY <1>2, <2>1 DEF Start, conns
    <3>2. \A s \in Servers : acc'[s] = acc[s] \/ acc'[s] = "check"
      <4>1. acc' = [acc EXCEPT ![new[p]] = "check"]
        BY <1>2, <2>1 DEF Start, Inherits
      <4> QED BY <4>1 DEF StaleInv, TypeInv, TypeOK
    <3> QED BY <2>1, <3>1, <3>2, StaleKept
  <2>2. CASE ~Inherits /\ UNCHANGED <<acc, lsn, open>>
    BY <1>2, <2>2, StaleKept DEF Start, conns
  <2>3. CASE ~Inherits /\ ~UNCHANGED <<acc, lsn, open>>
    BY <1>2, <2>3, StartStale DEF Start
  <2> QED BY <2>1, <2>2, <2>3
<1>3. CASE Shut(p)
  <2>1. Inherits
    BY <1>3, Positions DEF Shut, StaleInv, TypeInv
  <2> QED BY <1>3, <2>1, StaleKept DEF Shut, conns
<1>4. CASE Down(p)
  <2>1. UNCHANGED <<mode, stale, lsn>> /\ done \subseteq done'
    BY <1>4 DEF Down
  <2>2. open' \subseteq open
    BY <1>4 DEF Down, Closing
  <2>3. \A s \in Servers : acc'[s] = acc[s] \/ acc'[s] = "gone"
    BY <1>4 DEF Down, StaleInv, TypeInv, TypeOK
  <2>4. ASSUME NEW s \in Servers, s \in done' \ done, acc'[s] = "accept"
        PROVE  lsn[s] \notin open'
    <3>1. s = old[p] /\ acc[s] = "accept"
      BY <1>4, <2>3, <2>4 DEF Down
    <3> QED BY <1>4, <2>4, <3>1 DEF Down, Closing
  <2> QED BY <2>1, <2>2, <2>3, <2>4, StaleKept
<1>5. CASE Hangup(p)
  BY <1>5, StaleKept DEF Hangup, Closing
<1>6. CASE Rule(p) \/ Unrule(p) \/ Look(p) \/ Assign(p)
  BY <1>6, StaleKept DEF Rule, Unrule, Look, Assign, servers, conns
<1> QED
  BY <1>1, <1>2, <1>3, <1>4, <1>5, <1>6 DEF Step

LEMMA AcceptStale ==
    ASSUME StaleInv, NEW s \in Servers, Accept(s)
    PROVE  SharedStale' /\ OwnStale'
<1>1. /\ Inherits' = Inherits /\ UNCHANGED <<lsn, done, open>>
      /\ acc[s] = "accept" /\ lsn[s] \in open
  BY DEF Accept, Inherits
<1>2. stale \in [Servers -> 0..MaxConns] /\ acc \in [Servers -> AccStates]
  BY DEF StaleInv, TypeInv, TypeOK
<1>3. CASE Inherits
  <2>1. stale[s] = 0
    BY <1>1, <1>3 DEF StaleInv, SharedStale
  <2>2. acc' = [acc EXCEPT ![s] = "check"]
    BY <1>3 DEF Accept, Loops
  <2>3. stale' = stale \/ (s \in done /\ stale' = [stale EXCEPT ![s] = 1])
    BY <2>1 DEF Accept
  <2> QED BY <1>1, <1>2, <1>3, <2>2, <2>3 DEF StaleInv, SharedStale, OwnStale
<1>4. CASE ~Inherits
  <2>1. s \notin done
    BY <1>1, <1>4 DEF StaleInv, OwnStale
  <2>2. acc' = acc /\ stale' = stale
    BY <1>1, <1>2, <1>4, <2>1 DEF Accept, Loops
  <2> QED BY <1>1, <1>4, <2>2 DEF StaleInv, SharedStale, OwnStale
<1> QED
  BY <1>3, <1>4

LEMMA NextStale == StaleInv /\ [Next]_vars => StaleInv'
<1> SUFFICES ASSUME StaleInv, [Next]_vars PROVE SharedStale' /\ OwnStale'
  BY NextType, NextFresh DEF StaleInv
<1>1. ASSUME NEW p \in Callers, NEW task, Begin(p, task) PROVE SharedStale' /\ OwnStale'
  BY <1>1, StaleKept DEF Begin, servers, conns
<1>2. ASSUME NEW p \in Callers, Step(p) PROVE SharedStale' /\ OwnStale'
  BY <1>2, StepStale
<1>3. ASSUME NEW s \in Servers, Accept(s) PROVE SharedStale' /\ OwnStale'
  BY <1>3, AcceptStale
<1>4. ASSUME NEW s \in Servers, AcceptCheck(s) PROVE SharedStale' /\ OwnStale'
  <2>1. open' \subseteq open
    BY <1>4 DEF AcceptCheck, Closing
  <2>2. \A t \in Servers : acc'[t] = acc[t] \/ acc'[t] = "gone" \/ (acc'[t] = "accept" /\ t \notin done)
    BY <1>4 DEF AcceptCheck, StaleInv, TypeInv, TypeOK
  <2> QED BY <1>4, <2>1, <2>2, StaleKept DEF AcceptCheck
<1>5. ASSUME NEW s \in Servers, AcceptFails(s) \/ AcceptClosed(s) PROVE SharedStale' /\ OwnStale'
  <2>1. \A t \in Servers : acc'[t] = acc[t] \/ acc'[t] \in {"check", "gone"}
    BY <1>5 DEF AcceptFails, AcceptClosed, Loops, StaleInv, TypeInv, TypeOK
  <2> QED BY <1>5, <2>1, StaleKept DEF AcceptFails, AcceptClosed, conns
<1>6. CASE UNCHANGED <<mode, servers, stale>>
  BY <1>6, StaleKept DEF servers
<1> QED
  BY <1>1, <1>2, <1>3, <1>4, <1>5, <1>6, CallersAssumption
     DEF Next, Stop, Restart, Exit, Arrive, Loop, vars, conns

(* However many restarts overlap, and in whatever mode, a server that was
   replaced serves at most one connection more (StaleServesOne).           *)
THEOREM StaleServedOnce == Spec => []StaleServesOne
<1>1. StaleInv => StaleServesOne
  BY DEF StaleInv, SharedStale, OwnStale, StaleServesOne
<1> QED
  BY <1>1, InitStale, NextStale, PTL DEF Spec

-----------------------------------------------------------------------------
(* SOCKS5 and TPROXY: all servers share the first listener, which is closed
   only when the process stops, and a restart closes a server only after the
   next one has been started.                                              *)
HandsOver == mode \in {"SOCKS5", "TPROXY"}
StartAt   == IF mode = "SOCKS5" THEN 2 ELSE 3
Accepts(s) == acc[s] \in {"check", "accept"}
Serving(s) == s \in 1..built /\ Accepts(s) /\ s \notin done

OneListener == open = {1} /\ \A s \in 1..built : lsn[s] = 1
Started     == \A p \in Callers : HasNew(p) /\ at[p] > StartAt => Accepts(new[p])
MainStops   == \A p \in Callers : job[p] = "stop" => p = Main
Somebody    == \E s \in Servers : Serving(s)

ServeInv ==
    /\ TypeInv /\ Fresh /\ MainStops
    /\ HandsOver /\ Up /\ ~Stopping => OneListener /\ Started /\ Somebody

LEMMA HandOverOrder ==
    ASSUME TypeInv, HandsOver, NEW p \in Callers, NEW step, Doing(p, step)
    PROVE  /\ step # "down" /\ (step = "hangup" => job[p] = "stop") /\ (step = "build" => at[p] = 1)
           /\ job[p] = "stop" => step \in {"unrule", "look", "shut", "hangup", "exit"}
           /\ step = "shut" /\ job[p] = "restart" => HasNew(p) /\ at[p] > StartAt
           /\ step # "start" /\ job[p] = "restart" => at[p] # StartAt
<1>1. at[p] \in Nat \ {0} /\ at[p] <= Len(Plan(p)) /\ Plan(p)[at[p]] = step
  BY DEF TypeInv, TypeOK, Doing
<1>2. CASE job[p] = "stop"
  BY <1>1, <1>2 DEF HandsOver, Plan, StopSteps
<1>3. CASE job[p] = "restart"
  BY <1>1, <1>3 DEF HandsOver, Plan, RestartSteps, BuildAt, HasNew, StartAt
<1> QED
  BY <1>2, <1>3 DEF TypeInv, TypeOK

LEMMA InitServe == Init => ServeInv
<1> SUFFICES ASSUME Init PROVE ServeInv
  OBVIOUS
<1>1. TypeInv /\ Fresh /\ MainStops
  BY InitStale DEF StaleInv, Init, MainStops
<1>2. OneListener
  <2>1. 1 \in Servers /\ \A s \in 1..1 : s = 1
    BY BoundsAssumption DEF Servers
  <2> QED BY <2>1 DEF Init, OneListener
<1>3. Started
  BY DEF Init, Started, HasNew, BuildAt
<1>4. HandsOver => Serving(1) /\ 1 \in Servers
  BY BoundsAssumption DEF Init, HandsOver, Serving, Accepts, Servers
<1> QED
  BY <1>1, <1>2, <1>3, <1>4 DEF ServeInv, Somebody

LEMMA NextMainStops ==
    ASSUME TypeInv, MainStops, [Next]_vars
    PROVE  MainStops'
<1>1. ASSUME NEW p \in Callers, Restart(p) PROVE MainStops'
  BY <1>1 DEF Restart, Begin, MainStops, TypeInv, TypeOK
<1>2. CASE Stop
  BY <1>2 DEF Stop, Begin, MainStops, TypeInv, TypeOK
<1>3. CASE job' = job
  BY <1>3 DEF MainStops
<1> QED
  BY <1>1, <1>2, <1>3
     DEF Next, Step, Build, Rule, Unrule, Start, Look, Shut, Hangup, Down, Assign, Exit, Arrive,
         Loop, AcceptCheck, Accept, AcceptClosed, AcceptFails, vars, callers

LEMMA NextOneListener ==
    ASSUME TypeInv, MainStops, ~Stopping, HandsOver, OneListener, [Next]_vars
    PROVE  OneListener'
<1>1. ASSUME NEW p \in Callers, Build(p) PROVE OneListener'
  <2>1. lsn[old[p]] = 1 /\ Inherits
    BY DEF OneListener, TypeInv, TypeOK, HandsOver, Inherits
  <2>2. CASE built' = built + 1 /\ lsn' = [lsn EXCEPT ![built + 1] = lsn[old[p]]] /\ built < MaxServers
    <3>1. built \in Nat /\ built + 1 \in Servers /\ \A s \in 1..(built + 1) : s \in 1..built \/ s = built + 1
      BY <2>2, Ranges DEF Servers
    <3>2. ASSUME NEW s \in 1..(built + 1) PROVE lsn'[s] = 1
      <4>1. lsn \in [Servers -> 0..MaxServers] /\ lsn'[built + 1] = 1
        BY <2>1, <2>2, <3>1 DEF TypeInv, TypeOK
      <4>2. CASE s \in 1..built /\ s # built + 1
        <5>1. s \in Servers /\ lsn[s] = 1
          BY <4>2, Ranges DEF OneListener
        <5> QED BY <4>1, <4>2, <5>1, <2>2
      <4> QED BY <3>1, <4>1, <4>2
    <3> QED BY <1>1, <2>2, <3>2 DEF Build, OneListener
  <2>3. CASE UNCHANGED <<built, lsn>>
    BY <1>1, <2>3 DEF Build, OneListener
  <2> QED BY <1>1, <2>1, <2>2, <2>3 DEF Build
<1>2. ASSUME NEW p \in Callers, Hangup(p) \/ Down(p) PROVE FALSE
  BY <1>2, HandOverOrder DEF Hangup, Down, Doing, MainStops, Stopping
<1>3. CASE UNCHANGED <<built, lsn, open>>
  BY <1>3 DEF OneListener
<1>4. Inherits
  BY DEF HandsOver, Inherits
<1> QED
  BY <1>1, <1>2, <1>3, <1>4
     DEF Next, Stop, Restart, Begin, Step, Rule, Unrule, Start, Look, Shut, Assign, Exit, Arrive,
         Loop, AcceptCheck, Accept, AcceptClosed, AcceptFails, vars, servers

(* An accept loop ends only when its server was closed. *)
LEMMA AcceptsOn ==
    ASSUME TypeInv, HandsOver, OneListener, [Next]_vars, NEW s \in 1..built, Accepts(s), s \notin done
    PROVE  Accepts(s)'
<1>1. lsn[s] \in open /\ Inherits /\ s \in Servers /\ acc \in [Servers -> AccStates]
  BY Ranges DEF OneListener, HandsOver, Inherits, TypeInv, TypeOK
<1>2. ASSUME NEW p \in Callers, Start(p) PROVE acc'[s] \in {acc[s], "check"}
  BY <1>1, <1>2 DEF Start, Inherits
<1>3. ASSUME NEW p \in Callers, Down(p) PROVE FALSE
  BY <1>3, HandOverOrder DEF Down
<1>4. ASSUME NEW t \in Servers, Loop(t) \/ AcceptFails(t) PROVE acc'[s] \in {acc[s], "check", "accept"}
  BY <1>1, <1>4 DEF Loop, AcceptCheck, Accept, AcceptClosed, AcceptFails, Loops
<1>5. CASE acc' = acc
  BY <1>5 DEF Accepts
<1>6. acc'[s] \in {acc[s], "check", "accept"}
  BY <1>2, <1>3, <1>4, <1>5
     DEF Next, Stop, Restart, Begin, Step, Build, Rule, Unrule, Look, Shut, Hangup, Assign, Exit,
         Arrive, vars, servers
<1> QED
  BY <1>6 DEF Accepts

LEMMA NextStarted ==
    ASSUME TypeInv, Fresh, HandsOver, OneListener, Started, [Next]_vars
    PROVE  Started'
<1>1. ASSUME NEW p \in Callers, HasNew(p), at[p] > StartAt, UNCHANGED <<mode, new>>
      PROVE  Accepts(new[p])'
  <2>1. new[p] \in 1..built /\ new[p] \notin done /\ Accepts(new[p])
    BY <1>1 DEF Started, Fresh, TypeInv, TypeOK
  <2>2. Accepts(new[p])'
    BY <1>1, <2>1, AcceptsOn
  <2> QED BY <2>2, <1>1 DEF Accepts
<1>2. ASSUME NEW p \in Callers, NEW step, Doing(p, step), step \notin {"start", "build"},
             UNCHANGED <<mode, job, new>>, Proceed(p) \/ at' = [at EXCEPT ![p] = 0]
      PROVE  Started'
  <2>1. job[p] = "restart" => at[p] # StartAt
    BY <1>2, HandOverOrder
  <2>2. /\ at \in [Callers -> Nat] /\ StartAt' = StartAt /\ StartAt \in Nat
        /\ \E n \in {0, at[p] + 1} : at' = [at EXCEPT ![p] = n]
    BY <1>2 DEF TypeInv, TypeOK, StartAt, Proceed
  <2>3. \A q \in Callers : HasNew(q)' => HasNew(q)
    BY <1>2, NoneNew
  <2>4. \A q \in Callers : job[q] = "restart" /\ at'[q] > StartAt => at[q] > StartAt
    BY <2>1, <2>2
  <2> QED BY <1>1, <1>2, <2>2, <2>3, <2>4 DEF Started, HasNew
<1>3. ASSUME NEW p \in Callers, Build(p) PROVE Started'
  <2>1. ASSUME NEW q \in Callers, q # p, HasNew(q)', at'[q] > StartAt' PROVE Accepts(new[q])'
    <3>1. HasNew(q) /\ at[q] > StartAt
      BY <1>3, <2>1 DEF Build, Proceed, Abort, HasNew, BuildAt, StartAt, TypeInv, TypeOK
    <3>2. /\ new[q] \in 1..built /\ new[q] \notin done /\ Accepts(new[q])
          /\ new'[q] = new[q]
      BY <1>3, <2>1, <3>1 DEF Build, Started, Fresh, TypeInv, TypeOK
    <3>3. PICK s \in 1..built : s = new[q] /\ s \notin done /\ Accepts(s)
      BY <3>2
    <3>4. acc'[s] \in {"check", "accept"}
      BY <3>3, AcceptsOn DEF Accepts
    <3> QED BY <3>2, <3>3, <3>4 DEF Accepts
  <2>2. HasNew(p)' => ~(at'[p] > StartAt')
    <3>1. at[p] = 1 /\ (at'[p] = 0 \/ at'[p] = 2)
      BY <1>3, HandOverOrder DEF Build, Proceed, Abort, TypeInv, TypeOK
    <3> QED
      BY <1>3, <3>1 DEF Build, Proceed, Abort, HasNew, BuildAt, StartAt, TypeInv, TypeOK
  <2> QED BY <2>1, <2>2 DEF Started
<1>4. ASSUME NEW p \in Callers, Start(p) PROVE Started'
  <2>1. Inherits /\ acc' = [acc EXCEPT ![new[p]] = "check"]
    BY <1>4 DEF Start, HandsOver, Inherits
  <2>2. new[p] \in Servers /\ UNCHANGED <<mode, job, new>> /\ Proceed(p)
    BY <1>4, <2>1, Ranges DEF Start, TypeInv, TypeOK
  <2>3. Accepts(new[p])'
    BY <2>1, <2>2 DEF Accepts, TypeInv, TypeOK
  <2>4. ASSUME NEW q \in Callers, q # p, HasNew(q)', at'[q] > StartAt' PROVE Accepts(new[q])'
    <3>1. HasNew(q) /\ at[q] > StartAt
      BY <2>2, <2>4 DEF Proceed, HasNew, BuildAt, StartAt, TypeInv, TypeOK
    <3> QED BY <1>1, <2>2, <3>1
  <2> QED BY <2>3, <2>4 DEF Started
<1>5. ASSUME NEW p \in Callers, NEW task, Begin(p, task) PROVE Started'
  <2>1. ASSUME NEW q \in Callers, HasNew(q)', at'[q] > StartAt' PROVE HasNew(q) /\ at[q] > StartAt
    BY <1>5, <2>1 DEF Begin, HasNew, BuildAt, StartAt, TypeInv, TypeOK
  <2> QED BY <1>1, <1>5, <2>1 DEF Begin, Started
<1>6. CASE UNCHANGED <<mode, job, at, new>>
  BY <1>1, <1>6 DEF Started, HasNew, BuildAt, StartAt
<1>7. ASSUME NEW p \in Callers, Step(p) PROVE Started'
  <2>1. CASE Build(p)
    BY <2>1, <1>3
  <2>2. CASE Start(p)
    BY <2>2, <1>4
  <2>3. CASE Rule(p) \/ Unrule(p) \/ Look(p) \/ Shut(p) \/ Hangup(p) \/ Down(p) \/ Assign(p)
    BY <2>3, <1>2 DEF Rule, Unrule, Look, Shut, Hangup, Down, Assign, Panic, Abort
  <2> QED BY <1>7, <2>1, <2>2, <2>3 DEF Step
<1> QED
  BY <1>5, <1>6, <1>7, CallersAssumption
     DEF Next, Stop, Restart, Exit, Arrive, Loop, AcceptCheck, Accept, AcceptClosed, AcceptFails,
         vars, callers

(* A process that goes on has not begun to stop. *)
LEMMA StillRunning ==
    ASSUME ServeInv, HandsOver, [Next]_vars, Up', ~Stopping'
    PROVE  Up /\ ~Stopping
<1>1. process = "up" /\ process' = "up"
  <2>1. process' = process \/ process' \in {"exited", "crashed"}
    BY DEF Next, Stop, Restart, Begin, Step, Build, Rule, Unrule, Start, Look, Shut, Panic, Hangup,
           Down, Assign, Exit, Arrive, Loop, AcceptCheck, Accept, AcceptClosed, AcceptFails, vars
  <2> QED BY <2>1 DEF Up
<1>2. ~Stopping
  <2>1. SUFFICES ASSUME Stopping PROVE Stopping'
    BY <2>1
  <2>2. at \in [Callers -> Nat] /\ job \in [Callers -> {"restart", "stop"}] /\ Main \in Callers
    BY CallersAssumption DEF ServeInv, TypeInv, TypeOK
  <2>3. ASSUME NEW p \in Callers, NEW task, Begin(p, task) PROVE Stopping'
    BY <2>1, <2>2, <2>3 DEF Begin, Stopping
  <2>4. ASSUME NEW p \in Callers, Step(p) PROVE Stopping'
    <3>1. job' = job /\ (Proceed(p) \/ at' = [at EXCEPT ![p] = 0])
      BY <2>4 DEF Step, Build, Rule, Unrule, Start, Look, Shut, Hangup, Down, Assign, Panic, Abort
    <3>2. CASE Proceed(p) \/ p # Main
      BY <2>1, <2>2, <3>1, <3>2 DEF Proceed, Stopping
    <3>3. CASE p = Main /\ ~Proceed(p)
      <4>1. \A step : Doing(Main, step) => step \in {"unrule", "look", "shut", "hangup", "exit"}
        BY <2>1, <2>2, HandOverOrder DEF Stopping, ServeInv
      <4>2. FALSE
        <5>1. Unrule(Main) \/ Look(Main) \/ Shut(Main) \/ Hangup(Main)
          BY <2>4, <3>3, <4>1 DEF Step, Build, Rule, Start, Down, Assign
        <5>2. ~Unrule(Main) /\ ~Look(Main) /\ ~Hangup(Main)
          BY <2>1, <3>3 DEF Unrule, Look, Hangup, Stopping
        <5>3. ~Shut(Main)
          BY <3>3, <1>1 DEF Shut, Panic
        <5> QED BY <5>1, <5>2, <5>3
      <4> QED BY <4>2
    <3> QED BY <3>2, <3>3
  <2>5. CASE UNCHANGED <<at, job>>
    BY <2>1, <2>5 DEF Stopping
  <2> QED
    BY <2>3, <2>4, <2>5, CallersAssumption
       DEF Next, Stop, Restart, Exit, Arrive, Loop, AcceptCheck, Accept, AcceptClosed,
           AcceptFails, vars, callers
<1> QED
  BY <1>1, <1>2 DEF Up

(* Whoever closes a server has started the next one, or stops the process. *)
LEMMA NextSomebody ==
    ASSUME ServeInv, HandsOver, Up, ~Stopping, [Next]_vars
    PROVE  Somebody'
<1>1. ASSUME NEW s \in 1..built, Accepts(s), s \notin done, s \notin done'
      PROVE  Somebody'
  <2>1. Accepts(s)'
    BY <1>1, AcceptsOn DEF ServeInv
  <2>2. built' = built \/ built' = built + 1
    BY DEF Next, Stop, Restart, Begin, Step, Build, Rule, Unrule, Start, Look, Shut, Hangup, Down,
           Assign, Exit, Arrive, Loop, AcceptCheck, Accept, AcceptClosed, AcceptFails, vars, servers
  <2>3. s \in 1..built' /\ s \in Servers
    BY <2>2, Ranges DEF ServeInv
  <2>4. Serving(s)'
    BY <1>1, <2>1, <2>3 DEF Serving
  <2> QED BY <2>3, <2>4 DEF Servers, Somebody
<1>2. PICK s \in Servers : Serving(s)
  BY DEF ServeInv, Somebody
<1>3. CASE s \notin done'
  BY <1>1, <1>2, <1>3 DEF Serving
<1>4. CASE s \in done'
  <2>1. PICK p \in Callers : Shut(p) /\ s = old[p] /\ done' = done \cup {old[p]}
    <3>1. ASSUME NEW p \in Callers, Down(p) PROVE FALSE
      BY <3>1, HandOverOrder DEF Down, ServeInv
    <3>2. s \notin done
      BY <1>2 DEF Serving
    <3> QED
      BY <1>4, <3>1, <3>2
         DEF Next, Stop, Restart, Begin, Step, Build, Rule, Unrule, Start, Look, Shut, Hangup,
             Assign, Exit, Arrive, Loop, AcceptCheck, Accept, AcceptClosed, AcceptFails, vars,
             servers
  <2>2. Doing(p, "shut") /\ job[p] = "restart"
    BY <2>1 DEF Shut, Doing, Stopping, ServeInv, MainStops, TypeInv, TypeOK
  <2>3. HasNew(p) /\ at[p] > StartAt
    BY <2>2, HandOverOrder DEF ServeInv
  <2>4. new[p] \in 1..built /\ Accepts(new[p]) /\ new[p] \notin done /\ new[p] # old[p]
    BY <2>3 DEF ServeInv, Started, Fresh, TypeInv, TypeOK
  <2>5. PICK t \in 1..built : t = new[p]
    BY <2>4
  <2> QED
    BY <1>1, <2>1, <2>4, <2>5
<1> QED
  BY <1>3, <1>4

LEMMA NextServe == ServeInv /\ [Next]_vars => ServeInv'
<1> SUFFICES ASSUME ServeInv, [Next]_vars PROVE ServeInv'
  OBVIOUS
<1>1. TypeInv' /\ Fresh' /\ MainStops'
  BY NextType, NextFresh, NextMainStops DEF ServeInv
<1>2. mode' = mode
  BY DEF Next, Stop, Restart, Begin, Step, Build, Rule, Unrule, Start, Look, Shut, Hangup, Down,
         Assign, Exit, Arrive, Loop, AcceptCheck, Accept, AcceptClosed, AcceptFails, vars
<1>3. HandsOver /\ Up' /\ ~Stopping' => OneListener' /\ Started' /\ Somebody'
  BY StillRunning, NextOneListener, NextStarted, NextSomebody DEF ServeInv
<1> QED
  BY <1>1, <1>2, <1>3 DEF ServeInv, HandsOver

(* Whatever step of a restart fails, and however restarts overlap, a SOCKS5 or
   TPROXY server accepts until the process is told to stop (NeverUnserved). *)
THEOREM AlwaysAServer == Spec => []NeverUnserved
<1>1. ServeInv => NeverUnserved
  <2> SUFFICES ASSUME ServeInv, HandsOver, Up, ~Stopping PROVE \E s \in Servers : Live(s)
    BY DEF NeverUnserved, HandsOver
  <2>1. PICK s \in Servers : Serving(s)
    BY DEF ServeInv, Somebody
  <2> QED
    BY <2>1 DEF Serving, Accepts, Live, ServeInv, OneListener
<1> QED
  BY <1>1, InitServe, NextServe, PTL DEF Spec

-----------------------------------------------------------------------------
(* Restarts that did not overlap: one caller is at work, on the server that is
   current, and what its select has found is still so when it closes done.    *)
Single    == \A p, q \in Callers : at[p] # 0 /\ at[q] # 0 => p = q
OnCurrent == \A p \in Callers : at[p] # 0 => old[p] = current
Looked    == \A p \in Callers : Doing(p, "shut") => (saw[p] <=> old[p] \in done)

(* NFQUEUE's current server was closed only by a restart that has failed, or by
   the one that goes on.                                                       *)
Unclosed  == mode = "NFQUEUE" /\ current \in done => failed \/ \E p \in Callers : at[p] > 2

CausedInv == TypeInv /\ Fresh /\ (~overlapped => Single /\ OnCurrent /\ Looked /\ Unclosed)

LEMMA InitCaused == Init => CausedInv
<1> SUFFICES ASSUME Init PROVE CausedInv
  OBVIOUS
<1>1. TypeInv /\ Fresh
  BY InitStale DEF StaleInv
<1> QED
  BY <1>1 DEF Init, CausedInv, Single, OnCurrent, Looked, Unclosed, Doing

(* A step of a caller is one of its plan: it goes on, or its job ends. *)
LEMMA StepMoves ==
    ASSUME TypeInv, NEW p \in Callers, Step(p)
    PROVE  /\ UNCHANGED <<mode, job, old, overlapped>> /\ Up /\ at[p] \in Nat \ {0}
           /\ \E n \in {0, at[p] + 1} : at' = [at EXCEPT ![p] = n]
           /\ \A q \in Callers : q # p => at'[q] = at[q]
           /\ at'[p] \in {0, at[p] + 1}
           /\ at'[p] = 0 => failed' \/ Assign(p)
           /\ at'[p] # 0 => failed' = failed
<1>1. at \in [Callers -> Nat] /\ at[p] \in Nat
  BY DEF TypeInv, TypeOK
<1>2. /\ UNCHANGED <<mode, job, old, overlapped>> /\ Up /\ at[p] # 0
      /\ \/ Abort(p) \/ Proceed(p)
         \/ Assign(p) /\ at' = [at EXCEPT ![p] = 0]
  BY DEF Step, Build, Rule, Unrule, Start, Look, Shut, Hangup, Down, Assign, Panic, Doing, servers
<1> QED
  BY <1>1, <1>2 DEF Abort, Proceed

(* What comes before what, in the plans. *)
LEMMA CloseOrder ==
    ASSUME TypeInv, NEW p \in Callers, NEW step, Doing(p, step)
    PROVE  /\ at[p] = 1 => step \notin {"shut", "assign"}
           /\ mode = "NFQUEUE" => step # "shut" /\ (step = "down" <=> at[p] = 2)
           /\ step = "down" => ~Inherits
           /\ Plan(p)[at[p] + 1] = "shut" /\ at[p] + 1 <= Len(Plan(p)) => step = "look"
<1>1. mode \in {"SOCKS5", "HTTP", "TPROXY", "REDIRECT", "NFQUEUE"}
  BY ModesAssumption DEF TypeInv, TypeOK
<1>2. at[p] \in Nat \ {0} /\ at[p] <= Len(Plan(p)) /\ Plan(p)[at[p]] = step
  BY DEF TypeInv, TypeOK, Doing
<1>3. CASE job[p] = "stop"
  BY <1>1, <1>2, <1>3 DEF Plan, StopSteps, Inherits
<1>4. CASE job[p] = "restart"
  BY <1>1, <1>2, <1>4 DEF Plan, RestartSteps, Inherits
<1> QED
  BY <1>3, <1>4 DEF TypeInv, TypeOK

LEMMA StepCaused ==
    ASSUME CausedInv, ~overlapped, NEW p \in Callers, Step(p)
    PROVE  Single' /\ OnCurrent' /\ Looked' /\ Unclosed'
<1> USE DEF CausedInv
<1>1. \A q \in Callers : q # p => at[q] = 0 /\ at'[q] = 0
  BY StepMoves DEF Single
<1>2. Single'
  BY <1>1 DEF Single
<1>3. OnCurrent'
  <2>1. CASE Assign(p)
    BY <1>1, <2>1 DEF OnCurrent, Assign, TypeInv, TypeOK
  <2>2. CASE ~Assign(p)
    <3>1. current' = current
      BY <2>2 DEF Step, Build, Rule, Unrule, Start, Look, Shut, Hangup, Down, servers
    <3> QED BY <1>1, <3>1, StepMoves DEF OnCurrent
  <2> QED BY <2>1, <2>2
<1>4. Looked'
  <2> SUFFICES ASSUME NEW q \in Callers, Doing(q, "shut")'
               PROVE  saw'[q] <=> old'[q] \in done'
    BY DEF Looked
  <2>1. q = p /\ at'[p] = at[p] + 1 /\ old' = old
    BY <1>1, StepMoves DEF Doing
  <2>2. PICK step : Doing(p, step)
    BY StepMoves DEF Doing
  <2>3. Plan(p)' = Plan(p)
    <3>1. UNCHANGED <<mode, job>>
      BY StepMoves
    <3> QED BY <3>1 DEF Plan, StopSteps, RestartSteps
  <2>4. Plan(p)[at[p] + 1] = "shut"
    BY <2>1, <2>3 DEF Doing
  <2>5. at[p] + 1 <= Len(Plan(p))
    <3>1. Next
      BY DEF Next
    <3>2. TypeInv'
      BY <3>1, NextType
    <3> QED BY <2>1, <2>3, <3>2 DEF TypeInv, TypeOK
  <2>6. step = "look"
    BY <2>2, <2>4, <2>5, CloseOrder
  <2>7. Look(p)
    BY <2>2, <2>6 DEF Step, Build, Rule, Unrule, Start, Shut, Hangup, Down, Assign, Doing
  <2> QED BY <2>1, <2>7 DEF Look, servers, TypeInv, TypeOK
<1>5. Unclosed'
  <2> SUFFICES ASSUME mode = "NFQUEUE", current' \in done', ~failed'
               PROVE  at'[p] > 2
    BY StepMoves DEF Unclosed
  <2>1. CASE Assign(p)
    BY <2>1, PlanOrder DEF Assign, Fresh
  <2>2. CASE Down(p)
    <3>1. at[p] = 2
      BY <2>2, CloseOrder DEF Down
    <3>2. ~Assign(p)
      BY <2>2 DEF Down, Assign, Doing
    <3>3. at'[p] \in {0, at[p] + 1} /\ (at'[p] = 0 => failed' \/ Assign(p))
      BY StepMoves
    <3>4. at'[p] = 3
      BY <3>1, <3>2, <3>3
    <3> QED BY <3>4
  <2>3. CASE Build(p) \/ Rule(p) \/ Unrule(p) \/ Start(p) \/ Look(p) \/ Hangup(p)
    <3>1. UNCHANGED <<current, done>>
      BY <2>3 DEF Build, Rule, Unrule, Start, Look, Hangup, servers
    <3>2. ~Assign(p)
      BY <2>3 DEF Build, Rule, Unrule, Start, Look, Hangup, Assign, Doing
    <3>3. at'[p] = at[p] + 1 /\ failed' = failed /\ at[p] \in Nat
      BY <3>2, StepMoves
    <3>4. at[p] > 2
      <4>1. PICK q \in Callers : at[q] > 2
        BY <3>1, <3>3 DEF Unclosed
      <4>2. q = p
        BY <1>1, <4>1
      <4> QED BY <4>1, <4>2
    <3> QED BY <3>3, <3>4
  <2>4. CASE Shut(p)
    BY <2>4, CloseOrder DEF Shut
  <2> QED BY <2>1, <2>2, <2>3, <2>4 DEF Step
<1> QED
  BY <1>2, <1>3, <1>4, <1>5

(* A caller begins: with no other at work, or restarts overlap. *)
LEMMA BeginCaused ==
    ASSUME CausedInv, NEW p \in Callers, NEW task \in {"restart", "stop"}, Begin(p, task), ~overlapped'
    PROVE  Single' /\ OnCurrent' /\ Looked' /\ Unclosed'
<1> USE DEF CausedInv
<1>1. /\ ~overlapped /\ \A q \in Callers : at[q] = 0
      /\ at' = [at EXCEPT ![p] = 1] /\ old' = [old EXCEPT ![p] = current] /\ mode' = mode
      /\ UNCHANGED <<current, done, failed>>
  BY DEF Begin, Idle, servers
<1>2. at'[p] = 1 /\ old'[p] = current /\ \A q \in Callers : q # p => at'[q] = 0
  BY <1>1 DEF TypeInv, TypeOK
<1>3. Single' /\ OnCurrent'
  BY <1>1, <1>2 DEF Single, OnCurrent
<1>4. Looked'
  <2>1. ~Doing(p, "shut")'
    <3>1. TypeInv'
      BY BeginType
    <3>2. mode' \in {"SOCKS5", "HTTP", "TPROXY", "REDIRECT", "NFQUEUE"}
      BY <3>1, ModesAssumption DEF TypeInv, TypeOK
    <3> QED BY <1>2, <3>2 DEF Doing, Plan, StopSteps, RestartSteps
  <2> QED BY <1>2, <2>1 DEF Looked, Doing
<1>5. Unclosed'
  BY <1>1 DEF Unclosed
<1> QED
  BY <1>3, <1>4, <1>5

LEMMA NextCaused == CausedInv /\ [Next]_vars => CausedInv'
<1> SUFFICES ASSUME CausedInv, [Next]_vars PROVE CausedInv'
  OBVIOUS
<1>1. TypeInv' /\ Fresh'
  BY NextType, NextFresh DEF CausedInv
<1> SUFFICES ASSUME ~overlapped' PROVE Single' /\ OnCurrent' /\ Looked' /\ Unclosed'
  BY <1>1 DEF CausedInv
<1>2. ASSUME NEW p \in Callers, Step(p) PROVE Single' /\ OnCurrent' /\ Looked' /\ Unclosed'
  BY <1>2, StepMoves, StepCaused DEF CausedInv
<1>3. ASSUME NEW p \in Callers, NEW task \in {"restart", "stop"}, Begin(p, task)
      PROVE  Single' /\ OnCurrent' /\ Looked' /\ Unclosed'
  BY <1>3, BeginCaused
<1>4. CASE /\ UNCHANGED <<mode, callers, current, done, failed, overlapped>>
           /\ process' = process \/ process' = "exited"
  BY <1>4 DEF CausedInv, callers, Single, OnCurrent, Looked, Unclosed, Doing, Up, Plan, StopSteps, RestartSteps
<1> QED
  BY <1>2, <1>3, <1>4, CallersAssumption
     DEF Next, Stop, Restart, Exit, Arrive, Loop, AcceptCheck, Accept, AcceptClosed, AcceptFails,
         vars, servers

(* The process dies of a panic only when restarts overlap, or after a failed
   one has left NFQUEUE with a closed server (PanicHasCause).               *)
THEOREM PanicsHaveCause == Spec => PanicHasCause
<1> DEFINE Cause == process' = "crashed" => overlapped \/ (mode = "NFQUEUE" /\ failed)
<1>1. CausedInv /\ [Next]_vars => [Cause]_vars
  <2> SUFFICES ASSUME CausedInv, Next, process' = "crashed", ~overlapped
               PROVE  mode = "NFQUEUE" /\ failed
    OBVIOUS
  <2>1. Up
    BY DEF Next, Stop, Restart, Begin, Step, Build, Rule, Unrule, Start, Look, Shut, Hangup, Down,
           Assign, Exit, Arrive, Loop, AcceptCheck, Accept, AcceptClosed, AcceptFails, Doing
  <2>2. PICK p \in Callers : (Shut(p) \/ Down(p)) /\ Panic(p)
    BY <2>1, CallersAssumption
       DEF Next, Stop, Restart, Begin, Step, Build, Rule, Unrule, Start, Look, Shut, Hangup, Down,
           Assign, Exit, Arrive, Loop, AcceptCheck, Accept, AcceptClosed, AcceptFails, Up
  <2>3. ~Shut(p)
    BY <2>1, <2>2 DEF Shut, Looked, CausedInv, Panic, Abort, Proceed, Up
  <2>4. Down(p) /\ mode = "NFQUEUE" /\ old[p] \in done
    BY <2>1, <2>2, <2>3 DEF Down, Panic, Up
  <2>5. at[p] = 2 /\ old[p] = current
    BY <2>4, CloseOrder DEF Down, CausedInv, OnCurrent, Doing
  <2>6. ASSUME NEW q \in Callers, at[q] > 2 PROVE FALSE
    <3>1. at[q] \in Nat /\ at[q] # 0 /\ at[p] # 0 /\ Single
      BY <2>5, <2>6 DEF CausedInv, TypeInv, TypeOK
    <3>2. p = q
      BY <3>1 DEF Single
    <3> QED BY <2>5, <2>6, <3>2
  <2> QED BY <2>4, <2>5, <2>6 DEF CausedInv, Unclosed
<1> QED
  BY <1>1, InitCaused, NextCaused, PTL DEF Spec, PanicHasCause

-----------------------------------------------------------------------------
(* How far a restart is that did not overlap: once the new server is started it
   may serve beside the current one, which is closed before the new one takes
   its place.  REDIRECT closes the shared listener itself.                     *)
StartedAt == IF mode = "SOCKS5" THEN 2 ELSE IF mode = "NFQUEUE" THEN 5 ELSE 3
ClosedAt  == IF mode = "SOCKS5" THEN 4 ELSE IF mode = "TPROXY" THEN 5 ELSE 2
RuledAt   == IF mode = "TPROXY" THEN 2 ELSE 4
Past(p, n) == job[p] = "restart" /\ at[p] > n

Retired == \A p \in Callers : Past(p, ClosedAt) => old[p] \in done
NoOther == \A s \in Servers :
               Live(s) => s = current \/ \E p \in Callers : Past(p, StartedAt) /\ s = new[p]
Alive   == ~Inherits => /\ \A p \in Callers : Doing(p, "assign") => Live(new[p])
                        /\ Idle /\ ~failed => Live(current)
Ruled   == IF Firewalled
           THEN /\ \A p \in Callers : Past(p, RuledAt) => rules
                /\ Idle /\ ~failed => rules
           ELSE ~rules
Placed   == Retired /\ NoOther /\ Alive /\ Ruled
PlaceInv == StaleInv /\ CausedInv /\ (mode # "REDIRECT" /\ ~overlapped => Placed)

LEMMA InitPlace == Init => PlaceInv
<1> SUFFICES ASSUME Init PROVE PlaceInv
  OBVIOUS
<1>1. StaleInv /\ CausedInv
  BY InitStale, InitCaused
<1>2. Retired /\ Ruled
  BY DEF Init, Retired, Ruled, Past, ClosedAt, RuledAt
<1>3. NoOther
  BY DEF Init, NoOther, Live
<1>4. Alive
  <2>1. 1 \in Servers
    BY BoundsAssumption DEF Servers
  <2> QED BY <2>1 DEF Init, Alive, Live, Doing
<1> QED
  BY <1>1, <1>2, <1>3, <1>4 DEF PlaceInv, Placed

LEMMA PlaceOrder ==
    ASSUME TypeInv, mode # "REDIRECT", NEW p \in Callers, NEW step, Doing(p, step)
    PROVE  /\ StartedAt \in Nat \ {0} /\ ClosedAt \in Nat \ {0, 1} /\ RuledAt \in Nat \ {0, 1}
           /\ ~Firewalled => step \notin {"rule", "unrule"}
           /\ job[p] = "restart" =>
                /\ at[p] = StartedAt <=> step = "start"
                /\ at[p] > StartedAt => step \in {"look", "shut", "assign"}
                /\ at[p] = ClosedAt => step \in {"shut", "down"}
                /\ Firewalled /\ at[p] = RuledAt => step = "rule"
                /\ Firewalled /\ at[p] > RuledAt => step \notin {"rule", "unrule"}
                /\ step = "assign" => /\ at[p] > StartedAt /\ at[p] > ClosedAt
                                      /\ Firewalled => at[p] > RuledAt
           /\ job[p] = "stop" => step \notin {"start", "assign"}
<1>1. mode \in {"SOCKS5", "HTTP", "TPROXY", "NFQUEUE"}
  BY ModesAssumption DEF TypeInv, TypeOK
<1>2. at[p] \in Nat \ {0} /\ at[p] <= Len(Plan(p)) /\ Plan(p)[at[p]] = step
  BY DEF TypeInv, TypeOK, Doing
<1>3. CASE job[p] = "stop"
  BY <1>1, <1>2, <1>3 DEF Plan, StopSteps, Firewalled, StartedAt, ClosedAt, RuledAt
<1>4. CASE job[p] = "restart"
  BY <1>1, <1>2, <1>4 DEF Plan, RestartSteps, Firewalled, StartedAt, ClosedAt, RuledAt
<1> QED
  BY <1>3, <1>4 DEF TypeInv, TypeOK

(* No step but Start makes a server live. *)
LEMMA LiveBefore ==
    ASSUME TypeInv, [Next]_vars, \A p \in Callers : ~Start(p), NEW s \in Servers, Live(s)'
    PROVE  Live(s)
<1>1. acc \in [Servers -> AccStates] /\ lsn \in [Servers -> 0..MaxServers]
  BY DEF TypeInv, TypeOK
<1>2. acc'[s] = acc[s] \/ acc[s] \in {"check", "accept"} \/ acc'[s] = "gone"
  BY <1>1 DEF Next, Stop, Restart, Begin, Step, Build, Rule, Unrule, Look, Shut, Hangup, Down,
         Assign, Exit, Arrive, Loop, AcceptCheck, Accept, AcceptClosed, AcceptFails, Loops, vars,
         servers
<1>3. done \subseteq done' /\ open' \subseteq open
  BY DEF Next, Stop, Restart, Begin, Step, Build, Rule, Unrule, Look, Shut, Hangup, Down,
         Assign, Exit, Arrive, Loop, AcceptCheck, Accept, AcceptClosed, AcceptFails, Closing, vars,
         servers
<1>4. acc[s] \in {"check", "accept"}
  BY <1>2 DEF Live
<1>5. lsn'[s] = lsn[s]
  <2>1. lsn' = lsn \/ \E l : lsn' = [lsn EXCEPT ![built + 1] = l]
    BY CallersAssumption
       DEF Next, Stop, Restart, Begin, Step, Build, Rule, Unrule, Look, Shut, Hangup, Down,
           Assign, Exit, Arrive, Loop, AcceptCheck, Accept, AcceptClosed, AcceptFails, vars, servers
  <2>2. s <= built /\ built \in Nat
    BY <1>4, Ranges DEF TypeInv, NotBuilt
  <2>3. s # built + 1
    BY <2>2
  <2> QED BY <1>1, <2>1, <2>3
<1> QED
  BY <1>3, <1>4, <1>5 DEF Live

(* The accept loops leave a live server with a listener of its own live. *)
LEMMA LiveStays ==
    ASSUME StaleInv, ~Inherits, NEW t \in Servers, Live(t), NEW s \in Servers, Loop(s) \/ AcceptFails(s)
    PROVE  Live(t)'
<1>1. /\ acc \in [Servers -> AccStates] /\ lsn[t] \in {t, None} /\ lsn[s] \in {s, None}
      /\ lsn[t] \in open /\ open \subseteq Servers /\ None \notin Servers
  BY Ranges DEF StaleInv, OwnStale, TypeInv, TypeOK, Live, Servers
<1>2. lsn[t] = t /\ UNCHANGED <<lsn, done>>
  BY <1>1 DEF Loop, AcceptCheck, Accept, AcceptClosed, AcceptFails
<1>3. t \in open'
  <2>1. CASE AcceptCheck(s)
    <3>1. open' = open \/ (open' = open \ {lsn[s]} /\ s \in done)
      BY <2>1 DEF AcceptCheck, Closing
    <3>2. s \in done => s # t
      BY DEF Live
    <3>3. s # t => lsn[s] # t
      BY <1>1, <1>2
    <3> QED BY <1>1, <1>2, <3>1, <3>2, <3>3
  <2>2. CASE ~AcceptCheck(s)
    BY <1>1, <1>2, <2>2 DEF Loop, Accept, AcceptClosed, AcceptFails
  <2> QED BY <2>1, <2>2
<1>4. acc'[t] \in {"check", "accept"}
  BY <1>1, <1>2 DEF Loop, AcceptCheck, Accept, AcceptClosed, AcceptFails, Loops, Live
<1> QED
  BY <1>2, <1>3, <1>4 DEF Live

(* A step of the one caller at work. *)
Alone(p) == \A q \in Callers : q # p => at[q] = 0 /\ at'[q] = 0

LEMMA StepRetired ==
    ASSUME PlaceInv, mode # "REDIRECT", ~overlapped, NEW p \in Callers, Step(p), Alone(p)
    PROVE  Retired'
<1> USE DEF PlaceInv, StaleInv, CausedInv, Placed
<1>1. PICK step : Doing(p, step)
  BY StepMoves DEF Doing
<1>2. UNCHANGED <<mode, job, old>> /\ ClosedAt' = ClosedAt
  BY StepMoves DEF ClosedAt
<1>3. done \subseteq done'
  BY DEF Step, Build, Rule, Unrule, Start, Look, Shut, Hangup, Down, Assign, servers
<1> SUFFICES ASSUME NEW q \in Callers, Past(q, ClosedAt)' PROVE old[q] \in done'
  BY <1>2 DEF Retired
<1>4. q = p /\ at'[p] = at[p] + 1 /\ at[p] \in Nat /\ ClosedAt \in Nat /\ job[p] = "restart"
  BY <1>1, <1>2, StepMoves, PlaceOrder DEF Past, Alone
<1>5. CASE at[p] > ClosedAt
  BY <1>3, <1>4, <1>5 DEF Past, Retired
<1>6. CASE at[p] = ClosedAt
  <2>1. step \in {"shut", "down"}
    BY <1>1, <1>4, <1>6, PlaceOrder
  <2>2. Shut(p) \/ Down(p)
    BY <1>1, <2>1 DEF Step, Build, Rule, Unrule, Start, Look, Hangup, Assign, Doing
  <2>3. Proceed(p)
    BY <1>4, <2>2 DEF Shut, Down, Panic, Abort, TypeInv, TypeOK
  <2>4. Panic(p) => at'[p] = 0
    BY DEF Panic, Abort, TypeInv, TypeOK
  <2>5. CASE Shut(p)
    BY <1>3, <1>4, <2>4, <2>5 DEF Shut, Looked
  <2>6. CASE Down(p)
    BY <1>4, <2>4, <2>6 DEF Down
  <2> QED BY <1>4, <2>2, <2>5, <2>6
<1> QED
  BY <1>2, <1>4, <1>5, <1>6 DEF Past

LEMMA StepNoOther ==
    ASSUME PlaceInv, mode # "REDIRECT", ~overlapped, NEW p \in Callers, Step(p), Alone(p)
    PROVE  NoOther'
<1> USE DEF PlaceInv, StaleInv, CausedInv, Placed
<1>1. PICK step : Doing(p, step)
  BY StepMoves DEF Doing
<1>2. UNCHANGED <<mode, job, old>> /\ StartedAt' = StartedAt /\ Next
  BY StepMoves DEF StartedAt, Next
<1>3. StartedAt \in Nat /\ at[p] \in Nat /\ at'[p] \in {0, at[p] + 1}
  BY <1>1, StepMoves, PlaceOrder
<1>4. ASSUME NEW s \in Servers, Live(s), s # current
      PROVE  Past(p, StartedAt) /\ s = new[p]
  <2>1. PICK q \in Callers : Past(q, StartedAt) /\ s = new[q]
    BY <1>4 DEF NoOther
  <2>2. q = p
    BY <1>3, <2>1 DEF Past, Alone
  <2> QED BY <2>1, <2>2
<1>5. CASE Start(p)
  <2>1. Doing(p, "start") /\ HasNew(p) /\ new[p] \in 1..built /\ new[p] \in Servers
    <3>1. Doing(p, "start")
      BY <1>5 DEF Start
    <3>2. HasNew(p)
      BY <3>1, PlanOrder
    <3> QED BY <3>1, <3>2, Ranges DEF TypeInv, TypeOK
  <2>2. at[p] = StartedAt /\ job[p] = "restart"
    BY <2>1, PlaceOrder DEF HasNew
  <2>3. UNCHANGED <<new, current, done>>
    BY <1>5 DEF Start
  <2> SUFFICES ASSUME NEW s \in Servers, Live(s)', s # current
               PROVE  Past(p, StartedAt)' /\ s = new[p]
    BY <1>2, <2>3 DEF NoOther
  <2>4. ~Past(p, StartedAt)
    BY <1>3, <2>2 DEF Past
  <2>5. ~Live(s)
    BY <1>4, <2>4
  <2>6. s = new[p] /\ ~Abort(p)
    <3>1. CASE Abort(p) /\ UNCHANGED <<lsn, open, acc>>
      BY <2>3, <2>5, <3>1 DEF Live
    <3>2. CASE Inherits /\ Proceed(p) /\ s # new[p]
      BY <1>5, <2>3, <2>5, <3>2 DEF Start, Live, TypeInv, TypeOK
    <3>3. CASE ~Inherits /\ s # new[p] /\ lsn' = [lsn EXCEPT ![new[p]] = new[p]] /\ open' = {new[p]}
      <4>1. lsn[s] \in {s, None} /\ new[p] # None
        BY <2>1, <3>3, Ranges DEF OwnStale
      <4>2. lsn'[s] = lsn[s]
        BY <3>3 DEF TypeInv, TypeOK
      <4> QED BY <3>3, <4>1, <4>2 DEF Live
    <3>4. Abort(p) => UNCHANGED <<lsn, open, acc>>
      <4>1. ~(Abort(p) /\ Proceed(p))
        BY <2>1, <1>3 DEF Abort, Proceed, TypeInv, TypeOK
      <4> QED BY <1>5, <4>1 DEF Start
    <3> QED BY <1>5, <3>1, <3>2, <3>3, <3>4 DEF Start
  <2>7. Proceed(p)
    BY <1>5, <2>6 DEF Start
  <2>8. at'[p] = at[p] + 1
    BY <2>7 DEF Proceed, TypeInv, TypeOK
  <2> QED BY <1>2, <1>3, <2>2, <2>6, <2>8 DEF Past
<1>6. CASE Assign(p)
  <2>1. Doing(p, "assign") /\ current' = new[p] /\ UNCHANGED <<new, acc, lsn, open, done>>
    BY <1>6 DEF Assign
  <2>2. HasNew(p)
    BY <2>1, PlanOrder
  <2>3. at[p] > ClosedAt /\ job[p] = "restart" /\ at[p] # 0
    BY <2>1, <2>2, PlaceOrder DEF HasNew, Doing
  <2>4. current \in done
    BY <2>3 DEF Retired, Past, OnCurrent
  <2>5. ~Live(current)
    BY <2>4 DEF Live
  <2>6. \A s \in Servers : Live(s)' => Live(s)
    BY <2>1 DEF Live
  <2> QED BY <1>4, <2>1, <2>5, <2>6 DEF NoOther
<1>7. CASE ~Start(p) /\ ~Assign(p)
  <2>1. \A q \in Callers : ~Start(q)
    BY <1>7 DEF Start, Alone, Doing
  <2>2. \A s \in Servers : Live(s)' => Live(s)
    BY <1>2, <2>1, LiveBefore
  <2>3. current' = current
    BY <1>7 DEF Step, Build, Rule, Unrule, Look, Shut, Hangup, Down, servers
  <2>4. ASSUME Past(p, StartedAt)
        PROVE  Past(p, StartedAt)' /\ new' = new
    <3>1. step \in {"look", "shut", "assign"}
      BY <1>1, <2>4, PlaceOrder DEF Past
    <3>2. Look(p) \/ Shut(p)
      BY <1>1, <1>7, <3>1 DEF Step, Build, Rule, Unrule, Hangup, Down, Doing
    <3>3. ~Panic(p) \/ Look(p)
      <4>1. CASE Shut(p)
        BY <4>1 DEF Shut, Looked, Panic, Abort, Proceed, TypeInv, TypeOK
      <4> QED BY <3>2, <4>1
    <3>4. Proceed(p) /\ new' = new
      BY <3>2, <3>3 DEF Look, Shut
    <3>5. at'[p] = at[p] + 1
      BY <3>4 DEF Proceed, TypeInv, TypeOK
    <3> QED BY <1>2, <1>3, <2>4, <3>4, <3>5 DEF Past
  <2> QED BY <1>4, <2>2, <2>3, <2>4 DEF NoOther
<1> QED
  BY <1>5, <1>6, <1>7

LEMMA StepAlive ==
    ASSUME PlaceInv, mode # "REDIRECT", ~overlapped, NEW p \in Callers, Step(p), Alone(p)
    PROVE  Alive'
<1> USE DEF PlaceInv, StaleInv, CausedInv, Placed
<1>1. UNCHANGED <<mode, job, old>> /\ Inherits' = Inherits
  BY StepMoves DEF Inherits
<1> SUFFICES ASSUME ~Inherits
             PROVE  /\ \A q \in Callers : Doing(q, "assign")' => Live(new[q])'
                    /\ Idle' /\ ~failed' => Live(current)'
  BY <1>1 DEF Alive
<1>2. ASSUME NEW q \in Callers, Doing(q, "assign")'
      PROVE  Live(new[q])'
  <2>1. q = p /\ at'[p] # 0
    BY <1>2 DEF Doing, Alone
  <2>2. at'[p] = at[p] + 1 /\ at' = [at EXCEPT ![p] = at[p] + 1] /\ ~Assign(p)
    BY <2>1, StepMoves DEF Assign, TypeInv, TypeOK
  <2>3. PICK step : Doing(p, step) /\ step \notin {"assign", "exit"}
    BY <2>2 DEF Step, Build, Rule, Unrule, Start, Look, Shut, Hangup, Down
  <2>4. step = "start"
    <3>1. TypeOK /\ ~Inherits
      BY DEF TypeInv
    <3>2. Doing(p, "assign")'
      BY <1>2, <2>1
    <3>3. mode' = mode /\ job' = job /\ at' = [at EXCEPT ![p] = at[p] + 1]
      BY <1>1, <2>2
    <3>4. Doing(p, step) /\ step \notin {"assign", "exit"}
      BY <2>3
    <3> HIDE DEF PlaceInv, StaleInv, CausedInv, Placed
    <3> QED BY <3>1, <3>2, <3>3, <3>4, AssignAfterStart
  <2>5. Start(p)
    BY <2>2, <2>3, <2>4 DEF Step, Build, Rule, Unrule, Look, Shut, Hangup, Down, Doing
  <2>6. ~Abort(p)
    BY <2>1 DEF Abort, TypeInv, TypeOK
  <2>7. /\ acc'[new[p]] \in {"check", "accept"} /\ lsn'[new[p]] \in open'
        /\ UNCHANGED <<new, done>>
    <3>1. new[p] \in Servers
      BY Ranges DEF TypeInv, TypeOK
    <3> QED BY <2>5, <2>6, <3>1 DEF Start, TypeInv, TypeOK
  <2>8. new[p] \notin done
    BY <2>3, <2>4, PlanOrder DEF Fresh
  <2> QED BY <2>1, <2>7, <2>8 DEF Live
<1>3. ASSUME Idle', ~failed'
      PROVE  Live(current)'
  <2>1. Assign(p)
    BY <1>3, StepMoves DEF Idle
  <2>2. Doing(p, "assign") /\ current' = new[p] /\ UNCHANGED <<acc, lsn, open, done>>
    BY <2>1 DEF Assign
  <2>3. Live(new[p])
    BY <2>2 DEF Alive
  <2> QED BY <2>2, <2>3 DEF Live
<1> QED
  BY <1>2, <1>3

LEMMA StepRuled ==
    ASSUME PlaceInv, mode # "REDIRECT", ~overlapped, NEW p \in Callers, Step(p), Alone(p)
    PROVE  Ruled'
<1> USE DEF PlaceInv, StaleInv, CausedInv, Placed
<1>1. PICK step : Doing(p, step)
  BY StepMoves DEF Doing
<1>2. UNCHANGED <<mode, job, old>> /\ Firewalled' = Firewalled /\ RuledAt' = RuledAt
  BY StepMoves DEF Firewalled, RuledAt
<1>3. step \notin {"rule", "unrule"} => rules' = rules
  BY <1>1 DEF Step, Build, Rule, Unrule, Start, Look, Shut, Hangup, Down, Assign, Doing
<1>4. CASE ~Firewalled
  <2>1. step \notin {"rule", "unrule"}
    BY <1>1, <1>4, PlaceOrder
  <2> QED BY <1>2, <1>3, <1>4, <2>1 DEF Ruled
<1>5. CASE Firewalled
  <2>1. ASSUME NEW q \in Callers, Past(q, RuledAt)'
        PROVE  rules'
    <3>1. q = p /\ at'[p] = at[p] + 1 /\ at[p] \in Nat /\ RuledAt \in Nat /\ job[p] = "restart"
      BY <1>1, <1>2, <2>1, StepMoves, PlaceOrder DEF Past, Alone
    <3>2. CASE at[p] > RuledAt
      BY <1>1, <1>3, <1>5, <3>1, <3>2, PlaceOrder DEF Past, Ruled
    <3>3. CASE at[p] = RuledAt
      <4>1. step = "rule"
        BY <1>1, <1>5, <3>1, <3>3, PlaceOrder
      <4>2. Rule(p)
        BY <1>1, <4>1 DEF Step, Build, Unrule, Start, Look, Shut, Hangup, Down, Assign, Doing
      <4>3. ~Abort(p)
        BY <3>1 DEF Abort, TypeInv, TypeOK
      <4> QED BY <4>2, <4>3 DEF Rule
    <3> QED BY <1>2, <2>1, <3>1, <3>2, <3>3 DEF Past
  <2>2. ASSUME Idle', ~failed'
        PROVE  rules'
    <3>1. Assign(p)
      BY <2>2, StepMoves DEF Idle
    <3>2. Doing(p, "assign") /\ rules' = rules
      BY <3>1 DEF Assign
    <3>3. job[p] = "restart" /\ at[p] > RuledAt
      BY <1>5, <3>2, PlanOrder, PlaceOrder DEF HasNew
    <3> QED BY <1>5, <3>2, <3>3 DEF Ruled, Past
  <2> QED BY <1>2, <1>5, <2>1, <2>2 DEF Ruled
<1> QED
  BY <1>4, <1>5

LEMMA BeginPlaced ==
    ASSUME PlaceInv, mode # "REDIRECT", NEW p \in Callers, NEW task \in {"restart", "stop"},
           Begin(p, task), ~overlapped'
    PROVE  Placed'
<1> USE DEF PlaceInv, StaleInv, CausedInv, Placed
<1>1. /\ ~overlapped /\ \A q \in Callers : at[q] = 0
      /\ at' = [at EXCEPT ![p] = 1] /\ mode' = mode /\ process' = process
      /\ UNCHANGED <<servers, rules, new, failed>>
  BY DEF Begin, Idle
<1>2. at'[p] = 1 /\ \A q \in Callers : q # p => at'[q] = 0
  BY <1>1 DEF TypeInv, TypeOK
<1>3. /\ StartedAt \in Nat \ {0} /\ ClosedAt \in Nat \ {0} /\ RuledAt \in Nat \ {0}
      /\ UNCHANGED <<StartedAt, ClosedAt, RuledAt, Firewalled, Inherits>>
  BY <1>1 DEF StartedAt, ClosedAt, RuledAt, Firewalled, Inherits
<1>4. \A q \in Callers, n \in Nat \ {0} : ~Past(q, n) /\ ~Past(q, n)'
  BY <1>1, <1>2 DEF Past
<1>5. Retired'
  BY <1>3, <1>4 DEF Retired, Past
<1>6. NoOther'
  <2>1. \A s \in Servers : Live(s)' => Live(s)
    BY <1>1 DEF Live, servers
  <2>2. \A s \in Servers : Live(s) => s = current
    BY <1>1, <1>3, <1>4 DEF NoOther
  <2> QED BY <1>1, <2>1, <2>2 DEF NoOther, servers
<1>7. Alive'
  <2>1. \A q \in Callers : ~Doing(q, "assign")'
    <3>1. TypeInv'
      BY BeginType
    <3>2. mode' \in {"SOCKS5", "HTTP", "TPROXY", "NFQUEUE"}
      BY <1>1, <3>1, ModesAssumption DEF TypeInv, TypeOK
    <3> QED BY <1>2, <3>2 DEF Doing, Plan, StopSteps, RestartSteps
  <2>2. ~Idle'
    BY <1>2 DEF Idle
  <2> QED BY <2>1, <2>2 DEF Alive
<1>8. Ruled'
  <2>1. ~Idle'
    BY <1>2 DEF Idle
  <2> QED BY <1>1, <1>3, <1>4, <2>1 DEF Ruled, Past
<1> QED
  BY <1>5, <1>6, <1>7, <1>8

(* The accept loops, the clients and the end of the process. *)
LEMMA OthersPlaced ==
    ASSUME PlaceInv, mode # "REDIRECT", ~overlapped, [Next]_vars,
           UNCHANGED <<mode, rules, callers, current, failed, overlapped>>,
           \/ UNCHANGED servers /\ process' \in {process, "exited"}
           \/ process' = process /\ \E s \in Servers : Loop(s) \/ AcceptFails(s)
    PROVE  Placed'
<1> USE DEF PlaceInv, StaleInv, CausedInv, Placed, callers
<1>1. UNCHANGED <<StartedAt, ClosedAt, RuledAt, Firewalled, Inherits, Idle>>
  BY DEF StartedAt, ClosedAt, RuledAt, Firewalled, Inherits, Idle
<1>2. done' = done
  BY DEF servers, Loop, AcceptCheck, Accept, AcceptClosed, AcceptFails
<1>3. Retired'
  BY <1>1, <1>2 DEF Retired, Past
<1>4. NoOther'
  <2>1. \A p \in Callers : ~Start(p)
    <3>1. ASSUME NEW p \in Callers, Start(p) PROVE FALSE
      <4>1. at' # at
        BY <3>1, StepMoves DEF Step, TypeInv, TypeOK
      <4> QED BY <4>1
    <3> QED BY <3>1
  <2>2. \A s \in Servers : Live(s)' => Live(s)
    BY <2>1, LiveBefore
  <2> QED BY <1>1, <2>2 DEF NoOther, Past
<1>5. Alive'
  <2> SUFFICES ASSUME ~Inherits
               PROVE  /\ \A q \in Callers : Doing(q, "assign")' => Live(new[q])'
                      /\ Idle' /\ ~failed' => Live(current)'
    BY <1>1 DEF Alive
  <2>1. \A q \in Callers : Doing(q, "assign")' => Doing(q, "assign")
    BY DEF Doing, Up, Plan, StopSteps, RestartSteps
  <2>2. \A t \in Servers : Live(t) => Live(t)'
    <3>1. CASE UNCHANGED servers
      BY <3>1 DEF servers, Live
    <3>2. CASE \E s \in Servers : Loop(s) \/ AcceptFails(s)
      BY <3>2, LiveStays
    <3> QED BY <3>1, <3>2
  <2>3. current \in Servers /\ \A q \in Callers : new[q] \in Servers
    BY Ranges DEF TypeInv, TypeOK
  <2>4. /\ \A q \in Callers : Doing(q, "assign") => Live(new[q])
        /\ Idle /\ ~failed => Live(current)
    BY DEF Alive
  <2>5. ASSUME NEW q \in Callers, Doing(q, "assign")'
        PROVE  Live(new[q])'
    <3>1. PICK t \in Servers : t = new[q]
      BY <2>3
    <3>2. Live(t)'
      BY <2>1, <2>2, <2>4, <2>5, <3>1
    <3> QED BY <3>1, <3>2 DEF Live
  <2>6. ASSUME Idle', ~failed'
        PROVE  Live(current)'
    <3>1. PICK t \in Servers : t = current
      BY <2>3
    <3>2. Live(t)'
      BY <1>1, <2>2, <2>4, <2>6, <3>1
    <3> QED BY <3>1, <3>2 DEF Live
  <2> QED BY <2>5, <2>6
<1>6. Ruled'
  BY <1>1 DEF Ruled, Past
<1> QED
  BY <1>3, <1>4, <1>5, <1>6

LEMMA NextPlace == PlaceInv /\ [Next]_vars => PlaceInv'
<1> SUFFICES ASSUME PlaceInv, [Next]_vars PROVE PlaceInv'
  OBVIOUS
<1>1. StaleInv' /\ CausedInv'
  BY NextStale, NextCaused DEF PlaceInv
<1> SUFFICES ASSUME mode' # "REDIRECT", ~overlapped' PROVE Placed'
  BY <1>1 DEF PlaceInv
<1>2. mode' = mode /\ ~overlapped
  <2>1. ASSUME NEW p \in Callers, Step(p) PROVE mode' = mode /\ overlapped' = overlapped
    BY <2>1 DEF Step, Build, Rule, Unrule, Start, Look, Shut, Hangup, Down, Assign
  <2>2. ASSUME NEW p \in Callers, NEW task, Begin(p, task)
        PROVE  mode' = mode /\ ~overlapped
    BY <2>2 DEF Begin
  <2>3. CASE Exit \/ Arrive \/ UNCHANGED vars \/ \E s \in Servers : Loop(s) \/ AcceptFails(s)
    BY <2>3 DEF Exit, Arrive, Loop, AcceptCheck, Accept, AcceptClosed, AcceptFails, vars
  <2> QED
    BY <2>1, <2>2, <2>3, CallersAssumption DEF Next, Stop, Restart
<1>3. ASSUME NEW p \in Callers, Step(p) PROVE Placed'
  <2>1. Alone(p)
    BY <1>2, <1>3, StepMoves DEF Alone, PlaceInv, CausedInv, Single
  <2> QED
    BY <1>2, <1>3, <2>1, StepRetired, StepNoOther, StepAlive, StepRuled DEF Placed
<1>4. ASSUME NEW p \in Callers, NEW task \in {"restart", "stop"}, Begin(p, task) PROVE Placed'
  BY <1>2, <1>4, BeginPlaced
<1>5. CASE Exit \/ Arrive \/ UNCHANGED vars \/ \E s \in Servers : Loop(s) \/ AcceptFails(s)
  <2>1. /\ UNCHANGED <<mode, rules, callers, current, failed, overlapped>>
        /\ \/ UNCHANGED servers /\ process' \in {process, "exited"}
           \/ process' = process /\ \E s \in Servers : Loop(s) \/ AcceptFails(s)
    BY <1>5 DEF Exit, Arrive, Loop, AcceptCheck, Accept, AcceptClosed, AcceptFails, vars, servers
  <2> QED BY <1>2, <2>1, OthersPlaced
<1> QED
  BY <1>3, <1>4, <1>5, CallersAssumption DEF Next, Stop, Restart

(* After restarts that did not overlap, the last of them successful, the current
   server serves and no other, and the firewall redirects to it if the mode needs
   that (ServedByCurrent), however connections arrive in between.               *)
THEOREM CurrentServes == Spec => []ServedByCurrent
<1>1. PlaceInv /\ ServeInv => ServedByCurrent
  <2> SUFFICES ASSUME PlaceInv, ServeInv, mode # "REDIRECT", Up, Idle, ~overlapped, ~failed
               PROVE  {s \in Servers : Live(s)} = {current} /\ rules = Firewalled
    BY DEF ServedByCurrent, AtRest, Served
  <2> USE DEF PlaceInv, Placed
  <2>1. \A p \in Callers : at[p] = 0
    BY DEF Idle
  <2>2. current \in Servers /\ rules \in BOOLEAN /\ Firewalled \in BOOLEAN
    BY Ranges DEF ServeInv, TypeInv, TypeOK, Firewalled
  <2>3. \A s \in Servers : Live(s) => s = current
    BY <2>1 DEF NoOther, Past, StartedAt
  <2>4. Live(current)
    <3>1. CASE HandsOver
      <4>1. ~Stopping
        BY <2>1, CallersAssumption DEF Stopping
      <4>2. PICK s \in Servers : Serving(s) /\ OneListener
        BY <3>1, <4>1 DEF ServeInv, Somebody
      <4>3. Live(s)
        BY <4>2 DEF Serving, Accepts, Live, OneListener
      <4> QED BY <2>3, <4>3
    <3>2. CASE ~HandsOver
      BY <3>2 DEF Alive, HandsOver, Inherits
    <3> QED BY <3>1, <3>2
  <2>5. rules = Firewalled
    <3>1. CASE Firewalled
      BY <2>2, <3>1 DEF Ruled
    <3>2. CASE ~Firewalled
      BY <2>2, <3>2 DEF Ruled
    <3> QED BY <3>1, <3>2
  <2> QED BY <2>2, <2>3, <2>4, <2>5
<1> QED
  BY <1>1, InitPlace, NextPlace, InitServe, NextServe, PTL DEF Spec
=============================================================================
