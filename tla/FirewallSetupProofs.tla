------------------------- MODULE FirewallSetupProofs ------------------------
(***************************************************************************)
(* The properties of FirewallSetup hold for every machine, configuration   *)
(* and number of starts, restarts and failures.  The kernel is compared    *)
(* with the list: what a component still deletes may be there, what it     *)
(* still installs is not, and at rest it has exactly what its setup puts   *)
(* (Stages); an end leaves nothing (Ending); chains, jumps and sets of a   *)
(* server are in use, about to go, or left by a killed process (Where);    *)
(* the helper knows what it has attached (HookInv).                        *)
(***************************************************************************)
EXTENDS FirewallListProofs

(* What a component answers for. *)
LEMMA CoverIn ==
    /\ \A c \in Components : Sure(c) \subseteq Cover(c) /\ Cover(c) \subseteq Owned[c] \ Hooks /\ Cover(c) \subseteq Objects
    /\ \A c \in Components : Cover(c) \ {SkipSet} \subseteq Sure(c)
    /\ SkipSet \notin Hooks /\ Owned["help"] \cap Hooks = Hooks
  <1>1. \A c \in Components : Owned[c] \subseteq Objects
    BY ObjectFacts
  <1>2. \A c \in Components : Cover(c) \subseteq Owned[c] \ Hooks
    <2>1. dirty = {} => \A c \in Components : Cover(c) \subseteq Owned[c] \ Hooks
      BY DEF Cover
    <2>2. dirty # {} => Cover("help") \subseteq {HelperTable, Ingress} /\ Cover("des") = Owned["des"]
      BY DEF Cover
    <2>3. {HelperTable, Ingress} \subseteq Owned["help"] \ Hooks
      BY OwnedFacts, FilterFacts DEF HelperTable, Ingress
    <2>4. Owned["des"] \cap Hooks = {} /\ Owned["srv"] \cap Hooks = {}
      BY OwnedFacts, FilterFacts
    <2>5. dirty # {} => Cover("srv") \subseteq Owned["srv"]
      <3>1. Routes \subseteq Owned["srv"] /\ "nft UA3F" \in Owned["srv"] /\ SrvChained \subseteq Owned["srv"]
        BY DEF Owned, SrvChained, Components
      <3>2. OfType(type) \cap Jumps \subseteq Owned["srv"]
        BY OwnedFacts, JumpFacts DEF OfType, Sets, LanSet, SkipSet
      <3>. QED
        BY <3>1, <3>2 DEF Cover
    <2>. QED
      BY <2>1, <2>2, <2>3, <2>4, <2>5 DEF Components
  <1>3. SkipSet \notin Hooks
    BY FilterFacts DEF SkipSet
  <1>4. Hooks \subseteq Owned["help"]
    BY ObjectFacts
  <1>. QED
    BY <1>1, <1>2, <1>3, <1>4 DEF Sure

(* What has to go before an object of a component is the component's. *)
LEMMA WaitsCover ==
    \A c \in Components : \A o \in Cover(c) : \A x \in Waits(o) : x \in Cover(c) /\ x # SkipSet /\ x \in Chains \cup Jumps
  <1>1. SUFFICES ASSUME NEW c \in Components, NEW o \in Cover(c), NEW x \in Waits(o)
                 PROVE  x \in Cover(c) /\ x # SkipSet /\ x \in Chains \cup Jumps
    OBVIOUS
  <1>2. o \in Owned[c] /\ o \in Objects /\ o \notin Hooks
    BY CoverIn
  <1>3. o \in Chains \cup Sets
    BY <1>2, WaitFacts
  <1>4. x # SkipSet /\ x \in Chains \cup Jumps /\ x \in Owned[c] \ Hooks
    BY <1>2, <1>3, WaitFacts
  <1>5. CASE dirty = {}
    <2>1. StrayTTL \cap (Chains \cup Jumps) = {}
      BY JumpFacts DEF StrayTTL, Chains
    <2>. QED
      BY <1>4, <1>5, <2>1 DEF Cover
  <1>6. CASE dirty # {} /\ c = "help"
    <2>1. o \in {HelperTable, Ingress}
      BY <1>6 DEF Cover
    <2>. QED
      BY <1>3, <2>1 DEF HelperTable, Ingress, Chains, Sets, LanSet, SkipSet
  <1>7. CASE dirty # {} /\ c = "des"
    BY <1>4, <1>7 DEF Cover
  <1>8. CASE dirty # {} /\ c = "srv"
    <2>1. (Chains \cup Sets) \cap (Routes \cup {"nft UA3F"} \cup Jumps) = {}
      BY JumpFacts DEF Chains, Sets, Routes, LanSet, SkipSet
    <2>2. o \in (IF dirty \subseteq {type} THEN SrvChained \ {SkipSet} ELSE {})
      BY <1>3, <1>8, <2>1 DEF Cover
    <2>3. x \in SrvChained \ {SkipSet}
      BY <1>4, <1>8 DEF SrvChained
    <2>. QED
      BY <1>4, <1>8, <2>2, <2>3 DEF Cover
  <1>. QED
    BY <1>5, <1>6, <1>7, <1>8 DEF Components

(* Which objects a step changes. *)
Touches ==
    \/ UNCHANGED kern
    \/ /\ todo # <<>> /\ Head(todo).op \in PutOps /\ Head(todo).obj \in Objects /\ process \in {"starting", "restarting"}
       /\ Head(todo).op \in {"create", "try"} => kern[Head(todo).obj] = 0
       /\ kern' = Installed(kern, Head(todo))
    \/ todo # <<>> /\ Head(todo).op = "delete" /\ Head(todo).obj \in Objects /\ kern' = Deleted(kern, Head(todo).obj)
       /\ Advance
    \/ \A o \in Objects : kern'[o] # kern[o] => o \in Hooks \cup {Qdisc.wan, Qdisc.wwan}
    \/ watching /\ kern' = [kern EXCEPT ![SkipSet] = 1] /\ kern[SkipSet] = 0

(* Who puts something runs a plan. *)
LEMMA PutRuns ==
    ASSUME Lists, Doing(PutOps \cup {"fail", "open", "tcx", "nowan", "qdisc", "filter", "boot"})
    PROVE  process \in {"starting", "restarting"} /\ Plan
  <1>1. Head(todo).op \in PutOps \cup {"fail", "open", "tcx", "nowan", "qdisc", "filter", "boot"} /\ todo # <<>>
    BY Ready
  <1>2. Head(todo).op \notin {"delete", "detach", "shut", "watch", "abort"}
    BY <1>1, OpsApart
  <1>. QED
    BY <1>1, <1>2, Now DEF Lists, Plan

LEMMA TouchesIs == Lists /\ [Next]_vars => Touches
  <1>1. SUFFICES ASSUME Lists, [Next]_vars PROVE Touches
    OBVIOUS
  <1>k. kern \in [Objects -> Nat]
    BY <1>1 DEF Lists, TypeInv
  <1>2. CASE UNCHANGED vars
    BY <1>2 DEF Touches, vars
  <1>3. CASE Boot \/ Restart \/ Stop \/ Finish \/ NoBackend \/ StartWatch \/ Build \/ Open \/ TcFails \/ Detach
    BY <1>3 DEF Boot, Restart, Stop, Finish, NoBackend, StartWatch, Build, Open, TcFails, Detach, Touches
  <1>4. ASSUME Killed PROVE Touches
    <2>1. kern' = [kern EXCEPT ![Links] = 0]
      BY <1>4 DEF Killed
    <2>2. \A o \in Objects : o # Links => kern'[o] = kern[o]
      BY <1>k, <2>1
    <2>. QED
      BY <2>2 DEF Touches, Hooks
  <1>5. CASE Kill \/ Shut
    BY <1>4, <1>5 DEF Kill, Shut, Touches
  <1>6. CASE Put
    <2>1. Doing({"create", "put", "fill"})
      BY <1>6 DEF Put
    <2>2. todo # <<>> /\ Head(todo).op \in {"create", "put", "fill"} /\ Command = Head(todo)
      BY <1>1, <2>1, Ready
    <2>3. Head(todo).op \in PutOps
      BY <2>2, OpsApart
    <2>4. Head(todo).obj \in Objects
      BY <1>1, <2>1, <2>3, Ready
    <2>5. Doing(PutOps \cup {"fail", "open", "tcx", "nowan", "qdisc", "filter", "boot"})
      BY <2>1, <2>2, <2>3 DEF Doing
    <2>6. process \in {"starting", "restarting"}
      BY <1>1, <2>5, PutRuns
    <2>. QED
      BY <1>6, <2>2, <2>3, <2>4, <2>6 DEF Put, Touches
  <1>7. CASE Try \/ Fault
    <2>1. Doing({"create", "put", "fill", "try", "open"})
      BY <1>7 DEF Try, Fault, Doing
    <2>2. todo # <<>> /\ Head(todo).op \in {"create", "put", "fill", "try", "open"} /\ Command = Head(todo) /\ Typed(Head(todo))
      BY <1>1, <2>1, Ready
    <2>3. kern' = kern \/ (kern' = Installed(kern, Head(todo)) /\ Head(todo).op \in PutOps /\ Head(todo).op # "open" /\ (Head(todo).op \in {"create", "try"} => kern[Head(todo).obj] = 0))
      <3>1. CASE Try
        BY <2>2, <3>1, OpsApart DEF Try, Doing
      <3>2. CASE Fault
        <4>1. Head(todo).op \in {"try", "open"} => kern' = kern
          BY <2>2, <3>2 DEF Fault
        <4>2. Head(todo).op \notin {"try", "open"} => kern' = kern \/ (Partly(Head(todo)) /\ kern' = Installed(kern, Head(todo)))
          BY <2>2, <3>2 DEF Fault
        <4>3. Partly(Head(todo)) /\ Head(todo).op \in {"create", "try"} => kern[Head(todo).obj] = 0
          BY DEF Partly
        <4>. QED
          BY <2>2, <4>1, <4>2, <4>3, OpsApart
      <3>. QED
        BY <1>7, <3>1, <3>2
    <2>4. Head(todo).op \in PutOps => Head(todo).obj \in Objects
      BY <1>1, <2>1, Ready
    <2>5. Head(todo).op \in PutOps => Doing(PutOps \cup {"fail", "open", "tcx", "nowan", "qdisc", "filter", "boot"})
      BY <2>1, <2>2 DEF Doing
    <2>6. Head(todo).op \in PutOps => process \in {"starting", "restarting"}
      BY <1>1, <2>5, PutRuns
    <2>. QED
      BY <2>2, <2>3, <2>4, <2>6 DEF Touches
  <1>8. CASE Delete
    <2>1. Doing({"delete"})
      BY <1>8 DEF Delete
    <2>2. todo # <<>> /\ Head(todo).op = "delete" /\ Command = Head(todo) /\ Head(todo).obj \in Objects
      BY <1>1, <2>1, Ready
    <2>3. Proceed /\ Steady /\ UNCHANGED dirty
      BY <1>8 DEF Delete
    <2>4. Advance
      BY <1>1, <2>1, <2>3, ProceedAdvance
    <2>. QED
      BY <1>8, <2>2, <2>4 DEF Delete, Touches
  <1>9. CASE WatchTick
    BY <1>9 DEF WatchTick, Touches
  <1>10. CASE AttachTCX
    <2>1. kern' = kern \/ kern' = [kern EXCEPT ![Links] = 1]
      BY <1>10 DEF AttachTCX
    <2>2. kern' = [kern EXCEPT ![Links] = 1] => \A o \in Objects : o # Links => kern'[o] = kern[o]
      BY <1>k
    <2>. QED
      BY <2>1, <2>2 DEF Touches, Hooks
  <1>11. CASE EnsureQdisc
    <2>1. Doing({"qdisc"})
      BY <1>11 DEF EnsureQdisc
    <2>2. Head(todo).op = "qdisc" /\ Command = Head(todo)
      BY <1>1, <2>1, Ready
    <2>3. Qdisc[Head(todo).obj] \in Objects /\ Qdisc[Head(todo).obj] \in {Qdisc.wan, Qdisc.wwan}
      BY <1>1, <2>1, <2>2, Ready, QdiscIs
    <2>4. kern' = [kern EXCEPT ![Qdisc[Head(todo).obj]] = 1]
      BY <1>11, <2>2 DEF EnsureQdisc
    <2>5. \A o \in Objects : o # Qdisc[Head(todo).obj] => kern'[o] = kern[o]
      BY <1>k, <2>3, <2>4
    <2>. QED
      BY <2>3, <2>5 DEF Touches
  <1>12. CASE AttachFilter
    <2>1. Doing({"filter"})
      BY <1>12 DEF AttachFilter
    <2>2. Head(todo).op = "filter" /\ Command = Head(todo) /\ Typed(Head(todo))
      BY <1>1, <2>1, Ready
    <2>3. Head(todo).obj \in AllFilters
      BY <2>2 DEF Typed
    <2>4. kern' = [kern EXCEPT ![Head(todo).obj] = 1]
      BY <1>12, <2>2 DEF AttachFilter
    <2>5. \A o \in Objects : o # Head(todo).obj => kern'[o] = kern[o]
      BY <1>k, <2>4
    <2>. QED
      BY <2>3, <2>5 DEF Touches, Hooks
  <1>. QED
    BY <1>1, <1>2, <1>3, <1>5, <1>6, <1>7, <1>8, <1>9, <1>10, <1>11, <1>12 DEF Next

(* Without iptables none of its objects is there. *)
LEMMA SameHost == [Next]_vars => host' = host
  BY DEF Next, vars, Boot, Restart, Stop, Finish, Kill, Put, Try, Delete, Fault, NoBackend, StartWatch, WatchTick, Build, Open,
         Shut, AttachTCX, EnsureQdisc, AttachFilter, TcFails, Detach, Steady

LEMMA IptApart ==
    /\ IptObjects \cap (Hooks \cup {Qdisc.wan, Qdisc.wwan}) = {} /\ IptObjects \subseteq Objects /\ SkipSet \in IptObjects
    /\ Hooks \cap {Qdisc.wan, Qdisc.wwan} = {}
  BY FilterFacts, JumpFacts DEF IptObjects, Chains, Sets, Rules, LanSet, SkipSet, Objects

(* NoIpt is inductive. *)
LEMMA NoIptStep == Lists /\ NoIpt /\ [Next]_vars => NoIpt'
  <1>1. SUFFICES ASSUME Lists, NoIpt, [Next]_vars, ~host.ipt, NEW o \in IptObjects
                 PROVE  kern'[o] = 0
    BY SameHost DEF NoIpt
  <1>2. kern \in [Objects -> Nat] /\ o \in Objects /\ kern[o] = 0
    BY <1>1, IptApart DEF Lists, TypeInv, NoIpt
  <1>3. CASE todo # <<>> /\ Head(todo).op \in PutOps /\ Head(todo).obj \in Objects /\ kern' = Installed(kern, Head(todo))
    <2>1. Typed(Head(todo))
      BY <1>1, <1>3, Now DEF Lists
    <2>2. Head(todo).obj # o
      BY <1>1, <1>3, <2>1 DEF Typed
    <2>. QED
      BY <1>2, <1>3, <2>2, InstalledIs
  <1>4. CASE Head(todo).obj \in Objects /\ kern' = Deleted(kern, Head(todo).obj)
    <2>1. kern' \in [Objects -> Nat] /\ kern'[o] <= kern[o]
      BY <1>2, <1>4, DeletedIs
    <2>. QED
      BY <1>2, <2>1
  <1>5. CASE \A p \in Objects : kern'[p] # kern[p] => p \in Hooks \cup {Qdisc.wan, Qdisc.wwan}
    BY <1>1, <1>2, <1>5, IptApart
  <1>6. ~watching
    BY <1>1 DEF Lists, JobInv
  <1>. QED
    BY <1>1, <1>2, <1>3, <1>4, <1>5, <1>6, TouchesIs DEF Touches

(* A step that runs one command leaves what is to come before what. *)
Orderly ==
    \A x, y : y.op \in {"delete", "shut"} /\ Before(todo, x, y) =>
        y # Head(todo) /\ (x # Head(todo) => Before(todo', x, y))

LEMMA AdvanceOrderly == Lists /\ Advance => Orderly
  BY TailBefore DEF Orderly, Advance, Lists, TypeInv

(* So does one that adds programs to the list. *)
LEMMA GrowOrderly ==
    ASSUME Lists, NEW L, Programs(L), Grow(L)
    PROVE  Orderly
  <1>1. todo \in Seq(Commands) /\ todo # <<>> /\ todo' = L \o Tail(todo) /\ L \in Seq(Commands) /\ Tail(todo) \in Seq(Commands)
    BY GrowIs DEF Lists, TypeInv, Grow, Programs, Segment
  <1>2. SUFFICES ASSUME NEW x, NEW y, y.op \in {"delete", "shut"}, Before(todo, x, y)
                 PROVE  y # Head(todo) /\ (x # Head(todo) => Before(todo', x, y))
    BY DEF Orderly
  <1>3. y # Head(todo) /\ (x # Head(todo) => Before(Tail(todo), x, y))
    BY <1>1, <1>2, TailBefore
  <1>4. y \notin ToSet(L)
    BY <1>2 DEF Programs
  <1>. QED
    BY <1>1, <1>3, <1>4, JoinBefore

(* Deletions and objects correspond, but for the ingress chain. *)
LEMMA DelOf ==
    /\ \A c, o : Del(c, o).comp = c /\ Del(c, o).op = "delete" /\ Del(c, o).obj = (IF o = Ingress THEN HelperTable ELSE o)
    /\ \A c, x, o : x # Ingress /\ o # Ingress /\ Del(c, x) = Del(c, o) => x = o
    /\ \A c : Shuts(c).comp = c /\ Shuts(c).op = "shut"
    /\ \A c : Shuts(c) = Do(c, "shut", Nowhere)
  BY DoFields DEF Del, Shuts

LEMMA InWayJump == \A x \in Chains : x \notin Jumps
  BY JumpFacts DEF Chains

(* What is gone or going stays so, if the step deletes nothing. *)
LEMMA GonnerKeep ==
    ASSUME Lists, Proceeds, Orderly, Head(todo).op # "delete", NEW c \in Components, NEW o \in Objects,
           kern'[o] = kern[o], \A x \in Waits(o) : kern'[x] = kern[x], Gonner(c, o)
    PROVE  Gonner(c, o)'
  <1>1. CASE kern[o] = 0
    BY <1>1 DEF Gonner
  <1>2. CASE Doomed(c, o)
    <2>1. Del(c, o) \in T' /\ Del(c, o) # Head(todo)
      BY <1>2, DelOf DEF Doomed, Proceeds
    <2>2. \A x \in Waits(o) : InWay(x)' => Before(todo', Del(c, x), Del(c, o))
      <3>1. TAKE x \in Waits(o)
      <3>2. HAVE InWay(x)'
      <3>3. InWay(x)
        BY <3>2 DEF InWay
      <3>4. Before(todo, Del(c, x), Del(c, o)) /\ Del(c, x) # Head(todo)
        BY <1>2, <3>3, DelOf DEF Doomed
      <3>. QED
        BY <3>4, DelOf DEF Orderly
    <2>3. Before(todo, Del(c, o), Shuts(c))
      BY <1>2, DelOf DEF Doomed
    <2>4. Before(todo', Del(c, o), Shuts(c))
      BY <2>1, <2>3, DelOf DEF Orderly
    <2>. QED
      BY <1>2, <2>1, <2>2, <2>4, DelOf DEF Doomed, Gonner
  <1>. QED
    BY <1>1, <1>2 DEF Gonner

(* The head of the list deletes only what nothing is in the way of. *)
LEMMA FreeToGo ==
    ASSUME Lists, Orderly, NEW c \in Components, NEW o \in Objects, Doomed(c, o), Head(todo) = Del(c, o)
    PROVE  ~InUse(kern, o)
  <1>1. \A x \in Waits(o) : ~InWay(x)
    <2>1. SUFFICES ASSUME NEW x \in Waits(o), InWay(x) PROVE FALSE
      OBVIOUS
    <2>2. Before(todo, Del(c, x), Del(c, o))
      BY <2>1 DEF Doomed
    <2>. QED
      BY <2>2, DelOf DEF Orderly
  <1>2. ASSUME o \in Chains, NEW j \in Jumps, JumpTo[j] = o, kern[j] > 0 PROVE FALSE
    BY <1>1, <1>2 DEF Waits, InWay
  <1>3. ASSUME o \in Sets, NEW m \in MatchSets, kern[m] = 2 PROVE FALSE
    BY <1>1, <1>3 DEF Waits, InWay
  <1>. QED
    BY <1>2, <1>3 DEF InUse

(* A deletion takes away what it is for, and only that. *)
LEMMA GonnerDelete ==
    ASSUME Lists, Singles, Advance, Orderly, Head(todo).op = "delete", Head(todo).obj \in Objects,
           kern' = Deleted(kern, Head(todo).obj),
           NEW c \in Components, NEW o \in Owned[c], Gonner(c, o)
    PROVE  Gonner(c, o)'
  <1>1. kern \in [Objects -> Nat] /\ o \in Objects /\ Ingress \in Objects /\ HelperTable \in Objects
    BY ObjectFacts DEF Lists, TypeInv, Components
  <1>2. /\ kern' \in [Objects -> Nat] /\ \A x \in Objects : kern'[x] <= kern[x]
        /\ \A x \in Objects : kern'[x] # kern[x] => x = Head(todo).obj \/ (Head(todo).obj = HelperTable /\ x = Ingress)
    BY <1>1, DeletedIs
  <1>3. T = {Head(todo)} \cup T' /\ Head(todo) \in Commands /\ Typed(Head(todo)) /\ Head(todo).comp \in Components
    BY AdvanceIs, Now DEF Lists, Commands, Advance
  <1>4. Head(todo).obj \in Owned[Head(todo).comp] \ {Ingress} /\ Head(todo) = Do(Head(todo).comp, "delete", Head(todo).obj)
    BY <1>3, DoIs DEF Typed
  <1>5. CASE kern[o] = 0
    <2>1. kern'[o] \in Nat /\ kern'[o] <= 0
      BY <1>1, <1>2, <1>5
    <2>. QED
      BY <2>1 DEF Gonner
  <1>6. CASE kern[o] # 0 /\ Doomed(c, o) /\ Head(todo) = Del(c, o)
    <2>1. ~InUse(kern, o)
      BY <1>1, <1>6, FreeToGo
    <2>2. Head(todo).obj = IF o = Ingress THEN HelperTable ELSE o
      BY <1>6, DelOf
    <2>3. kern[o] > 0
      BY <1>1, <1>6
    <2>4. CASE o = Ingress
      <3>1. kern[HelperTable] > 0
        BY <2>3, <2>4 DEF Singles
      <3>2. Deleted(kern, HelperTable)[Ingress] = 0
        BY <1>1, <3>1, DeletedIs
      <3>. QED
        BY <2>2, <2>4, <3>2 DEF Gonner
    <2>5. CASE o # Ingress
      <3>1. kern' = Deleted(kern, o)
        BY <2>2, <2>5
      <3>2. o \in Tables \cup Chains \cup Sets \cup Routes \cup Jumps \cup Rules \cup Hooks
        BY <1>1, <2>5, ObjectFacts DEF Objects, Hooks
      <3>3. o \in Sets \cup Routes \cup Jumps => kern[o] <= 1
        BY DEF Singles
      <3>4. o \in Rules \cup Hooks => kern[o] <= 1
        BY <1>6 DEF Doomed
      <3>5. (Routes \cup Jumps \cup Rules \cup Hooks) \cap (Chains \cup Sets) = {}
        BY FilterFacts, JumpFacts DEF Routes, Rules, Chains, Sets, LanSet, SkipSet
      <3>6. kern'[o] = 0
        BY <1>1, <2>1, <3>1, <3>2, <3>3, <3>4, <3>5, DeletedIs
      <3>. QED
        BY <3>6 DEF Gonner
    <2>. QED
      BY <2>4, <2>5
  <1>7. CASE kern[o] # 0 /\ Doomed(c, o) /\ Head(todo) # Del(c, o)
    <2>1. Del(c, o) \in T'
      BY <1>3, <1>7 DEF Doomed
    <2>2. \A x \in Waits(o) : InWay(x)' => Before(todo', Del(c, x), Del(c, o))
      <3>1. TAKE x \in Waits(o)
      <3>2. HAVE InWay(x)'
      <3>3. x \in Owned[c] /\ x \in Objects /\ x \in Chains \cup Jumps
        <4>1. x \in Owned[c] \ Hooks
          BY <1>1, WaitFacts
        <4>2. o \in Chains \cup Sets
          BY <1>1, WaitFacts
        <4>. QED
          BY <4>1, <4>2, ObjectFacts, WaitFacts
      <3>4. x # Ingress
        BY <3>3, JumpFacts DEF Chains, Ingress
      <3>5. kern'[x] \in Nat /\ kern[x] \in Nat /\ kern'[x] <= kern[x]
        BY <1>1, <1>2, <3>3
      <3>6. x = Head(todo).obj => x \in Jumps
        <4>1. SUFFICES ASSUME x = Head(todo).obj, x \in Chains PROVE FALSE
          BY <3>3
        <4>2. kern'[x] <= 1
          BY <1>1, <3>3, <4>1, DeletedIs
        <4>3. kern'[x] # 2
          BY <3>5, <4>2
        <4>. QED
          BY <3>2, <4>1, <4>3, InWayJump DEF InWay
      <3>7. x # Head(todo).obj
        <4>1. SUFFICES ASSUME x = Head(todo).obj PROVE FALSE
          OBVIOUS
        <4>2. x \in Jumps /\ kern[x] <= 1
          BY <3>6, <4>1 DEF Singles
        <4>3. x \notin Chains \cup Sets
          BY <4>2, JumpFacts DEF Chains, Sets, LanSet, SkipSet
        <4>4. kern'[x] = 0
          BY <1>1, <3>3, <4>1, <4>2, <4>3, DeletedIs
        <4>. QED
          BY <3>2, <4>4 DEF InWay
      <3>8. kern'[x] = kern[x]
        BY <1>2, <3>3, <3>4, <3>7
      <3>9. Before(todo, Del(c, x), Del(c, o))
        BY <1>7, <3>2, <3>8 DEF InWay, Doomed
      <3>10. Del(c, x) # Head(todo)
        BY <3>4, <3>7, DelOf
      <3>. QED
        BY <3>9, <3>10, DelOf DEF Orderly
    <2>3. Before(todo', Del(c, o), Shuts(c))
      BY <1>7, DelOf DEF Orderly, Doomed
    <2>4. o \in Rules \cup Hooks => kern'[o] <= 1
      <3>1. kern'[o] \in Nat /\ kern[o] \in Nat /\ kern'[o] <= kern[o]
        BY <1>1, <1>2
      <3>. QED
        BY <1>7, <3>1 DEF Doomed
    <2>. QED
      BY <2>1, <2>2, <2>3, <2>4, DelOf DEF Doomed, Gonner
  <1>. QED
    BY <1>5, <1>6, <1>7 DEF Gonner

(* What a component may have in the kernel so that deleting what was
   installed for e is enough. *)
Holds(k, c, e) ==
    \A o \in Cover(c) : /\ k[o] = 0 \/ o \in Removable(c, e) \/ (o = SkipSet /\ ~Tidy)
                        /\ o \in Rules => k[o] <= 1

LEMMA HoldsGonner ==
    \A c \in Components, e \in Configs : Holds(kern, c, e) /\ Sweeps(todo, c, e) => \A o \in Sure(c) : Gonner(c, o)
  <1>1. SUFFICES ASSUME NEW c \in Components, NEW e \in Configs, Holds(kern, c, e), Sweeps(todo, c, e), NEW o \in Sure(c), kern[o] # 0
                 PROVE  Doomed(c, o)
    BY DEF Gonner
  <1>2. o \in Cover(c) /\ o \in Objects /\ o \notin Hooks
    BY CoverIn
  <1>3. o \in Removable(c, e) /\ (o \in Rules => kern[o] <= 1)
    BY <1>1, <1>2 DEF Holds, Sure
  <1>4. Del(c, o) \in T /\ Before(todo, Del(c, o), Shuts(c))
    BY <1>1, <1>3 DEF Sweeps, T
  <1>5. ASSUME NEW x \in Waits(o), InWay(x) PROVE Before(todo, Del(c, x), Del(c, o))
    <2>1. x \in Cover(c) /\ x # SkipSet
      BY <1>2, WaitsCover
    <2>2. kern[x] # 0
      BY <1>5 DEF InWay
    <2>3. x \in Removable(c, e)
      BY <1>1, <2>1, <2>2 DEF Holds
    <2>. QED
      BY <1>1, <1>3, <2>3 DEF Sweeps
  <1>. QED
    BY <1>2, <1>3, <1>4, <1>5, DelOf DEF Doomed

LEMMA HoldsGonnerNext ==
    (\A c \in Components, e \in Configs : Holds(kern, c, e) /\ Sweeps(todo, c, e) => \A o \in Sure(c) : Gonner(c, o))'
  BY HoldsGonner, PTL

(* The commands of an installation. *)
LEMMA CmdsAre ==
    ASSUME type \in Types, NEW c \in Components, NEW d
    PROVE  /\ \A x \in Cmds(c, d) : /\ x \in Commands /\ x.comp = c /\ Typed(x) /\ x.op \in PutOps
                                    /\ x.obj \in Removable(c, d) \cup Kept(c) /\ (x.op = "try" => x.obj \in Optional(d))
           /\ ByBPF(c, d) \/ ~Enabled(c, d) => Cmds(c, d) = {}
  <1>1. SUFFICES ASSUME NEW x \in Cmds(c, d)
                 PROVE  /\ x \in Commands /\ x.comp = c /\ Typed(x) /\ x.op \in PutOps
                        /\ x.obj \in Removable(c, d) \cup Kept(c) /\ (x.op = "try" => x.obj \in Optional(d))
    BY DEF Cmds
  <1>2. ~ByBPF(c, d) /\ Enabled(c, d) /\ Backend(d) # "none" /\ x \in ToSet(Install(c, d)) /\ x.op \in PutOps
    BY <1>1 DEF Cmds
  <1>3. c = "srv" => type # "SOCKS5"
    BY <1>2 DEF Enabled
  <1>4. Provides(Install(c, d), c, d)
    BY <1>2, <1>3, InstallPuts
  <1>5. ToSet(Install(c, d)) \subseteq Commands
    BY <1>4, Within DEF Provides
  <1>. QED
    BY <1>2, <1>4, <1>5 DEF Provides

(* What the commands say of an object. *)
LEMMA LevelIs ==
    ASSUME type \in Types, NEW c \in Components, NEW d, NEW E, E \subseteq Cmds(c, d), NEW o
    PROVE  /\ Level(c, E, o) \in {0, 1, 2}
           /\ Level(c, E, o) # 0 => o \in Removable(c, d) \cup Kept(c)
           /\ o \in Rules \cup Jumps \cup Sets \cup Routes \cup Tables => Level(c, E, o) \in {0, 1}
           /\ Level(c, E, o) = 0 <=> \A op \in PutOps : Do(c, op, o) \notin E
  <1>1. \A op : Do(c, op, o) \in E => o \in Removable(c, d) \cup Kept(c) /\ (op = "fill" => o \in Chains)
    <2>1. TAKE op
    <2>2. HAVE Do(c, op, o) \in E
    <2>3. PICK x \in Cmds(c, d) : x = Do(c, op, o)
      BY <2>2
    <2>4. x.obj = o /\ x.op = op
      BY <2>3, DoFields
    <2>5. x.obj \in Removable(c, d) \cup Kept(c) /\ Typed(x)
      BY CmdsAre
    <2>. QED
      BY <2>4, <2>5 DEF Typed
  <1>2. (Rules \cup Jumps \cup Sets \cup Routes \cup Tables) \cap Chains = {}
    BY JumpFacts DEF Rules, Sets, Chains, Routes, LanSet, SkipSet, Tables
  <1>. QED
    BY <1>1, <1>2 DEF Level, PutOps

(* A component that fits a configuration, has nothing, or has what a
   process that was killed left, holds no more than the cleanup deletes. *)
LEMMA FitHolds ==
    ASSUME TypeInv, NEW c \in Components, NEW d \in Configs, NEW E, E \subseteq Cmds(c, d),
           \A o \in Cover(c) : Fit(c, E, d, o)
    PROVE  Holds(kern, c, d)
  <1>1. SUFFICES ASSUME NEW o \in Cover(c)
                 PROVE  /\ kern[o] = 0 \/ o \in Removable(c, d) \/ (o = SkipSet /\ ~Tidy)
                        /\ o \in Rules => kern[o] <= 1
    BY DEF Holds
  <1>2. type \in Types
    BY DEF TypeInv, Types
  <1>3. Fit(c, E, d, o)
    BY <1>1
  <1>4. SkipSet \notin Rules
    BY DEF SkipSet, Rules
  <1>5. Level(c, E, o) \in {0, 1, 2} /\ (o \in Rules => Level(c, E, o) \in {0, 1})
        /\ (Level(c, E, o) # 0 => o \in Removable(c, d) \cup Kept(c))
    BY <1>2, LevelIs
  <1>6. o \in Kept(c) => o = SkipSet /\ ~Tidy
    BY DEF Kept, Tidy
  <1>. QED
    BY <1>3, <1>4, <1>5, <1>6 DEF Fit

LEMMA ZeroHolds ==
    ASSUME NEW c \in Components, NEW e, \A o \in Sure(c) : kern[o] = 0
    PROVE  Holds(kern, c, e)
  <1>1. SkipSet \notin Rules
    BY DEF SkipSet, Rules
  <1>. QED
    BY <1>1 DEF Holds, Sure

LEMMA SlippedHolds ==
    ASSUME slipped, dirty = {}, NEW c \in Components, NEW d, NEW e, NEW k, Holds(k, c, d)
    PROVE  Holds(k, c, e)
  <1>1. SUFFICES ASSUME NEW o \in Cover(c), o \in Removable(c, d) PROVE o \in Removable(c, e)
    BY DEF Holds
  <1>2. o \notin {"TTL 64", "TTL 65"}
    BY <1>1 DEF Cover, StrayTTL
  <1>3. CASE c = "help"
    <2>1. Removable("help", d) = {HelperTable, Ingress, TtlRule(d.ttl), "IP", "SYN", "QUIC"}
          /\ Removable("help", e) = {HelperTable, Ingress, TtlRule(e.ttl), "IP", "SYN", "QUIC"}
      BY RemovableIs
    <2>2. TtlRule(d.ttl) \in {"TTL 64", "TTL 65"}
      BY TtlIs
    <2>. QED
      BY <1>1, <1>2, <1>3, <2>1, <2>2
  <1>4. CASE c # "help"
    BY <1>1, <1>4, RemovableIs DEF Components
  <1>. QED
    BY <1>3, <1>4

LEMMA DirtyHolds ==
    TypeInv /\ dirty # {} /\ Where => \A c \in Components, e \in Configs : Holds(kern, c, e)
  <1>1. SUFFICES ASSUME TypeInv, dirty # {}, Where, NEW c \in Components, NEW e \in Configs, NEW o \in Cover(c)
                 PROVE  (kern[o] = 0 \/ o \in Removable(c, e)) /\ o \notin Rules
    BY DEF Holds
  <1>2. CASE c = "help"
    <2>1. o \in {HelperTable, Ingress}
      BY <1>1, <1>2 DEF Cover
    <2>. QED
      BY <1>2, <2>1, RemovableIs DEF Rules, HelperTable, Ingress
  <1>3. CASE c = "des"
    <2>1. o \in Owned["des"]
      BY <1>1, <1>3 DEF Cover
    <2>. QED
      BY <1>3, <2>1, RemovableIs, OwnedFacts DEF Rules
  <1>4. CASE c = "srv"
    <2>1. OfType("SOCKS5") = {}
      BY DEF OfType
    <2>2. o \in Owned["srv"]
      BY <1>4, CoverIn
    <2>3. o \notin Rules
      BY <2>2, OwnedFacts DEF Rules
    <2>4. \/ type = "TPROXY" /\ o \in Routes
          \/ type # "SOCKS5" /\ o = "nft UA3F"
          \/ o \in OfType(type) \cap Jumps
          \/ dirty \subseteq {type} /\ o \in SrvChained \ {SkipSet}
      <3>1. Cover("srv") = (IF type = "TPROXY" THEN Routes ELSE {}) \cup (IF type # "SOCKS5" THEN {"nft UA3F"} ELSE {})
                           \cup (OfType(type) \cap Jumps)
                           \cup (IF dirty \subseteq {type} THEN SrvChained \ {SkipSet} ELSE {})
        BY <1>1 DEF Cover
      <3>2. o \in Cover("srv")
        BY <1>4
      <3>3. o \in (IF type = "TPROXY" THEN Routes ELSE {}) \/ o \in (IF type # "SOCKS5" THEN {"nft UA3F"} ELSE {})
            \/ o \in (OfType(type) \cap Jumps) \/ o \in (IF dirty \subseteq {type} THEN SrvChained \ {SkipSet} ELSE {})
        BY <3>1, <3>2 DEF Routes
      <3>. QED
        BY <3>3 DEF Routes
    <2>5. o \in OfType(type) /\ o # SkipSet => o \in Removable("srv", e)
      BY <2>1, RemovableIs
    <2>6. o \in OfType(type) \cap Jumps => o # SkipSet
      BY JumpFacts DEF SkipSet
    <2>7. CASE dirty \subseteq {type} /\ o \in SrvChained \ {SkipSet} /\ kern[o] # 0
      <3>1. kern[o] > 0
        BY <1>1, <2>7, CoverIn DEF TypeInv
      <3>2. Left(o) \/ o \in OfType(type)
        BY <1>1, <2>7, <3>1 DEF Where
      <3>3. o \in OfType(type)
        BY <2>7, <3>2 DEF Left
      <3>. QED
        BY <1>4, <2>3, <2>5, <2>7, <3>3
    <2>. QED
      BY <1>4, <2>3, <2>4, <2>5, <2>6, <2>7, RemovableIs
  <1>. QED
    BY <1>2, <1>3, <1>4 DEF Components

LEMMA DirtyHoldsNext ==
    (TypeInv /\ dirty # {} /\ Where => \A c \in Components, e \in Configs : Holds(kern, c, e))'
  BY DirtyHolds, PTL

(* So does a component at rest. *)
LEMMA RestHolds ==
    ASSUME Lists, dirty = {}, ~Aborting, NEW c \in Components, Rested(c)
    PROVE  Holds(kern, c, cfg[c])
  <1>1. TypeInv /\ cfg[c] \in Configs /\ (failed => slipped)
    BY DEF Lists, TypeInv, JobInv
  <1>2. Fits(c, cfg[c]) \/ (slipped /\ (Zero(c) \/ \E d \in Configs : Fits(c, d)))
    BY <1>1 DEF Rested, Loose
  <1>3. CASE Fits(c, cfg[c])
    BY <1>1, <1>3, FitHolds DEF Fits
  <1>4. CASE Zero(c)
    BY <1>4, ZeroHolds DEF Zero
  <1>5. ASSUME slipped, NEW d \in Configs, Fits(c, d) PROVE Holds(kern, c, cfg[c])
    <2>1. Holds(kern, c, d)
      BY <1>1, <1>5, FitHolds DEF Fits
    <2>. QED
      BY <1>5, <2>1, SlippedHolds
  <1>. QED
    BY <1>2, <1>3, <1>4, <1>5

(* What does not change when the machine, the type and the history do not. *)
Still == UNCHANGED <<host, type, starts, dirty, slipped>> /\ (watching => watching')

LEMMA CmdsSame ==
    ASSUME host' = host, type' = type
    PROVE  \A c \in Components : \A d : /\ Cmds(c, d)' = Cmds(c, d) /\ (Enabled(c, d)' <=> Enabled(c, d))
                                    /\ (ByBPF(c, d)' <=> ByBPF(c, d)) /\ Backend(d)' = Backend(d)
                                    /\ Optional(d)' = Optional(d) /\ Classic(d)' = Classic(d)
  <1>1. TAKE c \in Components
  <1>. TAKE d
  <1>2. /\ (Enabled(c, d)' <=> Enabled(c, d)) /\ (ByBPF(c, d)' <=> ByBPF(c, d)) /\ Backend(d)' = Backend(d)
    BY DEF Enabled, ByBPF, HelperWanted, Components, Backend, SelectNFT, QueueNeeded
  <1>3. Install(c, d)' = Install(c, d)
    <2>1. HelperNft(d)' = HelperNft(d) /\ HelperIpt(d)' = HelperIpt(d) /\ DesyncIpt(d)' = DesyncIpt(d)
          /\ ServerNft' = ServerNft /\ ServerIpt' = ServerIpt /\ DesyncNft' = DesyncNft
      BY DEF HelperNft, HelperIpt, DesyncNft, DesyncIpt, ServerNft, ServerIpt, TproxyNft, RedirectNft,
       NfqueueNft, TproxyIpt, RedirectIpt, NfqueueIpt, IptSets, AddTproxyRoute
    <2>. QED
      BY <1>2, <2>1 DEF Install, Components
  <1>4. Cmds(c, d)' = Cmds(c, d)
    BY <1>2, <1>3 DEF Cmds
  <1>5. Optional(d)' = Optional(d)
    BY <1>2 DEF Optional
  <1>6. Classic(d)' = Classic(d)
    <2>1. eligible' = eligible
      BY DEF eligible
    <2>. QED
      BY <2>1 DEF Classic
  <1>. QED
    BY <1>2, <1>4, <1>5, <1>6

LEMMA CoverSame ==
    ASSUME Still, dirty = {} \/ next' = next
    PROVE  \A c \in Components : Cover(c)' = Cover(c) /\ Sure(c)' \subseteq Sure(c) /\ (~Tidy => ~Tidy')
  <1>1. TAKE c \in Components
  <1>2. Cover(c)' = Cover(c)
    <2>1. CASE dirty = {}
      BY <2>1 DEF Still, Cover, StrayTTL
    <2>2. CASE dirty # {}
      <3>1. OfType(type)' = OfType(type) /\ next' = next /\ type' = type /\ dirty' = dirty
        BY <2>2 DEF Still
      <3>2. CASE c = "help"
        BY <2>2, <3>1, <3>2 DEF Cover
      <3>3. CASE c = "des"
        BY <2>2, <3>1, <3>3 DEF Cover
      <3>4. CASE c = "srv"
        BY <2>2, <3>1, <3>4 DEF Cover, SrvChained
      <3>. QED
        BY <3>2, <3>3, <3>4 DEF Components
    <2>. QED
      BY <2>1, <2>2
  <1>3. ~Tidy => ~Tidy'
    BY DEF Still, Tidy
  <1>. QED
    BY <1>2, <1>3 DEF Sure

LEMMA FitSame ==
    ASSUME Still, dirty = {} \/ next' = next, NEW c \in Components, NEW o \in Cover(c), kern'[o] = kern[o],
           NEW E, NEW d, Fit(c, E, d, o)
    PROVE  Fit(c, E, d, o)'
  <1>1. Optional(d)' = Optional(d) /\ (~Tidy => ~Tidy')
    BY CmdsSame, CoverSame DEF Still
  <1>. QED
    BY <1>1 DEF Fit

LEMMA FitsSame ==
    ASSUME Still, dirty = {} \/ next' = next, NEW c \in Components, \A o \in Cover(c) : kern'[o] = kern[o],
           c = "help" => attached' = attached, NEW d, Fits(c, d)
    PROVE  Fits(c, d)'
  <1>1. Cmds(c, d)' = Cmds(c, d) /\ Classic(d)' = Classic(d)
    BY CmdsSame DEF Still
  <1>2. Cover(c)' = Cover(c)
    BY CoverSame
  <1>3. PICK E : E = Cmds(c, d)
    OBVIOUS
  <1>4. \A o \in Cover(c) : Fit(c, E, d, o)'
    BY <1>3, FitSame DEF Fits
  <1>5. \A o \in Cover(c) : Fit(c, Cmds(c, d), d, o)'
    BY <1>1, <1>3, <1>4 DEF Fit
  <1>6. c = "help" => HookFit(d)'
    BY <1>1 DEF Fits, HookFit
  <1>. QED
    BY <1>2, <1>5, <1>6 DEF Fits

LEMMA ZeroSame ==
    ASSUME Still, dirty = {} \/ next' = next, NEW c \in Components, \A o \in Cover(c) : kern'[o] = kern[o],
           c = "help" => attached' \in {attached, <<>>}, Zero(c)
    PROVE  Zero(c)'
  BY CoverSame, CoverIn DEF Zero

(* A step of one component leaves the stage of the others as it is. *)
LEMMA FrameNames ==
    ASSUME Lists, Proceeds, NEW c \in Components, Head(todo).comp # c
    PROVE  /\ \A x : x.comp = c => (x \in T' <=> x \in T)
           /\ (HasDel(c)' <=> HasDel(c)) /\ (Busy(c)' <=> Busy(c)) /\ Pending(c)' = Pending(c)
           /\ (Shuts(c) \in T' <=> Shuts(c) \in T) /\ (Adopts(c) \in T' <=> Adopts(c) \in T)
           /\ (Plan' <=> Plan) /\ (Aborting' <=> Aborting)
  <1>1. \A x : x.comp = c => (x \in T' <=> x \in T)
    <2>1. ASSUME NEW x, x.comp = c, x \in T' PROVE x \in T
      BY <2>1 DEF Proceeds
    <2>2. ASSUME NEW x, x.comp = c, x \in T PROVE x \in T'
      BY <2>2 DEF Proceeds
    <2>. QED
      BY <2>1, <2>2
  <1>2. (HasDel(c)' <=> HasDel(c)) /\ (Busy(c)' <=> Busy(c))
    BY <1>1 DEF HasDel, Busy
  <1>3. Pending(c)' = Pending(c)
    BY <1>1 DEF Pending
  <1>4. Shuts(c).comp = c /\ Adopts(c).comp = c
    BY DoFields DEF Shuts, Adopts
  <1>5. (Plan' <=> Plan) /\ (Aborting' <=> Aborting)
    BY ProceedsIs DEF Lists
  <1>. QED
    BY <1>1, <1>2, <1>3, <1>4, <1>5

LEMMA RestedSame ==
    ASSUME Still, next' = next, NEW c \in Components, \A o \in Cover(c) : kern'[o] = kern[o],
           c = "help" => attached' = attached, cfg'[c] = cfg[c], Loose(c) => Loose(c)', Done(c)' => Done(c),
           Rested(c)
    PROVE  Rested(c)'
  <1>1. CASE dirty = {}
    <2>1. dirty' = {}
      BY <1>1 DEF Still
    <2>2. CASE Fits(c, cfg[c])
      <3>1. PICK d : d = cfg[c]
        OBVIOUS
      <3>2. Fits(c, d)'
        BY <1>1, <2>2, <3>1, FitsSame
      <3>3. Fits(c, cfg[c])'
        BY <3>1, <3>2 DEF Fits, Fit, HookFit
      <3>. QED
        BY <2>1, <3>3 DEF Rested
    <2>3. CASE Loose(c) /\ Zero(c)
      <3>1. Zero(c)'
        BY <1>1, <2>3, ZeroSame
      <3>. QED
        BY <2>1, <2>3, <3>1 DEF Rested
    <2>4. ASSUME Loose(c), NEW d \in Configs, Fits(c, d) PROVE Rested(c)'
      <3>1. Fits(c, d)'
        BY <1>1, <2>4, FitsSame
      <3>. QED
        BY <2>1, <2>4, <3>1 DEF Rested
    <2>. QED
      BY <1>1, <2>2, <2>3, <2>4 DEF Rested
  <1>2. CASE dirty # {}
    <2>1. dirty' # {}
      BY <1>2 DEF Still
    <2>2. SUFFICES ASSUME Done(c)', Enabled(c, next)' PROVE Fits(c, next)'
      BY <2>1 DEF Rested
    <2>3. PICK d : d = next
      OBVIOUS
    <2>4. Enabled(c, d)' <=> Enabled(c, d)
      BY CmdsSame DEF Still
    <2>5. Enabled(c, next)
      BY <2>2, <2>3, <2>4 DEF Enabled
    <2>6. Fits(c, d)
      BY <1>2, <2>2, <2>3, <2>5 DEF Rested
    <2>7. Fits(c, d)'
      BY <2>6, FitsSame
    <2>. QED
      BY <2>3, <2>7 DEF Fits, Fit, HookFit
  <1>. QED
    BY <1>1, <1>2

(* Nothing fits an installation of which nothing has run. *)
LEMMA EmptyFit ==
    ASSUME type \in Types, Singles, kern \in [Objects -> Nat], NEW c \in Components, NEW d, NEW E, E = {},
           \A o \in Sure(c) : kern[o] = 0
    PROVE  \A o \in Cover(c) : Fit(c, E, d, o)
  <1>1. SUFFICES ASSUME NEW o \in Cover(c) PROVE Fit(c, E, d, o)
    OBVIOUS
  <1>2. Level(c, E, o) = 0
    BY DEF Level
  <1>3. o \notin Sure(c) => o = SkipSet /\ ~Tidy /\ kern[o] \in {0, 1}
    <2>1. o \notin Sure(c) => o = SkipSet /\ ~Tidy
      BY <1>1 DEF Sure
    <2>2. SkipSet \in Sets /\ SkipSet \in Objects
      BY Vacant DEF Sets
    <2>3. kern[SkipSet] \in Nat /\ kern[SkipSet] <= 1
      BY <2>2 DEF Singles
    <2>. QED
      BY <2>1, <2>3
  <1>. QED
    BY <1>2, <1>3 DEF Fit

LEMMA EmptyFitNext ==
    (Lists /\ Singles => \A c \in Components : \A d, E : E = {} /\ (\A o \in Sure(c) : kern[o] = 0) => \A o \in Cover(c) : Fit(c, E, d, o))'
  <1>1. Lists /\ Singles => \A c \in Components : \A d, E : E = {} /\ (\A o \in Sure(c) : kern[o] = 0) => \A o \in Cover(c) : Fit(c, E, d, o)
    BY EmptyFit DEF Lists, TypeInv, Types
  <1>. QED
    BY <1>1, PTL

LEMMA FrameStage ==
    ASSUME Lists, Lists', Singles', Proceeds, Orderly, watching => watching', NEW c \in Components,
           Head(todo).comp # c,
           \A o \in Owned[c] : kern'[o] = kern[o], c = "help" => attached' = attached,
           made \subseteq made', made' \subseteq made \cup {Head(todo).comp}, cfg'[c] = cfg[c], Stage(c)
    PROVE  Stage(c)'
  <1>1. Still /\ next' = next /\ process' = process /\ failed' = failed
    BY DEF Still, Proceeds
  <1>2. /\ \A x : x.comp = c => (x \in T' <=> x \in T)
        /\ (HasDel(c)' <=> HasDel(c)) /\ (Busy(c)' <=> Busy(c)) /\ Pending(c)' = Pending(c)
        /\ (Shuts(c) \in T' <=> Shuts(c) \in T) /\ (Adopts(c) \in T' <=> Adopts(c) \in T)
        /\ (Plan' <=> Plan) /\ (Aborting' <=> Aborting)
    BY FrameNames
  <1>3. Cover(c)' = Cover(c) /\ Sure(c)' \subseteq Sure(c) /\ (~Tidy => ~Tidy')
    BY <1>1, CoverSame
  <1>4. Cover(c) \subseteq Owned[c] /\ Sure(c) \subseteq Cover(c) /\ Cover(c) \subseteq Objects
    BY CoverIn
  <1>5. PICK d : d = next
    OBVIOUS
  <1>6. Cmds(c, next)' = Cmds(c, next) /\ (Enabled(c, next)' <=> Enabled(c, next))
    <2>1. Cmds(c, d)' = Cmds(c, d) /\ (Enabled(c, d)' <=> Enabled(c, d))
      BY <1>1, CmdsSame DEF Still
    <2>. QED
      BY <1>1, <1>5, <2>1, SameCmds DEF Still
  <1>7. SUFFICES ASSUME process \in {"starting", "restarting", "up"}
                 PROVE  Stage(c)'
    BY <1>1 DEF Stage
  <1>8. /\ HasDel(c) => \A o \in Sure(c) : Gonner(c, o)
        /\ Plan /\ (HasDel(c) \/ Shuts(c) \in T) => Pending(c) = Cmds(c, next)
        /\ c \in made /\ ~Under(c) => Rested(c)
        /\ dirty = {} /\ c \notin made => Zero(c)
        /\ Plan /\ Busy(c) /\ ~HasDel(c) => process = "starting" /\ c \notin made /\ Pending(c) = {} /\ Cmds(c, next) = {} /\ ~Enabled(c, next)
    BY <1>7 DEF Stage, Shuts
  <1>9. HasDel(c)' => \A o \in Sure(c)' : Gonner(c, o)'
    <2>1. SUFFICES ASSUME HasDel(c), NEW o \in Sure(c)' PROVE Gonner(c, o)'
      BY <1>2
    <2>2. Gonner(c, o) /\ o \in Owned[c] /\ o \in Objects /\ kern'[o] = kern[o]
      BY <1>3, <1>4, <1>8, <2>1
    <2>3. \A x \in Waits(o) : kern'[x] = kern[x]
      BY <2>2, WaitFacts
    <2>4. CASE Head(todo).op # "delete"
      BY <2>2, <2>3, <2>4, GonnerKeep
    <2>5. CASE Head(todo).op = "delete"
      <3>1. CASE kern[o] = 0
        BY <2>2, <3>1 DEF Gonner
      <3>2. CASE Doomed(c, o)
        <4>1. \A x : Del(c, x) # Head(todo)
          BY DelOf
        <4>2. Del(c, o) \in T'
          BY <1>2, <3>2, DelOf DEF Doomed
        <4>3. \A x \in Waits(o) : InWay(x)' => Before(todo', Del(c, x), Del(c, o))
          BY <2>3, <3>2, <4>1, DelOf DEF InWay, Doomed, Orderly
        <4>4. Before(todo', Del(c, o), Shuts(c))
          BY <3>2, <4>1, DelOf DEF Doomed, Orderly
        <4>. QED
          BY <2>2, <3>2, <4>2, <4>3, <4>4, DelOf DEF Doomed, Gonner
      <3>. QED
        BY <2>2, <3>1, <3>2 DEF Gonner
    <2>. QED
      BY <2>4, <2>5
  <1>10. (Plan /\ (HasDel(c) \/ Shuts(c) \in T) => Pending(c) = Cmds(c, next))'
    BY <1>2, <1>6, <1>8
  <1>11. (Plan /\ Busy(c) /\ ~HasDel(c) /\ Head(todo).comp = c /\ (dirty = {} \/ Enabled(c, next)) => Installing(c))'
    <2>1. SUFFICES ASSUME Plan, Busy(c), ~HasDel(c), dirty = {} \/ Enabled(c, next) PROVE Installing(c)'
      BY <1>1, <1>2, <1>6 DEF Still
    <2>2. c \notin made /\ Pending(c) = {} /\ Cmds(c, next) = {} /\ dirty = {}
      BY <1>8, <2>1
    <2>3. Zero(c)
      BY <1>8, <2>2
    <2>4. \A o \in Sure(c)' : kern'[o] = 0
      BY <1>3, <1>4, <2>3 DEF Zero
    <2>5. Pending(c)' = {} /\ Cmds(c, next)' = {} /\ (Cmds(c, next) \ Pending(c))' = {}
      BY <1>2, <1>6, <2>2
    <2>6. PICK E : E = {}
      OBVIOUS
    <2>7. (\A o \in Cover(c) : Fit(c, E, d, o))'
      BY <2>4, <2>6, EmptyFitNext
    <2>8. (\A o \in Cover(c) : Fit(c, Cmds(c, next) \ Pending(c), next, o))'
      BY <1>1, <1>5, <2>5, <2>6, <2>7 DEF Fit
    <2>. QED
      BY <2>5, <2>8 DEF Installing
  <1>12. (c \in made /\ ~Under(c) => Rested(c))'
    <2>1. SUFFICES ASSUME c \in made', ~Under(c)' PROVE Rested(c)'
      OBVIOUS
    <2>2. c \in made
      BY <2>1
    <2>3. ~Under(c)
      BY <1>2, <2>1 DEF Under
    <2>4. (Loose(c) => Loose(c)') /\ (Done(c)' => Done(c))
      BY <1>1, <1>2 DEF Loose, Done
    <2>. QED
      BY <1>1, <1>4, <1>8, <2>2, <2>3, <2>4, RestedSame
  <1>13. (dirty = {} /\ c \notin made => Zero(c))'
    <2>1. SUFFICES ASSUME dirty = {}, c \notin made PROVE Zero(c)'
      BY <1>1 DEF Still
    <2>. QED
      BY <1>1, <1>4, <1>8, <2>1, ZeroSame
  <1>14. (Plan /\ Busy(c) /\ ~HasDel(c) => process = "starting" /\ c \notin made /\ Pending(c) = {} /\ Cmds(c, next) = {} /\ ~Enabled(c, next))'
    BY <1>1, <1>2, <1>6, <1>8
  <1>. QED
    BY <1>9, <1>10, <1>11, <1>12, <1>13, <1>14 DEF Stage, Shuts

(* When the commands of the helper have run, its programs are what they should be. *)
LEMMA HookDone == Lists /\ Plan /\ ~Booting /\ ~Busy("help") => HookFit(next)
  <1>1. SUFFICES ASSUME Lists, Plan, ~Booting, ~Busy("help") PROVE HookFit(next)
    OBVIOUS
  <1>2. \A x \in T : x.comp = "help" => x.op \in {"boot", "abort"}
    BY <1>1 DEF Busy
  <1>3. \A x \in T : x.op \in {"tcx", "nowan", "qdisc", "filter"} => x.comp = "help"
    BY <1>1 DEF Lists, ListInv, Typed
  <1>4. ~First /\ ~Hooking /\ ~HasDel("help")
    BY <1>2, <1>3 DEF First, Hooking, HasDel
  <1>5. FilterCmds = {} /\ QdiscObjs = {}
    BY <1>4, HookNames DEF Hooking, FilterCmds, QdiscObjs
  <1>6. HookList
    BY <1>1 DEF Lists
  <1>7. CASE UsesBPF
    <2>1. Part
      BY <1>1, <1>4, <1>6, <1>7 DEF HookList
    <2>. QED
      BY <1>5, <1>7, <2>1 DEF Part, HookFit, UsesBPF
  <1>8. CASE ~UsesBPF
    <2>1. attached = <<>>
      BY <1>1, <1>4, <1>6, <1>8 DEF HookList
    <2>. QED
      BY <1>8, <2>1 DEF HookFit, UsesBPF
  <1>. QED
    BY <1>7, <1>8

LEMMA HookDoneNext == (Lists /\ Plan /\ ~Booting /\ ~Busy("help") => HookFit(next))'
  BY HookDone, PTL

(* An installation makes an object once. *)
LEMMA OneMake ==
    ASSUME type \in Types, NEW c \in Components, NEW d, NEW x \in Cmds(c, d), NEW y \in Cmds(c, d),
           x.op \in MakeOps, y.op \in MakeOps, x.obj = y.obj
    PROVE  x = y
  <1>1. ~ByBPF(c, d) /\ Enabled(c, d) /\ Backend(d) # "none" /\ x \in ToSet(Install(c, d)) /\ y \in ToSet(Install(c, d))
    BY DEF Cmds
  <1>2. c = "srv" => type # "SOCKS5"
    BY <1>1 DEF Enabled
  <1>3. Provides(Install(c, d), c, d)
    BY <1>1, <1>2, InstallPuts
  <1>4. PICK L \in Seq(Commands) : L = Install(c, d)
    BY <1>3 DEF Provides
  <1>5. InOrder("starting", L) /\ x.comp = y.comp /\ x.op \in PutOps /\ y.op \in PutOps
    BY <1>1, <1>3, <1>4 DEF Provides
  <1>6. PICK i \in DOMAIN L : L[i] = x
    BY <1>1, <1>4 DEF ToSet
  <1>7. PICK j \in DOMAIN L : L[j] = y
    BY <1>1, <1>4 DEF ToSet
  <1>8. i \in Nat /\ j \in Nat
    BY <1>4, <1>6, <1>7
  <1>9. CASE i < j
    <2>1. Follows("starting", x, y)
      BY <1>5, <1>6, <1>7, <1>9 DEF InOrder
    <2>. QED
      BY <1>5, <2>1 DEF Follows
  <1>10. CASE j < i
    <2>1. Follows("starting", y, x)
      BY <1>5, <1>6, <1>7, <1>10 DEF InOrder
    <2>. QED
      BY <1>5, <2>1 DEF Follows
  <1>. QED
    BY <1>6, <1>7, <1>8, <1>9, <1>10

(* The component whose command runs. *)
LEMMA OwnStage ==
    ASSUME Lists, Lists', Proceeds, watching => watching', NEW c \in Components, c = Head(todo).comp,
           c \in made', Stage(c),
           Plan /\ Busy(c)' => Head(todo').comp = c,
           HasDel(c)' => \A o \in Sure(c)' : Gonner(c, o)',
           HasDel(c)' \/ Shuts(c) \in T' => Pending(c)' = Pending(c) /\ (HasDel(c) \/ Shuts(c) \in T),
           Plan /\ ~HasDel(c)' /\ (dirty = {} \/ Enabled(c, next)) => Installing(c)',
           Aborting /\ ~HasDel(c)' => Rested(c)'
    PROVE  Stage(c)'
  <1>1. Still /\ next' = next /\ process' = process /\ failed' = failed /\ (Plan' <=> Plan) /\ (Aborting' <=> Aborting) /\ ~Booting'
    BY ProceedsIs DEF Still, Proceeds, Lists
  <1>2. CASE process \notin {"starting", "restarting", "up"}
    BY <1>1, <1>2 DEF Stage
  <1>3. CASE process \in {"starting", "restarting", "up"}
    <2>1. process \in {"starting", "restarting"}
      BY <1>3, Now DEF Lists, Proceeds
    <2>2. Plan \/ Aborting
      BY <2>1 DEF Plan
    <2>3. Cmds(c, next)' = Cmds(c, next) /\ (Enabled(c, next)' <=> Enabled(c, next))
      <3>1. PICK d : d = next
        OBVIOUS
      <3>. QED
        BY <1>1, <3>1, CmdsSame, SameCmds DEF Still
    <2>4. (Plan /\ (HasDel(c) \/ Shuts(c) \in T) => Pending(c) = Cmds(c, next))'
      BY <1>1, <1>3, <2>3 DEF Stage, Shuts
    <2>5. HasDel(c)' => Busy(c)'
      BY DEF HasDel, Busy
    <2>6. (c \in made /\ ~Under(c) => Rested(c))'
      <3>1. SUFFICES ASSUME ~Under(c)' PROVE Rested(c)'
        OBVIOUS
      <3>2. CASE Aborting
        BY <1>1, <3>1, <3>2 DEF Under
      <3>3. CASE Plan
        <4>1. ~Busy(c)' /\ ~HasDel(c)' /\ ~Aborting'
          BY <1>1, <2>5, <3>1, <3>3 DEF Under, Plan
        <4>2. Pending(c)' = {}
          <5>1. \A x \in T' : x.comp = c => x.op \notin PutOps
            BY <4>1, OpsApart DEF Busy
          <5>. QED
            BY <5>1 DEF Pending
        <4>3. Adopts(c) \notin T'
          BY <4>1, DoFields DEF Busy, Adopts
        <4>4. cfg'[c] = next
          BY <1>1, <3>3, <4>3 DEF Lists, JobInv
        <4>5. c = "help" => HookFit(next)'
          BY <1>1, <3>3, <4>1, HookDoneNext
        <4>6. ASSUME dirty = {} \/ Enabled(c, next) PROVE Fits(c, next)'
          <5>1. Installing(c)'
            BY <3>3, <4>1, <4>6
          <5>2. (Cmds(c, next) \ Pending(c))' = Cmds(c, next)'
            BY <4>2
          <5>3. (\A o \in Cover(c) : Fit(c, Cmds(c, next), next, o))'
            BY <5>1, <5>2 DEF Installing
          <5>. QED
            BY <4>5, <5>3 DEF Fits
        <4>7. CASE dirty = {}
          <5>1. Fits(c, next)' /\ dirty' = {}
            BY <1>1, <4>6, <4>7 DEF Still
          <5>2. Fits(c, cfg[c])'
            BY <1>1, <4>4, <5>1 DEF Fits, Fit, HookFit
          <5>. QED
            BY <5>1, <5>2 DEF Rested
        <4>8. CASE dirty # {}
          <5>1. Enabled(c, next)' => Fits(c, next)'
            BY <2>3, <4>6
          <5>. QED
            BY <1>1, <4>8, <5>1 DEF Still, Rested
        <4>. QED
          BY <4>7, <4>8
      <3>. QED
        BY <2>2, <3>2, <3>3
    <2>7. (Plan /\ Busy(c) /\ ~HasDel(c) /\ Head(todo).comp = c /\ (dirty = {} \/ Enabled(c, next)) => Installing(c))'
      BY <1>1, <2>3 DEF Still
    <2>8. (Plan /\ Busy(c) /\ ~HasDel(c) /\ Head(todo).comp # c =>
               process = "starting" /\ c \notin made /\ Pending(c) = {} /\ Cmds(c, next) = {} /\ ~Enabled(c, next))'
      BY <1>1
    <2>. QED
      BY <2>4, <2>6, <2>7, <2>8 DEF Stage, Shuts
  <1>. QED
    BY <1>2, <1>3

(* It gets nothing new to do. *)
LEMMA ProceedNames ==
    ASSUME Lists, Proceeds, NEW c
    PROVE  /\ HasDel(c)' => HasDel(c)
           /\ Shuts(c) \in T' => Shuts(c) \in T
           /\ Head(todo).op # "delete" => (HasDel(c) => HasDel(c)')
           /\ Head(todo).op \notin PutOps => Pending(c)' = Pending(c)
           /\ Head(todo) \in T /\ Head(todo) \in Commands /\ Typed(Head(todo)) /\ (Head(todo).comp = c => Busy(c))
           /\ Plan \/ Aborting \/ process = "stopping"
  <1>1. Head(todo) \in T /\ Head(todo) \in Commands /\ Typed(Head(todo)) /\ (Plan \/ Aborting \/ process = "stopping")
    BY Now DEF Lists, Proceeds
  <1>2. Head(todo).comp = c => Busy(c)
    BY <1>1 DEF Busy, Proceeds
  <1>3. Shuts(c) \in T' => Shuts(c) \in T
    BY DelOf DEF Proceeds
  <1>4. HasDel(c)' => HasDel(c)
    BY DEF HasDel, Proceeds
  <1>5. Head(todo).op # "delete" => (HasDel(c) => HasDel(c)')
    BY DEF HasDel, Proceeds
  <1>6. Head(todo).op \notin PutOps => Pending(c)' = Pending(c)
    <2>1. SUFFICES ASSUME Head(todo).op \notin PutOps PROVE Pending(c)' = Pending(c)
      OBVIOUS
    <2>2. ASSUME NEW x, x.op \in PutOps PROVE x \in T' <=> x \in T
      <3>1. x.op \notin {"qdisc", "filter"}
        BY <2>2, OpsApart
      <3>. QED
        BY <2>1, <2>2, <3>1 DEF Proceeds
    <2>. QED
      BY <2>2 DEF Pending
  <1>. QED
    BY <1>1, <1>2, <1>3, <1>4, <1>5, <1>6

(* A command that changes nothing the component answers for. *)
LEMMA QuietOwn ==
    ASSUME Lists, Lists', Proceeds, Orderly, watching => watching', NEW c \in Components,
           c = Head(todo).comp, c \in made', Stage(c),
           Plan /\ Busy(c)' => Head(todo').comp = c, Head(todo).op \notin PutOps \cup {"delete"},
           \A o \in Cover(c) : kern'[o] = kern[o], Aborting => UNCHANGED <<attached, cfg, made>>
    PROVE  Stage(c)'
  <1>1. Still /\ next' = next /\ process' = process /\ failed' = failed /\ (Plan' <=> Plan) /\ (Aborting' <=> Aborting)
    BY ProceedsIs DEF Still, Proceeds, Lists
  <1>2. CASE process \notin {"starting", "restarting", "up"}
    BY <1>1, <1>2 DEF Stage
  <1>3. CASE process \in {"starting", "restarting", "up"}
    <2>1. (HasDel(c)' <=> HasDel(c)) /\ (Shuts(c) \in T' => Shuts(c) \in T) /\ Pending(c)' = Pending(c) /\ Busy(c)
      BY ProceedNames
    <2>2. Cover(c)' = Cover(c) /\ Sure(c)' \subseteq Sure(c)
      BY <1>1, CoverSame
    <2>3. HasDel(c)' => \A o \in Sure(c)' : Gonner(c, o)'
      <3>1. SUFFICES ASSUME HasDel(c), NEW o \in Sure(c)' PROVE Gonner(c, o)'
        BY <2>1
      <3>2. o \in Sure(c) /\ o \in Cover(c) /\ o \in Objects
        BY <2>2, CoverIn
      <3>3. Gonner(c, o)
        BY <1>3, <3>1, <3>2 DEF Stage
      <3>4. \A x \in Waits(o) : kern'[x] = kern[x]
        BY <3>2, WaitsCover
      <3>. QED
        BY <3>2, <3>3, <3>4, GonnerKeep
    <2>4. ASSUME Plan, ~HasDel(c)', dirty = {} \/ Enabled(c, next) PROVE Installing(c)'
      <3>1. Installing(c)
        BY <1>3, <2>1, <2>4 DEF Stage
      <3>2. PICK d : d = next
        OBVIOUS
      <3>3. Cmds(c, next)' = Cmds(c, next)
        <4>1. Cmds(c, d)' = Cmds(c, d)
          BY <1>1, CmdsSame DEF Still
        <4>. QED
          BY <1>1, <3>2, <4>1, SameCmds DEF Still
      <3>4. PICK E : E = Cmds(c, next) \ Pending(c)
        OBVIOUS
      <3>5. \A o \in Cover(c) : Fit(c, E, d, o)'
        <4>1. \A o \in Cover(c) : Fit(c, E, d, o)
          BY <3>1, <3>2, <3>4 DEF Installing
        <4>. QED
          BY <1>1, <4>1, FitSame
      <3>6. (Cmds(c, next) \ Pending(c))' = E
        BY <2>1, <3>3, <3>4
      <3>7. (\A o \in Cover(c) : Fit(c, Cmds(c, next) \ Pending(c), next, o))'
        BY <1>1, <2>2, <3>2, <3>5, <3>6 DEF Fit
      <3>8. \A o \in Objects : Do(c, "fill", o) \in E => \A op \in MakeOps : Do(c, op, o) \notin Pending(c)
        BY <3>1, <3>4 DEF Installing
      <3>. QED
        BY <2>1, <3>1, <3>3, <3>6, <3>7, <3>8 DEF Installing
    <2>5. ASSUME Aborting, ~HasDel(c)' PROVE Rested(c)'
      <3>1. ~Under(c) /\ c \in made
        BY <2>1, <2>5 DEF Under
      <3>2. Rested(c)
        BY <1>3, <3>1 DEF Stage
      <3>3. Loose(c)' /\ ~Done(c)'
        BY <1>1, <2>5 DEF Loose, Done
      <3>. QED
        BY <1>1, <2>5, <3>2, <3>3, RestedSame
    <2>. QED
      BY <2>1, <2>3, <2>4, <2>5, OwnStage
  <1>. QED
    BY <1>2, <1>3

(* A command that puts something into the kernel. *)
LEMMA InstallStep ==
    ASSUME Lists, Lists', Advance, watching => watching', Plan, NEW c \in Components, c = Head(todo).comp,
           Installing(c),
           Head(todo).op \in PutOps,
           kern' = Installed(kern, Head(todo)) \/ (Head(todo).op = "try" /\ kern' = kern),
           kern' = Installed(kern, Head(todo)) /\ Head(todo).op \in {"create", "try"} => kern[Head(todo).obj] = 0
    PROVE  Installing(c)'
  <1>1. Still /\ next' = next /\ type \in Types /\ kern \in [Objects -> Nat] /\ T' = ToSet(Tail(todo))
    BY DEF Still, Advance, Lists, TypeInv, Types, T
  <1>2. PICK h : h = Head(todo)
    OBVIOUS
  <1>3. /\ h \in Commands /\ Typed(h) /\ h \in T /\ T = {h} \cup T'
        /\ \A y \in T' : Follows(process, h, y)
        /\ h \in Cmds(c, next)
    BY <1>1, <1>2, Now DEF Lists, Advance, JobInv
  <1>4. h = Do(c, h.op, h.obj) /\ h.comp = c /\ h.op \in PutOps
    BY <1>2, <1>3, DoIs
  <1>5. h.obj \in Owned[c] /\ h.obj \in Objects
    BY <1>3, <1>4, ObjectFacts DEF Typed
  <1>6. h \notin T'
    <2>1. SUFFICES ASSUME h \in T' PROVE FALSE
      OBVIOUS
    <2>2. Follows(process, h, h)
      BY <1>3, <2>1
    <2>. QED
      BY <1>4, <2>2 DEF Follows, PutOps
  <1>7. PICK d : d = next
    OBVIOUS
  <1>8. PICK C : C = Cmds(c, d)
    OBVIOUS
  <1>9. Cmds(c, next)' = C /\ Cmds(c, next) = C
    <2>1. Cmds(c, d)' = Cmds(c, d)
      BY <1>1, CmdsSame DEF Still
    <2>. QED
      BY <1>1, <1>7, <1>8, <2>1, SameCmds DEF Still
  <1>10. PICK P : P = Pending(c)
    OBVIOUS
  <1>11. Pending(c)' = P \ {h} /\ h \in P /\ h \in C
    <2>1. \A x : x \in T' <=> x \in T /\ x # h
      BY <1>3, <1>6
    <2>2. Pending(c)' = Pending(c) \ {h}
      BY <2>1 DEF Pending
    <2>. QED
      BY <1>3, <1>4, <1>9, <1>10, <2>2 DEF Pending
  <1>12. PICK E : E = C \ P
    OBVIOUS
  <1>13. PICK F : F = E \cup {h}
    OBVIOUS
  <1>14. (Cmds(c, next) \ Pending(c))' = F
    BY <1>9, <1>11, <1>12, <1>13
  <1>15. /\ P \subseteq C
         /\ \A o \in Objects : Do(c, "fill", o) \in E => \A op \in MakeOps : Do(c, op, o) \notin P
         /\ \A o \in Cover(c) : Fit(c, E, d, o)
    BY <1>7, <1>9, <1>10, <1>12 DEF Installing
  <1>16. \A o \in Objects : Do(c, "fill", o) \in F => \A op \in MakeOps : Do(c, op, o) \notin P \ {h}
    <2>1. SUFFICES ASSUME NEW o \in Objects, Do(c, "fill", o) = h, NEW op \in MakeOps, Do(c, op, o) \in Pending(c)' PROVE FALSE
      BY <1>11, <1>13, <1>15
    <2>2. Do(c, op, o) \in T'
      BY <2>1 DEF Pending
    <2>3. PICK y \in T' : y = Do(c, op, o)
      BY <2>2
    <2>4. y.comp = c /\ y.op = op /\ y.obj = o /\ h.op = "fill" /\ h.obj = o
      BY <2>1, <2>3, DoFields
    <2>5. Follows(process, h, y)
      BY <1>3
    <2>. QED
      BY <1>4, <2>1, <2>4, <2>5 DEF Follows
  <1>17. Cover(c)' = Cover(c) /\ Cover(c) \subseteq Objects
    BY <1>1, CoverSame, CoverIn
  <1>18. ASSUME NEW o \in Cover(c) PROVE Fit(c, F, d, o)'
    <2>1. o \in Objects /\ kern[o] \in Nat /\ Fit(c, E, d, o)
      BY <1>1, <1>15, <1>17
    <2>2. CASE o # h.obj
      <3>1. kern'[o] = kern[o]
        BY <1>1, <1>2, <1>5, <2>1, <2>2, InstalledIs
      <3>2. \A op : Do(c, op, o) # h
        BY <2>2, DoFields
      <3>3. Level(c, F, o) = Level(c, E, o)
        BY <1>13, <3>2 DEF Level
      <3>4. Optional(d)' = Optional(d) /\ (~Tidy => ~Tidy')
        BY <1>1, CmdsSame, CoverSame DEF Still
      <3>. QED
        BY <2>1, <3>1, <3>3, <3>4 DEF Fit
    <2>3. CASE o = h.obj /\ h.op = "fill"
      <3>1. kern'[o] = 2
        BY <1>1, <1>2, <1>5, <2>3, InstalledIs
      <3>2. Do(c, "fill", o) \in F
        BY <1>4, <1>13, <2>3
      <3>. QED
        BY <3>1, <3>2 DEF Fit, Level
    <2>4. CASE o = h.obj /\ h.op \in MakeOps
      <3>1. Do(c, "fill", o) \notin E
        BY <1>4, <1>11, <1>15, <2>1, <2>4
      <3>2. Do(c, "fill", o) # h
        BY <2>4, DoFields DEF MakeOps
      <3>3. ASSUME NEW op \in MakeOps, Do(c, op, o) \in E PROVE FALSE
        <4>1. PICK y \in C : y = Do(c, op, o)
          BY <1>12, <3>3
        <4>2. y.op \in MakeOps /\ y.obj = h.obj
          BY <2>4, <3>3, <4>1, DoFields
        <4>3. y = h
          BY <1>1, <1>8, <1>11, <2>4, <4>2, OneMake
        <4>. QED
          BY <1>11, <1>12, <3>3, <4>1, <4>3
      <3>4. Level(c, E, o) = 0 /\ Level(c, F, o) = 1
        <4>1. Level(c, E, o) = 0
          BY <3>1, <3>3 DEF Level
        <4>2. Do(c, h.op, o) \in F /\ Do(c, "fill", o) \notin F
          BY <1>4, <1>13, <2>4, <3>1, <3>2
        <4>. QED
          BY <2>4, <4>1, <4>2 DEF Level
      <3>5. kern[o] = 0 \/ (o = SkipSet /\ kern[o] = 1)
        BY <2>1, <3>4 DEF Fit
      <3>6. o = SkipSet => h.op = "create"
        BY <1>3, <2>4 DEF Typed, MakeOps, SkipSet, Ingress, Jumps, Tables, Rules, JumpTo
      <3>7. CASE kern' = Installed(kern, Head(todo))
        <4>1. kern[o] = 0
          BY <1>2, <2>4, <3>5, <3>6, <3>7
        <4>2. kern'[o] = 1
          BY <1>1, <1>2, <1>5, <2>4, <3>7, <4>1, InstalledIs DEF MakeOps
        <4>. QED
          BY <3>4, <4>2 DEF Fit
      <3>8. CASE h.op = "try" /\ kern' = kern
        <4>1. kern'[o] = 0
          BY <3>5, <3>6, <3>8
        <4>2. o \in Optional(d)
          BY <1>1, <1>8, <1>11, <2>4, <3>8, CmdsAre
        <4>3. Optional(d)' = Optional(d)
          BY <1>1, CmdsSame DEF Still
        <4>. QED
          BY <4>1, <4>2, <4>3 DEF Fit
      <3>. QED
        BY <1>2, <3>7, <3>8
    <2>. QED
      BY <1>4, <2>2, <2>3, <2>4 DEF PutOps
  <1>19. (\A o \in Cover(c) : Fit(c, Cmds(c, next) \ Pending(c), next, o))'
    BY <1>1, <1>7, <1>14, <1>17, <1>18 DEF Fit
  <1>. QED
    BY <1>9, <1>11, <1>14, <1>15, <1>16, <1>19 DEF Installing

(* Its turn is not over before its last command. *)
LEMMA NextHead ==
    ASSUME Lists, Advance, Plan, NEW c \in Components, c = Head(todo).comp, Busy(c)'
    PROVE  Head(todo').comp = c
  <1>1. PICK y \in T' : y.comp = c
    BY DEF Busy
  <1>2. y \in ToSet(Tail(todo))
    BY <1>1 DEF Advance, T
  <1>. QED
    BY <1>1, <1>2, SameRun DEF Lists, Advance

LEMMA PutOwn ==
    ASSUME Lists, Lists', Advance, watching => watching', NEW c \in Components, c = Head(todo).comp,
           c \in made', Stage(c),
           Head(todo).op \in PutOps,
           kern' = Installed(kern, Head(todo)) \/ (Head(todo).op = "try" /\ kern' = kern),
           kern' = Installed(kern, Head(todo)) /\ Head(todo).op \in {"create", "try"} => kern[Head(todo).obj] = 0
    PROVE  Stage(c)'
  <1>1. Proceeds
    BY AdvanceProceeds DEF Lists
  <1>2. Plan
    BY Now, OpsApart DEF Lists, Advance, Plan
  <1>3. \A y \in T' : y.comp = c => y.op \notin {"delete", "shut"}
    <2>1. SUFFICES ASSUME NEW y \in T', y.comp = c PROVE y.op \notin {"delete", "shut"}
      OBVIOUS
    <2>2. Follows(process, Head(todo), y)
      BY <1>2, <2>1, Now DEF Lists, Advance, T
    <2>3. Head(todo).op \in InstallOps
      BY DEF InstallOps
    <2>. QED
      BY <2>1, <2>2, <2>3 DEF Follows
  <1>4. ~HasDel(c)' /\ Shuts(c) \notin T'
    BY <1>3, DelOf DEF HasDel
  <1>5. ~HasDel(c) /\ Busy(c)
    BY <1>1, <1>4, ProceedNames, OpsApart
  <1>6. ~Aborting
    BY <1>2 DEF Plan
  <1>7. dirty = {} \/ Enabled(c, next) => Installing(c)'
    <2>1. SUFFICES ASSUME dirty = {} \/ Enabled(c, next) PROVE Installing(c)'
      OBVIOUS
    <2>2. Installing(c)
      BY <1>2, <1>5, <2>1 DEF Stage, Plan
    <2>. QED
      BY <1>2, <2>2, InstallStep
  <1>. QED
    BY <1>1, <1>2, <1>4, <1>6, <1>7, NextHead, OwnStage

(* A command that deletes something. *)
LEMMA DeleteOwn ==
    ASSUME Lists, Lists', Singles, Singles', Advance, watching => watching', NEW c \in Components,
           c = Head(todo).comp, c \in made', Stage(c),
           Head(todo).op = "delete", kern' = Deleted(kern, Head(todo).obj), Head(todo).obj \in Objects,
           Aborting => UNCHANGED <<attached, cfg, made>>
    PROVE  Stage(c)'
  <1>1. Proceeds /\ Orderly
    BY AdvanceProceeds, AdvanceOrderly DEF Lists
  <1>2. Still /\ next' = next /\ process' = process /\ failed' = failed /\ (Plan' <=> Plan) /\ (Aborting' <=> Aborting)
    BY <1>1, ProceedsIs DEF Still, Proceeds, Lists
  <1>3. CASE process \notin {"starting", "restarting", "up"}
    BY <1>2, <1>3 DEF Stage
  <1>4. CASE process \in {"starting", "restarting", "up"}
    <2>1. HasDel(c) /\ Busy(c) /\ (Shuts(c) \in T' => Shuts(c) \in T) /\ Pending(c)' = Pending(c)
      BY <1>1, ProceedNames, OpsApart DEF HasDel
    <2>2. Cover(c)' = Cover(c) /\ Sure(c)' \subseteq Sure(c)
      BY <1>2, CoverSame
    <2>3. \A o \in Sure(c)' : Gonner(c, o)'
      <3>1. SUFFICES ASSUME NEW o \in Sure(c)' PROVE Gonner(c, o)'
        OBVIOUS
      <3>2. o \in Sure(c) /\ o \in Owned[c]
        BY <2>2, <3>1, CoverIn
      <3>3. Gonner(c, o)
        BY <1>4, <2>1, <3>2 DEF Stage
      <3>. QED
        BY <1>1, <3>2, <3>3, GonnerDelete
    <2>4. ~HasDel(c)' => \A o \in Sure(c)' : kern'[o] = 0
      BY <2>3, DelOf DEF Gonner, Doomed, HasDel
    <2>5. ASSUME Plan, ~HasDel(c)', dirty = {} \/ Enabled(c, next) PROVE Installing(c)'
      <3>1. Pending(c) = Cmds(c, next)
        BY <1>4, <2>1, <2>5 DEF Stage
      <3>2. PICK d : d = next
        OBVIOUS
      <3>3. Cmds(c, next)' = Cmds(c, next)
        <4>1. Cmds(c, d)' = Cmds(c, d)
          BY <1>2, CmdsSame DEF Still
        <4>. QED
          BY <1>2, <3>2, <4>1, SameCmds DEF Still
      <3>4. (Cmds(c, next) \ Pending(c))' = {}
        BY <2>1, <3>1, <3>3
      <3>5. PICK E : E = {}
        OBVIOUS
      <3>6. (\A o \in Cover(c) : Fit(c, E, d, o))'
        BY <2>4, <2>5, <3>5, EmptyFitNext
      <3>7. (\A o \in Cover(c) : Fit(c, Cmds(c, next) \ Pending(c), next, o))'
        BY <1>2, <3>2, <3>4, <3>5, <3>6 DEF Fit
      <3>. QED
        BY <2>1, <3>1, <3>3, <3>4, <3>7 DEF Installing
    <2>6. ASSUME Aborting, ~HasDel(c)' PROVE Rested(c)'
      <3>1. Loose(c)' /\ ~Done(c)'
        BY <1>2, <2>6 DEF Loose, Done
      <3>2. c = "help" => attached' = <<>>
        BY <2>1, <2>6 DEF Lists, HookList
      <3>3. Zero(c)'
        BY <2>4, <2>6, <3>2 DEF Zero
      <3>. QED
        BY <3>1, <3>3 DEF Rested
    <2>. QED
      BY <1>1, <2>1, <2>3, <2>5, <2>6, NextHead, OwnStage
  <1>. QED
    BY <1>3, <1>4

(* What holds when a command of an installation is next. *)
LEMMA InstallNow ==
    ASSUME Lists, Stages, todo # <<>>, Head(todo).op \in InstallOps \cup {"open"}, NEW c \in Components,
           c = Head(todo).comp
    PROVE  /\ Plan /\ ~HasDel(c) /\ Busy(c) /\ c \in made /\ Head(todo) \in T
           /\ dirty = {} \/ Enabled(c, next) => Installing(c)
           /\ Head(todo).op \in PutOps \cup {"fail", "open"} => Enabled(c, next) /\ ~ByBPF(c, next)
           /\ Head(todo).op \in PutOps => Head(todo) \in Cmds(c, next) /\ Head(todo) \in Pending(c)
  <1>1. Head(todo).op \notin {"delete", "detach", "shut", "watch", "adopt", "boot", "abort"}
    BY OpsApart
  <1>2. Plan /\ Head(todo) \in T /\ T = {Head(todo)} \cup ToSet(Tail(todo))
        /\ \A y \in ToSet(Tail(todo)) : Follows(process, Head(todo), y)
    BY <1>1, Now DEF Lists, Plan
  <1>3. ~HasDel(c)
    <2>1. SUFFICES ASSUME NEW y \in T, y.comp = c, y.op = "delete" PROVE FALSE
      BY DEF HasDel
    <2>2. Follows(process, Head(todo), y)
      BY <1>1, <1>2, <2>1
    <2>. QED
      BY <2>1, <2>2 DEF Follows
  <1>4. Busy(c)
    BY <1>1, <1>2 DEF Busy
  <1>5. c \in made
    BY <1>1, <1>2, HeadMade DEF Lists, Plan
  <1>6. dirty = {} \/ Enabled(c, next) => Installing(c)
    BY <1>2, <1>3, <1>4 DEF Stages, Stage, Plan
  <1>7. Head(todo).op \in PutOps \cup {"fail", "open"} => Enabled(c, next) /\ ~ByBPF(c, next)
    BY <1>2 DEF Lists, JobInv
  <1>8. Head(todo).op \in PutOps => Head(todo) \in Cmds(c, next) /\ Head(todo) \in Pending(c)
    BY <1>2 DEF Lists, JobInv, Pending
  <1>. QED
    BY <1>2, <1>3, <1>4, <1>5, <1>6, <1>7, <1>8

(* What an installation is about to make is not there. *)
LEMMA NotYet ==
    ASSUME Lists, Stages, todo # <<>>, Head(todo).op \in MakeOps, NEW c \in Components, c = Head(todo).comp
    PROVE  /\ Level(c, Cmds(c, next) \ Pending(c), Head(todo).obj) = 0
           /\ Head(todo).obj \in Cover(c) => kern[Head(todo).obj] = 0 \/ (Head(todo).obj = SkipSet /\ ~Tidy /\ kern[SkipSet] = 1)
  <1>1. Head(todo).op \in PutOps /\ Head(todo).op \in InstallOps /\ Head(todo).op # "fill"
    BY OpsApart
  <1>2. Installing(c) /\ Head(todo) \in Cmds(c, next) /\ Head(todo) \in Pending(c) /\ type \in Types
    BY <1>1, InstallNow DEF Lists, TypeInv, Types
  <1>3. PICK h : h = Head(todo)
    OBVIOUS
  <1>4. h = Do(c, h.op, h.obj) /\ h.obj \in Objects
    <2>1. h \in Commands /\ Typed(h)
      BY <1>2, <1>3, CmdsAre
    <2>2. h = Do(c, h.op, h.obj)
      BY <1>3, <2>1, DoIs
    <2>. QED
      BY <1>1, <1>3, <2>1, <2>2, ObjectFacts DEF Typed
  <1>5. Do(c, "fill", h.obj) \notin Cmds(c, next) \ Pending(c)
    BY <1>2, <1>3, <1>4 DEF Installing
  <1>6. ASSUME NEW op \in MakeOps, Do(c, op, h.obj) \in Cmds(c, next) \ Pending(c) PROVE FALSE
    <2>1. PICK y \in Cmds(c, next) : y = Do(c, op, h.obj)
      BY <1>6
    <2>2. y.op \in MakeOps /\ y.obj = h.obj
      BY <2>1, DoFields
    <2>3. y = h
      BY <1>2, <1>3, <2>2, OneMake
    <2>. QED
      BY <1>2, <1>3, <1>6, <2>1, <2>3
  <1>7. Level(c, Cmds(c, next) \ Pending(c), h.obj) = 0
    BY <1>5, <1>6 DEF Level
  <1>8. h.obj \in Cover(c) => Fit(c, Cmds(c, next) \ Pending(c), next, h.obj)
    BY <1>2 DEF Installing
  <1>. QED
    BY <1>3, <1>7, <1>8 DEF Fit

(* Objects by kind. *)
LEMMA Kinds ==
    /\ Jumps \subseteq Objects /\ Sets \subseteq Objects /\ Routes \subseteq Objects /\ Ingress \in Objects /\ HelperTable \in Objects
    /\ (Jumps \cup Sets \cup Routes \cup {Ingress, HelperTable}) \cap (Hooks \cup {Qdisc.wan, Qdisc.wwan}) = {}
    /\ (Jumps \cup Sets \cup Routes) \cap (Chains \cup Tables \cup Rules \cup {Ingress}) = {}
    /\ Jumps \cap (Sets \cup Routes) = {} /\ Sets \cap Routes = {} /\ SkipSet \in Sets
    /\ HelperTable # Ingress /\ Ingress # SkipSet /\ HelperTable # SkipSet
    /\ Jumps \cap Owned["help"] = {} /\ HelperTable \notin Chains /\ Ingress \notin Chains
  BY JumpFacts, FilterFacts, OwnedFacts, ZenonT(60)
     DEF Objects, Sets, LanSet, SkipSet, Routes, Ingress, HelperTable, Tables, Chains, Rules

(* Nothing is made twice: an installation has one command for each object,
   and it is not there when the command runs. *)
LEMMA SinglesPut ==
    ASSUME Lists, Singles, Stages, todo # <<>>, Head(todo).op \in PutOps, Head(todo).obj \in Objects,
           Head(todo).op \in {"create", "try"} => kern[Head(todo).obj] = 0,
           kern' = Installed(kern, Head(todo))
    PROVE  Singles'
  <1>1. PICK h : h = Head(todo)
    OBVIOUS
  <1>2. h \in Commands /\ Typed(h) /\ h.comp \in Components /\ kern \in [Objects -> Nat] /\ type \in Types /\ h.op \in InstallOps
    BY <1>1, Now, OpsApart DEF Lists, TypeInv, Types, Commands
  <1>3. /\ kern' \in [Objects -> Nat] /\ \A o \in Objects : o # h.obj => kern'[o] = kern[o]
        /\ kern'[h.obj] = IF h.op = "fill" THEN 2 ELSE IF h.op = "create" THEN 1 ELSE kern[h.obj] + 1
    BY <1>1, <1>2, InstalledIs
  <1>4. h.obj \in Owned[h.comp]
    BY <1>1, <1>2 DEF Typed
  <1>5. Enabled(h.comp, next) /\ ~ByBPF(h.comp, next) /\ Plan /\ Installing(h.comp) /\ h \in Cmds(h.comp, next) /\ h \in Pending(h.comp)
    BY <1>1, <1>2, InstallNow
  <1>6. CASE h.obj \in Jumps
    <2>1. h.op = "put" /\ h.comp # "help"
      BY <1>1, <1>2, <1>4, <1>6, Kinds DEF Typed, PutOps, MakeOps, Ingress, JumpTo, Jumps, Chains, Sets, LanSet, SkipSet
    <2>2. h.obj \in Cover(h.comp)
      <3>1. h.obj \notin StrayTTL \cup Hooks
        BY <1>6, JumpFacts, FilterFacts DEF StrayTTL
      <3>2. h.comp = "srv" => h.obj \in OfType(type)
        BY <1>1, <1>2, <1>6, Kinds DEF Typed, Tables
      <3>3. CASE dirty = {}
        BY <1>4, <3>1, <3>3 DEF Cover
      <3>4. CASE dirty # {} /\ h.comp = "des"
        BY <1>4, <3>4 DEF Cover
      <3>5. CASE dirty # {} /\ h.comp = "srv"
        <4>1. OfType(type) \cap Jumps \subseteq Cover("srv")
          BY <3>5 DEF Cover
        <4>. QED
          BY <1>6, <3>2, <3>5, <4>1
      <3>. QED
        BY <1>2, <2>1, <3>3, <3>4, <3>5 DEF Components
    <2>3. h.op \in MakeOps /\ h.obj # SkipSet
      BY <1>6, <2>1, Kinds DEF MakeOps
    <2>4. kern[h.obj] = 0
      BY <1>1, <1>2, <2>2, <2>3, NotYet
    <2>5. kern'[h.obj] = 1
      BY <1>3, <2>1, <2>4
    <2>. QED
      BY <1>3, <1>6, <2>5, Kinds DEF Singles
  <1>7. CASE h.obj \in Sets
    <2>1. h.op = "create"
      BY <1>1, <1>2, <1>7, Kinds DEF Typed, PutOps, MakeOps, Sets, LanSet, SkipSet, Ingress
    <2>. QED
      BY <1>3, <1>7, <2>1, Kinds DEF Singles
  <1>8. CASE h.obj \in Routes
    <2>1. h.op \in {"create", "try"}
      BY <1>1, <1>2, <1>8, Kinds DEF Typed, PutOps, MakeOps
    <2>2. kern'[h.obj] = 1
      BY <1>1, <1>3, <2>1
    <2>. QED
      BY <1>3, <1>8, <2>2, Kinds DEF Singles
  <1>9. CASE h.obj = Ingress
    <2>1. h.op \in MakeOps /\ h.comp = "help"
      <3>1. h.op # "fill"
        BY <1>2, <1>9, Kinds DEF Typed
      <3>2. h.comp = "help"
        BY <1>2, <1>4, <1>9, ObjectFacts DEF Components
      <3>. QED
        BY <1>1, <3>1, <3>2 DEF PutOps
    <2>2. HelperWanted(next) /\ ~next.bpf
      BY <1>5, <2>1 DEF Enabled, ByBPF
    <2>3. HelperTable \in Cover("help")
      <3>1. HelperTable \in Owned["help"] \ (StrayTTL \cup Hooks)
        BY OwnedFacts, FilterFacts DEF StrayTTL, HelperTable
      <3>. QED
        BY <2>2, <3>1 DEF Cover
    <2>4. h = Do("help", h.op, Ingress) /\ h \in ToSet(Install("help", next))
      BY <1>2, <1>5, <1>9, <2>1, DoIs DEF Cmds
    <2>5. PICK y : y = Do("help", "put", HelperTable)
      OBVIOUS
    <2>6. y \in ToSet(Install("help", next)) /\ y.op = "put" /\ y.comp = "help" /\ y.obj = HelperTable
      BY <2>1, <2>4, <2>5, HelperIngress, DoFields
    <2>7. y \in Cmds("help", next)
      BY <1>5, <2>1, <2>6 DEF Cmds, PutOps, MakeOps
    <2>8. y \notin T
      <3>1. SUFFICES ASSUME y \in T PROVE FALSE
        OBVIOUS
      <3>2. y # h
        BY <1>9, <2>6, Kinds
      <3>3. Follows(process, h, y)
        BY <1>1, <1>5, <3>1, <3>2, Now DEF Lists
      <3>. QED
        BY <1>9, <2>1, <2>6, <3>3 DEF Follows, MakeOps
    <2>9. y \in Cmds("help", next) \ Pending("help")
      BY <2>7, <2>8 DEF Pending
    <2>10. Fit("help", Cmds("help", next) \ Pending("help"), next, HelperTable)
      BY <1>5, <2>1, <2>3 DEF Installing
    <2>11. Level("help", Cmds("help", next) \ Pending("help"), HelperTable) \in {1, 2}
      BY <2>5, <2>9 DEF Level, MakeOps
    <2>12. HelperTable \notin Optional(next)
      BY Kinds DEF Optional, HelperTable
    <2>13. kern[HelperTable] > 0
      BY <2>10, <2>11, <2>12, Kinds DEF Fit
    <2>. QED
      BY <1>3, <1>9, <2>13, Kinds DEF Singles
  <1>10. CASE h.obj \notin Jumps \cup Sets \cup Routes \cup {Ingress}
    <2>1. kern[h.obj] \in Nat /\ kern'[h.obj] > 0
      BY <1>1, <1>2, <1>3
    <2>2. kern[Ingress] > 0 => kern'[HelperTable] > 0
      BY <1>3, <2>1, Kinds DEF Singles
    <2>. QED
      BY <1>3, <1>10, <2>2, Kinds DEF Singles
  <1>. QED
    BY <1>6, <1>7, <1>8, <1>9, <1>10

(* Singles is inductive, given Stages. *)
LEMMA SinglesStep == Lists /\ Singles /\ Stages /\ [Next]_vars => Singles'
  <1>1. SUFFICES ASSUME Lists, Singles, Stages, [Next]_vars PROVE Singles'
    OBVIOUS
  <1>2. kern \in [Objects -> Nat]
    BY <1>1 DEF Lists, TypeInv
  <1>3. CASE UNCHANGED kern
    BY <1>1, <1>3 DEF Singles
  <1>4. CASE \A o \in Objects : kern'[o] # kern[o] => o \in Hooks \cup {Qdisc.wan, Qdisc.wwan}
    <2>1. \A o \in Jumps \cup Sets \cup Routes \cup {Ingress, HelperTable} : kern'[o] = kern[o]
      BY <1>4, Kinds
    <2>. QED
      BY <1>1, <2>1 DEF Singles
  <1>5. CASE kern' = [kern EXCEPT ![SkipSet] = 1]
    <2>1. \A o \in Objects : kern'[o] = IF o = SkipSet THEN 1 ELSE kern[o]
      BY <1>2, <1>5
    <2>. QED
      BY <1>1, <2>1, Kinds DEF Singles
  <1>6. CASE Head(todo).obj \in Objects /\ kern' = Deleted(kern, Head(todo).obj)
    <2>1. PICK o \in Objects : o = Head(todo).obj
      BY <1>6
    <2>2. /\ kern' \in [Objects -> Nat] /\ \A x \in Objects : kern'[x] <= kern[x]
          /\ \A x \in Objects : kern'[x] # kern[x] => x = o \/ (o = HelperTable /\ x = Ingress)
          /\ o = HelperTable /\ kern[o] > 0 => kern'[Ingress] = 0
      BY <1>2, <1>6, <2>1, DeletedIs
    <2>3. \A x \in Objects : kern'[x] \in Nat /\ kern[x] \in Nat
      BY <1>2, <2>2
    <2>4. \A x \in Jumps \cup Sets \cup Routes : kern'[x] <= 1
      BY <1>1, <2>2, <2>3, Kinds DEF Singles
    <2>5. kern'[Ingress] > 0 => kern'[HelperTable] > 0
      <3>1. SUFFICES ASSUME kern'[Ingress] > 0 PROVE kern'[HelperTable] > 0
        OBVIOUS
      <3>2. kern[Ingress] > 0
        BY <2>2, <2>3, <3>1, Kinds
      <3>3. kern[HelperTable] > 0
        BY <1>1, <3>2 DEF Singles
      <3>4. o # HelperTable
        BY <2>2, <3>1, <3>3
      <3>. QED
        BY <2>2, <3>3, <3>4, Kinds
    <2>. QED
      BY <2>4, <2>5 DEF Singles
  <1>. QED
    BY <1>1, <1>3, <1>4, <1>5, <1>6, TouchesIs, SinglesPut DEF Touches

(* Stages survive a step of one component when its own does. *)
LEMMA StagesOf ==
    ASSUME Lists, Lists', Singles', Stages, Proceeds, Orderly, watching => watching', NEW b \in Components,
           b = Head(todo).comp,
           Stage(b)', made \subseteq made', made' \subseteq made \cup {b},
           \A c \in Components \ {b} : cfg'[c] = cfg[c],
           \A c \in Components \ {b} : \A o \in Owned[c] : kern'[o] = kern[o],
           b # "help" => attached' = attached
    PROVE  Stages'
  <1>1. ASSUME NEW c \in Components, c # b PROVE Stage(c)'
    <2>1. Stage(c) /\ cfg'[c] = cfg[c] /\ (\A o \in Owned[c] : kern'[o] = kern[o]) /\ (c = "help" => attached' = attached)
      BY <1>1 DEF Stages
    <2>. QED
      BY <1>1, <2>1, FrameStage
  <1>. QED
    BY <1>1 DEF Stages

(* So does Ending: a step of an orderly end deletes, or leaves the kernel
   alone. *)
LEMMA EndingKeep ==
    ASSUME Lists, Proceeds, Orderly, watching => watching', Head(todo).op # "delete",
           process = "stopping" => kern' = kern, Ending
    PROVE  Ending'
  <1>1. Still /\ next' = next /\ process' = process /\ process \notin {"off", "exited"}
    BY Now DEF Still, Proceeds, Lists
  <1>2. SUFFICES ASSUME process = "stopping", dirty = {}, NEW c \in Components, NEW o \in Sure(c)' PROVE Gonner(c, o)'
    BY <1>1 DEF Ending, Still
  <1>3. o \in Sure(c)
    BY <1>1, CoverSame
  <1>4. Gonner(c, o) /\ o \in Objects
    BY <1>2, <1>3, CoverIn DEF Ending
  <1>. QED
    BY <1>2, <1>4, GonnerKeep

LEMMA EndingDelete ==
    ASSUME Lists, Singles, Advance, watching => watching', Head(todo).op = "delete",
           Head(todo).obj \in Objects,
           kern' = Deleted(kern, Head(todo).obj), Ending
    PROVE  Ending'
  <1>1. Proceeds /\ Orderly
    BY AdvanceProceeds, AdvanceOrderly DEF Lists
  <1>2. Still /\ next' = next /\ process' = process /\ process \notin {"off", "exited"}
    BY <1>1, Now DEF Still, Proceeds, Lists
  <1>3. SUFFICES ASSUME process = "stopping", dirty = {}, NEW c \in Components, NEW o \in Sure(c)' PROVE Gonner(c, o)'
    BY <1>2 DEF Ending, Still
  <1>4. o \in Sure(c)
    BY <1>2, CoverSame
  <1>5. Gonner(c, o) /\ o \in Owned[c]
    BY <1>3, <1>4, CoverIn DEF Ending
  <1>. QED
    BY <1>1, <1>5, GonnerDelete

(* Stages are about processes that are alive. *)
LEMMA NoStages ==
    ASSUME process' \notin {"starting", "restarting", "up"}
    PROVE  Stages'
  BY DEF Stages, Stage

(* The component of the command exists, or the command makes it. *)
LEMMA OwnerMade ==
    ASSUME Lists, Proceeds, process # "stopping", made \subseteq made',
           Head(todo).op = "adopt" => Head(todo).comp \in made'
    PROVE  Head(todo).comp \in made'
  BY HeadMade DEF Lists, Proceeds

(* The steps that run one command. *)
LEMMA RunQuiet ==
    ASSUME Lists, Lists', Singles', Stages, Ending, Proceeds, Orderly, watching => watching',
           \A c \in Components : c = Head(todo).comp /\ Plan /\ Busy(c)' => Head(todo').comp = c,
           Head(todo).op \notin PutOps \cup {"delete"},
           \A c \in Components : (\A o \in Cover(c) : kern'[o] = kern[o]) /\ (c # Head(todo).comp => \A o \in Owned[c] : kern'[o] = kern[o]),
           Aborting \/ process = "stopping" => UNCHANGED <<kern, cfg, made>>, Aborting => UNCHANGED attached,
           Adopting, Head(todo).comp # "help" => attached' = attached
    PROVE  Stages' /\ Ending'
  <1>1. PICK b \in Components : b = Head(todo).comp
    BY Now DEF Lists, Proceeds, Commands
  <1>2. made \subseteq made' /\ made' \subseteq made \cup {b} /\ (\A c \in Components \ {b} : cfg'[c] = cfg[c])
        /\ (Head(todo).op = "adopt" => Head(todo).comp \in made')
    BY <1>1 DEF Adopting, Lists, TypeInv
  <1>3. Ending'
    BY EndingKeep, OpsApart
  <1>4. CASE process = "stopping"
    <2>1. process' = "stopping"
      BY <1>4 DEF Proceeds
    <2>. QED
      BY <1>3, <2>1, NoStages
  <1>5. CASE process # "stopping"
    <2>1. b \in made'
      BY <1>1, <1>2, <1>5, OwnerMade
    <2>2. Stage(b)
      BY DEF Stages
    <2>3. \A o \in Cover(b) : kern'[o] = kern[o]
      OBVIOUS
    <2>7. Aborting => UNCHANGED <<attached, cfg, made>>
      OBVIOUS
    <2>8. Plan /\ Busy(b)' => Head(todo').comp = b
      BY <1>1
    <2>4. Stage(b)'
      BY <1>1, <2>1, <2>2, <2>3, <2>7, <2>8, QuietOwn
    <2>5. \A c \in Components \ {b} : \A o \in Owned[c] : kern'[o] = kern[o]
      BY <1>1
    <2>6. b # "help" => attached' = attached
      BY <1>1
    <2>. QED
      BY <1>1, <1>2, <1>3, <2>4, <2>5, <2>6, StagesOf
  <1>. QED
    BY <1>4, <1>5

(* A command that puts something, and one that deletes something. *)
LEMMA RunPut ==
    ASSUME Lists, Lists', Singles', Stages, Ending, Advance, UNCHANGED <<watching, made, cfg, attached>>,
           Head(todo).op \in PutOps, Head(todo).obj \in Objects,
           kern' = Installed(kern, Head(todo)) \/ (Head(todo).op = "try" /\ kern' = kern),
           kern' = Installed(kern, Head(todo)) /\ Head(todo).op \in {"create", "try"} => kern[Head(todo).obj] = 0
    PROVE  Stages' /\ Ending'
  <1>1. PICK b \in Components : b = Head(todo).comp
    BY Now DEF Lists, Advance, Commands
  <1>2. Proceeds /\ Orderly
    BY AdvanceProceeds, AdvanceOrderly DEF Lists
  <1>3. process \in {"starting", "restarting"} /\ Typed(Head(todo))
    BY Now, OpsApart DEF Lists, Advance
  <1>4. Ending'
    BY <1>2, <1>3, EndingKeep, OpsApart
  <1>5. b \in made'
    BY <1>1, <1>2, <1>3, OwnerMade, OpsApart
  <1>6. Stage(b)'
    BY <1>1, <1>5, PutOwn DEF Stages
  <1>7. \A c \in Components \ {b} : \A o \in Owned[c] : kern'[o] = kern[o]
    <2>1. TAKE c \in Components \ {b}
    <2>2. TAKE o \in Owned[c]
    <2>5. Head(todo).obj \in Owned[b]
      BY <1>1, <1>3 DEF Typed
    <2>3. o \in Objects /\ o # Head(todo).obj
      BY <2>5, ObjectFacts
    <2>4. kern \in [Objects -> Nat]
      BY DEF Lists, TypeInv
    <2>. QED
      BY <2>3, <2>4, InstalledIs
  <1>. QED
    BY <1>1, <1>2, <1>4, <1>6, <1>7, StagesOf

LEMMA RunDelete ==
    ASSUME Lists, Lists', Singles, Singles', Stages, Ending, Advance,
           UNCHANGED <<watching, made, cfg, attached>>,
           Head(todo).op = "delete", Head(todo).obj \in Objects, kern' = Deleted(kern, Head(todo).obj)
    PROVE  Stages' /\ Ending'
  <1>1. PICK b \in Components : b = Head(todo).comp
    BY Now DEF Lists, Advance, Commands
  <1>2. Proceeds /\ Orderly /\ Typed(Head(todo))
    BY AdvanceProceeds, AdvanceOrderly, Now DEF Lists, Advance
  <1>4. Ending'
    BY EndingDelete
  <1>5. CASE process = "stopping"
    <2>1. process' = "stopping"
      BY <1>5 DEF Advance
    <2>. QED
      BY <1>4, <2>1, NoStages
  <1>6. CASE process # "stopping"
    <2>1. b \in made'
      BY <1>1, <1>2, <1>6, OwnerMade
    <2>2. Stage(b)'
      BY <1>1, <2>1, DeleteOwn DEF Stages
    <2>3. \A c \in Components \ {b} : \A o \in Owned[c] : kern'[o] = kern[o]
      <3>1. TAKE c \in Components \ {b}
      <3>2. TAKE o \in Owned[c]
      <3>6. Head(todo).obj \in Owned[b]
        BY <1>1, <1>2 DEF Typed
      <3>3. o \in Objects /\ o # Head(todo).obj
        BY <3>6, ObjectFacts
      <3>4. Head(todo).obj = HelperTable => o # Ingress
        <4>1. SUFFICES ASSUME Head(todo).obj = HelperTable, o = Ingress PROVE FALSE
          OBVIOUS
        <4>2. b = "help" /\ c = "help"
          BY <3>6, <4>1, ObjectFacts DEF Components
        <4>. QED
          BY <3>1, <4>2
      <3>5. kern \in [Objects -> Nat]
        BY DEF Lists, TypeInv
      <3>. QED
        BY <3>3, <3>4, <3>5, DeletedIs
    <2>. QED
      BY <1>1, <1>2, <1>4, <2>2, <2>3, StagesOf
  <1>. QED
    BY <1>5, <1>6

Kernel == Stages /\ Ending

(* Put, Try and Delete when the command succeeds. *)
LEMMA PutStages ==
    Lists /\ Singles /\ Kernel /\ Lists' /\ Singles' /\ Put /\ ~(Command.op = "create" /\ kern[Command.obj] # 0) => Kernel'
  <1>1. SUFFICES ASSUME Lists, Singles, Kernel, Lists', Singles', Put, ~(Command.op = "create" /\ kern[Command.obj] # 0) PROVE Kernel'
    OBVIOUS
  <1>2. Doing({"create", "put", "fill"}) /\ Proceed /\ Steady /\ kern' = Installed(kern, Command)
        /\ UNCHANGED <<cfg, made, attached, watching, dirty>>
    BY <1>1 DEF Put
  <1>3. Advance /\ Command = Head(todo) /\ Head(todo).op \in {"create", "put", "fill"}
    BY <1>1, <1>2, ProceedAdvance, Ready
  <1>4. Head(todo).op \in PutOps
    BY <1>3, OpsApart
  <1>5. Head(todo).obj \in Objects
    BY <1>1, <1>2, <1>4, Ready
  <1>6. Head(todo).op \in {"create", "try"} => kern[Head(todo).obj] = 0
    BY <1>1, <1>3
  <1>. QED
    BY <1>1, <1>2, <1>3, <1>4, <1>5, <1>6, RunPut DEF Kernel

LEMMA TryStages ==
    ASSUME Lists, Singles, Kernel, Lists', Singles', Doing({"try"}), Proceed, Steady,
           UNCHANGED <<cfg, made, attached, watching, dirty>>,
           kern' = kern \/ (kern[Command.obj] = 0 /\ kern' = Installed(kern, Command))
    PROVE  Kernel'
  <1>1. Advance /\ Command = Head(todo) /\ Head(todo).op = "try"
    BY ProceedAdvance, Ready
  <1>2. Head(todo).op \in PutOps
    BY <1>1, OpsApart
  <1>3. Head(todo).obj \in Objects
    BY <1>2, Ready
  <1>4. CASE kern' = kern /\ kern' = Installed(kern, Command)
    <2>1. kern \in [Objects -> Nat]
      BY DEF Lists, TypeInv
    <2>2. kern'[Head(todo).obj] = kern[Head(todo).obj] + 1
      BY <1>1, <1>3, <1>4, <2>1, InstalledIs
    <2>3. kern[Head(todo).obj] \in Nat /\ kern'[Head(todo).obj] = kern[Head(todo).obj]
      BY <1>3, <1>4, <2>1
    <2>4. ASSUME NEW n \in Nat PROVE n # n + 1
      OBVIOUS
    <2>. QED
      BY <2>2, <2>3, <2>4
  <1>5. CASE ~(kern' = kern /\ kern' = Installed(kern, Command))
    <2>1. kern' = Installed(kern, Head(todo)) => kern[Head(todo).obj] = 0
      BY <1>1, <1>5
    <2>. QED
      BY <1>1, <1>2, <1>3, <2>1, RunPut DEF Kernel
  <1>. QED
    BY <1>4, <1>5

LEMMA DeleteStages == Lists /\ Singles /\ Kernel /\ Lists' /\ Singles' /\ Delete => Kernel'
  <1>1. SUFFICES ASSUME Lists, Singles, Kernel, Lists', Singles', Delete PROVE Kernel'
    OBVIOUS
  <1>2. Doing({"delete"}) /\ Proceed /\ Steady /\ kern' = Deleted(kern, Command.obj) /\ UNCHANGED <<cfg, made, attached, watching, dirty>>
    BY <1>1 DEF Delete
  <1>3. Advance /\ Command = Head(todo) /\ Head(todo).op = "delete" /\ Head(todo).obj \in Objects
    BY <1>1, <1>2, ProceedAdvance, Ready
  <1>. QED
    BY <1>1, <1>2, <1>3, RunDelete DEF Kernel

(* The commands that change nothing but hooks. *)
LEMMA QuietAdvance ==
    ASSUME Lists, Singles, Kernel, Lists', Singles', NEW ops, Doing(ops), Proceed, Steady,
           ops \cap (PutOps \cup {"delete", "boot", "abort"}) = {},
           watching => watching', UNCHANGED dirty, Adopting,
           \A o \in Objects : kern'[o] # kern[o] => o \in Hooks,
           Head(todo).op \notin {"tcx", "filter"} => kern' = kern,
           Head(todo).op \notin {"tcx", "filter", "detach"} => attached' = attached
    PROVE  Kernel'
  <1>1. Advance /\ Proceeds /\ Head(todo).op \in ops
    BY ProceedAdvance, Ready
  <1>2. Orderly
    BY <1>1, AdvanceOrderly
  <1>3. \A c \in Components : c = Head(todo).comp /\ Plan /\ Busy(c)' => Head(todo').comp = c
    BY <1>1, NextHead
  <1>4. Head(todo) \in Commands /\ Typed(Head(todo)) /\ (process = "stopping" => Head(todo).op \in {"delete", "detach", "shut", "watch"})
        /\ (Aborting => Head(todo).op \in {"delete", "watch", "abort"})
    BY Now, Ready DEF Lists
  <1>5. Head(todo).op \in {"tcx", "detach", "filter"} => Head(todo).comp = "help"
    BY <1>4 DEF Typed
  <1>6. \A c \in Components : (\A o \in Cover(c) : kern'[o] = kern[o]) /\ (c # Head(todo).comp => \A o \in Owned[c] : kern'[o] = kern[o])
    <2>1. TAKE c \in Components
    <2>2. \A o \in Cover(c) : kern'[o] = kern[o]
      BY CoverIn
    <2>3. ASSUME c # Head(todo).comp, NEW o \in Owned[c] PROVE kern'[o] = kern[o]
      <3>1. CASE Head(todo).op \in {"tcx", "filter"}
        <4>1. c # "help" /\ o \in Objects
          BY <1>5, <2>3, <3>1, ObjectFacts
        <4>2. o \notin Hooks
          BY <2>3, <4>1, ObjectFacts DEF Components
        <4>. QED
          BY <4>1, <4>2
      <3>2. CASE Head(todo).op \notin {"tcx", "filter"}
        BY <3>2
      <3>. QED
        BY <3>1, <3>2
    <2>. QED
      BY <2>2, <2>3
  <1>7. Head(todo).op \notin PutOps \cup {"delete"}
    BY <1>1
  <1>8. Aborting \/ process = "stopping" => UNCHANGED <<kern, cfg, made>>
    BY <1>4 DEF Adopting
  <1>9. Aborting => UNCHANGED attached
    BY <1>4
  <1>10. Head(todo).comp # "help" => attached' = attached
    BY <1>5
  <1>. QED
    BY <1>1, <1>2, <1>3, <1>6, <1>7, <1>8, <1>9, <1>10, RunQuiet DEF Kernel

LEMMA PlainStages ==
    Lists /\ Singles /\ Kernel /\ Lists' /\ Singles' /\ (StartWatch \/ Open \/ Detach \/ AttachFilter) => Kernel'
  <1>1. SUFFICES ASSUME Lists, Singles, Kernel, Lists', Singles', StartWatch \/ Open \/ Detach \/ AttachFilter PROVE Kernel'
    OBVIOUS
  <1>2. CASE StartWatch
    <2>1. Doing({"watch"}) /\ Proceed /\ Steady /\ UNCHANGED <<kern, cfg, made, attached, dirty>> /\ watching'
      BY <1>2 DEF StartWatch
    <2>2. Head(todo).op = "watch" /\ {"watch"} \cap (PutOps \cup {"delete", "boot", "abort"}) = {}
      BY <1>1, <2>1, Ready, OpsApart
    <2>3. Adopting
      BY <2>1, <2>2 DEF Adopting
    <2>. QED
      BY <1>1, <2>1, <2>2, <2>3, QuietAdvance
  <1>3. CASE Open
    <2>1. Doing({"open"}) /\ Proceed /\ Steady /\ UNCHANGED <<kern, cfg, made, attached, dirty, watching>>
      BY <1>3 DEF Open
    <2>2. Head(todo).op = "open" /\ {"open"} \cap (PutOps \cup {"delete", "boot", "abort"}) = {}
      BY <1>1, <2>1, Ready, OpsApart
    <2>3. Adopting
      BY <2>1, <2>2 DEF Adopting
    <2>. QED
      BY <1>1, <2>1, <2>2, <2>3, QuietAdvance
  <1>4. CASE Detach
    <2>1. Doing({"detach"}) /\ Proceed /\ Steady /\ UNCHANGED <<kern, cfg, made, dirty, watching>>
      BY <1>4 DEF Detach
    <2>2. Head(todo).op = "detach" /\ {"detach"} \cap (PutOps \cup {"delete", "boot", "abort"}) = {}
      BY <1>1, <2>1, Ready, OpsApart
    <2>3. Adopting
      BY <2>1, <2>2 DEF Adopting
    <2>. QED
      BY <1>1, <2>1, <2>2, <2>3, QuietAdvance
  <1>5. CASE AttachFilter
    <2>1. Doing({"filter"}) /\ Proceed /\ Steady /\ UNCHANGED <<cfg, made, dirty, watching>> /\ kern' = [kern EXCEPT ![Command.obj] = 1]
      BY <1>5 DEF AttachFilter
    <2>2. Head(todo).op = "filter" /\ {"filter"} \cap (PutOps \cup {"delete", "boot", "abort"}) = {} /\ Command = Head(todo) /\ Typed(Head(todo))
      BY <1>1, <2>1, Ready, OpsApart
    <2>3. Adopting
      BY <2>1, <2>2 DEF Adopting
    <2>4. kern \in [Objects -> Nat] /\ Head(todo).obj \in Hooks
      BY <1>1, <2>2 DEF Lists, TypeInv, Typed, Hooks
    <2>5. \A o \in Objects : kern'[o] # kern[o] => o \in Hooks
      BY <2>1, <2>2, <2>4
    <2>. QED
      BY <1>1, <2>1, <2>2, <2>3, <2>5, QuietAdvance
  <1>. QED
    BY <1>1, <1>2, <1>3, <1>4, <1>5

(* A component gets its configuration; a component is shut; the links are
   attached. *)
LEMMA AdoptStages == Lists /\ Singles /\ Kernel /\ Lists' /\ Singles' /\ Doing({"adopt"}) /\ Build => Kernel'
  <1>1. SUFFICES ASSUME Lists, Singles, Kernel, Lists', Singles', Doing({"adopt"}), Build PROVE Kernel'
    OBVIOUS
  <1>2. Head(todo).op = "adopt" /\ {"adopt"} \cap (PutOps \cup {"delete", "boot", "abort"}) = {} /\ Command = Head(todo)
    BY <1>1, Ready, OpsApart
  <1>3. Proceed /\ Steady /\ UNCHANGED <<kern, attached, watching, dirty>> /\ made' = made \cup {Command.comp} /\ cfg' = [cfg EXCEPT ![Command.comp] = next]
    BY <1>1, <1>2 DEF Build
  <1>4. Adopting
    BY <1>2, <1>3 DEF Adopting
  <1>. QED
    BY <1>1, <1>2, <1>3, <1>4, QuietAdvance

LEMMA ShutStages ==
    ASSUME Lists, Singles, Kernel, Lists', Singles', Doing({"shut"}), Proceed, Steady,
           UNCHANGED <<kern, cfg, made, attached, watching, dirty>>
    PROVE  Kernel'
  <1>2. Head(todo).op = "shut" /\ {"shut"} \cap (PutOps \cup {"delete", "boot", "abort"}) = {}
    BY Ready, OpsApart
  <1>3. Adopting
    BY <1>2 DEF Adopting
  <1>. QED
    BY <1>2, <1>3, QuietAdvance

LEMMA LinksStages ==
    ASSUME Lists, Singles, Kernel, Lists', Singles', Doing({"tcx"}), Proceed, Steady,
           UNCHANGED <<cfg, made, watching, dirty>>,
           kern' = [kern EXCEPT ![Links] = 1]
    PROVE  Kernel'
  <1>2. Head(todo).op = "tcx" /\ {"tcx"} \cap (PutOps \cup {"delete", "boot", "abort"}) = {}
    BY Ready, OpsApart
  <1>3. Adopting
    BY <1>2 DEF Adopting
  <1>4. \A o \in Objects : kern'[o] # kern[o] => o \in Hooks
    BY DEF Lists, TypeInv, Hooks
  <1>. QED
    BY <1>2, <1>3, <1>4, QuietAdvance

(* The programs of one attempt are added to the list. *)
LEMMA GrowStages ==
    ASSUME Lists, Singles, Kernel, Lists', Singles', NEW L, Programs(L), Grow(L),
           \A o \in Objects : kern'[o] # kern[o] => o \in {Qdisc.wan, Qdisc.wwan}
    PROVE  Kernel'
  <1>1. Proceeds /\ Orderly /\ Plan /\ process # "stopping" /\ Head(todo).comp = "help" /\ T' = ToSet(L) \cup ToSet(Tail(todo))
        /\ todo' \in Seq(Commands) /\ L \in Seq(Commands) /\ Tail(todo) \in Seq(Commands)
    BY GrowIs, GrowOrderly DEF Programs, Segment
  <1>2. Head(todo).op \in {"tcx", "qdisc"} /\ todo # <<>> /\ todo' = L \o Tail(todo) /\ UNCHANGED <<made, cfg, attached, watching>>
    BY DEF Grow
  <1>3. \A c \in Components : c = Head(todo).comp /\ Plan /\ Busy(c)' => Head(todo').comp = c
    <2>1. SUFFICES ASSUME Busy("help")' PROVE Head(todo').comp = "help"
      BY <1>1
    <2>2. CASE L = <<>>
      <3>1. todo' = Tail(todo) /\ ToSet(L) = {}
        BY <1>1, <1>2, <2>2, Empty
      <3>2. PICK y \in T' : y.comp = "help"
        BY <2>1 DEF Busy
      <3>3. y \in ToSet(Tail(todo))
        BY <1>1, <3>1, <3>2
      <3>. QED
        BY <1>1, <1>2, <3>1, <3>2, <3>3, SameRun DEF Lists
    <2>3. CASE L # <<>>
      <3>1. Head(L) \in ToSet(L)
        BY <1>1, <2>3, Parts
      <3>2. Head(L).comp = "help"
        BY <3>1 DEF Programs, Segment
      <3>3. Head(L \o Tail(todo)) = Head(L)
        BY <1>1, <2>3, Joined
      <3>. QED
        BY <1>2, <3>2, <3>3
    <2>. QED
      BY <2>2, <2>3
  <1>4. \A c \in Components : (\A o \in Cover(c) : kern'[o] = kern[o]) /\ (c # Head(todo).comp => \A o \in Owned[c] : kern'[o] = kern[o])
    <2>1. TAKE c \in Components
    <2>2. \A o \in Owned[c] : kern'[o] = kern[o]
      BY ObjectFacts
    <2>. QED
      BY <2>2, CoverIn
  <1>5. Head(todo).op \notin PutOps \cup {"delete"}
    BY <1>2, OpsApart
  <1>6. Adopting
    BY <1>2 DEF Adopting
  <1>7. ~Aborting
    BY <1>1 DEF Plan
  <1>. QED
    BY <1>1, <1>2, <1>3, <1>4, <1>5, <1>6, <1>7, RunQuiet DEF Kernel

(* What the component whose command fails has in the kernel. *)
LEMMA EmptyZero ==
    ASSUME NEW c \in Components, NEW d, NEW E, E = {}, \A o \in Cover(c) : Fit(c, E, d, o)
    PROVE  \A o \in Sure(c) : kern[o] = 0
  <1>1. TAKE o \in Sure(c)
  <1>2. Fit(c, E, d, o) /\ o \in Cover(c)
    BY CoverIn
  <1>3. Level(c, E, o) = 0
    BY DEF Level
  <1>4. o # SkipSet \/ Tidy
    BY DEF Sure
  <1>. QED
    BY <1>2, <1>3, <1>4 DEF Fit

LEMMA InstallingHolds ==
    ASSUME Lists, NEW c \in Components, Installing(c)
    PROVE  Holds(kern, c, next)
  <1>1. PICK E : E = Cmds(c, next) \ Pending(c)
    OBVIOUS
  <1>2. TypeInv /\ next \in Configs
    BY DEF Lists, TypeInv
  <1>3. E \subseteq Cmds(c, next) /\ \A o \in Cover(c) : Fit(c, E, next, o)
    BY <1>1 DEF Installing
  <1>. QED
    BY <1>2, <1>3, FitHolds

LEMMA QuitHolds ==
    ASSUME Lists, Stages, Where, todo # <<>>, Head(todo).op \in InstallOps \cup {"open"},
           NEW c \in Components, c = Head(todo).comp
    PROVE  Holds(kern, c, next)
  <1>1. CASE dirty = {}
    BY <1>1, InstallNow, InstallingHolds
  <1>2. CASE dirty # {}
    BY <1>2, DirtyHolds DEF Lists, TypeInv
  <1>. QED
    BY <1>1, <1>2

LEMMA PartHolds ==
    ASSUME Lists, Stages, Where, todo # <<>>, Head(todo).op \in {"create", "put", "fill"},
           Head(todo).obj \in Objects, NEW c \in Components, c = Head(todo).comp,
           Partly(Head(todo)), kern' = Installed(kern, Head(todo))
    PROVE  Holds(kern', c, next) /\ \A o \in Objects : kern'[o] # kern[o] => o \in Owned[c]
  <1>1. Head(todo).op \in PutOps /\ kern \in [Objects -> Nat] /\ type \in Types
    BY OpsApart DEF Lists, TypeInv, Types
  <1>2. Holds(kern, c, next)
    BY <1>1, QuitHolds DEF InstallOps
  <1>3. Head(todo) \in Cmds(c, next)
    BY <1>1, InstallNow DEF InstallOps
  <1>4. Head(todo).obj \in Removable(c, next) \cup Kept(c) /\ Typed(Head(todo))
    BY <1>1, <1>3, CmdsAre
  <1>5. \A o \in Objects : o # Head(todo).obj => kern'[o] = kern[o]
    BY <1>1, InstalledIs
  <1>6. Head(todo).obj \in Owned[c]
    BY <1>1, <1>4 DEF Typed
  <1>7. Head(todo).obj \notin Rules
    <2>1. Head(todo).obj \in Chains \cup Sets
      BY <1>4 DEF Partly, Typed
    <2>. QED
      BY <2>1 DEF Chains, Sets, Rules, LanSet, SkipSet
  <1>8. ASSUME NEW o \in Cover(c) PROVE /\ kern'[o] = 0 \/ o \in Removable(c, next) \/ (o = SkipSet /\ ~Tidy)
                                        /\ o \in Rules => kern'[o] <= 1
    <2>1. o \in Objects
      BY CoverIn
    <2>2. CASE o # Head(todo).obj
      BY <1>2, <1>5, <2>1, <2>2 DEF Holds
    <2>3. CASE o = Head(todo).obj
      <3>1. o \in Removable(c, next) \/ o \in Kept(c)
        BY <1>4, <2>3
      <3>2. o \in Kept(c) => o = SkipSet /\ ~Tidy
        BY DEF Kept, Tidy
      <3>. QED
        BY <1>7, <2>3, <3>1, <3>2
    <2>. QED
      BY <2>2, <2>3
  <1>. QED
    BY <1>5, <1>6, <1>8 DEF Holds

(* Holds depends on nothing else. *)
LEMMA HoldsSame ==
    ASSUME Still, dirty = {} \/ next' = next, NEW c \in Components, NEW e, Holds(kern', c, e)
    PROVE  Holds(kern, c, e)'
  <1>1. Cover(c)' = Cover(c) /\ (~Tidy => ~Tidy')
    BY CoverSame
  <1>2. Removable(c, e)' = Removable(c, e)
    <2>1. type' = type
      BY DEF Still
    <2>. QED
      BY <2>1 DEF Removable, OfType
  <1>. QED
    BY <1>1, <1>2 DEF Holds

(* A helper that uses BPF has no rules. *)
LEMMA QuitHooks ==
    ASSUME Lists, Stages, todo # <<>>, Head(todo).op \in {"tcx", "nowan", "qdisc", "filter"}
    PROVE  /\ \A o \in Sure("help") : kern[o] = 0
           /\ Head(todo).op \in {"tcx", "nowan"} => attached = <<>>
           /\ Head(todo).comp = "help"
  <1>1. Head(todo) \in T /\ Typed(Head(todo)) /\ Head(todo).op \in InstallOps
    BY Now, OpsApart DEF Lists
  <1>2. Head(todo).comp = "help" /\ "help" \in Components
    BY <1>1 DEF Typed, Components
  <1>3. First \/ Hooking
    BY <1>1 DEF First, Hooking
  <1>4. HookList /\ UsesBPF
    BY <1>3 DEF Lists, HookList
  <1>5. Plan /\ ~HasDel("help") /\ (dirty = {} => Installing("help"))
    BY <1>1, <1>2, InstallNow
  <1>6. Head(todo).op \in {"tcx", "nowan"} => attached = <<>>
    <2>1. Head(todo).op \in {"tcx", "nowan"} => First
      BY <1>1 DEF First
    <2>. QED
      BY <1>4, <1>5, <2>1 DEF HookList
  <1>7. CASE dirty = {}
    <2>1. ByBPF("help", next)
      BY <1>4 DEF UsesBPF, ByBPF
    <2>2. Cmds("help", next) = {}
      BY <2>1 DEF Cmds
    <2>3. PICK E : E = Cmds("help", next) \ Pending("help")
      OBVIOUS
    <2>4. E = {} /\ \A o \in Cover("help") : Fit("help", E, next, o)
      BY <1>5, <1>7, <2>2, <2>3 DEF Installing
    <2>. QED
      BY <1>2, <1>6, <2>4, EmptyZero
  <1>8. CASE dirty # {}
    <2>1. Cover("help") = {}
      BY <1>4, <1>8 DEF Cover, UsesBPF
    <2>2. Sure("help") = {}
      BY <1>2, <2>1, CoverIn
    <2>. QED
      BY <1>2, <1>6, <2>2
  <1>. QED
    BY <1>7, <1>8

(* A component that opens its sockets is installed; one that has been shut
   has nothing. *)
LEMMA QuitOpen ==
    ASSUME Lists, Stages, todo # <<>>, Head(todo).op = "open", NEW c \in Components, c = Head(todo).comp
    PROVE  Fits(c, next)
  <1>1. Plan /\ ~HasDel(c) /\ Enabled(c, next) /\ ~ByBPF(c, next) /\ Installing(c)
    BY InstallNow
  <1>2. Head(todo) \in T /\ T = {Head(todo)} \cup ToSet(Tail(todo)) /\ \A y \in ToSet(Tail(todo)) : Follows(process, Head(todo), y)
    BY <1>1, Now DEF Lists
  <1>3. Pending(c) = {}
    <2>1. \A y \in ToSet(Tail(todo)) : y.comp = c => y.op \notin PutOps
      BY <1>2 DEF Follows, InstallOps
    <2>. QED
      BY <1>2, <2>1, OpsApart DEF Pending
  <1>4. \A o \in Cover(c) : Fit(c, Cmds(c, next), next, o)
    <2>1. Cmds(c, next) \ Pending(c) = Cmds(c, next)
      BY <1>3
    <2>. QED
      BY <1>1, <2>1 DEF Installing
  <1>5. c = "help" => HookFit(next)
    <2>1. HAVE c = "help"
    <2>2. ~UsesBPF
      BY <1>1, <2>1 DEF UsesBPF, ByBPF
    <2>3. attached = <<>>
      BY <1>1, <2>1, <2>2 DEF Lists, HookList
    <2>. QED
      BY <2>2, <2>3 DEF HookFit, UsesBPF
  <1>. QED
    BY <1>4, <1>5 DEF Fits

LEMMA QuitShut ==
    ASSUME Lists, Stages, todo # <<>>, Head(todo).op = "shut", Plan, NEW c \in Components,
           c = Head(todo).comp, dirty = {}
    PROVE  Zero(c)
  <1>1. Head(todo) \in T /\ Head(todo) \in Commands /\ Typed(Head(todo))
    BY Now DEF Lists
  <1>2. Head(todo) = Shuts(c)
    <2>1. Head(todo) = Do(Head(todo).comp, Head(todo).op, Head(todo).obj) /\ Head(todo).obj = Nowhere
      BY <1>1, DoIs DEF Typed
    <2>. QED
      BY <2>1 DEF Shuts
  <1>3. Stage(c) /\ process \in {"starting", "restarting"} /\ HookList
    BY DEF Stages, Plan, Lists
  <1>4. \A x : ~Before(todo, x, Shuts(c))
    <2>1. todo \in Seq(Commands)
      BY DEF Lists, TypeInv
    <2>. QED
      BY <1>2, <2>1, TailBefore
  <1>5. CASE HasDel(c)
    <2>1. \A o \in Sure(c) : Gonner(c, o)
      BY <1>3, <1>5 DEF Stage
    <2>2. \A o \in Sure(c) : kern[o] = 0
      BY <1>4, <2>1 DEF Gonner, Doomed, Shuts
    <2>3. c = "help" => attached = <<>>
      BY <1>3, <1>4, <1>5 DEF HookList, Shuts
    <2>. QED
      BY <2>2, <2>3 DEF Zero
  <1>6. CASE ~HasDel(c)
    <2>1. Pending(c) = Cmds(c, next)
      BY <1>1, <1>2, <1>3 DEF Stage, Shuts
    <2>2. Busy(c)
      BY <1>1, OpsApart DEF Busy
    <2>3. Installing(c)
      BY <1>3, <1>6, <2>2 DEF Stage
    <2>4. PICK E : E = Cmds(c, next) \ Pending(c)
      OBVIOUS
    <2>5. E = {} /\ \A o \in Cover(c) : Fit(c, E, next, o)
      BY <2>1, <2>3, <2>4 DEF Installing
    <2>6. \A o \in Sure(c) : kern[o] = 0
      BY <2>5, EmptyZero
    <2>7. c = "help" => attached = <<>>
      BY <1>1, <1>2, <1>3, <1>6 DEF HookList, Shuts
    <2>. QED
      BY <2>6, <2>7 DEF Zero
  <1>. QED
    BY <1>5, <1>6

(* A step in which a command fails: the list U undoes what the component
   has done. *)
Mess(U) ==
    LET b == Head(todo).comp IN
    /\ Quits(U) /\ Head(todo).op \in InstallOps \cup {"open", "shut"} /\ (watching => watching')
    /\ \A o \in Objects : kern'[o] # kern[o] => o \in Owned[b]
    /\ Head(todo).op \in PutOps \cup {"fail"} => Sweeps(U, b, next) /\ Holds(kern', b, next) /\ attached' = attached
    /\ Head(todo).op \notin PutOps => kern' = kern
    /\ Head(todo).op \in {"open", "shut", "tcx", "nowan"} => U = <<>> /\ attached' = attached
    /\ Head(todo).op \in {"qdisc", "filter"} => attached' = <<>>

(* What such a step leaves alone. *)
LEMMA MessIs ==
    ASSUME Lists, Stages, NEW U, Mess(U), NEW b, b = Head(todo).comp
    PROVE  /\ b \in Components /\ b \in made /\ Plan /\ todo # <<>> /\ process \in {"starting", "restarting"}
           /\ Still /\ next' = next /\ UNCHANGED <<made, cfg, failed>> /\ Lists
           /\ U \in Seq(Commands) /\ \A x \in ToSet(U) : x.comp = b /\ x.op \in {"delete", "watch"}
           /\ b # "help" => attached' = attached
           /\ \A c \in Components \ {b} : c \in made => Rested(c)
           /\ \A c \in Components \ {b} : \A o \in Cover(c) : kern'[o] = kern[o]
           /\ Head(todo).op \in InstallOps \cup {"open", "shut"}
  <1>1. Quits(U) /\ (watching => watching') /\ Head(todo).op \in InstallOps \cup {"open", "shut"}
        /\ \A o \in Objects : kern'[o] # kern[o] => o \in Owned[b]
    BY DEF Mess
  <1>2. /\ Plan /\ Head(todo) \in Commands /\ Head(todo).comp \in made
        /\ U \in Seq(Commands) /\ (\A x \in ToSet(U) : x.comp = Head(todo).comp /\ Typed(x) /\ x.op \in {"delete", "watch"})
        /\ failed' = failed /\ slipped' = slipped
    BY <1>1, QuitsIs
  <1>3. todo # <<>> /\ UNCHANGED <<host, type, next, starts, made, cfg, watching, dirty>>
    BY <1>1 DEF Quits
  <1>4. b \in Components /\ process \in {"starting", "restarting"}
    BY <1>2 DEF Commands, Plan
  <1>5. b # "help" => attached' = attached
    <2>1. HAVE b # "help"
    <2>2. Typed(Head(todo))
      BY <1>3, Now DEF Lists
    <2>3. Head(todo).op \notin {"qdisc", "filter"}
      BY <2>1, <2>2 DEF Typed
    <2>. QED
      BY <1>1, <2>3, OpsApart DEF Mess
  <1>6. \A c \in Components \ {b} : c \in made => Rested(c)
    <2>1. TAKE c \in Components \ {b}
    <2>2. Stage(c) /\ ~Under(c)
      BY <1>2 DEF Stages, Under, Plan
    <2>. QED
      BY <1>4, <2>2 DEF Stage
  <1>7. \A c \in Components \ {b} : \A o \in Cover(c) : kern'[o] = kern[o]
    <2>1. TAKE c \in Components \ {b}
    <2>2. TAKE o \in Cover(c)
    <2>3. o \in Objects /\ o \in Owned[c]
      BY CoverIn
    <2>4. o \notin Owned[b]
      BY <1>4, <2>3, ObjectFacts
    <2>. QED
      BY <1>1, <2>3, <2>4
  <1>. QED
    BY <1>1, <1>2, <1>3, <1>4, <1>5, <1>6, <1>7 DEF Still

LEMMA MessOps ==
    ASSUME NEW op \in InstallOps \cup {"open", "shut"}
    PROVE  op \in PutOps \cup {"fail"} \/ op \in {"tcx", "nowan", "qdisc", "filter"} \/ op = "open" \/ op = "shut"
  BY OpsApart

(* A restart: the list says what is still swept. *)
LEMMA MessRestart ==
    ASSUME Lists, Stages, Where, Lists', NEW U, Mess(U), process = "restarting"
    PROVE  Stages'
  <1>1. PICK b : b = Head(todo).comp
    OBVIOUS
  <1>2. /\ b \in Components /\ b \in made /\ Plan /\ todo # <<>>
        /\ Still /\ next' = next /\ UNCHANGED <<made, cfg, failed>>
        /\ U \in Seq(Commands) /\ (\A x \in ToSet(U) : x.comp = b /\ x.op \in {"delete", "watch"})
        /\ (b # "help" => attached' = attached)
        /\ (\A c \in Components \ {b} : c \in made => Rested(c))
        /\ (\A c \in Components \ {b} : \A o \in Cover(c) : kern'[o] = kern[o])
        /\ Head(todo).op \in InstallOps \cup {"open", "shut"}
    BY <1>1, MessIs
  <1>3. Quits(U)
    BY DEF Mess
  <1>4. Aborting' /\ T' = ToSet(U) \cup {Aborts} /\ Aborts.op = "abort" /\ ~Plan' /\ todo' \in Seq(Commands)
    BY <1>3, QuitRestart DEF Plan, Aborting
  <1>5. todo' = U \o <<Aborts>> /\ Aborts \in Commands
    BY <1>3, QuitsIs, SingleTypes DEF Aborts
  <1>6. \A c \in Components : Cover(c)' = Cover(c) /\ Sure(c)' \subseteq Sure(c)
    BY <1>2, CoverSame
  <1>7. ASSUME NEW c \in Components \ {b} PROVE Stage(c)'
    <2>1. ~HasDel(c)' /\ ~Under(c)'
      <3>1. ~HasDel(c)'
        BY <1>2, <1>4, <1>7 DEF HasDel
      <3>. QED
        BY <1>4, <3>1 DEF Under
    <2>2. c = "help" => attached' = attached
      BY <1>2, <1>7
    <2>3. c \in made => Rested(c)'
      <3>1. HAVE c \in made
      <3>2. Loose(c)'
        BY <1>4 DEF Loose
      <3>3. ~Done(c)'
        BY <1>4 DEF Done
      <3>. QED
        BY <1>2, <1>7, <2>2, <3>1, <3>2, <3>3, RestedSame
    <2>4. dirty' = {} /\ c \notin made' => Zero(c)'
      <3>1. HAVE dirty' = {} /\ c \notin made'
      <3>2. Zero(c)
        BY <1>2, <3>1 DEF Stages, Stage, Still, Plan
      <3>. QED
        BY <1>2, <1>7, <2>2, <3>2, ZeroSame
    <2>. QED
      BY <1>2, <1>4, <2>1, <2>3, <2>4 DEF Stage
  <1>8. Head(todo).op \in {"open", "shut", "tcx", "nowan"} => ~HasDel(b)'
    <2>1. HAVE Head(todo).op \in {"open", "shut", "tcx", "nowan"}
    <2>2. ToSet(U) = {}
      BY <2>1, Empty DEF Mess
    <2>. QED
      BY <1>4, <2>2 DEF HasDel
  <1>9. CASE Head(todo).op \in PutOps \cup {"fail"}
    <2>1. Sweeps(U, b, next) /\ Holds(kern', b, next)
      BY <1>1, <1>9 DEF Mess
    <2>2. Holds(kern, b, next)'
      BY <1>2, <2>1, HoldsSame
    <2>3. Sweeps(todo', b, next)
      <3>1. <<Aborts>> \in Seq(Commands)
        BY <1>5, One
      <3>2. PICK V \in Seq(Commands) : V = <<Aborts>>
        BY <3>1
      <3>3. U \o V = todo'
        BY <1>5, <3>2
      <3>. QED
        BY <1>2, <2>1, <3>3, SweepsJoin
    <2>4. (Sweeps(todo, b, next))'
      <3>1. Removable(b, next)' = Removable(b, next)
        BY <1>2 DEF Still, Removable, OfType
      <3>. QED
        BY <1>2, <2>3, <3>1 DEF Sweeps, Del, Shuts, Before, Do, Waits
    <2>5. (\A o \in Sure(b) : Gonner(b, o))'
      <3>1. next \in Configs
        BY DEF Lists, TypeInv
      <3>2. PICK e \in Configs : e = next /\ e = next'
        BY <1>2, <3>1
      <3>3. Holds(kern, b, e)' /\ Sweeps(todo, b, e)'
        BY <2>2, <2>4, <3>2 DEF Holds, Sweeps, Removable
      <3>. QED
        BY <1>2, <3>3, HoldsGonnerNext
    <2>6. HasDel(b)'
      <3>1. Enabled(b, next)
        BY <1>1, <1>2, <1>9, InstallNow DEF InstallOps
      <3>2. PICK o \in Removable(b, next) : TRUE
        BY <1>2, <3>1, Nonempty
      <3>3. Del(b, o) \in ToSet(U) /\ Del(b, o).comp = b /\ Del(b, o).op = "delete"
        BY <2>1, <3>2, DelIs DEF Sweeps
      <3>. QED
        BY <1>4, <3>3 DEF HasDel
    <2>7. Stage(b)'
      BY <1>2, <1>4, <2>5, <2>6 DEF Stage, Under
    <2>. QED
      BY <1>7, <2>7 DEF Stages
  <1>10. CASE Head(todo).op \in {"tcx", "nowan", "qdisc", "filter"}
    <2>1. kern' = kern /\ b = "help" /\ (\A o \in Sure("help") : kern[o] = 0) /\ attached' = <<>>
      BY <1>1, <1>2, <1>10, QuitHooks, OpsApart DEF Mess
    <2>2. \A o \in Sure(b)' : kern'[o] = 0
      BY <1>2, <1>6, <2>1
    <2>3. Zero(b)'
      BY <2>1, <2>2 DEF Zero
    <2>4. \A o \in Sure(b)' : Gonner(b, o)'
      BY <2>2 DEF Gonner
    <2>5. Rested(b)'
      BY <1>4, <2>3 DEF Rested, Loose, Done
    <2>6. Stage(b)'
      BY <1>2, <1>4, <2>4, <2>5 DEF Stage
    <2>. QED
      BY <1>7, <2>6 DEF Stages
  <1>11. CASE Head(todo).op \in {"open", "shut"}
    <2>1. kern' = kern /\ attached' = attached /\ ~HasDel(b)'
      BY <1>8, <1>11, OpsApart DEF Mess
    <2>2. dirty = {} => Rested(b)'
      <3>1. HAVE dirty = {}
      <3>2. CASE Head(todo).op = "open"
        <4>1. Fits(b, next)
          BY <1>1, <1>2, <3>2, QuitOpen
        <4>2. next \in Configs
          BY DEF Lists, TypeInv
        <4>3. PICK e \in Configs : e = next
          BY <4>2
        <4>4. Fits(b, e)
          BY <4>1, <4>3 DEF Fits
        <4>5. Fits(b, e)'
          BY <1>2, <2>1, <3>1, <4>4, FitsSame
        <4>. QED
          BY <1>2, <1>4, <3>1, <4>5 DEF Rested, Loose, Still
      <3>3. CASE Head(todo).op = "shut"
        <4>1. Zero(b)
          BY <1>1, <1>2, <3>1, <3>3, QuitShut
        <4>2. Zero(b)'
          BY <1>2, <2>1, <3>1, <4>1, ZeroSame
        <4>. QED
          BY <1>2, <1>4, <3>1, <4>2 DEF Rested, Loose, Still
      <3>. QED
        BY <1>11, <3>2, <3>3
    <2>3. Rested(b)'
      BY <1>2, <1>4, <2>2 DEF Rested, Done, Still
    <2>4. Stage(b)'
      BY <1>2, <1>4, <2>1, <2>3 DEF Stage
    <2>. QED
      BY <1>7, <2>4 DEF Stages
  <1>. QED
    BY <1>2, <1>9, <1>10, <1>11, MessOps

(* A list that sweeps what the component has put into the kernel. *)
LEMMA SweptNext ==
    ASSUME Still, dirty = {} \/ next' = next, NEW c \in Components, NEW e \in Configs, Holds(kern', c, e),
           Sweeps(todo', c, e)
    PROVE  \A o \in Sure(c)' : Gonner(c, o)'
  <1>1. Holds(kern, c, e)'
    BY HoldsSame
  <1>2. (Sweeps(todo, c, e))'
    <2>1. Removable(c, e)' = Removable(c, e)
      BY DEF Still, Removable, OfType
    <2>. QED
      BY <2>1 DEF Sweeps, Del, Shuts, Before, Do, Waits
  <1>. QED
    BY <1>1, <1>2, HoldsGonnerNext

(* What is not there is gone. *)
LEMMA ZeroNext ==
    ASSUME Still, dirty = {} \/ next' = next, NEW c \in Components, \A o \in Sure(c) : kern'[o] = 0
    PROVE  \A o \in Sure(c)' : Gonner(c, o)'
  BY CoverSame DEF Gonner

(* What CloseSystem finds. *)
LEMMA CloseSwept ==
    ASSUME Lists, Still, dirty = {}, ~Aborting, NEW U \in Seq(Commands), todo' = U \o CloseSystem,
           NEW c \in Components, \A x \in ToSet(U) : x.comp # c, c \in made, Rested(c),
           \A o \in Cover(c) : kern'[o] = kern[o]
    PROVE  \A o \in Sure(c)' : Gonner(c, o)'
  <1>1. Holds(kern, c, cfg[c]) /\ cfg[c] \in Configs /\ type \in Types /\ attached \in Seq(Hooks)
    BY RestHolds DEF Lists, TypeInv, Types
  <1>2. Holds(kern', c, cfg[c])
    BY <1>1 DEF Holds
  <1>3. CloseSystem \in Seq(Commands) /\ Sweeps(CloseSystem, c, cfg[c])
    BY <1>1, CloseFacts
  <1>4. (\A o \in Removable(c, cfg[c]) : Del(c, o) \notin ToSet(U)) /\ Shuts(c) \notin ToSet(U)
    BY DelOf
  <1>5. PICK V \in Seq(Commands) : V = CloseSystem
    BY <1>3
  <1>6. Sweeps(U \o V, c, cfg[c])
    BY <1>3, <1>4, <1>5, SweepsJoin
  <1>7. Sweeps(todo', c, cfg[c])
    BY <1>5, <1>6
  <1>. QED
    BY <1>1, <1>2, <1>7, SweptNext

(* A start that fails: CloseSystem sweeps the others. *)
LEMMA MessStart ==
    ASSUME Lists, Stages, Where, Lists', NEW U, Mess(U), process = "starting"
    PROVE  Stages' /\ Ending'
  <1>1. PICK b : b = Head(todo).comp
    OBVIOUS
  <1>2. /\ b \in Components /\ b \in made /\ Plan /\ todo # <<>>
        /\ Still /\ next' = next /\ UNCHANGED <<made, cfg, failed>>
        /\ U \in Seq(Commands) /\ (\A x \in ToSet(U) : x.comp = b /\ x.op \in {"delete", "watch"})
        /\ (b # "help" => attached' = attached)
        /\ (\A c \in Components \ {b} : c \in made => Rested(c))
        /\ (\A c \in Components \ {b} : \A o \in Cover(c) : kern'[o] = kern[o])
        /\ Head(todo).op \in InstallOps \cup {"open", "shut"}
    BY <1>1, MessIs
  <1>3. Quits(U)
    BY DEF Mess
  <1>4. process' = "stopping" /\ todo' = U \o CloseSystem
    BY <1>3, QuitsIs
  <1>5. Stages'
    BY <1>4, NoStages
  <1>6. ASSUME dirty = {} PROVE \A c \in Components : \A o \in Sure(c)' : Gonner(c, o)'
    <2>1. ~Aborting /\ next \in Configs /\ type \in Types /\ attached \in Seq(Hooks)
      BY <1>2 DEF Plan, Lists, TypeInv, Types
    <2>2. ASSUME NEW c \in Components \ {b}, c \in made PROVE \A o \in Sure(c)' : Gonner(c, o)'
      <3>1. \A x \in ToSet(U) : x.comp # c
        BY <1>2, <2>2
      <3>. QED
        BY <1>2, <1>4, <1>6, <2>1, <2>2, <3>1, CloseSwept
    <2>3. ASSUME NEW c \in Components \ {b}, c \notin made PROVE \A o \in Sure(c)' : Gonner(c, o)'
      <3>1. Zero(c)
        BY <1>2, <1>6, <2>3 DEF Stages, Stage, Plan
      <3>2. \A o \in Sure(c) : kern'[o] = 0
        BY <1>2, <3>1, CoverIn DEF Zero
      <3>. QED
        BY <1>2, <3>2, ZeroNext
    <2>4. cfg[b] = next
      <3>1. Head(todo).op \notin {"boot", "abort", "adopt"}
        BY <1>2, OpsApart
      <3>2. Adopts(b) \notin T
        BY <1>1, <1>2, <3>1, HeadMade DEF Lists
      <3>. QED
        BY <1>2, <3>2 DEF Lists, JobInv
    <2>5. CloseSystem \in Seq(Commands) /\ Sweeps(CloseSystem, b, next)
      BY <1>2, <2>1, <2>4, CloseFacts
    <2>6. PICK V \in Seq(Commands) : V = CloseSystem
      BY <2>5
    <2>7. \A o \in Sure(b)' : Gonner(b, o)'
      <3>1. CASE Head(todo).op \in PutOps \cup {"fail"}
        <4>1. Sweeps(U, b, next) /\ Holds(kern', b, next)
          BY <1>1, <3>1 DEF Mess
        <4>2. Sweeps(U \o V, b, next)
          BY <1>2, <4>1, SweepsJoin
        <4>3. Sweeps(todo', b, next)
          BY <1>4, <2>6, <4>2
        <4>. QED
          BY <1>2, <2>1, <4>1, <4>3, SweptNext
      <3>2. CASE Head(todo).op \in {"tcx", "nowan", "qdisc", "filter"}
        <4>1. b = "help" /\ (\A o \in Sure("help") : kern[o] = 0) /\ kern' = kern
          BY <1>1, <1>2, <3>2, QuitHooks, OpsApart DEF Mess
        <4>. QED
          BY <1>2, <4>1, ZeroNext
      <3>3. CASE Head(todo).op \in {"open", "shut"}
        <4>1. kern' = kern /\ U = <<>>
          BY <3>3, OpsApart DEF Mess
        <4>2. Sweeps(todo', b, next)
          <5>1. U \o V = todo'
            BY <1>4, <2>6
          <5>2. (\A o \in Removable(b, next) : Del(b, o) \notin ToSet(U)) /\ Shuts(b) \notin ToSet(U)
            BY <4>1, Empty
          <5>. QED
            BY <1>2, <2>5, <2>6, <5>1, <5>2, SweepsJoin
        <4>3. Head(todo).op = "open"
          <5>1. Head(todo).op # "shut"
            BY <1>3 DEF Quits
          <5>. QED
            BY <3>3, <5>1
        <4>4. Holds(kern, b, next)
          BY <1>1, <1>2, <4>3, QuitHolds
        <4>. QED
          BY <1>2, <2>1, <4>1, <4>2, <4>4, SweptNext
      <3>. QED
        BY <1>2, <3>1, <3>2, <3>3, MessOps
    <2>. QED
      BY <2>2, <2>3, <2>7
  <1>7. Ending'
    BY <1>2, <1>4, <1>6 DEF Ending, Still
  <1>. QED
    BY <1>5, <1>7

(* An error leaves every component in a stage. *)
LEMMA MessKernel ==
    ASSUME Lists, Stages, Ending, Where, Lists', NEW U, Mess(U)
    PROVE  Kernel'
  <1>1. process \in {"starting", "restarting"} /\ todo # <<>> /\ Lists /\ Plan
    BY MessIs
  <1>2. CASE process = "starting"
    BY <1>2, MessStart DEF Kernel
  <1>3. CASE process = "restarting"
    <2>1. Quits(U)
      BY DEF Mess
    <2>2. process' = "restarting"
      BY <1>3, <2>1, QuitsIs
    <2>3. Ending'
      BY <2>2 DEF Ending
    <2>. QED
      BY <1>3, <2>3, MessRestart DEF Kernel
  <1>. QED
    BY <1>1, <1>2, <1>3

(* The steps that end in an error. *)
LEMMA SetupMess ==
    ASSUME Lists, Stages, Where, todo # <<>>, Head(todo).op \in {"create", "put", "fill", "fail"},
           SetupFails(Head(todo)),
           UNCHANGED <<host, type, next, starts, made, cfg, watching, dirty, attached>>,
           kern' = kern \/ (Head(todo).op # "fail" /\ Head(todo).obj \in Objects /\ Partly(Head(todo)) /\ kern' = Installed(kern, Head(todo)))
    PROVE  \E U : Mess(U)
  <1>. DEFINE b == Head(todo).comp
              U == Watch(b, next) \o Cleanup(b, next)
  <1>1. Quits(U) /\ Sweeps(U, b, next)
    BY SetupQuits, OpsApart
  <1>2. Head(todo) \in Commands /\ b \in Components /\ Head(todo).op \in PutOps \cup {"fail"} /\ Head(todo).op \in InstallOps
    <2>1. Head(todo) \in Commands
      BY Now DEF Lists
    <2>. QED
      BY <2>1, OpsApart DEF Commands
  <1>3. Holds(kern', b, next) /\ \A o \in Objects : kern'[o] # kern[o] => o \in Owned[b]
    <2>1. CASE kern' = kern
      BY <1>2, <2>1, QuitHolds
    <2>2. CASE kern' # kern
      BY <1>2, <2>2, PartHolds
    <2>. QED
      BY <2>1, <2>2
  <1>4. Head(todo).op \notin PutOps => kern' = kern
    BY OpsApart
  <1>. HIDE DEF U
  <1>. WITNESS U
  <1>. QED
    BY <1>1, <1>2, <1>3, <1>4 DEF Mess

LEMMA BareMess ==
    ASSUME Lists, todo # <<>>, Head(todo).op \in {"open", "shut", "nowan"}, GiveUp(<<>>),
           Head(todo).op = "shut" => process = "restarting",
           UNCHANGED <<host, type, next, starts, made, cfg, watching, dirty, attached, kern>>
    PROVE  Mess(<<>>)
  <1>1. Quits(<<>>)
    BY BareQuits
  <1>. QED
    BY <1>1, OpsApart DEF Mess

LEMMA ClassicMess ==
    ASSUME Lists, todo # <<>>, Head(todo).op \in {"qdisc", "filter"}, ClassicFails,
           UNCHANGED <<host, type, next, starts, made, cfg, watching, dirty, kern>>
    PROVE  Mess(DoAll("help", "delete", attached))
  <1>1. Quits(DoAll("help", "delete", attached))
    BY ClassicQuits
  <1>2. attached' = <<>>
    BY DEF ClassicFails
  <1>3. PICK U : U = DoAll("help", "delete", attached)
    OBVIOUS
  <1>. QED
    BY <1>1, <1>2, <1>3, OpsApart DEF Mess

(* The steps that end in an error. *)
LEMMA PutMess ==
    ASSUME Lists, Stages, Where, Put, Command.op = "create" /\ kern[Command.obj] # 0
    PROVE  \E U : Mess(U)
  <1>1. Doing({"create", "put", "fill"}) /\ Steady /\ UNCHANGED <<kern, cfg, made, attached, watching, dirty>> /\ SetupFails(Command)
    BY DEF Put
  <1>2. Command = Head(todo) /\ todo # <<>> /\ Head(todo).op \in {"create", "put", "fill"}
    BY <1>1, Ready
  <1>3. UNCHANGED <<host, type, next, starts, made, cfg, watching, dirty, attached>>
    BY <1>1 DEF Steady
  <1>. QED
    BY <1>1, <1>2, <1>3, SetupMess

LEMMA FaultMess ==
    ASSUME Lists, Stages, Where, Fault, Command.op # "try"
    PROVE  \E U : Mess(U)
  <1>1. /\ Doing({"create", "put", "fill", "try", "open"}) /\ Steady /\ UNCHANGED <<cfg, made, chan, attached, watching, dirty>>
        /\ Command = Head(todo) /\ todo # <<>> /\ Head(todo).op \in {"create", "put", "fill", "try", "open"}
    BY Ready DEF Fault
  <1>2. UNCHANGED <<host, type, next, starts, made, cfg, watching, dirty, attached>>
    BY <1>1 DEF Steady
  <1>3. CASE Head(todo).op = "open"
    <2>1. GiveUp(<<>>) /\ UNCHANGED kern
      BY <1>1, <1>3 DEF Fault
    <2>. QED
      BY <1>1, <1>2, <1>3, <2>1, BareMess
  <1>4. CASE Head(todo).op \in {"create", "put", "fill"}
    <2>1. SetupFails(Head(todo)) /\ (kern' = kern \/ (Partly(Head(todo)) /\ kern' = Installed(kern, Head(todo))))
      BY <1>1, <1>4 DEF Fault
    <2>2. Head(todo).obj \in Objects
      BY <1>1, <1>4, Ready, OpsApart
    <2>. QED
      BY <1>1, <1>2, <1>4, <2>1, <2>2, SetupMess
  <1>. QED
    BY <1>1, <1>3, <1>4

LEMMA NoBackendMess ==
    ASSUME Lists, Stages, Where, NoBackend
    PROVE  \E U : Mess(U)
  <1>1. Doing({"fail"}) /\ SetupFails(Command) /\ Steady /\ UNCHANGED <<kern, cfg, made, attached, watching, dirty>>
    BY DEF NoBackend
  <1>2. Command = Head(todo) /\ todo # <<>> /\ Head(todo).op = "fail"
    BY <1>1, Ready
  <1>3. UNCHANGED <<host, type, next, starts, made, cfg, watching, dirty, attached>>
    BY <1>1 DEF Steady
  <1>. QED
    BY <1>1, <1>2, <1>3, SetupMess

LEMMA TcFailsMess ==
    ASSUME Lists, TcFails
    PROVE  \E U : Mess(U)
  <1>1. Doing({"filter", "qdisc", "nowan"}) /\ Steady /\ UNCHANGED <<kern, cfg, made, chan, watching, dirty>>
    BY DEF TcFails, Doing
  <1>2. Command = Head(todo) /\ todo # <<>>
    BY <1>1, Ready
  <1>3. UNCHANGED <<host, type, next, starts, made, cfg, watching, dirty, kern>>
    BY <1>1 DEF Steady
  <1>4. CASE Doing({"filter", "qdisc"}) /\ ClassicFails
    <2>1. Head(todo).op \in {"qdisc", "filter"}
      BY <1>2, <1>4 DEF Doing
    <2>. QED
      BY <1>2, <1>3, <1>4, <2>1, ClassicMess
  <1>5. CASE Doing({"nowan"}) /\ GiveUp(<<>>) /\ UNCHANGED attached
    <2>1. Head(todo).op = "nowan"
      BY <1>2, <1>5 DEF Doing
    <2>. QED
      BY <1>2, <1>3, <1>5, <2>1, BareMess
  <1>. QED
    BY <1>4, <1>5 DEF TcFails, Doing

(* The end of nfqServer.Close or of listener.Close. *)
LEMMA ShutIs ==
    ASSUME Lists, Shut
    PROVE  \/ Doing({"shut"}) /\ Proceed /\ Steady /\ UNCHANGED <<kern, cfg, made, attached, watching, dirty>>
           \/ Mess(<<>>)
           \/ Killed /\ Running /\ UNCHANGED <<host, type, next, cfg, made, starts, failures>>
  <1>1. /\ Doing({"shut"}) /\ Steady /\ UNCHANGED <<cfg, made, faults>>
        /\ Command = Head(todo) /\ Head(todo).op = "shut" /\ todo # <<>> /\ Running
    BY Ready DEF Shut
  <1>2. CASE Proceed /\ UNCHANGED <<kern, attached, watching, blocked, dirty>>
    BY <1>1, <1>2
  <1>3. CASE process = "restarting" /\ GiveUp(<<>>) /\ UNCHANGED <<kern, attached, watching, blocked, dirty>>
    <2>1. UNCHANGED <<host, type, next, starts, made, cfg, watching, dirty, attached, kern>>
      BY <1>1, <1>3 DEF Steady
    <2>. QED
      BY <1>1, <1>3, <2>1, BareMess
  <1>4. CASE Killed /\ UNCHANGED failures
    BY <1>1, <1>4 DEF Steady
  <1>. QED
    BY <1>1, <1>2, <1>3, <1>4 DEF Shut

(* The steps that may end in an error, whether they do or not. *)
LEMMA PutKernel ==
    Lists /\ Singles /\ Kernel /\ Where /\ Lists' /\ Singles' /\ Put => Kernel'
  <1>1. SUFFICES ASSUME Lists, Singles, Kernel, Where, Lists', Singles', Put PROVE Kernel'
    OBVIOUS
  <1>2. CASE ~(Command.op = "create" /\ kern[Command.obj] # 0)
    BY <1>1, <1>2, PutStages
  <1>3. CASE Command.op = "create" /\ kern[Command.obj] # 0
    BY <1>1, <1>3, PutMess, MessKernel DEF Kernel
  <1>. QED
    BY <1>2, <1>3

LEMMA TryKernel == Lists /\ Singles /\ Kernel /\ Lists' /\ Singles' /\ Try => Kernel'
  <1>1. SUFFICES ASSUME Lists, Singles, Kernel, Lists', Singles', Try PROVE Kernel'
    OBVIOUS
  <1>2. Doing({"try"}) /\ Proceed /\ Steady /\ UNCHANGED <<cfg, made, attached, watching, dirty>>
        /\ kern' = IF kern[Command.obj] # 0 THEN kern ELSE Installed(kern, Command)
    BY <1>1 DEF Try
  <1>. QED
    BY <1>1, <1>2, TryStages

LEMMA FaultKernel ==
    Lists /\ Singles /\ Kernel /\ Where /\ Lists' /\ Singles' /\ Fault => Kernel'
  <1>1. SUFFICES ASSUME Lists, Singles, Kernel, Where, Lists', Singles', Fault PROVE Kernel'
    OBVIOUS
  <1>2. CASE Command.op = "try"
    <2>1. Proceed /\ UNCHANGED <<kern, cfg, made, attached, watching, dirty>> /\ Doing({"try"}) /\ Steady
      BY <1>1, <1>2 DEF Fault, Doing
    <2>. QED
      BY <1>1, <2>1, TryStages
  <1>3. CASE Command.op # "try"
    BY <1>1, <1>3, FaultMess, MessKernel DEF Kernel
  <1>. QED
    BY <1>2, <1>3

LEMMA FailsKernel ==
    Lists /\ Singles /\ Kernel /\ Where /\ Lists' /\ (NoBackend \/ TcFails) => Kernel'
  BY NoBackendMess, TcFailsMess, MessKernel DEF Kernel

(* The process is gone. *)
LEMMA KilledKernel == Killed => Kernel'
  <1>1. SUFFICES ASSUME Killed PROVE Kernel'
    OBVIOUS
  <1>2. process' = "killed"
    BY <1>1 DEF Killed
  <1>. QED
    BY <1>2, NoStages DEF Kernel, Ending

LEMMA ShutKernel ==
    Lists /\ Singles /\ Kernel /\ Where /\ Lists' /\ Singles' /\ Shut => Kernel'
  BY ShutIs, ShutStages, MessKernel, KilledKernel DEF Kernel

(* The steps of NewTC. *)
LEMMA TcxKernel ==
    Lists /\ Singles /\ Kernel /\ Lists' /\ Singles' /\ AttachTCX => Kernel'
  <1>1. SUFFICES ASSUME Lists, Singles, Kernel, Lists', Singles', AttachTCX PROVE Kernel'
    OBVIOUS
  <1>2. /\ Doing({"tcx"}) /\ Steady /\ UNCHANGED <<cfg, made, chan, watching, blocked, dirty>>
        /\ Command = Head(todo) /\ Head(todo).op = "tcx" /\ todo # <<>>
    BY <1>1, Ready DEF AttachTCX
  <1>3. CASE kern' = [kern EXCEPT ![Links] = 1] /\ Proceed
    BY <1>1, <1>2, <1>3, LinksStages
  <1>4. CASE todo' = attachAllClassic \o Tail(todo) /\ UNCHANGED <<kern, attached, process, failures>>
    <2>1. Grow(attachAllClassic)
      BY <1>2, <1>4 DEF Grow, Steady, failures
    <2>2. host \in Hosts
      BY <1>1 DEF Lists, TypeInv
    <2>3. PICK L : L = attachAllClassic
      OBVIOUS
    <2>4. Programs(L)
      BY <2>2, <2>3, QdiscList, HookNames DEF Programs
    <2>. QED
      BY <1>1, <1>4, <2>1, <2>3, <2>4, GrowStages
  <1>. QED
    BY <1>1, <1>3, <1>4 DEF AttachTCX

LEMMA QdiscKernel ==
    Lists /\ Singles /\ Kernel /\ Lists' /\ Singles' /\ EnsureQdisc => Kernel'
  <1>1. SUFFICES ASSUME Lists, Singles, Kernel, Lists', Singles', EnsureQdisc PROVE Kernel'
    OBVIOUS
  <1>2. Doing({"qdisc"})
    BY <1>1 DEF EnsureQdisc
  <1>3. Command = Head(todo) /\ Head(todo).op = "qdisc" /\ todo # <<>> /\ Head(todo).obj \in Interfaces
    BY <1>1, <1>2, Ready
  <1>4. Grow(addClsBpfFilters(next, Head(todo).obj)) /\ kern' = [kern EXCEPT ![Qdisc[Head(todo).obj]] = 1]
    BY <1>1, <1>3 DEF EnsureQdisc, Grow, Steady, failures
  <1>5. PICK L : L = addClsBpfFilters(next, Head(todo).obj)
    OBVIOUS
  <1>6. next \in Configs /\ kern \in [Objects -> Nat]
    BY <1>1 DEF Lists, TypeInv
  <1>7. Programs(L)
    BY <1>3, <1>5, <1>6, FilterList, HookNames DEF Programs
  <1>8. \A o \in Objects : kern'[o] # kern[o] => o \in {Qdisc.wan, Qdisc.wwan}
    BY <1>3, <1>4, <1>6, QdiscIs
  <1>. QED
    BY <1>1, <1>4, <1>5, <1>7, <1>8, GrowStages

(* The empty list adds nothing. *)
LEMMA EmptyList == \A s \in Seq(Commands) : <<>> \o s = s
  OBVIOUS

(* The process starts. *)
LEMMA BootKernel == Lists /\ Kernel /\ Boot => Kernel'
  <1>1. SUFFICES ASSUME Lists, Kernel, Boot PROVE Kernel'
    OBVIOUS
  <1>2. /\ ~Running /\ process' = "starting" /\ starts' = starts + 1 /\ made' = {} /\ todo' = <<Boots>>
        /\ attached' = <<>> /\ watching' = FALSE /\ UNCHANGED <<slipped, host, kern, dirty>>
    BY <1>1 DEF Boot, Boots
  <1>3. Boots \in Commands /\ Boots.op = "boot"
    BY SingleTypes DEF Boots
  <1>4. T' = {Boots}
    <2>1. PICK e \in Commands : e = Boots
      BY <1>3
    <2>2. ToSet(<<e>>) = {e}
      BY One
    <2>. QED
      BY <1>2, <2>1, <2>2 DEF T
  <1>5. \A c \in Components : ~HasDel(c)' /\ Shuts(c) \notin T' /\ ~Busy(c)'
    BY <1>3, <1>4, DelOf DEF HasDel, Busy
  <1>6. ASSUME dirty = {}, NEW c \in Components PROVE Zero(c)'
    <2>1. process \in {"off", "exited"}
      <3>1. process \notin {"starting", "up", "restarting", "stopping"} /\ process # "killed"
        BY <1>1, <1>2, <1>6 DEF Running, Lists, JobInv
      <3>. QED
        BY <1>1, <3>1 DEF Lists, TypeInv
    <2>2. \A o \in Sure(c) : kern[o] = 0
      BY <1>1, <1>6, <2>1 DEF Kernel, Ending, Zero
    <2>3. Cover(c)' = Cover(c)
      BY <1>2, <1>6 DEF Cover, StrayTTL
    <2>4. Tidy' => Tidy
      <3>1. HAVE Tidy'
      <3>2. starts = 0
        BY <1>1, <1>2, <3>1 DEF Tidy, Lists, TypeInv
      <3>3. process = "off" /\ type # "TPROXY" /\ ~watching
        BY <1>1, <3>2 DEF Lists, JobInv
      <3>. QED
        BY <3>2, <3>3 DEF Tidy
    <2>5. Sure(c)' \subseteq Sure(c)
      BY <2>3, <2>4 DEF Sure
    <2>. QED
      BY <1>2, <2>2, <2>5 DEF Zero
  <1>7. Stages'
    BY <1>2, <1>5, <1>6 DEF Stages, Stage, Shuts
  <1>. QED
    BY <1>2, <1>7 DEF Kernel, Ending

(* runRoot has read the configuration. *)
LEMMA BootedKernel ==
    Lists /\ Singles /\ Kernel /\ Where /\ Lists' /\ Singles' /\ Doing({"boot"}) /\ Build => Kernel'
  <1>1. SUFFICES ASSUME Lists, Singles, Kernel, Where, Lists', Singles', Doing({"boot"}), Build PROVE Kernel'
    OBVIOUS
  <1>2. Command = Head(todo) /\ Head(todo).op = "boot" /\ todo # <<>> /\ TypeInv /\ ListInv
    BY <1>1, Ready
  <1>3. todo' = StartSystem(next) /\ UNCHANGED <<process, failures, made, cfg, kern, attached, watching, dirty>> /\ Steady
    BY <1>1, <1>2 DEF Build
  <1>4. Booting
    BY <1>2, Now
  <1>5. process = "starting" /\ made = {} /\ attached = <<>>
    BY <1>2, <1>4 DEF ListInv
  <1>6. Still /\ next' = next /\ host' = host /\ type' = type
    BY <1>3 DEF Still, Steady, failures
  <1>7. next \in Configs /\ type \in Types
    BY <1>2 DEF TypeInv, Types
  <1>8. PICK d \in Configs : d = next
    BY <1>7
  <1>9. PICK L : L = StartSystem(d)
    OBVIOUS
  <1>10. /\ L \in Seq(Commands) /\ (\A x \in ToSet(L) : x.op \notin {"boot", "abort", "shut", "detach"})
         /\ (\A c \in Components : Plans(L, c, d, d) \/ (c = "des" /\ \A x \in ToSet(L) : x.comp # "des"))
         /\ Head(L) = Adopts("help")
    BY <1>7, <1>9, StartFacts
  <1>11. todo' = L /\ T' = ToSet(L)
    BY <1>3, <1>8, <1>9 DEF T
  <1>12. \A c \in Components : Cmds(c, next)' = Cmds(c, d) /\ (Enabled(c, next)' <=> Enabled(c, d))
    BY <1>6, <1>8, CmdsSame, SameCmds
  <1>13. \A c \in Components : dirty = {} => Zero(c)
    BY <1>1, <1>5 DEF Kernel, Stages, Stage
  <1>14. \A c \in Components : Holds(kern, c, d)
    <2>1. CASE dirty = {}
      BY <1>13, <2>1, ZeroHolds DEF Zero
    <2>2. CASE dirty # {}
      BY <1>1, <1>2, <2>2, DirtyHolds
    <2>. QED
      BY <2>1, <2>2
  <1>15. ASSUME NEW c \in Components PROVE Stage(c)'
    <2>1. Shuts(c) \notin T'
      BY <1>10, <1>11, DelOf
    <2>2. CASE ~Plans(L, c, d, d)
      <3>1. ~HasDel(c)' /\ ~Busy(c)'
        BY <1>10, <1>11, <2>2 DEF HasDel, Busy
      <3>2. dirty = {} => Zero(c)'
        BY <1>3, <1>6, <1>13, ZeroSame
      <3>. QED
        BY <1>3, <1>5, <2>1, <3>1, <3>2 DEF Stage, Shuts
    <2>3. CASE Plans(L, c, d, d)
      <3>1. HasDel(c)' => \A o \in Sure(c)' : Gonner(c, o)'
        <4>1. HAVE HasDel(c)'
        <4>2. Sweeps(L, c, d)
          BY <1>11, <2>3, <4>1 DEF Plans, HasDel
        <4>. QED
          BY <1>3, <1>6, <1>11, <1>14, <4>2, SweptNext
      <3>2. Pending(c)' = Cmds(c, next)'
        <4>1. \A x : x \in Pending(c)' => x \in Cmds(c, d)
          BY <1>11, <2>3 DEF Plans, Pending
        <4>2. \A x : x \in Cmds(c, d) => x \in Pending(c)'
          BY <1>11, <2>3 DEF Plans, Pending
        <4>. QED
          BY <1>12, <4>1, <4>2
      <3>3. ~HasDel(c)' => ~Enabled(c, d) \/ ByBPF(c, d)
        BY <1>11, <2>3 DEF Plans, HasDel
      <3>4. ~HasDel(c)' => Cmds(c, next)' = {}
        BY <1>12, <3>3 DEF Cmds
      <3>5. dirty = {} => Zero(c)'
        BY <1>3, <1>6, <1>13, ZeroSame
      <3>6. (Plan /\ Busy(c) /\ ~HasDel(c) /\ Head(todo).comp = c /\ (dirty = {} \/ Enabled(c, next)) => Installing(c))'
        <4>1. SUFFICES ASSUME ~HasDel(c)', dirty = {} \/ Enabled(c, d) PROVE Installing(c)'
          BY <1>6, <1>12 DEF Still
        <4>2. PICK E : E = {}
          OBVIOUS
        <4>3. (Cmds(c, next) \ Pending(c))' = E
          BY <3>4, <4>1, <4>2
        <4>4. \A o \in Cover(c)' : (Fit(c, E, next, o))'
          <5>1. CASE dirty = {}
            <6>1. \A o \in Sure(c)' : kern'[o] = 0
              BY <3>5, <5>1 DEF Zero
            <6>2. PICK f : f = next'
              OBVIOUS
            <6>3. \A o \in Cover(c)' : (Fit(c, E, f, o))'
              BY <1>1, <4>2, <6>1, EmptyFitNext
            <6>. QED
              BY <6>2, <6>3 DEF Fit
          <5>2. CASE dirty # {}
            <6>1. ByBPF(c, d)
              BY <3>3, <4>1, <5>2
            <6>2. Cover(c)' = {}
              BY <1>6, <1>8, <5>2, <6>1 DEF Cover, ByBPF, Still
            <6>. QED
              BY <6>2
          <5>. QED
            BY <5>1, <5>2
        <4>. QED
          BY <3>2, <3>4, <4>1, <4>3, <4>4 DEF Installing, Fit
      <3>7. (Plan /\ Busy(c) /\ ~HasDel(c) /\ Head(todo).comp # c =>
               process = "starting" /\ c \notin made /\ Pending(c) = {} /\ Cmds(c, next) = {} /\ ~Enabled(c, next))'
        <4>1. SUFFICES ASSUME ~HasDel(c)', Head(todo').comp # c PROVE ~Enabled(c, d)
          BY <1>3, <1>5, <1>12, <3>2, <3>4
        <4>2. c # "help"
          BY <1>10, <1>11, <4>1, DoFields DEF Adopts
        <4>. QED
          BY <3>3, <4>1, <4>2 DEF ByBPF
      <3>. QED
        BY <1>3, <1>5, <3>1, <3>2, <3>5, <3>6, <3>7 DEF Stage
    <2>. QED
      BY <2>2, <2>3
  <1>16. Ending'
    BY <1>3, <1>5 DEF Ending
  <1>. QED
    BY <1>15, <1>16 DEF Kernel, Stages

(* Between two lists. *)
LEMMA NoTodo ==
    ASSUME Lists, todo = <<>>
    PROVE  T = {} /\ ~Aborting /\ (\A c : ~HasDel(c) /\ ~Busy(c) /\ Adopts(c) \notin T /\ ~Under(c))
  <1>1. T = {}
    BY Empty DEF T
  <1>. QED
    BY <1>1 DEF Aborting, HasDel, Busy, Under

(* An end begins, is over; a restart is given up. *)
LEMMA StopKernel == Lists /\ Kernel /\ Stop => Kernel'
  <1>1. SUFFICES ASSUME Lists, Kernel, Stop PROVE Kernel'
    OBVIOUS
  <1>2. process = "up" /\ process' = "stopping" /\ todo' = CloseSystem
        /\ UNCHANGED <<host, kern, type, cfg, next, made, attached, watching, failures, bounds, dirty>>
    BY <1>1 DEF Stop, Idle
  <1>3. todo = <<>> /\ type \in Types /\ attached \in Seq(Hooks)
    BY <1>1, <1>2 DEF Lists, TypeInv, Types, ListInv
  <1>4. ~Aborting /\ \A c : ~Under(c)
    BY <1>1, <1>3, NoTodo
  <1>5. Still
    BY <1>2 DEF Still, failures, bounds
  <1>6. ASSUME dirty = {}, NEW c \in Components PROVE \A o \in Sure(c)' : Gonner(c, o)'
    <2>1. CASE c \in made
      <3>1. Rested(c)
        BY <1>1, <1>2, <1>4, <2>1 DEF Kernel, Stages, Stage
      <3>2. PICK U \in Seq(Commands) : U = <<>> /\ ToSet(U) = {}
        BY Empty
      <3>3. CloseSystem \in Seq(Commands)
        BY <1>3, CloseFacts
      <3>4. todo' = U \o CloseSystem
        BY <1>2, <3>2, <3>3, EmptyList
      <3>. QED
        BY <1>1, <1>2, <1>4, <1>5, <1>6, <2>1, <3>1, <3>2, <3>4, CloseSwept
    <2>2. CASE c \notin made
      <3>1. Zero(c)
        BY <1>1, <1>2, <1>6, <2>2 DEF Kernel, Stages, Stage
      <3>. QED
        BY <1>2, <1>5, <1>6, <3>1, ZeroNext DEF Zero
    <2>. QED
      BY <2>1, <2>2
  <1>7. Ending'
    BY <1>2, <1>6 DEF Ending
  <1>. QED
    BY <1>2, <1>7, NoStages DEF Kernel

LEMMA FinishKernel == Lists /\ Kernel /\ Finish => Kernel'
  <1>1. SUFFICES ASSUME Lists, Kernel, Finish PROVE Kernel'
    OBVIOUS
  <1>2. process \in {"starting", "restarting", "stopping"} /\ todo = <<>> /\ process' = (IF process = "stopping" THEN "exited" ELSE "up")
        /\ failed' = FALSE /\ UNCHANGED <<host, kern, type, cfg, next, made, todo, attached, watching, slipped, bounds, dirty>>
    BY <1>1 DEF Finish
  <1>3. T = {} /\ ~Aborting /\ \A c : ~HasDel(c) /\ ~Busy(c) /\ Adopts(c) \notin T /\ ~Under(c)
    BY <1>1, <1>2, NoTodo
  <1>4. T' = {} /\ ~Aborting' /\ \A c : ~HasDel(c)' /\ ~Busy(c)' /\ Adopts(c) \notin T' /\ Shuts(c) \notin T'
    <2>1. T' = {}
      BY <1>2, <1>3 DEF T
    <2>. QED
      BY <2>1 DEF Aborting, HasDel, Busy
  <1>5. Still /\ next' = next
    BY <1>2 DEF Still, bounds
  <1>6. CASE process = "stopping"
    <2>1. process' = "exited"
      BY <1>2, <1>6
    <2>2. ASSUME dirty = {}, NEW c \in Components PROVE Zero(c)'
      <3>1. \A o \in Sure(c) : kern[o] = 0
        BY <1>1, <1>3, <1>6, <2>2 DEF Kernel, Ending, Gonner, Doomed
      <3>2. c = "help" => attached = <<>>
        BY <1>1, <1>3, <1>6 DEF Lists, HookList
      <3>. QED
        BY <1>2, <1>5, <2>2, <3>1, <3>2, ZeroSame DEF Zero
    <2>. QED
      BY <1>2, <2>1, <2>2, NoStages DEF Kernel, Ending
  <1>7. CASE process \in {"starting", "restarting"}
    <2>1. process' = "up" /\ Plan /\ ~Plan'
      BY <1>2, <1>3, <1>7 DEF Plan
    <2>2. ASSUME NEW c \in Components PROVE Stage(c)'
      <3>1. Stage(c)
        BY <1>1 DEF Kernel, Stages
      <3>2. c \in made => Rested(c)'
        <4>1. HAVE c \in made
        <4>2. Rested(c)
          BY <1>3, <1>7, <3>1, <4>1 DEF Stage
        <4>3. CASE dirty = {}
          <5>1. Fits(c, cfg[c])
            BY <1>3, <1>7, <4>2, <4>3 DEF Rested, Loose
          <5>2. PICK d : d = cfg[c] /\ d = cfg'[c]
            BY <1>2
          <5>3. Fits(c, d)'
            BY <1>2, <1>5, <5>1, <5>2, FitsSame DEF Fits
          <5>. QED
            BY <1>2, <4>3, <5>2, <5>3 DEF Rested, Fits, Fit, HookFit
        <4>4. CASE dirty # {}
          <5>1. PICK d : d = next /\ d = next'
            BY <1>2
          <5>2. Enabled(c, d) => Fits(c, d)
            BY <1>3, <1>7, <4>2, <4>4, <5>1 DEF Rested, Done
          <5>3. (Enabled(c, d))' => Fits(c, d)'
            BY <1>2, <1>5, <5>2, FitsSame, CmdsSame
          <5>. QED
            BY <1>2, <4>4, <5>1, <5>3 DEF Rested, Fits, Fit, HookFit, Enabled
        <4>. QED
          BY <4>3, <4>4
      <3>3. dirty = {} /\ c \notin made => Zero(c)'
        BY <1>2, <1>5, <1>7, <3>1, ZeroSame DEF Stage
      <3>. QED
        BY <1>2, <1>4, <2>1, <3>2, <3>3 DEF Stage, Shuts
    <2>3. Ending'
      BY <2>1 DEF Ending
    <2>. QED
      BY <2>2, <2>3 DEF Kernel, Stages
  <1>. QED
    BY <1>2, <1>6, <1>7

LEMMA AbortKernel == Lists /\ Kernel /\ Doing({"abort"}) /\ Build => Kernel'
  <1>1. SUFFICES ASSUME Lists, Kernel, Doing({"abort"}), Build PROVE Kernel'
    OBVIOUS
  <1>2. Command = Head(todo) /\ Head(todo).op = "abort" /\ todo # <<>> /\ TypeInv /\ ListInv
    BY <1>1, Ready
  <1>3. todo' = <<>> /\ process' = "up" /\ failed' = TRUE /\ slipped' = TRUE /\ UNCHANGED <<made, cfg>>
        /\ Steady /\ UNCHANGED <<kern, attached, watching, dirty>>
    BY <1>1, <1>2 DEF Build
  <1>4. T' = {} /\ ~Aborting' /\ \A c : ~HasDel(c)' /\ ~Busy(c)' /\ Adopts(c) \notin T' /\ Shuts(c) \notin T'
    <2>1. T' = {}
      BY <1>3, Empty DEF T
    <2>. QED
      BY <2>1 DEF Aborting, HasDel, Busy
  <1>5. Aborting /\ process = "restarting" /\ T = {Aborts} /\ Aborts.op = "abort"
    <2>1. Head(todo) = Aborts /\ Aborting /\ T = {Head(todo)} \cup ToSet(Tail(todo))
      BY <1>2, Now
    <2>2. DOMAIN todo = 1..Len(todo) /\ Len(todo) \in Nat \ {0} /\ todo[1] = Head(todo) /\ todo \in Seq(Commands)
      BY <1>2, Parts DEF TypeInv
    <2>3. Len(todo) = 1
      BY <1>2, <2>1, <2>2 DEF ListInv
    <2>4. T = {Aborts}
      BY <2>1, <2>2, <2>3 DEF T, ToSet
    <2>. QED
      BY <1>2, <2>1, <2>4 DEF ListInv
  <1>6. \A c \in Components : ~Under(c)
    BY <1>5 DEF Under, HasDel
  <1>7. ~Plan' /\ Loose("help")'
    BY <1>3 DEF Plan, Loose
  <1>8. \A c \in Components : dirty = {} => Cover(c)' \subseteq Cover(c) /\ Sure(c)' \subseteq Sure(c)
    BY <1>3 DEF Cover, Sure, StrayTTL, Tidy, Steady
  <1>9. ASSUME NEW c \in Components PROVE Stage(c)'
    <2>1. Stage(c)
      BY <1>1 DEF Kernel, Stages
    <2>2. dirty = {} /\ Zero(c) => Zero(c)'
      BY <1>3, <1>8 DEF Zero
    <2>3. ASSUME dirty = {}, NEW d, Fits(c, d) PROVE Fits(c, d)'
      <3>1. Cmds(c, d)' = Cmds(c, d) /\ Optional(d)' = Optional(d) /\ Classic(d)' = Classic(d)
        BY <1>3, CmdsSame DEF Steady
      <3>2. Tidy' <=> Tidy
        BY <1>3 DEF Tidy, Steady
      <3>3. \A o \in Cover(c)' : Fit(c, Cmds(c, d), d, o)'
        BY <1>3, <1>8, <2>3, <3>1, <3>2 DEF Fits, Fit, Level
      <3>4. c = "help" => HookFit(d)'
        BY <1>3, <2>3, <3>1 DEF Fits, HookFit, HelperWanted
      <3>. QED
        BY <3>3, <3>4 DEF Fits
    <2>4. c \in made => Rested(c)'
      <3>1. HAVE c \in made
      <3>2. Rested(c)
        BY <1>5, <1>6, <2>1, <3>1 DEF Stage
      <3>3. CASE dirty = {}
        <4>1. Zero(c) \/ \E d \in Configs : Fits(c, d)
          <5>1. cfg[c] \in Configs
            BY <1>2 DEF TypeInv
          <5>. QED
            BY <3>2, <3>3, <5>1 DEF Rested
        <4>2. Zero(c)' \/ \E d \in Configs : Fits(c, d)'
          BY <2>2, <2>3, <3>3, <4>1
        <4>. QED
          BY <1>3, <3>3, <4>2 DEF Rested, Loose
      <3>4. CASE dirty # {}
        BY <1>3, <3>4 DEF Rested, Done
      <3>. QED
        BY <3>3, <3>4
    <2>5. dirty = {} /\ c \notin made => Zero(c)'
      BY <1>5, <2>1, <2>2 DEF Stage
    <2>. QED
      BY <1>3, <1>4, <1>7, <2>4, <2>5 DEF Stage, Shuts
  <1>10. Ending'
    BY <1>3 DEF Ending
  <1>. QED
    BY <1>9, <1>10 DEF Kernel, Stages

LEMMA BuildKernel ==
    Lists /\ Singles /\ Kernel /\ Where /\ Lists' /\ Singles' /\ Build => Kernel'
  <1>1. SUFFICES ASSUME Lists, Singles, Kernel, Where, Lists', Singles', Build PROVE Kernel'
    OBVIOUS
  <1>2. Doing({"boot"}) \/ Doing({"adopt"}) \/ Doing({"abort"})
    BY <1>1 DEF Build, Doing
  <1>. QED
    BY <1>1, <1>2, BootedKernel, AdoptStages, AbortKernel

(* A component at rest of which nothing is installed has nothing in the kernel. *)
LEMMA RestedZero ==
    ASSUME Lists, dirty = {}, NEW c \in Components, Rested(c), \A d : Cmds(c, d) = {}
    PROVE  \A o \in Sure(c) : kern[o] = 0
  <1>1. CASE Zero(c)
    BY <1>1 DEF Zero
  <1>2. ASSUME NEW d, Fits(c, d) PROVE \A o \in Sure(c) : kern[o] = 0
    <2>1. PICK E : E = Cmds(c, d)
      OBVIOUS
    <2>2. E = {} /\ \A o \in Cover(c) : Fit(c, E, d, o)
      BY <1>2, <2>1 DEF Fits
    <2>. QED
      BY <2>2, EmptyZero
  <1>. QED
    BY <1>1, <1>2 DEF Rested

(* A restart: what a component has in the kernel is what its Close and its
   Setup will delete. *)
LEMMA RestartKernel ==
    Lists /\ Kernel /\ Lists' /\ Singles' /\ Where' /\ Restart => Kernel'
  <1>1. SUFFICES ASSUME Lists, Kernel, Lists', Singles', Where', Restart PROVE Kernel'
    OBVIOUS
  <1>2. /\ process = "up" /\ process' = "restarting"
        /\ UNCHANGED <<host, kern, type, cfg, made, attached, watching, failures, starts, dirty>>
        /\ \E c \in Configs : next' = c /\ todo' = RestartSystem(c)
    BY <1>1 DEF Restart, Idle
  <1>3. PICK d \in Configs : next' = d /\ todo' = RestartSystem(d)
    BY <1>2
  <1>4. todo = <<>> /\ type \in Types /\ attached \in Seq(Hooks) /\ {"help", "srv"} \subseteq made /\ cfg \in [Components -> Configs]
    BY <1>1, <1>2 DEF Lists, TypeInv, Types, ListInv, JobInv
  <1>5. T = {} /\ ~Aborting /\ (\A c : ~HasDel(c) /\ ~Busy(c) /\ Adopts(c) \notin T /\ ~Under(c))
    BY <1>1, <1>4, NoTodo
  <1>6. PICK L : L = RestartSystem(d)
    OBVIOUS
  <1>7. /\ L \in Seq(Commands) /\ (\A x \in ToSet(L) : x.op \notin {"boot", "abort"})
        /\ (\A c \in Components : IF c = "des" /\ "des" \notin made THEN \A x \in ToSet(L) : x.comp # "des"
                                  ELSE Plans(L, c, d, cfg[c]))
        /\ Unhooks(L) /\ L # <<>> /\ Head(L).comp = "srv"
    BY <1>4, <1>6, RestartFacts
  <1>8. todo' = L /\ T' = ToSet(L)
    BY <1>3, <1>6 DEF T
  <1>9. Still
    BY <1>2 DEF Still, failures
  <1>10. \A c \in Components : Cmds(c, next)' = Cmds(c, d) /\ (Enabled(c, next)' <=> Enabled(c, d))
    BY <1>3, <1>9, CmdsSame, SameCmds DEF Still
  <1>11. ~Aborting'
    <2>1. Aborts.op = "abort"
      BY DEF Aborts, Do
    <2>. QED
      BY <1>7, <1>8, <2>1 DEF Aborting
  <1>12. Busy("srv")'
    <2>1. Head(L) \in ToSet(L)
      BY <1>7, Parts
    <2>. QED
      BY <1>7, <1>8, <2>1 DEF Busy
  <1>13. \A c \in Components : c \in made => Rested(c)
    BY <1>1, <1>2, <1>5 DEF Kernel, Stages, Stage
  <1>14. \A c \in Components : (Holds(kern, c, cfg[c]))' \/ c \notin made
    <2>1. TAKE c \in Components
    <2>2. SUFFICES ASSUME c \in made PROVE (Holds(kern, c, cfg[c]))'
      OBVIOUS
    <2>3. PICK e \in Configs : e = cfg[c] /\ e = cfg'[c]
      BY <1>2, <1>4
    <2>4. CASE dirty = {}
      <3>1. Holds(kern, c, cfg[c])
        BY <1>1, <1>5, <1>13, <2>2, <2>4, RestHolds
      <3>2. Holds(kern', c, e)
        BY <1>2, <2>3, <3>1 DEF Holds
      <3>3. Holds(kern, c, e)'
        BY <1>9, <2>4, <3>2, HoldsSame
      <3>. QED
        BY <2>3, <3>3 DEF Holds
    <2>5. CASE dirty # {}
      <3>1. (TypeInv /\ dirty # {} /\ Where)'
        BY <1>1, <1>2, <2>5 DEF Lists
      <3>2. Holds(kern, c, e)'
        BY <3>1, DirtyHoldsNext
      <3>. QED
        BY <2>3, <3>2 DEF Holds
    <2>. QED
      BY <2>4, <2>5
  <1>15. ASSUME NEW c \in Components PROVE Stage(c)'
    <2>1. CASE c = "des" /\ "des" \notin made
      <3>1. \A x \in T' : x.comp # c
        BY <1>7, <1>8, <2>1
      <3>2. ~HasDel(c)' /\ ~Busy(c)' /\ Shuts(c) \notin T'
        BY <3>1, DelOf DEF HasDel, Busy
      <3>3. dirty = {} => Zero(c)'
        <4>1. HAVE dirty = {}
        <4>2. Zero(c)
          BY <1>1, <1>2, <2>1, <4>1 DEF Kernel, Stages, Stage
        <4>. QED
          BY <1>2, <1>9, <4>1, <4>2, ZeroSame
      <3>. QED
        BY <1>2, <2>1, <3>2, <3>3 DEF Stage, Shuts
    <2>2. CASE ~(c = "des" /\ "des" \notin made)
      <3>0. Plans(L, c, d, cfg[c]) /\ c \in made
        BY <1>4, <1>7, <2>2 DEF Components
      <3>1. HasDel(c)' => \A o \in Sure(c)' : Gonner(c, o)'
        <4>1. HAVE HasDel(c)'
        <4>2. Sweeps(L, c, cfg[c])
          BY <1>8, <3>0, <4>1 DEF Plans, HasDel
        <4>3. PICK e \in Configs : e = cfg[c] /\ e = cfg'[c]
          BY <1>2, <1>4
        <4>4. Holds(kern, c, e)'
          BY <1>14, <3>0, <4>3 DEF Holds
        <4>5. (Sweeps(todo, c, e))'
          <5>1. Removable(c, e)' = Removable(c, e)
            BY <1>9 DEF Still, Removable, OfType
          <5>. QED
            BY <1>8, <4>2, <4>3, <5>1 DEF Sweeps, Del, Shuts, Before, Do, Waits
        <4>. QED
          BY <4>4, <4>5, HoldsGonnerNext
      <3>2. Pending(c)' = Cmds(c, next)'
        <4>1. \A x : x \in Pending(c)' => x \in Cmds(c, d)
          BY <1>8, <3>0 DEF Plans, Pending
        <4>2. \A x : x \in Cmds(c, d) => x \in Pending(c)'
          BY <1>8, <3>0 DEF Plans, Pending
        <4>. QED
          BY <1>10, <4>1, <4>2
      <3>3. c # "srv" => HasDel(c)'
        <4>1. CASE c = "help"
          <5>1. Do("help", "delete", "QUIC") \in T'
            BY <1>7, <1>8 DEF Unhooks
          <5>. QED
            BY <4>1, <5>1, HookNames DEF HasDel
        <4>2. CASE c = "des"
          <5>1. Enabled(c, d) /\ ~ByBPF(c, d)
            BY <4>2 DEF Enabled, ByBPF
          <5>. QED
            BY <1>8, <3>0, <5>1 DEF Plans, HasDel
        <4>. QED
          BY <4>1, <4>2 DEF Components
      <3>4. (Plan /\ Busy(c) /\ ~HasDel(c) /\ Head(todo).comp = c /\ (dirty = {} \/ Enabled(c, next)) => Installing(c))'
        <4>1. SUFFICES ASSUME ~HasDel(c)', dirty = {} \/ Enabled(c, d) PROVE Installing(c)'
          BY <1>9, <1>10 DEF Still
        <4>2. c = "srv"
          BY <3>3, <4>1
        <4>3. ~Enabled(c, d) /\ dirty = {}
          BY <1>8, <3>0, <4>1, <4>2 DEF Plans, HasDel, ByBPF
        <4>4. \A f : Cmds(c, f) = {}
          BY <4>2, <4>3 DEF Cmds, Enabled
        <4>5. \A o \in Sure(c) : kern[o] = 0
          BY <1>1, <1>13, <3>0, <4>3, <4>4, RestedZero
        <4>6. \A o \in Sure(c)' : kern'[o] = 0
          BY <1>2, <1>9, <4>3, <4>5, CoverSame
        <4>7. PICK E : E = {}
          OBVIOUS
        <4>8. (Cmds(c, next) \ Pending(c))' = E
          BY <3>2, <4>7
        <4>9. PICK f : f = next'
          OBVIOUS
        <4>10. \A o \in Cover(c)' : (Fit(c, E, f, o))'
          BY <1>1, <4>6, <4>7, EmptyFitNext
        <4>11. \A o \in Cover(c)' : (Fit(c, E, next, o))'
          BY <4>9, <4>10 DEF Fit
        <4>12. Cmds(c, next)' = {} /\ Pending(c)' = {}
          BY <1>10, <3>2, <4>4
        <4>. QED
          BY <4>8, <4>11, <4>12 DEF Installing, Fit
      <3>5. ~Under(c)' => Rested(c)'
        <4>1. HAVE ~Under(c)'
        <4>2. c # "srv"
          BY <1>7, <1>8, <1>11, <1>12, <4>1 DEF Under
        <4>3. Adopts(c) \in T' /\ failed' = failed
          BY <1>2, <1>8, <3>0 DEF Plans, failures
        <4>4. CASE dirty # {}
          BY <1>2, <4>3, <4>4 DEF Rested, Done
        <4>5. CASE dirty = {}
          <5>1. Rested(c)
            BY <1>13, <3>0
          <5>2. Zero(c) => Zero(c)'
            BY <1>2, <1>9, <4>5, ZeroSame
          <5>3. \A f : Fits(c, f) => Fits(c, f)'
            <6>1. TAKE f
            <6>2. HAVE Fits(c, f)
            <6>. QED
              BY <1>2, <1>9, <4>5, <6>2, FitsSame
          <5>4. Loose(c) => Loose(c)'
            BY <1>2, <1>5, <4>3 DEF Loose
          <5>5. Fits(c, cfg[c]) => Fits(c, cfg[c])'
            <6>1. HAVE Fits(c, cfg[c])
            <6>2. PICK f : f = cfg[c] /\ f = cfg'[c]
              BY <1>2
            <6>3. Fits(c, f)
              BY <6>1, <6>2 DEF Fits
            <6>4. Fits(c, f)'
              BY <5>3, <6>3
            <6>. QED
              BY <6>2, <6>4 DEF Fits, Fit, HookFit
          <5>. QED
            BY <1>2, <4>5, <5>1, <5>2, <5>3, <5>4, <5>5 DEF Rested
        <4>. QED
          BY <4>4, <4>5
      <3>6. Head(todo').comp # c /\ Busy(c)' => HasDel(c)'
        BY <1>7, <1>8, <3>3
      <3>. QED
        BY <1>2, <3>0, <3>1, <3>2, <3>4, <3>5, <3>6 DEF Stage
    <2>. QED
      BY <2>1, <2>2
  <1>16. Ending'
    BY <1>2 DEF Ending
  <1>. QED
    BY <1>15, <1>16 DEF Kernel, Stages

(* The watcher, and a step that changes nothing. *)
LEMMA SameKernel ==
    ASSUME Lists, Kernel, UNCHANGED <<host, process, type, cfg, next, made, todo, attached, watching, failed, slipped, starts, dirty>>,
           \A o \in Objects : kern'[o] # kern[o] => o = SkipSet /\ watching /\ kern'[o] = 1
    PROVE  Kernel'
  <1>1. T' = T /\ (Aborting' <=> Aborting) /\ (Tidy' <=> Tidy) /\ (Plan' <=> Plan)
        /\ \A c : /\ (HasDel(c)' <=> HasDel(c)) /\ (Busy(c)' <=> Busy(c)) /\ Pending(c)' = Pending(c)
                  /\ (Under(c)' <=> Under(c)) /\ (Loose(c)' <=> Loose(c)) /\ (Done(c)' <=> Done(c))
                  /\ Cover(c)' = Cover(c) /\ Sure(c)' = Sure(c)
    <2>1. T' = T /\ (Aborting' <=> Aborting) /\ (Tidy' <=> Tidy)
      BY DEF T, Aborting, Tidy
    <2>2. \A c : (HasDel(c)' <=> HasDel(c)) /\ (Busy(c)' <=> Busy(c)) /\ Pending(c)' = Pending(c)
      BY <2>1 DEF HasDel, Busy, Pending
    <2>3. \A c : Cover(c)' = Cover(c)
      BY DEF Cover, StrayTTL
    <2>. QED
      BY <2>1, <2>2, <2>3 DEF Plan, Under, Loose, Done, Sure
  <1>2. \A c \in Components : \A d : /\ Cmds(c, d)' = Cmds(c, d) /\ (Enabled(c, d)' <=> Enabled(c, d))
                                 /\ Optional(d)' = Optional(d) /\ Classic(d)' = Classic(d)
    BY CmdsSame
  <1>3. \A c \in Components : \A o \in Sure(c) : kern'[o] = kern[o] /\ o \in Objects /\ \A x \in Waits(o) : kern'[x] = kern[x]
    <2>1. TAKE c \in Components
    <2>2. TAKE o \in Sure(c)
    <2>3. o \in Cover(c) /\ o \in Objects
      BY CoverIn
    <2>4. kern'[o] = kern[o]
      BY <2>3 DEF Sure, Tidy
    <2>5. \A x \in Waits(o) : x \in Objects /\ x # SkipSet
      BY <2>3, WaitsCover, CoverIn
    <2>. QED
      BY <2>3, <2>4, <2>5
  <1>4. \A c \in Components : \A o \in Sure(c)' : Gonner(c, o) => Gonner(c, o)'
    <2>1. TAKE c \in Components
    <2>2. TAKE o \in Sure(c)'
    <2>3. kern'[o] = kern[o] /\ \A x \in Waits(o) : kern'[x] = kern[x]
      BY <1>1, <1>3
    <2>. QED
      BY <1>1, <2>3 DEF Gonner, Doomed, InWay
  <1>5. \A c \in Components : Zero(c) => Zero(c)'
    BY <1>1, <1>3 DEF Zero
  <1>6. \A c \in Components : \A o \in Cover(c) : \A E, d : Fit(c, E, d, o) => Fit(c, E, d, o)'
    <2>1. TAKE c \in Components
    <2>2. TAKE o \in Cover(c)
    <2>3. TAKE E, d
    <2>4. HAVE Fit(c, E, d, o)
    <2>5. o \in Objects
      BY CoverIn
    <2>6. CASE kern'[o] = kern[o]
      BY <1>1, <1>2, <2>4, <2>6 DEF Fit, Level
    <2>7. CASE kern'[o] # kern[o]
      <3>1. o = SkipSet /\ watching /\ kern'[o] = 1
        BY <2>5, <2>7
      <3>. QED
        BY <1>1, <3>1 DEF Fit, Tidy
    <2>. QED
      BY <2>6, <2>7
  <1>7. \A c \in Components : \A d : Fits(c, d) => Fits(c, d)'
    <2>1. TAKE c \in Components
    <2>. TAKE d
    <2>2. HAVE Fits(c, d)
    <2>3. \A o \in Cover(c)' : Fit(c, Cmds(c, d), d, o)'
      <3>1. PICK E : E = Cmds(c, d) /\ E = Cmds(c, d)'
        BY <1>2
      <3>2. \A o \in Cover(c) : Fit(c, E, d, o)'
        BY <1>6, <2>2, <3>1 DEF Fits
      <3>. QED
        BY <1>1, <3>1, <3>2 DEF Fit
    <2>4. c = "help" => HookFit(d)'
      BY <1>2, <2>2 DEF Fits, HookFit, HelperWanted
    <2>. QED
      BY <2>3, <2>4 DEF Fits
  <1>8. \A c \in Components : Installing(c) => Installing(c)'
    <2>1. TAKE c \in Components
    <2>2. HAVE Installing(c)
    <2>3. PICK d : d = next /\ d = next'
      OBVIOUS
    <2>4. Cmds(c, next)' = Cmds(c, next)
      BY <1>2, <2>3, SameCmds
    <2>5. PICK E : E = Cmds(c, next) \ Pending(c) /\ E = (Cmds(c, next) \ Pending(c))'
      BY <1>1, <2>4
    <2>6. \A o \in Cover(c) : Fit(c, E, d, o)'
      BY <1>6, <2>2, <2>3, <2>5 DEF Installing
    <2>7. \A o \in Cover(c)' : (Fit(c, Cmds(c, next) \ Pending(c), next, o))'
      BY <1>1, <2>3, <2>5, <2>6 DEF Fit
    <2>. QED
      BY <1>1, <2>2, <2>4, <2>5, <2>7 DEF Installing
  <1>9. \A c \in Components : Rested(c) => Rested(c)'
    <2>1. TAKE c \in Components
    <2>2. HAVE Rested(c)
    <2>3. PICK d, e : d = next /\ d = next' /\ e = cfg[c] /\ e = cfg'[c]
      OBVIOUS
    <2>4. (Fits(c, cfg[c]) => Fits(c, cfg[c])') /\ (Fits(c, next) => Fits(c, next)') /\ (Enabled(c, next)' <=> Enabled(c, next))
      <3>1. (Fits(c, d) => Fits(c, d)') /\ (Fits(c, e) => Fits(c, e)') /\ ((Enabled(c, d))' <=> Enabled(c, d))
        BY <1>2, <1>7
      <3>. QED
        BY <2>3, <3>1 DEF Fits, Fit, HookFit, Enabled
    <2>. QED
      BY <1>1, <1>5, <1>7, <2>2, <2>4 DEF Rested
  <1>10. ASSUME NEW c \in Components PROVE Stage(c)'
    <2>1. Stage(c)
      BY DEF Kernel, Stages
    <2>2. Cmds(c, next)' = Cmds(c, next) /\ (Enabled(c, next)' <=> Enabled(c, next))
      <3>1. PICK d : d = next /\ d = next'
        OBVIOUS
      <3>. QED
        BY <1>2, <3>1, SameCmds, CmdsSame
    <2>. QED
      BY <1>1, <1>4, <1>5, <1>8, <1>9, <2>1, <2>2 DEF Stage
  <1>11. Ending'
    BY <1>1, <1>4, <1>5 DEF Kernel, Ending
  <1>. QED
    BY <1>10, <1>11 DEF Kernel, Stages

(* The server's chains, jumps and sets are those of its type, or were left by a process that was killed. *)
Chained == SrvChained \ {SkipSet}

(* They are what a server of one type sets up under iptables, and its
   cleanup deletes. *)
LEMMA ChainedIs ==
    /\ Chained \subseteq Objects /\ Chained \subseteq Owned["srv"]
    /\ \A o \in Chained : o \notin Hooks \cup {Qdisc.wan, Qdisc.wwan} \cup Rules \cup Routes /\ o # "nft UA3F" /\ o # SkipSet /\ o # Ingress
    /\ \A o \in Chained : \A x \in Waits(o) : x \in Chained
    /\ \A ty \in Types : \A o \in Chained : o \in OfType(ty) => \A d : o \in Removable("srv", d) \/ ty # type
    /\ \A o \in Chained : o \in Chains \cup Jumps \cup Sets
  <1>1. Chained \subseteq Objects /\ Chained \subseteq Owned["srv"] /\ \A o \in Chained : o # SkipSet
    BY ObjectFacts DEF Chained, SrvChained, Components
  <1>2. \A o \in Chained : o \in Chains \cup Jumps \cup Sets
    BY DEF Chained, SrvChained
  <1>3. \A o \in Chained : o \in Jumps \cup Sets \/ o \in Chains
    BY <1>2
  <1>4. \A o \in Chained : o \notin Hooks \cup {Qdisc.wan, Qdisc.wwan}
    <2>1. Chains \cup Sets \cup Jumps \subseteq IptObjects
      BY DEF IptObjects
    <2>. QED
      BY <1>2, <2>1, IptApart
  <1>5. \A o \in Chains : o \notin Rules \cup Routes /\ o # "nft UA3F" /\ o # Ingress
    BY DEF Chains, Rules, Routes, Ingress
  <1>6. \A o \in Sets : o \notin Rules \cup Routes /\ o # "nft UA3F" /\ o # Ingress
    BY DEF Sets, LanSet, SkipSet, Rules, Routes, Ingress
  <1>7. \A o \in Jumps : o \notin Rules \cup Routes /\ o # "nft UA3F" /\ o # Ingress
    BY JumpFacts DEF Rules, Routes, Ingress
  <1>8. \A o \in Chained : \A x \in Waits(o) : x \in Chained
    <2>1. TAKE o \in Chained
    <2>2. TAKE x \in Waits(o)
    <2>3. o \in Objects /\ o \in Owned["srv"] /\ "srv" \in Components
      BY <1>1 DEF Components
    <2>4. x \in Owned["srv"]
      BY <2>2, <2>3, WaitFacts
    <2>5. o \in Sets \cup Chains
      BY <2>2, <2>3, WaitFacts
    <2>6. x # SkipSet /\ x \in Chains \cup Jumps
      BY <2>2, <2>5, WaitFacts
    <2>. QED
      BY <2>4, <2>6 DEF Chained, SrvChained
  <1>9. \A ty \in Types : \A o \in Chained : o \in OfType(ty) => \A d : o \in Removable("srv", d) \/ ty # type
    <2>1. TAKE ty \in Types
    <2>2. TAKE o \in Chained
    <2>3. HAVE o \in OfType(ty)
    <2>4. TAKE d
    <2>5. SUFFICES ASSUME ty = type PROVE o \in Removable("srv", d)
      OBVIOUS
    <2>6. type # "SOCKS5"
      BY <2>3, <2>5 DEF OfType
    <2>. QED
      BY <1>1, <2>3, <2>5, <2>6, RemovableIs
  <1>. QED
    BY <1>1, <1>2, <1>3, <1>4, <1>5, <1>6, <1>7, <1>8, <1>9

(* An end that deletes what a server of the type has. *)
LEMMA SweptWhere ==
    \A e \in Configs : TypeInv /\ process = "stopping" /\ Sweeps(todo, "srv", e)
                       /\ (\A x \in Chained : kern[x] > 0 => Left(x) \/ x \in OfType(type)) => Where
  <1>1. TAKE e \in Configs
  <1>2. SUFFICES ASSUME TypeInv, process = "stopping", Sweeps(todo, "srv", e), \A x \in Chained : kern[x] > 0 => Left(x) \/ x \in OfType(type),
                        NEW o \in Chained, kern[o] > 0, ~Left(o)
                 PROVE  o \in OfType(type) /\ Doomed("srv", o)
    BY DEF Where, Chained
  <1>3. type \in Types /\ o \in OfType(type) /\ kern \in [Objects -> Nat] /\ dirty \subseteq Types
    BY <1>2 DEF TypeInv, Types
  <1>4. o \in Removable("srv", e)
    BY <1>3, ChainedIs
  <1>5. Del("srv", o) \in T /\ Before(todo, Del("srv", o), Shuts("srv"))
    BY <1>2, <1>4 DEF Sweeps, T
  <1>6. ASSUME NEW x \in Waits(o), InWay(x) PROVE Before(todo, Del("srv", x), Del("srv", o))
    <2>1. x \in Chained /\ x \in Objects /\ o \in Objects
      BY <1>6, ChainedIs
    <2>2. kern[x] > 0
      BY <1>3, <1>6, <2>1 DEF InWay
    <2>3. CASE x \in OfType(type)
      <3>1. x \in Removable("srv", e)
        BY <1>3, <2>1, <2>3, ChainedIs
      <3>. QED
        BY <1>2, <1>4, <1>6, <3>1 DEF Sweeps
    <2>4. CASE Left(x)
      <3>1. PICK ty \in dirty : x \in OfType(ty)
        BY <2>4 DEF Left
      <3>2. ty \in {"SOCKS5", "TPROXY", "REDIRECT", "NFQUEUE"}
        BY <1>3, <3>1 DEF Types
      <3>3. o \in OfType(ty)
        BY <1>6, <2>1, <3>1, <3>2, WaitFacts
      <3>. QED
        BY <1>2, <3>1, <3>3 DEF Left
    <2>. QED
      BY <1>2, <2>1, <2>2, <2>3, <2>4
  <1>7. o \notin Rules \cup Hooks
    BY ChainedIs
  <1>. QED
    BY <1>3, <1>5, <1>6, <1>7 DEF Doomed, Shuts

LEMMA SweptWhereNext ==
    (\A e \in Configs : TypeInv /\ process = "stopping" /\ Sweeps(todo, "srv", e)
                        /\ (\A x \in Chained : kern[x] > 0 => Left(x) \/ x \in OfType(type)) => Where)'
  BY SweptWhere, PTL

(* Which of them a step can add. *)
LEMMA NewChained ==
    ASSUME Lists, Touches, NEW o \in Chained, kern'[o] > 0
    PROVE  kern[o] > 0 \/ ("srv" \in made /\ o \in OfType(type) /\ process \in {"starting", "restarting"})
  <1>1. kern \in [Objects -> Nat] /\ o \in Objects /\ o \notin Hooks \cup {Qdisc.wan, Qdisc.wwan} /\ o # SkipSet
    BY ChainedIs DEF Lists, TypeInv
  <1>2. CASE UNCHANGED kern
    BY <1>2
  <1>3. CASE /\ todo # <<>> /\ Head(todo).op \in PutOps /\ Head(todo).obj \in Objects /\ process \in {"starting", "restarting"}
             /\ kern' = Installed(kern, Head(todo))
    <2>1. CASE o # Head(todo).obj
      BY <1>1, <1>3, <2>1, InstalledIs
    <2>2. CASE o = Head(todo).obj
      <3>1. Typed(Head(todo)) /\ Head(todo) \in Commands
        BY <1>3, Now DEF Lists
      <3>2. Head(todo).comp \in Components /\ o \in Owned[Head(todo).comp]
        BY <1>3, <2>2, <3>1 DEF Typed, Commands
      <3>3. Head(todo).comp = "srv"
        BY <1>1, <3>2, ChainedIs, ObjectFacts DEF Components
      <3>4. "srv" \in made
        <4>1. Head(todo).op \notin {"boot", "abort", "adopt"}
          BY <1>3, OpsApart
        <4>. QED
          BY <1>3, <3>3, <4>1, HeadMade DEF Lists
      <3>5. o \in OfType(type) \cup Routes \cup {"nft UA3F"}
        BY <1>3, <2>2, <3>1, <3>3 DEF Typed
      <3>6. o \in OfType(type)
        BY <3>5, ChainedIs
      <3>. QED
        BY <1>3, <3>4, <3>6
    <2>. QED
      BY <2>1, <2>2
  <1>4. CASE Head(todo).obj \in Objects /\ kern' = Deleted(kern, Head(todo).obj)
    <2>1. kern' \in [Objects -> Nat] /\ kern'[o] <= kern[o]
      BY <1>1, <1>4, DeletedIs
    <2>. QED
      BY <1>1, <2>1
  <1>5. CASE \A x \in Objects : kern'[x] # kern[x] => x \in Hooks \cup {Qdisc.wan, Qdisc.wwan}
    BY <1>1, <1>5
  <1>6. CASE kern' = [kern EXCEPT ![SkipSet] = 1]
    BY <1>1, <1>6
  <1>. QED
    BY <1>2, <1>3, <1>4, <1>5, <1>6 DEF Touches

Live == {"starting", "restarting", "up"}

(* A process that goes on, and one that begins to end. *)
LEMMA WhereRun ==
    ASSUME Lists, Where, Touches, process \in Live, process' \in Live, UNCHANGED <<type, dirty>>,
           made \subseteq made'
    PROVE  Where'
  <1>1. SUFFICES ASSUME NEW o \in Chained, kern'[o] > 0, ~Left(o) PROVE "srv" \in made /\ o \in OfType(type)
    BY DEF Where, Chained, Live, Left, OfType
  <1>2. CASE kern[o] > 0
    BY <1>1, <1>2 DEF Where, Chained, Live
  <1>. QED
    BY <1>1, <1>2, NewChained

(* What a start or a running process that ends leaves to CloseSystem. *)
LEMMA WhereSweep ==
    ASSUME Lists, Lists', Where, Touches, process \in Live, process' = "stopping", UNCHANGED <<type, dirty>>,
           "srv" \in made => \E e \in Configs : Sweeps(todo', "srv", e)
    PROVE  Where'
  <1>1. \A o \in Chained : kern'[o] > 0 => Left(o) \/ (o \in OfType(type) /\ "srv" \in made)
    <2>1. TAKE o \in Chained
    <2>2. HAVE kern'[o] > 0
    <2>3. CASE kern[o] > 0
      BY <2>3 DEF Where, Chained, Live
    <2>. QED
      BY <2>2, <2>3, NewChained
  <1>2. \A o : (Left(o)' <=> Left(o)) /\ OfType(type)' = OfType(type)
    BY DEF Left, OfType
  <1>3. CASE "srv" \in made
    <2>1. PICK e \in Configs : Sweeps(todo', "srv", e)
      BY <1>3
    <2>2. Sweeps(todo, "srv", e)'
      <3>1. Removable("srv", e)' = Removable("srv", e)
        BY DEF Removable, OfType
      <3>. QED
        BY <2>1, <3>1 DEF Sweeps, Del, Shuts, Before, Do, Waits
    <2>3. (\A x \in Chained : kern[x] > 0 => Left(x) \/ x \in OfType(type))'
      BY <1>1, <1>2
    <2>. QED
      BY <2>2, <2>3, SweptWhereNext DEF Lists
  <1>4. CASE "srv" \notin made
    BY <1>1, <1>2, <1>4 DEF Where, Chained
  <1>. QED
    BY <1>3, <1>4

LEMMA MessWhere ==
    ASSUME Lists, Lists', Stages, Where, Touches, NEW U, Mess(U)
    PROVE  Where'
  <1>1. PICK b : b = Head(todo).comp
    OBVIOUS
  <1>2. /\ b \in Components /\ Plan /\ process \in {"starting", "restarting"} /\ Still /\ UNCHANGED made
        /\ U \in Seq(Commands) /\ (\A x \in ToSet(U) : x.comp = b /\ x.op \in {"delete", "watch"})
        /\ Head(todo).op \in InstallOps \cup {"open", "shut"}
    BY <1>1, MessIs
  <1>3. Quits(U)
    BY DEF Mess
  <1>4. type' = type /\ dirty' = dirty
    BY <1>2 DEF Still
  <1>5. CASE process = "restarting"
    <2>1. process' = "restarting"
      BY <1>3, <1>5, QuitsIs
    <2>. QED
      BY <1>2, <1>4, <1>5, <2>1, WhereRun DEF Live
  <1>6. CASE process = "starting"
    <2>1. process' = "stopping" /\ todo' = U \o CloseSystem
      BY <1>3, <1>6, QuitsIs
    <2>2. type \in Types /\ attached \in Seq(Hooks) /\ cfg["srv"] \in Configs /\ next \in Configs /\ "srv" \in Components
      BY DEF Lists, TypeInv, Types, Components
    <2>3. CloseSystem \in Seq(Commands) /\ ("srv" \in made => Sweeps(CloseSystem, "srv", cfg["srv"]))
      BY <2>2, CloseFacts
    <2>4. PICK V \in Seq(Commands) : V = CloseSystem
      BY <2>3
    <2>5. U \o V = todo'
      BY <2>1, <2>4
    <2>6. ASSUME "srv" \in made PROVE \E e \in Configs : Sweeps(todo', "srv", e)
      <3>1. CASE b = "srv" /\ Head(todo).op \in PutOps \cup {"fail"}
        <4>1. Sweeps(U, "srv", next)
          BY <1>1, <3>1 DEF Mess
        <4>2. Sweeps(todo', "srv", next)
          BY <1>2, <2>5, <4>1, SweepsJoin
        <4>. QED
          BY <2>2, <4>2
      <3>2. CASE ~(b = "srv" /\ Head(todo).op \in PutOps \cup {"fail"})
        <4>1. b = "srv" => U = <<>>
          <5>1. HAVE b = "srv"
          <5>2. Typed(Head(todo))
            BY <1>3, Now DEF Lists, Quits
          <5>3. Head(todo).op \notin {"qdisc", "filter"}
            BY <1>1, <5>1, <5>2 DEF Typed
          <5>. QED
            BY <1>2, <3>2, <5>1, <5>3, MessOps DEF Mess
        <4>2. (\A o \in Removable("srv", cfg["srv"]) : Del("srv", o) \notin ToSet(U)) /\ Shuts("srv") \notin ToSet(U)
          <5>1. \A x \in ToSet(U) : x.comp # "srv"
            BY <1>2, <4>1, Empty
          <5>. QED
            BY <5>1, DelOf
        <4>3. Sweeps(todo', "srv", cfg["srv"])
          BY <1>2, <2>3, <2>4, <2>5, <2>6, <4>2, SweepsJoin
        <4>. QED
          BY <2>2, <4>3
      <3>. QED
        BY <3>1, <3>2
    <2>. QED
      BY <1>4, <1>6, <2>1, <2>6, WhereSweep DEF Live
  <1>. QED
    BY <1>2, <1>5, <1>6

LEMMA StopWhere == Lists /\ Lists' /\ Where /\ Touches /\ Stop => Where'
  <1>1. SUFFICES ASSUME Lists, Lists', Where, Touches, Stop PROVE Where'
    OBVIOUS
  <1>2. process = "up" /\ process' = "stopping" /\ todo' = CloseSystem /\ UNCHANGED <<type, dirty>>
    BY <1>1 DEF Stop, Idle
  <1>3. type \in Types /\ attached \in Seq(Hooks) /\ cfg["srv"] \in Configs /\ "srv" \in Components
    BY <1>1 DEF Lists, TypeInv, Types, Components
  <1>4. "srv" \in made => Sweeps(todo', "srv", cfg["srv"])
    BY <1>2, <1>3, CloseFacts
  <1>. QED
    BY <1>1, <1>2, <1>3, <1>4, WhereSweep DEF Live

(* The commands of CloseSystem. *)
LEMMA WhereClose ==
    ASSUME Lists, Singles, Where, Advance, Orderly, process = "stopping",
           Head(todo).op # "delete" => kern' = kern,
           Head(todo).op = "delete" => Head(todo).obj \in Objects /\ kern' = Deleted(kern, Head(todo).obj)
    PROVE  Where'
  <1>1. SUFFICES ASSUME NEW o \in Chained, kern'[o] > 0, ~Left(o) PROVE o \in OfType(type) /\ Doomed("srv", o)'
    BY DEF Where, Chained, Left, OfType, Advance
  <1>2. kern \in [Objects -> Nat] /\ o \in Objects /\ o \in Owned["srv"] /\ "srv" \in Components /\ Proceeds
    BY ChainedIs, AdvanceProceeds DEF Lists, TypeInv, Components
  <1>3. kern[o] > 0
    <2>1. CASE Head(todo).op = "delete"
      <3>1. kern' \in [Objects -> Nat] /\ kern'[o] <= kern[o]
        BY <1>2, <2>1, DeletedIs
      <3>. QED
        BY <1>1, <1>2, <3>1
    <2>. QED
      BY <1>1, <2>1
  <1>4. o \in OfType(type) /\ Doomed("srv", o)
    BY <1>1, <1>3 DEF Where, Chained
  <1>5. Gonner("srv", o)
    BY <1>4 DEF Gonner
  <1>6. Gonner("srv", o)'
    <2>1. CASE Head(todo).op = "delete"
      BY <1>2, <1>5, <2>1, GonnerDelete
    <2>2. CASE Head(todo).op # "delete"
      BY <1>2, <1>5, <2>2, GonnerKeep
    <2>. QED
      BY <2>1, <2>2
  <1>. QED
    BY <1>1, <1>4, <1>6 DEF Gonner

(* A kill, a start, the end. *)
LEMMA KilledWhere ==
    ASSUME Lists, Where, Killed, type' = type, Running
    PROVE  Where'
  <1>1. SUFFICES ASSUME NEW o \in Chained, kern'[o] > 0 PROVE Left(o)'
    BY DEF Where, Chained
  <1>2. kern[o] > 0
    BY <1>1, ChainedIs DEF Killed, Lists, TypeInv, Hooks
  <1>3. Left(o) \/ o \in OfType(type)
    BY <1>2 DEF Where, Chained
  <1>4. dirty' = dirty \cup {type}
    BY DEF Killed
  <1>. QED
    BY <1>3, <1>4 DEF Left, OfType

LEMMA BootWhere == Where /\ Boot => Where'
  BY DEF Where, Boot, Running, Left, OfType

LEMMA FinishWhere == Lists /\ Where /\ Touches /\ Finish => Where'
  <1>1. SUFFICES ASSUME Lists, Where, Touches, Finish PROVE Where'
    OBVIOUS
  <1>2. process \in {"starting", "restarting", "stopping"} /\ todo = <<>> /\ process' = (IF process = "stopping" THEN "exited" ELSE "up")
        /\ UNCHANGED <<kern, type, made, dirty>>
    BY <1>1 DEF Finish
  <1>3. T = {}
    BY <1>1, <1>2, NoTodo
  <1>4. CASE process = "stopping"
    BY <1>1, <1>2, <1>3, <1>4 DEF Where, Doomed, Left, OfType
  <1>5. CASE process # "stopping"
    BY <1>1, <1>2, <1>5, WhereRun DEF Live
  <1>. QED
    BY <1>4, <1>5

LEMMA SameWhere ==
    ASSUME Lists, Where, UNCHANGED <<process, type, made, dirty, todo>>,
           \A o \in Objects : kern'[o] # kern[o] => o = SkipSet
    PROVE  Where'
  <1>1. \A o \in Chained : kern'[o] = kern[o] /\ \A x \in Waits(o) : kern'[x] = kern[x]
    <2>1. TAKE o \in Chained
    <2>2. \A x \in Chained : kern'[x] = kern[x]
      BY ChainedIs
    <2>. QED
      BY <2>2, ChainedIs
  <1>2. SUFFICES ASSUME NEW o \in Chained, kern[o] > 0, ~Left(o), process = "stopping", Doomed("srv", o) PROVE Doomed("srv", o)'
    BY <1>1 DEF Where, Chained, Left, OfType
  <1>3. o \notin Rules \cup Hooks
    BY ChainedIs
  <1>. QED
    BY <1>1, <1>2, <1>3 DEF Doomed, InWay, T

(* A command that succeeds. *)
LEMMA ProceedWhere ==
    ASSUME Lists, Singles, Where, Touches, NEW ops, Doing(ops), Proceed, Steady, UNCHANGED dirty,
           made \subseteq made',
           ops \cap {"boot", "abort"} = {},
           process = "stopping" /\ Head(todo).op # "delete" => kern' = kern,
           Head(todo).op = "delete" => kern' = Deleted(kern, Head(todo).obj)
    PROVE  Where'
  <1>1. Advance /\ Orderly /\ process' = process /\ type' = type /\ dirty' = dirty /\ process \in Live \cup {"stopping"}
    <2>1. Advance
      BY ProceedAdvance
    <2>2. Running
      BY DEF Doing
    <2>. QED
      BY <2>1, <2>2, AdvanceOrderly DEF Proceed, Steady, Running, Live
  <1>2. CASE process = "stopping"
    <2>1. Head(todo).op = "delete" => Head(todo).obj \in Objects
      BY Ready
    <2>. QED
      BY <1>1, <1>2, <2>1, WhereClose
  <1>3. CASE process \in Live
    BY <1>1, <1>3, WhereRun
  <1>. QED
    BY <1>1, <1>2, <1>3

(* The steps that may end in an error. *)
LEMMA FallibleWhere ==
    ASSUME Lists, Lists', Singles, Stages, Where, Touches, Put \/ Try \/ Fault \/ NoBackend \/ TcFails \/ Shut
    PROVE  Where'
  <1>1. ASSUME NEW ops, ops \subseteq PutOps, Doing(ops), Proceed, Steady, UNCHANGED <<made, dirty>> PROVE Where'
    <2>1. Doing(PutOps \cup {"fail", "open", "tcx", "nowan", "qdisc", "filter", "boot"})
      BY <1>1 DEF Doing
    <2>2. process \in {"starting", "restarting"}
      BY <2>1, PutRuns
    <2>3. process' = process /\ type' = type
      BY <1>1 DEF Proceed, Steady
    <2>. QED
      BY <1>1, <2>2, <2>3, WhereRun DEF Live
  <1>2. CASE Put
    <2>1. CASE Command.op = "create" /\ kern[Command.obj] # 0
      BY <1>2, <2>1, PutMess, MessWhere
    <2>2. CASE ~(Command.op = "create" /\ kern[Command.obj] # 0)
      <3>1. Doing({"create", "put", "fill"}) /\ Proceed /\ Steady /\ UNCHANGED <<made, dirty>>
        BY <1>2, <2>2 DEF Put
      <3>. QED
        BY <1>1, <3>1, OpsApart
    <2>. QED
      BY <2>1, <2>2
  <1>3. CASE Try
    <2>1. Doing({"try"}) /\ Proceed /\ Steady /\ UNCHANGED <<made, dirty>>
      BY <1>3 DEF Try
    <2>. QED
      BY <1>1, <2>1, OpsApart
  <1>4. CASE Fault
    <2>1. CASE Command.op = "try"
      <3>1. Doing({"try"}) /\ Proceed /\ Steady /\ UNCHANGED <<made, dirty>>
        BY <1>4, <2>1 DEF Fault, Doing
      <3>. QED
        BY <1>1, <3>1, OpsApart
    <2>2. CASE Command.op # "try"
      BY <1>4, <2>2, FaultMess, MessWhere
    <2>. QED
      BY <2>1, <2>2
  <1>5. CASE NoBackend \/ TcFails
    BY <1>5, NoBackendMess, TcFailsMess, MessWhere
  <1>6. CASE Shut
    <2>1. CASE Doing({"shut"}) /\ Proceed /\ Steady /\ UNCHANGED <<kern, cfg, made, attached, watching, dirty>>
      <3>1. Head(todo).op = "shut"
        BY <2>1, Ready
      <3>2. {"shut"} \cap {"boot", "abort"} = {}
        OBVIOUS
      <3>. QED
        BY <2>1, <3>1, <3>2, ProceedWhere
    <2>2. CASE Mess(<<>>)
      BY <2>2, MessWhere
    <2>3. CASE Killed /\ Running /\ UNCHANGED <<host, type, next, cfg, made, starts, failures>>
      BY <2>3, KilledWhere
    <2>. QED
      BY <1>6, <2>1, <2>2, <2>3, ShutIs
  <1>. QED
    BY <1>2, <1>3, <1>4, <1>5, <1>6

LEMMA BuildWhere ==
    ASSUME Lists, Where, Touches, Build
    PROVE  Where'
  <1>1. Doing({"boot", "adopt", "abort"}) /\ Steady /\ UNCHANGED <<kern, attached, watching, blocked, faults, dirty>>
    BY DEF Build
  <1>2. Command = Head(todo) /\ Command.op \in {"boot", "adopt", "abort"} /\ todo # <<>> /\ Lists
    BY <1>1, Ready
  <1>3. process \in Live
    BY <1>2, Now DEF Lists, Live
  <1>4. type' = type /\ dirty' = dirty
    BY <1>1 DEF Steady
  <1>5. process' \in Live /\ made \subseteq made'
    BY <1>2, <1>3 DEF Build, Proceed, Live
  <1>. QED
    BY <1>3, <1>4, <1>5, WhereRun

(* The steps that are not about servers. *)
LEMMA TcWhere ==
    ASSUME Lists, Where, Touches, AttachTCX \/ EnsureQdisc \/ AttachFilter \/ Open
    PROVE  Where'
  <1>1. Doing(PutOps \cup {"fail", "open", "tcx", "nowan", "qdisc", "filter", "boot"})
    BY DEF AttachTCX, EnsureQdisc, AttachFilter, Open, Doing
  <1>2. process \in {"starting", "restarting"}
    BY <1>1, PutRuns
  <1>3. UNCHANGED <<process, type, dirty, made>>
    BY DEF AttachTCX, EnsureQdisc, AttachFilter, Open, Steady, Proceed
  <1>. QED
    BY <1>2, <1>3, WhereRun DEF Live

LEMMA PlainWhere ==
    ASSUME Lists, Singles, Where, Touches, Delete \/ StartWatch \/ Detach
    PROVE  Where'
  <1>1. CASE Delete
    <2>1. Doing({"delete"}) /\ Proceed /\ Steady /\ UNCHANGED <<made, dirty>> /\ kern' = Deleted(kern, Command.obj)
      BY <1>1 DEF Delete
    <2>2. Head(todo).op = "delete" /\ Command = Head(todo)
      BY <2>1, Ready
    <2>3. {"delete"} \cap {"boot", "abort"} = {}
      OBVIOUS
    <2>. QED
      BY <2>1, <2>2, <2>3, ProceedWhere
  <1>2. CASE StartWatch \/ Detach
    <2>1. Doing({"watch", "detach"}) /\ Proceed /\ Steady /\ UNCHANGED <<made, dirty, kern>>
      BY <1>2 DEF StartWatch, Detach, Doing
    <2>2. Head(todo).op \in {"watch", "detach"}
      BY <2>1, Ready
    <2>3. {"watch", "detach"} \cap {"boot", "abort"} = {}
      OBVIOUS
    <2>. QED
      BY <2>1, <2>2, <2>3, ProceedWhere
  <1>. QED
    BY <1>1, <1>2

(* Where is inductive, given Lists and Stages. *)
LEMMA WhereStep == Lists /\ Lists' /\ Singles /\ Stages /\ Where /\ [Next]_vars => Where'
  <1>1. SUFFICES ASSUME Lists, Lists', Singles, Stages, Where, [Next]_vars PROVE Where'
    OBVIOUS
  <1>2. Touches
    BY <1>1, TouchesIs
  <1>3. CASE Boot
    BY <1>1, <1>3, BootWhere
  <1>4. CASE Restart
    <2>1. process = "up" /\ process' = "restarting" /\ UNCHANGED <<type, dirty, made>>
      BY <1>4 DEF Restart, Idle
    <2>. QED
      BY <1>1, <1>2, <2>1, WhereRun DEF Live
  <1>5. CASE Stop
    BY <1>1, <1>2, <1>5, StopWhere
  <1>6. CASE Finish
    BY <1>1, <1>2, <1>6, FinishWhere
  <1>7. CASE Kill
    BY <1>1, <1>7, KilledWhere DEF Kill
  <1>8. CASE WatchTick
    <2>1. UNCHANGED <<process, type, made, dirty, todo>> /\ kern' = [kern EXCEPT ![SkipSet] = 1]
      BY <1>8 DEF WatchTick
    <2>2. kern \in [Objects -> Nat]
      BY <1>1 DEF Lists, TypeInv
    <2>. QED
      BY <1>1, <2>1, <2>2, SameWhere
  <1>9. CASE UNCHANGED vars
    BY <1>1, <1>9, SameWhere DEF vars
  <1>. QED
    BY <1>1, <1>2, <1>3, <1>4, <1>5, <1>6, <1>7, <1>8, <1>9, FallibleWhere, BuildWhere, TcWhere, PlainWhere DEF Next

(* Every step keeps the stages of the components. *)
LEMMA KernelStep == Lists /\ Lists' /\ Singles /\ Singles' /\ Kernel /\ Where /\ [Next]_vars => Kernel'
  <1>1. SUFFICES ASSUME Lists, Lists', Singles, Singles', Kernel, Where, [Next]_vars PROVE Kernel'
    OBVIOUS
  <1>2. Where'
    BY <1>1, WhereStep DEF Kernel
  <1>3. CASE Boot \/ Restart \/ Stop \/ Finish \/ Kill
    BY <1>1, <1>2, <1>3, BootKernel, RestartKernel, StopKernel, FinishKernel, KilledKernel DEF Kill
  <1>4. CASE Put \/ Try \/ Delete \/ Fault \/ NoBackend
    BY <1>1, <1>4, PutKernel, TryKernel, DeleteStages, FaultKernel, FailsKernel
  <1>5. CASE StartWatch \/ Build \/ Open \/ Shut
    BY <1>1, <1>5, PlainStages, BuildKernel, ShutKernel
  <1>6. CASE AttachTCX \/ EnsureQdisc \/ AttachFilter \/ TcFails \/ Detach
    BY <1>1, <1>6, TcxKernel, QdiscKernel, PlainStages, FailsKernel
  <1>7. CASE WatchTick
    <2>1. UNCHANGED <<host, process, type, cfg, next, made, todo, attached, watching, failed, slipped, starts, dirty>>
          /\ kern' = [kern EXCEPT ![SkipSet] = 1] /\ watching
      BY <1>7 DEF WatchTick, failures, bounds
    <2>2. kern \in [Objects -> Nat]
      BY <1>1 DEF Lists, TypeInv
    <2>3. \A o \in Objects : kern'[o] # kern[o] => o = SkipSet /\ watching /\ kern'[o] = 1
      BY <2>1, <2>2
    <2>. QED
      BY <1>1, <2>1, <2>3, SameKernel
  <1>8. CASE UNCHANGED vars
    <2>1. UNCHANGED <<host, process, type, cfg, next, made, todo, attached, watching, failed, slipped, starts, dirty, kern>>
      BY <1>8 DEF vars, failures, bounds
    <2>. QED
      BY <1>1, <2>1, SameKernel
  <1>. QED
    BY <1>1, <1>3, <1>4, <1>5, <1>6, <1>7, <1>8 DEF Next

(* The programs of the helper. *)
LEMMA HookFacts ==
    /\ Hooks \subseteq Objects /\ Hooks \subseteq Owned["help"] /\ Links \in Hooks /\ AllFilters \subseteq Hooks
    /\ \A o \in Hooks : Waits(o) = {} /\ Del("help", o) = Do("help", "delete", o) /\ o # Ingress
    /\ "help" \in Components /\ "srv" \in Components
    /\ Lists => ToSet(attached) \subseteq Hooks
  <1>1. Hooks \subseteq Objects /\ Hooks \subseteq Owned["help"] /\ "help" \in Components /\ "srv" \in Components
    BY ObjectFacts DEF Components
  <1>2. \A o \in Hooks : o \notin Chains \cup Sets /\ o # Ingress
    BY FilterFacts DEF Chains, Sets, LanSet, SkipSet, Ingress
  <1>3. \A o \in Hooks : Waits(o) = {}
    BY <1>1, <1>2, WaitFacts
  <1>4. Lists => ToSet(attached) \subseteq Hooks
    BY Within DEF Lists, TypeInv
  <1>. QED
    BY <1>1, <1>2, <1>3, <1>4 DEF Hooks, Del

(* A program that is deleted before the helper is shut. *)
LEMMA HookGonner ==
    ASSUME NEW o \in Hooks, kern'[o] = 0 \/ (kern'[o] = 1 /\ Do("help", "delete", o) \in T' /\ Before(todo', Do("help", "delete", o), Shuts("help")))
    PROVE  Gonner("help", o)'
  BY HookFacts, DelOf DEF Gonner, Doomed, Waits

(* Nothing of the helper is to be deleted, before and after. *)
LEMMA HookRest ==
    ASSUME HookInv, ~Unhooking, ~HasDel("help")', \A o \in Hooks : kern'[o] = kern[o],
           Lists, UNCHANGED <<attached, dirty>>
    PROVE  HookInv'
  <1>1. ToSet(attached) \subseteq Hooks /\ Links \in Hooks
    BY HookFacts
  <1>. QED
    BY <1>1 DEF HookInv

(* A list that unhooks what is there. *)
LEMMA HookNew ==
    ASSUME HookInv, Lists, ~Unhooking, \A o \in Hooks : kern'[o] = kern[o], dirty' = dirty,
           Unhooking' \/ attached' = attached,
           HasDel("help")' => \A o \in ToSet(attached) : Do("help", "delete", o) \in T' /\ Before(todo', Do("help", "delete", o), Shuts("help"))
    PROVE  HookInv'
  <1>1. ToSet(attached) \subseteq Hooks /\ Links \in Hooks
    BY HookFacts
  <1>2. \A o \in (IF dirty = {} THEN Hooks ELSE ToSet(attached) \cup {Links}) :
            kern'[o] = kern[o] /\ kern[o] = IF o \in ToSet(attached) THEN 1 ELSE 0
    BY <1>1 DEF HookInv
  <1>3. ASSUME HasDel("help")' PROVE \A o \in (IF dirty = {} THEN Hooks ELSE {Links}) : Gonner("help", o)'
    BY <1>1, <1>2, <1>3, HookGonner
  <1>4. ASSUME ~Unhooking' PROVE \A o \in (IF dirty = {} THEN Hooks ELSE ToSet(attached) \cup {Links}) : kern'[o] = IF o \in ToSet(attached') THEN 1 ELSE 0
    BY <1>2, <1>4
  <1>5. ~Unhooking' => ToSet(attached)' = ToSet(attached)
    OBVIOUS
  <1>. QED
    BY <1>3, <1>4, <1>5 DEF HookInv

(* The run of a component is not left before its last command. *)
LEMMA UnhookingStays ==
    ASSUME Lists, Advance, HasDel("help")', Head(todo).comp = "help" \/ process = "stopping" \/ Aborting
    PROVE  Unhooking'
  <1>1. /\ process' = process /\ (Aborting' <=> Aborting) /\ (Plan' <=> Plan) /\ todo' = Tail(todo) /\ todo # <<>>
        /\ (process = "stopping" \/ Plan \/ Aborting)
    BY AdvanceIs, Now DEF Advance, Lists
  <1>2. CASE process = "stopping" \/ Aborting
    BY <1>1, <1>2 DEF Unhooking, Under
  <1>3. CASE Plan /\ ~Aborting /\ Head(todo).comp = "help"
    <2>1. PICK y \in ToSet(Tail(todo)) : y.comp = "help" /\ y.op = "delete"
      BY <1>1 DEF HasDel, T
    <2>2. Head(todo').comp = "help"
      BY <1>1, <1>3, <2>1, SameRun DEF Lists
    <2>3. Busy("help")'
      BY <1>1, <2>1 DEF Busy, T
    <2>. QED
      BY <1>1, <1>3, <2>2, <2>3 DEF Unhooking, Under
  <1>. QED
    BY <1>1, <1>2, <1>3

LEMMA RunUnhooks ==
    ASSUME Lists, Advance, Unhooking
    PROVE  Head(todo).comp = "help" \/ process = "stopping" \/ Aborting
  BY DEF Unhooking, Under

(* What is going stays so. *)
LEMMA HookKeep ==
    ASSUME HookInv, Lists, Proceeds, Orderly, Head(todo).op # "delete", \A o \in Hooks : kern'[o] = kern[o],
           HasDel("help")'
    PROVE  \A o \in (IF dirty = {} THEN Hooks ELSE {Links}) : Gonner("help", o)'
  <1>1. HasDel("help")
    <2>1. \A x \in T' : x.op = "delete" /\ x.comp = "help" => x \in T
      BY DEF Proceeds
    <2>. QED
      BY <2>1 DEF HasDel
  <1>2. TAKE o \in (IF dirty = {} THEN Hooks ELSE {Links})
  <1>3. o \in Hooks /\ Gonner("help", o) /\ o \in Objects /\ Waits(o) = {} /\ "help" \in Components
    BY <1>1, HookFacts DEF HookInv
  <1>. QED
    BY <1>3, GonnerKeep

(* A step that runs a command other than a deletion. *)
LEMMA HookRun ==
    ASSUME HookInv, Lists, Advance, Head(todo).op # "delete", \A o \in Hooks : kern'[o] = kern[o],
           attached' = attached \/ Head(todo).op = "detach"
    PROVE  HookInv'
  <1>1. Proceeds /\ Orderly /\ dirty' = dirty /\ todo # <<>> /\ Head(todo) \in Commands /\ Typed(Head(todo))
    BY AdvanceProceeds, AdvanceOrderly, Now DEF Advance, Lists
  <1>2. HasDel("help")' <=> HasDel("help")
    BY <1>1, AdvanceIs DEF Lists
  <1>3. HasDel("help")' => \A o \in (IF dirty = {} THEN Hooks ELSE {Links}) : Gonner("help", o)'
    BY <1>1, HookKeep
  <1>4. CASE attached' = attached
    <2>1. Unhooking => Unhooking'
      BY <1>2, UnhookingStays, RunUnhooks DEF Unhooking
    <2>2. ~Unhooking' => \A o \in (IF dirty = {} THEN Hooks ELSE ToSet(attached) \cup {Links}) : kern'[o] = IF o \in ToSet(attached') THEN 1 ELSE 0
      BY <1>4, <2>1, HookFacts DEF HookInv
    <2>. QED
      BY <1>1, <1>3, <1>4, <2>2 DEF HookInv
  <1>5. CASE Head(todo).op = "detach"
    <2>1. Head(todo) = Detaches
      BY <1>1, <1>5, DoIs DEF Typed, Detaches
    <2>2. HasDel("help") /\ Head(todo).comp = "help"
      BY <2>1, HookAdvance, HookNames
    <2>3. Unhooking'
      BY <1>2, <2>2, UnhookingStays
    <2>. QED
      BY <1>1, <1>3, <2>3 DEF HookInv
  <1>. QED
    BY <1>4, <1>5

(* A deletion. *)
LEMMA DeleteHooks ==
    ASSUME HookInv, Lists, Lists', Singles, Delete
    PROVE  HookInv'
  <1>1. Doing({"delete"}) /\ Proceed /\ Steady /\ UNCHANGED <<made, cfg, attached, watching, dirty>> /\ kern' = Deleted(kern, Command.obj)
    BY DEF Delete
  <1>2. /\ Head(todo).op = "delete" /\ Command = Head(todo) /\ Head(todo).obj \in Objects /\ todo # <<>> /\ Head(todo) \in Commands
        /\ Typed(Head(todo)) /\ Head(todo).comp \in Components
    BY <1>1, Ready
  <1>3. {"delete"} \cap {"boot", "abort"} = {}
    OBVIOUS
  <1>4. Advance
    BY <1>1, <1>3, ProceedAdvance
  <1>5. Orderly /\ Proceeds
    BY <1>4, AdvanceOrderly, AdvanceProceeds DEF Lists
  <1>6. kern \in [Objects -> Nat] /\ dirty' = dirty /\ process' = process
    BY <1>1 DEF Lists, TypeInv, Proceed
  <1>7. HasDel("help")' => HasDel("help")
    BY <1>4, AdvanceIs DEF Lists
  <1>8. HasDel("help") => \A o \in (IF dirty = {} THEN Hooks ELSE {Links}) : Gonner("help", o)'
    <2>1. HAVE HasDel("help")
    <2>2. TAKE o \in (IF dirty = {} THEN Hooks ELSE {Links})
    <2>3. o \in Hooks /\ Gonner("help", o) /\ o \in Owned["help"] /\ "help" \in Components
      BY <2>1, HookFacts DEF HookInv
    <2>. QED
      BY <1>1, <1>2, <1>4, <1>5, <2>3, GonnerDelete
  <1>9. CASE Head(todo).comp # "help"
    <2>1. \A o \in Hooks : kern'[o] = kern[o]
      <3>1. Head(todo).obj \in Owned[Head(todo).comp]
        BY <1>2 DEF Typed
      <3>2. Head(todo).obj \notin Owned["help"]
        BY <1>2, <1>9, <3>1, HookFacts, ObjectFacts
      <3>3. Head(todo).obj # HelperTable
        BY <3>2, ObjectFacts
      <3>. QED
        BY <1>1, <1>2, <1>6, <3>2, <3>3, HookFacts, DeletedIs
    <2>2. HasDel("help")' <=> HasDel("help")
      BY <1>4, <1>9, AdvanceIs DEF Lists
    <2>3. Unhooking => Unhooking'
      BY <1>4, <2>2, UnhookingStays, RunUnhooks DEF Unhooking
    <2>4. ~Unhooking' => \A o \in (IF dirty = {} THEN Hooks ELSE ToSet(attached) \cup {Links}) : kern'[o] = IF o \in ToSet(attached') THEN 1 ELSE 0
      BY <1>1, <2>1, <2>3, HookFacts DEF HookInv
    <2>. QED
      BY <1>1, <1>6, <1>7, <1>8, <2>4 DEF HookInv
  <1>10. CASE Head(todo).comp = "help"
    <2>1. HasDel("help")
      BY <1>2, <1>10, Now DEF HasDel, Lists
    <2>2. CASE HasDel("help")'
      <3>1. Unhooking'
        BY <1>4, <1>10, <2>2, UnhookingStays
      <3>. QED
        BY <1>6, <1>8, <2>1, <3>1 DEF HookInv
    <2>3. CASE ~HasDel("help")'
      <3>1. attached = <<>>
        <4>1. process = "stopping" \/ Plan \/ Aborting
          BY <1>2, Now DEF Lists
        <4>2. Head(todo) # Detaches
          BY <1>2, HookNames
        <4>3. CASE Plan
          BY <1>4, <2>1, <2>3, <4>3, HookAdvance
        <4>4. CASE Aborting
          BY <2>1, <4>4 DEF Lists, HookList
        <4>5. CASE process = "stopping"
          <5>1. ASSUME attached # <<>> PROVE FALSE
            <6>1. Detaches \in T' /\ After(todo', Detaches, Do("help", "delete", "QUIC"))
              BY <1>4, <4>2, <4>5, <5>1, HookAdvance
            <6>2. Do("help", "delete", "QUIC") \in T'
              BY <6>1 DEF After, T, ToSet
            <6>. QED
              BY <2>3, <6>2, HookNames DEF HasDel
          <5>. QED
            BY <5>1
        <4>. QED
          BY <4>1, <4>3, <4>4, <4>5
      <3>2. \A o \in (IF dirty = {} THEN Hooks ELSE {Links}) : kern'[o] = 0
        <4>1. TAKE o \in (IF dirty = {} THEN Hooks ELSE {Links})
        <4>2. Gonner("help", o)' /\ o \in Hooks
          BY <1>8, <2>1, HookFacts
        <4>3. Del("help", o) \notin T'
          BY <2>3, DelOf DEF HasDel
        <4>. QED
          BY <4>2, <4>3 DEF Gonner, Doomed, Del
      <3>3. ToSet(attached') = {}
        BY <1>1, <3>1, Empty
      <3>. QED
        BY <1>6, <2>3, <3>2, <3>3 DEF HookInv
    <2>. QED
      BY <2>2, <2>3
  <1>. QED
    BY <1>9, <1>10

(* An error: what the helper has attached is deleted first, or stays. *)
LEMMA MessHooks ==
    ASSUME HookInv, Lists, Lists', Stages, NEW U, Mess(U), \A o \in Hooks : kern'[o] = kern[o],
           Head(todo).op \in {"qdisc", "filter"} => \A o \in ToSet(attached) : Do("help", "delete", o) \in ToSet(U)
    PROVE  HookInv'
  <1>1. PICK b : b = Head(todo).comp
    OBVIOUS
  <1>2. /\ b \in Components /\ b \in made /\ Plan /\ process \in {"starting", "restarting"} /\ Still /\ UNCHANGED made /\ todo # <<>>
        /\ U \in Seq(Commands) /\ (\A x \in ToSet(U) : x.comp = b /\ x.op \in {"delete", "watch"})
        /\ Head(todo).op \in InstallOps \cup {"open", "shut"} /\ dirty' = dirty
    BY <1>1, MessIs DEF Still
  <1>3. Quits(U)
    BY DEF Mess
  <1>4. ~Aborting /\ type \in Types /\ attached \in Seq(Hooks)
    BY <1>2 DEF Plan, Lists, TypeInv, Types
  <1>5. Shuts("help") \notin ToSet(U)
    BY <1>2, HookNames
  (* The helper that is shut has no program left; any other command comes after its deletions. *)
  <1>6. CASE Unhooking
    <2>1. HasDel("help") /\ b = "help"
      BY <1>1, <1>2, <1>4, <1>6 DEF Unhooking, Under
    <2>2. Head(todo).op = "shut"
      BY <1>1, <1>3, <2>1, QuitsIs
    <2>3. Head(todo) = Shuts("help") /\ Head(todo) = todo[1] /\ 1 \in DOMAIN todo
      <3>1. Head(todo) \in Commands /\ Typed(Head(todo)) /\ todo \in Seq(Commands)
        BY <1>2, Now DEF Lists, TypeInv
      <3>2. Head(todo) = Shuts("help")
        BY <1>1, <2>1, <2>2, <3>1, DoIs DEF Typed, Shuts
      <3>. QED
        BY <1>2, <3>1, <3>2
    <2>4. \A x : ~Before(todo, x, Shuts("help"))
      <3>1. todo \in Seq(Commands)
        BY DEF Lists, TypeInv
      <3>. QED
        BY <2>3, <3>1 DEF Before
    <2>5. attached = <<>>
      BY <2>1, <2>4, HookNames DEF Lists, HookList
    <2>6. \A o \in (IF dirty = {} THEN Hooks ELSE {Links}) : kern[o] = 0
      <3>1. TAKE o \in (IF dirty = {} THEN Hooks ELSE {Links})
      <3>2. Gonner("help", o)
        BY <2>1 DEF HookInv
      <3>. QED
        BY <2>4, <3>2, HookNames DEF Gonner, Doomed
    <2>7. attached' = attached /\ ToSet(attached) = {}
      BY <2>2, <2>5, Empty DEF Mess
    <2>. QED
      BY <1>2, <2>6, <2>7, HookFacts DEF HookInv, Gonner
  <1>7. CASE ~Unhooking
    (* What undoes the helper's programs. *)
    <2>1. ASSUME NEW x \in ToSet(U), x.op = "delete", x.comp = "help"
          PROVE  b = "help" /\ (attached = <<>> \/ Head(todo).op \in {"qdisc", "filter"})
      <3>1. b = "help" /\ U # <<>>
        BY <1>2, <2>1, Empty
      <3>2. Head(todo).op \in PutOps \cup {"fail"} \cup {"qdisc", "filter"}
        BY <1>2, <3>1, MessOps DEF Mess
      <3>3. Head(todo).op \in PutOps \cup {"fail"} => attached = <<>>
        <4>1. HAVE Head(todo).op \in PutOps \cup {"fail"}
        <4>2. ~HasDel("help") /\ ~ByBPF("help", next)
          <5>1. Head(todo).op \in InstallOps \cup {"open"}
            BY <4>1 DEF InstallOps
          <5>2. ~HasDel(b) /\ ~ByBPF(b, next)
            BY <1>1, <1>2, <4>1, <5>1, InstallNow
          <5>. QED
            BY <3>1, <5>2
        <4>3. ~UsesBPF
          BY <4>2 DEF ByBPF, UsesBPF
        <4>. QED
          BY <1>2, <4>2, <4>3 DEF Lists, HookList
      <3>. QED
        BY <3>1, <3>2, <3>3
    <2>2. \A x \in ToSet(U) : x.op = "delete" /\ x.comp = "help" => \A o \in ToSet(attached) : Do("help", "delete", o) \in ToSet(U)
      BY <2>1, Empty
    <2>3. CASE process = "restarting"
      <3>1. /\ T' = ToSet(U) \cup {Aborts} /\ Aborts.op = "abort" /\ Aborting' /\ todo' \in Seq(Commands)
        BY <1>3, <2>3, QuitRestart
      <3>2. HasDel("help")' => \A o \in ToSet(attached) : Do("help", "delete", o) \in T' /\ Before(todo', Do("help", "delete", o), Shuts("help"))
        <4>1. HAVE HasDel("help")'
        <4>2. \A o \in ToSet(attached) : Do("help", "delete", o) \in ToSet(U)
          BY <2>2, <3>1, <4>1 DEF HasDel
        <4>3. Shuts("help") \notin T'
          BY <1>5, <3>1, HookNames
        <4>. QED
          BY <3>1, <4>2, <4>3 DEF Before, T, ToSet
      <3>3. Unhooking' \/ attached' = attached
        <4>1. CASE HasDel("help")'
          BY <3>1, <4>1 DEF Unhooking, Under
        <4>2. CASE ~HasDel("help")'
          <5>1. Head(todo).op \in {"qdisc", "filter"} => ToSet(attached) = {}
            BY <3>1, <4>2, DoFields DEF HasDel
          <5>2. Head(todo).op \in {"qdisc", "filter"} => attached = <<>>
            BY <1>4, <5>1, Within
          <5>. QED
            BY <1>2, <5>2, MessOps DEF Mess
        <4>. QED
          BY <4>1, <4>2
      <3>. QED
        BY <1>2, <1>7, <3>2, <3>3, HookNew
    <2>4. CASE process = "starting"
      <3>1. process' = "stopping" /\ todo' = U \o CloseSystem
        BY <1>3, <2>4, QuitsIs
      <3>2. /\ CloseSystem \in Seq(Commands) /\ (\A x \in ToSet(CloseSystem) : x.comp \in made)
            /\ ("help" \in made => Unhooks(CloseSystem))
        BY <1>4, CloseFacts
      <3>3. PICK V \in Seq(Commands) : V = CloseSystem
        BY <3>2
      <3>4. todo' = U \o V /\ T' = ToSet(U) \cup ToSet(V)
        BY <1>2, <3>1, <3>3, Joined DEF T
      <3>5. HasDel("help")' => "help" \in made
        <4>1. HAVE HasDel("help")'
        <4>2. PICK x \in ToSet(U) \cup ToSet(V) : x.comp = "help"
          BY <3>4, <4>1 DEF HasDel
        <4>. QED
          BY <1>2, <3>2, <3>3, <4>2
      <3>6. HasDel("help")' => \A o \in ToSet(attached) : Do("help", "delete", o) \in T' /\ Before(todo', Do("help", "delete", o), Shuts("help"))
        <4>1. HAVE HasDel("help")'
        <4>2. TAKE o \in ToSet(attached)
        <4>3. Del("help", o) = Do("help", "delete", o)
          BY HookFacts
        <4>4. Do("help", "delete", o) \in ToSet(V) /\ Before(V, Do("help", "delete", o), Shuts("help"))
          BY <3>2, <3>3, <3>5, <4>1, <4>3 DEF Unhooks
        <4>. QED
          BY <1>2, <1>5, <3>4, <4>4, JoinBefore
      <3>7. Unhooking' \/ attached' = attached
        <4>1. CASE HasDel("help")'
          BY <3>1, <4>1 DEF Unhooking
        <4>2. CASE ~HasDel("help")'
          <5>1. Head(todo).op \in {"qdisc", "filter"} => ToSet(attached) = {}
            BY <3>4, <4>2, DoFields DEF HasDel
          <5>2. Head(todo).op \in {"qdisc", "filter"} => attached = <<>>
            BY <1>4, <5>1, Within
          <5>. QED
            BY <1>2, <5>2, MessOps DEF Mess
        <4>. QED
          BY <4>1, <4>2
      <3>. QED
        BY <1>2, <1>7, <3>6, <3>7, HookNew
    <2>. QED
      BY <1>2, <2>3, <2>4
  <1>. QED
    BY <1>6, <1>7

(* Between two lists nothing is being detached. *)
LEMMA NothingQueued ==
    ASSUME Lists, HookInv, todo = <<>>
    PROVE  ~Unhooking /\ ~HasDel("help")
  BY NoTodo DEF Unhooking

(* A command of an installation leaves the helper's programs alone. *)
LEMMA PutApart ==
    ASSUME Lists, NEW ops, Doing(ops), ops \subseteq PutOps, kern' \in {kern, Installed(kern, Command)}
    PROVE  \A o \in Hooks : kern'[o] = kern[o]
  <1>1. Command = Head(todo) /\ Head(todo).op \in PutOps /\ Typed(Head(todo)) /\ Head(todo).obj \in Objects /\ kern \in [Objects -> Nat]
    BY Ready DEF Lists, TypeInv
  <1>2. Head(todo).obj \notin Hooks
    BY <1>1 DEF Typed
  <1>. QED
    BY <1>1, <1>2, InstalledIs, HookFacts

LEMMA ProceedHooks ==
    ASSUME HookInv, Lists, NEW ops, Doing(ops), Proceed, Steady, UNCHANGED dirty,
           ops \cap {"delete", "boot", "abort"} = {},
           \A o \in Hooks : kern'[o] = kern[o], attached' = attached \/ Head(todo).op = "detach"
    PROVE  HookInv'
  <1>1. Head(todo).op \in ops
    BY Ready
  <1>2. ops \cap {"boot", "abort"} = {} /\ Head(todo).op # "delete"
    BY <1>1
  <1>3. Advance
    BY <1>2, ProceedAdvance
  <1>. QED
    BY <1>2, <1>3, HookRun

(* The steps that end a list or make a new one. *)
LEMMA KilledHooks ==
    ASSUME Lists, Killed
    PROVE  HookInv'
  <1>1. kern \in [Objects -> Nat] /\ Links \in Objects
    BY HookFacts DEF Lists, TypeInv
  <1>2. T' = {} /\ ToSet(attached') = {} /\ dirty' # {} /\ kern'[Links] = 0
    BY <1>1, Empty DEF Killed, T
  <1>3. ~HasDel("help")'
    BY <1>2 DEF HasDel
  <1>. QED
    BY <1>2, <1>3 DEF HookInv

LEMMA BootHooks == Lists /\ HookInv /\ Boot => HookInv'
  <1>1. SUFFICES ASSUME Lists, HookInv, Boot PROVE HookInv'
    OBVIOUS
  <1>2. ~Running /\ attached' = <<>> /\ kern' = kern /\ dirty' = dirty /\ todo' = <<Boots>>
    BY <1>1 DEF Boot, Boots
  <1>3. attached = <<>> /\ todo = <<>>
    BY <1>1, <1>2 DEF Lists, HookList, ListInv, Running
  <1>4. ~HasDel("help")'
    <2>1. PICK x : x = Boots
      OBVIOUS
    <2>2. T' = {x} /\ x.op = "boot"
      BY <1>2, <2>1, Tuples, DoFields DEF T, Boots
    <2>. QED
      BY <2>2 DEF HasDel
  <1>. QED
    BY <1>1, <1>2, <1>3, <1>4, NothingQueued, HookRest

LEMMA RestartHooks == Lists /\ HookInv /\ Restart => HookInv'
  <1>1. SUFFICES ASSUME Lists, HookInv, Restart PROVE HookInv'
    OBVIOUS
  <1>2. process = "up" /\ UNCHANGED <<kern, attached, dirty, type>> /\ process' = "restarting" /\ \E c \in Configs : todo' = RestartSystem(c)
    BY <1>1 DEF Restart, Idle
  <1>3. PICK c \in Configs : todo' = RestartSystem(c)
    BY <1>2
  <1>4. type \in Types /\ attached \in Seq(Hooks) /\ "help" \in made /\ todo = <<>>
    BY <1>1, <1>2 DEF Lists, TypeInv, ListInv, JobInv, Types
  <1>5. Unhooks(todo') /\ Head(todo').comp = "srv" /\ \A x \in T' : x.op # "abort"
    BY <1>3, <1>4, RestartFacts DEF T
  <1>6. ~Aborting'
    BY <1>5, DoFields DEF Aborting, Aborts
  <1>7. ~Unhooking'
    BY <1>2, <1>5, <1>6 DEF Unhooking, Under
  <1>8. \A o \in ToSet(attached) : Do("help", "delete", o) \in T' /\ Before(todo', Do("help", "delete", o), Shuts("help"))
    BY <1>1, <1>5, HookFacts DEF Unhooks, T
  <1>. QED
    BY <1>1, <1>2, <1>4, <1>8, NothingQueued, HookNew

LEMMA StopHooks == Lists /\ HookInv /\ Stop => HookInv'
  <1>1. SUFFICES ASSUME Lists, HookInv, Stop PROVE HookInv'
    OBVIOUS
  <1>2. process = "up" /\ UNCHANGED <<kern, attached, dirty>> /\ process' = "stopping" /\ todo' = CloseSystem
    BY <1>1 DEF Stop, Idle
  <1>3. type \in Types /\ attached \in Seq(Hooks) /\ "help" \in made /\ todo = <<>>
    BY <1>1, <1>2 DEF Lists, TypeInv, ListInv, JobInv, Types
  <1>4. Unhooks(todo')
    BY <1>2, <1>3, CloseFacts
  <1>5. \A o \in ToSet(attached) : Do("help", "delete", o) \in T' /\ Before(todo', Do("help", "delete", o), Shuts("help"))
    BY <1>1, <1>4, HookFacts DEF Unhooks, T
  <1>. QED
    BY <1>1, <1>2, <1>3, <1>5, NothingQueued, HookNew

LEMMA BuildHooks == Lists /\ HookInv /\ Build => HookInv'
  <1>1. SUFFICES ASSUME Lists, HookInv, Build PROVE HookInv'
    OBVIOUS
  <1>2. /\ Doing({"boot", "adopt", "abort"}) /\ Steady /\ UNCHANGED <<kern, attached, dirty>>
        /\ Command = Head(todo) /\ todo # <<>> /\ Head(todo).op \in {"boot", "adopt", "abort"} /\ TypeInv /\ ListInv
    BY <1>1, Ready DEF Build
  <1>3. CASE Head(todo).op = "adopt"
    <2>1. Proceed /\ Doing({"adopt"})
      BY <1>1, <1>2, <1>3 DEF Build, Doing
    <2>2. {"adopt"} \cap {"delete", "boot", "abort"} = {}
      OBVIOUS
    <2>. QED
      BY <1>1, <1>2, <2>1, <2>2, ProceedHooks
  <1>4. CASE Head(todo).op = "abort"
    <2>1. todo' = <<>>
      BY <1>1, <1>2, <1>4 DEF Build
    <2>2. ~HasDel("help")'
      BY <2>1, NoneLeft
    <2>3. T = {Aborts} /\ Aborts.op = "abort"
      <3>1. Head(todo) = Aborts /\ Aborting /\ T = {Head(todo)} \cup ToSet(Tail(todo))
        BY <1>2, <1>4, Now
      <3>2. DOMAIN todo = 1..Len(todo) /\ Len(todo) \in Nat \ {0} /\ todo[1] = Head(todo) /\ todo \in Seq(Commands)
        BY <1>2, Parts DEF TypeInv
      <3>3. Len(todo) = 1
        BY <1>2, <3>1, <3>2 DEF ListInv
      <3>4. T = {Aborts}
        BY <3>1, <3>2, <3>3 DEF T, ToSet
      <3>. QED
        BY <1>4, <3>1, <3>4
    <2>4. ~Unhooking
      BY <2>3 DEF Unhooking, HasDel
    <2>. QED
      BY <1>1, <1>2, <2>2, <2>4, HookRest
  <1>5. CASE Head(todo).op = "boot"
    <2>1. todo' = StartSystem(next) /\ process' = process
      BY <1>1, <1>2, <1>5 DEF Build, failures
    <2>2. Booting /\ Head(todo) = Boots
      BY <1>2, <1>5, Now
    <2>3. todo = <<Boots>> /\ attached = <<>>
      BY <1>2, <2>2 DEF ListInv
    <2>4. T = {Boots} /\ Boots.op = "boot" /\ ToSet(attached) = {}
      BY <1>5, <2>2, <2>3, Tuples, Empty DEF T
    <2>5. ~Unhooking
      BY <2>4 DEF Unhooking, HasDel
    <2>6. next \in Configs /\ type \in Types
      BY <1>2 DEF TypeInv, Types
    <2>7. Head(todo') = Adopts("help") /\ todo' # <<>> /\ todo' \in Seq(Commands) /\ \A x \in T' : x.op \notin {"boot", "abort", "shut", "detach"}
      BY <2>1, <2>6, StartFacts DEF T
    <2>8. Head(todo') \in T' /\ Head(todo').comp = "help" /\ Head(todo').op = "adopt"
      BY <2>7, Parts, DoFields DEF T, Adopts
    <2>9. ~Aborting' /\ Busy("help")'
      BY <2>7, <2>8, DoFields DEF Aborting, Aborts, Busy
    <2>10. HasDel("help")' => Unhooking'
      BY <2>8, <2>9 DEF Unhooking, Under
    <2>. QED
      BY <1>1, <1>2, <2>4, <2>5, <2>10, HookNew
  <1>. QED
    BY <1>2, <1>3, <1>4, <1>5

(* The helper attaches its programs. *)
LEMMA AttachHooks == Lists /\ Stages /\ HookInv /\ (AttachTCX \/ EnsureQdisc \/ AttachFilter) => HookInv'
  <1>1. SUFFICES ASSUME Lists, Stages, HookInv, AttachTCX \/ EnsureQdisc \/ AttachFilter PROVE HookInv'
    OBVIOUS
  <1>2. /\ Doing({"tcx", "qdisc", "filter"}) /\ Steady /\ UNCHANGED <<made, cfg, watching, dirty>>
        /\ Command = Head(todo) /\ todo # <<>> /\ Head(todo).op \in {"tcx", "qdisc", "filter"} /\ Typed(Head(todo)) /\ TypeInv
    <2>1. Doing({"tcx", "qdisc", "filter"}) /\ Steady /\ UNCHANGED <<made, cfg, watching, dirty>>
      BY <1>1 DEF AttachTCX, EnsureQdisc, AttachFilter, Doing
    <2>. QED
      BY <1>1, <2>1, Ready
  <1>3. Head(todo).comp = "help"
    BY <1>2 DEF Typed
  <1>4. Plan /\ ~HasDel("help")
    <2>1. Head(todo).op \in InstallOps \cup {"open"}
      BY <1>2 DEF InstallOps
    <2>2. "help" \in Components
      BY HookFacts
    <2>. QED
      BY <1>1, <1>2, <1>3, <2>1, <2>2, InstallNow
  <1>5. ~Unhooking
    BY <1>4 DEF Unhooking
  <1>6. kern \in [Objects -> Nat] /\ attached \in Seq(Hooks) /\ ToSet(attached) \subseteq Hooks
    BY <1>1, <1>2, HookFacts DEF TypeInv
  <1>7. \A o \in (IF dirty = {} THEN Hooks ELSE ToSet(attached) \cup {Links}) : kern[o] = IF o \in ToSet(attached) THEN 1 ELSE 0
    BY <1>1, <1>5 DEF HookInv
  <1>8. ASSUME Proceed PROVE ~HasDel("help")'
    <2>1. {"tcx", "qdisc", "filter"} \cap {"boot", "abort"} = {}
      OBVIOUS
    <2>2. Advance
      BY <1>1, <1>2, <1>8, <2>1, ProceedAdvance
    <2>. QED
      BY <1>1, <1>4, <2>2, AdvanceIs DEF Lists
  <1>9. ASSUME NEW L, Programs(L), Grow(L) PROVE ~HasDel("help")'
    <2>1. Proceeds
      BY <1>1, <1>9, GrowIs
    <2>2. \A x \in T' : x.op = "delete" => x \in T
      BY <2>1 DEF Proceeds
    <2>. QED
      BY <1>4, <2>2 DEF HasDel
  <1>10. CASE AttachTCX
    <2>1. Doing({"tcx"})
      BY <1>10 DEF AttachTCX
    <2>2. Head(todo).op = "tcx" /\ Head(todo) \in T
      BY <1>1, <1>2, <2>1, Ready, Now DEF Lists
    <2>3. CASE kern' = [kern EXCEPT ![Links] = 1] /\ attached' = <<Links>> /\ Proceed
      <3>1. First
        BY <2>2 DEF First
      <3>2. attached = <<>>
        BY <1>1, <1>4, <3>1 DEF Lists, HookList
      <3>3. ToSet(attached') = {Links} /\ ToSet(attached) = {}
        BY <2>3, <3>2, Tuples, Empty
      <3>4. \A o \in Hooks : kern'[o] = IF o = Links THEN 1 ELSE kern[o]
        BY <1>6, <2>3, HookFacts
      <3>5. ~HasDel("help")'
        BY <1>8, <2>3
      <3>. QED
        BY <1>2, <1>7, <3>3, <3>4, <3>5, HookFacts DEF HookInv
    <2>4. CASE todo' = attachAllClassic \o Tail(todo) /\ UNCHANGED <<kern, attached, process, failures>>
      <3>1. Grow(attachAllClassic)
        BY <1>2, <2>2, <2>4 DEF Grow, Steady, failures
      <3>2. host \in Hosts
        BY <1>2 DEF TypeInv
      <3>3. Programs(attachAllClassic)
        <4>1. PICK L : L = attachAllClassic
          OBVIOUS
        <4>. QED
          BY <3>2, <4>1, QdiscList, HookNames DEF Programs
      <3>4. ~HasDel("help")'
        BY <1>9, <3>1, <3>3
      <3>. QED
        BY <1>1, <1>2, <1>5, <2>4, <3>4, HookRest
    <2>. QED
      BY <1>10, <2>3, <2>4 DEF AttachTCX
  <1>11. CASE EnsureQdisc
    <2>1. Doing({"qdisc"})
      BY <1>11 DEF EnsureQdisc
    <2>2. Head(todo).op = "qdisc" /\ Head(todo).obj \in Interfaces /\ next \in Configs
      BY <1>1, <1>2, <2>1, Ready DEF TypeInv
    <2>3. Grow(addClsBpfFilters(next, Head(todo).obj)) /\ kern' = [kern EXCEPT ![Qdisc[Head(todo).obj]] = 1] /\ attached' = attached
      BY <1>2, <1>11, <2>2 DEF EnsureQdisc, Grow, Steady, failures
    <2>4. PICK L : L = addClsBpfFilters(next, Head(todo).obj)
      OBVIOUS
    <2>5. Programs(L)
      BY <2>2, <2>4, FilterList, HookNames DEF Programs
    <2>6. ~HasDel("help")'
      BY <1>9, <2>3, <2>4, <2>5
    <2>7. \A o \in Hooks : kern'[o] = kern[o]
      BY <1>6, <2>2, <2>3, QdiscIs, IptApart, HookFacts
    <2>. QED
      BY <1>1, <1>2, <1>5, <2>3, <2>6, <2>7, HookRest
  <1>12. CASE AttachFilter
    <2>1. /\ Doing({"filter"}) /\ Proceed /\ kern[Head(todo).obj] = 0 /\ kern' = [kern EXCEPT ![Head(todo).obj] = 1]
          /\ attached' = Append(attached, Head(todo).obj)
      BY <1>2, <1>12 DEF AttachFilter
    <2>2. Head(todo).op = "filter"
      BY <1>1, <2>1, Ready
    <2>3. PICK o \in AllFilters : o = Head(todo).obj
      BY <1>2, <2>2 DEF Typed
    <2>4. ToSet(attached') = ToSet(attached) \cup {o}
      BY <1>6, <2>1, <2>3 DEF ToSet
    <2>5. \A p \in Hooks : kern'[p] = IF p = o THEN 1 ELSE kern[p]
      BY <1>6, <2>1, <2>3, HookFacts
    <2>6. ~HasDel("help")'
      BY <1>8, <2>1
    <2>. QED
      BY <1>2, <1>6, <1>7, <2>1, <2>3, <2>4, <2>5, <2>6, HookFacts DEF HookInv
  <1>. QED
    BY <1>1, <1>10, <1>11, <1>12

(* The steps that may end in an error. *)
LEMMA FailHooks ==
    ASSUME HookInv, Lists, Lists', Stages, Where, Put \/ Try \/ Fault \/ NoBackend \/ TcFails \/ Shut
    PROVE  HookInv'
  <1>1. ASSUME NEW ops, ops \subseteq PutOps, Doing(ops), Proceed, Steady, UNCHANGED <<dirty, attached>>, kern' \in {kern, Installed(kern, Command)}
        PROVE  HookInv'
    <2>1. \A o \in Hooks : kern'[o] = kern[o]
      BY <1>1, PutApart
    <2>2. ops \cap {"delete", "boot", "abort"} = {}
      BY <1>1, OpsApart
    <2>. QED
      BY <1>1, <2>1, <2>2, ProceedHooks
  <1>2. ASSUME NEW U, Mess(U), \A o \in Hooks : kern'[o] = kern[o], Head(todo).op \notin {"qdisc", "filter"}
        PROVE  HookInv'
    BY <1>2, MessHooks
  <1>3. CASE Put
    <2>1. /\ Doing({"create", "put", "fill"}) /\ Command = Head(todo) /\ Head(todo).op \in {"create", "put", "fill"}
          /\ Steady /\ UNCHANGED <<dirty, attached>>
      BY <1>3, Ready DEF Put
    <2>2. {"create", "put", "fill"} \subseteq PutOps
      BY OpsApart
    <2>3. CASE Command.op = "create" /\ kern[Command.obj] # 0
      <3>1. \E U : Mess(U)
        BY <1>3, <2>3, PutMess
      <3>2. kern' = kern
        BY <1>3, <2>3 DEF Put
      <3>. QED
        BY <1>2, <2>1, <3>1, <3>2
    <2>4. CASE ~(Command.op = "create" /\ kern[Command.obj] # 0)
      <3>1. Proceed /\ kern' = Installed(kern, Command)
        BY <1>3, <2>4 DEF Put
      <3>. QED
        BY <1>1, <2>1, <2>2, <3>1
    <2>. QED
      BY <2>3, <2>4
  <1>4. CASE Try
    <2>1. Doing({"try"}) /\ Proceed /\ Steady /\ UNCHANGED <<dirty, attached>> /\ kern' \in {kern, Installed(kern, Command)}
      BY <1>4 DEF Try
    <2>2. {"try"} \subseteq PutOps
      BY OpsApart
    <2>. QED
      BY <1>1, <2>1, <2>2
  <1>5. CASE Fault
    <2>1. /\ Doing({"create", "put", "fill", "try", "open"}) /\ Command = Head(todo) /\ Head(todo).op \in {"create", "put", "fill", "try", "open"}
          /\ Steady /\ UNCHANGED <<dirty, attached>>
      BY <1>5, Ready DEF Fault
    <2>2. {"try"} \subseteq PutOps /\ {"create", "put", "fill"} \subseteq PutOps
      BY OpsApart
    <2>3. CASE Command.op = "try"
      <3>1. Doing({"try"}) /\ Proceed /\ kern' = kern
        BY <1>5, <2>1, <2>3 DEF Fault, Doing
      <3>. QED
        BY <1>1, <2>1, <2>2, <3>1
    <2>4. CASE Command.op # "try"
      <3>1. PICK U : Mess(U)
        BY <1>5, <2>4, FaultMess
      <3>2. \A o \in Hooks : kern'[o] = kern[o]
        <4>1. CASE Command.op = "open"
          BY <1>5, <4>1 DEF Fault
        <4>2. CASE Command.op \in {"create", "put", "fill"}
          <5>1. Doing({"create", "put", "fill"}) /\ kern' \in {kern, Installed(kern, Command)}
            BY <1>5, <2>1, <4>2 DEF Fault, Doing
          <5>. QED
            BY <2>2, <5>1, PutApart
        <4>. QED
          BY <2>1, <2>4, <4>1, <4>2
      <3>3. Head(todo).op \notin {"qdisc", "filter"}
        BY <2>1
      <3>. QED
        BY <1>2, <3>1, <3>2, <3>3
    <2>. QED
      BY <2>3, <2>4
  <1>6. CASE NoBackend
    <2>1. \E U : Mess(U)
      BY <1>6, NoBackendMess
    <2>2. Doing({"fail"}) /\ kern' = kern
      BY <1>6 DEF NoBackend
    <2>3. Head(todo).op = "fail"
      BY <2>2, Ready
    <2>. QED
      BY <1>2, <2>1, <2>2, <2>3
  <1>7. CASE TcFails
    <2>1. Doing({"filter", "qdisc", "nowan"}) /\ Steady /\ UNCHANGED <<kern, cfg, made, chan, watching, dirty>>
      BY <1>7 DEF TcFails, Doing
    <2>2. Command = Head(todo) /\ todo # <<>> /\ attached \in Seq(Hooks)
      BY <2>1, Ready DEF Lists, TypeInv
    <2>3. UNCHANGED <<host, type, next, starts, made, cfg, watching, dirty, kern>>
      BY <2>1 DEF Steady
    <2>4. CASE Doing({"filter", "qdisc"}) /\ ClassicFails
      <3>1. Head(todo).op \in {"qdisc", "filter"}
        BY <2>2, <2>4 DEF Doing
      <3>2. Mess(DoAll("help", "delete", attached))
        BY <2>2, <2>3, <2>4, <3>1, ClassicMess
      <3>3. \A o \in ToSet(attached) : Do("help", "delete", o) \in ToSet(DoAll("help", "delete", attached))
        BY <2>2, FilterUndo
      <3>. QED
        BY <2>1, <3>2, <3>3, MessHooks
    <2>5. CASE Doing({"nowan"}) /\ GiveUp(<<>>) /\ UNCHANGED attached
      <3>1. Head(todo).op = "nowan"
        BY <2>2, <2>5 DEF Doing
      <3>2. Mess(<<>>)
        BY <2>2, <2>3, <2>5, <3>1, BareMess
      <3>. QED
        BY <1>2, <2>1, <3>1, <3>2
    <2>. QED
      BY <1>7, <2>4, <2>5 DEF TcFails, Doing
  <1>8. CASE Shut
    <2>1. Doing({"shut"})
      BY <1>8 DEF Shut
    <2>2. Head(todo).op = "shut"
      BY <2>1, Ready
    <2>3. CASE Doing({"shut"}) /\ Proceed /\ Steady /\ UNCHANGED <<kern, cfg, made, attached, watching, dirty>>
      <3>1. {"shut"} \cap {"delete", "boot", "abort"} = {}
        OBVIOUS
      <3>. QED
        BY <2>3, <3>1, ProceedHooks
    <2>4. CASE Mess(<<>>)
      <3>1. kern' = kern
        BY <2>2, <2>4, OpsApart DEF Mess
      <3>. QED
        BY <1>2, <2>2, <2>4, <3>1
    <2>5. CASE Killed
      BY <2>5, KilledHooks
    <2>. QED
      BY <1>8, <2>3, <2>4, <2>5, ShutIs
  <1>. QED
    BY <1>3, <1>4, <1>5, <1>6, <1>7, <1>8

(* HookInv is inductive, given Lists and Stages. *)
LEMMA HookStep == Lists /\ Lists' /\ Singles /\ Stages /\ Where /\ HookInv /\ [Next]_vars => HookInv'
  <1>1. SUFFICES ASSUME Lists, Lists', Singles, Stages, Where, HookInv, [Next]_vars PROVE HookInv'
    OBVIOUS
  <1>2. CASE Boot \/ Restart \/ Stop \/ Kill \/ Build
    BY <1>1, <1>2, BootHooks, RestartHooks, StopHooks, KilledHooks, BuildHooks DEF Kill
  <1>3. CASE Finish
    <2>1. todo = <<>> /\ todo' = todo /\ UNCHANGED <<kern, attached, dirty>>
      BY <1>3 DEF Finish
    <2>2. ~HasDel("help")'
      BY <2>1, NoneLeft
    <2>. QED
      BY <1>1, <2>1, <2>2, NothingQueued, HookRest
  <1>4. CASE StartWatch \/ Open \/ Detach
    <2>1. /\ Doing({"watch", "open", "detach"}) /\ Proceed /\ Steady /\ UNCHANGED <<dirty, kern>>
          /\ attached' = attached \/ Head(todo).op = "detach"
      <3>1. Detach => Head(todo).op = "detach"
        BY DEF Detach, Doing, Command
      <3>. QED
        BY <1>4, <3>1 DEF StartWatch, Open, Detach, Doing
    <2>2. {"watch", "open", "detach"} \cap {"delete", "boot", "abort"} = {}
      OBVIOUS
    <2>. QED
      BY <1>1, <2>1, <2>2, ProceedHooks
  <1>5. CASE WatchTick \/ UNCHANGED vars
    <2>1. UNCHANGED <<process, todo, attached, dirty>> /\ \A o \in Hooks : kern'[o] = kern[o]
      <3>1. kern \in [Objects -> Nat] /\ SkipSet \notin Hooks
        BY <1>1, CoverIn DEF Lists, TypeInv
      <3>. QED
        BY <1>5, <3>1, HookFacts DEF WatchTick, vars
    <2>2. T' = T /\ (Unhooking' <=> Unhooking) /\ (HasDel("help")' <=> HasDel("help"))
      BY <2>1 DEF T, Unhooking, HasDel, Under, Aborting, Busy
    <2>3. \A o \in Hooks : Gonner("help", o) => Gonner("help", o)'
      BY <2>1, <2>2, HookFacts DEF Gonner, Doomed, Before
    <2>4. ToSet(attached) \subseteq Hooks /\ Links \in Hooks
      BY <1>1, HookFacts
    <2>. QED
      BY <1>1, <2>1, <2>2, <2>3, <2>4 DEF HookInv
  <1>. QED
    BY <1>1, <1>2, <1>3, <1>4, <1>5, DeleteHooks, AttachHooks, FailHooks DEF Next

(* A command that finds its object there. *)
LEMMA CreateBlocked ==
    ASSUME Lists, Stages, Put, Command.op = "create", kern[Command.obj] # 0
    PROVE  /\ host.ipt
           /\ dirty \ {type} # {} \/ (Command.obj = SkipSet /\ (type = "TPROXY" \/ watching \/ starts > 1))
  <1>1. Doing({"create"})
    BY DEF Put, Doing
  <1>2. /\ Command = Head(todo) /\ todo # <<>> /\ Head(todo).op = "create" /\ Typed(Head(todo)) /\ Head(todo).obj \in Objects
        /\ Head(todo).comp \in Components /\ Running /\ type \in Types /\ starts \in Nat
    BY <1>1, Ready, OpsApart DEF TypeInv, Types
  <1>3. PICK c \in Components, o \in Objects : c = Head(todo).comp /\ o = Head(todo).obj
    BY <1>2
  <1>4. /\ o \in Owned[c] \ Hooks /\ (o \in IptObjects => host.ipt) /\ o \in Chains \cup Sets \cup {"rule4", "route4"}
        /\ (c = "srv" /\ o \in Routes => type = "TPROXY")
    BY <1>2, <1>3, OpsApart DEF Typed
  <1>5. Head(todo).op \in MakeOps
    BY <1>2, OpsApart
  <1>6. o \in Cover(c) => o = SkipSet /\ ~Tidy
    BY <1>2, <1>3, <1>5, NotYet
  <1>7. SkipSet \in IptObjects /\ Chains \cup Sets \subseteq IptObjects
    BY DEF IptObjects, Sets
  <1>8. CASE o \in Cover(c)
    BY <1>2, <1>3, <1>4, <1>6, <1>7, <1>8 DEF Tidy
  <1>9. CASE o \notin Cover(c) /\ dirty = {}
    <2>1. o \in StrayTTL
      BY <1>4, <1>9 DEF Cover
    <2>2. o \in {"TTL 64", "TTL 65"}
      BY <2>1 DEF StrayTTL
    <2>. QED
      BY <1>4, <2>2 DEF Chains, Sets, LanSet, SkipSet
  <1>10. CASE o \notin Cover(c) /\ dirty # {}
    <2>1. c = "srv"
      <3>1. c # "help"
        BY <1>4, OwnedFacts, FilterFacts DEF Chains, Sets, LanSet, SkipSet
      <3>2. c # "des"
        BY <1>4, <1>10 DEF Cover
      <3>. QED
        BY <3>1, <3>2 DEF Components
    <2>2. o \notin Routes
      BY <1>4, <1>10, <2>1 DEF Cover
    <2>3. o \in SrvChained
      BY <1>4, <2>1, <2>2 DEF SrvChained, Routes
    <2>4. host.ipt
      BY <1>4, <1>7, <2>2 DEF Routes
    <2>5. dirty \subseteq {type} => o = SkipSet
      BY <1>10, <2>1, <2>3 DEF Cover
    <2>6. starts > 1
      BY <1>2, <1>10 DEF Lists, JobInv
    <2>. QED
      BY <1>2, <1>3, <2>4, <2>5, <2>6
  <1>. QED
    BY <1>8, <1>9, <1>10

(* A filter is there already. *)
LEMMA FilterBlocked ==
    ASSUME Lists, Stages, HookInv, Doing({"filter"}), kern[Command.obj] # 0
    PROVE  Command.obj \in AllFilters /\ dirty # {}
  <1>1. /\ Command = Head(todo) /\ todo # <<>> /\ Head(todo).op = "filter" /\ Typed(Head(todo)) /\ Head(todo) \in T
    BY Ready, Now DEF Lists
  <1>2. PICK o \in AllFilters : o = Head(todo).obj
    BY <1>1 DEF Typed
  <1>3. Head(todo).comp = "help" /\ "help" \in Components /\ o \in Hooks /\ Head(todo).op \in InstallOps \cup {"open"}
    BY <1>1, HookFacts DEF Typed, InstallOps
  <1>4. Plan /\ ~HasDel("help") /\ ~Booting
    <2>1. Plan /\ ~HasDel("help")
      BY <1>1, <1>3, InstallNow
    <2>2. ~Booting
      BY <1>1, Now, DoFields DEF Lists, Boots
    <2>. QED
      BY <2>1, <2>2
  <1>5. Hooking
    BY <1>1 DEF Hooking
  <1>6. UsesBPF /\ ~First
    BY <1>5 DEF Lists, HookList
  <1>7. Part
    BY <1>4, <1>6 DEF Lists, HookList
  <1>8. Head(todo) = Do("help", "filter", o)
    BY <1>1, <1>2, <1>3, Now, DoIs DEF Lists
  <1>9. o \in FilterCmds
    BY <1>1, <1>8 DEF FilterCmds
  <1>10. o \notin ToSet(attached)
    BY <1>5, <1>7, <1>9 DEF Part
  <1>11. dirty = {} => kern[o] = 0
    BY <1>3, <1>4, <1>10 DEF HookInv, Unhooking
  <1>. QED
    BY <1>1, <1>2, <1>11

(* BlockedBy survives, and so it is inductive, given Lists and Stages. *)
LEMMA BlockedSame ==
    ASSUME BlockedBy, Lists, UNCHANGED <<blocked, host, type, dirty>>, watching => watching', starts' = starts
    PROVE  BlockedBy'
  BY DEF BlockedBy

LEMMA BlockedStep == Lists /\ Stages /\ HookInv /\ BlockedBy /\ [Next]_vars => BlockedBy'
  <1>1. SUFFICES ASSUME Lists, Stages, HookInv, BlockedBy, [Next]_vars PROVE BlockedBy'
    OBVIOUS
  <1>2. CASE Boot \/ Restart \/ Killed
    BY <1>2 DEF Boot, Restart, Killed, BlockedBy
  <1>3. CASE Put /\ Command.op = "create" /\ kern[Command.obj] # 0
    <2>1. blocked' = Command.obj /\ UNCHANGED <<host, type, dirty, watching, starts>>
      BY <1>3 DEF Put, Steady
    <2>. QED
      BY <1>1, <1>3, <2>1, CreateBlocked DEF BlockedBy
  <1>4. CASE Put /\ ~(Command.op = "create" /\ kern[Command.obj] # 0)
    BY <1>1, <1>4, BlockedSame DEF Put, Steady
  <1>5. CASE TcFails
    <2>1. UNCHANGED <<host, type, dirty, watching, starts>>
      BY <1>5 DEF TcFails, Steady
    <2>2. CASE UNCHANGED blocked
      BY <1>1, <2>1, <2>2, BlockedSame
    <2>3. CASE Doing({"filter"}) /\ kern[Command.obj] # 0 /\ blocked' = Command.obj
      BY <1>1, <2>1, <2>3, FilterBlocked DEF BlockedBy
    <2>. QED
      BY <1>5, <2>2, <2>3 DEF TcFails
  <1>6. CASE Stop \/ Finish \/ WatchTick \/ UNCHANGED vars
    BY <1>1, <1>6, BlockedSame DEF Stop, Finish, WatchTick, vars, bounds
  <1>7. CASE Try \/ Delete \/ Fault \/ NoBackend \/ StartWatch \/ Build \/ Open
    <2>1. UNCHANGED <<blocked, host, type, dirty, starts>> /\ (watching => watching')
      <3>1. CASE Try
        BY <3>1 DEF Try, Steady
      <3>2. CASE Delete
        BY <3>2 DEF Delete, Steady
      <3>3. CASE Fault
        BY <3>3 DEF Fault, Steady
      <3>4. CASE NoBackend
        BY <3>4 DEF NoBackend, Steady
      <3>5. CASE StartWatch
        BY <3>5 DEF StartWatch, Steady
      <3>6. CASE Build
        BY <3>6 DEF Build, Steady
      <3>7. CASE Open
        BY <3>7 DEF Open, Steady
      <3>. QED
        BY <1>7, <3>1, <3>2, <3>3, <3>4, <3>5, <3>6, <3>7
    <2>. QED
      BY <1>1, <2>1, BlockedSame
  <1>8. CASE AttachTCX \/ EnsureQdisc \/ AttachFilter \/ Detach
    <2>1. UNCHANGED <<blocked, host, type, dirty, starts>> /\ (watching => watching')
      <3>1. CASE AttachTCX
        BY <3>1 DEF AttachTCX, Steady
      <3>2. CASE EnsureQdisc
        BY <3>2 DEF EnsureQdisc, Steady
      <3>3. CASE AttachFilter
        BY <3>3 DEF AttachFilter, Steady
      <3>4. CASE Detach
        BY <3>4 DEF Detach, Steady
      <3>. QED
        BY <1>8, <3>1, <3>2, <3>3, <3>4
    <2>. QED
      BY <1>1, <2>1, BlockedSame
  <1>9. CASE Shut /\ ~Killed
    BY <1>1, <1>9, BlockedSame DEF Shut, Steady
  <1>. QED
    BY <1>1, <1>2, <1>3, <1>4, <1>5, <1>6, <1>7, <1>8, <1>9 DEF Next, Kill

(* What a setup puts into an empty kernel, and what the list of its commands says of it. *)
LEMMA LevelWanted ==
    ASSUME TypeInv, NEW c \in Components, NEW d \in Configs, NEW o \in Objects \ Hooks
    PROVE  Wanted(c, d)[o] = Level(c, Cmds(c, d), o)
  <1>1. CASE ByBPF(c, d)
    <2>1. Attached(d) \subseteq Hooks
      BY DEF Attached, Hooks
    <2>2. Cmds(c, d) = {}
      BY <1>1 DEF Cmds
    <2>3. Wanted(c, d)[o] = 0
      BY <1>1, <2>1 DEF ByBPF, Wanted
    <2>. QED
      BY <2>2, <2>3 DEF Level
  <1>2. CASE ~ByBPF(c, d)
    <2>1. PICK E : E = IF Enabled(c, d) /\ Backend(d) # "none" THEN ToSet(Install(c, d)) ELSE {}
      OBVIOUS
    <2>2. Cmds(c, d) = {x \in E : x.op \in PutOps}
      BY <1>2, <2>1 DEF Cmds
    <2>3. Wanted(c, d)[o] = IF Do(c, "fill", o) \in E THEN 2 ELSE IF \E op \in MakeOps : Do(c, op, o) \in E THEN 1 ELSE 0
      BY <1>2, <2>1 DEF ByBPF, Wanted, MakeOps
    <2>4. \A op \in PutOps : Do(c, op, o) \in E <=> Do(c, op, o) \in Cmds(c, d)
      BY <2>2, DoFields
    <2>5. "fill" \in PutOps /\ MakeOps \subseteq PutOps
      BY OpsApart
    <2>. QED
      BY <2>3, <2>4, <2>5 DEF Level
  <1>. QED
    BY <1>1, <1>2

LEMMA HookWanted ==
    ASSUME TypeInv, NEW d \in Configs, HookFit(d), NEW o \in Hooks
    PROVE  Wanted("help", d)[o] = IF o \in ToSet(attached) THEN 1 ELSE 0
  <1>1. o \in Objects /\ "help" \in Components /\ type \in Types
    BY HookFacts DEF TypeInv, Types
  <1>2. CASE ByBPF("help", d)
    <2>1. Wanted("help", d)[o] = IF o \in Attached(d) THEN 1 ELSE 0
      BY <1>1, <1>2 DEF ByBPF, Wanted
    <2>2. Attached(d) = ToSet(attached)
      <3>1. CASE attached = <<Links>>
        <4>1. ToSet(attached) = {Links}
          BY <3>1, Tuples
        <4>. QED
          BY <4>1 DEF Attached
      <3>2. CASE Links \notin ToSet(attached) /\ ToSet(attached) = Classic(d)
        BY <3>2 DEF Attached, Classic
      <3>. QED
        BY <1>2, <3>1, <3>2 DEF HookFit, ByBPF
    <2>. QED
      BY <2>1, <2>2
  <1>3. CASE ~ByBPF("help", d)
    <2>1. ToSet(attached) = {}
      BY <1>3, Empty DEF HookFit, ByBPF
    <2>2. \A op \in PutOps : Do("help", op, o) \notin Cmds("help", d)
      <3>1. \A x \in Cmds("help", d) : Typed(x) /\ x.op \in PutOps
        BY <1>1, CmdsAre
      <3>2. \A x \in Cmds("help", d) : x.obj \notin Hooks
        BY <3>1 DEF Typed
      <3>. QED
        BY <3>2, DoFields
    <2>3. PICK E : E = IF Enabled("help", d) /\ Backend(d) # "none" THEN ToSet(Install("help", d)) ELSE {}
      OBVIOUS
    <2>4. Cmds("help", d) = {x \in E : x.op \in PutOps}
      BY <1>3, <2>3 DEF Cmds
    <2>5. Wanted("help", d)[o] = IF Do("help", "fill", o) \in E THEN 2 ELSE IF \E op \in MakeOps : Do("help", op, o) \in E THEN 1 ELSE 0
      BY <1>1, <1>3, <2>3 DEF ByBPF, Wanted, MakeOps
    <2>6. \A op \in PutOps : Do("help", op, o) \notin E
      BY <2>2, <2>4, DoFields
    <2>. QED
      BY <2>1, <2>5, <2>6, OpsApart
  <1>. QED
    BY <1>2, <1>3

(* A component that fits d has exactly what d wants. *)
LEMMA FitExact ==
    ASSUME TypeInv, NEW c \in Components, NEW d \in Configs, NEW o \in Owned[c] \ Hooks,
           Fit(c, Cmds(c, d), d, o)
    PROVE  Exact(c, d, {o})
  <1>1. o \in Objects
    BY ObjectFacts
  <1>. QED
    BY <1>1, LevelWanted DEF Fit, Exact

(* Without iptables none of its objects is wanted, and none is there. *)
LEMMA NoIptExact ==
    ASSUME TypeInv, NoIpt, ~host.ipt, NEW c \in Components, NEW d \in Configs,
           NEW o \in Owned[c] \cap IptObjects
    PROVE  Exact(c, d, {o})
  <1>1. o \in Objects \ Hooks /\ kern[o] = 0 /\ type \in Types
    BY IptApart DEF NoIpt, TypeInv, Types
  <1>2. \A op \in PutOps : Do(c, op, o) \notin Cmds(c, d)
    <2>1. \A x \in Cmds(c, d) : Typed(x) /\ x.op \in PutOps
      BY <1>1, CmdsAre
    <2>2. \A x \in Cmds(c, d) : x.obj \notin IptObjects
      BY <2>1 DEF Typed
    <2>. QED
      BY <2>2, DoFields
  <1>3. Level(c, Cmds(c, d), o) = 0
    BY <1>1, <1>2, LevelIs
  <1>. QED
    BY <1>1, <1>3, LevelWanted DEF Exact

(* Between two lists every component is at rest. *)
LEMMA IdleFacts ==
    ASSUME Lists, Stages, process = "up"
    PROVE  /\ TypeInv /\ JobInv /\ todo = <<>> /\ ~HasDel("help") /\ ~Unhooking
           /\ \A c \in Components : c \in made => c \in Components /\ Rested(c) /\ (~failed => Done(c) /\ ~Loose(c)) /\ cfg[c] \in Configs
           /\ next \in Configs
  <1>1. TypeInv /\ JobInv /\ todo = <<>>
    BY DEF Lists, ListInv
  <1>2. ~Aborting /\ (\A c : ~HasDel(c) /\ Adopts(c) \notin T /\ ~Under(c))
    BY <1>1, NoTodo
  <1>3. \A c \in Components : c \in made => Rested(c)
    BY <1>2 DEF Stages, Stage
  <1>. QED
    BY <1>1, <1>2, <1>3 DEF Unhooking, Done, Loose, TypeInv

(* A component with nothing is gone; one that fits d is exact. *)
LEMMA ZeroGone ==
    ASSUME TypeInv, HookInv, ~Unhooking, dirty = {}, NEW c \in Components, Zero(c)
    PROVE  Gone(c)
  <1>1. SUFFICES ASSUME NEW o \in Owned[c] \ (StrayTTL \cup {SkipSet}) PROVE kern[o] = 0
    BY DEF Gone
  <1>2. CASE o \notin Hooks
    <2>1. o \in Sure(c)
      BY <1>1, <1>2 DEF Sure, Cover
    <2>. QED
      BY <2>1 DEF Zero
  <1>3. CASE o \in Hooks
    <2>1. c = "help"
      BY <1>1, <1>3, HookFacts, ObjectFacts
    <2>2. ToSet(attached) = {}
      BY <2>1, Empty DEF Zero
    <2>. QED
      BY <1>3, <2>2 DEF HookInv
  <1>. QED
    BY <1>2, <1>3

LEMMA FitsExact ==
    ASSUME TypeInv, HookInv, ~Unhooking, dirty = {}, NEW c \in Components, NEW d \in Configs, Fits(c, d)
    PROVE  Exact(c, d, Owned[c] \ StrayTTL)
  <1>1. SUFFICES ASSUME NEW o \in Owned[c] \ StrayTTL PROVE Exact(c, d, {o})
    BY DEF Exact
  <1>2. CASE o \notin Hooks
    <2>1. Fit(c, Cmds(c, d), d, o)
      BY <1>1, <1>2 DEF Fits, Cover
    <2>. QED
      BY <1>1, <1>2, <2>1, FitExact
  <1>3. CASE o \in Hooks
    <2>1. c = "help"
      BY <1>1, <1>3, HookFacts, ObjectFacts
    <2>2. HookFit(d)
      BY <2>1 DEF Fits
    <2>3. kern[o] = IF o \in ToSet(attached) THEN 1 ELSE 0
      BY <1>3 DEF HookInv
    <2>. QED
      BY <1>3, <2>1, <2>2, <2>3, HookWanted DEF Exact
  <1>. QED
    BY <1>2, <1>3

(* The invariant says what the properties say. *)
LEMMA ExitsCleanIs == Lists /\ Ending /\ HookInv => ExitsClean
  <1>1. SUFFICES ASSUME Lists, Ending, HookInv, process = "exited", dirty = {}
                 PROVE  (\A c \in Components : Gone(c)) /\ (starts = 1 => kern[SkipSet] = 0 \/ watching \/ type = "TPROXY")
    BY DEF ExitsClean
  <1>2. TypeInv /\ todo = <<>> /\ ~Unhooking /\ \A c \in Components : Zero(c)
    BY <1>1, NothingQueued DEF Lists, ListInv, Ending
  <1>3. ASSUME starts = 1, ~watching, type # "TPROXY" PROVE kern[SkipSet] = 0
    <2>1. "srv" \in Components /\ SkipSet \in Owned["srv"]
      BY OwnedFacts DEF Components, SkipSet
    <2>2. SkipSet \notin StrayTTL \cup Hooks
      BY CoverIn DEF StrayTTL, SkipSet
    <2>3. Tidy
      BY <1>3 DEF Tidy
    <2>4. SkipSet \in Sure("srv")
      BY <1>1, <2>1, <2>2, <2>3 DEF Sure, Cover
    <2>. QED
      BY <1>2, <2>1, <2>4 DEF Zero
  <1>. QED
    BY <1>1, <1>2, <1>3, ZeroGone

LEMMA AllOrNothingIs == Lists /\ Stages /\ HookInv => AllOrNothing
  <1>1. SUFFICES ASSUME Lists, Stages, HookInv, process = "up", dirty = {}, NEW c \in made
                 PROVE  Gone(c) \/ \E d \in Configs : Exact(c, d, Owned[c] \ StrayTTL)
    BY DEF AllOrNothing, Idle
  <1>2. c \in Components /\ TypeInv /\ ~Unhooking
    BY <1>1, IdleFacts DEF TypeInv
  <1>3. Rested(c) /\ cfg[c] \in Configs
    BY <1>1, <1>2, IdleFacts
  <1>4. Zero(c) \/ \E d \in Configs : Fits(c, d)
    BY <1>1, <1>3 DEF Rested
  <1>. QED
    BY <1>1, <1>2, <1>4, ZeroGone, FitsExact

LEMMA RulesMatchIs == Lists /\ Stages /\ HookInv /\ NoIpt => RulesMatch
  <1>1. SUFFICES ASSUME Lists, Stages, HookInv, NoIpt, process = "up", ~failed, NEW c \in made,
                        dirty = {} \/ (~host.ipt /\ Enabled(c, next))
                 PROVE  Exact(c, cfg[c], Owned[c] \ Leftover)
    BY DEF RulesMatch, Idle
  <1>2. c \in Components /\ TypeInv /\ JobInv /\ ~Unhooking /\ todo = <<>> /\ next \in Configs
    BY <1>1, IdleFacts DEF TypeInv
  <1>3. Rested(c) /\ cfg[c] \in Configs /\ Done(c) /\ ~Loose(c)
    BY <1>1, <1>2, IdleFacts
  <1>4. CASE dirty = {}
    <2>1. Exact(c, cfg[c], Owned[c] \ StrayTTL)
      BY <1>1, <1>2, <1>3, <1>4, FitsExact DEF Rested
    <2>. QED
      BY <1>4, <2>1 DEF Leftover, Exact
  <1>5. CASE dirty # {}
    <2>1. Fits(c, next)
      BY <1>1, <1>3, <1>5 DEF Rested
    <2>2. cfg[c] = next
      BY <1>1, <1>2, <1>3 DEF JobInv, Done
    <2>3. SUFFICES ASSUME NEW o \in Owned[c] \ Leftover PROVE Exact(c, next, {o})
      BY <2>2 DEF Exact
    <2>4. CASE o \in Cover(c) \ Hooks
      BY <1>2, <2>1, <2>3, <2>4, FitExact DEF Fits
    <2>5. CASE o \in IptObjects
      BY <1>1, <1>2, <1>5, <2>3, <2>5, NoIptExact
    <2>6. CASE o \in Hooks
      <3>1. c = "help"
        BY <1>2, <2>3, <2>6, HookFacts, ObjectFacts
      <3>2. HookFit(next)
        BY <2>1, <3>1 DEF Fits
      <3>3. o \in ToSet(attached) \cup {Links}
        BY <1>5, <2>3, <2>6 DEF Leftover, Hooks
      <3>4. kern[o] = IF o \in ToSet(attached) THEN 1 ELSE 0
        BY <1>1, <1>2, <1>5, <3>3 DEF HookInv
      <3>. QED
        BY <1>2, <2>6, <3>1, <3>2, <3>4, HookWanted DEF Exact
    <2>7. o \in Cover(c) \/ o \in IptObjects \/ o \in Hooks
      <3>1. CASE c = "help"
        <4>1. o \in {HelperTable, Ingress} \cup Rules \cup Hooks
          BY <2>3, <3>1 DEF Owned, Components, HelperTable, Hooks
        <4>2. o \in {HelperTable, Ingress} => ~next.bpf
          BY <1>5, <2>3 DEF Leftover, HelperTable
        <4>. QED
          BY <1>5, <3>1, <4>1, <4>2 DEF Cover, IptObjects
      <3>2. CASE c = "des"
        BY <1>5, <2>3, <3>2 DEF Cover
      <3>3. CASE c = "srv"
        <4>1. o \in {"nft UA3F"} \cup Routes \cup IptObjects
          BY <2>3, <3>3 DEF Owned, Components, IptObjects
        <4>2. o \in Routes => type = "TPROXY"
          BY <1>5, <2>3 DEF Leftover
        <4>3. type # "SOCKS5"
          BY <1>1, <1>5, <3>3 DEF Enabled
        <4>. QED
          BY <1>5, <3>3, <4>1, <4>2, <4>3 DEF Cover
      <3>. QED
        BY <1>2, <3>1, <3>2, <3>3 DEF Components
    <2>. QED
      BY <2>4, <2>5, <2>6, <2>7
  <1>. QED
    BY <1>4, <1>5

-----------------------------------------------------------------------------
(* The inductive invariant. *)
IInv == Lists /\ Singles /\ NoIpt /\ Where /\ HookInv /\ Stages /\ Ending /\ BlockedBy

(* Before the first start the kernel has nothing of UA3F. *)
LEMMA FwInit == Init => IInv
  <1>1. SUFFICES ASSUME Init PROVE IInv
    OBVIOUS
  <1>2. Lists
    BY <1>1, ListsInit
  <1>3. /\ process = "off" /\ todo = <<>> /\ attached = <<>> /\ blocked = Nowhere /\ kern = [o \in Objects |-> 0]
    BY <1>1 DEF Init
  <1>4. T = {} /\ ~HasDel("help") /\ ToSet(attached) = {}
    BY <1>2, <1>3, NoTodo, Empty
  <1>5. Singles
    BY <1>3, Kinds DEF Singles
  <1>6. NoIpt
    BY <1>3, IptApart DEF NoIpt
  <1>7. Where
    <2>1. \A o \in Chained : o \in Objects
      BY ChainedIs
    <2>2. \A o \in Chained : kern[o] = 0
      BY <1>3, <2>1
    <2>. QED
      BY <2>2 DEF Where, Chained
  <1>8. HookInv
    BY <1>3, <1>4, HookFacts DEF HookInv
  <1>9. Stages
    BY <1>3 DEF Stages, Stage
  <1>10. Ending
    BY <1>3, CoverIn DEF Ending, Zero
  <1>. QED
    BY <1>2, <1>3, <1>5, <1>6, <1>7, <1>8, <1>9, <1>10 DEF IInv, BlockedBy

(* Each step keeps each part, given the others. *)
LEMMA FwStep == IInv /\ [Next]_vars => IInv'
  <1>1. SUFFICES ASSUME IInv, [Next]_vars PROVE IInv'
    OBVIOUS
  <1>2. Lists /\ Singles /\ NoIpt /\ Where /\ HookInv /\ Stages /\ Ending /\ BlockedBy /\ Kernel
    BY <1>1 DEF IInv, Kernel
  <1>3. Lists'
    BY <1>1, <1>2, ListsStep
  <1>4. Singles'
    BY <1>1, <1>2, SinglesStep
  <1>5. NoIpt'
    BY <1>1, <1>2, NoIptStep
  <1>6. Where'
    BY <1>1, <1>2, <1>3, WhereStep
  <1>7. HookInv'
    BY <1>1, <1>2, <1>3, HookStep
  <1>8. Kernel'
    BY <1>1, <1>2, <1>3, <1>4, KernelStep
  <1>9. BlockedBy'
    BY <1>1, <1>2, BlockedStep
  <1>. QED
    BY <1>3, <1>4, <1>5, <1>6, <1>7, <1>8, <1>9 DEF IInv, Kernel

(* The invariant is one, for every machine and any list of configurations:
   at every point of a start, a restart or an end the kernel is what the
   commands that have run, or failed, make of it.                          *)
THEOREM FirewallInvariant == Spec => []IInv
  BY FwInit, FwStep, PTL DEF Spec

(* The variables keep their types; only known commands are ever listed. *)
THEOREM FirewallType == Spec => []TypeInv
  <1>1. IInv => TypeInv
    BY DEF IInv, Lists
  <1>. QED
    BY <1>1, FirewallInvariant, PTL

(* RulesMatch: a start or a restart that succeeds leaves exactly the rules,
   chains, sets, routes and programs of the current configuration, each once
   (firewall.go:94-125, api.go:129-160), but for the leftovers it names.    *)
THEOREM FirewallRulesMatch == Spec => []RulesMatch
  <1>1. IInv => RulesMatch
    BY RulesMatchIs DEF IInv
  <1>. QED
    BY <1>1, FirewallInvariant, PTL

(* AllOrNothing: if no process was killed, each component has all the rules of
   a configuration or none whenever no job runs, whatever command has failed:
   Setup and attachAllClassic undo what they have done (firewall.go:116-121,
   tc.go:290-309).                                                          *)
THEOREM FirewallAllOrNothing == Spec => []AllOrNothing
  <1>1. IInv => AllOrNothing
    BY AllOrNothingIs DEF IInv
  <1>. QED
    BY <1>1, FirewallInvariant, PTL

(* ExitsClean: a process that ends by itself, after no other was killed, takes
   its rules with it; only the set of exempt addresses may stay, and the TTL
   rule that a failed restart has set (api.go:115-127).                     *)
THEOREM FirewallExitsClean == Spec => []ExitsClean
  <1>1. IInv => ExitsClean
    BY ExitsCleanIs DEF IInv
  <1>. QED
    BY <1>1, FirewallInvariant, PTL

(* BlockedBy: what stands in the way of a setup is a filter of a process that
   was killed, an object of another mode whose process was killed, or the set
   of exempt addresses (iptables.go:77-97, tproxy's iptables.go:105-119).   *)
THEOREM FirewallBlockedBy == Spec => []BlockedBy
  <1>1. IInv => BlockedBy
    BY DEF IInv
  <1>. QED
    BY <1>1, FirewallInvariant, PTL
=============================================================================
