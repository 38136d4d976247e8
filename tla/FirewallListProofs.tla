------------------------- MODULE FirewallListProofs -------------------------
(***************************************************************************)
(* The list of commands of FirewallSetup.  A start, a restart and an end   *)
(* write the list of what they will run; whatever fails changes it.  For   *)
(* every machine, configuration and number of restarts, what is proved     *)
(* here is the order of that list (Lists): a component is swept before it  *)
(* is installed, a jump goes before its chain, a chain before the sets it  *)
(* matches, everything before the component is shut, and each object is    *)
(* made once.  Nothing here depends on what the kernel holds.              *)
(***************************************************************************)
EXTENDS FirewallSetup, FiniteSetTheorems, TLAPS

(* The commands that are still to run. *)
T == ToSet(todo)
(* Each y of the list t comes after an x; each x comes before a y. *)
Before(t, x, y) == \A j \in DOMAIN t : t[j] = y => \E i \in DOMAIN t : i < j /\ t[i] = x
After(t, x, y)  == \A i \in DOMAIN t : t[i] = x => \E j \in DOMAIN t : i < j /\ t[j] = y

(* Commands that make an object, that put something into the kernel, and
   that belong to an installation. *)
MakeOps == {"create", "put", "try"}
PutOps == MakeOps \cup {"fill"}
InstallOps == PutOps \cup {"fail", "tcx", "nowan", "qdisc", "filter"}
Ops == InstallOps \cup {"delete", "watch", "open", "shut", "adopt", "detach", "boot", "abort"}
(* What NewTC attaches, and where. *)
Hooks == AllFilters \cup {Links}
Interfaces == {"wan", "wwan"}
(* What a command can be about. *)
Things == Objects \cup Interfaces \cup {Nowhere}
Commands == [comp : Components, op : Ops, obj : Things]
HelperTable == "nft UA3F_HELPER"
(* The command that takes o away: an ingress chain goes with its table. *)
Del(c, o) == Do(c, "delete", IF o = Ingress THEN HelperTable ELSE o)
Boots == Do("srv", "boot", Nowhere)
Aborts == Do("srv", "abort", Nowhere)
(* A restart that has failed undoes what it had begun; a start reads the
   configuration first; otherwise the list of a start or a restart is a
   plan. *)
Aborting == Aborts \in T
Booting == Boots \in T
Plan == process \in {"starting", "restarting"} /\ ~Aborting
IptObjects == Chains \cup Sets \cup Jumps \cup Rules

(* What a server of a type sets up under iptables. *)
OfType(ty) ==
    CASE ty = "TPROXY" -> {"mangle UA3F", "UA3F_OUTPUT", "UA3F_SIDECAR", "PREROUTING > UA3F", "OUTPUT > UA3F_OUTPUT",
                           "PREROUTING > UA3F_SIDECAR"} \cup Sets
      [] ty = "REDIRECT" -> {"nat UA3F", "nat PREROUTING > UA3F"} \cup Sets
      [] ty = "NFQUEUE" -> {"mangle UA3F", "POSTROUTING > UA3F"} \cup Sets
      [] OTHER -> {}
(* A command is its component's, on an object of its kind, and one that the
   type of the server and the machine allow. *)
Typed(x) ==
    /\ x.op = "delete" => x.obj \in Owned[x.comp] \ {Ingress}
    /\ x.op \in PutOps => x.obj \in Owned[x.comp] \ Hooks /\ (x.obj \in IptObjects => host.ipt)
    /\ x.op = "fill" => x.obj \in Chains
    /\ x.op = "create" => x.obj \in Chains \cup Sets \cup {"rule4", "route4"}
    /\ x.op = "put" => x.obj \in Jumps \cup Tables \cup Rules \cup {Ingress}
    /\ x.op = "try" => x.obj \in {"rule6", "route6", Ingress}
    /\ x.comp = "srv" /\ x.op \in PutOps \cup {"delete"} => x.obj \in OfType(type) \cup Routes \cup {"nft UA3F"}
    /\ x.comp = "srv" /\ x.op \in PutOps /\ x.obj \in Routes => type = "TPROXY"
    /\ x.op = "watch" => x = Do("srv", "watch", SkipSet) /\ host.ipt
    /\ x.op \in {"boot", "abort"} => x.comp = "srv" /\ x.obj = Nowhere
    /\ x.op \in {"tcx", "nowan", "detach"} => x.comp = "help" /\ x.obj = Nowhere
    /\ x.op \in {"fail", "open", "shut", "adopt"} => x.obj = Nowhere
    /\ x.op = "qdisc" => x.comp = "help" /\ x.obj \in eligible
    /\ x.op = "filter" => x.comp = "help" /\ x.obj \in AllFilters

(* A start goes from the helper to the server, a restart from the server to
   the helper. *)
Place(p, c) == IF c = "des" THEN 2 ELSE IF (c = "srv") = (p = "restarting") THEN 1 ELSE 3
(* Whether y may come after x: components one after the other, an
   installation after the deletions, what is opened after it, and no object
   twice. *)
Follows(p, x, y) ==
    /\ Place(p, x.comp) <= Place(p, y.comp)
    /\ x.comp = y.comp =>
        /\ x.op \in InstallOps \cup {"open"} => y.op \notin {"delete", "detach", "shut"}
        /\ x.op = "open" => y.op \notin InstallOps \cup {"open"}
        /\ x.op \in {"tcx", "nowan"} => y.op \notin InstallOps
        /\ y.op = "adopt" => p # "starting" /\ x.op # "adopt"
        /\ x.obj = y.obj => /\ x.op \in PutOps => y.op \notin MakeOps
                            /\ x.op = "fill" => y.op # "fill"
                            /\ x.op = "filter" => y.op # "filter"
                            /\ x.op = "qdisc" => y.op # "qdisc"
        /\ x.op \in MakeOps /\ x.obj = Ingress => ~(y.op \in MakeOps /\ y.obj = HelperTable)
InOrder(p, t) == \A i, j \in DOMAIN t : i < j => Follows(p, t[i], t[j])

-----------------------------------------------------------------------------
(* The list of commands. *)

(* The types of the variables. *)
TypeInv ==
    /\ todo \in Seq(Commands)
    /\ kern \in [Objects -> Nat]
    /\ process \in {"off", "starting", "up", "restarting", "stopping", "exited", "killed"}
    /\ type \in {"SOCKS5", "TPROXY", "REDIRECT", "NFQUEUE"}
    /\ next \in Configs /\ cfg \in [Components -> Configs] /\ host \in Hosts
    /\ made \subseteq Components
    /\ attached \in Seq(Hooks)
    /\ watching \in BOOLEAN /\ failed \in BOOLEAN /\ slipped \in BOOLEAN
    /\ dirty \subseteq {"SOCKS5", "TPROXY", "REDIRECT", "NFQUEUE"}
    /\ starts \in Nat /\ restarts \in Nat /\ faults \in Nat
    /\ chan \in [Components -> {"none", "open", "closed"}]
(* The list of commands: what is on it in which phase of the process, and
   in which order. *)
ListInv ==
    /\ \A x \in T : Typed(x)
    /\ Plan => InOrder(process, todo)
    /\ process \notin {"starting", "restarting", "stopping"} => todo = <<>>
    /\ process = "stopping" => \A x \in T : x.op \in {"delete", "detach", "shut", "watch"}
    /\ Aborting => process = "restarting" /\ \A x \in T : x.op \in {"delete", "watch", "abort"}
    /\ Booting => process = "starting" /\ todo = <<Boots>> /\ made = {} /\ attached = <<>> /\ ~watching
    /\ process = "starting" => \A x \in T : x.op \notin {"shut", "detach"}
    /\ After(todo, Do("help", "detach", Nowhere), Do("help", "delete", "QUIC"))
    /\ \A i \in DOMAIN todo : todo[i] = Aborts => i = Len(todo)

(* The helper uses BPF programs; the commands that put the rules of a
   component into the kernel; those of them that are still to run. *)
ByBPF(c, d) == c = "help" /\ HelperWanted(d) /\ d.bpf
Cmds(c, d) ==
    IF ByBPF(c, d) \/ ~Enabled(c, d) \/ Backend(d) = "none" THEN {}
    ELSE {x \in ToSet(Install(c, d)) : x.op \in PutOps}
Pending(c) == {x \in T : x.comp = c /\ x.op \in PutOps}
HasDel(c) == \E x \in T : x.comp = c /\ x.op = "delete"
Busy(c) == \E x \in T : x.comp = c /\ x.op \notin {"boot", "abort"}
Adopts(c) == Do(c, "adopt", Nowhere)
(* Which components exist, whose configuration is the next one, and what a
   plan still has to install. *)
JobInv ==
    /\ process = "starting" => ~failed
    /\ failed => slipped
    /\ process \in {"up", "restarting"} => {"help", "srv"} \subseteq made
    /\ process = "restarting" => \A c \in Components : Busy(c) => c \in made
    /\ process = "starting" /\ ~Booting =>
         /\ \A c \in {"help", "srv"} : c \in made \/ Adopts(c) \in T
         /\ \A c \in Components : Busy(c) => c \in made \/ Adopts(c) \in T
    /\ Plan \/ (process = "up" /\ ~failed) => \A c \in made : Adopts(c) \in T \/ cfg[c] = next
    /\ Plan => \A x \in T : /\ x.op \in PutOps => x \in Cmds(x.comp, next)
                            /\ x.op \in PutOps \cup {"fail", "open"} => Enabled(x.comp, next) /\ ~ByBPF(x.comp, next)
    /\ watching => host.ipt
    /\ Running => starts > 0
    /\ process = "killed" => dirty # {}
    /\ dirty # {} => starts > 0 /\ (Running => starts > 1)
    /\ process = "off" => type # "TPROXY" /\ ~watching
    /\ starts = 0 => process = "off"

-----------------------------------------------------------------------------
(* The kernel. *)

(* What has to go before o can be deleted: the jumps to a chain, the chains
   that match against a set. *)
Waits(o) == {x \in Jumps : o \in Chains /\ JumpTo[x] = o} \cup {x \in MatchSets : o \in Sets}
(* What keeps o from being deleted: a filled chain for a set, a jump for a
   chain. *)
InWay(x) == kern[x] = 2 \/ (x \in Jumps /\ kern[x] > 0)
(* The list deletes o, after what is in its way and before the component is
   shut. *)
Doomed(c, o) ==
    /\ Del(c, o) \in T
    /\ \A x \in Waits(o) : InWay(x) => Before(todo, Del(c, x), Del(c, o))
    /\ Before(todo, Del(c, o), Do(c, "shut", Nowhere))
    /\ o \in Rules \cup Hooks => kern[o] <= 1
Gonner(c, o) == kern[o] = 0 \/ Doomed(c, o)

(* Nobody can have made the set of exempt addresses again. *)
Tidy == starts <= 1 /\ ~watching /\ type # "TPROXY"
SrvChained == Owned["srv"] \cap (Chains \cup Jumps \cup Sets)
(* The objects whose state the invariant knows.  After a kill these are the
   ones that the next setup cleans: the tables, the routes and jumps of the
   type, and its chains unless a process of another type was killed. *)
Cover(c) ==
    IF dirty = {} THEN Owned[c] \ (StrayTTL \cup Hooks)
    ELSE CASE c = "help" -> IF next.bpf THEN {} ELSE {HelperTable, Ingress}
           [] c = "des" -> Owned[c]
           [] c = "srv" -> (IF type = "TPROXY" THEN Routes ELSE {}) \cup (IF type # "SOCKS5" THEN {"nft UA3F"} ELSE {})
                           \cup (OfType(type) \cap Jumps)
                           \cup (IF dirty \subseteq {type} THEN SrvChained \ {SkipSet} ELSE {})
(* Those of them that are really gone when they have been deleted. *)
Sure(c) == Cover(c) \ (IF Tidy THEN {} ELSE {SkipSet})

(* What an object is after the commands E; what it may be instead. *)
Level(c, E, o) == IF Do(c, "fill", o) \in E THEN 2 ELSE IF \E op \in MakeOps : Do(c, op, o) \in E THEN 1 ELSE 0
Fit(c, E, d, o) ==
    \/ kern[o] = Level(c, E, o)
    \/ o \in Optional(d) /\ kern[o] = 0
    \/ o = SkipSet /\ ~Tidy /\ kern[o] = 1
(* The classic filters of a configuration, and what the helper has attached
   for it. *)
Classic(d) == {o \in AllFilters : \E i \in eligible, p \in 1..selectedPrograms(d) : o = Filters[i][p]}
HookFit(d) == IF HelperWanted(d) /\ d.bpf
              THEN attached = <<Links>> \/ (Links \notin ToSet(attached) /\ ToSet(attached) = Classic(d))
              ELSE attached = <<>>
(* The component has in the kernel what its setup for d puts there, or
   nothing. *)
Fits(c, d) == (\A o \in Cover(c) : Fit(c, Cmds(c, d), d, o)) /\ (c = "help" => HookFit(d))
Zero(c) == (\A o \in Sure(c) : kern[o] = 0) /\ (c = "help" => attached = <<>>)
(* Of an installation under way the commands that have run can be seen in
   the kernel, and those that have not can not. *)
Installing(c) ==
    LET E == Cmds(c, next) \ Pending(c) IN
    /\ Pending(c) \subseteq Cmds(c, next)
    /\ \A o \in Objects : Do(c, "fill", o) \in E => \A op \in MakeOps : Do(c, op, o) \notin Pending(c)
    /\ \A o \in Cover(c) : Fit(c, E, next, o)
(* A restart that failed may have left a component without rules or with
   those of the new configuration; a component whose turn in a plan is over
   has those of the new one. *)
Loose(c) == Aborting \/ (failed /\ (process = "up" \/ Adopts(c) \in T))
Done(c) == ~Aborting /\ Adopts(c) \notin T /\ ~(failed /\ process = "up")
(* A component none of whose commands is running. *)
Rested(c) ==
    IF dirty = {} THEN Fits(c, cfg[c]) \/ (Loose(c) /\ (Zero(c) \/ \E d \in Configs : Fits(c, d)))
    ELSE Done(c) /\ Enabled(c, next) => Fits(c, next)
(* It is the turn of the component. *)
Under(c) == IF Aborting THEN HasDel(c) ELSE Busy(c) /\ Head(todo).comp = c
(* Where a component is: its old rules wait to be deleted, its new ones are
   being installed, or it is at rest. *)
Stage(c) ==
    process \in {"starting", "restarting", "up"} =>
        /\ HasDel(c) => \A o \in Sure(c) : Gonner(c, o)
        /\ Plan /\ (HasDel(c) \/ Do(c, "shut", Nowhere) \in T) => Pending(c) = Cmds(c, next)
        /\ Plan /\ Busy(c) /\ ~HasDel(c) /\ Head(todo).comp = c /\ (dirty = {} \/ Enabled(c, next)) => Installing(c)
        /\ c \in made /\ ~Under(c) => Rested(c)
        /\ dirty = {} /\ c \notin made => Zero(c)
        /\ Plan /\ Busy(c) /\ ~HasDel(c) /\ Head(todo).comp # c =>
               process = "starting" /\ c \notin made /\ Pending(c) = {} /\ Cmds(c, next) = {} /\ ~Enabled(c, next)
Stages == \A c \in Components : Stage(c)
(* What a killed process may have left. *)
Left(o) == \E ty \in dirty : o \in OfType(ty)
(* An orderly end deletes everything; then nothing is left. *)
Ending ==
    /\ process = "stopping" /\ dirty = {} => \A c \in Components : \A o \in Sure(c) : Gonner(c, o)
    /\ process \in {"off", "exited"} /\ dirty = {} => \A c \in Components : Zero(c)
(* A chain, a jump or a set of a server is there because it is in use,
   about to go, or left by a process that was killed. *)
Where == \A o \in SrvChained \ {SkipSet} :
    kern[o] > 0 => \/ Left(o)
                   \/ process \in {"starting", "restarting", "up"} /\ "srv" \in made /\ o \in OfType(type)
                   \/ process = "stopping" /\ o \in OfType(type) /\ Doomed("srv", o)
(* No jump, set or route is there twice, and an ingress chain has its
   table. *)
Singles == /\ \A o \in Jumps \cup Sets \cup Routes : kern[o] <= 1
           /\ kern[Ingress] > 0 => kern[HelperTable] > 0
(* Without iptables there is nothing of iptables. *)
NoIpt == ~host.ipt => \A o \in IptObjects : kern[o] = 0

-----------------------------------------------------------------------------
(* The hooks of the helper. *)

(* The filters that the list still attaches, itself or by way of a qdisc. *)
FilterCmds == {o \in AllFilters : Do("help", "filter", o) \in T}
QdiscObjs == {o \in AllFilters : \E i \in Interfaces, p \in 1..selectedPrograms(next) : Do("help", "qdisc", i) \in T /\ o = Filters[i][p]}
(* The helper is to use BPF; it has yet to try; it is attaching filters. *)
UsesBPF == HelperWanted(next) /\ next.bpf
First == \E x \in T : x.op \in {"tcx", "nowan"}
Hooking == \E x \in T : x.op \in {"qdisc", "filter"}
(* It has either links, or some of its filters while the list has the
   others. *)
Part == \/ attached = <<Links>> /\ ~Hooking
        \/ /\ Links \notin ToSet(attached)
           /\ ToSet(attached) \cup FilterCmds \cup QdiscObjs = Classic(next)
           /\ ToSet(attached) \cap (FilterCmds \cup QdiscObjs) = {} /\ FilterCmds \cap QdiscObjs = {}
Detaches == Do("help", "detach", Nowhere)
(* What the helper has attached and what the list still attaches are
   together what the configuration asks for, and what is attached is
   deleted before it is forgotten. *)
HookList ==
    /\ attached # <<>> => Running /\ "help" \in made
    /\ attached # <<>> /\ (HasDel("help") \/ process = "stopping") =>
           Detaches \in T /\ Before(todo, Detaches, Do("help", "shut", Nowhere))
    /\ Aborting /\ HasDel("help") => attached = <<>>
    /\ First \/ Hooking => UsesBPF
    /\ Plan /\ ~HasDel("help") /\ (First \/ ~UsesBPF) => attached = <<>>
    /\ Plan /\ ~Booting /\ UsesBPF => First \/ Part
    /\ First => ~Hooking
    /\ Plan /\ UsesBPF /\ (HasDel("help") \/ Do("help", "shut", Nowhere) \in T) => First
(* The helper's programs are being detached. *)
Unhooking == HasDel("help") /\ (process = "stopping" \/ Under("help"))
(* The helper knows what it has attached: nothing else hangs on the
   interfaces unless a process was killed, and all of it goes with the
   helper. *)
HookInv ==
    /\ ~Unhooking => \A o \in (IF dirty = {} THEN Hooks ELSE ToSet(attached) \cup {Links}) :
                        kern[o] = IF o \in ToSet(attached) THEN 1 ELSE 0
    /\ HasDel("help") => \A o \in (IF dirty = {} THEN Hooks ELSE {Links}) : Gonner("help", o)

-----------------------------------------------------------------------------
(* A command is its component, what it does and what with. *)
LEMMA DoFields == \A c, op, o : Do(c, op, o).comp = c /\ Do(c, op, o).op = op /\ Do(c, op, o).obj = o
  BY DEF Do

LEMMA DoSame == \A c, op, o, d, q, p : Do(c, op, o) = Do(d, q, p) => c = d /\ op = q /\ o = p
  BY DoFields

LEMMA DoIs == \A x \in Commands : x = Do(x.comp, x.op, x.obj)
  BY DEF Commands, Do

LEMMA DoType == \A c \in Components, op \in Ops, o \in Things : Do(c, op, o) \in Commands
  BY DEF Commands, Do

(* Concatenation. *)
LEMMA Joined ==
    ASSUME NEW S, NEW s \in Seq(S), NEW t \in Seq(S)
    PROVE  /\ s \o t \in Seq(S) /\ Len(s \o t) = Len(s) + Len(t)
           /\ \A i \in 1..Len(s) : (s \o t)[i] = s[i]
           /\ \A i \in 1..Len(t) : (s \o t)[Len(s) + i] = t[i]
           /\ ToSet(s \o t) = ToSet(s) \cup ToSet(t)
           /\ s # <<>> => s \o t # <<>> /\ Head(s \o t) = Head(s)
  <1>1. /\ s \o t \in Seq(S) /\ Len(s \o t) = Len(s) + Len(t)
        /\ \A i \in 1..Len(s) : (s \o t)[i] = s[i]
        /\ \A i \in 1..Len(t) : (s \o t)[Len(s) + i] = t[i]
    OBVIOUS
  <1>2. ToSet(s \o t) = ToSet(s) \cup ToSet(t)
    <2>1. \A e : e \in ToSet(s \o t) => e \in ToSet(s) \cup ToSet(t)
      <3>1. TAKE e
      <3>2. HAVE e \in ToSet(s \o t)
      <3>3. PICK i \in 1..(Len(s) + Len(t)) : e = (s \o t)[i]
        BY <1>1, <3>2 DEF ToSet
      <3>4. CASE i \in 1..Len(s)
        BY <1>1, <3>3, <3>4 DEF ToSet
      <3>5. CASE i \notin 1..Len(s)
        <4>1. i - Len(s) \in 1..Len(t) /\ Len(s) + (i - Len(s)) = i
          BY <3>3, <3>5
        <4>. QED
          BY <1>1, <3>3, <4>1 DEF ToSet
      <3>. QED
        BY <3>4, <3>5
    <2>2. \A e \in ToSet(s) : e \in ToSet(s \o t)
      BY <1>1 DEF ToSet
    <2>3. \A e \in ToSet(t) : e \in ToSet(s \o t)
      <3>1. TAKE e \in ToSet(t)
      <3>2. PICK i \in 1..Len(t) : e = t[i]
        BY DEF ToSet
      <3>3. Len(s) + i \in 1..Len(s \o t) /\ (s \o t)[Len(s) + i] = e
        BY <1>1, <3>2
      <3>. QED
        BY <1>1, <3>3 DEF ToSet
    <2>. QED
      BY <2>1, <2>2, <2>3
  <1>3. s # <<>> => s \o t # <<>> /\ Head(s \o t) = Head(s)
    BY <1>1
  <1>. QED
    BY <1>1, <1>2, <1>3

(* The empty list, the head and the tail, one element. *)
LEMMA Empty == ToSet(<<>>) = {} /\ (\A S : <<>> \in Seq(S))
  <1>1. DOMAIN <<>> = {} /\ \A S : <<>> \in Seq(S)
    OBVIOUS
  <1>. QED
    BY <1>1 DEF ToSet

LEMMA Parts ==
    ASSUME NEW S, NEW t \in Seq(S), t # <<>>
    PROVE  /\ Head(t) \in S /\ Tail(t) \in Seq(S)
           /\ DOMAIN t = 1..Len(t) /\ Len(t) \in Nat \ {0} /\ t[1] = Head(t)
           /\ DOMAIN Tail(t) = 1..(Len(t) - 1) /\ \A i \in 1..(Len(t) - 1) : Tail(t)[i] = t[i + 1]
           /\ ToSet(t) = {Head(t)} \cup ToSet(Tail(t)) /\ ToSet(t) \subseteq S
  <1>1. /\ Head(t) \in S /\ Tail(t) \in Seq(S)
        /\ DOMAIN t = 1..Len(t) /\ Len(t) \in Nat \ {0} /\ t[1] = Head(t)
        /\ DOMAIN Tail(t) = 1..(Len(t) - 1) /\ \A i \in 1..(Len(t) - 1) : Tail(t)[i] = t[i + 1]
    OBVIOUS
  <1>2. ToSet(t) \subseteq {Head(t)} \cup ToSet(Tail(t))
    <2>1. SUFFICES ASSUME NEW i \in 1..Len(t) PROVE t[i] \in {Head(t)} \cup ToSet(Tail(t))
      BY <1>1 DEF ToSet
    <2>2. CASE i = 1
      BY <1>1, <2>2
    <2>3. CASE i # 1
      <3>1. i - 1 \in 1..(Len(t) - 1) /\ (i - 1) + 1 = i
        BY <1>1, <2>3
      <3>. QED
        BY <1>1, <3>1, ZenonT(60) DEF ToSet
    <2>. QED
      BY <2>2, <2>3
  <1>3. {Head(t)} \cup ToSet(Tail(t)) \subseteq ToSet(t)
    <2>1. 1 \in DOMAIN t /\ \A i \in DOMAIN Tail(t) : i + 1 \in DOMAIN t
      BY <1>1
    <2>. QED
      BY <1>1, <2>1 DEF ToSet
  <1>4. ToSet(t) \subseteq S
    BY DEF ToSet
  <1>. QED
    BY <1>1, <1>2, <1>3, <1>4

LEMMA Within == ASSUME NEW S, NEW t \in Seq(S) PROVE ToSet(t) \subseteq S /\ (t = <<>> <=> ToSet(t) = {})
  <1>1. ToSet(t) \subseteq S
    BY DEF ToSet
  <1>2. CASE t = <<>>
    BY <1>1, <1>2, Empty
  <1>3. CASE t # <<>>
    BY <1>1, <1>3, Parts
  <1>. QED
    BY <1>2, <1>3, <1>1

LEMMA One == ASSUME NEW S, NEW e \in S PROVE <<e>> \in Seq(S) /\ ToSet(<<e>>) = {e} /\ <<e>> # <<>> /\ Head(<<e>>) = e
  <1>1. <<e>> \in Seq(S) /\ DOMAIN <<e>> = {1} /\ <<e>>[1] = e /\ <<e>> # <<>> /\ Head(<<e>>) = e
    OBVIOUS
  <1>. QED
    BY <1>1 DEF ToSet

(* The order of the commands. *)
LEMMA TailOrder ==
    ASSUME NEW p, NEW t \in Seq(Commands), t # <<>>, InOrder(p, t)
    PROVE  InOrder(p, Tail(t)) /\ \A y \in ToSet(Tail(t)) : Follows(p, Head(t), y)
  <1>1. /\ DOMAIN t = 1..Len(t) /\ Len(t) \in Nat \ {0} /\ t[1] = Head(t)
        /\ DOMAIN Tail(t) = 1..(Len(t) - 1) /\ \A i \in 1..(Len(t) - 1) : Tail(t)[i] = t[i + 1]
    BY Parts
  <1>2. \A i \in DOMAIN Tail(t) : i + 1 \in DOMAIN t /\ 1 < i + 1 /\ 1 \in DOMAIN t
    BY <1>1
  <1>3. \A i, j \in DOMAIN Tail(t) : i < j => i + 1 < j + 1
    BY <1>1
  <1>. QED
    BY <1>1, <1>2, <1>3 DEF InOrder, ToSet

(* Orders that are left when the first command has run. *)
LEMMA TailBefore ==
    ASSUME NEW t \in Seq(Commands), t # <<>>, NEW x, NEW y, Before(t, x, y)
    PROVE  Head(t) # y /\ (Head(t) # x => Before(Tail(t), x, y))
  <1>1. /\ DOMAIN t = 1..Len(t) /\ Len(t) \in Nat \ {0} /\ t[1] = Head(t)
        /\ DOMAIN Tail(t) = 1..(Len(t) - 1) /\ \A i \in 1..(Len(t) - 1) : Tail(t)[i] = t[i + 1]
    BY Parts
  <1>2. Head(t) # y
    BY <1>1 DEF Before
  <1>3. ASSUME Head(t) # x, NEW j \in DOMAIN Tail(t), Tail(t)[j] = y
        PROVE  \E i \in DOMAIN Tail(t) : i < j /\ Tail(t)[i] = x
    <2>1. j + 1 \in DOMAIN t /\ t[j + 1] = y
      BY <1>1, <1>3
    <2>2. PICK i \in DOMAIN t : i < j + 1 /\ t[i] = x
      BY <2>1 DEF Before
    <2>3. i # 1
      BY <1>1, <1>3, <2>2
    <2>4. i - 1 \in DOMAIN Tail(t) /\ i - 1 < j /\ (i - 1) + 1 = i
      BY <1>1, <2>2, <2>3, <1>3
    <2>. QED
      BY <1>1, <2>2, <2>4
  <1>. QED
    BY <1>2, <1>3 DEF Before

LEMMA TailAfter ==
    ASSUME NEW t \in Seq(Commands), t # <<>>, NEW x, NEW y, After(t, x, y)
    PROVE  After(Tail(t), x, y) /\ (Head(t) = x => y \in ToSet(Tail(t)))
  <1>1. /\ DOMAIN t = 1..Len(t) /\ Len(t) \in Nat \ {0} /\ t[1] = Head(t)
        /\ DOMAIN Tail(t) = 1..(Len(t) - 1) /\ \A i \in 1..(Len(t) - 1) : Tail(t)[i] = t[i + 1]
    BY Parts
  <1>2. \A i \in DOMAIN t : t[i] = x => \E j \in DOMAIN Tail(t) : i < j + 1 /\ Tail(t)[j] = y
    <2>1. TAKE i \in DOMAIN t
    <2>2. HAVE t[i] = x
    <2>3. PICK j \in DOMAIN t : i < j /\ t[j] = y
      BY <2>2 DEF After
    <2>4. j - 1 \in DOMAIN Tail(t) /\ (j - 1) + 1 = j
      BY <1>1, <2>3
    <2>. QED
      BY <1>1, <2>3, <2>4
  <1>3. ASSUME NEW i \in DOMAIN Tail(t), Tail(t)[i] = x
        PROVE  \E j \in DOMAIN Tail(t) : i < j /\ Tail(t)[j] = y
    <2>1. i + 1 \in DOMAIN t /\ t[i + 1] = x
      BY <1>1, <1>3
    <2>2. PICK j \in DOMAIN Tail(t) : i + 1 < j + 1 /\ Tail(t)[j] = y
      BY <1>2, <2>1
    <2>. QED
      BY <1>1, <1>3, <2>2
  <1>4. Head(t) = x => y \in ToSet(Tail(t))
    <2>1. 1 \in DOMAIN t
      BY <1>1
    <2>. QED
      BY <1>1, <1>2, <2>1 DEF ToSet
  <1>. QED
    BY <1>3, <1>4 DEF After

(* Orders in a concatenation. *)
LEMMA JoinOrder ==
    ASSUME NEW p, NEW s \in Seq(Commands), NEW t \in Seq(Commands), InOrder(p, s), InOrder(p, t),
           \A x \in ToSet(s), y \in ToSet(t) : Follows(p, x, y)
    PROVE  InOrder(p, s \o t)
  <1>1. SUFFICES ASSUME NEW i \in DOMAIN (s \o t), NEW j \in DOMAIN (s \o t), i < j
                 PROVE  Follows(p, (s \o t)[i], (s \o t)[j])
    BY DEF InOrder
  <1>2. /\ s \o t \in Seq(Commands) /\ Len(s \o t) = Len(s) + Len(t)
        /\ \A n \in 1..Len(s) : (s \o t)[n] = s[n]
        /\ \A n \in 1..Len(t) : (s \o t)[Len(s) + n] = t[n]
    BY Joined
  <1>3. /\ DOMAIN s = 1..Len(s) /\ DOMAIN t = 1..Len(t) /\ DOMAIN (s \o t) = 1..(Len(s) + Len(t))
        /\ Len(s) \in Nat /\ Len(t) \in Nat
    BY <1>2
  <1>4. CASE j \in 1..Len(s)
    <2>1. i \in 1..Len(s)
      BY <1>1, <1>3, <1>4
    <2>. QED
      BY <1>1, <1>2, <1>3, <1>4, <2>1 DEF InOrder
  <1>5. CASE j \notin 1..Len(s)
    <2>1. j - Len(s) \in 1..Len(t) /\ Len(s) + (j - Len(s)) = j
      BY <1>3, <1>5
    <2>2. CASE i \in 1..Len(s)
      <3>1. (s \o t)[i] \in ToSet(s) /\ (s \o t)[j] \in ToSet(t)
        BY <1>2, <1>3, <2>1, <2>2 DEF ToSet
      <3>. QED
        BY <3>1
    <2>3. CASE i \notin 1..Len(s)
      <3>1. i - Len(s) \in 1..Len(t) /\ Len(s) + (i - Len(s)) = i /\ i - Len(s) < j - Len(s)
        BY <1>1, <1>3, <2>3
      <3>. QED
        BY <1>2, <1>3, <2>1, <3>1 DEF InOrder
    <2>. QED
      BY <2>2, <2>3
  <1>. QED
    BY <1>4, <1>5

LEMMA JoinBefore ==
    ASSUME NEW s \in Seq(Commands), NEW t \in Seq(Commands), NEW x, NEW y
    PROVE  /\ x \in ToSet(s) /\ Before(s, x, y) => Before(s \o t, x, y)
           /\ y \notin ToSet(s) /\ Before(t, x, y) => Before(s \o t, x, y)
           /\ y \notin ToSet(s) => Before(s, x, y)
  <1>2. /\ s \o t \in Seq(Commands) /\ Len(s \o t) = Len(s) + Len(t)
        /\ \A n \in 1..Len(s) : (s \o t)[n] = s[n]
        /\ \A n \in 1..Len(t) : (s \o t)[Len(s) + n] = t[n]
    BY Joined
  <1>3. /\ DOMAIN s = 1..Len(s) /\ DOMAIN t = 1..Len(t) /\ DOMAIN (s \o t) = 1..(Len(s) + Len(t))
        /\ Len(s) \in Nat /\ Len(t) \in Nat
    BY <1>2
  <1>4. ASSUME x \in ToSet(s), Before(s, x, y), NEW j \in DOMAIN (s \o t), (s \o t)[j] = y
        PROVE  \E i \in DOMAIN (s \o t) : i < j /\ (s \o t)[i] = x
    <2>1. CASE j \in 1..Len(s)
      <3>1. PICK i \in DOMAIN s : i < j /\ s[i] = x
        BY <1>2, <1>3, <1>4, <2>1 DEF Before
      <3>2. i \in DOMAIN (s \o t) /\ (s \o t)[i] = x
        BY <1>2, <1>3, <3>1
      <3>. QED
        BY <3>1, <3>2
    <2>2. CASE j \notin 1..Len(s)
      <3>1. PICK i \in DOMAIN s : s[i] = x
        BY <1>4 DEF ToSet
      <3>2. i \in DOMAIN (s \o t) /\ (s \o t)[i] = x /\ i < j
        BY <1>2, <1>3, <1>4, <2>2, <3>1
      <3>. QED
        BY <3>2
    <2>. QED
      BY <2>1, <2>2
  <1>5. ASSUME y \notin ToSet(s), Before(t, x, y), NEW j \in DOMAIN (s \o t), (s \o t)[j] = y
        PROVE  \E i \in DOMAIN (s \o t) : i < j /\ (s \o t)[i] = x
    <2>1. j \notin 1..Len(s)
      BY <1>2, <1>3, <1>5 DEF ToSet
    <2>2. j - Len(s) \in DOMAIN t /\ Len(s) + (j - Len(s)) = j
      BY <1>3, <2>1, <1>5
    <2>3. PICK i \in DOMAIN t : i < j - Len(s) /\ t[i] = x
      BY <1>2, <1>3, <1>5, <2>2 DEF Before
    <2>4. Len(s) + i \in DOMAIN (s \o t) /\ Len(s) + i < j /\ (s \o t)[Len(s) + i] = x
      BY <1>2, <1>3, <2>2, <2>3, <1>5
    <2>. QED
      BY <2>4
  <1>6. y \notin ToSet(s) => Before(s, x, y)
    BY DEF Before, ToSet
  <1>. QED
    BY <1>4, <1>5, <1>6 DEF Before

LEMMA JoinAfter ==
    ASSUME NEW s \in Seq(Commands), NEW t \in Seq(Commands), NEW x, NEW y
    PROVE  /\ After(s, x, y) /\ After(t, x, y) => After(s \o t, x, y)
           /\ y \in ToSet(t) /\ After(t, x, y) => After(s \o t, x, y)
           /\ x \notin ToSet(s) => After(s, x, y)
  <1>2. /\ s \o t \in Seq(Commands) /\ Len(s \o t) = Len(s) + Len(t)
        /\ \A n \in 1..Len(s) : (s \o t)[n] = s[n]
        /\ \A n \in 1..Len(t) : (s \o t)[Len(s) + n] = t[n]
    BY Joined
  <1>3. /\ DOMAIN s = 1..Len(s) /\ DOMAIN t = 1..Len(t) /\ DOMAIN (s \o t) = 1..(Len(s) + Len(t))
        /\ Len(s) \in Nat /\ Len(t) \in Nat
    BY <1>2
  <1>4. ASSUME After(s, x, y) \/ y \in ToSet(t), After(t, x, y), NEW i \in DOMAIN (s \o t), (s \o t)[i] = x
        PROVE  \E j \in DOMAIN (s \o t) : i < j /\ (s \o t)[j] = y
    <2>1. CASE i \in 1..Len(s) /\ After(s, x, y)
      <3>1. PICK j \in DOMAIN s : i < j /\ s[j] = y
        BY <1>2, <1>3, <1>4, <2>1 DEF After
      <3>2. j \in DOMAIN (s \o t) /\ (s \o t)[j] = y
        BY <1>2, <1>3, <3>1
      <3>. QED
        BY <3>1, <3>2
    <2>2. CASE i \in 1..Len(s) /\ y \in ToSet(t)
      <3>1. PICK j \in DOMAIN t : t[j] = y
        BY <2>2 DEF ToSet
      <3>2. Len(s) + j \in DOMAIN (s \o t) /\ (s \o t)[Len(s) + j] = y /\ i < Len(s) + j
        BY <1>2, <1>3, <2>2, <3>1
      <3>. QED
        BY <3>2
    <2>3. CASE i \notin 1..Len(s)
      <3>1. i - Len(s) \in DOMAIN t /\ Len(s) + (i - Len(s)) = i
        BY <1>3, <2>3, <1>4
      <3>2. PICK j \in DOMAIN t : i - Len(s) < j /\ t[j] = y
        BY <1>2, <1>3, <1>4, <3>1 DEF After
      <3>3. Len(s) + j \in DOMAIN (s \o t) /\ i < Len(s) + j /\ (s \o t)[Len(s) + j] = y
        BY <1>2, <1>3, <3>1, <3>2, <1>4
      <3>. QED
        BY <3>3
    <2>. QED
      BY <1>4, <2>1, <2>2, <2>3
  <1>5. x \notin ToSet(s) => After(s, x, y)
    BY DEF After, ToSet
  <1>. QED
    BY <1>4, <1>5 DEF After

LEMMA OneOrder == ASSUME NEW p, NEW x \in Commands PROVE InOrder(p, <<x>>) /\ InOrder(p, <<>>)
  <1>1. DOMAIN <<x>> = {1} /\ DOMAIN <<>> = {}
    OBVIOUS
  <1>. QED
    BY <1>1 DEF InOrder

(* DoAll is a list of commands, one for each object. *)
LEMMA AllFacts ==
    ASSUME NEW c \in Components, NEW op \in Ops, NEW os \in Seq(Things)
    PROVE  /\ DoAll(c, op, os) \in Seq(Commands) /\ DOMAIN DoAll(c, op, os) = DOMAIN os
           /\ \A i \in DOMAIN os : DoAll(c, op, os)[i] = Do(c, op, os[i])
           /\ ToSet(DoAll(c, op, os)) = {Do(c, op, o) : o \in ToSet(os)}
           /\ ToSet(os) \subseteq Things
  <1>1. \A i \in DOMAIN os : os[i] \in Things
    OBVIOUS
  <1>2. DOMAIN os = 1..Len(os) /\ Len(os) \in Nat
    OBVIOUS
  <1>3. /\ DOMAIN DoAll(c, op, os) = DOMAIN os
        /\ \A i \in DOMAIN os : DoAll(c, op, os)[i] = Do(c, op, os[i])
    BY DEF DoAll
  <1>4. DoAll(c, op, os) \in [1..Len(os) -> Commands]
    BY <1>1, <1>2, DoType DEF DoAll
  <1>5. DoAll(c, op, os) \in Seq(Commands)
    BY <1>2, <1>4
  <1>6. ToSet(DoAll(c, op, os)) = {Do(c, op, o) : o \in ToSet(os)} /\ ToSet(os) \subseteq Things
    BY <1>1, <1>3 DEF ToSet
  <1>. QED
    BY <1>3, <1>5, <1>6

(* Sets of tuples. *)
LEMMA Tuples ==
    /\ \A a, b : ToSet(<<a, b>>) = {a, b} /\ DOMAIN <<a, b>> = {1, 2}
    /\ \A a, b, c : ToSet(<<a, b, c>>) = {a, b, c} /\ DOMAIN <<a, b, c>> = {1, 2, 3}
    /\ \A a, b, c, d : ToSet(<<a, b, c, d>>) = {a, b, c, d} /\ DOMAIN <<a, b, c, d>> = {1, 2, 3, 4}
    /\ \A a : ToSet(<<a>>) = {a} /\ DOMAIN <<a>> = {1}
  <1>1. \A a, b : DOMAIN <<a, b>> = {1, 2} /\ <<a, b>>[1] = a /\ <<a, b>>[2] = b
    OBVIOUS
  <1>2. \A a, b, c : DOMAIN <<a, b, c>> = {1, 2, 3} /\ <<a, b, c>>[1] = a /\ <<a, b, c>>[2] = b /\ <<a, b, c>>[3] = c
    OBVIOUS
  <1>3. \A a, b, c, d : /\ DOMAIN <<a, b, c, d>> = {1, 2, 3, 4} /\ <<a, b, c, d>>[1] = a /\ <<a, b, c, d>>[2] = b
                        /\ <<a, b, c, d>>[3] = c /\ <<a, b, c, d>>[4] = d
    OBVIOUS
  <1>4. \A a : DOMAIN <<a>> = {1} /\ <<a>>[1] = a
    OBVIOUS
  <1>5. \A a, b : ToSet(<<a, b>>) = {a, b}
    BY <1>1 DEF ToSet
  <1>6. \A a, b, c : ToSet(<<a, b, c>>) = {a, b, c}
    BY <1>2 DEF ToSet
  <1>7. \A a, b, c, d : ToSet(<<a, b, c, d>>) = {a, b, c, d}
    <2>1. TAKE a, b, c, d
    <2>2. ToSet(<<a, b, c, d>>) \subseteq {a, b, c, d}
      BY <1>3 DEF ToSet
    <2>3. {a, b, c, d} \subseteq ToSet(<<a, b, c, d>>)
      BY <1>3 DEF ToSet
    <2>. QED
      BY <2>2, <2>3
  <1>8. \A a : ToSet(<<a>>) = {a}
    BY <1>4 DEF ToSet
  <1>. QED
    BY <1>1, <1>2, <1>3, <1>4, <1>5, <1>6, <1>7, <1>8

(* The objects of the model by name: which jump leads where, which filter
   is where, whose object is whose, and what has to go before what. *)
LEMMA JumpFacts ==
    /\ Jumps = {"PREROUTING > UA3F", "OUTPUT > UA3F_OUTPUT", "PREROUTING > UA3F_SIDECAR", "nat PREROUTING > UA3F",
                "POSTROUTING > UA3F", "POSTROUTING > REORDER", "PREROUTING > INJECT"}
    /\ JumpTo["PREROUTING > UA3F"] = "mangle UA3F" /\ JumpTo["POSTROUTING > UA3F"] = "mangle UA3F"
    /\ JumpTo["OUTPUT > UA3F_OUTPUT"] = "UA3F_OUTPUT" /\ JumpTo["PREROUTING > UA3F_SIDECAR"] = "UA3F_SIDECAR"
    /\ JumpTo["nat PREROUTING > UA3F"] = "nat UA3F" /\ JumpTo["POSTROUTING > REORDER"] = "REORDER"
    /\ JumpTo["PREROUTING > INJECT"] = "INJECT"
  BY DEF Jumps, JumpTo

LEMMA FilterFacts ==
    /\ ToSet(Filters.wan) = {"wan 1", "wan 2", "wan 3", "wan 4"}
    /\ ToSet(Filters.wwan) = {"wwan 1", "wwan 2", "wwan 3", "wwan 4"}
    /\ AllFilters = {"wan 1", "wan 2", "wan 3", "wan 4", "wwan 1", "wwan 2", "wwan 3", "wwan 4"}
    /\ Hooks = {"wan 1", "wan 2", "wan 3", "wan 4", "wwan 1", "wwan 2", "wwan 3", "wwan 4", "TCX"}
    /\ Qdisc.wan = "wan clsact" /\ Qdisc.wwan = "wwan clsact"
  <1>1. /\ ToSet(Filters.wan) = {"wan 1", "wan 2", "wan 3", "wan 4"}
        /\ ToSet(Filters.wwan) = {"wwan 1", "wwan 2", "wwan 3", "wwan 4"}
    <2>1. Filters.wan = <<"wan 1", "wan 2", "wan 3", "wan 4">> /\ Filters.wwan = <<"wwan 1", "wwan 2", "wwan 3", "wwan 4">>
      BY DEF Filters
    <2>2. \A a, b, c, d : ToSet(<<a, b, c, d>>) = {a, b, c, d}
      BY Tuples
    <2>3. ToSet(<<"wan 1", "wan 2", "wan 3", "wan 4">>) = {"wan 1", "wan 2", "wan 3", "wan 4"}
      BY <2>2, ZenonT(60)
    <2>4. ToSet(<<"wwan 1", "wwan 2", "wwan 3", "wwan 4">>) = {"wwan 1", "wwan 2", "wwan 3", "wwan 4"}
      BY <2>2, ZenonT(60)
    <2>. QED
      BY <2>1, <2>3, <2>4, Zenon
  <1>2. AllFilters = {"wan 1", "wan 2", "wan 3", "wan 4", "wwan 1", "wwan 2", "wwan 3", "wwan 4"}
    BY <1>1 DEF AllFilters
  <1>. QED
    BY <1>1, <1>2 DEF Hooks, Links, Qdisc

LEMMA OwnedFacts ==
    /\ Owned["help"] = {"nft UA3F_HELPER", "nft TTL_INGRESS", "TTL 64", "TTL 65", "IP", "SYN", "QUIC"} \cup Hooks
    /\ Owned["des"] = {"nft UA3F_DESYNC", "REORDER", "INJECT", "POSTROUTING > REORDER", "PREROUTING > INJECT"}
    /\ Owned["srv"] = {"nft UA3F", "rule4", "route4", "rule6", "route6", "UA3F_LAN", "UA3F_SKIP_IPSET", "mangle UA3F",
                       "UA3F_OUTPUT", "UA3F_SIDECAR", "nat UA3F", "PREROUTING > UA3F", "OUTPUT > UA3F_OUTPUT",
                       "PREROUTING > UA3F_SIDECAR", "nat PREROUTING > UA3F", "POSTROUTING > UA3F"}
  <1>1. Owned["help"] = {"nft UA3F_HELPER", Ingress} \cup Rules \cup {Links} \cup AllFilters
    BY DEF Owned, Components
  <1>2. Owned["des"] = {"nft UA3F_DESYNC", "REORDER", "INJECT", "POSTROUTING > REORDER", "PREROUTING > INJECT"}
    BY DEF Owned, Components
  <1>3. Owned["srv"] = {"nft UA3F"} \cup Routes \cup Sets \cup {c \in Chains : c \notin {"REORDER", "INJECT"}}
                       \cup {j \in Jumps : JumpTo[j] \notin {"REORDER", "INJECT"}}
    BY DEF Owned, Components
  <1>4. {c \in Chains : c \notin {"REORDER", "INJECT"}} = {"mangle UA3F", "UA3F_OUTPUT", "UA3F_SIDECAR", "nat UA3F"}
    BY DEF Chains
  <1>5. {j \in Jumps : JumpTo[j] \notin {"REORDER", "INJECT"}} =
            {"PREROUTING > UA3F", "OUTPUT > UA3F_OUTPUT", "PREROUTING > UA3F_SIDECAR", "nat PREROUTING > UA3F",
             "POSTROUTING > UA3F"}
    BY JumpFacts
  <1>6. Owned["help"] = {"nft UA3F_HELPER", "nft TTL_INGRESS", "TTL 64", "TTL 65", "IP", "SYN", "QUIC"} \cup Hooks
    BY <1>1 DEF Ingress, Rules, Hooks
  <1>7. Owned["srv"] = {"nft UA3F", "rule4", "route4", "rule6", "route6", "UA3F_LAN", "UA3F_SKIP_IPSET", "mangle UA3F",
                       "UA3F_OUTPUT", "UA3F_SIDECAR", "nat UA3F", "PREROUTING > UA3F", "OUTPUT > UA3F_OUTPUT",
                       "PREROUTING > UA3F_SIDECAR", "nat PREROUTING > UA3F", "POSTROUTING > UA3F"}
    BY <1>3, <1>4, <1>5 DEF Routes, Sets, LanSet, SkipSet
  <1>. QED
    BY <1>2, <1>6, <1>7

LEMMA ObjectFacts ==
    /\ \A c \in Components : Owned[c] \subseteq Objects
    /\ \A c, d \in Components : c # d => Owned[c] \cap Owned[d] = {}
    /\ Hooks \subseteq Owned["help"] /\ Objects \subseteq Things /\ Nowhere \in Things /\ Interfaces \subseteq Things
    /\ \A o \in Objects : o \notin {Qdisc.wan, Qdisc.wwan} => \E c \in Components : o \in Owned[c]
    /\ Nowhere \notin Objects
    /\ \A c \in Components : Qdisc.wan \notin Owned[c] /\ Qdisc.wwan \notin Owned[c]
    /\ Ingress \in Owned["help"] /\ HelperTable \in Owned["help"]
  <1>1. Objects = {"nft UA3F_HELPER", "nft UA3F_DESYNC", "nft UA3F", "nft TTL_INGRESS", "rule4", "route4", "rule6", "route6",
                   "UA3F_LAN", "UA3F_SKIP_IPSET", "mangle UA3F", "UA3F_OUTPUT", "UA3F_SIDECAR", "nat UA3F", "REORDER", "INJECT",
                   "TTL 64", "TTL 65", "IP", "SYN", "QUIC", "TCX", "wan clsact", "wwan clsact"} \cup Jumps \cup AllFilters
    BY FilterFacts DEF Objects, Tables, Ingress, Routes, Sets, LanSet, SkipSet, Chains, Rules, Links
  <1>2. \A c \in Components : Owned[c] \subseteq Objects
    <2>1. Owned["help"] \subseteq Objects
      BY <1>1, OwnedFacts, FilterFacts
    <2>2. Owned["des"] \subseteq Objects
      BY <1>1, OwnedFacts, JumpFacts
    <2>3. Owned["srv"] \subseteq Objects
      BY <1>1, OwnedFacts, JumpFacts
    <2>. QED
      BY <2>1, <2>2, <2>3 DEF Components
  <1>3. \A c, d \in Components : c # d => Owned[c] \cap Owned[d] = {}
    <2>1. Owned["help"] \cap Owned["des"] = {}
      BY OwnedFacts, FilterFacts
    <2>2. Owned["help"] \cap Owned["srv"] = {}
      BY OwnedFacts, FilterFacts
    <2>3. Owned["des"] \cap Owned["srv"] = {}
      BY OwnedFacts
    <2>. QED
      BY <2>1, <2>2, <2>3 DEF Components
  <1>4. Hooks \subseteq Owned["help"] /\ Objects \subseteq Things /\ Nowhere \in Things /\ Interfaces \subseteq Things
    BY OwnedFacts DEF Things
  <1>5. \A o \in Objects : o \notin {Qdisc.wan, Qdisc.wwan} => \E c \in Components : o \in Owned[c]
    BY <1>1, OwnedFacts, JumpFacts, FilterFacts, ZenonT(60) DEF Components
  <1>6. Nowhere \notin Objects
    BY <1>1, JumpFacts, FilterFacts DEF Nowhere
  <1>7. \A c \in Components : Qdisc.wan \notin Owned[c] /\ Qdisc.wwan \notin Owned[c]
    BY OwnedFacts, FilterFacts DEF Components
  <1>. QED
    BY <1>2, <1>3, <1>4, <1>5, <1>6, <1>7, OwnedFacts DEF Ingress, HelperTable

LEMMA WaitFacts ==
    /\ Waits("mangle UA3F") = {"PREROUTING > UA3F", "POSTROUTING > UA3F"}
    /\ Waits("UA3F_OUTPUT") = {"OUTPUT > UA3F_OUTPUT"}
    /\ Waits("UA3F_SIDECAR") = {"PREROUTING > UA3F_SIDECAR"}
    /\ Waits("nat UA3F") = {"nat PREROUTING > UA3F"}
    /\ Waits("REORDER") = {"POSTROUTING > REORDER"} /\ Waits("INJECT") = {"PREROUTING > INJECT"}
    /\ \A o \in Sets : Waits(o) = MatchSets
    /\ \A o \in Objects \ (Chains \cup Sets) : Waits(o) = {}
    /\ \A o \in Objects : \A c \in Components : o \in Owned[c] => Waits(o) \subseteq Owned[c] \ Hooks
    /\ \A o \in Sets \cup Chains : \A x \in Waits(o) : x # SkipSet /\ x \in Chains \cup Jumps
    /\ \A o \in Objects, ty \in {"SOCKS5", "TPROXY", "REDIRECT", "NFQUEUE"} : \A x \in Waits(o) : x \in OfType(ty) => o \in OfType(ty)
  <1>1. /\ Waits("mangle UA3F") = {"PREROUTING > UA3F", "POSTROUTING > UA3F"}
        /\ Waits("UA3F_OUTPUT") = {"OUTPUT > UA3F_OUTPUT"}
        /\ Waits("UA3F_SIDECAR") = {"PREROUTING > UA3F_SIDECAR"}
        /\ Waits("nat UA3F") = {"nat PREROUTING > UA3F"}
        /\ Waits("REORDER") = {"POSTROUTING > REORDER"} /\ Waits("INJECT") = {"PREROUTING > INJECT"}
    BY JumpFacts DEF Waits, Sets, LanSet, SkipSet, Chains
  <1>2. \A o \in Sets : Waits(o) = MatchSets
    BY DEF Waits, Sets, LanSet, SkipSet, Chains
  <1>3. \A o \in Objects \ (Chains \cup Sets) : Waits(o) = {}
    BY DEF Waits
  <1>4. \A c \in Components : \A o \in Owned[c] : Waits(o) \subseteq Owned[c] \ Hooks
    <2>1. TAKE c \in Components
    <2>0. TAKE o \in Owned[c]
    <2>2. CASE o \in Sets
      BY <1>2, <2>2, OwnedFacts, FilterFacts, ZenonT(60) DEF Sets, LanSet, SkipSet, MatchSets, Components
    <2>3. CASE o \in Chains
      <3>1. o \in {"REORDER", "INJECT"} => c = "des" /\ Waits(o) \subseteq Owned["des"]
        BY <1>1, <2>3, OwnedFacts, FilterFacts DEF Components
      <3>2. o \notin {"REORDER", "INJECT"} => c = "srv" /\ Waits(o) \subseteq Owned["srv"]
        BY <1>1, <2>3, OwnedFacts, FilterFacts, ZenonT(60) DEF Components, Chains
      <3>3. Owned["des"] \cap Hooks = {} /\ Owned["srv"] \cap Hooks = {}
        BY ObjectFacts DEF Components
      <3>. QED
        BY <3>1, <3>2, <3>3
    <2>. QED
      BY <1>3, <2>2, <2>3, ObjectFacts
  <1>5. \A o \in Sets \cup Chains : \A x \in Waits(o) : x # SkipSet /\ x \in Chains \cup Jumps
    BY <1>1, <1>2, JumpFacts, ZenonT(60) DEF Sets, Chains, LanSet, SkipSet, MatchSets
  <1>6. \A o \in Objects, ty \in {"SOCKS5", "TPROXY", "REDIRECT", "NFQUEUE"} : \A x \in Waits(o) : x \in OfType(ty) => o \in OfType(ty)
    <2>1. TAKE o \in Objects, ty \in {"SOCKS5", "TPROXY", "REDIRECT", "NFQUEUE"}
    <2>2. CASE o \in Sets
      BY <1>2, <2>2 DEF MatchSets, OfType
    <2>3. CASE o \in Chains
      BY <1>1, <2>3 DEF Chains, OfType, Sets, LanSet, SkipSet
    <2>. QED
      BY <1>3, <2>2, <2>3
  <1>. QED
    BY <1>1, <1>2, <1>3, <1>4, <1>5, <1>6

(* A list that only puts: M by create or put, R by try, F by fill. *)
Puts(L, c, M, R, F) ==
    /\ L \in Seq(Commands)
    /\ \A p : InOrder(p, L)
    /\ \A x \in ToSet(L) : /\ x.comp = c /\ Typed(x)
                           /\ \/ x.op \in {"create", "put"} /\ x.obj \in M
                              \/ x.op = "try" /\ x.obj \in R
                              \/ x.op = "fill" /\ x.obj \in F

(* Equality and splitting of tuples. *)
LEMMA SameSeq ==
    ASSUME NEW S, NEW s \in Seq(S), NEW t \in Seq(S), Len(s) = Len(t), \A i \in 1..Len(s) : s[i] = t[i]
    PROVE  s = t
  OBVIOUS

LEMMA Split2 == ASSUME NEW a, NEW b PROVE <<a, b>> = <<a>> \o <<b>>
  <1>1. PICK S : S = {a, b}
    OBVIOUS
  <1>2. a \in S /\ b \in S
    BY <1>1
  <1>3. <<a, b>> \in Seq(S) /\ <<a>> \in Seq(S) /\ <<b>> \in Seq(S)
    BY <1>2
  <1>4. <<a>> \o <<b>> \in Seq(S) /\ Len(<<a>> \o <<b>>) = 2 /\ (<<a>> \o <<b>>)[1] = a /\ (<<a>> \o <<b>>)[2] = b
    <2>1. Len(<<a>>) = 1 /\ Len(<<b>>) = 1 /\ <<a>>[1] = a /\ <<b>>[1] = b
      OBVIOUS
    <2>2. /\ <<a>> \o <<b>> \in Seq(S) /\ Len(<<a>> \o <<b>>) = 1 + 1
          /\ \A i \in 1..1 : (<<a>> \o <<b>>)[i] = <<a>>[i]
          /\ \A i \in 1..1 : (<<a>> \o <<b>>)[1 + i] = <<b>>[i]
      BY <1>3, <2>1, Joined
    <2>3. 1 \in 1..1 /\ 1 + 1 = 2
      OBVIOUS
    <2>. QED
      BY <2>1, <2>2, <2>3
  <1>5. Len(<<a, b>>) = 2 /\ <<a, b>>[1] = a /\ <<a, b>>[2] = b
    OBVIOUS
  <1>6. \A i \in 1..2 : i = 1 \/ i = 2
    OBVIOUS
  <1>. QED
    BY <1>3, <1>4, <1>5, <1>6, SameSeq

LEMMA Split3 == ASSUME NEW a, NEW b, NEW c PROVE <<a, b, c>> = <<a, b>> \o <<c>>
  <1>1. PICK S : S = {a, b, c}
    OBVIOUS
  <1>2. a \in S /\ b \in S /\ c \in S
    BY <1>1
  <1>3. <<a, b, c>> \in Seq(S) /\ <<a, b>> \in Seq(S) /\ <<c>> \in Seq(S)
    BY <1>2
  <1>4. /\ <<a, b>> \o <<c>> \in Seq(S) /\ Len(<<a, b>> \o <<c>>) = 3 /\ (<<a, b>> \o <<c>>)[1] = a
        /\ (<<a, b>> \o <<c>>)[2] = b /\ (<<a, b>> \o <<c>>)[3] = c
    <2>1. Len(<<a, b>>) = 2 /\ Len(<<c>>) = 1 /\ <<a, b>>[1] = a /\ <<a, b>>[2] = b /\ <<c>>[1] = c
      OBVIOUS
    <2>2. /\ <<a, b>> \o <<c>> \in Seq(S) /\ Len(<<a, b>> \o <<c>>) = 2 + 1
          /\ \A i \in 1..2 : (<<a, b>> \o <<c>>)[i] = <<a, b>>[i]
          /\ \A i \in 1..1 : (<<a, b>> \o <<c>>)[2 + i] = <<c>>[i]
      BY <1>3, <2>1, Joined
    <2>3. 1 \in 1..1 /\ 2 + 1 = 3 /\ 1 \in 1..2 /\ 2 \in 1..2
      OBVIOUS
    <2>. QED
      BY <2>1, <2>2, <2>3
  <1>5. Len(<<a, b, c>>) = 3 /\ <<a, b, c>>[1] = a /\ <<a, b, c>>[2] = b /\ <<a, b, c>>[3] = c
    OBVIOUS
  <1>6. \A i \in 1..3 : i = 1 \/ i = 2 \/ i = 3
    OBVIOUS
  <1>. QED
    BY <1>3, <1>4, <1>5, <1>6, SameSeq

(* Places are numbers. *)
LEMMA PlaceType == \A p, c : Place(p, c) \in Nat /\ Place(p, c) <= Place(p, c)
  BY DEF Place

(* Lists that put different objects can be joined. *)
LEMMA PutsJoin ==
    ASSUME NEW A, NEW B, NEW c, NEW M, NEW R, NEW F, NEW N, NEW Q, NEW G,
           Puts(A, c, M, R, F), Puts(B, c, N, Q, G),
           (M \cup R \cup F) \cap (N \cup Q) = {}, F \cap G = {},
           Ingress \notin M \cup R \/ HelperTable \notin N \cup Q
    PROVE  Puts(A \o B, c, M \cup N, R \cup Q, F \cup G)
  <1>1. A \in Seq(Commands) /\ B \in Seq(Commands) /\ A \o B \in Seq(Commands) /\ ToSet(A \o B) = ToSet(A) \cup ToSet(B)
    BY Joined DEF Puts
  <1>2. \A x \in ToSet(A \o B) : /\ x.comp = c /\ Typed(x)
                                 /\ \/ x.op \in {"create", "put"} /\ x.obj \in M \cup N
                                    \/ x.op = "try" /\ x.obj \in R \cup Q
                                    \/ x.op = "fill" /\ x.obj \in F \cup G
    BY <1>1 DEF Puts
  <1>3. ASSUME NEW p, NEW x \in ToSet(A), NEW y \in ToSet(B) PROVE Follows(p, x, y)
    <2>1. x.comp = c /\ y.comp = c
      BY DEF Puts
    <2>2. /\ \/ x.op \in {"create", "put"} /\ x.obj \in M
             \/ x.op = "try" /\ x.obj \in R
             \/ x.op = "fill" /\ x.obj \in F
          /\ \/ y.op \in {"create", "put"} /\ y.obj \in N
             \/ y.op = "try" /\ y.obj \in Q
             \/ y.op = "fill" /\ y.obj \in G
      BY DEF Puts
    <2>3. x.op \in {"create", "put", "try", "fill"} /\ y.op \in {"create", "put", "try", "fill"}
      BY <2>2
    <2>4. x.obj = y.obj => (x.op \in PutOps => y.op \notin MakeOps) /\ (x.op = "fill" => y.op # "fill")
      BY <2>2 DEF PutOps, MakeOps
    <2>5. x.op \in MakeOps /\ x.obj = Ingress => ~(y.op \in MakeOps /\ y.obj = HelperTable)
      BY <2>2 DEF MakeOps
    <2>. QED
      BY <2>1, <2>3, <2>4, <2>5, PlaceType DEF Follows
  <1>4. \A p : InOrder(p, A \o B)
    BY <1>1, <1>3, JoinOrder DEF Puts
  <1>. QED
    BY <1>1, <1>2, <1>4 DEF Puts

LEMMA PutsNone == \A c : Puts(<<>>, c, {}, {}, {})
  <1>1. DOMAIN <<>> = {} /\ ToSet(<<>>) = {} /\ <<>> \in Seq(Commands)
    BY Empty
  <1>. QED
    BY <1>1 DEF Puts, InOrder

LEMMA PutsWiden ==
    ASSUME NEW L, NEW c, NEW M, NEW R, NEW F, NEW N, NEW Q, NEW G, Puts(L, c, M, R, F),
           M \subseteq N, R \subseteq Q, F \subseteq G
    PROVE  Puts(L, c, N, Q, G)
  BY DEF Puts

(* One command, or two of a kind. *)
LEMMA PutsOne ==
    ASSUME NEW x \in Commands, Typed(x), NEW M, NEW R, NEW F,
           \/ x.op \in {"create", "put"} /\ x.obj \in M
           \/ x.op = "try" /\ x.obj \in R
           \/ x.op = "fill" /\ x.obj \in F
    PROVE  Puts(<<x>>, x.comp, M, R, F)
  <1>1. <<x>> \in Seq(Commands) /\ ToSet(<<x>>) = {x} /\ \A p : InOrder(p, <<x>>)
    BY One, OneOrder
  <1>. QED
    BY <1>1 DEF Puts

LEMMA PutsDo ==
    ASSUME NEW c \in Components, NEW op \in PutOps, NEW o \in Objects, Typed(Do(c, op, o)), NEW M, NEW R,
           NEW F,
           \/ op \in {"create", "put"} /\ o \in M
           \/ op = "try" /\ o \in R
           \/ op = "fill" /\ o \in F
    PROVE  Puts(<<Do(c, op, o)>>, c, M, R, F)
  <1>1. Do(c, op, o) \in Commands
    BY DoType, ObjectFacts DEF PutOps, MakeOps, Ops, InstallOps
  <1>2. PICK x : x = Do(c, op, o)
    OBVIOUS
  <1>3. x \in Commands /\ Typed(x) /\ x.comp = c /\ x.op = op /\ x.obj = o
    BY <1>1, <1>2, DoFields
  <1>4. Puts(<<x>>, x.comp, M, R, F)
    BY <1>3, PutsOne
  <1>. QED
    BY <1>2, <1>3, <1>4

LEMMA PutsAll ==
    ASSUME NEW c \in Components, NEW op \in PutOps, NEW a \in Objects, NEW b \in Objects, a # b,
           a # Ingress, Typed(Do(c, op, a)), Typed(Do(c, op, b)), NEW M, NEW R, NEW F,
           \A o \in {a, b} : \/ op \in {"create", "put"} /\ o \in M
                             \/ op = "try" /\ o \in R
                             \/ op = "fill" /\ o \in F
    PROVE  Puts(DoAll(c, op, <<a, b>>), c, M, R, F)
  <1>1. DoAll(c, op, <<a, b>>) = <<Do(c, op, a), Do(c, op, b)>>
    BY DEF DoAll
  <1>2. op \in Ops /\ <<a, b>> \in Seq(Things)
    BY ObjectFacts DEF PutOps, MakeOps, Ops, InstallOps
  <1>3. /\ DoAll(c, op, <<a, b>>) \in Seq(Commands) /\ DOMAIN DoAll(c, op, <<a, b>>) = {1, 2}
        /\ DoAll(c, op, <<a, b>>)[1] = Do(c, op, a) /\ DoAll(c, op, <<a, b>>)[2] = Do(c, op, b)
        /\ ToSet(DoAll(c, op, <<a, b>>)) = {Do(c, op, a), Do(c, op, b)}
    <2>1. DoAll(c, op, <<a, b>>) \in Seq(Commands)
      BY <1>2, AllFacts
    <2>2. /\ DOMAIN <<Do(c, op, a), Do(c, op, b)>> = {1, 2}
          /\ <<Do(c, op, a), Do(c, op, b)>>[1] = Do(c, op, a) /\ <<Do(c, op, a), Do(c, op, b)>>[2] = Do(c, op, b)
      OBVIOUS
    <2>. QED
      BY <1>1, <2>1, <2>2, Tuples
  <1>4. ASSUME NEW p PROVE Follows(p, Do(c, op, a), Do(c, op, b))
    BY DoFields, PlaceType DEF Follows, PutOps, MakeOps, InstallOps
  <1>5. \A p : InOrder(p, DoAll(c, op, <<a, b>>))
    BY <1>3, <1>4 DEF InOrder
  <1>6. \A x \in ToSet(DoAll(c, op, <<a, b>>)) :
            /\ x.comp = c /\ Typed(x)
            /\ \/ x.op \in {"create", "put"} /\ x.obj \in M
               \/ x.op = "try" /\ x.obj \in R
               \/ x.op = "fill" /\ x.obj \in F
    BY <1>3, DoFields
  <1>. QED
    BY <1>3, <1>5, <1>6 DEF Puts

(* The types of servers. *)
Types == {"SOCKS5", "TPROXY", "REDIRECT", "NFQUEUE"}

(* Which commands that put something are typed. *)
LEMMA PutTyped ==
    ASSUME NEW c \in Components, NEW op \in PutOps, NEW o \in Owned[c] \ Hooks,
           host.ipt \/ o \notin IptObjects,
           op = "fill" => o \in Chains, op = "create" => o \in Chains \cup Sets \cup {"rule4", "route4"},
           op = "put" => o \in Jumps \cup Tables \cup Rules \cup {Ingress},
           op = "try" => o \in {"rule6", "route6", Ingress},
           c = "srv" => o \in OfType(type) \cup Routes \cup {"nft UA3F"} /\ (o \in Routes => type = "TPROXY")
    PROVE  Typed(Do(c, op, o))
  <1>1. PICK x : x = Do(c, op, o)
    OBVIOUS
  <1>2. x.comp = c /\ x.op = op /\ x.obj = o
    BY <1>1 DEF Do
  <1>3. op \in {"create", "put", "try", "fill"}
    BY DEF PutOps, MakeOps
  <1>4. Typed(x)
    BY <1>2, <1>3 DEF Typed, PutOps, MakeOps
  <1>. QED
    BY <1>1, <1>4

LEMMA PutTypes ==
    /\ Typed(Do("srv", "put", "nft UA3F"))
    /\ Typed(Do("des", "put", "nft UA3F_DESYNC"))
    /\ Typed(Do("help", "put", "nft UA3F_HELPER")) /\ Typed(Do("help", "put", Ingress)) /\ Typed(Do("help", "try", Ingress))
    /\ host.ipt => \A o \in Rules : Typed(Do("help", "put", o))
    /\ host.ipt => \A o \in {"REORDER", "INJECT"} : Typed(Do("des", "create", o)) /\ Typed(Do("des", "fill", o))
    /\ host.ipt => \A o \in {"POSTROUTING > REORDER", "PREROUTING > INJECT"} : Typed(Do("des", "put", o))
  <1>0. /\ "srv" \in Components /\ "des" \in Components /\ "help" \in Components
        /\ "put" \in PutOps /\ "try" \in PutOps /\ "create" \in PutOps /\ "fill" \in PutOps
    BY DEF Components, PutOps, MakeOps
  <1>1. Typed(Do("srv", "put", "nft UA3F"))
    <2>1. "nft UA3F" \in Owned["srv"] \ Hooks /\ "nft UA3F" \in Tables /\ "nft UA3F" \notin IptObjects /\ "nft UA3F" \notin Routes
      BY OwnedFacts, FilterFacts, JumpFacts DEF Tables, IptObjects, Chains, Sets, Rules, LanSet, SkipSet, Routes
    <2>. QED
      BY <1>0, <2>1, PutTyped
  <1>2. Typed(Do("des", "put", "nft UA3F_DESYNC"))
    <2>1. "nft UA3F_DESYNC" \in Owned["des"] \ Hooks /\ "nft UA3F_DESYNC" \in Tables /\ "nft UA3F_DESYNC" \notin IptObjects
      BY OwnedFacts, FilterFacts, JumpFacts DEF Tables, IptObjects, Chains, Sets, Rules, LanSet, SkipSet
    <2>. QED
      BY <1>0, <2>1, PutTyped
  <1>3. Typed(Do("help", "put", "nft UA3F_HELPER"))
    <2>1. "nft UA3F_HELPER" \in Owned["help"] \ Hooks /\ "nft UA3F_HELPER" \in Tables /\ "nft UA3F_HELPER" \notin IptObjects
      BY OwnedFacts, FilterFacts, JumpFacts DEF Tables, IptObjects, Chains, Sets, Rules, LanSet, SkipSet
    <2>. QED
      BY <1>0, <2>1, PutTyped
  <1>4. Typed(Do("help", "put", Ingress)) /\ Typed(Do("help", "try", Ingress))
    <2>1. Ingress \in Owned["help"] \ Hooks /\ Ingress \notin IptObjects
      BY OwnedFacts, FilterFacts, JumpFacts DEF IptObjects, Chains, Sets, Rules, LanSet, SkipSet, Ingress
    <2>. QED
      BY <1>0, <2>1, PutTyped
  <1>5. host.ipt => \A o \in Rules : Typed(Do("help", "put", o))
    <2>1. Rules \subseteq Owned["help"] \ Hooks
      BY OwnedFacts, FilterFacts DEF Rules
    <2>. QED
      BY <1>0, <2>1, PutTyped
  <1>6. host.ipt => \A o \in {"REORDER", "INJECT"} : Typed(Do("des", "create", o)) /\ Typed(Do("des", "fill", o))
    <2>1. {"REORDER", "INJECT"} \subseteq Owned["des"] \ Hooks /\ {"REORDER", "INJECT"} \subseteq Chains
      BY OwnedFacts, FilterFacts DEF Chains
    <2>. QED
      BY <1>0, <2>1, PutTyped
  <1>7. host.ipt => \A o \in {"POSTROUTING > REORDER", "PREROUTING > INJECT"} : Typed(Do("des", "put", o))
    <2>1. /\ {"POSTROUTING > REORDER", "PREROUTING > INJECT"} \subseteq Owned["des"] \ Hooks
          /\ {"POSTROUTING > REORDER", "PREROUTING > INJECT"} \subseteq Jumps
      BY OwnedFacts, FilterFacts, JumpFacts
    <2>. QED
      BY <1>0, <2>1, PutTyped
  <1>. QED
    BY <1>1, <1>2, <1>3, <1>4, <1>5, <1>6, <1>7

LEMMA SrvTypes ==
    /\ type = "TPROXY" => \A o \in {"rule4", "route4"} : Typed(Do("srv", "create", o))
    /\ type = "TPROXY" => \A o \in {"rule6", "route6"} : Typed(Do("srv", "try", o))
    /\ host.ipt => \A o \in OfType(type) \cap (Chains \cup Sets) : Typed(Do("srv", "create", o))
    /\ host.ipt => \A o \in OfType(type) \cap Chains : Typed(Do("srv", "fill", o))
    /\ host.ipt => \A o \in OfType(type) \cap Jumps : Typed(Do("srv", "put", o))
    /\ OfType(type) \subseteq Owned["srv"] /\ OfType(type) \cap (Hooks \cup Routes \cup {Ingress}) = {}
  <1>1. OfType(type) \subseteq Owned["srv"] /\ OfType(type) \cap (Hooks \cup Routes \cup {Ingress}) = {}
    BY OwnedFacts, FilterFacts DEF OfType, Sets, LanSet, SkipSet, Routes, Ingress
  <1>2. ASSUME NEW op \in PutOps, NEW o \in Owned["srv"] \ (Hooks \cup {Ingress}), host.ipt \/ o \notin IptObjects,
               op = "fill" => o \in Chains, op = "create" => o \in Chains \cup Sets \cup {"rule4", "route4"},
               op = "put" => o \in Jumps, op = "try" => o \in {"rule6", "route6"},
               o \in OfType(type) \cup Routes, o \in Routes => type = "TPROXY"
        PROVE  Typed(Do("srv", op, o))
    BY <1>2, PutTyped DEF Components
  <1>3. /\ \A o \in OfType(type) \cap (Chains \cup Sets) : o \notin Routes
        /\ Routes = {"rule4", "route4", "rule6", "route6"} /\ Routes \subseteq Owned["srv"] \ (Hooks \cup {Ingress})
        /\ Routes \cap IptObjects = {}
    BY OwnedFacts, FilterFacts, JumpFacts, <1>1 DEF Routes, Chains, Sets, LanSet, SkipSet, Ingress, IptObjects, Rules
  <1>4. \A o \in OfType(type) : o \in Owned["srv"] \ (Hooks \cup {Ingress}) /\ o \notin Routes
    BY <1>1
  <1>5. type = "TPROXY" => \A o \in {"rule4", "route4"} : Typed(Do("srv", "create", o))
    BY <1>2, <1>3 DEF PutOps, MakeOps
  <1>6. type = "TPROXY" => \A o \in {"rule6", "route6"} : Typed(Do("srv", "try", o))
    BY <1>2, <1>3 DEF PutOps, MakeOps
  <1>7. host.ipt => \A o \in OfType(type) \cap (Chains \cup Sets) : Typed(Do("srv", "create", o))
    BY <1>2, <1>4 DEF PutOps, MakeOps
  <1>8. host.ipt => \A o \in OfType(type) \cap Chains : Typed(Do("srv", "fill", o))
    BY <1>2, <1>4 DEF PutOps, MakeOps
  <1>9. host.ipt => \A o \in OfType(type) \cap Jumps : Typed(Do("srv", "put", o))
    BY <1>2, <1>4 DEF PutOps, MakeOps
  <1>. QED
    BY <1>1, <1>5, <1>6, <1>7, <1>8, <1>9

(* A chain, its jump and its rules. *)
LEMMA PutsTrio ==
    ASSUME NEW c \in Components, NEW o \in Objects, NEW j \in Objects, o # j, o # Ingress, j # Ingress,
           Typed(Do(c, "create", o)), Typed(Do(c, "put", j)), Typed(Do(c, "fill", o))
    PROVE  Puts(<<Do(c, "create", o), Do(c, "put", j), Do(c, "fill", o)>>, c, {o, j}, {}, {o})
  <1>1. Puts(<<Do(c, "create", o)>>, c, {o}, {}, {})
    BY PutsDo DEF PutOps, MakeOps
  <1>2. Puts(<<Do(c, "put", j)>>, c, {j}, {}, {})
    BY PutsDo DEF PutOps, MakeOps
  <1>3. Puts(<<Do(c, "fill", o)>>, c, {}, {}, {o})
    BY PutsDo DEF PutOps, MakeOps
  <1>4. Puts(<<Do(c, "create", o)>> \o <<Do(c, "put", j)>>, c, {o} \cup {j}, {} \cup {}, {} \cup {})
    BY <1>1, <1>2, PutsJoin
  <1>5. {o} \cup {j} = {o, j} /\ {} \cup {} = {} /\ {o, j} \cup {} = {o, j} /\ {} \cup {o} = {o}
    OBVIOUS
  <1>6. Puts(<<Do(c, "create", o), Do(c, "put", j)>>, c, {o, j}, {}, {})
    BY <1>4, <1>5, Split2
  <1>7. Puts(<<Do(c, "create", o), Do(c, "put", j)>> \o <<Do(c, "fill", o)>>, c, {o, j} \cup {}, {} \cup {}, {} \cup {o})
    BY <1>3, <1>6, PutsJoin
  <1>. QED
    BY <1>5, <1>7, Split3

(* What the setups of the servers put, part by part. *)
LEMMA RoutePuts ==
    ASSUME type = "TPROXY"
    PROVE  Puts(AddTproxyRoute, "srv", {"rule4", "route4"}, {"rule6", "route6"}, {})
  <1>1. "srv" \in Components /\ {"rule4", "route4", "rule6", "route6"} \subseteq Objects
    BY DEF Components, Objects, Routes
  <1>2. Puts(DoAll("srv", "create", <<"rule4", "route4">>), "srv", {"rule4", "route4"}, {}, {})
    BY <1>1, PutsAll, SrvTypes DEF PutOps, MakeOps, Ingress
  <1>3. Puts(DoAll("srv", "try", <<"rule6", "route6">>), "srv", {}, {"rule6", "route6"}, {})
    BY <1>1, PutsAll, SrvTypes DEF PutOps, MakeOps, Ingress
  <1>4. Puts(AddTproxyRoute, "srv", {"rule4", "route4"} \cup {}, {} \cup {"rule6", "route6"}, {} \cup {})
    BY <1>2, <1>3, PutsJoin DEF AddTproxyRoute, Ingress
  <1>. QED
    BY <1>4

LEMMA SetPuts ==
    ASSUME type \in Types \ {"SOCKS5"}, host.ipt
    PROVE  Puts(IptSets, "srv", {LanSet, SkipSet}, {}, {})
  <1>1. "srv" \in Components /\ {LanSet, SkipSet} \subseteq Objects /\ LanSet # SkipSet /\ LanSet # Ingress
    BY DEF Components, Objects, Sets, LanSet, SkipSet, Ingress
  <1>2. LanSet \in OfType(type) /\ SkipSet \in OfType(type) /\ LanSet \in Sets /\ SkipSet \in Sets
    BY DEF Types, OfType, Sets
  <1>3. Typed(Do("srv", "create", LanSet)) /\ Typed(Do("srv", "create", SkipSet))
    BY <1>2, SrvTypes
  <1>. QED
    BY <1>1, <1>3, PutsAll DEF PutOps, MakeOps, IptSets

LEMMA RedirectPuts ==
    ASSUME type = "REDIRECT", host.ipt
    PROVE  Puts(RedirectIpt, "srv", {LanSet, SkipSet, "nat UA3F", "nat PREROUTING > UA3F"}, {}, {"nat UA3F"})
  <1>1. Puts(IptSets, "srv", {LanSet, SkipSet}, {}, {})
    BY SetPuts DEF Types
  <1>2. /\ "nat UA3F" \in OfType(type) \cap Chains /\ "nat PREROUTING > UA3F" \in OfType(type) \cap Jumps
        /\ "nat UA3F" \in Objects /\ "nat PREROUTING > UA3F" \in Objects
    BY JumpFacts DEF OfType, Chains, Objects
  <1>3. Puts(<<Do("srv", "create", "nat UA3F"), Do("srv", "put", "nat PREROUTING > UA3F"), Do("srv", "fill", "nat UA3F")>>,
             "srv", {"nat UA3F", "nat PREROUTING > UA3F"}, {}, {"nat UA3F"})
    BY <1>2, PutsTrio, SrvTypes DEF Components, Ingress
  <1>4. Puts(RedirectIpt, "srv", {LanSet, SkipSet} \cup {"nat UA3F", "nat PREROUTING > UA3F"}, {} \cup {}, {} \cup {"nat UA3F"})
    BY <1>1, <1>3, PutsJoin DEF RedirectIpt, Ingress, LanSet, SkipSet
  <1>5. {LanSet, SkipSet} \cup {"nat UA3F", "nat PREROUTING > UA3F"} = {LanSet, SkipSet, "nat UA3F", "nat PREROUTING > UA3F"}
    OBVIOUS
  <1>. QED
    BY <1>4, <1>5

LEMMA NfqueuePuts ==
    ASSUME type = "NFQUEUE", host.ipt
    PROVE  Puts(NfqueueIpt, "srv", {LanSet, SkipSet, "mangle UA3F", "POSTROUTING > UA3F"}, {}, {"mangle UA3F"})
  <1>1. Puts(IptSets, "srv", {LanSet, SkipSet}, {}, {})
    BY SetPuts DEF Types
  <1>2. /\ "mangle UA3F" \in OfType(type) \cap Chains /\ "POSTROUTING > UA3F" \in OfType(type) \cap Jumps
        /\ "mangle UA3F" \in Objects /\ "POSTROUTING > UA3F" \in Objects
    BY JumpFacts DEF OfType, Chains, Objects
  <1>3. Puts(<<Do("srv", "create", "mangle UA3F"), Do("srv", "put", "POSTROUTING > UA3F"), Do("srv", "fill", "mangle UA3F")>>,
             "srv", {"mangle UA3F", "POSTROUTING > UA3F"}, {}, {"mangle UA3F"})
    BY <1>2, PutsTrio, SrvTypes DEF Components, Ingress
  <1>4. Puts(NfqueueIpt, "srv", {LanSet, SkipSet} \cup {"mangle UA3F", "POSTROUTING > UA3F"}, {} \cup {}, {} \cup {"mangle UA3F"})
    BY <1>1, <1>3, PutsJoin DEF NfqueueIpt, Ingress, LanSet, SkipSet
  <1>5. {LanSet, SkipSet} \cup {"mangle UA3F", "POSTROUTING > UA3F"} = {LanSet, SkipSet, "mangle UA3F", "POSTROUTING > UA3F"}
    OBVIOUS
  <1>. QED
    BY <1>4, <1>5

LEMMA TproxyPuts ==
    ASSUME type = "TPROXY", host.ipt
    PROVE  Puts(TproxyIpt, "srv", {"rule4", "route4"} \cup {LanSet, SkipSet} \cup {"UA3F_SIDECAR", "PREROUTING > UA3F_SIDECAR"}
                                  \cup {"mangle UA3F", "UA3F_OUTPUT"} \cup {"PREROUTING > UA3F", "OUTPUT > UA3F_OUTPUT"},
                {"rule6", "route6"}, {"UA3F_SIDECAR"} \cup {"mangle UA3F", "UA3F_OUTPUT"})
  <1>. DEFINE A == AddTproxyRoute
              B == IptSets
              C == When(host.sc, <<Do("srv", "create", "UA3F_SIDECAR"), Do("srv", "put", "PREROUTING > UA3F_SIDECAR")>>)
              D == DoAll("srv", "create", <<"mangle UA3F", "UA3F_OUTPUT">>)
              E == DoAll("srv", "put", <<"PREROUTING > UA3F", "OUTPUT > UA3F_OUTPUT">>)
              F == When(host.sc, <<Do("srv", "fill", "UA3F_SIDECAR")>>)
              G == DoAll("srv", "fill", <<"mangle UA3F", "UA3F_OUTPUT">>)
              Side == {"UA3F_SIDECAR", "PREROUTING > UA3F_SIDECAR"}
              Two == {"mangle UA3F", "UA3F_OUTPUT"}
              Into == {"PREROUTING > UA3F", "OUTPUT > UA3F_OUTPUT"}
  <1>0. /\ {"UA3F_SIDECAR", "mangle UA3F", "UA3F_OUTPUT"} \subseteq OfType(type) \cap Chains
        /\ {"PREROUTING > UA3F_SIDECAR", "PREROUTING > UA3F", "OUTPUT > UA3F_OUTPUT"} \subseteq OfType(type) \cap Jumps
    BY JumpFacts DEF OfType, Chains
  <1>00. /\ {"UA3F_SIDECAR", "mangle UA3F", "UA3F_OUTPUT"} \subseteq Objects
         /\ {"PREROUTING > UA3F_SIDECAR", "PREROUTING > UA3F", "OUTPUT > UA3F_OUTPUT"} \subseteq Objects
    BY <1>0, JumpFacts DEF Objects
  <1>1. Puts(A, "srv", {"rule4", "route4"}, {"rule6", "route6"}, {})
    BY RoutePuts
  <1>2. Puts(B, "srv", {LanSet, SkipSet}, {}, {})
    BY SetPuts DEF Types
  <1>3. Puts(C, "srv", Side, {}, {})
    <2>1. Puts(<<Do("srv", "create", "UA3F_SIDECAR")>>, "srv", {"UA3F_SIDECAR"}, {}, {})
      BY <1>0, <1>00, PutsDo, SrvTypes DEF PutOps, MakeOps, Components
    <2>2. Puts(<<Do("srv", "put", "PREROUTING > UA3F_SIDECAR")>>, "srv", {"PREROUTING > UA3F_SIDECAR"}, {}, {})
      BY <1>0, <1>00, PutsDo, SrvTypes DEF PutOps, MakeOps, Components
    <2>3. Puts(<<Do("srv", "create", "UA3F_SIDECAR")>> \o <<Do("srv", "put", "PREROUTING > UA3F_SIDECAR")>>, "srv",
               {"UA3F_SIDECAR"} \cup {"PREROUTING > UA3F_SIDECAR"}, {} \cup {}, {} \cup {})
      BY <2>1, <2>2, PutsJoin DEF Ingress
    <2>4. {"UA3F_SIDECAR"} \cup {"PREROUTING > UA3F_SIDECAR"} = Side /\ {} \cup {} = {}
      OBVIOUS
    <2>5. Puts(<<Do("srv", "create", "UA3F_SIDECAR"), Do("srv", "put", "PREROUTING > UA3F_SIDECAR")>>, "srv", Side, {}, {})
      BY <2>3, <2>4, Split2
    <2>6. Puts(<<>>, "srv", Side, {}, {})
      <3>1. Puts(<<>>, "srv", {}, {}, {})
        BY PutsNone
      <3>. HIDE DEF Side
      <3>. QED
        BY <3>1, PutsWiden
    <2>. QED
      BY <2>5, <2>6 DEF When
  <1>4. Puts(D, "srv", Two, {}, {})
    BY <1>0, <1>00, PutsAll, SrvTypes DEF PutOps, MakeOps, Components, Ingress
  <1>5. Puts(E, "srv", Into, {}, {})
    BY <1>0, <1>00, PutsAll, SrvTypes DEF PutOps, MakeOps, Components, Ingress
  <1>6. Puts(F, "srv", {}, {}, {"UA3F_SIDECAR"})
    <2>1. Puts(<<Do("srv", "fill", "UA3F_SIDECAR")>>, "srv", {}, {}, {"UA3F_SIDECAR"})
      BY <1>0, <1>00, PutsDo, SrvTypes DEF PutOps, MakeOps, Components
    <2>2. Puts(<<>>, "srv", {}, {}, {"UA3F_SIDECAR"})
      BY PutsNone, PutsWiden
    <2>. QED
      BY <2>1, <2>2 DEF When
  <1>7. Puts(G, "srv", {}, {}, Two)
    BY <1>0, <1>00, PutsAll, SrvTypes DEF PutOps, MakeOps, Components, Ingress
  <1>8. TproxyIpt = A \o B \o C \o D \o E \o F \o G
    BY DEF TproxyIpt
  <1>. HIDE DEF A, B, C, D, E, F, G
  <1>9. Puts(A \o B, "srv", {"rule4", "route4"} \cup {LanSet, SkipSet}, {"rule6", "route6"} \cup {}, {} \cup {})
    BY <1>1, <1>2, PutsJoin DEF LanSet, SkipSet, Ingress
  <1>10. Puts(A \o B \o C, "srv", {"rule4", "route4"} \cup {LanSet, SkipSet} \cup Side, {"rule6", "route6"} \cup {} \cup {}, {} \cup {} \cup {})
    BY <1>9, <1>3, PutsJoin DEF LanSet, SkipSet, Ingress
  <1>11. Puts(A \o B \o C \o D, "srv", {"rule4", "route4"} \cup {LanSet, SkipSet} \cup Side \cup Two, {"rule6", "route6"}, {})
    <2>1. {"rule6", "route6"} \cup {} \cup {} = {"rule6", "route6"} /\ {} \cup {} \cup {} = {} /\ {"rule6", "route6"} \cup {} = {"rule6", "route6"}
      OBVIOUS
    <2>2. Puts(A \o B \o C, "srv", {"rule4", "route4"} \cup {LanSet, SkipSet} \cup Side, {"rule6", "route6"}, {})
      BY <1>10, <2>1
    <2>3. Puts(A \o B \o C \o D, "srv", {"rule4", "route4"} \cup {LanSet, SkipSet} \cup Side \cup Two, {"rule6", "route6"} \cup {}, {} \cup {})
      BY <2>2, <1>4, PutsJoin DEF LanSet, SkipSet, Ingress
    <2>. QED
      BY <2>1, <2>3
  <1>12. Puts(A \o B \o C \o D \o E, "srv", {"rule4", "route4"} \cup {LanSet, SkipSet} \cup Side \cup Two \cup Into, {"rule6", "route6"}, {})
    <2>3. Puts(A \o B \o C \o D \o E, "srv", {"rule4", "route4"} \cup {LanSet, SkipSet} \cup Side \cup Two \cup Into, {"rule6", "route6"} \cup {}, {} \cup {})
      BY <1>11, <1>5, PutsJoin DEF LanSet, SkipSet, Ingress
    <2>. QED
      BY <2>3
  <1>13. Puts(A \o B \o C \o D \o E \o F, "srv", {"rule4", "route4"} \cup {LanSet, SkipSet} \cup Side \cup Two \cup Into, {"rule6", "route6"}, {"UA3F_SIDECAR"})
    <2>2. ({"rule4", "route4"} \cup {LanSet, SkipSet} \cup Side \cup Two \cup Into \cup {"rule6", "route6"} \cup {}) \cap ({} \cup {}) = {}
      OBVIOUS
    <2>3. Puts(A \o B \o C \o D \o E \o F, "srv", ({"rule4", "route4"} \cup {LanSet, SkipSet} \cup Side \cup Two \cup Into) \cup {}, {"rule6", "route6"} \cup {}, {} \cup {"UA3F_SIDECAR"})
      BY <1>12, <1>6, <2>2, PutsJoin
    <2>. QED
      BY <2>3
  <1>14. Puts(A \o B \o C \o D \o E \o F \o G, "srv", {"rule4", "route4"} \cup {LanSet, SkipSet} \cup Side \cup Two \cup Into, {"rule6", "route6"}, {"UA3F_SIDECAR"} \cup Two)
    <2>3. Puts(A \o B \o C \o D \o E \o F \o G, "srv", ({"rule4", "route4"} \cup {LanSet, SkipSet} \cup Side \cup Two \cup Into) \cup {}, {"rule6", "route6"} \cup {}, {"UA3F_SIDECAR"} \cup Two)
      BY <1>13, <1>7, PutsJoin
    <2>. QED
      BY <2>3
  <1>. QED
    BY <1>8, <1>14

(* What the cleanup of a component deletes when it was set up for d. *)
Removable(c, d) ==
    CASE c = "help" -> {HelperTable, Ingress, TtlRule(d.ttl), "IP", "SYN", "QUIC"}
      [] c = "des"  -> {"nft UA3F_DESYNC", "POSTROUTING > REORDER", "PREROUTING > INJECT", "INJECT", "REORDER"}
      [] c = "srv"  -> IF type = "SOCKS5" THEN {}
                       ELSE {"nft UA3F"} \cup (IF type = "TPROXY" THEN Routes \cup (OfType(type) \ {SkipSet}) ELSE OfType(type))
(* What it does not delete although the setup makes it. *)
Kept(c) == IF c = "srv" /\ type = "TPROXY" THEN {SkipSet} ELSE {}

(* The cases of these definitions, and of the model's. *)
LEMMA RemovableIs ==
    /\ \A d : Removable("help", d) = {HelperTable, Ingress, TtlRule(d.ttl), "IP", "SYN", "QUIC"}
    /\ \A d : Removable("des", d) = {"nft UA3F_DESYNC", "POSTROUTING > REORDER", "PREROUTING > INJECT", "INJECT", "REORDER"}
    /\ \A d : Removable("srv", d) =
                 IF type = "SOCKS5" THEN {}
                 ELSE {"nft UA3F"} \cup (IF type = "TPROXY" THEN Routes \cup (OfType(type) \ {SkipSet}) ELSE OfType(type))
  BY DEF Removable

LEMMA InstallIs ==
    /\ \A d : Install("help", d) = IF Backend(d) = "nft" THEN HelperNft(d) ELSE HelperIpt(d)
    /\ \A d : Install("des", d) = IF Backend(d) = "nft" THEN DesyncNft ELSE DesyncIpt(d)
    /\ \A d : Install("srv", d) = IF Backend(d) = "nft" THEN ServerNft ELSE ServerIpt
    /\ \A d : Cleanup("help", d) = HelperNftCleanup \o HelperIptCleanup(d)
    /\ \A d : Cleanup("des", d) = DesyncNftCleanup \o DesyncIptCleanup
    /\ \A d : Cleanup("srv", d) = ServerCleanup
  BY DEF Install, Cleanup

(* The backend is what detectFirewallBackend can return. *)
LEMMA BackendIs == \A d : Backend(d) \in {"nft", "ipt", "none"} /\ (Backend(d) = "ipt" => host.ipt)
  BY DEF Backend

(* A list that installs the component: whatever it makes, the cleanup
   deletes, but for the set that TPROXY keeps. *)
Provides(L, c, d) ==
    /\ L \in Seq(Commands) /\ \A p : InOrder(p, L)
    /\ \A x \in ToSet(L) : /\ x.comp = c /\ Typed(x) /\ x.op \in PutOps
                           /\ x.obj \in Removable(c, d) \cup Kept(c)
                           /\ x.op = "try" => x.obj \in Optional(d)

(* Every setup does, under either backend. *)
LEMMA HelperPuts ==
    ASSUME NEW d, Backend(d) # "none"
    PROVE  \/ Backend(d) = "nft" /\ Puts(Install("help", d), "help", {HelperTable}, {Ingress}, {})
           \/ host.ipt /\ Puts(Install("help", d), "help", {TtlRule(d.ttl), HelperTable, Ingress, "IP", "SYN", "QUIC"}, {}, {})
  <1>0. /\ "help" \in Components /\ HelperTable \in Objects /\ Ingress \in Objects /\ TtlRule(d.ttl) \in Objects
        /\ "SYN" \in Objects /\ "IP" \in Objects /\ "QUIC" \in Objects /\ "put" \in PutOps /\ "try" \in PutOps
        /\ TtlRule(d.ttl) \in Rules /\ "SYN" \in Rules /\ "IP" \in Rules /\ "QUIC" \in Rules
        /\ HelperTable # Ingress /\ TtlRule(d.ttl) \in {"TTL 64", "TTL 65"}
    BY DEF Components, HelperTable, Ingress, TtlRule, Objects, Tables, Rules, PutOps, MakeOps
  <1>1. CASE Backend(d) = "nft"
    <2>1. Puts(<<Do("help", "put", HelperTable)>>, "help", {HelperTable}, {}, {})
      BY <1>0, PutsDo, PutTypes DEF HelperTable
    <2>2. Puts(<<Do("help", "try", Ingress)>>, "help", {}, {Ingress}, {})
      BY <1>0, PutsDo, PutTypes
    <2>3. Puts(<<>>, "help", {}, {Ingress}, {})
      <3>1. Puts(<<>>, "help", {}, {}, {})
        BY PutsNone
      <3>. QED
        BY <3>1, PutsWiden
    <2>. DEFINE W == When(d.ttl # 0 /\ host.flow, <<Do("help", "try", Ingress)>>)
    <2>4. Puts(W, "help", {}, {Ingress}, {})
      BY <2>2, <2>3 DEF When
    <2>5. HelperNft(d) = <<Do("help", "put", HelperTable)>> \o W
      BY DEF HelperNft, HelperTable
    <2>. HIDE DEF W
    <2>6. Puts(<<Do("help", "put", HelperTable)>> \o W, "help", {HelperTable} \cup {}, {} \cup {Ingress}, {} \cup {})
      BY <1>0, <2>1, <2>4, PutsJoin
    <2>7. {HelperTable} \cup {} = {HelperTable} /\ {} \cup {Ingress} = {Ingress} /\ {} \cup {} = {}
      OBVIOUS
    <2>8. Install("help", d) = HelperNft(d)
      BY <1>1, InstallIs
    <2>. QED
      BY <1>1, <2>5, <2>6, <2>7, <2>8
  <1>2. CASE Backend(d) # "nft"
    <2>0. host.ipt
      BY <1>2, BackendIs
    <2>. DEFINE A == <<Do("help", "put", TtlRule(d.ttl))>>
                B == When(host.flow, DoAll("help", "put", <<HelperTable, Ingress>>))
                AB == When(d.ttl # 0, A \o B)
                C == When(d.syn /\ ~d.ipid, <<Do("help", "put", "SYN")>>)
                D == When(d.ipid, <<Do("help", "put", "IP")>>)
                E == When(d.quic, <<Do("help", "put", "QUIC")>>)
                V == TtlRule(d.ttl)
    <2>e. \A M : Puts(<<>>, "help", M, {}, {})
      <3>1. Puts(<<>>, "help", {}, {}, {})
        BY PutsNone
      <3>. QED
        BY <3>1, PutsWiden
    <2>1. Puts(A, "help", {V}, {}, {})
      BY <1>0, <2>0, PutsDo, PutTypes
    <2>2. Puts(B, "help", {HelperTable, Ingress}, {}, {})
      <3>1. Puts(DoAll("help", "put", <<HelperTable, Ingress>>), "help", {HelperTable, Ingress}, {}, {})
        BY <1>0, PutsAll, PutTypes DEF HelperTable
      <3>. QED
        BY <3>1, <2>e DEF When
    <2>3. Puts(AB, "help", {V, HelperTable, Ingress}, {}, {})
      <3>1. V # HelperTable /\ V # Ingress
        BY <1>0 DEF HelperTable, Ingress
      <3>. HIDE DEF A, B, V
      <3>2. Puts(A \o B, "help", {V} \cup {HelperTable, Ingress}, {} \cup {}, {} \cup {})
        BY <2>1, <2>2, <3>1, PutsJoin
      <3>3. {V} \cup {HelperTable, Ingress} = {V, HelperTable, Ingress} /\ {} \cup {} = {}
        OBVIOUS
      <3>. QED
        BY <3>2, <3>3, <2>e DEF When
    <2>4. Puts(C, "help", {"SYN"}, {}, {})
      <3>1. Puts(<<Do("help", "put", "SYN")>>, "help", {"SYN"}, {}, {})
        BY <1>0, <2>0, PutsDo, PutTypes
      <3>. QED
        BY <3>1, <2>e DEF When
    <2>5. Puts(D, "help", {"IP"}, {}, {})
      <3>1. Puts(<<Do("help", "put", "IP")>>, "help", {"IP"}, {}, {})
        BY <1>0, <2>0, PutsDo, PutTypes
      <3>. QED
        BY <3>1, <2>e DEF When
    <2>6. Puts(E, "help", {"QUIC"}, {}, {})
      <3>1. Puts(<<Do("help", "put", "QUIC")>>, "help", {"QUIC"}, {}, {})
        BY <1>0, <2>0, PutsDo, PutTypes
      <3>. QED
        BY <3>1, <2>e DEF When
    <2>7. HelperIpt(d) = AB \o C \o D \o E
      BY DEF HelperIpt, HelperTable
    <2>8. {V, HelperTable, Ingress} \cap {"SYN", "IP", "QUIC"} = {}
      BY <1>0 DEF HelperTable, Ingress
    <2>. HIDE DEF AB, C, D, E, V
    <2>9. Puts(AB \o C, "help", {V, HelperTable, Ingress} \cup {"SYN"}, {} \cup {}, {} \cup {})
      BY <2>3, <2>4, <2>8, PutsJoin DEF HelperTable
    <2>10. Puts(AB \o C, "help", {V, HelperTable, Ingress} \cup {"SYN"}, {}, {})
      BY <2>9
    <2>11. Puts(AB \o C \o D, "help", {V, HelperTable, Ingress} \cup {"SYN"} \cup {"IP"}, {} \cup {}, {} \cup {})
      BY <2>10, <2>5, <2>8, PutsJoin DEF HelperTable
    <2>12. Puts(AB \o C \o D, "help", {V, HelperTable, Ingress} \cup {"SYN"} \cup {"IP"}, {}, {})
      BY <2>11
    <2>13. Puts(AB \o C \o D \o E, "help", {V, HelperTable, Ingress} \cup {"SYN"} \cup {"IP"} \cup {"QUIC"}, {} \cup {}, {} \cup {})
      BY <2>12, <2>6, <2>8, PutsJoin DEF HelperTable
    <2>14. /\ {V, HelperTable, Ingress} \cup {"SYN"} \cup {"IP"} \cup {"QUIC"} = {V, HelperTable, Ingress, "IP", "SYN", "QUIC"}
           /\ {} \cup {} = {}
      OBVIOUS
    <2>15. Install("help", d) = HelperIpt(d)
      BY <1>2, InstallIs
    <2>. QED
      BY <2>0, <2>7, <2>13, <2>14, <2>15 DEF V
  <1>. QED
    BY <1>1, <1>2

LEMMA DesyncPuts ==
    ASSUME NEW d, Backend(d) # "none"
    PROVE  Provides(Install("des", d), "des", d)
  <1>0. /\ "des" \in Components /\ "nft UA3F_DESYNC" \in Objects /\ "put" \in PutOps
        /\ "REORDER" \in Objects /\ "INJECT" \in Objects /\ "POSTROUTING > REORDER" \in Objects /\ "PREROUTING > INJECT" \in Objects
    BY JumpFacts DEF Components, Objects, Tables, Chains, PutOps, MakeOps
  <1>1. CASE Backend(d) = "nft"
    <2>1. Puts(<<Do("des", "put", "nft UA3F_DESYNC")>>, "des", {"nft UA3F_DESYNC"}, {}, {})
      BY <1>0, PutsDo, PutTypes
    <2>2. Install("des", d) = <<Do("des", "put", "nft UA3F_DESYNC")>>
      BY <1>1, InstallIs DEF DesyncNft
    <2>3. {"nft UA3F_DESYNC"} \cup {} \cup {} \subseteq Removable("des", d) \cup Kept("des")
      BY RemovableIs
    <2>. QED
      BY <2>1, <2>2, <2>3 DEF Puts, Provides, PutOps, MakeOps
  <1>2. CASE Backend(d) # "nft"
    <2>0. host.ipt
      BY <1>2, BackendIs
    <2>. DEFINE A == When(d.reorder, <<Do("des", "create", "REORDER"), Do("des", "put", "POSTROUTING > REORDER"), Do("des", "fill", "REORDER")>>)
                B == When(d.inject, <<Do("des", "create", "INJECT"), Do("des", "put", "PREROUTING > INJECT"), Do("des", "fill", "INJECT")>>)
    <2>e. \A M, F : Puts(<<>>, "des", M, {}, F)
      <3>1. Puts(<<>>, "des", {}, {}, {})
        BY PutsNone
      <3>. QED
        BY <3>1, PutsWiden
    <2>1. Puts(A, "des", {"REORDER", "POSTROUTING > REORDER"}, {}, {"REORDER"})
      <3>1. Puts(<<Do("des", "create", "REORDER"), Do("des", "put", "POSTROUTING > REORDER"), Do("des", "fill", "REORDER")>>, "des",
                 {"REORDER", "POSTROUTING > REORDER"}, {}, {"REORDER"})
        BY <1>0, <2>0, PutsTrio, PutTypes DEF Ingress
      <3>. QED
        BY <3>1, <2>e DEF When
    <2>2. Puts(B, "des", {"INJECT", "PREROUTING > INJECT"}, {}, {"INJECT"})
      <3>1. Puts(<<Do("des", "create", "INJECT"), Do("des", "put", "PREROUTING > INJECT"), Do("des", "fill", "INJECT")>>, "des",
                 {"INJECT", "PREROUTING > INJECT"}, {}, {"INJECT"})
        BY <1>0, <2>0, PutsTrio, PutTypes DEF Ingress
      <3>. QED
        BY <3>1, <2>e DEF When
    <2>3. Install("des", d) = A \o B
      BY <1>2, InstallIs DEF DesyncIpt
    <2>. HIDE DEF A, B
    <2>4. Puts(A \o B, "des", {"REORDER", "POSTROUTING > REORDER"} \cup {"INJECT", "PREROUTING > INJECT"}, {} \cup {}, {"REORDER"} \cup {"INJECT"})
      BY <2>1, <2>2, PutsJoin DEF Ingress
    <2>5. /\ {"REORDER", "POSTROUTING > REORDER"} \cup {"INJECT", "PREROUTING > INJECT"} \cup ({} \cup {}) \cup ({"REORDER"} \cup {"INJECT"})
                 \subseteq Removable("des", d) \cup Kept("des")
          /\ {} \cup {} \subseteq Optional(d)
      BY RemovableIs
    <2>. QED
      BY <2>3, <2>4, <2>5 DEF Puts, Provides, PutOps, MakeOps
  <1>. QED
    BY <1>1, <1>2

LEMMA ServerPuts ==
    ASSUME NEW d, Backend(d) # "none", type \in Types \ {"SOCKS5"}
    PROVE  Provides(Install("srv", d), "srv", d)
  <1>0. "srv" \in Components /\ "nft UA3F" \in Objects /\ "put" \in PutOps
    BY DEF Components, Objects, Tables, PutOps, MakeOps
  <1>o. {} \subseteq Optional(d) /\ {"rule6", "route6"} \subseteq Optional(d) /\ {"rule6", "route6"} \cup {} \subseteq Optional(d)
    BY DEF Optional
  <1>1. Puts(<<Do("srv", "put", "nft UA3F")>>, "srv", {"nft UA3F"}, {}, {})
    BY <1>0, PutsDo, PutTypes
  <1>2. CASE Backend(d) = "nft" /\ type = "TPROXY"
    <2>1. Install("srv", d) = AddTproxyRoute \o <<Do("srv", "put", "nft UA3F")>>
      BY <1>2, InstallIs DEF ServerNft, TproxyNft
    <2>2. Puts(AddTproxyRoute, "srv", {"rule4", "route4"}, {"rule6", "route6"}, {})
      BY <1>2, RoutePuts
    <2>3. Puts(Install("srv", d), "srv", {"rule4", "route4"} \cup {"nft UA3F"}, {"rule6", "route6"} \cup {}, {} \cup {})
      <3>. DEFINE M == {"rule4", "route4"}
                  R == {"rule6", "route6"}
                  N == {"nft UA3F"}
                  Z == {}
      <3>1. M = {"rule4", "route4"} /\ R = {"rule6", "route6"} /\ N = {"nft UA3F"} /\ Z = {}
        OBVIOUS
      <3>2. (M \cup R \cup Z) \cap (N \cup Z) = {} /\ Z \cap Z = {} /\ HelperTable \notin N \cup Z
        BY <3>1 DEF HelperTable
      <3>3. Puts(AddTproxyRoute, "srv", M, R, Z) /\ Puts(<<Do("srv", "put", "nft UA3F")>>, "srv", N, Z, Z)
        BY <1>1, <2>2
      <3>. HIDE DEF M, R, N, Z
      <3>. DEFINE A == AddTproxyRoute
                  B == <<Do("srv", "put", "nft UA3F")>>
      <3>4. Puts(A, "srv", M, R, Z) /\ Puts(B, "srv", N, Z, Z)
        BY <3>3
      <3>5. Install("srv", d) = A \o B
        BY <2>1
      <3>. HIDE DEF A, B
      <3>6. Puts(A \o B, "srv", M \cup N, R \cup Z, Z \cup Z)
        BY <3>2, <3>4, PutsJoin
      <3>. QED
        BY <3>1, <3>5, <3>6
    <2>4. {"rule4", "route4"} \cup {"nft UA3F"} \cup ({"rule6", "route6"} \cup {}) \cup ({} \cup {}) \subseteq Removable("srv", d) \cup Kept("srv")
      BY <1>2, RemovableIs DEF Routes
    <2>. QED
      BY <1>o, <2>3, <2>4 DEF Puts, Provides, PutOps, MakeOps
  <1>3. CASE Backend(d) = "nft" /\ type # "TPROXY"
    <2>1. Install("srv", d) = <<Do("srv", "put", "nft UA3F")>>
      BY <1>3, InstallIs DEF ServerNft, RedirectNft, NfqueueNft
    <2>2. {"nft UA3F"} \cup {} \cup {} \subseteq Removable("srv", d) \cup Kept("srv")
      BY RemovableIs
    <2>. QED
      BY <1>o, <1>1, <2>1, <2>2 DEF Puts, Provides, PutOps, MakeOps
  <1>4. CASE Backend(d) # "nft" /\ type = "TPROXY"
    <2>1. Install("srv", d) = TproxyIpt /\ host.ipt
      BY <1>4, InstallIs, BackendIs DEF ServerIpt
    <2>. DEFINE M == {"rule4", "route4"} \cup {LanSet, SkipSet} \cup {"UA3F_SIDECAR", "PREROUTING > UA3F_SIDECAR"}
                                  \cup {"mangle UA3F", "UA3F_OUTPUT"} \cup {"PREROUTING > UA3F", "OUTPUT > UA3F_OUTPUT"}
                F == {"UA3F_SIDECAR"} \cup {"mangle UA3F", "UA3F_OUTPUT"}
    <2>2. Puts(Install("srv", d), "srv", M, {"rule6", "route6"}, F)
      BY <1>4, <2>1, TproxyPuts
    <2>3. M \cup {"rule6", "route6"} \cup F \subseteq Removable("srv", d) \cup Kept("srv")
      BY <1>4, RemovableIs DEF Kept, Routes, OfType, Sets
    <2>. HIDE DEF M, F
    <2>. QED
      BY <1>o, <2>2, <2>3 DEF Puts, Provides, PutOps, MakeOps
  <1>5. CASE Backend(d) # "nft" /\ type = "REDIRECT"
    <2>1. Install("srv", d) = RedirectIpt /\ host.ipt
      BY <1>5, InstallIs, BackendIs DEF ServerIpt
    <2>2. Puts(Install("srv", d), "srv", {LanSet, SkipSet, "nat UA3F", "nat PREROUTING > UA3F"}, {}, {"nat UA3F"})
      BY <1>5, <2>1, RedirectPuts
    <2>3. {LanSet, SkipSet, "nat UA3F", "nat PREROUTING > UA3F"} \cup {} \cup {"nat UA3F"} \subseteq Removable("srv", d) \cup Kept("srv")
      BY <1>5, RemovableIs DEF OfType, Sets
    <2>. QED
      BY <1>o, <2>2, <2>3 DEF Puts, Provides, PutOps, MakeOps
  <1>6. CASE Backend(d) # "nft" /\ type = "NFQUEUE"
    <2>1. Install("srv", d) = NfqueueIpt /\ host.ipt
      BY <1>6, InstallIs, BackendIs DEF ServerIpt
    <2>2. Puts(Install("srv", d), "srv", {LanSet, SkipSet, "mangle UA3F", "POSTROUTING > UA3F"}, {}, {"mangle UA3F"})
      BY <1>6, <2>1, NfqueuePuts
    <2>3. {LanSet, SkipSet, "mangle UA3F", "POSTROUTING > UA3F"} \cup {} \cup {"mangle UA3F"} \subseteq Removable("srv", d) \cup Kept("srv")
      BY <1>6, RemovableIs DEF OfType, Sets
    <2>. QED
      BY <1>o, <2>2, <2>3 DEF Puts, Provides, PutOps, MakeOps
  <1>. QED
    BY <1>2, <1>3, <1>4, <1>5, <1>6 DEF Types

LEMMA InstallPuts ==
    ASSUME NEW c \in Components, NEW d, Backend(d) # "none", type \in Types, c = "srv" => type # "SOCKS5"
    PROVE  Provides(Install(c, d), c, d)
  <1>1. CASE c = "help"
    <2>1. CASE Backend(d) = "nft" /\ Puts(Install("help", d), "help", {HelperTable}, {Ingress}, {})
      <3>1. {Ingress} \subseteq Optional(d)
        BY <2>1 DEF Optional
      <3>2. {HelperTable} \cup {Ingress} \cup {} \subseteq Removable("help", d) \cup Kept("help")
        BY RemovableIs
      <3>. QED
        BY <1>1, <2>1, <3>1, <3>2 DEF Puts, Provides, PutOps, MakeOps
    <2>2. CASE Puts(Install("help", d), "help", {TtlRule(d.ttl), HelperTable, Ingress, "IP", "SYN", "QUIC"}, {}, {})
      <3>1. {TtlRule(d.ttl), HelperTable, Ingress, "IP", "SYN", "QUIC"} \cup {} \cup {} \subseteq Removable("help", d) \cup Kept("help")
        BY RemovableIs
      <3>2. {} \subseteq Optional(d)
        OBVIOUS
      <3>. QED
        BY <1>1, <2>2, <3>1, <3>2 DEF Puts, Provides, PutOps, MakeOps
    <2>. QED
      BY <2>1, <2>2, HelperPuts
  <1>. QED
    BY <1>1, DesyncPuts, ServerPuts DEF Components

(* An ingress chain of the helper comes with its table. *)
LEMMA HelperIngress ==
    ASSUME NEW d, NEW op \in MakeOps, Do("help", op, Ingress) \in ToSet(Install("help", d))
    PROVE  Do("help", "put", HelperTable) \in ToSet(Install("help", d))
  <1>0. /\ Do("help", "put", HelperTable) \in Commands /\ Do("help", "put", Ingress) \in Commands /\ Do("help", "try", Ingress) \in Commands
        /\ \A o \in Rules : Do("help", "put", o) \in Commands
        /\ TtlRule(d.ttl) \in Rules /\ {"SYN", "IP", "QUIC"} \subseteq Rules /\ Ingress \notin Rules
        /\ "help" \in Components /\ "put" \in Ops /\ <<HelperTable, Ingress>> \in Seq(Things)
    <2>1. "help" \in Components /\ "put" \in Ops /\ "try" \in Ops
      BY DEF Components, Ops, InstallOps, PutOps, MakeOps
    <2>2. HelperTable \in Things /\ Ingress \in Things /\ Rules \subseteq Things
      BY DEF Things, Objects, Tables, HelperTable
    <2>3. TtlRule(d.ttl) \in Rules /\ {"SYN", "IP", "QUIC"} \subseteq Rules /\ Ingress \notin Rules
      BY DEF TtlRule, Rules, Ingress
    <2>. QED
      BY <2>1, <2>2, <2>3, DoType
  <1>1. CASE Backend(d) = "nft"
    <2>. DEFINE A == <<Do("help", "put", HelperTable)>>
                W == When(d.ttl # 0 /\ host.flow, <<Do("help", "try", Ingress)>>)
    <2>1. A \in Seq(Commands) /\ ToSet(A) = {Do("help", "put", HelperTable)}
      BY <1>0, One
    <2>2. W \in Seq(Commands)
      BY <1>0, One, Empty DEF When
    <2>3. Install("help", d) = A \o W
      BY <1>1, InstallIs DEF HelperNft, HelperTable
    <2>. HIDE DEF A, W
    <2>. QED
      BY <2>1, <2>2, <2>3, Joined
  <1>2. CASE Backend(d) # "nft"
    <2>. DEFINE V == TtlRule(d.ttl)
                A == <<Do("help", "put", V)>>
                B == DoAll("help", "put", <<HelperTable, Ingress>>)
                W == When(host.flow, B)
                AB == When(d.ttl # 0, A \o W)
                C == When(d.syn /\ ~d.ipid, <<Do("help", "put", "SYN")>>)
                D == When(d.ipid, <<Do("help", "put", "IP")>>)
                E == When(d.quic, <<Do("help", "put", "QUIC")>>)
    <2>1. A \in Seq(Commands) /\ ToSet(A) = {Do("help", "put", V)}
      BY <1>0, One
    <2>2. B \in Seq(Commands) /\ Do("help", "put", HelperTable) \in ToSet(B)
      <3>1. ToSet(<<HelperTable, Ingress>>) = {HelperTable, Ingress}
        BY Tuples
      <3>. DEFINE os == <<HelperTable, Ingress>>
      <3>2. os \in Seq(Things) /\ HelperTable \in ToSet(os)
        BY <1>0, <3>1
      <3>3. B = DoAll("help", "put", os)
        OBVIOUS
      <3>. HIDE DEF os, B
      <3>4. DoAll("help", "put", os) \in Seq(Commands) /\ ToSet(DoAll("help", "put", os)) = {Do("help", "put", o) : o \in ToSet(os)}
        BY <1>0, <3>2, AllFacts
      <3>. QED
        BY <3>2, <3>3, <3>4
    <2>3. W \in Seq(Commands) /\ (ToSet(W) = {} \/ Do("help", "put", HelperTable) \in ToSet(W))
      BY <2>2, Empty DEF When
    <2>4. /\ C \in Seq(Commands) /\ ToSet(C) \subseteq {Do("help", "put", "SYN")}
          /\ D \in Seq(Commands) /\ ToSet(D) \subseteq {Do("help", "put", "IP")}
          /\ E \in Seq(Commands) /\ ToSet(E) \subseteq {Do("help", "put", "QUIC")}
      BY <1>0, One, Empty DEF When
    <2>5. Install("help", d) = AB \o C \o D \o E
      BY <1>2, InstallIs DEF HelperIpt, HelperTable
    <2>6. Do("help", op, Ingress) \notin {Do("help", "put", V), Do("help", "put", "SYN"), Do("help", "put", "IP"), Do("help", "put", "QUIC")}
      BY <1>0, DoSame
    <2>7. AB \in Seq(Commands) /\ (Do("help", op, Ingress) \in ToSet(AB) => Do("help", "put", HelperTable) \in ToSet(AB))
      <3>. HIDE DEF A, W
      <3>1. A \o W \in Seq(Commands) /\ ToSet(A \o W) = ToSet(A) \cup ToSet(W)
        BY <2>1, <2>3, Joined
      <3>. QED
        BY <2>1, <2>3, <2>6, <3>1, Empty DEF When
    <2>. HIDE DEF AB, C, D, E
    <2>8. AB \o C \in Seq(Commands) /\ ToSet(AB \o C) = ToSet(AB) \cup ToSet(C)
      BY <2>4, <2>7, Joined
    <2>. DEFINE G == AB \o C
                H == G \o D
    <2>a. G \in Seq(Commands)
      BY <2>8
    <2>. HIDE DEF G
    <2>9. H \in Seq(Commands) /\ ToSet(H) = ToSet(G) \cup ToSet(D)
      BY <2>4, <2>a, Joined
    <2>. HIDE DEF H
    <2>10. ToSet(H \o E) = ToSet(H) \cup ToSet(E)
      BY <2>4, <2>9, Joined
    <2>11. Install("help", d) = H \o E /\ ToSet(G) = ToSet(AB) \cup ToSet(C)
      BY <2>5, <2>8 DEF G, H
    <2>. QED
      BY <2>4, <2>6, <2>7, <2>9, <2>10, <2>11
  <1>. QED
    BY <1>1, <1>2

(* The end of the close of a component. *)
Shuts(c) == Do(c, "shut", Nowhere)
(* A list that deletes all that the cleanup of a component deletes, each
   before what waits for it, and all before the component is shut. *)
Sweeps(L, c, d) ==
    \A o \in Removable(c, d) :
        /\ Del(c, o) \in ToSet(L) /\ Before(L, Del(c, o), Shuts(c))
        /\ \A x \in Waits(o) \cap Removable(c, d) : Before(L, Del(c, x), Del(c, o))
(* A list of deletions. *)
Deletes(L, c) ==
    L \in Seq(Commands) /\ \A x \in ToSet(L) : x.comp = c /\ x.op = "delete" /\ Typed(x)

(* What the cleanup of a component deletes. *)
Targets(c) ==
    (Owned[c] \ {Ingress}) \cap (IF c = "srv" THEN OfType(type) \cup Routes \cup {"nft UA3F"} ELSE Owned[c])

(* DoAll deletes in the order of its objects. *)
LEMMA DelBefore ==
    ASSUME NEW c \in Components, NEW os \in Seq(Things), NEW n \in DOMAIN os, NEW o,
           \A j \in DOMAIN os : os[j] = o => n < j
    PROVE  Before(DoAll(c, "delete", os), Do(c, "delete", os[n]), Do(c, "delete", o))
  <1>1. "delete" \in Ops
    BY DEF Ops
  <1>2. /\ DOMAIN DoAll(c, "delete", os) = DOMAIN os
        /\ \A i \in DOMAIN os : DoAll(c, "delete", os)[i] = Do(c, "delete", os[i])
    BY <1>1, AllFacts
  <1>3. \A i \in DOMAIN os : Do(c, "delete", os[i]) = Do(c, "delete", o) => os[i] = o
    BY DoSame
  <1>. QED
    BY <1>2, <1>3 DEF Before

LEMMA AllDeletes ==
    ASSUME NEW c \in Components, NEW os \in Seq(Things),
           ToSet(os) \subseteq Targets(c)
    PROVE  /\ Deletes(DoAll(c, "delete", os), c)
           /\ \A o : Do(c, "delete", o) \in ToSet(DoAll(c, "delete", os)) <=> o \in ToSet(os)
  <1>1. "delete" \in Ops
    BY DEF Ops
  <1>2. /\ DoAll(c, "delete", os) \in Seq(Commands)
        /\ ToSet(DoAll(c, "delete", os)) = {Do(c, "delete", o) : o \in ToSet(os)}
    BY <1>1, AllFacts
  <1>3. ASSUME NEW x \in ToSet(DoAll(c, "delete", os)) PROVE x.comp = c /\ x.op = "delete" /\ Typed(x)
    <2>1. PICK o \in ToSet(os) : x = Do(c, "delete", o)
      BY <1>2
    <2>2. x.comp = c /\ x.op = "delete" /\ x.obj = o
      BY <2>1 DEF Do
    <2>. QED
      BY <2>2 DEF Typed, PutOps, MakeOps, Targets
  <1>4. \A o : Do(c, "delete", o) \in ToSet(DoAll(c, "delete", os)) <=> o \in ToSet(os)
    <2>1. TAKE o
    <2>2. \A p : Do(c, "delete", o) = Do(c, "delete", p) => o = p
      BY DEF Do
    <2>. QED
      BY <1>2, <2>2
  <1>. QED
    BY <1>2, <1>3, <1>4 DEF Deletes

LEMMA SeqDeletes ==
    ASSUME NEW c \in Components, NEW os \in Seq(Things),
           ToSet(os) \subseteq Targets(c),
           \A i, j \in DOMAIN os : os[i] = os[j] => i = j
    PROVE  \A i, j \in DOMAIN os : i < j => Before(DoAll(c, "delete", os), Do(c, "delete", os[i]), Do(c, "delete", os[j]))
  <1>1. SUFFICES ASSUME NEW i \in DOMAIN os, NEW j \in DOMAIN os, i < j
                 PROVE  Before(DoAll(c, "delete", os), Do(c, "delete", os[i]), Do(c, "delete", os[j]))
    OBVIOUS
  <1>2. \A k \in DOMAIN os : os[k] = os[j] => i < k
    BY <1>1
  <1>. QED
    BY <1>2, DelBefore

LEMMA FourDeletes ==
    ASSUME NEW c \in Components, NEW a, NEW b, NEW e, NEW f,
           {a, b, e, f} \subseteq Targets(c),
           a \notin {b, e, f}, b \notin {e, f}, e # f
    PROVE  LET L == DoAll(c, "delete", <<a, b, e, f>>)
           IN  /\ Deletes(L, c) /\ \A o : Do(c, "delete", o) \in ToSet(L) <=> o \in {a, b, e, f}
               /\ Before(L, Do(c, "delete", a), Do(c, "delete", b)) /\ Before(L, Do(c, "delete", a), Do(c, "delete", e))
               /\ Before(L, Do(c, "delete", a), Do(c, "delete", f)) /\ Before(L, Do(c, "delete", b), Do(c, "delete", e))
               /\ Before(L, Do(c, "delete", b), Do(c, "delete", f)) /\ Before(L, Do(c, "delete", e), Do(c, "delete", f))
  <1>0. PICK os : os = <<a, b, e, f>>
    OBVIOUS
  <1>1. \A o \in {a, b, e, f} : o \in Things
    BY ObjectFacts DEF Targets
  <1>2. os \in Seq(Things)
    BY <1>0, <1>1
  <1>3. DOMAIN os = {1, 2, 3, 4} /\ ToSet(os) = {a, b, e, f}
    BY <1>0, Tuples
  <1>4. os[1] = a /\ os[2] = b /\ os[3] = e /\ os[4] = f
    BY <1>0
  <1>5. /\ Deletes(DoAll(c, "delete", os), c)
        /\ \A o : Do(c, "delete", o) \in ToSet(DoAll(c, "delete", os)) <=> o \in ToSet(os)
    BY <1>2, <1>3, AllDeletes
  <1>6. \A i, j \in DOMAIN os : os[i] = os[j] => i = j
    BY <1>3, <1>4
  <1>7. \A i, j \in DOMAIN os : i < j => Before(DoAll(c, "delete", os), Do(c, "delete", os[i]), Do(c, "delete", os[j]))
    BY <1>2, <1>3, <1>6, SeqDeletes
  <1>. QED
    BY <1>0, <1>3, <1>4, <1>5, <1>7

LEMMA SevenDeletes ==
    ASSUME NEW c \in Components, NEW a, NEW b, NEW e, NEW f, NEW g, NEW h, NEW k,
           {a, b, e, f, g, h, k} \subseteq Targets(c),
           a \notin {b, e, f, g, h, k}, b \notin {e, f, g, h, k}, e \notin {f, g, h, k}, f \notin {g, h, k},
           g \notin {h, k}, h # k
    PROVE  LET L == DoAll(c, "delete", <<a, b, e, f, g, h, k>>)
           IN  /\ Deletes(L, c) /\ \A o : Do(c, "delete", o) \in ToSet(L) <=> o \in {a, b, e, f, g, h, k}
               /\ Before(L, Do(c, "delete", a), Do(c, "delete", f)) /\ Before(L, Do(c, "delete", b), Do(c, "delete", g))
               /\ Before(L, Do(c, "delete", e), Do(c, "delete", h)) /\ Before(L, Do(c, "delete", f), Do(c, "delete", k))
               /\ Before(L, Do(c, "delete", g), Do(c, "delete", k))
  <1>0. PICK os : os = <<a, b, e, f, g, h, k>>
    OBVIOUS
  <1>1. \A o \in {a, b, e, f, g, h, k} : o \in Things
    BY ObjectFacts DEF Targets
  <1>2. os \in Seq(Things)
    BY <1>0, <1>1
  <1>3. DOMAIN os = 1..7
    BY <1>0
  <1>4. os[1] = a /\ os[2] = b /\ os[3] = e /\ os[4] = f /\ os[5] = g /\ os[6] = h /\ os[7] = k
    BY <1>0
  <1>a. 1 \in DOMAIN os /\ 2 \in DOMAIN os /\ 3 \in DOMAIN os /\ 4 \in DOMAIN os /\ 5 \in DOMAIN os /\ 6 \in DOMAIN os /\ 7 \in DOMAIN os
    BY <1>3
  <1>b. \A i \in DOMAIN os : i = 1 \/ i = 2 \/ i = 3 \/ i = 4 \/ i = 5 \/ i = 6 \/ i = 7
    BY <1>3
  <1>c. ToSet(os) \subseteq {a, b, e, f, g, h, k}
    BY <1>4, <1>b DEF ToSet
  <1>d. {a, b, e, f, g, h, k} \subseteq ToSet(os)
    BY <1>4, <1>a DEF ToSet
  <1>5. /\ Deletes(DoAll(c, "delete", os), c)
        /\ \A o : Do(c, "delete", o) \in ToSet(DoAll(c, "delete", os)) <=> o \in ToSet(os)
    BY <1>2, <1>c, AllDeletes
  <1>6. \A i, j \in DOMAIN os : os[i] = os[j] => i = j
    BY <1>b, <1>4
  <1>7. \A i, j \in DOMAIN os : i < j => Before(DoAll(c, "delete", os), Do(c, "delete", os[i]), Do(c, "delete", os[j]))
    BY <1>2, <1>c, <1>6, SeqDeletes
  <1>. QED
    BY <1>0, <1>a, <1>4, <1>5, <1>7, <1>c, <1>d

(* One deletion, and lists of deletions joined. *)
LEMMA OneDelete ==
    ASSUME NEW c \in Components, NEW o \in Targets(c)
    PROVE  /\ Deletes(<<Do(c, "delete", o)>>, c)
           /\ \A p : Do(c, "delete", p) \in ToSet(<<Do(c, "delete", o)>>) <=> p = o
  <1>1. o \in Things /\ "delete" \in Ops
    BY ObjectFacts DEF Ops, Targets
  <1>2. Do(c, "delete", o) \in Commands
    BY <1>1, DoType
  <1>3. <<Do(c, "delete", o)>> \in Seq(Commands) /\ ToSet(<<Do(c, "delete", o)>>) = {Do(c, "delete", o)}
    BY <1>2, One
  <1>4. PICK x : x = Do(c, "delete", o)
    OBVIOUS
  <1>5. x.comp = c /\ x.op = "delete" /\ Typed(x)
    <2>1. x.comp = c /\ x.op = "delete" /\ x.obj = o
      BY <1>4 DEF Do
    <2>. QED
      BY <2>1 DEF Typed, PutOps, MakeOps, Targets
  <1>6. \A p : Do(c, "delete", p) = Do(c, "delete", o) <=> p = o
    BY DEF Do
  <1>. QED
    BY <1>3, <1>4, <1>5, <1>6 DEF Deletes

LEMMA DeletesJoin ==
    ASSUME NEW A, NEW B, NEW c, Deletes(A, c), Deletes(B, c)
    PROVE  /\ Deletes(A \o B, c)
           /\ \A o : Do(c, "delete", o) \in ToSet(A \o B) <=> Do(c, "delete", o) \in ToSet(A) \/ Do(c, "delete", o) \in ToSet(B)
           /\ \A x, y : Do(c, "delete", y) \notin ToSet(A) /\ Before(B, Do(c, "delete", x), Do(c, "delete", y))
                            => Before(A \o B, Do(c, "delete", x), Do(c, "delete", y))
  <1>1. A \in Seq(Commands) /\ B \in Seq(Commands)
    BY DEF Deletes
  <1>2. A \o B \in Seq(Commands) /\ ToSet(A \o B) = ToSet(A) \cup ToSet(B)
    BY <1>1, Joined
  <1>3. \A x, y : Do(c, "delete", y) \notin ToSet(A) /\ Before(B, Do(c, "delete", x), Do(c, "delete", y))
                            => Before(A \o B, Do(c, "delete", x), Do(c, "delete", y))
    BY <1>1, JoinBefore
  <1>. QED
    BY <1>2, <1>3 DEF Deletes

(* Cleanup deletes nothing that is not deleted before a shut: it has no shut. *)
LEMMA NoShut ==
    ASSUME NEW L, NEW c, NEW x, Deletes(L, c)
    PROVE  Before(L, x, Shuts(c)) /\ Shuts(c) \notin ToSet(L)
  <1>1. Shuts(c).op = "shut"
    BY DoFields DEF Shuts
  <1>2. Shuts(c) \notin ToSet(L)
    BY <1>1 DEF Deletes
  <1>. QED
    BY <1>2 DEF Before, ToSet

(* The rule of a TTL. *)
LEMMA TtlIs == \A d : TtlRule(d.ttl) \in {"TTL 64", "TTL 65"}
  BY DEF TtlRule

(* The cleanup of the helper deletes all it should, in order; then those of
   desync and of the servers. *)
LEMMA HelperClean ==
    ASSUME NEW d
    PROVE  /\ Deletes(Cleanup("help", d), "help") /\ Sweeps(Cleanup("help", d), "help", d)
           /\ Do("help", "delete", "QUIC") \in ToSet(Cleanup("help", d))
  <1>. DEFINE V == TtlRule(d.ttl)
              A == HelperNftCleanup
              B == HelperIptCleanup(d)
  <1>1. V \in {"TTL 64", "TTL 65"}
    BY TtlIs
  <1>3. /\ {V, "IP", "SYN", "QUIC"} \subseteq Targets("help") /\ "help" \in Components
        /\ V \notin {"IP", "SYN", "QUIC"}
    BY <1>1, OwnedFacts DEF Ingress, Components, Targets
  <1>5. B = DoAll("help", "delete", <<V, "IP", "SYN", "QUIC">>) /\ A = <<Do("help", "delete", HelperTable)>> /\ Cleanup("help", d) = A \o B
    BY InstallIs DEF HelperIptCleanup, HelperNftCleanup, HelperTable
  <1>. HIDE DEF V
  <1>6. Deletes(B, "help") /\ \A o : Do("help", "delete", o) \in ToSet(B) <=> o \in {V, "IP", "SYN", "QUIC"}
    <2>1. PICK v \in {V} : TRUE
      OBVIOUS
    <2>2. PICK i \in {"IP"} : TRUE
      OBVIOUS
    <2>3. PICK s \in {"SYN"} : TRUE
      OBVIOUS
    <2>4. PICK q \in {"QUIC"} : TRUE
      OBVIOUS
    <2>5. v = V /\ i = "IP" /\ s = "SYN" /\ q = "QUIC"
      BY <2>1, <2>2, <2>3, <2>4
    <2>6. {v, i, s, q} \subseteq Targets("help") /\ v \notin {i, s, q} /\ i \notin {s, q} /\ s # q /\ B = DoAll("help", "delete", <<v, i, s, q>>)
      BY <1>3, <1>5, <2>5
    <2>7. Deletes(B, "help") /\ \A o : Do("help", "delete", o) \in ToSet(B) <=> o \in {v, i, s, q}
      BY <1>3, <2>6, FourDeletes
    <2>. QED
      BY <2>5, <2>7
  <1>7. Deletes(A, "help") /\ \A o : Do("help", "delete", o) \in ToSet(A) <=> o = HelperTable
    <2>1. HelperTable \in Targets("help")
      BY OwnedFacts DEF HelperTable, Ingress, Targets
    <2>. QED
      BY <1>3, <1>5, <2>1, OneDelete
  <1>. HIDE DEF A, B
  <1>8. Deletes(A \o B, "help") /\ \A o \in {HelperTable, V, "IP", "SYN", "QUIC"} : Do("help", "delete", o) \in ToSet(A \o B)
    BY <1>6, <1>7, DeletesJoin
  <1>9. \A o \in Removable("help", d) : Waits(o) = {} /\ Del("help", o) \in ToSet(A \o B)
    <2>1. \A o \in {HelperTable, Ingress, V, "IP", "SYN", "QUIC"} : o \notin Chains \cup Sets /\ o \in Objects
      <3>1. {HelperTable, Ingress, V, "IP", "SYN", "QUIC"} \subseteq Owned["help"]
        BY <1>3, ObjectFacts DEF Targets
      <3>. QED
        BY <1>1, <3>1, ObjectFacts DEF HelperTable, Ingress, Chains, Sets, LanSet, SkipSet, Components
    <2>2. \A o \in {HelperTable, Ingress, V, "IP", "SYN", "QUIC"} : Del("help", o) \in ToSet(A \o B)
      BY <1>8 DEF Del
    <2>3. Removable("help", d) = {HelperTable, Ingress, V, "IP", "SYN", "QUIC"}
      BY RemovableIs DEF V
    <2>4. \A o \in {HelperTable, Ingress, V, "IP", "SYN", "QUIC"} : Waits(o) = {}
      BY <2>1, WaitFacts
    <2>. QED
      BY <2>2, <2>3, <2>4
  <1>10. Sweeps(A \o B, "help", d)
    BY <1>8, <1>9, NoShut DEF Sweeps
  <1>. QED
    BY <1>5, <1>8, <1>10

LEMMA DesyncClean ==
    ASSUME NEW d
    PROVE  Deletes(Cleanup("des", d), "des") /\ Sweeps(Cleanup("des", d), "des", d)
  <1>. DEFINE A == DesyncNftCleanup
              B == DesyncIptCleanup
  <1>3. /\ {"POSTROUTING > REORDER", "PREROUTING > INJECT", "INJECT", "REORDER"} \subseteq Targets("des")
        /\ "des" \in Components /\ "nft UA3F_DESYNC" \in Targets("des")
    BY OwnedFacts DEF Ingress, Components, Targets
  <1>5. /\ B = DoAll("des", "delete", <<"POSTROUTING > REORDER", "PREROUTING > INJECT", "INJECT", "REORDER">>)
        /\ A = <<Do("des", "delete", "nft UA3F_DESYNC")>> /\ Cleanup("des", d) = A \o B
    BY InstallIs DEF DesyncIptCleanup, DesyncNftCleanup
  <1>6. /\ Deletes(B, "des")
        /\ \A o : Do("des", "delete", o) \in ToSet(B) <=> o \in {"POSTROUTING > REORDER", "PREROUTING > INJECT", "INJECT", "REORDER"}
        /\ Before(B, Do("des", "delete", "POSTROUTING > REORDER"), Do("des", "delete", "REORDER"))
        /\ Before(B, Do("des", "delete", "PREROUTING > INJECT"), Do("des", "delete", "INJECT"))
    BY <1>3, <1>5, FourDeletes
  <1>7. Deletes(A, "des") /\ \A o : Do("des", "delete", o) \in ToSet(A) <=> o = "nft UA3F_DESYNC"
    BY <1>3, <1>5, OneDelete
  <1>. HIDE DEF A, B
  <1>8. /\ Deletes(A \o B, "des")
        /\ \A o : Do("des", "delete", o) \in ToSet(A \o B) <=> Do("des", "delete", o) \in ToSet(A) \/ Do("des", "delete", o) \in ToSet(B)
        /\ \A x, y : Do("des", "delete", y) \notin ToSet(A) /\ Before(B, Do("des", "delete", x), Do("des", "delete", y))
                            => Before(A \o B, Do("des", "delete", x), Do("des", "delete", y))
    BY <1>6, <1>7, DeletesJoin
  <1>9. /\ \A o \in Removable("des", d) : Do("des", "delete", o) \in ToSet(A \o B)
        /\ Before(A \o B, Do("des", "delete", "POSTROUTING > REORDER"), Do("des", "delete", "REORDER"))
        /\ Before(A \o B, Do("des", "delete", "PREROUTING > INJECT"), Do("des", "delete", "INJECT"))
    BY <1>6, <1>7, <1>8, RemovableIs
  <1>10. \A o \in Removable("des", d) : Del("des", o) = Do("des", "delete", o) /\ o \in Objects
    BY RemovableIs, JumpFacts DEF Del, Ingress, Objects, Tables, Chains
  <1>11. \A o \in Removable("des", d) : \A x \in Waits(o) : \/ o = "REORDER" /\ x = "POSTROUTING > REORDER"
                                                            \/ o = "INJECT" /\ x = "PREROUTING > INJECT"
    <2>1. \A o \in Removable("des", d) \ {"REORDER", "INJECT"} : o \in Objects \ (Chains \cup Sets)
      BY <1>10, RemovableIs DEF Chains, Sets, LanSet, SkipSet
    <2>. QED
      BY <2>1, WaitFacts
  <1>12. Sweeps(A \o B, "des", d)
    BY <1>8, <1>9, <1>10, <1>11, NoShut DEF Sweeps
  <1>. QED
    BY <1>5, <1>8, <1>12

(* What the cleanups of the servers are about. *)
LEMMA SrvTargets ==
    /\ "srv" \in Components /\ "nft UA3F" \in Targets("srv") /\ Routes \subseteq Targets("srv")
    /\ OfType(type) \subseteq Targets("srv")
  <1>1. "nft UA3F" \in Owned["srv"] /\ Routes \subseteq Owned["srv"] /\ OfType(type) \subseteq Owned["srv"]
    BY OwnedFacts, SrvTypes DEF Routes
  <1>2. Ingress \notin {"nft UA3F"} \cup Routes \cup OfType(type)
    BY SrvTypes DEF Routes, Ingress
  <1>. QED
    BY <1>1, <1>2 DEF Targets, Components

LEMMA NftDelete ==
    /\ Deletes(<<Do("srv", "delete", "nft UA3F")>>, "srv")
    /\ \A o : Do("srv", "delete", o) \in ToSet(<<Do("srv", "delete", "nft UA3F")>>) <=> o = "nft UA3F"
  BY SrvTargets, OneDelete

LEMMA RouteDeletes ==
    /\ Deletes(DeleteTproxyRoute, "srv")
    /\ \A o : Do("srv", "delete", o) \in ToSet(DeleteTproxyRoute) <=> o \in Routes
  <1>1. {"rule4", "route4", "rule6", "route6"} \subseteq Targets("srv") /\ "srv" \in Components
    BY SrvTargets DEF Routes
  <1>. QED
    BY <1>1, FourDeletes DEF DeleteTproxyRoute, Routes

LEMMA SrvDel == \A o \in {"nft UA3F"} \cup Routes \cup OfType(type) : Del("srv", o) = Do("srv", "delete", o) /\ o \in Objects
  <1>1. \A o \in {"nft UA3F"} \cup Routes \cup OfType(type) : o # Ingress /\ o \in Owned["srv"]
    BY SrvTargets DEF Targets
  <1>. QED
    BY <1>1, ObjectFacts, SrvTargets DEF Del

LEMMA TproxyClean ==
    ASSUME type = "TPROXY"
    PROVE  Deletes(ServerCleanup, "srv") /\ \A d : Sweeps(ServerCleanup, "srv", d)
  <1>. DEFINE R == DeleteTproxyRoute
              N == <<Do("srv", "delete", "nft UA3F")>>
              P == R \o N
              L == DoAll("srv", "delete", <<"PREROUTING > UA3F", "OUTPUT > UA3F_OUTPUT", "PREROUTING > UA3F_SIDECAR",
                                            "mangle UA3F", "UA3F_OUTPUT", "UA3F_SIDECAR", LanSet>>)
              Q == R \o L
              D(o) == Do("srv", "delete", o)
              Seven == {"PREROUTING > UA3F", "OUTPUT > UA3F_OUTPUT", "PREROUTING > UA3F_SIDECAR",
                        "mangle UA3F", "UA3F_OUTPUT", "UA3F_SIDECAR", "UA3F_LAN"}
  <1>1. ServerCleanup = P \o Q
    BY DEF ServerCleanup, TproxyNftCleanup, TproxyIptCleanup
  <1>2. Deletes(R, "srv") /\ \A o : D(o) \in ToSet(R) <=> o \in Routes
    BY RouteDeletes
  <1>3. Deletes(N, "srv") /\ \A o : D(o) \in ToSet(N) <=> o = "nft UA3F"
    BY NftDelete
  <1>4. /\ Deletes(L, "srv") /\ \A o : D(o) \in ToSet(L) <=> o \in Seven
        /\ Before(L, D("PREROUTING > UA3F"), D("mangle UA3F")) /\ Before(L, D("OUTPUT > UA3F_OUTPUT"), D("UA3F_OUTPUT"))
        /\ Before(L, D("PREROUTING > UA3F_SIDECAR"), D("UA3F_SIDECAR"))
        /\ Before(L, D("mangle UA3F"), D("UA3F_LAN")) /\ Before(L, D("UA3F_OUTPUT"), D("UA3F_LAN"))
    <2>1. Seven \subseteq Targets("srv") /\ "srv" \in Components /\ LanSet = "UA3F_LAN"
      BY SrvTargets DEF OfType, Sets, LanSet
    <2>2. L = DoAll("srv", "delete", <<"PREROUTING > UA3F", "OUTPUT > UA3F_OUTPUT", "PREROUTING > UA3F_SIDECAR",
                                       "mangle UA3F", "UA3F_OUTPUT", "UA3F_SIDECAR", "UA3F_LAN">>)
      BY <2>1
    <2>3. /\ "PREROUTING > UA3F" \notin {"OUTPUT > UA3F_OUTPUT", "PREROUTING > UA3F_SIDECAR", "mangle UA3F", "UA3F_OUTPUT", "UA3F_SIDECAR", "UA3F_LAN"}
          /\ "OUTPUT > UA3F_OUTPUT" \notin {"PREROUTING > UA3F_SIDECAR", "mangle UA3F", "UA3F_OUTPUT", "UA3F_SIDECAR", "UA3F_LAN"}
          /\ "PREROUTING > UA3F_SIDECAR" \notin {"mangle UA3F", "UA3F_OUTPUT", "UA3F_SIDECAR", "UA3F_LAN"}
          /\ "mangle UA3F" \notin {"UA3F_OUTPUT", "UA3F_SIDECAR", "UA3F_LAN"}
          /\ "UA3F_OUTPUT" \notin {"UA3F_SIDECAR", "UA3F_LAN"} /\ "UA3F_SIDECAR" # "UA3F_LAN"
      OBVIOUS
    <2>. HIDE DEF L
    <2>. QED
      BY <2>1, <2>2, <2>3, SevenDeletes, ZenonT(60)
  <1>. HIDE DEF R, N, L
  <1>5. Deletes(P, "srv") /\ \A o : D(o) \in ToSet(P) <=> o \in Routes \cup {"nft UA3F"}
    BY <1>2, <1>3, DeletesJoin
  <1>6. /\ Deletes(Q, "srv") /\ \A o : D(o) \in ToSet(Q) <=> o \in Routes \cup Seven
        /\ \A x, y : D(y) \notin ToSet(R) /\ Before(L, D(x), D(y)) => Before(Q, D(x), D(y))
    BY <1>2, <1>4, DeletesJoin
  <1>7. /\ Before(Q, D("PREROUTING > UA3F"), D("mangle UA3F")) /\ Before(Q, D("OUTPUT > UA3F_OUTPUT"), D("UA3F_OUTPUT"))
        /\ Before(Q, D("PREROUTING > UA3F_SIDECAR"), D("UA3F_SIDECAR"))
        /\ Before(Q, D("mangle UA3F"), D("UA3F_LAN")) /\ Before(Q, D("UA3F_OUTPUT"), D("UA3F_LAN"))
    <2>1. \A o \in Seven : o \notin Routes
      BY DEF Routes
    <2>2. \A o \in Seven : D(o) \notin ToSet(R)
      BY <1>2, <2>1
    <2>. QED
      BY <1>4, <1>6, <2>2
  <1>. HIDE DEF P, Q
  <1>8. /\ Deletes(P \o Q, "srv") /\ \A o : D(o) \in ToSet(P \o Q) <=> D(o) \in ToSet(P) \/ D(o) \in ToSet(Q)
        /\ \A x, y : D(y) \notin ToSet(P) /\ Before(Q, D(x), D(y)) => Before(P \o Q, D(x), D(y))
    BY <1>5, <1>6, DeletesJoin
  <1>9. /\ Before(P \o Q, D("PREROUTING > UA3F"), D("mangle UA3F")) /\ Before(P \o Q, D("OUTPUT > UA3F_OUTPUT"), D("UA3F_OUTPUT"))
        /\ Before(P \o Q, D("PREROUTING > UA3F_SIDECAR"), D("UA3F_SIDECAR"))
        /\ Before(P \o Q, D("mangle UA3F"), D("UA3F_LAN")) /\ Before(P \o Q, D("UA3F_OUTPUT"), D("UA3F_LAN"))
    <2>1. \A o \in Seven : o \notin Routes \cup {"nft UA3F"}
      BY DEF Routes
    <2>2. \A o \in Seven : D(o) \notin ToSet(P)
      BY <1>5, <2>1
    <2>. QED
      BY <1>7, <1>8, <2>2
  <1>10. \A d : Removable("srv", d) = {"nft UA3F"} \cup Routes \cup Seven
    BY RemovableIs DEF OfType, Sets, LanSet, SkipSet
  <1>11. \A o \in {"nft UA3F"} \cup Routes \cup Seven : D(o) \in ToSet(P \o Q) /\ Del("srv", o) = D(o)
    <2>1. Seven \subseteq OfType(type)
      BY DEF OfType, Sets, LanSet
    <2>. QED
      BY <1>5, <1>6, <1>8, <2>1, SrvDel
  <1>12. \A o \in {"nft UA3F"} \cup Routes \cup Seven : \A x \in Waits(o) \cap ({"nft UA3F"} \cup Routes \cup Seven) :
             Before(P \o Q, D(x), D(o))
    <2>1. \A o \in {"nft UA3F"} \cup Routes \cup {"PREROUTING > UA3F", "OUTPUT > UA3F_OUTPUT", "PREROUTING > UA3F_SIDECAR"} : Waits(o) = {}
      <3>1. \A o \in {"nft UA3F"} \cup Routes \cup {"PREROUTING > UA3F", "OUTPUT > UA3F_OUTPUT", "PREROUTING > UA3F_SIDECAR"} :
                o \in Objects \ (Chains \cup Sets)
        BY JumpFacts DEF Objects, Tables, Chains, Sets, LanSet, SkipSet, Routes
      <3>. QED
        BY <3>1, WaitFacts
    <2>2. Waits("UA3F_LAN") = {"mangle UA3F", "UA3F_OUTPUT", "nat UA3F"}
      BY WaitFacts DEF Sets, LanSet, MatchSets
    <2>3. Waits("mangle UA3F") \cap ({"nft UA3F"} \cup Routes \cup Seven) \subseteq {"PREROUTING > UA3F"}
      BY WaitFacts DEF Routes
    <2>4. Waits("UA3F_LAN") \cap ({"nft UA3F"} \cup Routes \cup Seven) \subseteq {"mangle UA3F", "UA3F_OUTPUT"}
      BY <2>2 DEF Routes
    <2>5. Waits("UA3F_OUTPUT") = {"OUTPUT > UA3F_OUTPUT"} /\ Waits("UA3F_SIDECAR") = {"PREROUTING > UA3F_SIDECAR"}
      BY WaitFacts
    <2>6. TAKE o \in {"nft UA3F"} \cup Routes \cup Seven
    <2>7. o \in {"nft UA3F"} \cup Routes \cup {"PREROUTING > UA3F", "OUTPUT > UA3F_OUTPUT", "PREROUTING > UA3F_SIDECAR"}
              \/ o = "mangle UA3F" \/ o = "UA3F_OUTPUT" \/ o = "UA3F_SIDECAR" \/ o = "UA3F_LAN"
      OBVIOUS
    <2>. HIDE DEF D, Seven
    <2>. QED
      BY <1>9, <2>1, <2>3, <2>4, <2>5, <2>7
  <1>. HIDE DEF Seven, D
  <1>13. \A d : Sweeps(P \o Q, "srv", d)
    <2>1. TAKE d
    <2>2. Removable("srv", d) = {"nft UA3F"} \cup Routes \cup Seven
      BY <1>10
    <2>3. \A x : Before(P \o Q, x, Shuts("srv"))
      BY <1>8, NoShut
    <2>4. SUFFICES ASSUME NEW o \in Removable("srv", d)
                   PROVE  /\ Del("srv", o) \in ToSet(P \o Q) /\ Before(P \o Q, Del("srv", o), Shuts("srv"))
                          /\ \A x \in Waits(o) \cap Removable("srv", d) : Before(P \o Q, Del("srv", x), Del("srv", o))
      BY DEF Sweeps
    <2>5. /\ o \in {"nft UA3F"} \cup Routes \cup Seven
          /\ Waits(o) \cap Removable("srv", d) = Waits(o) \cap ({"nft UA3F"} \cup Routes \cup Seven)
      BY <2>2, <2>4
    <2>. QED
      BY <1>11, <1>12, <2>3, <2>5
  <1>. QED
    BY <1>1, <1>8, <1>13

(* The other two: the jump, the chain, the sets. *)
LEMMA PlainClean ==
    ASSUME NEW j \in Jumps, NEW ch \in Chains, type \in {"REDIRECT", "NFQUEUE"},
           OfType(type) = {j, ch} \cup Sets,
           Waits(ch) \cap OfType(type) = {j}, ch \in MatchSets,
           ServerCleanup = <<Do("srv", "delete", "nft UA3F")>> \o DoAll("srv", "delete", <<j, ch, LanSet, SkipSet>>)
    PROVE  Deletes(ServerCleanup, "srv") /\ \A d : Sweeps(ServerCleanup, "srv", d)
  <1>. DEFINE N == <<Do("srv", "delete", "nft UA3F")>>
              L == DoAll("srv", "delete", <<j, ch, LanSet, SkipSet>>)
              D(o) == Do("srv", "delete", o)
              Table == "nft UA3F"
  <1>2. Deletes(N, "srv") /\ \A o : D(o) \in ToSet(N) <=> o = Table
    BY NftDelete
  <1>3. j \notin Chains \cup Sets /\ ch \notin Sets /\ Table \notin OfType(type) /\ LanSet # SkipSet /\ Sets = {LanSet, SkipSet}
    <2>1. j \notin Chains \cup Sets /\ ch \notin Sets /\ LanSet # SkipSet
      BY JumpFacts DEF Chains, Sets, LanSet, SkipSet
    <2>2. Table \notin OfType(type)
      BY DEF OfType, Sets, LanSet, SkipSet
    <2>. QED
      BY <2>1, <2>2 DEF Sets
  <1>4. /\ Deletes(L, "srv") /\ \A o : D(o) \in ToSet(L) <=> o \in {j, ch, LanSet, SkipSet}
        /\ Before(L, D(j), D(ch)) /\ Before(L, D(ch), D(LanSet)) /\ Before(L, D(ch), D(SkipSet))
    <2>1. {j, ch, LanSet, SkipSet} \subseteq Targets("srv") /\ "srv" \in Components
      BY <1>3, SrvTargets
    <2>2. j \notin {ch, LanSet, SkipSet} /\ ch \notin {LanSet, SkipSet} /\ LanSet # SkipSet
      BY <1>3
    <2>. QED
      BY <2>1, <2>2, FourDeletes
  <1>5. ServerCleanup = N \o L /\ {j, ch, LanSet, SkipSet} = OfType(type)
    BY <1>3
  <1>. HIDE DEF N, L, D, Table
  <1>8. /\ Deletes(N \o L, "srv") /\ \A o : D(o) \in ToSet(N \o L) <=> D(o) \in ToSet(N) \/ D(o) \in ToSet(L)
        /\ \A x, y : D(y) \notin ToSet(N) /\ Before(L, D(x), D(y)) => Before(N \o L, D(x), D(y))
    BY <1>2, <1>4, DeletesJoin DEF D
  <1>9. Before(N \o L, D(j), D(ch)) /\ Before(N \o L, D(ch), D(LanSet)) /\ Before(N \o L, D(ch), D(SkipSet))
    BY <1>2, <1>3, <1>4, <1>5, <1>8
  <1>10. \A d : Removable("srv", d) = {Table} \cup OfType(type)
    BY RemovableIs DEF Table
  <1>11. \A o \in {Table} \cup OfType(type) : D(o) \in ToSet(N \o L) /\ Del("srv", o) = D(o)
    BY <1>2, <1>4, <1>5, <1>8, SrvDel DEF D, Table
  <1>12. \A o \in {Table} \cup OfType(type) : \A x \in Waits(o) \cap ({Table} \cup OfType(type)) : Before(N \o L, D(x), D(o))
    <2>1. Waits(Table) = {} /\ Waits(j) = {}
      <3>1. Table \in Objects \ (Chains \cup Sets) /\ j \in Objects \ (Chains \cup Sets)
        BY <1>3, SrvDel DEF Table, Chains, Sets, LanSet, SkipSet
      <3>. QED
        BY <3>1, WaitFacts
    <2>2. Waits(ch) \cap ({Table} \cup OfType(type)) \subseteq {j}
      <3>1. Table \notin Waits(ch)
        <4>1. \A x \in Waits(ch) : x \in Chains \cup Jumps
          BY WaitFacts
        <4>2. Table \notin Chains \cup Jumps
          BY JumpFacts DEF Table, Chains
        <4>. QED
          BY <4>1, <4>2
      <3>. QED
        BY <3>1
    <2>3. \A o \in Sets : Waits(o) \cap ({Table} \cup OfType(type)) \subseteq {ch}
      <3>1. \A o \in Sets : Waits(o) = MatchSets
        BY WaitFacts
      <3>2. MatchSets \cap ({Table} \cup OfType(type)) \subseteq {ch}
        BY JumpFacts DEF MatchSets, OfType, Sets, LanSet, SkipSet, Table, Chains
      <3>. QED
        BY <3>1, <3>2
    <2>. QED
      BY <1>3, <1>5, <1>9, <2>1, <2>2, <2>3
  <1>13. \A d : Sweeps(N \o L, "srv", d)
    <2>1. TAKE d
    <2>2. Removable("srv", d) = {Table} \cup OfType(type)
      BY <1>10
    <2>3. \A x : Before(N \o L, x, Shuts("srv"))
      BY <1>8, NoShut
    <2>4. SUFFICES ASSUME NEW o \in Removable("srv", d)
                   PROVE  /\ Del("srv", o) \in ToSet(N \o L) /\ Before(N \o L, Del("srv", o), Shuts("srv"))
                          /\ \A x \in Waits(o) \cap Removable("srv", d) : Before(N \o L, Del("srv", x), Del("srv", o))
      BY DEF Sweeps
    <2>. QED
      BY <1>11, <1>12, <2>2, <2>3, <2>4
  <1>. QED
    BY <1>5, <1>8, <1>13

LEMMA ServerClean ==
    ASSUME type \in Types
    PROVE  Deletes(ServerCleanup, "srv") /\ \A d : Sweeps(ServerCleanup, "srv", d)
  <1>1. CASE type = "SOCKS5"
    <2>1. ServerCleanup = <<>> /\ \A d : Removable("srv", d) = {}
      BY <1>1, RemovableIs DEF ServerCleanup
    <2>. QED
      BY <2>1, Empty DEF Deletes, Sweeps
  <1>2. CASE type = "REDIRECT"
    <2>1. ServerCleanup = <<Do("srv", "delete", "nft UA3F")>> \o DoAll("srv", "delete", <<"nat PREROUTING > UA3F", "nat UA3F", LanSet, SkipSet>>)
      BY <1>2 DEF ServerCleanup, RedirectNftCleanup, RedirectIptCleanup
    <2>2. OfType(type) = {"nat PREROUTING > UA3F", "nat UA3F"} \cup Sets /\ Waits("nat UA3F") \cap OfType(type) = {"nat PREROUTING > UA3F"}
      BY <1>2, WaitFacts DEF OfType
    <2>. QED
      BY <1>2, <2>1, <2>2, PlainClean, JumpFacts DEF Chains, MatchSets
  <1>3. CASE type = "NFQUEUE"
    <2>1. ServerCleanup = <<Do("srv", "delete", "nft UA3F")>> \o DoAll("srv", "delete", <<"POSTROUTING > UA3F", "mangle UA3F", LanSet, SkipSet>>)
      BY <1>3 DEF ServerCleanup, NfqueueNftCleanup, NfqueueIptCleanup
    <2>2. OfType(type) = {"POSTROUTING > UA3F", "mangle UA3F"} \cup Sets /\ Waits("mangle UA3F") \cap OfType(type) = {"POSTROUTING > UA3F"}
      BY <1>3, WaitFacts DEF OfType, Sets, LanSet, SkipSet
    <2>. QED
      BY <1>3, <2>1, <2>2, PlainClean, JumpFacts DEF Chains, MatchSets
  <1>. QED
    BY <1>1, <1>2, <1>3, TproxyClean DEF Types

(* Every cleanup does, for the configuration it was given. *)
LEMMA CleanupSweeps ==
    ASSUME NEW c \in Components, NEW d, type \in Types
    PROVE  Deletes(Cleanup(c, d), c) /\ Sweeps(Cleanup(c, d), c, d)
  BY HelperClean, DesyncClean, ServerClean, InstallIs DEF Components

(* The kinds of commands are different. *)
LEMMA OpsApart ==
    /\ MakeOps = {"create", "put", "try"} /\ PutOps = {"create", "put", "try", "fill"}
    /\ InstallOps = {"create", "put", "try", "fill", "fail", "tcx", "nowan", "qdisc", "filter"}
    /\ Ops = {"create", "put", "try", "fill", "fail", "tcx", "nowan", "qdisc", "filter",
              "delete", "watch", "open", "shut", "adopt", "detach", "boot", "abort"}
  BY DEF MakeOps, PutOps, InstallOps, Ops

(* When one command may follow another. *)
LEMMA Apart ==
    ASSUME NEW p, NEW x, NEW y, x.comp # y.comp, Place(p, x.comp) <= Place(p, y.comp)
    PROVE  Follows(p, x, y)
  BY DEF Follows

LEMMA Calm ==
    ASSUME NEW p, NEW x, NEW y, x.comp = y.comp, x.op \notin InstallOps \cup {"open"}, y.op # "adopt"
    PROVE  Follows(p, x, y)
  BY PlaceType, OpsApart DEF Follows

LEMMA Late ==
    ASSUME NEW p, NEW x, NEW y, x.comp = y.comp, x.op \in InstallOps, y.op \in {"watch", "open"}
    PROVE  Follows(p, x, y)
  BY PlaceType, OpsApart DEF Follows

LEMMA AtLast ==
    ASSUME NEW p, p # "starting", NEW x, NEW y, x.comp = y.comp, x.op # "adopt", y.op = "adopt"
    PROVE  Follows(p, x, y)
  BY PlaceType, OpsApart DEF Follows

(* A list without installation is in order. *)
LEMMA CalmOrder ==
    ASSUME NEW p, NEW c, NEW L \in Seq(Commands),
           \A x \in ToSet(L) : x.comp = c /\ x.op \notin InstallOps \cup {"open", "adopt"}
    PROVE  InOrder(p, L)
  <1>1. SUFFICES ASSUME NEW i \in DOMAIN L, NEW j \in DOMAIN L PROVE Follows(p, L[i], L[j])
    BY DEF InOrder
  <1>2. L[i] \in ToSet(L) /\ L[j] \in ToSet(L)
    BY DEF ToSet
  <1>. QED
    BY <1>2, Calm

(* The list of a Start: it installs what the configuration asks for and,
   unless it uses BPF, sweeps first. *)
Starts(S, c, d) ==
    /\ S \in Seq(Commands) /\ \A p : InOrder(p, S)
    /\ \A x \in ToSet(S) : /\ x.comp = c /\ Typed(x) /\ x.op \in InstallOps \cup {"delete", "watch", "open"}
                           /\ x.op \notin {"qdisc", "filter"} /\ (x.op \in {"tcx", "nowan"} => ByBPF(c, d))
    /\ \A x : x \in Cmds(c, d) <=> x \in ToSet(S) /\ x.op \in PutOps
    /\ Enabled(c, d) => IF ByBPF(c, d) THEN \E x \in ToSet(S) : x.op \in {"tcx", "nowan"}
                        ELSE Sweeps(S, c, d) /\ \E x \in ToSet(S) : x.op = "delete"
    /\ ByBPF(c, d) => \A x \in ToSet(S) : x.op \in {"tcx", "nowan"}
    /\ ~Enabled(c, d) => S = <<>>

(* A list of commands of one component. *)
Segment(L, c) == L \in Seq(Commands) /\ \A x \in ToSet(L) : x.comp = c /\ Typed(x)

(* Sweeping in a concatenation. *)
LEMMA SweepsJoin ==
    ASSUME NEW A \in Seq(Commands), NEW B \in Seq(Commands), NEW c, NEW d
    PROVE  /\ Sweeps(A, c, d) /\ Shuts(c) \notin ToSet(B) => Sweeps(A \o B, c, d)
           /\ Sweeps(A, c, d) => \A o \in Removable(c, d) : Del(c, o) \in ToSet(A \o B)
           /\ Sweeps(B, c, d) /\ (\A o \in Removable(c, d) : Del(c, o) \notin ToSet(A)) /\ Shuts(c) \notin ToSet(A) => Sweeps(A \o B, c, d)
           /\ Sweeps(A, c, d) => Sweeps(A \o B, c, d)
  <1>1. ToSet(A \o B) = ToSet(A) \cup ToSet(B)
    BY Joined
  <1>2. ASSUME Sweeps(A, c, d) PROVE Sweeps(A \o B, c, d)
    <2>1. \A x, y : x \in ToSet(A) /\ Before(A, x, y) => Before(A \o B, x, y)
      BY JoinBefore
    <2>. QED
      BY <1>1, <1>2, <2>1 DEF Sweeps
  <1>3. ASSUME Sweeps(B, c, d), \A o \in Removable(c, d) : Del(c, o) \notin ToSet(A), Shuts(c) \notin ToSet(A)
        PROVE  Sweeps(A \o B, c, d)
    <2>1. \A x, y : y \notin ToSet(A) /\ Before(B, x, y) => Before(A \o B, x, y)
      BY JoinBefore
    <2>. QED
      BY <1>1, <1>3, <2>1 DEF Sweeps
  <1>. QED
    BY <1>1, <1>2, <1>3 DEF Sweeps

(* What is enabled has something to sweep. *)
LEMMA Nonempty == \A c \in Components : \A d : Enabled(c, d) => \E o \in Removable(c, d) : TRUE
  <1>1. \A d : HelperTable \in Removable("help", d) /\ "REORDER" \in Removable("des", d)
               /\ (type # "SOCKS5" => "nft UA3F" \in Removable("srv", d))
    BY RemovableIs
  <1>. QED
    BY <1>1 DEF Components, Enabled

(* A deletion is one. *)
LEMMA DelIs == \A c, o : Del(c, o).comp = c /\ Del(c, o).op = "delete"
  BY DEF Del, Do

(* The commands without an object. *)
LEMMA SingleTypes ==
    /\ \A c \in Components : LET x == Do(c, "fail", Nowhere) IN x \in Commands /\ Typed(x) /\ x.comp = c /\ x.op = "fail"
    /\ \A c \in Components : LET x == Do(c, "open", Nowhere) IN x \in Commands /\ Typed(x) /\ x.comp = c /\ x.op = "open"
    /\ \A c \in Components : LET x == Do(c, "shut", Nowhere) IN x \in Commands /\ Typed(x) /\ x.comp = c /\ x.op = "shut"
    /\ \A c \in Components : LET x == Do(c, "adopt", Nowhere) IN x \in Commands /\ Typed(x) /\ x.comp = c /\ x.op = "adopt"
    /\ \A op \in {"tcx", "nowan", "detach"} :
           LET x == Do("help", op, Nowhere) IN x \in Commands /\ Typed(x) /\ x.comp = "help" /\ x.op = op
    /\ \A op \in {"boot", "abort"} :
           LET x == Do("srv", op, Nowhere) IN x \in Commands /\ Typed(x) /\ x.comp = "srv" /\ x.op = op
    /\ host.ipt => LET x == Do("srv", "watch", SkipSet) IN x \in Commands /\ Typed(x) /\ x.comp = "srv" /\ x.op = "watch"
  <1>1. ASSUME NEW c \in Components, NEW op \in {"fail", "open", "shut", "adopt", "tcx", "nowan", "detach", "boot", "abort"},
               op \in {"tcx", "nowan", "detach"} => c = "help", op \in {"boot", "abort"} => c = "srv", NEW x, x = Do(c, op, Nowhere)
        PROVE  x \in Commands /\ Typed(x) /\ x.comp = c /\ x.op = op
    <2>1. x.comp = c /\ x.op = op /\ x.obj = Nowhere
      BY <1>1 DEF Do
    <2>2. x \in Commands
      <3>1. op \in Ops /\ Nowhere \in Things
        BY OpsApart DEF Things
      <3>. QED
        BY <1>1, <3>1, DoType
    <2>. QED
      BY <1>1, <2>1, <2>2, OpsApart DEF Typed
  <1>2. ASSUME host.ipt, NEW x, x = Do("srv", "watch", SkipSet)
        PROVE  x \in Commands /\ Typed(x) /\ x.comp = "srv" /\ x.op = "watch"
    <2>1. x.comp = "srv" /\ x.op = "watch" /\ x.obj = SkipSet
      BY <1>2 DEF Do
    <2>2. SkipSet \in Things /\ "srv" \in Components /\ "watch" \in Ops
      BY DEF Things, Objects, Sets, Components, Ops
    <2>3. x \in Commands
      BY <1>2, <2>2, DoType
    <2>. QED
      BY <1>2, <2>1, <2>3, OpsApart DEF Typed
  <1>. QED
    BY <1>1, <1>2 DEF Components

LEMMA SetupStarts ==
    ASSUME NEW c \in Components, NEW d, type \in Types, Enabled(c, d), ~ByBPF(c, d), NEW b \in BOOLEAN
    PROVE  Starts(Setup(c, d) \o When(b, Opening(c)), c, d)
  <1>. DEFINE A == Cleanup(c, d)
              B == IF Backend(d) = "none" THEN <<Do(c, "fail", Nowhere)>> ELSE Install(c, d)
              W == Watch(c, d)
              O == When(b, Opening(c))
  <1>0. c = "srv" => type # "SOCKS5"
    BY DEF Enabled
  <1>1. Deletes(A, c) /\ Sweeps(A, c, d)
    BY CleanupSweeps
  <1>2. /\ B \in Seq(Commands) /\ \A p : InOrder(p, B)
        /\ \A x \in ToSet(B) : x.comp = c /\ Typed(x) /\ x.op \in PutOps \cup {"fail"}
        /\ \A x : x \in Cmds(c, d) <=> x \in ToSet(B) /\ x.op \in PutOps
    <2>1. CASE Backend(d) = "none"
      <3>1. PICK x : x = Do(c, "fail", Nowhere)
        OBVIOUS
      <3>2. x \in Commands /\ Typed(x) /\ x.comp = c /\ x.op = "fail"
        BY <3>1, SingleTypes
      <3>3. B = <<x>>
        BY <2>1, <3>1
      <3>4. ToSet(<<x>>) = {x} /\ <<x>> \in Seq(Commands) /\ \A p : InOrder(p, <<x>>)
        BY <3>2, One, OneOrder
      <3>5. Cmds(c, d) = {}
        BY <2>1 DEF Cmds
      <3>. QED
        BY <3>2, <3>3, <3>4, <3>5, OpsApart
    <2>2. CASE Backend(d) # "none"
      <3>1. Provides(Install(c, d), c, d)
        BY <1>0, <2>2, InstallPuts
      <3>2. Cmds(c, d) = {x \in ToSet(Install(c, d)) : x.op \in PutOps}
        BY <2>2 DEF Cmds
      <3>3. B = Install(c, d)
        BY <2>2
      <3>. HIDE DEF B
      <3>. QED
        BY <3>1, <3>2, <3>3 DEF Provides
    <2>. QED
      BY <2>1, <2>2
  <1>3. /\ W \in Seq(Commands) /\ \A p : InOrder(p, W)
        /\ \A x \in ToSet(W) : x.comp = c /\ Typed(x) /\ x.op = "watch"
    <2>1. CASE c = "srv" /\ Backend(d) = "ipt"
      <3>1. PICK x : x = Do("srv", "watch", SkipSet)
        OBVIOUS
      <3>2. x \in Commands /\ Typed(x) /\ x.comp = "srv" /\ x.op = "watch"
        BY <2>1, <3>1, SingleTypes, BackendIs
      <3>3. W = <<x>>
        BY <2>1, <3>1 DEF Watch, When
      <3>4. ToSet(<<x>>) = {x} /\ <<x>> \in Seq(Commands) /\ \A p : InOrder(p, <<x>>)
        BY <3>2, One, OneOrder
      <3>. QED
        BY <2>1, <3>2, <3>3, <3>4
    <2>2. CASE ~(c = "srv" /\ Backend(d) = "ipt")
      <3>1. W = <<>>
        BY <2>2 DEF Watch, When
      <3>2. ToSet(<<>>) = {} /\ <<>> \in Seq(Commands) /\ DOMAIN <<>> = {}
        BY Empty
      <3>. QED
        BY <3>1, <3>2 DEF InOrder
    <2>. QED
      BY <2>1, <2>2
  <1>4. /\ O \in Seq(Commands) /\ \A p : InOrder(p, O)
        /\ \A x \in ToSet(O) : x.comp = c /\ Typed(x) /\ x.op = "open"
    <2>1. CASE b
      <3>1. PICK x : x = Do(c, "open", Nowhere)
        OBVIOUS
      <3>2. x \in Commands /\ Typed(x) /\ x.comp = c /\ x.op = "open"
        BY <3>1, SingleTypes
      <3>3. O = <<x>>
        BY <2>1, <3>1 DEF Opening, When
      <3>4. ToSet(<<x>>) = {x} /\ <<x>> \in Seq(Commands) /\ \A p : InOrder(p, <<x>>)
        BY <3>2, One, OneOrder
      <3>. QED
        BY <3>2, <3>3, <3>4
    <2>2. CASE ~b
      <3>1. O = <<>>
        BY <2>2 DEF When
      <3>2. ToSet(<<>>) = {} /\ <<>> \in Seq(Commands) /\ DOMAIN <<>> = {}
        BY Empty
      <3>. QED
        BY <3>1, <3>2 DEF InOrder
    <2>. QED
      BY <2>1, <2>2
  <1>5. Setup(c, d) \o When(b, Opening(c)) = A \o B \o W \o O
    BY DEF Setup
  <1>. HIDE DEF A, B, W, O
  <1>6. A \in Seq(Commands) /\ (\A x \in ToSet(A) : x.comp = c /\ x.op = "delete" /\ Typed(x)) /\ \A p : InOrder(p, A)
    <2>1. A \in Seq(Commands) /\ (\A x \in ToSet(A) : x.comp = c /\ x.op = "delete" /\ Typed(x))
      BY <1>1 DEF Deletes
    <2>. QED
      BY <2>1, CalmOrder, OpsApart
  <1>. DEFINE X == A \o B
  <1>7. X \in Seq(Commands) /\ ToSet(X) = ToSet(A) \cup ToSet(B)
    BY <1>2, <1>6, Joined
  <1>8. \A p : InOrder(p, X)
    <2>1. \A p : \A x \in ToSet(A), y \in ToSet(B) : Follows(p, x, y)
      BY <1>2, <1>6, Calm, OpsApart
    <2>. QED
      BY <1>2, <1>6, <2>1, JoinOrder
  <1>9. Sweeps(X, c, d)
    BY <1>1, <1>2, <1>6, SweepsJoin
  <1>. HIDE DEF X
  <1>. DEFINE Y == X \o W
  <1>10. Y \in Seq(Commands) /\ ToSet(Y) = ToSet(X) \cup ToSet(W)
    BY <1>3, <1>7, Joined
  <1>11. \A p : InOrder(p, Y)
    <2>1. \A p : \A x \in ToSet(X), y \in ToSet(W) : Follows(p, x, y)
      <3>1. TAKE p
      <3>2. TAKE x \in ToSet(X), y \in ToSet(W)
      <3>3. CASE x \in ToSet(A)
        BY <1>3, <1>6, <3>3, Calm, OpsApart
      <3>4. CASE x \in ToSet(B)
        BY <1>2, <1>3, <3>4, Late, OpsApart
      <3>. QED
        BY <1>7, <3>3, <3>4
    <2>. QED
      BY <1>3, <1>7, <1>8, <2>1, JoinOrder
  <1>12. Sweeps(Y, c, d)
    BY <1>3, <1>7, <1>9, SweepsJoin
  <1>. HIDE DEF Y
  <1>13. Y \o O \in Seq(Commands) /\ ToSet(Y \o O) = ToSet(Y) \cup ToSet(O)
    BY <1>4, <1>10, Joined
  <1>14. \A p : InOrder(p, Y \o O)
    <2>1. \A p : \A x \in ToSet(Y), y \in ToSet(O) : Follows(p, x, y)
      <3>1. TAKE p
      <3>2. TAKE x \in ToSet(Y), y \in ToSet(O)
      <3>3. CASE x \in ToSet(A) \cup ToSet(W)
        BY <1>3, <1>4, <1>6, <3>3, Calm, OpsApart
      <3>4. CASE x \in ToSet(B)
        BY <1>2, <1>4, <3>4, Late, OpsApart
      <3>. QED
        BY <1>7, <1>10, <3>3, <3>4
    <2>. QED
      BY <1>4, <1>10, <1>11, <2>1, JoinOrder
  <1>15. Sweeps(Y \o O, c, d)
    BY <1>4, <1>10, <1>12, SweepsJoin
  <1>16. \A x \in ToSet(Y \o O) : x \in ToSet(A) \/ x \in ToSet(B) \/ x \in ToSet(W) \/ x \in ToSet(O)
    BY <1>7, <1>10, <1>13
  <1>17. \A x : x \in Cmds(c, d) <=> x \in ToSet(Y \o O) /\ x.op \in PutOps
    BY <1>2, <1>3, <1>4, <1>6, <1>7, <1>10, <1>13, OpsApart
  <1>18. \E x \in ToSet(Y \o O) : x.op = "delete"
    BY <1>15, Nonempty, DelIs DEF Sweeps
  <1>19. \A x \in ToSet(Y \o O) : /\ x.comp = c /\ Typed(x) /\ x.op \in InstallOps \cup {"delete", "watch", "open"}
                                   /\ x.op \notin {"qdisc", "filter", "tcx", "nowan"}
    BY <1>2, <1>3, <1>4, <1>6, <1>16, OpsApart
  <1>20. Setup(c, d) \o When(b, Opening(c)) = Y \o O
    BY <1>5 DEF X, Y
  <1>. HIDE DEF Y
  <1>21. Starts(Y \o O, c, d)
    BY <1>13, <1>14, <1>15, <1>17, <1>18, <1>19 DEF Starts
  <1>. QED
    BY <1>20, <1>21

(* The Start of each component. *)
StartOf(c, d) == CASE c = "help" -> HelperStart(d) [] c = "des" -> DesyncStart(d) [] c = "srv" -> ServerStart(d)

(* Every Start does what Starts says. *)
LEMMA StartStarts ==
    ASSUME NEW c \in Components, NEW d \in Configs, type \in Types
    PROVE  Starts(StartOf(c, d), c, d)
  <1>0. d.syn \in BOOLEAN /\ d.ipid \in BOOLEAN /\ d.reorder \in BOOLEAN /\ d.inject \in BOOLEAN /\ d.bpf \in BOOLEAN
    BY ConfigsAssumption
  <1>n. ASSUME ~Enabled(c, d) PROVE Starts(<<>>, c, d)
    <2>1. ToSet(<<>>) = {} /\ <<>> \in Seq(Commands) /\ DOMAIN <<>> = {} /\ Cmds(c, d) = {}
      BY <1>n, Empty DEF Cmds
    <2>. QED
      BY <1>n, <2>1 DEF Starts, InOrder
  <1>1. CASE c = "help" /\ ~HelperWanted(d)
    BY <1>1, <1>n DEF StartOf, HelperStart, When, Enabled
  <1>2. CASE c = "help" /\ HelperWanted(d) /\ d.bpf
    <2>1. PICK x : x = Do("help", IF eligible # {} THEN "tcx" ELSE "nowan", Nowhere)
      OBVIOUS
    <2>2. x \in Commands /\ Typed(x) /\ x.comp = "help" /\ x.op \in {"tcx", "nowan"}
      BY <2>1, SingleTypes
    <2>3. StartOf(c, d) = <<x>>
      BY <1>2, <2>1 DEF StartOf, HelperStart, When, NewTC
    <2>4. ToSet(<<x>>) = {x} /\ <<x>> \in Seq(Commands) /\ \A p : InOrder(p, <<x>>)
      BY <2>2, One, OneOrder
    <2>5. ByBPF(c, d) /\ Cmds(c, d) = {} /\ Enabled(c, d)
      BY <1>2 DEF ByBPF, Cmds, Enabled
    <2>6. Starts(<<x>>, c, d)
      BY <1>2, <2>2, <2>4, <2>5, OpsApart DEF Starts
    <2>. QED
      BY <2>3, <2>6
  <1>3. CASE c = "help" /\ HelperWanted(d) /\ ~d.bpf
    <2>1. Enabled(c, d) /\ ~ByBPF(c, d) /\ (d.syn \/ d.ipid) \in BOOLEAN
      BY <1>3 DEF Enabled, ByBPF
    <2>2. StartOf(c, d) = Setup(c, d) \o When(d.syn \/ d.ipid, Opening(c))
      BY <1>3 DEF StartOf, HelperStart, When
    <2>. QED
      BY <2>1, <2>2, SetupStarts
  <1>4. CASE c = "des"
    <2>1. Enabled(c, d) /\ ~ByBPF(c, d) /\ DesyncWanted(d) \in BOOLEAN
      BY <1>0, <1>4 DEF Enabled, ByBPF, DesyncWanted
    <2>2. StartOf(c, d) = Setup(c, d) \o When(DesyncWanted(d), Opening(c))
      BY <1>4 DEF StartOf, DesyncStart
    <2>. QED
      BY <2>1, <2>2, SetupStarts
  <1>5. CASE c = "srv" /\ type = "SOCKS5"
    BY <1>5, <1>n DEF StartOf, ServerStart, When, Enabled
  <1>6. CASE c = "srv" /\ type # "SOCKS5"
    <2>1. Enabled(c, d) /\ ~ByBPF(c, d)
      BY <1>6 DEF Enabled, ByBPF
    <2>2. StartOf(c, d) = Setup(c, d) \o When(TRUE, Opening(c))
      BY <1>6 DEF StartOf, ServerStart, When
    <2>. QED
      BY <2>1, <2>2, SetupStarts
  <1>. QED
    BY <1>1, <1>2, <1>3, <1>4, <1>5, <1>6 DEF Components

(* The list of a Close: it sweeps, and the helper deletes what it has
   attached before it forgets it. *)
Closes(K, c) ==
    /\ K \in Seq(Commands)
    /\ \A x \in ToSet(K) : x.comp = c /\ Typed(x) /\ x.op \in {"delete", "detach", "shut"}
    /\ Sweeps(K, c, cfg[c]) /\ Shuts(c) \in ToSet(K)
    /\ c = "help" => /\ Detaches \in ToSet(K) /\ Before(K, Detaches, Shuts(c))
                     /\ \A o \in ToSet(attached) : Del(c, o) \in ToSet(K) /\ Before(K, Del(c, o), Shuts(c))
                     /\ After(K, Detaches, Do("help", "delete", "QUIC"))
                     /\ Do("help", "delete", "QUIC") \in ToSet(K)
(* The Close of each component. *)
CloseOf(c) == CASE c = "help" -> HelperClose [] c = "des" -> DesyncClose [] c = "srv" -> ServerClose

(* Its last command. *)
LEMMA ShutList ==
    ASSUME NEW c \in Components
    PROVE  /\ Shutting(c) \in Seq(Commands) /\ ToSet(Shutting(c)) = {Shuts(c)}
           /\ \A x \in ToSet(Shutting(c)) : x.comp = c /\ Typed(x) /\ x.op = "shut"
  <1>1. PICK x : x = Do(c, "shut", Nowhere)
    OBVIOUS
  <1>2. x \in Commands /\ Typed(x) /\ x.comp = c /\ x.op = "shut"
    BY <1>1, SingleTypes
  <1>3. ToSet(<<x>>) = {x} /\ <<x>> \in Seq(Commands)
    BY <1>2, One
  <1>. QED
    BY <1>1, <1>2, <1>3 DEF Shutting, Shuts

(* What is in the first list comes before what is only in the second. *)
LEMMA BeforeLast ==
    ASSUME NEW A \in Seq(Commands), NEW B \in Seq(Commands), NEW x \in ToSet(A), NEW y, y \notin ToSet(A)
    PROVE  Before(A \o B, x, y)
  <1>1. Before(A, x, y)
    BY DEF Before, ToSet
  <1>. QED
    BY <1>1, JoinBefore

(* Every Close does what Closes says. *)
LEMMA CloseCloses ==
    ASSUME NEW c \in Components, type \in Types, attached \in Seq(Hooks)
    PROVE  Closes(CloseOf(c), c)
  <1>1. PICK e : e = cfg[c]
    OBVIOUS
  <1>. DEFINE B == Cleanup(c, e)
              S == Shutting(c)
              H == When(c = "help", DoAll("help", "delete", attached))
              D == When(c = "help", <<Do("help", "detach", Nowhere)>>)
              A == H \o D
  <1>2. /\ B \in Seq(Commands) /\ Sweeps(B, c, e) /\ \A x \in ToSet(B) : x.comp = c /\ x.op = "delete" /\ Typed(x)
    BY CleanupSweeps DEF Deletes
  <1>3. /\ S \in Seq(Commands) /\ ToSet(S) = {Shuts(c)} /\ \A x \in ToSet(S) : x.comp = c /\ Typed(x) /\ x.op = "shut"
    BY ShutList
  <1>4. /\ H \in Seq(Commands) /\ \A x \in ToSet(H) : x.comp = c /\ Typed(x) /\ x.op = "delete"
        /\ \A o \in Removable(c, e) : Del(c, o) \notin ToSet(H)
        /\ c = "help" => \A o \in ToSet(attached) : Del(c, o) \in ToSet(H)
    <2>1. CASE c = "help"
      <3>1. attached \in Seq(Things) /\ ToSet(attached) \subseteq Hooks
        BY ObjectFacts, Within DEF Components
      <3>2. Hooks \subseteq Targets("help") /\ Hooks \cap Removable("help", e) = {} /\ HelperTable \notin Hooks /\ Ingress \notin Hooks
        <4>1. Removable("help", e) \subseteq {"nft UA3F_HELPER", "nft TTL_INGRESS", "TTL 64", "TTL 65", "IP", "SYN", "QUIC"}
          <5>1. TtlRule(e.ttl) \in {"TTL 64", "TTL 65"}
            BY TtlIs
          <5>2. Removable("help", e) = {HelperTable, Ingress, TtlRule(e.ttl), "IP", "SYN", "QUIC"}
            BY RemovableIs
          <5>. QED
            BY <5>1, <5>2 DEF HelperTable, Ingress
        <4>2. Hooks \subseteq Targets("help")
          BY OwnedFacts, FilterFacts DEF Targets, Ingress
        <4>. QED
          BY <4>1, <4>2, FilterFacts DEF Ingress, HelperTable
      <3>3. /\ Deletes(DoAll("help", "delete", attached), "help")
            /\ \A o : Do("help", "delete", o) \in ToSet(DoAll("help", "delete", attached)) <=> o \in ToSet(attached)
        <4>1. ToSet(attached) \subseteq Targets(c)
          BY <2>1, <3>1, <3>2
        <4>. QED
          BY <2>1, <3>1, <4>1, AllDeletes
      <3>4. H = DoAll("help", "delete", attached)
        BY <2>1 DEF When
      <3>. HIDE DEF H
      <3>5. \A o \in Removable(c, e) : Del(c, o) \notin ToSet(H)
        <4>1. TAKE o \in Removable(c, e)
        <4>2. o \notin Hooks /\ (o = Ingress => HelperTable \notin Hooks)
          BY <2>1, <3>2
        <4>. QED
          BY <2>1, <3>1, <3>3, <3>4, <4>2 DEF Del
      <3>6. \A o \in ToSet(attached) : Del(c, o) \in ToSet(H)
        BY <2>1, <3>1, <3>2, <3>3, <3>4 DEF Del
      <3>. QED
        BY <2>1, <3>3, <3>4, <3>5, <3>6 DEF Deletes
    <2>2. CASE c # "help"
      BY <2>2, Empty DEF When
    <2>. QED
      BY <2>1, <2>2
  <1>5. D \in Seq(Commands) /\ (\A x \in ToSet(D) : x.comp = c /\ Typed(x) /\ x.op = "detach") /\ (c = "help" => ToSet(D) = {Detaches})
    <2>1. CASE c = "help"
      <3>1. PICK x : x = Do("help", "detach", Nowhere)
        OBVIOUS
      <3>2. x \in Commands /\ Typed(x) /\ x.comp = "help" /\ x.op = "detach"
        BY <3>1, SingleTypes
      <3>3. ToSet(<<x>>) = {x} /\ <<x>> \in Seq(Commands)
        BY <3>2, One
      <3>. QED
        BY <2>1, <3>1, <3>2, <3>3 DEF When, Detaches
    <2>2. CASE c # "help"
      BY <2>2, Empty DEF When
    <2>. QED
      BY <2>1, <2>2
  <1>6. CloseOf(c) = A \o B \o S
    <2>1. CASE c = "help"
      BY <1>1, <2>1 DEF CloseOf, HelperClose, CloseTC, When
    <2>2. CASE c # "help"
      <3>1. A = <<>> /\ A \o B = B
        BY <1>2, <2>2 DEF When
      <3>. QED
        BY <1>1, <2>2, <3>1 DEF CloseOf, DesyncClose, ServerClose, Components
    <2>. QED
      BY <2>1, <2>2
  <1>7. c = "help" => Do("help", "delete", "QUIC") \in ToSet(B)
    BY HelperClean
  <1>. HIDE DEF B, S, H, D
  <1>8. A \in Seq(Commands) /\ ToSet(A) = ToSet(H) \cup ToSet(D)
    BY <1>4, <1>5, Joined
  <1>. HIDE DEF A
  <1>. DEFINE X == A \o B
  <1>9. X \in Seq(Commands) /\ ToSet(X) = ToSet(A) \cup ToSet(B)
    BY <1>2, <1>8, Joined
  <1>10. \A x \in ToSet(X) : x.comp = c /\ Typed(x) /\ x.op \in {"delete", "detach"}
    BY <1>2, <1>4, <1>5, <1>8, <1>9
  <1>s. Shuts(c).op = "shut"
    BY DEF Shuts, Do
  <1>11. Shuts(c) \notin ToSet(X) /\ Shuts(c) \notin ToSet(A)
    BY <1>9, <1>10, <1>s
  <1>12. Sweeps(X, c, e)
    <2>1. \A o \in Removable(c, e) : Del(c, o) \notin ToSet(A)
      BY <1>4, <1>5, <1>8, DelIs
    <2>. QED
      BY <1>2, <1>8, <1>11, <2>1, SweepsJoin
  <1>13. c = "help" => After(X, Detaches, Do("help", "delete", "QUIC"))
    <2>1. HAVE c = "help"
    <2>2. Detaches \notin ToSet(B)
      <3>1. Detaches.op = "detach"
        BY DEF Detaches, Do
      <3>. QED
        BY <1>2, <3>1
    <2>3. After(B, Detaches, Do("help", "delete", "QUIC"))
      BY <2>2 DEF After, ToSet
    <2>. QED
      BY <1>2, <1>7, <1>8, <2>1, <2>3, JoinAfter
  <1>. HIDE DEF X
  <1>14. X \o S \in Seq(Commands) /\ ToSet(X \o S) = ToSet(X) \cup ToSet(S)
    BY <1>3, <1>9, Joined
  <1>15. Sweeps(X \o S, c, e)
    BY <1>3, <1>9, <1>12, SweepsJoin
  <1>16. \A x \in ToSet(X) : Before(X \o S, x, Shuts(c))
    BY <1>3, <1>9, <1>11, BeforeLast
  <1>17. c = "help" => After(X \o S, Detaches, Do("help", "delete", "QUIC"))
    <2>1. HAVE c = "help"
    <2>2. Detaches \notin ToSet(S)
      <3>1. Detaches.op = "detach"
        BY DEF Detaches, Do
      <3>. QED
        BY <1>3, <3>1
    <2>3. After(S, Detaches, Do("help", "delete", "QUIC"))
      BY <2>2 DEF After, ToSet
    <2>. QED
      BY <1>3, <1>9, <1>13, <2>1, <2>3, JoinAfter
  <1>18. CloseOf(c) = X \o S
    BY <1>6 DEF X
  <1>19. \A x \in ToSet(X \o S) : x.comp = c /\ Typed(x) /\ x.op \in {"delete", "detach", "shut"}
    BY <1>3, <1>10, <1>14
  <1>. HIDE DEF Detaches
  <1>. QED
    BY <1>1, <1>3, <1>4, <1>5, <1>7, <1>8, <1>9, <1>14, <1>15, <1>16, <1>17, <1>18, <1>19 DEF Closes

(* A part of a list that holds all the commands of a component. *)
PartOf(B, L, c) ==
    /\ B \in Seq(Commands) /\ L \in Seq(Commands)
    /\ ToSet(B) \subseteq ToSet(L) /\ \A x \in ToSet(L) : x.comp = c => x \in ToSet(B)
    /\ \A x, y : y.comp = c /\ Before(B, x, y) => Before(L, x, y)
    /\ \A x, y : x.comp = c /\ After(B, x, y) => After(L, x, y)

(* Orders in parts of a list. *)
LEMMA BeforeNone ==
    ASSUME NEW s \in Seq(Commands), NEW t \in Seq(Commands), NEW x, NEW y, Before(s, x, y), y \notin ToSet(t)
    PROVE  Before(s \o t, x, y)
  <1>1. CASE y \in ToSet(s)
    <2>1. x \in ToSet(s)
      BY <1>1 DEF Before, ToSet
    <2>. QED
      BY <2>1, JoinBefore
  <1>2. CASE y \notin ToSet(s)
    <2>1. y \notin ToSet(s \o t)
      BY <1>2, Joined
    <2>. QED
      BY <2>1 DEF Before, ToSet
  <1>. QED
    BY <1>1, <1>2

LEMMA PartSelf == ASSUME NEW B \in Seq(Commands), NEW c PROVE PartOf(B, B, c)
  BY DEF PartOf

LEMMA PartJoin ==
    ASSUME NEW B, NEW L, NEW c, PartOf(B, L, c), NEW A \in Seq(Commands), \A x \in ToSet(A) : x.comp # c
    PROVE  PartOf(B, A \o L, c) /\ PartOf(B, L \o A, c)
  <1>1. L \in Seq(Commands) /\ B \in Seq(Commands)
    BY DEF PartOf
  <1>2. /\ A \o L \in Seq(Commands) /\ ToSet(A \o L) = ToSet(A) \cup ToSet(L)
        /\ L \o A \in Seq(Commands) /\ ToSet(L \o A) = ToSet(L) \cup ToSet(A)
    BY <1>1, Joined
  <1>3. ASSUME NEW x, NEW y, y.comp = c, Before(B, x, y) PROVE Before(A \o L, x, y) /\ Before(L \o A, x, y)
    <2>1. Before(L, x, y) /\ y \notin ToSet(A)
      BY <1>3 DEF PartOf
    <2>2. Before(A \o L, x, y)
      BY <1>1, <2>1, JoinBefore
    <2>3. Before(A, x, y)
      BY <2>1 DEF Before, ToSet
    <2>4. Before(L \o A, x, y)
      BY <1>1, <2>1, <2>3, BeforeNone
    <2>. QED
      BY <2>2, <2>4
  <1>4. ASSUME NEW x, NEW y, x.comp = c, After(B, x, y) PROVE After(A \o L, x, y) /\ After(L \o A, x, y)
    <2>1. After(L, x, y) /\ x \notin ToSet(A)
      BY <1>4 DEF PartOf
    <2>2. After(A, x, y)
      BY <2>1 DEF After, ToSet
    <2>. QED
      BY <1>1, <2>1, <2>2, JoinAfter
  <1>. QED
    BY <1>1, <1>2, <1>3, <1>4 DEF PartOf

(* Concatenation is associative. *)
LEMMA JoinAssoc ==
    ASSUME NEW A \in Seq(Commands), NEW B \in Seq(Commands), NEW C \in Seq(Commands)
    PROVE  A \o (B \o C) = (A \o B) \o C
  <1>1. B \o C \in Seq(Commands) /\ A \o B \in Seq(Commands)
    BY Joined
  <1>2. A \o (B \o C) \in Seq(Commands) /\ (A \o B) \o C \in Seq(Commands)
    BY <1>1, Joined
  <1>3. /\ Len(A \o (B \o C)) = Len(A) + (Len(B) + Len(C)) /\ Len((A \o B) \o C) = (Len(A) + Len(B)) + Len(C)
    BY <1>1
  <1>4. Len(A) \in Nat /\ Len(B) \in Nat /\ Len(C) \in Nat
    OBVIOUS
  <1>5. ASSUME NEW i \in 1..Len(A \o (B \o C)) PROVE (A \o (B \o C))[i] = ((A \o B) \o C)[i]
    <2>1. CASE i <= Len(A)
      BY <1>1, <1>3, <1>4, <1>5, <2>1
    <2>2. CASE i > Len(A) /\ i <= Len(A) + Len(B)
      BY <1>1, <1>3, <1>4, <1>5, <2>2
    <2>3. CASE i > Len(A) + Len(B)
      BY <1>1, <1>3, <1>4, <1>5, <2>3
    <2>. QED
      BY <1>4, <2>1, <2>2, <2>3
  <1>. QED
    BY <1>2, <1>3, <1>4, <1>5, SameSeq

(* The command that gives a component its new configuration. *)
LEMMA AdoptList ==
    ASSUME NEW c \in Components
    PROVE  /\ Adopt(c) \in Seq(Commands) /\ ToSet(Adopt(c)) = {Adopts(c)} /\ \A p : InOrder(p, Adopt(c))
           /\ \A x \in ToSet(Adopt(c)) : x.comp = c /\ Typed(x) /\ x.op = "adopt"
  <1>1. PICK x : x = Do(c, "adopt", Nowhere)
    OBVIOUS
  <1>2. x \in Commands /\ Typed(x) /\ x.comp = c /\ x.op = "adopt"
    BY <1>1, SingleTypes
  <1>3. ToSet(<<x>>) = {x} /\ <<x>> \in Seq(Commands) /\ \A p : InOrder(p, <<x>>)
    BY <1>2, One, OneOrder
  <1>. QED
    BY <1>1, <1>2, <1>3 DEF Adopt, Adopts

(* What a list plans for a component: to install it for d.  If it deletes, what it deletes is what e had. *)
Plans(L, c, d, e) ==
    /\ Adopts(c) \in ToSet(L)
    /\ \A x : x \in Cmds(c, d) <=> x \in ToSet(L) /\ x.comp = c /\ x.op \in PutOps
    /\ \A x \in ToSet(L) : x.comp = c => /\ x.op \notin {"qdisc", "filter", "boot", "abort"}
                                         /\ x.op \in {"tcx", "nowan"} => ByBPF(c, d)
                                         /\ x.op \in PutOps \cup {"fail", "open"} => Enabled(c, d) /\ ~ByBPF(c, d)
    /\ ByBPF(c, d) => \E x \in ToSet(L) : x.op \in {"tcx", "nowan"}
    /\ (\E x \in ToSet(L) : x.comp = c /\ x.op = "delete") => Sweeps(L, c, e)
    /\ Enabled(c, d) => ByBPF(c, d) \/ \E x \in ToSet(L) : x.comp = c /\ x.op = "delete"

(* A component that is not closed; a list that unhooks the helper. *)
Brief(L, c) == \A x \in ToSet(L) : x.comp = c => x.op \notin {"shut", "detach"}
Unhooks(L) ==
    /\ Detaches \in ToSet(L) /\ Before(L, Detaches, Shuts("help"))
    /\ \A o \in ToSet(attached) : Del("help", o) \in ToSet(L) /\ Before(L, Del("help", o), Shuts("help"))
    /\ After(L, Detaches, Do("help", "delete", "QUIC")) /\ Do("help", "delete", "QUIC") \in ToSet(L)

(* What a part of the list says of a component, the list says. *)
LEMMA PartSweeps ==
    ASSUME NEW B, NEW L, NEW c, PartOf(B, L, c), NEW e, Sweeps(B, c, e)
    PROVE  Sweeps(L, c, e)
  <1>1. Shuts(c).comp = c
    BY DEF Shuts, Do
  <1>. QED
    BY <1>1, DelIs DEF PartOf, Sweeps

LEMMA PartPlans ==
    ASSUME NEW B, NEW L, NEW c, PartOf(B, L, c), NEW d, NEW e
    PROVE  /\ Plans(B, c, d, e) => Plans(L, c, d, e)
           /\ Brief(B, c) => Brief(L, c)
           /\ c = "help" /\ Unhooks(B) => Unhooks(L)
  <1>1. Plans(B, c, d, e) => Plans(L, c, d, e)
    BY PartSweeps, OpsApart DEF Plans, PartOf
  <1>2. Brief(B, c) => Brief(L, c)
    BY DEF Brief, PartOf
  <1>3. ASSUME c = "help", Unhooks(B) PROVE Unhooks(L)
    <2>1. Shuts("help").comp = "help" /\ Detaches.comp = "help" /\ Do("help", "delete", "QUIC").comp = "help"
      BY DEF Shuts, Detaches, Do
    <2>. QED
      BY <1>3, <2>1 DEF Unhooks, PartOf
  <1>. QED
    BY <1>1, <1>2, <1>3

(* runRoot. *)
StartPart(c, d) ==
    IF c = "des" /\ ~DesyncWanted(d) THEN <<>> ELSE Adopt(c) \o StartOf(c, d)

(* It plans for the component. *)
LEMMA StartParts ==
    ASSUME NEW c \in Components, NEW d \in Configs, type \in Types
    PROVE  /\ Segment(StartPart(c, d), c) /\ InOrder("starting", StartPart(c, d)) /\ Brief(StartPart(c, d), c)
           /\ \A x \in ToSet(StartPart(c, d)) : x.op \notin {"boot", "abort"}
           /\ IF c = "des" /\ ~DesyncWanted(d) THEN StartPart(c, d) = <<>> ELSE Plans(StartPart(c, d), c, d, d)
  <1>1. CASE c = "des" /\ ~DesyncWanted(d)
    <2>1. StartPart(c, d) = <<>>
      BY <1>1 DEF StartPart
    <2>2. ToSet(<<>>) = {} /\ <<>> \in Seq(Commands) /\ DOMAIN <<>> = {}
      BY Empty
    <2>. QED
      BY <1>1, <2>1, <2>2 DEF Segment, InOrder, Brief
  <1>2. CASE ~(c = "des" /\ ~DesyncWanted(d))
    <2>. DEFINE A == Adopt(c)
                S == StartOf(c, d)
    <2>1. /\ A \in Seq(Commands) /\ ToSet(A) = {Adopts(c)} /\ \A p : InOrder(p, A)
          /\ \A x \in ToSet(A) : x.comp = c /\ Typed(x) /\ x.op = "adopt"
      BY AdoptList
    <2>2. Starts(S, c, d)
      BY StartStarts
    <2>3. StartPart(c, d) = A \o S
      BY <1>2 DEF StartPart
    <2>. HIDE DEF A, S
    <2>4. /\ S \in Seq(Commands) /\ \A p : InOrder(p, S)
          /\ \A x \in ToSet(S) : /\ x.comp = c /\ Typed(x) /\ x.op \in InstallOps \cup {"delete", "watch", "open"}
                                 /\ x.op \notin {"qdisc", "filter"} /\ (x.op \in {"tcx", "nowan"} => ByBPF(c, d))
          /\ \A x : x \in Cmds(c, d) <=> x \in ToSet(S) /\ x.op \in PutOps
          /\ Enabled(c, d) => IF ByBPF(c, d) THEN \E x \in ToSet(S) : x.op \in {"tcx", "nowan"}
                              ELSE Sweeps(S, c, d) /\ \E x \in ToSet(S) : x.op = "delete"
          /\ ByBPF(c, d) => \A x \in ToSet(S) : x.op \in {"tcx", "nowan"}
          /\ ~Enabled(c, d) => S = <<>>
      BY <2>2 DEF Starts
    <2>5. A \o S \in Seq(Commands) /\ ToSet(A \o S) = ToSet(A) \cup ToSet(S)
      BY <2>1, <2>4, Joined
    <2>6. InOrder("starting", A \o S)
      <3>1. \A x \in ToSet(A), y \in ToSet(S) : Follows("starting", x, y)
        BY <2>1, <2>4, Calm, OpsApart
      <3>. QED
        BY <2>1, <2>4, <3>1, JoinOrder
    <2>7. Segment(A \o S, c) /\ Brief(A \o S, c) /\ \A x \in ToSet(A \o S) : x.op \notin {"boot", "abort"}
      BY <2>1, <2>4, <2>5, OpsApart DEF Segment, Brief
    <2>8. ByBPF(c, d) => Enabled(c, d)
      BY DEF ByBPF, Enabled
    <2>9. (\E x \in ToSet(S) : x.op = "delete") => Sweeps(S, c, d)
      BY <2>4, <2>8, Empty
    <2>10. Sweeps(S, c, d) => Sweeps(A \o S, c, d)
      <3>1. Shuts(c) \notin ToSet(A) /\ \A o : Del(c, o) \notin ToSet(A)
        <4>1. Shuts(c).op = "shut"
          BY DEF Shuts, Do
        <4>. QED
          BY <2>1, <4>1, DelIs
      <3>. QED
        BY <2>1, <2>4, <3>1, SweepsJoin
    <2>12. \A x \in ToSet(S) : x.op \in PutOps \cup {"fail", "open"} => Enabled(c, d) /\ ~ByBPF(c, d)
      BY <2>4, Empty, OpsApart
    <2>11. Plans(A \o S, c, d, d)
      BY <2>1, <2>4, <2>5, <2>8, <2>9, <2>10, <2>12, OpsApart DEF Plans
    <2>. QED
      BY <1>2, <2>3, <2>6, <2>7, <2>11
  <1>. QED
    BY <1>1, <1>2

(* Three parts in the order of their components are a list in order. *)
LEMMA ThreeParts ==
    ASSUME NEW p, NEW a \in Components, NEW b \in Components, NEW c \in Components, a # b, b # c, a # c,
           NEW A, NEW B, NEW C, Segment(A, a), Segment(B, b), Segment(C, c),
           InOrder(p, A), InOrder(p, B), InOrder(p, C), Place(p, a) <= Place(p, b),
           Place(p, b) <= Place(p, c), Place(p, a) <= Place(p, c)
    PROVE  /\ A \o B \o C \in Seq(Commands) /\ InOrder(p, A \o B \o C)
           /\ \A x \in ToSet(A \o B \o C) : Typed(x)
           /\ ToSet(A \o B \o C) = ToSet(A) \cup ToSet(B) \cup ToSet(C)
           /\ PartOf(A, A \o B \o C, a) /\ PartOf(B, A \o B \o C, b) /\ PartOf(C, A \o B \o C, c)
  <1>1. /\ A \in Seq(Commands) /\ B \in Seq(Commands) /\ C \in Seq(Commands)
        /\ \A x \in ToSet(A) : x.comp = a /\ Typed(x)
        /\ \A x \in ToSet(B) : x.comp = b /\ Typed(x)
        /\ \A x \in ToSet(C) : x.comp = c /\ Typed(x)
    BY DEF Segment
  <1>. DEFINE X == A \o B
  <1>2. X \in Seq(Commands) /\ ToSet(X) = ToSet(A) \cup ToSet(B)
    BY <1>1, Joined
  <1>3. InOrder(p, X)
    <2>1. \A x \in ToSet(A), y \in ToSet(B) : Follows(p, x, y)
      BY <1>1, Apart
    <2>. QED
      BY <1>1, <2>1, JoinOrder
  <1>4. PartOf(A, X, a) /\ PartOf(B, X, b)
    BY <1>1, PartSelf, PartJoin
  <1>. HIDE DEF X
  <1>5. X \o C \in Seq(Commands) /\ ToSet(X \o C) = ToSet(X) \cup ToSet(C)
    BY <1>1, <1>2, Joined
  <1>6. InOrder(p, X \o C)
    <2>1. \A x \in ToSet(X), y \in ToSet(C) : Follows(p, x, y)
      BY <1>1, <1>2, Apart
    <2>. QED
      BY <1>1, <1>2, <1>3, <2>1, JoinOrder
  <1>7. PartOf(A, X \o C, a) /\ PartOf(B, X \o C, b)
    BY <1>1, <1>4, PartJoin
  <1>8. PartOf(C, X \o C, c)
    <2>1. \A x \in ToSet(X) : x.comp # c
      BY <1>1, <1>2
    <2>. QED
      BY <1>1, <1>2, <2>1, PartSelf, PartJoin
  <1>. QED
    BY <1>1, <1>2, <1>5, <1>6, <1>7, <1>8 DEF X

(* runRoot's list plans for every component, and desync only if it is
   wanted. *)
LEMMA StartFacts ==
    ASSUME NEW d \in Configs, type \in Types
    PROVE  /\ StartSystem(d) \in Seq(Commands) /\ InOrder("starting", StartSystem(d))
           /\ \A x \in ToSet(StartSystem(d)) : Typed(x) /\ x.op \notin {"boot", "abort", "shut", "detach"}
           /\ \A c \in Components : \/ Plans(StartSystem(d), c, d, d)
                                    \/ c = "des" /\ \A x \in ToSet(StartSystem(d)) : x.comp # "des"
           /\ StartSystem(d) # <<>> /\ Head(StartSystem(d)) = Adopts("help")
  <1>. DEFINE A == StartPart("help", d)
              B == StartPart("des", d)
              C == StartPart("srv", d)
              L == A \o B \o C
  <1>1. /\ Segment(A, "help") /\ InOrder("starting", A) /\ Brief(A, "help") /\ Plans(A, "help", d, d)
        /\ \A x \in ToSet(A) : x.op \notin {"boot", "abort"}
    BY StartParts DEF Components
  <1>2. /\ Segment(B, "des") /\ InOrder("starting", B) /\ Brief(B, "des") /\ (B = <<>> \/ Plans(B, "des", d, d))
        /\ \A x \in ToSet(B) : x.op \notin {"boot", "abort"}
    BY StartParts DEF Components
  <1>3. /\ Segment(C, "srv") /\ InOrder("starting", C) /\ Brief(C, "srv") /\ Plans(C, "srv", d, d)
        /\ \A x \in ToSet(C) : x.op \notin {"boot", "abort"}
    BY StartParts DEF Components
  <1>4. StartSystem(d) = L
    <2>1. /\ Adopt("srv") \in Seq(Commands) /\ ServerStart(d) \in Seq(Commands) /\ C = Adopt("srv") \o ServerStart(d)
      <3>1. ServerStart(d) = StartOf("srv", d) /\ Starts(StartOf("srv", d), "srv", d)
        BY StartStarts DEF StartOf, Components
      <3>. QED
        BY <3>1, AdoptList DEF Starts, StartPart, Components
    <2>2. A = Adopt("help") \o HelperStart(d) /\ B = When(DesyncWanted(d), Adopt("des") \o DesyncStart(d))
      BY DEF StartPart, StartOf, When
    <2>3. StartSystem(d) = A \o B \o Adopt("srv") \o ServerStart(d)
      BY <2>2 DEF StartSystem
    <2>4. A \in Seq(Commands) /\ B \in Seq(Commands)
      BY <1>1, <1>2 DEF Segment
    <2>. HIDE DEF A, B, C
    <2>5. A \o B \in Seq(Commands)
      BY <2>4, Joined
    <2>6. (A \o B) \o (Adopt("srv") \o ServerStart(d)) = ((A \o B) \o Adopt("srv")) \o ServerStart(d)
      BY <2>1, <2>5, JoinAssoc
    <2>. QED
      BY <2>1, <2>3, <2>6
  <1>5. A # <<>> /\ Head(A) = Adopts("help") /\ A \in Seq(Commands)
    <2>1. A = Adopt("help") \o HelperStart(d)
      BY DEF StartPart, StartOf
    <2>2. Adopt("help") \in Seq(Commands) /\ Adopt("help") # <<>> /\ Head(Adopt("help")) = Adopts("help")
      BY AdoptList, SingleTypes, One DEF Adopt, Adopts, Components
    <2>3. HelperStart(d) \in Seq(Commands)
      BY StartStarts DEF Starts, StartOf, Components
    <2>4. A \in Seq(Commands)
      BY <1>1 DEF Segment
    <2>. HIDE DEF A
    <2>. QED
      BY <2>1, <2>2, <2>3, <2>4, Joined
  <1>. HIDE DEF A, B, C
  <1>6. /\ Place("starting", "help") <= Place("starting", "des") /\ Place("starting", "des") <= Place("starting", "srv")
        /\ Place("starting", "help") <= Place("starting", "srv")
    BY DEF Place
  <1>7. /\ L \in Seq(Commands) /\ InOrder("starting", L) /\ \A x \in ToSet(L) : Typed(x)
        /\ ToSet(L) = ToSet(A) \cup ToSet(B) \cup ToSet(C)
        /\ PartOf(A, L, "help") /\ PartOf(B, L, "des") /\ PartOf(C, L, "srv")
    BY <1>1, <1>2, <1>3, <1>6, ThreeParts DEF Components
  <1>8. Plans(L, "help", d, d) /\ Plans(L, "srv", d, d) /\ (B # <<>> => Plans(L, "des", d, d))
    BY <1>1, <1>2, <1>3, <1>7, PartPlans
  <1>9. B = <<>> => \A x \in ToSet(L) : x.comp # "des"
    BY <1>7, Empty DEF PartOf
  <1>10. \A x \in ToSet(L) : x.op \notin {"boot", "abort", "shut", "detach"}
    BY <1>1, <1>2, <1>3, <1>7 DEF Brief, Segment
  <1>11. L # <<>> /\ Head(L) = Adopts("help")
    <2>1. A \o B \in Seq(Commands) /\ A \o B # <<>> /\ Head(A \o B) = Head(A) /\ C \in Seq(Commands)
      BY <1>2, <1>3, <1>5, Joined DEF Segment
    <2>. QED
      BY <1>5, <2>1, Joined
  <1>. HIDE DEF L
  <1>. QED
    BY <1>4, <1>7, <1>8, <1>9, <1>10, <1>11 DEF Components

(* RestartSystem: a component is closed, started again and adopted.  A TPROXY server is not closed first. *)
Closing(c) == c # "srv" \/ type \in {"REDIRECT", "NFQUEUE"}
RestartOf(c, d) == When(Closing(c), CloseOf(c)) \o StartOf(c, d) \o Adopt(c)
RestartPart(c, d) == IF c = "des" /\ "des" \notin made THEN <<>> ELSE RestartOf(c, d)

(* The part of a component in RestartSystem plans for it; then the whole. *)
LEMMA RestartPlans ==
    ASSUME NEW c \in Components, NEW d \in Configs, type \in Types, attached \in Seq(Hooks)
    PROVE  /\ Segment(RestartOf(c, d), c) /\ InOrder("restarting", RestartOf(c, d))
           /\ \A x \in ToSet(RestartOf(c, d)) : x.op \notin {"boot", "abort"}
           /\ Plans(RestartOf(c, d), c, d, cfg[c])
           /\ c = "help" => Unhooks(RestartOf(c, d))
  <1>. DEFINE K == When(Closing(c), CloseOf(c))
              S == StartOf(c, d)
              A == Adopt(c)
  <1>1. PICK e : e = cfg[c]
    OBVIOUS
  <1>2. /\ K \in Seq(Commands) /\ \A x \in ToSet(K) : x.comp = c /\ Typed(x) /\ x.op \in {"delete", "detach", "shut"}
        /\ IF Closing(c) THEN Sweeps(K, c, e) ELSE K = <<>>
        /\ c = "help" => Unhooks(K)
    <2>1. CASE Closing(c)
      <3>1. Closes(CloseOf(c), c) /\ K = CloseOf(c)
        BY <2>1, CloseCloses DEF When
      <3>. HIDE DEF K
      <3>. QED
        BY <1>1, <2>1, <3>1 DEF Closes, Unhooks
    <2>2. CASE ~Closing(c)
      <3>1. K = <<>> /\ c # "help"
        BY <2>2 DEF When, Closing
      <3>. HIDE DEF K
      <3>. QED
        BY <2>2, <3>1, Empty
    <2>. QED
      BY <2>1, <2>2
  <1>3. Starts(S, c, d)
    BY StartStarts
  <1>4. /\ A \in Seq(Commands) /\ ToSet(A) = {Adopts(c)} /\ \A p : InOrder(p, A)
        /\ \A x \in ToSet(A) : x.comp = c /\ Typed(x) /\ x.op = "adopt"
    BY AdoptList
  <1>5. RestartOf(c, d) = K \o S \o A
    BY DEF RestartOf
  <1>. HIDE DEF K, S, A
  <1>6. /\ S \in Seq(Commands) /\ \A p : InOrder(p, S)
        /\ \A x \in ToSet(S) : /\ x.comp = c /\ Typed(x) /\ x.op \in InstallOps \cup {"delete", "watch", "open"}
                               /\ x.op \notin {"qdisc", "filter"} /\ (x.op \in {"tcx", "nowan"} => ByBPF(c, d))
        /\ \A x : x \in Cmds(c, d) <=> x \in ToSet(S) /\ x.op \in PutOps
        /\ Enabled(c, d) => IF ByBPF(c, d) THEN \E x \in ToSet(S) : x.op \in {"tcx", "nowan"}
                            ELSE Sweeps(S, c, d) /\ \E x \in ToSet(S) : x.op = "delete"
        /\ ByBPF(c, d) => \A x \in ToSet(S) : x.op \in {"tcx", "nowan"}
        /\ ~Enabled(c, d) => S = <<>>
    BY <1>3 DEF Starts
  <1>7. \A p : InOrder(p, K)
    BY <1>2, CalmOrder, OpsApart
  <1>. DEFINE X == K \o S
  <1>8. X \in Seq(Commands) /\ ToSet(X) = ToSet(K) \cup ToSet(S)
    BY <1>2, <1>6, Joined
  <1>9. InOrder("restarting", X)
    <2>1. \A x \in ToSet(K), y \in ToSet(S) : Follows("restarting", x, y)
      BY <1>2, <1>6, Calm, OpsApart
    <2>. QED
      BY <1>2, <1>6, <1>7, <2>1, JoinOrder
  <1>10. (\E x \in ToSet(X) : x.op = "delete") => Sweeps(X, c, e)
    <2>1. CASE Closing(c)
      BY <1>2, <1>6, <2>1, SweepsJoin
    <2>2. CASE ~Closing(c)
      <3>1. K = <<>> /\ c = "srv" /\ ToSet(K) = {}
        BY <1>2, <2>2, Empty DEF Closing
      <3>2. ASSUME NEW x \in ToSet(X), x.op = "delete" PROVE Sweeps(X, c, e)
        <4>1. Enabled(c, d) /\ ~ByBPF(c, d)
          BY <1>6, <1>8, <3>1, <3>2, Empty DEF ByBPF
        <4>2. Sweeps(S, c, d) /\ Removable(c, d) = Removable(c, e)
          BY <1>6, <3>1, <4>1, RemovableIs
        <4>3. Sweeps(S, c, e)
          BY <4>2 DEF Sweeps
        <4>. QED
          BY <1>2, <1>6, <3>1, <4>3, SweepsJoin
      <3>. QED
        BY <3>2
    <2>. QED
      BY <2>1, <2>2
  <1>11. c = "help" => Unhooks(X)
    <2>1. HAVE c = "help"
    <2>2. Detaches \notin ToSet(S)
      <3>1. Detaches.op = "detach"
        BY DEF Detaches, Do
      <3>. QED
        BY <1>6, <3>1, OpsApart
    <2>3. After(S, Detaches, Do("help", "delete", "QUIC"))
      BY <2>2 DEF After, ToSet
    <2>4. \A x \in ToSet(K) : \A y : Before(K, x, y) => Before(X, x, y)
      BY <1>2, <1>6, JoinBefore
    <2>5. After(X, Detaches, Do("help", "delete", "QUIC"))
      BY <1>2, <1>6, <2>1, <2>3, JoinAfter DEF Unhooks
    <2>. QED
      BY <1>2, <1>8, <2>1, <2>4, <2>5 DEF Unhooks
  <1>12. /\ \A x \in ToSet(X) : /\ x.comp = c /\ Typed(x) /\ x.op \notin {"boot", "abort", "qdisc", "filter", "adopt"}
                                /\ x.op \in {"tcx", "nowan"} => ByBPF(c, d)
                                /\ x.op \in PutOps \cup {"fail", "open"} => Enabled(c, d) /\ ~ByBPF(c, d)
         /\ \A x : x \in Cmds(c, d) <=> x \in ToSet(X) /\ x.op \in PutOps
    <2>1. \A x \in ToSet(S) : x.op \in PutOps \cup {"fail", "open"} => Enabled(c, d) /\ ~ByBPF(c, d)
      BY <1>6, Empty, OpsApart
    <2>2. \A x \in ToSet(K) : x.op \notin PutOps \cup {"fail", "open", "boot", "abort", "qdisc", "filter", "adopt", "tcx", "nowan"}
      BY <1>2, OpsApart
    <2>3. \A x \in ToSet(S) : x.op \notin {"boot", "abort", "qdisc", "filter", "adopt"}
      BY <1>6, OpsApart
    <2>. QED
      BY <1>2, <1>6, <1>8, <2>1, <2>2, <2>3
  <1>13. Enabled(c, d) => ByBPF(c, d) \/ \E x \in ToSet(X) : x.op = "delete"
    BY <1>6, <1>8
  <1>14. ByBPF(c, d) => \E x \in ToSet(X) : x.op \in {"tcx", "nowan"}
    <2>1. ByBPF(c, d) => Enabled(c, d)
      BY DEF ByBPF, Enabled
    <2>. QED
      BY <1>6, <1>8, <2>1
  <1>. HIDE DEF X
  <1>15. X \o A \in Seq(Commands) /\ ToSet(X \o A) = ToSet(X) \cup ToSet(A)
    BY <1>4, <1>8, Joined
  <1>16. InOrder("restarting", X \o A)
    <2>1. ASSUME NEW x \in ToSet(X), NEW y \in ToSet(A) PROVE Follows("restarting", x, y)
      <3>1. x.comp = c /\ y.comp = c /\ x.op # "adopt" /\ y.op = "adopt"
        BY <1>4, <1>12
      <3>. QED
        BY <3>1, AtLast
    <2>. QED
      BY <1>4, <1>8, <1>9, <2>1, JoinOrder
  <1>17. (\E x \in ToSet(X \o A) : x.comp = c /\ x.op = "delete") => Sweeps(X \o A, c, e)
    BY <1>4, <1>8, <1>10, <1>15, SweepsJoin
  <1>18. Plans(X \o A, c, d, e)
    BY <1>4, <1>12, <1>13, <1>14, <1>15, <1>17, OpsApart DEF Plans
  <1>19. c = "help" => Unhooks(X \o A)
    <2>1. HAVE c = "help"
    <2>2. Detaches \notin ToSet(A)
      <3>1. Detaches.op = "detach"
        BY DEF Detaches, Do
      <3>. QED
        BY <1>4, <3>1
    <2>3. After(A, Detaches, Do("help", "delete", "QUIC"))
      BY <2>2 DEF After, ToSet
    <2>4. \A x \in ToSet(X) : \A y : Before(X, x, y) => Before(X \o A, x, y)
      BY <1>4, <1>8, JoinBefore
    <2>5. After(X \o A, Detaches, Do("help", "delete", "QUIC"))
      BY <1>4, <1>8, <1>11, <2>1, <2>3, JoinAfter DEF Unhooks
    <2>. QED
      BY <1>11, <1>15, <2>1, <2>4, <2>5 DEF Unhooks
  <1>20. RestartOf(c, d) = X \o A
    BY <1>5 DEF X
  <1>. QED
    BY <1>1, <1>4, <1>12, <1>15, <1>16, <1>18, <1>19, <1>20 DEF Segment

LEMMA RestartFacts ==
    ASSUME NEW d \in Configs, type \in Types, attached \in Seq(Hooks), "help" \in made
    PROVE  /\ RestartSystem(d) \in Seq(Commands) /\ InOrder("restarting", RestartSystem(d))
           /\ \A x \in ToSet(RestartSystem(d)) : Typed(x) /\ x.op \notin {"boot", "abort"}
           /\ \A c \in Components : IF c = "des" /\ "des" \notin made THEN \A x \in ToSet(RestartSystem(d)) : x.comp # "des"
                                    ELSE Plans(RestartSystem(d), c, d, cfg[c])
           /\ Unhooks(RestartSystem(d))
           /\ RestartSystem(d) # <<>> /\ Head(RestartSystem(d)).comp = "srv"
  <1>. DEFINE A == RestartPart("srv", d)
              B == RestartPart("des", d)
              C == RestartPart("help", d)
              L == A \o B \o C
  <1>1. /\ Segment(A, "srv") /\ InOrder("restarting", A) /\ Plans(A, "srv", d, cfg["srv"])
        /\ \A x \in ToSet(A) : x.op \notin {"boot", "abort"}
    BY RestartPlans DEF Components, RestartPart
  <1>2. /\ Segment(B, "des") /\ InOrder("restarting", B)
        /\ IF "des" \in made THEN Plans(B, "des", d, cfg["des"]) ELSE B = <<>>
        /\ \A x \in ToSet(B) : x.op \notin {"boot", "abort"}
    <2>1. CASE "des" \in made
      BY <2>1, RestartPlans DEF Components, RestartPart
    <2>2. CASE "des" \notin made
      <3>1. B = <<>> /\ ToSet(<<>>) = {} /\ <<>> \in Seq(Commands) /\ DOMAIN <<>> = {}
        BY <2>2, Empty DEF RestartPart
      <3>. QED
        BY <2>2, <3>1 DEF Segment, InOrder
    <2>. QED
      BY <2>1, <2>2
  <1>3. /\ Segment(C, "help") /\ InOrder("restarting", C) /\ Plans(C, "help", d, cfg["help"]) /\ Unhooks(C)
        /\ \A x \in ToSet(C) : x.op \notin {"boot", "abort"}
    BY RestartPlans DEF Components, RestartPart
  <1>4. RestartSystem(d) = L
    <2>1. A = ServerRestart(d)
      BY DEF RestartPart, RestartOf, ServerRestart, StartOf, CloseOf, Closing
    <2>2. B = When("des" \in made, DesyncRestart(d))
      BY DEF RestartPart, RestartOf, DesyncRestart, StartOf, CloseOf, Closing, When
    <2>3. C = HelperRestart(d)
      BY DEF RestartPart, RestartOf, HelperRestart, StartOf, CloseOf, Closing, When
    <2>. HIDE DEF A, B, C
    <2>. QED
      BY <2>1, <2>2, <2>3 DEF RestartSystem
  <1>. HIDE DEF A, B, C
  <1>5. /\ Place("restarting", "srv") <= Place("restarting", "des") /\ Place("restarting", "des") <= Place("restarting", "help")
        /\ Place("restarting", "srv") <= Place("restarting", "help")
    BY DEF Place
  <1>6. /\ L \in Seq(Commands) /\ InOrder("restarting", L) /\ \A x \in ToSet(L) : Typed(x)
        /\ ToSet(L) = ToSet(A) \cup ToSet(B) \cup ToSet(C)
        /\ PartOf(A, L, "srv") /\ PartOf(B, L, "des") /\ PartOf(C, L, "help")
    BY <1>1, <1>2, <1>3, <1>5, ThreeParts DEF Components
  <1>7. Plans(L, "srv", d, cfg["srv"]) /\ Plans(L, "help", d, cfg["help"]) /\ ("des" \in made => Plans(L, "des", d, cfg["des"]))
    BY <1>1, <1>2, <1>3, <1>6, PartPlans
  <1>8. "des" \notin made => \A x \in ToSet(L) : x.comp # "des"
    BY <1>2, <1>6, Empty DEF PartOf
  <1>9. Unhooks(L)
    BY <1>3, <1>6, PartPlans
  <1>10. L # <<>> /\ Head(L).comp = "srv"
    <2>1. A \in Seq(Commands) /\ B \in Seq(Commands) /\ C \in Seq(Commands)
      BY <1>1, <1>2, <1>3 DEF Segment
    <2>2. A # <<>> /\ Head(A).comp = "srv"
      <3>1. Adopts("srv") \in ToSet(A)
        BY <1>1 DEF Plans
      <3>2. A # <<>>
        BY <3>1, Empty
      <3>3. Head(A) \in ToSet(A)
        BY <2>1, <3>2, Parts
      <3>. QED
        BY <1>1, <3>2, <3>3 DEF Segment
    <2>3. A \o B \in Seq(Commands) /\ A \o B # <<>> /\ Head(A \o B) = Head(A)
      BY <2>1, <2>2, Joined
    <2>. QED
      BY <2>1, <2>2, <2>3, Joined
  <1>11. \A x \in ToSet(L) : x.op \notin {"boot", "abort"}
    BY <1>1, <1>2, <1>3, <1>6
  <1>. HIDE DEF L
  <1>. QED
    BY <1>4, <1>6, <1>7, <1>8, <1>9, <1>10, <1>11 DEF Components

(* CloseSystem. *)
ClosePart(c) == When(c \in made, CloseOf(c))

(* It sweeps what the component has; then the whole. *)
LEMMA CloseParts ==
    ASSUME NEW c \in Components, type \in Types, attached \in Seq(Hooks)
    PROVE  /\ Segment(ClosePart(c), c) /\ \A p : InOrder(p, ClosePart(c))
           /\ \A x \in ToSet(ClosePart(c)) : x.op \in {"delete", "detach", "shut"}
           /\ c \in made => Sweeps(ClosePart(c), c, cfg[c])
           /\ c \in made /\ c = "help" => Unhooks(ClosePart(c))
           /\ c \notin made => ClosePart(c) = <<>>
  <1>1. CASE c \in made
    <2>1. ClosePart(c) = CloseOf(c) /\ Closes(CloseOf(c), c)
      BY <1>1, CloseCloses DEF ClosePart, When
    <2>2. PICK K : K = ClosePart(c)
      OBVIOUS
    <2>3. Closes(K, c)
      BY <2>1, <2>2
    <2>4. /\ K \in Seq(Commands) /\ Sweeps(K, c, cfg[c]) /\ (c = "help" => Unhooks(K))
          /\ \A x \in ToSet(K) : x.comp = c /\ Typed(x) /\ x.op \in {"delete", "detach", "shut"}
      BY <2>3 DEF Closes, Unhooks
    <2>5. \A p : InOrder(p, K)
      BY <2>4, CalmOrder, OpsApart
    <2>. QED
      BY <1>1, <2>2, <2>4, <2>5 DEF Segment
  <1>2. CASE c \notin made
    <2>1. ClosePart(c) = <<>> /\ ToSet(<<>>) = {} /\ <<>> \in Seq(Commands) /\ DOMAIN <<>> = {}
      BY <1>2, Empty DEF ClosePart, When
    <2>. QED
      BY <1>2, <2>1 DEF Segment, InOrder
  <1>. QED
    BY <1>1, <1>2

LEMMA CloseFacts ==
    ASSUME type \in Types, attached \in Seq(Hooks)
    PROVE  /\ CloseSystem \in Seq(Commands)
           /\ \A x \in ToSet(CloseSystem) : Typed(x) /\ x.op \in {"delete", "detach", "shut"} /\ x.comp \in made
           /\ \A c \in Components : c \in made => Sweeps(CloseSystem, c, cfg[c])
           /\ After(CloseSystem, Detaches, Do("help", "delete", "QUIC"))
           /\ "help" \in made => Unhooks(CloseSystem)
  <1>. DEFINE A == ClosePart("srv")
              B == ClosePart("des")
              C == ClosePart("help")
              L == A \o B \o C
  <1>1. /\ Segment(A, "srv") /\ InOrder("restarting", A) /\ ("srv" \in made => Sweeps(A, "srv", cfg["srv"]))
        /\ \A x \in ToSet(A) : x.op \in {"delete", "detach", "shut"}
        /\ "srv" \notin made => A = <<>>
    BY CloseParts DEF Components
  <1>2. /\ Segment(B, "des") /\ InOrder("restarting", B) /\ ("des" \in made => Sweeps(B, "des", cfg["des"]))
        /\ \A x \in ToSet(B) : x.op \in {"delete", "detach", "shut"}
        /\ "des" \notin made => B = <<>>
    BY CloseParts DEF Components
  <1>3. /\ Segment(C, "help") /\ InOrder("restarting", C) /\ ("help" \in made => Sweeps(C, "help", cfg["help"]) /\ Unhooks(C))
        /\ \A x \in ToSet(C) : x.op \in {"delete", "detach", "shut"}
        /\ "help" \notin made => C = <<>>
    BY CloseParts DEF Components
  <1>4. CloseSystem = L
    BY DEF CloseSystem, ClosePart, CloseOf
  <1>. HIDE DEF A, B, C
  <1>5. /\ Place("restarting", "srv") <= Place("restarting", "des") /\ Place("restarting", "des") <= Place("restarting", "help")
        /\ Place("restarting", "srv") <= Place("restarting", "help")
    BY DEF Place
  <1>6. /\ L \in Seq(Commands) /\ \A x \in ToSet(L) : Typed(x)
        /\ ToSet(L) = ToSet(A) \cup ToSet(B) \cup ToSet(C)
        /\ PartOf(A, L, "srv") /\ PartOf(B, L, "des") /\ PartOf(C, L, "help")
    BY <1>1, <1>2, <1>3, <1>5, ThreeParts DEF Components
  <1>7. \A c \in Components : c \in made => Sweeps(L, c, cfg[c])
    BY <1>1, <1>2, <1>3, <1>6, PartSweeps DEF Components
  <1>8. "help" \in made => Unhooks(L)
    BY <1>3, <1>6, PartPlans
  <1>9. \A x \in ToSet(L) : x.op \in {"delete", "detach", "shut"}
    BY <1>1, <1>2, <1>3, <1>6
  <1>10. \A x \in ToSet(L) : x.comp \in made
    BY <1>1, <1>2, <1>3, <1>6, Empty DEF Segment
  <1>. HIDE DEF L
  <1>11. "help" \notin made => After(L, Detaches, Do("help", "delete", "QUIC"))
    <2>1. HAVE "help" \notin made
    <2>2. Detaches.comp = "help"
      BY DEF Detaches, Do
    <2>3. Detaches \notin ToSet(L)
      BY <1>10, <2>1, <2>2
    <2>. QED
      BY <1>6, <2>3 DEF After, ToSet
  <1>12. After(L, Detaches, Do("help", "delete", "QUIC"))
    BY <1>8, <1>11 DEF Unhooks
  <1>. QED
    BY <1>4, <1>6, <1>7, <1>8, <1>9, <1>10, <1>12

(* What GiveUp runs first. *)
Undoes(U, c) ==
    /\ U \in Seq(Commands)
    /\ \A x \in ToSet(U) : x.comp = c /\ Typed(x) /\ x.op \in {"delete", "watch"}

(* What Setup runs when it fails, and what attachAllClassic runs. *)
LEMMA SetupUndo ==
    ASSUME NEW c \in Components, NEW d, type \in Types
    PROVE  LET U == Watch(c, d) \o Cleanup(c, d) IN Undoes(U, c) /\ Sweeps(U, c, d)
  <1>. DEFINE W == Watch(c, d)
              A == Cleanup(c, d)
  <1>1. A \in Seq(Commands) /\ Sweeps(A, c, d) /\ \A x \in ToSet(A) : x.comp = c /\ x.op = "delete" /\ Typed(x)
    BY CleanupSweeps DEF Deletes
  <1>2. W \in Seq(Commands) /\ \A x \in ToSet(W) : x.comp = c /\ Typed(x) /\ x.op = "watch"
    <2>1. CASE c = "srv" /\ Backend(d) = "ipt"
      <3>1. PICK x : x = Do("srv", "watch", SkipSet)
        OBVIOUS
      <3>2. x \in Commands /\ Typed(x) /\ x.comp = "srv" /\ x.op = "watch"
        BY <2>1, <3>1, SingleTypes, BackendIs
      <3>3. W = <<x>>
        BY <2>1, <3>1 DEF Watch, When
      <3>. QED
        BY <2>1, <3>2, <3>3, One
    <2>2. CASE ~(c = "srv" /\ Backend(d) = "ipt")
      <3>1. W = <<>>
        BY <2>2 DEF Watch, When
      <3>. QED
        BY <3>1, Empty
    <2>. QED
      BY <2>1, <2>2
  <1>. HIDE DEF W, A
  <1>3. W \o A \in Seq(Commands) /\ ToSet(W \o A) = ToSet(W) \cup ToSet(A)
    BY <1>1, <1>2, Joined
  <1>s. Shuts(c).op = "shut"
    BY DEF Shuts, Do
  <1>4. Sweeps(W \o A, c, d)
    <2>1. Shuts(c) \notin ToSet(W) /\ \A o : Del(c, o) \notin ToSet(W)
      BY <1>2, <1>s, DelIs
    <2>. QED
      BY <1>1, <1>2, <2>1, SweepsJoin
  <1>. QED
    BY <1>1, <1>2, <1>3, <1>4 DEF W, A, Undoes

LEMMA FilterUndo ==
    ASSUME attached \in Seq(Hooks)
    PROVE  LET U == DoAll("help", "delete", attached)
           IN  Undoes(U, "help") /\ \A o : Do("help", "delete", o) \in ToSet(U) <=> o \in ToSet(attached)
  <1>1. attached \in Seq(Things) /\ ToSet(attached) \subseteq Hooks
    BY ObjectFacts, Within DEF Components
  <1>2. Hooks \subseteq Targets("help")
    BY OwnedFacts, FilterFacts DEF Targets, Ingress
  <1>3. /\ Deletes(DoAll("help", "delete", attached), "help")
        /\ \A o : Do("help", "delete", o) \in ToSet(DoAll("help", "delete", attached)) <=> o \in ToSet(attached)
    BY <1>1, <1>2, AllDeletes DEF Components
  <1>. QED
    BY <1>3 DEF Deletes, Undoes

LEMMA NoUndo == \A c : Undoes(<<>>, c)
  BY Empty DEF Undoes

(* A finite set as a sequence. *)
LEMMA SetSeq ==
    ASSUME NEW S, IsFiniteSet(S)
    PROVE  /\ SetToSeq(S) \in Seq(S) /\ ToSet(SetToSeq(S)) = S
           /\ \A i, j \in DOMAIN SetToSeq(S) : SetToSeq(S)[i] = SetToSeq(S)[j] => i = j
  <1>. DEFINE n == Cardinality(S)
              f == SetToSeq(S)
  <1>1. n \in Nat /\ ExistsBijection(1..n, S)
    BY FS_CardinalityType
  <1>2. PICK g \in [1..n -> S] : IsInjective(g)
    BY <1>1 DEF ExistsBijection, Bijection, Injection
  <1>3. f \in [1..n -> S] /\ IsInjective(f)
    BY <1>2 DEF SetToSeq
  <1>. HIDE DEF f
  <1>4. f \in Surjection(1..n, S)
    <2>1. f \in Injection(1..n, S)
      BY <1>3 DEF Injection
    <2>2. Cardinality(1..n) = n
      BY <1>1, FS_Interval
    <2>. QED
      BY <2>1, <2>2, FS_Injection
  <1>. HIDE DEF n
  <1>5. DOMAIN f = 1..n /\ f \in Seq(S)
    BY <1>1, <1>3
  <1>6. ToSet(f) = S
    <2>1. \A e \in S : \E i \in 1..n : f[i] = e
      BY <1>4 DEF Surjection
    <2>2. \A i \in 1..n : f[i] \in S
      BY <1>3
    <2>. QED
      BY <1>5, <2>1, <2>2 DEF ToSet
  <1>. QED
    BY <1>3, <1>5, <1>6 DEF IsInjective, f

(* Interfaces and programs. *)
LEMMA EligibleIs == host \in Hosts => eligible \subseteq Interfaces /\ IsFiniteSet(eligible)
  <1>1. ASSUME host \in Hosts PROVE eligible \subseteq Interfaces
    <2>1. \A i \in host.ifaces : i.default => i.name \in Interfaces
      BY <1>1, UplinksAssumption DEF Interfaces
    <2>. QED
      BY <2>1 DEF eligible
  <1>2. IsFiniteSet(Interfaces)
    <2>1. IsFiniteSet({"wan"}) /\ IsFiniteSet({"wan"} \cup {"wwan"})
      BY FS_Singleton, FS_AddElement
    <2>2. Interfaces = {"wan"} \cup {"wwan"}
      BY DEF Interfaces
    <2>. QED
      BY <2>1, <2>2
  <1>. QED
    BY <1>1, <1>2, FS_Subset

LEMMA SelectIs == \A d \in Configs : selectedPrograms(d) \in 0..4
  <1>1. TAKE d \in Configs
  <1>2. d.syn \in BOOLEAN /\ d.ipid \in BOOLEAN /\ d.quic \in BOOLEAN
    BY ConfigsAssumption
  <1>. QED
    BY <1>2 DEF selectedPrograms

LEMMA FiltersAre ==
    /\ \A i \in Interfaces, p \in 1..4 : Filters[i][p] \in AllFilters
    /\ \A i, j \in Interfaces, p, q \in 1..4 : Filters[i][p] = Filters[j][q] => i = j /\ p = q
  <1>v. /\ Filters["wan"][1] = "wan 1" /\ Filters["wan"][2] = "wan 2" /\ Filters["wan"][3] = "wan 3" /\ Filters["wan"][4] = "wan 4"
    BY DEF Filters
  <1>w. /\ Filters["wwan"][1] = "wwan 1" /\ Filters["wwan"][2] = "wwan 2" /\ Filters["wwan"][3] = "wwan 3"
        /\ Filters["wwan"][4] = "wwan 4"
    BY DEF Filters
  <1>2. /\ Filters["wan"][1] = "wan 1" /\ Filters["wan"][2] = "wan 2" /\ Filters["wan"][3] = "wan 3" /\ Filters["wan"][4] = "wan 4"
        /\ Filters["wwan"][1] = "wwan 1" /\ Filters["wwan"][2] = "wwan 2" /\ Filters["wwan"][3] = "wwan 3"
        /\ Filters["wwan"][4] = "wwan 4"
    BY <1>v, <1>w
  <1>3. 1..4 = {1, 2, 3, 4}
    OBVIOUS
  <1>4. \A i \in Interfaces, p \in 1..4 : Filters[i][p] \in AllFilters
    BY <1>2, <1>3, FilterFacts DEF Interfaces
  <1>5. ASSUME NEW i \in Interfaces, NEW j \in Interfaces, NEW p \in 1..4, NEW q \in 1..4, Filters[i][p] = Filters[j][q]
        PROVE  i = j /\ p = q
    <2>1. i = "wan" \/ i = "wwan"
      BY DEF Interfaces
    <2>2. j = "wan" \/ j = "wwan"
      BY DEF Interfaces
    <2>3. (p = 1 \/ p = 2 \/ p = 3 \/ p = 4) /\ (q = 1 \/ q = 2 \/ q = 3 \/ q = 4)
      OBVIOUS
    <2>4. CASE i = "wan" /\ j = "wan"
      BY <1>2, <1>5, <2>3, <2>4
    <2>5. CASE i = "wwan" /\ j = "wwan"
      BY <1>2, <1>5, <2>3, <2>5
    <2>6. CASE i = "wan" /\ j = "wwan"
      BY <1>2, <1>5, <2>3, <2>6
    <2>7. CASE i = "wwan" /\ j = "wan"
      BY <1>2, <1>5, <2>3, <2>7
    <2>. QED
      BY <2>1, <2>2, <2>4, <2>5, <2>6, <2>7
  <1>. QED
    BY <1>4, <1>5

(* The commands of NewTC that come after the links have failed. *)
LEMMA EachOnce ==
    ASSUME NEW op \in {"qdisc", "filter"}, NEW os \in Seq(Things), \A i, j \in DOMAIN os : os[i] = os[j] => i = j,
           op = "qdisc" => ToSet(os) \subseteq eligible, op = "filter" => ToSet(os) \subseteq AllFilters
    PROVE  LET L == DoAll("help", op, os)
           IN  Segment(L, "help") /\ ToSet(L) = {Do("help", op, o) : o \in ToSet(os)} /\ \A p : InOrder(p, L)
  <1>. DEFINE L == DoAll("help", op, os)
  <1>1. "help" \in Components /\ op \in Ops
    BY OpsApart DEF Components
  <1>2. /\ L \in Seq(Commands) /\ DOMAIN L = DOMAIN os /\ \A i \in DOMAIN os : L[i] = Do("help", op, os[i])
        /\ ToSet(L) = {Do("help", op, o) : o \in ToSet(os)}
    BY <1>1, AllFacts
  <1>3. \A o \in ToSet(os) : Typed(Do("help", op, o)) /\ Do("help", op, o).comp = "help"
    <2>1. TAKE o \in ToSet(os)
    <2>2. PICK x : x = Do("help", op, o)
      OBVIOUS
    <2>3. x.comp = "help" /\ x.op = op /\ x.obj = o
      BY <2>2 DEF Do
    <2>4. Typed(x)
      BY <2>3, OpsApart DEF Typed
    <2>. QED
      BY <2>2, <2>3, <2>4
  <1>. HIDE DEF L
  <1>4. ASSUME NEW p, NEW i \in DOMAIN L, NEW j \in DOMAIN L, i < j PROVE Follows(p, L[i], L[j])
    <2>1. PICK x : x = L[i]
      OBVIOUS
    <2>2. PICK y : y = L[j]
      OBVIOUS
    <2>3. x.comp = "help" /\ y.comp = "help" /\ x.op = op /\ y.op = op /\ x.obj = os[i] /\ y.obj = os[j]
      BY <1>2, <1>4, <2>1, <2>2 DEF Do
    <2>4. x.obj # y.obj
      <3>1. i # j
        <4>1. DOMAIN os = 1..Len(os)
          OBVIOUS
        <4>. QED
          BY <1>2, <1>4, <4>1
      <3>. QED
        BY <1>2, <1>4, <2>3, <3>1
    <2>5. Follows(p, x, y)
      BY <2>3, <2>4, PlaceType, OpsApart DEF Follows
    <2>. QED
      BY <2>1, <2>2, <2>5
  <1>. QED
    BY <1>2, <1>3, <1>4 DEF Segment, InOrder, L

(* The qdiscs of all interfaces, then the filters of one. *)
LEMMA QdiscList ==
    ASSUME host \in Hosts
    PROVE  /\ Segment(attachAllClassic, "help") /\ \A p : InOrder(p, attachAllClassic)
           /\ ToSet(attachAllClassic) = {Do("help", "qdisc", i) : i \in eligible}
  <1>1. eligible \subseteq Interfaces /\ IsFiniteSet(eligible) /\ Interfaces \subseteq Things
    BY EligibleIs, ObjectFacts
  <1>2. PICK s : s = SetToSeq(eligible)
    OBVIOUS
  <1>3. s \in Seq(eligible) /\ ToSet(s) = eligible /\ \A i, j \in DOMAIN s : s[i] = s[j] => i = j
    BY <1>1, <1>2, SetSeq
  <1>4. s \in Seq(Things)
    BY <1>1, <1>3
  <1>. QED
    BY <1>2, <1>3, <1>4, EachOnce DEF attachAllClassic

(* The filters of an interface. *)
FiltersOf(d, i) == {Filters[i][p] : p \in 1..selectedPrograms(d)}

LEMMA FilterList ==
    ASSUME NEW d \in Configs, NEW i \in Interfaces
    PROVE  /\ Segment(addClsBpfFilters(d, i), "help") /\ \A p : InOrder(p, addClsBpfFilters(d, i))
           /\ ToSet(addClsBpfFilters(d, i)) = {Do("help", "filter", o) : o \in FiltersOf(d, i)}
           /\ FiltersOf(d, i) \subseteq AllFilters
  <1>1. selectedPrograms(d) \in 0..4
    BY SelectIs
  <1>2. PICK n \in 0..4 : n = selectedPrograms(d)
    BY <1>1
  <1>. DEFINE s == [p \in 1..n |-> Filters[i][p]]
  <1>3. \A p \in 1..n : p \in 1..4 /\ s[p] = Filters[i][p] /\ Filters[i][p] \in AllFilters
    BY FiltersAre
  <1>4. DOMAIN s = 1..n
    OBVIOUS
  <1>5. AllFilters \subseteq Things
    BY ObjectFacts, Within DEF Components, Hooks
  <1>6. s \in Seq(Things) /\ ToSet(s) = {Filters[i][p] : p \in 1..n} /\ ToSet(s) \subseteq AllFilters
    <2>1. s \in [1..n -> Things]
      BY <1>3, <1>5
    <2>2. s \in Seq(Things)
      BY <2>1
    <2>. QED
      BY <1>3, <1>4, <2>2 DEF ToSet
  <1>7. \A p, q \in DOMAIN s : s[p] = s[q] => p = q
    BY <1>3, <1>4, FiltersAre
  <1>8. addClsBpfFilters(d, i) = DoAll("help", "filter", s)
    BY <1>2 DEF addClsBpfFilters
  <1>9. FiltersOf(d, i) = ToSet(s)
    BY <1>2, <1>6 DEF FiltersOf
  <1>. HIDE DEF s
  <1>. QED
    BY <1>6, <1>7, <1>8, <1>9, EachOnce

(* The classic filters are those of the eligible interfaces. *)
LEMMA ClassicIs ==
    ASSUME host \in Hosts, NEW d \in Configs
    PROVE  Classic(d) = UNION {FiltersOf(d, i) : i \in eligible} /\ Classic(d) \subseteq AllFilters
  <1>1. \A i \in eligible : FiltersOf(d, i) \subseteq AllFilters
    BY EligibleIs, FilterList
  <1>. QED
    BY <1>1 DEF Classic, FiltersOf

(* All that is known of the list, whatever the kernel does. *)
Lists == TypeInv /\ ListInv /\ JobInv /\ HookList

(* What the list says of its first command. *)
LEMMA Now ==
    ASSUME TypeInv, ListInv, todo # <<>>
    PROVE  /\ Head(todo) \in Commands /\ Head(todo) \in T /\ Typed(Head(todo)) /\ T \subseteq Commands
           /\ T = {Head(todo)} \cup ToSet(Tail(todo)) /\ Tail(todo) \in Seq(Commands)
           /\ process \in {"starting", "restarting", "stopping"} /\ type \in Types
           /\ Plan => InOrder(process, Tail(todo)) /\ \A y \in ToSet(Tail(todo)) : Follows(process, Head(todo), y)
           /\ process = "stopping" => Head(todo).op \in {"delete", "detach", "shut", "watch"}
           /\ Aborting => process = "restarting" /\ Head(todo).op \in {"delete", "watch", "abort"}
           /\ process = "stopping" \/ Plan \/ Aborting
           /\ Head(todo).op = "boot" => Head(todo) = Boots /\ Booting
           /\ Head(todo).op = "abort" => Head(todo) = Aborts /\ Aborting
           /\ Booting => Head(todo) = Boots
  <1>1. /\ Head(todo) \in Commands /\ T \subseteq Commands
        /\ T = {Head(todo)} \cup ToSet(Tail(todo)) /\ Tail(todo) \in Seq(Commands)
    BY Parts DEF TypeInv, T
  <1>2. Typed(Head(todo))
    BY <1>1 DEF ListInv
  <1>3. process \in {"starting", "restarting", "stopping"} /\ type \in Types
    BY DEF ListInv, TypeInv, Types
  <1>4. Plan => InOrder(process, Tail(todo)) /\ \A y \in ToSet(Tail(todo)) : Follows(process, Head(todo), y)
    BY TailOrder DEF ListInv, TypeInv
  <1>5. /\ process = "stopping" => Head(todo).op \in {"delete", "detach", "shut", "watch"}
        /\ Aborting => process = "restarting" /\ Head(todo).op \in {"delete", "watch", "abort"}
    BY <1>1 DEF ListInv
  <1>6. process = "stopping" \/ Plan \/ Aborting
    BY <1>3 DEF Plan
  <1>7. /\ Head(todo).op = "boot" => Head(todo) = Boots
        /\ Head(todo).op = "abort" => Head(todo) = Aborts
    BY <1>1, <1>2, DoIs DEF Typed, Boots, Aborts
  <1>8. Booting => Head(todo) = Boots
    <2>1. HAVE Booting
    <2>2. todo = <<Boots>>
      BY <2>1 DEF ListInv
    <2>3. Head(<<Boots>>) = Boots
      OBVIOUS
    <2>. QED
      BY <2>2, <2>3
  <1>. QED
    BY <1>1, <1>2, <1>3, <1>4, <1>5, <1>6, <1>7, <1>8 DEF Booting, Aborting

(* What does not depend on the state. *)
LEMMA OfTypeIs ==
    /\ \A ty : OfType(ty) = CASE ty = "TPROXY" -> OfType("TPROXY") [] ty = "REDIRECT" -> OfType("REDIRECT")
                              [] ty = "NFQUEUE" -> OfType("NFQUEUE") [] OTHER -> {}
  BY DEF OfType

LEMMA TypedSame == ASSUME host' = host, type' = type PROVE \A x : Typed(x)' <=> Typed(x)
  <1>1. eligible' = eligible /\ OfType(type)' = OfType(type)
    BY DEF eligible
  <1>. QED
    BY <1>1 DEF Typed

(* The commands of a component are a run of the list. *)
LEMMA SameRun ==
    ASSUME TypeInv, ListInv, todo # <<>>, Plan, NEW y \in ToSet(Tail(todo)), y.comp = Head(todo).comp
    PROVE  Tail(todo) # <<>> /\ Head(Tail(todo)).comp = Head(todo).comp
  <1>1. /\ Head(todo) \in Commands /\ Tail(todo) \in Seq(Commands) /\ InOrder(process, Tail(todo))
        /\ \A z \in ToSet(Tail(todo)) : Follows(process, Head(todo), z)
    BY Now
  <1>2. Tail(todo) # <<>>
    BY Empty
  <1>. DEFINE h == Head(Tail(todo))
  <1>. HIDE DEF h
  <1>3. h \in ToSet(Tail(todo)) /\ h \in Commands /\ ToSet(Tail(todo)) = {h} \cup ToSet(Tail(Tail(todo)))
        /\ ToSet(Tail(todo)) \subseteq Commands
    <2>1. PICK u \in Seq(Commands) : u = Tail(todo)
      BY <1>1
    <2>2. Head(u) \in Commands /\ ToSet(u) = {Head(u)} \cup ToSet(Tail(u)) /\ ToSet(u) \subseteq Commands
      BY <1>2, <2>1, Parts
    <2>. QED
      BY <2>1, <2>2 DEF h
  <1>4. Place(process, Head(todo).comp) <= Place(process, h.comp)
    BY <1>1, <1>3 DEF Follows
  <1>5. CASE y = h
    BY <1>2, <1>5 DEF h
  <1>6. CASE y # h
    <2>1. Follows(process, h, y)
      BY <1>1, <1>2, <1>3, <1>6, TailOrder DEF h
    <2>2. Place(process, h.comp) <= Place(process, y.comp)
      BY <2>1 DEF Follows
    <2>3. Head(todo).comp \in Components /\ h.comp \in Components
      BY <1>1, <1>3 DEF Commands
    <2>4. \A b, e \in Components : Place(process, b) <= Place(process, e) /\ Place(process, e) <= Place(process, b) => b = e
      BY DEF Place, Components
    <2>5. h.comp = Head(todo).comp
      BY <1>4, <2>2, <2>3, <2>4
    <2>. QED
      BY <1>2, <2>5 DEF h
  <1>. QED
    BY <1>5, <1>6

(* A component whose commands run exists. *)
LEMMA HeadMade ==
    ASSUME TypeInv, ListInv, JobInv, todo # <<>>, process # "stopping",
           Head(todo).op \notin {"boot", "abort", "adopt"}
    PROVE  Head(todo).comp \in made /\ (Plan => (Adopts(Head(todo).comp) \in T => process = "restarting"))
  <1>. DEFINE c == Head(todo).comp
  <1>1. /\ Head(todo) \in Commands /\ Head(todo) \in T /\ T = {Head(todo)} \cup ToSet(Tail(todo))
        /\ process \in {"starting", "restarting"} /\ (Booting => Head(todo) = Boots) /\ (Plan \/ Aborting)
        /\ Plan => \A y \in ToSet(Tail(todo)) : Follows(process, Head(todo), y)
    BY Now
  <1>2. c \in Components /\ Busy(c)
    BY <1>1 DEF Commands, Busy
  <1>3. CASE process = "restarting"
    BY <1>2, <1>3 DEF JobInv
  <1>4. CASE process = "starting"
    <2>1. ~Booting
      BY <1>1 DEF Boots, Do
    <2>2. c \in made \/ Adopts(c) \in T
      BY <1>2, <1>4, <2>1 DEF JobInv
    <2>3. Plan
      BY <1>1, <1>4 DEF ListInv
    <2>4. Adopts(c) \notin T
      <3>1. PICK a : a = Adopts(c)
        OBVIOUS
      <3>2. a.op = "adopt" /\ a.comp = c
        BY <3>1 DEF Adopts, Do
      <3>3. a \notin ToSet(Tail(todo))
        BY <1>1, <1>4, <2>3, <3>2 DEF Follows
      <3>. QED
        BY <1>1, <3>1, <3>2, <3>3
    <2>. QED
      BY <2>2, <2>4
  <1>. QED
    BY <1>1, <1>3, <1>4

(* The list goes on by one command. *)
Advance ==
    /\ todo # <<>> /\ todo' = Tail(todo) /\ Head(todo).op \notin {"boot", "abort"}
    /\ UNCHANGED <<process, failed, slipped, host, type, next, starts, dirty>>
Adopting ==
    IF Head(todo).op = "adopt"
    THEN made' = made \cup {Head(todo).comp} /\ cfg' = [cfg EXCEPT ![Head(todo).comp] = next]
    ELSE UNCHANGED <<made, cfg>>

(* What goes on when one command has run: the phase, and which component
   has what left to do. *)
LEMMA AdvanceIs ==
    ASSUME TypeInv, ListInv, Advance
    PROVE  /\ T = {Head(todo)} \cup T' /\ T' \subseteq T /\ (Aborting' <=> Aborting) /\ ~Booting /\ ~Booting' /\ (Plan' <=> Plan)
           /\ \A c : /\ HasDel(c)' => HasDel(c)
                     /\ Busy(c)' => Busy(c)
                     /\ Head(todo).op # "delete" \/ Head(todo).comp # c => (HasDel(c)' <=> HasDel(c))
                     /\ Head(todo).comp # c => (Busy(c)' <=> Busy(c))
           /\ \A d : eligible' = eligible /\ Backend(d)' = Backend(d)
           /\ UsesBPF' <=> UsesBPF
  <1>1. T = {Head(todo)} \cup T' /\ (Head(todo).op = "boot" <=> Head(todo) = Boots) /\ (Booting => Head(todo) = Boots)
    <2>1. T' = ToSet(Tail(todo))
      BY DEF T, Advance
    <2>2. Boots.op = "boot"
      BY DEF Boots, Do
    <2>. QED
      BY <2>1, <2>2, Now DEF Advance
  <1>2. Aborts.op = "abort" /\ Boots.op = "boot" /\ Head(todo).op \notin {"boot", "abort"} /\ process' = process
    BY DEF Aborts, Boots, Do, Advance
  <1>3. (Aborting' <=> Aborting) /\ ~Booting /\ ~Booting'
    <2>1. Head(todo) # Aborts /\ Head(todo) # Boots
      BY <1>2
    <2>2. ~Booting /\ Boots \notin T'
      BY <1>1, <2>1 DEF Booting
    <2>. QED
      BY <1>1, <2>1, <2>2 DEF Aborting, Booting
  <1>4. Plan' <=> Plan
    BY <1>2, <1>3 DEF Plan
  <1>5. \A c : /\ HasDel(c)' => HasDel(c)
               /\ Busy(c)' => Busy(c)
               /\ Head(todo).op # "delete" \/ Head(todo).comp # c => (HasDel(c)' <=> HasDel(c))
               /\ Head(todo).comp # c => (Busy(c)' <=> Busy(c))
    BY <1>1 DEF HasDel, Busy
  <1>6. \A d : eligible' = eligible /\ Backend(d)' = Backend(d)
    BY DEF Advance, eligible, Backend, SelectNFT
  <1>7. UsesBPF' <=> UsesBPF
    BY DEF Advance, UsesBPF, HelperWanted
  <1>. QED
    BY <1>1, <1>3, <1>4, <1>5, <1>6, <1>7

(* The order of the list survives. *)
LEMMA AdvanceList == TypeInv /\ ListInv /\ Advance => ListInv'
  <1>. SUFFICES ASSUME TypeInv, ListInv, Advance PROVE ListInv'
    OBVIOUS
  <1>1. /\ T = {Head(todo)} \cup T' /\ T' \subseteq T /\ (Aborting' <=> Aborting) /\ ~Booting' /\ (Plan' <=> Plan)
    BY AdvanceIs
  <1>2. process' = process /\ host' = host /\ type' = type /\ todo # <<>> /\ todo' = Tail(todo) /\ todo \in Seq(Commands)
    BY DEF Advance, TypeInv
  <1>3. (\A x \in T : Typed(x))'
    BY <1>1, <1>2, TypedSame DEF ListInv
  <1>4. (Plan => InOrder(process, todo))'
    BY <1>1, <1>2, TailOrder DEF ListInv
  <1>5. (process \notin {"starting", "restarting", "stopping"} => todo = <<>>)'
    BY <1>2 DEF ListInv
  <1>6. /\ (process = "stopping" => \A x \in T : x.op \in {"delete", "detach", "shut", "watch"})'
        /\ (Aborting => process = "restarting" /\ \A x \in T : x.op \in {"delete", "watch", "abort"})'
        /\ (Booting => process = "starting" /\ todo = <<Boots>> /\ made = {} /\ attached = <<>> /\ ~watching)'
        /\ (process = "starting" => \A x \in T : x.op \notin {"shut", "detach"})'
    BY <1>1, <1>2 DEF ListInv
  <1>7. After(todo, Do("help", "detach", Nowhere), Do("help", "delete", "QUIC"))'
    BY <1>2, TailAfter DEF ListInv
  <1>8. (\A i \in DOMAIN todo : todo[i] = Aborts => i = Len(todo))'
    <2>1. /\ DOMAIN todo = 1..Len(todo) /\ Len(todo) \in Nat \ {0}
          /\ DOMAIN Tail(todo) = 1..(Len(todo) - 1) /\ \A i \in 1..(Len(todo) - 1) : Tail(todo)[i] = todo[i + 1]
          /\ Len(Tail(todo)) = Len(todo) - 1
      BY <1>2, Parts
    <2>2. \A i \in DOMAIN Tail(todo) : i + 1 \in DOMAIN todo /\ (i + 1 = Len(todo) => i = Len(todo) - 1)
      BY <2>1
    <2>3. \A i \in DOMAIN Tail(todo) : Tail(todo)[i] = Aborts => i = Len(Tail(todo))
      BY <2>1, <2>2 DEF ListInv
    <2>. QED
      BY <1>2, <2>3
  <1>. QED
    BY <1>3, <1>4, <1>5, <1>6, <1>7, <1>8 DEF ListInv

(* The list loses its first command, and may get some of the BPF programs. *)
Proceeds ==
    /\ todo # <<>> /\ Head(todo).op \notin {"boot", "abort"} /\ todo' \in Seq(Commands)
    /\ T \subseteq {Head(todo)} \cup T'
    /\ \A x \in T' : x \in T \/ (x.op \in {"qdisc", "filter"} /\ x.comp = "help" /\ Head(todo).comp = "help")
    /\ UNCHANGED <<process, failed, slipped, host, type, next, starts, dirty>>

(* The phase stays, and no component gets more to do. *)
LEMMA ProceedsIs ==
    ASSUME TypeInv, ListInv, Proceeds
    PROVE  /\ (Aborting' <=> Aborting) /\ ~Booting /\ ~Booting' /\ (Plan' <=> Plan)
           /\ \A c : Busy(c)' => Busy(c)
           /\ \A d : Backend(d)' = Backend(d)
           /\ eligible' = eligible
  <1>1. T = {Head(todo)} \cup ToSet(Tail(todo)) /\ (Booting => Head(todo) = Boots) /\ Head(todo) \in T
    BY Now DEF Proceeds
  <1>2. Aborts.op = "abort" /\ Boots.op = "boot" /\ Head(todo).op \notin {"boot", "abort"} /\ process' = process
    BY DEF Aborts, Boots, Do, Proceeds
  <1>3. (Aborting' <=> Aborting) /\ ~Booting /\ ~Booting'
    <2>1. Head(todo) # Aborts /\ Head(todo) # Boots
      BY <1>2
    <2>. DEFINE ab == Aborts
                bo == Boots
    <2>2. ab.op = "abort" /\ bo.op = "boot" /\ Head(todo) # ab /\ Head(todo) # bo
      BY <1>2, <2>1
    <2>. HIDE DEF ab, bo
    <2>3. (ab \in T' <=> ab \in T) /\ (bo \in T' => bo \in T)
      BY <2>2 DEF Proceeds
    <2>. QED
      BY <1>1, <2>1, <2>3 DEF Aborting, Booting, ab, bo
  <1>4. Plan' <=> Plan
    BY <1>2, <1>3 DEF Plan
  <1>5. ASSUME NEW c, Busy(c)' PROVE Busy(c)
    <2>1. PICK x \in T' : x.comp = c /\ x.op \notin {"boot", "abort"}
      BY <1>5 DEF Busy
    <2>2. x \in T \/ (Head(todo).comp = c /\ Head(todo).op \notin {"boot", "abort"})
      BY <2>1 DEF Proceeds
    <2>. QED
      BY <1>1, <2>1, <2>2 DEF Busy
  <1>6. (\A d : Backend(d)' = Backend(d)) /\ eligible' = eligible
    BY DEF Proceeds, eligible, Backend, SelectNFT
  <1>. QED
    BY <1>3, <1>4, <1>5, <1>6

LEMMA AdvanceProceeds == TypeInv /\ ListInv /\ Advance => Proceeds
  <1>. SUFFICES ASSUME TypeInv, ListInv, Advance PROVE Proceeds
    OBVIOUS
  <1>1. T = {Head(todo)} \cup T'
    BY AdvanceIs
  <1>2. todo' \in Seq(Commands)
    BY Now DEF Advance
  <1>. QED
    BY <1>1, <1>2 DEF Advance, Proceeds

(* What is to be installed survives. *)
LEMMA AdvanceJobs == Lists /\ Proceeds /\ Adopting /\ (watching' => watching \/ host.ipt) => JobInv'
  <1>. SUFFICES ASSUME Lists, Proceeds, Adopting, watching' => watching \/ host.ipt PROVE JobInv'
    OBVIOUS
  <1>0. TypeInv /\ ListInv /\ JobInv
    BY DEF Lists
  <1>1. /\ T \subseteq {Head(todo)} \cup T' /\ (Aborting' <=> Aborting) /\ ~Booting /\ ~Booting' /\ (Plan' <=> Plan)
        /\ \A c : Busy(c)' => Busy(c)
        /\ \A d : Backend(d)' = Backend(d)
        /\ \A x \in T' : x.op \in PutOps \cup {"fail", "open"} => x \in T
    <2>1. {"qdisc", "filter"} \cap (PutOps \cup {"fail", "open"}) = {}
      BY DEF PutOps, MakeOps
    <2>. QED
      BY <1>0, <2>1, ProceedsIs DEF Proceeds
  <1>2. /\ process' = process /\ failed' = failed /\ slipped' = slipped /\ type' = type /\ next' = next /\ starts' = starts
        /\ dirty' = dirty /\ host' = host /\ todo # <<>>
    BY DEF Proceeds
  <1>3. /\ process \in {"starting", "restarting", "stopping"} /\ Head(todo) \in Commands /\ Typed(Head(todo))
        /\ Running /\ Running'
    <2>1. process \in {"starting", "restarting", "stopping"} /\ Head(todo) \in Commands /\ Typed(Head(todo))
      BY <1>0, <1>2, Now
    <2>. QED
      BY <1>2, <2>1 DEF Running
  <1>4. /\ made \subseteq made'
        /\ \A c \in Components : /\ c \in made' => (c \in made /\ cfg'[c] = cfg[c]) \/ cfg'[c] = next
                                 /\ Adopts(c) \in T => Adopts(c) \in T' \/ (c \in made' /\ cfg'[c] = next)
    <2>1. CASE Head(todo).op = "adopt"
      <3>1. made' = made \cup {Head(todo).comp} /\ cfg' = [cfg EXCEPT ![Head(todo).comp] = next]
        BY <2>1 DEF Adopting
      <3>2. \A c \in Components : cfg'[c] = IF c = Head(todo).comp THEN next ELSE cfg[c]
        BY <1>0, <3>1 DEF TypeInv
      <3>3. \A c : Adopts(c).comp = c
        BY DEF Adopts, Do
      <3>. QED
        BY <1>1, <3>1, <3>2, <3>3
    <2>2. CASE Head(todo).op # "adopt"
      <3>1. made' = made /\ cfg' = cfg
        BY <2>2 DEF Adopting
      <3>2. \A c : Adopts(c).op = "adopt"
        BY DEF Adopts, Do
      <3>. QED
        BY <1>1, <2>2, <3>1, <3>2
    <2>. QED
      BY <2>1, <2>2
  <1>5. /\ (process = "starting" => ~failed)'
        /\ (failed => slipped)'
        /\ (process \in {"up", "restarting"} => {"help", "srv"} \subseteq made)'
        /\ (process = "restarting" => \A c \in Components : Busy(c) => c \in made)'
    BY <1>0, <1>1, <1>2, <1>4 DEF JobInv
  <1>6. (process = "starting" /\ ~Booting =>
            /\ \A c \in {"help", "srv"} : c \in made \/ Adopts(c) \in T
            /\ \A c \in Components : Busy(c) => c \in made \/ Adopts(c) \in T)'
    <2>1. SUFFICES ASSUME process = "starting"
                   PROVE  /\ \A c \in {"help", "srv"} : c \in made' \/ Adopts(c) \in T'
                          /\ \A c \in Components : Busy(c)' => c \in made' \/ Adopts(c) \in T'
      BY <1>1, <1>2
    <2>2. /\ \A c \in {"help", "srv"} : c \in made \/ Adopts(c) \in T
          /\ \A c \in Components : Busy(c) => c \in made \/ Adopts(c) \in T
      BY <1>0, <1>1, <2>1 DEF JobInv
    <2>. QED
      BY <1>1, <1>4, <2>2 DEF Components
  <1>7. (Plan \/ (process = "up" /\ ~failed) => \A c \in made : Adopts(c) \in T \/ cfg[c] = next)'
    <2>1. SUFFICES ASSUME Plan, NEW c \in made' PROVE Adopts(c) \in T' \/ cfg'[c] = next
      BY <1>1, <1>2, <1>3
    <2>2. c \in Components
      BY <1>0, <1>3, <2>1 DEF Adopting, TypeInv, Commands
    <2>3. c \in made => Adopts(c) \in T \/ cfg[c] = next
      BY <1>0, <2>1 DEF JobInv
    <2>. QED
      BY <1>4, <2>1, <2>2, <2>3
  <1>8. (Plan => \A x \in T : /\ x.op \in PutOps => x \in Cmds(x.comp, next)
                              /\ x.op \in PutOps \cup {"fail", "open"} => Enabled(x.comp, next) /\ ~ByBPF(x.comp, next))'
    <2>1. SUFFICES ASSUME Plan, NEW x \in T', x.op \in PutOps \cup {"fail", "open"}
                   PROVE  (x.op \in PutOps => x \in Cmds(x.comp, next)') /\ Enabled(x.comp, next)' /\ ~ByBPF(x.comp, next)'
      BY <1>1, <1>2
    <2>2. /\ x \in T /\ (x.op \in PutOps => x \in Cmds(x.comp, next)) /\ Enabled(x.comp, next) /\ ~ByBPF(x.comp, next)
          /\ x.comp \in Components
      BY <1>0, <1>1, <2>1, Now DEF JobInv, Proceeds, Commands
    <2>3. (Enabled(x.comp, next)' <=> Enabled(x.comp, next)) /\ (ByBPF(x.comp, next)' <=> ByBPF(x.comp, next))
      BY <1>2, <2>2 DEF Enabled, ByBPF, HelperWanted, Components
    <2>4. Install(x.comp, next)' = Install(x.comp, next)
      BY <1>1, <1>2, <2>2 DEF Install, HelperNft, HelperIpt, DesyncNft, DesyncIpt, ServerNft, ServerIpt, TproxyNft, RedirectNft,
         NfqueueNft, TproxyIpt, RedirectIpt, NfqueueIpt, IptSets, AddTproxyRoute, Components
    <2>5. Cmds(x.comp, next)' = Cmds(x.comp, next)
      BY <1>1, <1>2, <2>3, <2>4 DEF Cmds
    <2>. QED
      BY <2>2, <2>3, <2>5
  <1>9. (watching => host.ipt)'
    BY <1>0, <1>2 DEF JobInv
  <1>10. /\ (Running => starts > 0)'
         /\ (process = "killed" => dirty # {})'
         /\ (dirty # {} => starts > 0 /\ (Running => starts > 1))'
         /\ (process = "off" => type # "TPROXY" /\ ~watching)'
         /\ (starts = 0 => process = "off")'
    BY <1>0, <1>2, <1>3 DEF JobInv
  <1>. QED
    BY <1>5, <1>6, <1>7, <1>8, <1>9, <1>10 DEF JobInv

(* The commands about hooks are different. *)
LEMMA HookNames ==
    /\ Detaches.op = "detach" /\ Detaches.comp = "help" /\ Shuts("help").op = "shut" /\ Shuts("help").comp = "help"
    /\ Do("help", "delete", "QUIC").op = "delete" /\ Do("help", "delete", "QUIC").comp = "help"
    /\ Shuts("help") = Do("help", "shut", Nowhere) /\ Detaches = Do("help", "detach", Nowhere)
    /\ \A o : Do("help", "filter", o).op = "filter" /\ Do("help", "qdisc", o).op = "qdisc"
    /\ \A o, p : Do("help", "filter", o) = Do("help", "filter", p) => o = p
    /\ \A o, p : Do("help", "qdisc", o) = Do("help", "qdisc", p) => o = p
  <1>1. \A o, p, op : Do("help", op, o) = Do("help", op, p) => o = p
    BY DoSame
  <1>2. \A o : Do("help", "filter", o).op = "filter" /\ Do("help", "qdisc", o).op = "qdisc"
    BY DEF Do
  <1>. QED
    BY <1>1, <1>2 DEF Detaches, Shuts, Do

(* While a detach waits, so does a delete; and what is attached has its detach as long as deletes wait. *)
LEMMA HookAdvance ==
    ASSUME Lists, Advance
    PROVE  /\ After(todo', Detaches, Do("help", "delete", "QUIC"))
           /\ HasDel("help")' /\ attached # <<>> /\ Head(todo) # Detaches =>
                  Detaches \in T' /\ Before(todo', Detaches, Shuts("help"))
           /\ process = "stopping" /\ attached # <<>> /\ Head(todo) # Detaches =>
                  Detaches \in T' /\ Before(todo', Detaches, Shuts("help"))
           /\ Plan /\ HasDel("help") /\ ~HasDel("help")' => attached = <<>>
           /\ Head(todo) = Detaches => HasDel("help")
           /\ Detaches \in T => HasDel("help")
  <1>0. TypeInv /\ ListInv /\ JobInv /\ HookList
    BY DEF Lists
  <1>1. /\ todo \in Seq(Commands) /\ todo # <<>> /\ todo' = Tail(todo)
        /\ T = {Head(todo)} \cup T'
        /\ \A c : HasDel(c)' => HasDel(c)
        /\ \A c : Head(todo).op # "delete" \/ Head(todo).comp # c => (HasDel(c)' <=> HasDel(c))
    BY <1>0, AdvanceIs DEF TypeInv, Advance
  <1>2. After(todo', Detaches, Do("help", "delete", "QUIC"))
    BY <1>0, <1>1, TailAfter DEF ListInv, Detaches
  <1>3. attached # <<>> /\ (HasDel("help") \/ process = "stopping") => Detaches \in T /\ Before(todo, Detaches, Shuts("help"))
    BY <1>0 DEF HookList, Shuts
  <1>4. Before(todo, Detaches, Shuts("help")) /\ Head(todo) # Detaches => Before(todo', Detaches, Shuts("help"))
    BY <1>1, TailBefore
  <1>5. Detaches \in T' => HasDel("help")'
    <2>1. HAVE Detaches \in T'
    <2>2. Do("help", "delete", "QUIC") \in T'
      BY <1>2, <2>1 DEF After, T, ToSet
    <2>. QED
      BY <2>2, HookNames DEF HasDel
  <1>6. Detaches \in T => HasDel("help")
    <2>1. HAVE Detaches \in T
    <2>2. After(todo, Detaches, Do("help", "delete", "QUIC"))
      BY <1>0 DEF ListInv, Detaches
    <2>3. Do("help", "delete", "QUIC") \in T
      BY <2>1, <2>2 DEF After, T, ToSet
    <2>. QED
      BY <2>3, HookNames DEF HasDel
  <1>7. Plan /\ HasDel("help") /\ ~HasDel("help")' => attached = <<>>
    <2>1. SUFFICES ASSUME HasDel("help"), ~HasDel("help")', attached # <<>> PROVE FALSE
      OBVIOUS
    <2>2. Head(todo).op = "delete" /\ Detaches \in T
      BY <1>1, <1>3, <2>1
    <2>3. Head(todo) # Detaches
      BY <2>2, HookNames
    <2>. QED
      BY <1>1, <1>5, <2>1, <2>2, <2>3
  <1>. QED
    BY <1>1, <1>2, <1>3, <1>4, <1>6, <1>7

HookOps == {"tcx", "nowan", "qdisc", "filter", "detach"}

(* Commands that have nothing to do with hooks; a detach; links; a filter. *)
LEMMA AdvanceHooks ==
    Lists /\ Advance /\ UNCHANGED attached /\ made \subseteq made' /\ Head(todo).op \notin HookOps => HookList'
  <1>. SUFFICES ASSUME Lists, Advance, UNCHANGED attached, made \subseteq made', Head(todo).op \notin HookOps PROVE HookList'
    OBVIOUS
  <1>0. TypeInv /\ ListInv /\ JobInv /\ HookList
    BY DEF Lists
  <1>1. /\ T = {Head(todo)} \cup T' /\ (Aborting' <=> Aborting) /\ ~Booting /\ ~Booting' /\ (Plan' <=> Plan)
        /\ \A c : HasDel(c)' => HasDel(c)
        /\ UsesBPF' <=> UsesBPF
        /\ eligible' = eligible
    BY <1>0, AdvanceIs
  <1>2. process' = process /\ next' = next /\ attached' = attached /\ (Running' <=> Running)
    BY DEF Advance, Running
  <1>3. Head(todo) # Detaches
    BY HookNames DEF HookOps
  <1>4. /\ First' <=> First
        /\ Hooking' <=> Hooking
    BY <1>1 DEF First, Hooking, HookOps
  <1>5. FilterCmds' = FilterCmds /\ QdiscObjs' = QdiscObjs
    <2>1. \A o : Head(todo) # Do("help", "filter", o) /\ Head(todo) # Do("help", "qdisc", o)
      BY HookNames DEF HookOps
    <2>2. selectedPrograms(next)' = selectedPrograms(next)
      BY <1>2 DEF selectedPrograms
    <2>. QED
      BY <1>1, <2>1, <2>2 DEF FilterCmds, QdiscObjs
  <1>6. Part' <=> Part
    <2>1. Classic(next)' = Classic(next)
      BY <1>1, <1>2 DEF Classic, selectedPrograms
    <2>. QED
      BY <1>2, <1>4, <1>5, <2>1 DEF Part
  <1>7. (attached # <<>> => Running /\ "help" \in made)'
    BY <1>0, <1>2 DEF HookList
  <1>8. (attached # <<>> /\ (HasDel("help") \/ process = "stopping") => Detaches \in T /\ Before(todo, Detaches, Shuts("help")))'
    BY <1>2, <1>3, HookAdvance
  <1>9. (Aborting /\ HasDel("help") => attached = <<>>)'
    BY <1>0, <1>1, <1>2 DEF HookList
  <1>10. (Plan /\ ~HasDel("help") /\ (First \/ ~UsesBPF) => attached = <<>>)'
    <2>1. CASE HasDel("help")
      BY <1>1, <1>2, <2>1, HookAdvance
    <2>2. CASE ~HasDel("help")
      BY <1>0, <1>1, <1>2, <1>4, <2>2 DEF HookList
    <2>. QED
      BY <2>1, <2>2
  <1>11. /\ (First \/ Hooking => UsesBPF)'
         /\ (Plan /\ ~Booting /\ UsesBPF => First \/ Part)'
         /\ (First => ~Hooking)'
         /\ (Plan /\ UsesBPF /\ (HasDel("help") \/ Do("help", "shut", Nowhere) \in T) => First)'
    BY <1>0, <1>1, <1>4, <1>6 DEF HookList
  <1>. QED
    BY <1>7, <1>8, <1>9, <1>10, <1>11 DEF HookList, Shuts

LEMMA DetachHooks ==
    Lists /\ Advance /\ Head(todo).op = "detach" /\ attached' = <<>> => HookList'
  <1>. SUFFICES ASSUME Lists, Advance, Head(todo).op = "detach", attached' = <<>> PROVE HookList'
    OBVIOUS
  <1>0. TypeInv /\ ListInv /\ JobInv /\ HookList
    BY DEF Lists
  <1>1. /\ T = {Head(todo)} \cup T' /\ (Aborting' <=> Aborting) /\ ~Booting /\ ~Booting' /\ (Plan' <=> Plan)
        /\ \A c : HasDel(c)' => HasDel(c)
        /\ UsesBPF' <=> UsesBPF
    BY <1>0, AdvanceIs
  <1>2. Head(todo) = Detaches
    <2>1. Head(todo) \in Commands /\ Typed(Head(todo))
      BY <1>0, Now DEF Advance
    <2>. QED
      BY <2>1, DoIs DEF Typed, Detaches
  <1>3. (First' <=> First) /\ (Hooking' <=> Hooking)
    BY <1>1 DEF First, Hooking
  <1>4. HasDel("help")
    BY <1>2, HookAdvance
  <1>5. Plan /\ UsesBPF => First
    BY <1>0, <1>4 DEF HookList
  <1>. QED
    BY <1>0, <1>1, <1>3, <1>5 DEF HookList

LEMMA LinksHooks ==
    Lists /\ Advance /\ Head(todo).op = "tcx" /\ attached' = <<Links>> /\ UNCHANGED made => HookList'
  <1>. SUFFICES ASSUME Lists, Advance, Head(todo).op = "tcx", attached' = <<Links>>, UNCHANGED made PROVE HookList'
    OBVIOUS
  <1>0. TypeInv /\ ListInv /\ JobInv /\ HookList
    BY DEF Lists
  <1>1. /\ T = {Head(todo)} \cup T' /\ (Aborting' <=> Aborting) /\ ~Booting /\ ~Booting' /\ (Plan' <=> Plan)
        /\ \A c : HasDel(c)' => HasDel(c)
        /\ UsesBPF' <=> UsesBPF
    BY <1>0, AdvanceIs
  <1>2. /\ Head(todo) \in Commands /\ Typed(Head(todo)) /\ Head(todo) \in T /\ process # "stopping" /\ Plan
        /\ \A y \in T' : Follows(process, Head(todo), y)
        /\ process' = process /\ (Running' <=> Running) /\ Running
    <2>1. todo # <<>> /\ ToSet(Tail(todo)) = T' /\ process' = process
      BY DEF Advance, T
    <2>2. /\ Head(todo) \in Commands /\ Typed(Head(todo)) /\ Head(todo) \in T /\ process # "stopping" /\ Plan
          /\ process \in {"starting", "restarting", "stopping"}
          /\ Plan => \A y \in ToSet(Tail(todo)) : Follows(process, Head(todo), y)
      BY <1>0, <2>1, Now
    <2>. QED
      BY <2>1, <2>2 DEF Running
  <1>3. Head(todo).comp = "help"
    BY <1>2 DEF Typed
  <1>4. "help" \in made'
    BY <1>0, <1>2, <1>3, HeadMade DEF Advance
  <1>5. \A y \in T' : y.comp = "help" => y.op \notin InstallOps \cup {"delete", "detach", "shut"}
    BY <1>2, <1>3, OpsApart DEF Follows
  <1>6. ~HasDel("help")' /\ Do("help", "shut", Nowhere) \notin T'
    BY <1>5, HookNames DEF HasDel
  <1>7. ~First' /\ ~Hooking'
    <2>1. \A y \in T' : y.op \in {"tcx", "nowan", "qdisc", "filter"} => y.comp = "help"
      BY <1>0, <1>1 DEF ListInv, Typed
    <2>. QED
      BY <1>5, <2>1, OpsApart DEF First, Hooking
  <1>8. UsesBPF
    BY <1>0, <1>2 DEF HookList, First
  <1>9. Part'
    BY <1>7 DEF Part
  <1>. QED
    BY <1>0, <1>1, <1>2, <1>4, <1>6, <1>7, <1>8, <1>9 DEF HookList

LEMMA FilterHooks ==
    Lists /\ Advance /\ Head(todo).op = "filter" /\ attached' = Append(attached, Head(todo).obj) /\ UNCHANGED made => HookList'
  <1>. SUFFICES ASSUME Lists, Advance, Head(todo).op = "filter", attached' = Append(attached, Head(todo).obj), UNCHANGED made
       PROVE HookList'
    OBVIOUS
  <1>. DEFINE o == Head(todo).obj
  <1>0. TypeInv /\ ListInv /\ JobInv /\ HookList
    BY DEF Lists
  <1>1. /\ T = {Head(todo)} \cup T' /\ (Aborting' <=> Aborting) /\ ~Booting /\ ~Booting' /\ (Plan' <=> Plan)
        /\ \A c : HasDel(c)' => HasDel(c)
        /\ UsesBPF' <=> UsesBPF
        /\ eligible' = eligible
    BY <1>0, AdvanceIs
  <1>2. /\ Head(todo) \in Commands /\ Typed(Head(todo)) /\ Head(todo) \in T /\ process # "stopping" /\ Plan
        /\ \A y \in T' : Follows(process, Head(todo), y)
        /\ process' = process /\ (Running' <=> Running) /\ Running /\ next' = next
    <2>1. todo # <<>> /\ ToSet(Tail(todo)) = T' /\ process' = process /\ next' = next
      BY DEF Advance, T
    <2>2. /\ Head(todo) \in Commands /\ Typed(Head(todo)) /\ Head(todo) \in T /\ process # "stopping" /\ Plan
          /\ process \in {"starting", "restarting", "stopping"}
          /\ Plan => \A y \in ToSet(Tail(todo)) : Follows(process, Head(todo), y)
      BY <1>0, <2>1, Now
    <2>. QED
      BY <2>1, <2>2 DEF Running
  <1>3. Head(todo).comp = "help" /\ o \in AllFilters /\ Head(todo) = Do("help", "filter", o)
    BY <1>2, DoIs DEF Typed
  <1>4. "help" \in made'
    BY <1>0, <1>2, <1>3, HeadMade DEF Advance
  <1>5. \A y \in T' : y.comp = "help" => y.op \notin {"delete", "detach", "shut"} /\ (y.op = "filter" => y.obj # o)
    BY <1>2, <1>3, OpsApart DEF Follows
  <1>6. ~HasDel("help")' /\ Do("help", "shut", Nowhere) \notin T'
    BY <1>5, HookNames DEF HasDel
  <1>7. Hooking /\ UsesBPF /\ ~First /\ ~First'
    <2>1. Hooking
      BY <1>2 DEF Hooking
    <2>. QED
      BY <1>0, <1>1, <2>1 DEF HookList, First
  <1>8. Part
    BY <1>0, <1>1, <1>2, <1>7 DEF HookList
  <1>9. Part'
    <2>1. attached \in Seq(Hooks) /\ o \in Hooks
      BY <1>0, <1>3 DEF TypeInv, Hooks
    <2>2. ToSet(attached') = ToSet(attached) \cup {o}
      <3>1. PICK s \in Seq(Hooks), e \in Hooks : s = attached /\ e = o
        BY <2>1
      <3>2. PICK u \in Seq(Hooks) : u = <<e>> /\ ToSet(u) = {e}
        BY One
      <3>3. ToSet(s \o u) = ToSet(s) \cup ToSet(u)
        BY Joined
      <3>4. Append(s, e) = s \o u
        BY <3>2
      <3>. QED
        BY <3>1, <3>2, <3>3, <3>4
    <2>3. Links \notin AllFilters
      BY FilterFacts DEF Links
    <2>4. FilterCmds' = FilterCmds \ {o} /\ o \in FilterCmds
      <3>1. \A q \in AllFilters : Do("help", "filter", q) \in T' <=> Do("help", "filter", q) \in T /\ q # o
        <4>1. TAKE q \in AllFilters
        <4>2. CASE q = o
          <5>1. PICK y : y = Do("help", "filter", q)
            OBVIOUS
          <5>2. y.comp = "help" /\ y.op = "filter" /\ y.obj = o
            BY <4>2, <5>1 DEF Do
          <5>. QED
            BY <1>5, <4>2, <5>1, <5>2
        <4>3. CASE q # o
          BY <1>1, <1>3, <4>3, HookNames
        <4>. QED
          BY <4>2, <4>3
      <3>. QED
        BY <1>2, <1>3, <3>1 DEF FilterCmds
    <2>5. QdiscObjs' = QdiscObjs
      <3>1. \A q : Do("help", "qdisc", q) # Head(todo)
        BY HookNames
      <3>2. selectedPrograms(next)' = selectedPrograms(next)
        BY <1>2 DEF selectedPrograms
      <3>. QED
        BY <1>1, <3>1, <3>2 DEF QdiscObjs
    <2>6. Classic(next)' = Classic(next)
      BY <1>1, <1>2 DEF Classic, selectedPrograms
    <2>7. /\ Links \notin ToSet(attached)
          /\ ToSet(attached) \cup FilterCmds \cup QdiscObjs = Classic(next)
          /\ ToSet(attached) \cap (FilterCmds \cup QdiscObjs) = {} /\ FilterCmds \cap QdiscObjs = {}
      BY <1>7, <1>8, <1>2 DEF Part, Hooking
    <2>8. /\ Links \notin ToSet(attached')
          /\ ToSet(attached') \cup FilterCmds' \cup QdiscObjs' = Classic(next)'
          /\ ToSet(attached') \cap (FilterCmds' \cup QdiscObjs') = {} /\ FilterCmds' \cap QdiscObjs' = {}
      BY <1>3, <2>2, <2>3, <2>4, <2>5, <2>6, <2>7
    <2>. QED
      BY <2>8 DEF Part
  <1>. QED
    BY <1>0, <1>1, <1>2, <1>4, <1>6, <1>7, <1>9 DEF HookList

(* The list gets some BPF programs in the place of its first command. *)
Grow(L) ==
    /\ todo # <<>> /\ Head(todo).op \in {"tcx", "qdisc"} /\ todo' = L \o Tail(todo)
    /\ UNCHANGED <<process, failed, slipped, host, type, next, starts, dirty, made, cfg, attached, watching>>
Programs(L) == Segment(L, "help") /\ (\A p : InOrder(p, L)) /\ \A x \in ToSet(L) : x.op \in {"qdisc", "filter"}

(* The list stays what it should be. *)
LEMMA GrowIs ==
    ASSUME Lists, NEW L, Programs(L), Grow(L)
    PROVE  /\ todo' \in Seq(Commands) /\ T' = ToSet(L) \cup ToSet(Tail(todo)) /\ Proceeds
           /\ Head(todo).comp = "help" /\ Head(todo) \in Commands /\ Typed(Head(todo)) /\ Head(todo) \in T
           /\ T = {Head(todo)} \cup ToSet(Tail(todo)) /\ Plan /\ InOrder(process, Tail(todo)) /\ Tail(todo) \in Seq(Commands)
           /\ \A y \in ToSet(Tail(todo)) : Follows(process, Head(todo), y)
           /\ \A y \in ToSet(Tail(todo)) : y.comp = "help" => y.op \notin {"delete", "detach", "shut", "tcx", "nowan"} \/ (Head(todo).op = "qdisc" /\ y.op \in {"tcx", "nowan"})
           /\ process # "stopping" /\ Running
  <1>0. TypeInv /\ ListInv
    BY DEF Lists
  <1>1. /\ Head(todo) \in Commands /\ Typed(Head(todo)) /\ Head(todo) \in T
        /\ T = {Head(todo)} \cup ToSet(Tail(todo)) /\ Plan /\ InOrder(process, Tail(todo)) /\ Tail(todo) \in Seq(Commands)
        /\ \A y \in ToSet(Tail(todo)) : Follows(process, Head(todo), y)
        /\ process # "stopping" /\ Running
    <2>1. /\ Head(todo) \in Commands /\ Typed(Head(todo)) /\ Head(todo) \in T
          /\ T = {Head(todo)} \cup ToSet(Tail(todo)) /\ Tail(todo) \in Seq(Commands)
          /\ Plan => InOrder(process, Tail(todo)) /\ \A y \in ToSet(Tail(todo)) : Follows(process, Head(todo), y)
          /\ process = "stopping" => Head(todo).op \in {"delete", "detach", "shut", "watch"}
          /\ Aborting => Head(todo).op \in {"delete", "watch", "abort"}
          /\ process = "stopping" \/ Plan \/ Aborting
          /\ process \in {"starting", "restarting", "stopping"}
      BY <1>0, Now DEF Grow
    <2>. QED
      BY <2>1 DEF Grow, Running
  <1>2. todo' \in Seq(Commands) /\ T' = ToSet(L) \cup ToSet(Tail(todo))
    <2>1. PICK t \in Seq(Commands) : t = Tail(todo)
      BY <1>1
    <2>2. L \in Seq(Commands)
      BY DEF Programs, Segment
    <2>3. L \o t \in Seq(Commands) /\ ToSet(L \o t) = ToSet(L) \cup ToSet(t)
      BY <2>2, Joined
    <2>4. todo' = L \o t /\ T' = ToSet(todo')
      BY <2>1 DEF Grow, T
    <2>. QED
      BY <2>1, <2>3, <2>4
  <1>3. Head(todo).comp = "help"
    BY <1>1 DEF Typed, Grow
  <1>4. Proceeds
    <2>1. \A x \in ToSet(L) : x.comp = "help" /\ x.op \in {"qdisc", "filter"}
      BY DEF Programs, Segment
    <2>. QED
      BY <1>1, <1>2, <1>3, <2>1 DEF Grow, Proceeds
  <1>5. \A y \in ToSet(Tail(todo)) : y.comp = "help" => y.op \notin {"delete", "detach", "shut", "tcx", "nowan"} \/ (Head(todo).op = "qdisc" /\ y.op \in {"tcx", "nowan"})
    BY <1>1, <1>3, OpsApart DEF Follows, Grow
  <1>. QED
    BY <1>1, <1>2, <1>3, <1>4, <1>5

LEMMA GrowList ==
    ASSUME Lists, NEW L, Programs(L), Grow(L),
           \A x \in ToSet(L), y \in ToSet(Tail(todo)) : y.comp = "help" /\ x.op = y.op => x.obj # y.obj
    PROVE  ListInv' /\ JobInv'
  <1>0. TypeInv /\ ListInv /\ JobInv
    BY DEF Lists
  <1>1. /\ todo' \in Seq(Commands) /\ T' = ToSet(L) \cup ToSet(Tail(todo)) /\ Proceeds
        /\ Head(todo).comp = "help" /\ T = {Head(todo)} \cup ToSet(Tail(todo)) /\ Plan /\ InOrder(process, Tail(todo))
        /\ \A y \in ToSet(Tail(todo)) : Follows(process, Head(todo), y)
        /\ \A y \in ToSet(Tail(todo)) : y.comp = "help" => y.op \notin {"delete", "detach", "shut"}
        /\ process # "stopping" /\ Tail(todo) \in Seq(Commands)
    BY GrowIs
  <1>2. /\ (Aborting' <=> Aborting) /\ ~Booting' /\ ~Aborting' /\ Plan'
    BY <1>0, <1>1, ProceedsIs DEF Plan
  <1>3. JobInv'
    <2>1. Adopting /\ (watching' => watching)
      BY DEF Grow, Adopting
    <2>. QED
      BY <1>1, <2>1, AdvanceJobs
  <1>4. /\ process' = process /\ host' = host /\ type' = type /\ todo' = L \o Tail(todo)
        /\ L \in Seq(Commands) /\ InOrder(process, L)
        /\ \A x \in ToSet(L) : x.comp = "help" /\ Typed(x) /\ x.op \in {"qdisc", "filter"}
    BY DEF Grow, Programs, Segment
  <1>5. (\A x \in T : Typed(x))'
    BY <1>0, <1>1, <1>4, TypedSame DEF ListInv
  <1>6. \A x \in ToSet(L), y \in ToSet(Tail(todo)) : Follows(process, x, y)
    <2>1. TAKE x \in ToSet(L), y \in ToSet(Tail(todo))
    <2>2. x.comp = "help" /\ x.op \in {"qdisc", "filter"} /\ Follows(process, Head(todo), y) /\ (Head(todo).op \in {"tcx", "qdisc"})
      BY <1>1, <1>4 DEF Grow
    <2>3. Place(process, x.comp) <= Place(process, y.comp)
      BY <1>1, <2>2 DEF Follows
    <2>4. ASSUME y.comp = "help" PROVE y.op \notin {"delete", "detach", "shut"} /\ (y.op = "adopt" => process # "starting")
      BY <1>1, <2>2, <2>4 DEF Follows
    <2>5. y.comp = "help" /\ x.op = y.op => x.obj # y.obj
      OBVIOUS
    <2>. QED
      BY <2>2, <2>3, <2>4, <2>5, OpsApart DEF Follows
  <1>7. (Plan => InOrder(process, todo))'
    <2>1. PICK t \in Seq(Commands) : t = Tail(todo)
      BY <1>1
    <2>2. InOrder(process, L \o t)
      BY <1>1, <1>4, <1>6, <2>1, JoinOrder
    <2>. QED
      BY <1>4, <2>1, <2>2
  <1>8. /\ (process \notin {"starting", "restarting", "stopping"} => todo = <<>>)'
        /\ (process = "stopping" => \A x \in T : x.op \in {"delete", "detach", "shut", "watch"})'
        /\ (Aborting => process = "restarting" /\ \A x \in T : x.op \in {"delete", "watch", "abort"})'
        /\ (Booting => process = "starting" /\ todo = <<Boots>> /\ made = {} /\ attached = <<>> /\ ~watching)'
    <2>1. process \in {"starting", "restarting", "stopping"}
      BY <1>0, Now DEF Grow
    <2>. QED
      BY <1>1, <1>2, <1>4, <2>1
  <1>9. (process = "starting" => \A x \in T : x.op \notin {"shut", "detach"})'
    BY <1>0, <1>1, <1>4 DEF ListInv
  <1>10. After(todo, Do("help", "detach", Nowhere), Do("help", "delete", "QUIC"))'
    <2>1. Detaches \notin T'
      BY <1>1, <1>4, HookNames
    <2>2. After(todo', Detaches, Do("help", "delete", "QUIC"))
      BY <2>1 DEF After, T, ToSet
    <2>. QED
      BY <2>2 DEF Detaches
  <1>11. (\A i \in DOMAIN todo : todo[i] = Aborts => i = Len(todo))'
    BY <1>2 DEF Aborting, T, ToSet
  <1>. QED
    BY <1>3, <1>5, <1>7, <1>8, <1>9, <1>10, <1>11 DEF ListInv

LEMMA QdiscFilters ==
    ASSUME host \in Hosts, NEW d \in Configs, NEW i \in Interfaces
    PROVE  FiltersOf(d, i) = {Filters[i][p] : p \in 1..selectedPrograms(d)} /\ FiltersOf(d, i) \subseteq AllFilters
           /\ \A j \in Interfaces : i # j => FiltersOf(d, i) \cap FiltersOf(d, j) = {}
  <1>1. selectedPrograms(d) \in 0..4
    BY SelectIs
  <1>2. \A p \in 1..selectedPrograms(d) : p \in 1..4
    BY <1>1
  <1>. QED
    BY <1>2, FiltersAre, FilterList DEF FiltersOf

(* The links could not be attached. *)
LEMMA Fallback ==
    ASSUME Lists, Head(todo).op = "tcx", Grow(attachAllClassic)
    PROVE  ListInv' /\ JobInv' /\ HookList'
  <1>. DEFINE L == attachAllClassic
  <1>0. TypeInv /\ ListInv /\ JobInv /\ HookList
    BY DEF Lists
  <1>1. Segment(L, "help") /\ (\A p : InOrder(p, L)) /\ ToSet(L) = {Do("help", "qdisc", i) : i \in eligible}
    BY <1>0, QdiscList DEF TypeInv
  <1>2. Programs(L)
    BY <1>1, HookNames DEF Programs
  <1>. HIDE DEF L
  <1>2a. Grow(L)
    BY DEF L
  <1>3. /\ todo' \in Seq(Commands) /\ T' = ToSet(L) \cup ToSet(Tail(todo)) /\ Proceeds
        /\ Head(todo).comp = "help" /\ Head(todo) \in T /\ T = {Head(todo)} \cup ToSet(Tail(todo)) /\ Plan
        /\ \A y \in ToSet(Tail(todo)) : Follows(process, Head(todo), y)
        /\ \A y \in ToSet(Tail(todo)) : y.comp = "help" => y.op \notin {"delete", "detach", "shut", "tcx", "nowan"}
        /\ process # "stopping" /\ Running
    BY <1>2, <1>2a, GrowIs
  <1>4. \A y \in ToSet(Tail(todo)) : y.comp = "help" => y.op \notin InstallOps
    BY <1>3 DEF Follows
  <1>5. ListInv' /\ JobInv'
    <2>1. \A x \in ToSet(L), y \in ToSet(Tail(todo)) : y.comp = "help" /\ x.op = y.op => x.obj # y.obj
      BY <1>2, <1>4, OpsApart DEF Programs
    <2>. QED
      BY <1>2, <1>2a, <2>1, GrowList
  <1>6. First /\ UsesBPF /\ ~Hooking
    BY <1>0, <1>3 DEF First, HookList
  <1>7. ~HasDel("help") /\ attached = <<>>
    <2>1. ~HasDel("help")
      BY <1>3 DEF HasDel
    <2>. QED
      BY <1>0, <1>3, <1>6, <2>1 DEF HookList
  <1>8. /\ process' = process /\ next' = next /\ attached' = attached /\ host' = host
        /\ eligible' = eligible /\ selectedPrograms(next)' = selectedPrograms(next) /\ (UsesBPF' <=> UsesBPF)
    BY DEF Grow, eligible, selectedPrograms, UsesBPF, HelperWanted
  <1>9. /\ (Aborting' <=> Aborting) /\ ~Booting' /\ (Plan' <=> Plan)
    BY <1>0, <1>3, ProceedsIs
  <1>10. ~HasDel("help")' /\ Do("help", "shut", Nowhere) \notin T' /\ ~First'
    <2>1. \A x \in T' : x.comp = "help" => x.op \notin {"delete", "shut", "tcx", "nowan"}
      BY <1>2, <1>3 DEF Programs
    <2>2. \A x \in T' : x.op \in {"tcx", "nowan"} => x.comp = "help"
      <3>1. \A x \in T' : Typed(x)'
        BY <1>5 DEF ListInv
      <3>. QED
        BY <3>1 DEF Typed
    <2>. QED
      BY <2>1, <2>2, HookNames DEF HasDel, First
  <1>11. FilterCmds' = {} /\ QdiscObjs' = Classic(next)'
    <2>1. \A o : Do("help", "filter", o) \notin T'
      <3>1. TAKE o
      <3>2. PICK y : y = Do("help", "filter", o)
        OBVIOUS
      <3>3. y.op = "filter" /\ y.comp = "help"
        BY <3>2 DEF Do
      <3>4. y \notin ToSet(L)
        BY <1>1, <3>3, HookNames DEF L
      <3>. QED
        BY <1>3, <1>4, <3>2, <3>3, <3>4, OpsApart
    <2>2. \A i : Do("help", "qdisc", i) \in T' <=> i \in eligible
      <3>1. TAKE i
      <3>2. PICK y : y = Do("help", "qdisc", i)
        OBVIOUS
      <3>3. y.op = "qdisc" /\ y.comp = "help" /\ y \notin ToSet(Tail(todo))
        BY <1>4, <3>2, OpsApart DEF Do
      <3>4. y \in ToSet(L) <=> i \in eligible
        BY <1>1, <3>2, HookNames DEF L
      <3>. QED
        BY <1>3, <3>2, <3>3, <3>4
    <2>3. eligible \subseteq Interfaces
      BY <1>0, EligibleIs DEF TypeInv
    <2>4. QdiscObjs' = {o \in AllFilters : \E i \in eligible, p \in 1..selectedPrograms(next) : o = Filters[i][p]}
      BY <1>8, <2>2, <2>3 DEF QdiscObjs
    <2>. QED
      BY <1>8, <2>1, <2>4 DEF FilterCmds, Classic
  <1>12. Part'
    <2>1. ToSet(attached') = {}
      BY <1>7, <1>8, Empty
    <2>. QED
      BY <1>11, <2>1 DEF Part
  <1>. QED
    BY <1>5, <1>6, <1>7, <1>8, <1>10, <1>12 DEF HookList

(* The filters of an interface take the place of its qdisc. *)
LEMMA Clsact ==
    ASSUME Lists, Head(todo).op = "qdisc", Grow(addClsBpfFilters(next, Head(todo).obj))
    PROVE  ListInv' /\ JobInv' /\ HookList'
  <1>. DEFINE i == Head(todo).obj
              L == addClsBpfFilters(next, i)
              N == FiltersOf(next, i)
  <1>0. TypeInv /\ ListInv /\ JobInv /\ HookList /\ host \in Hosts /\ next \in Configs
    BY DEF Lists, TypeInv
  <1>1. i \in eligible /\ eligible \subseteq Interfaces /\ Head(todo) = Do("help", "qdisc", i) /\ Head(todo) \in T
    <2>1. Typed(Head(todo)) /\ Head(todo) \in Commands /\ Head(todo) \in T
      BY <1>0, Now DEF Grow
    <2>2. Head(todo).comp = "help" /\ i \in eligible
      BY <2>1 DEF Typed
    <2>. QED
      BY <1>0, <2>1, <2>2, DoIs, EligibleIs
  <1>2. /\ Segment(L, "help") /\ (\A p : InOrder(p, L)) /\ ToSet(L) = {Do("help", "filter", o) : o \in N}
        /\ N \subseteq AllFilters
    BY <1>0, <1>1, FilterList
  <1>3. Programs(L)
    BY <1>2, HookNames DEF Programs
  <1>4. Grow(L)
    OBVIOUS
  <1>. HIDE DEF L
  <1>5. /\ T' = ToSet(L) \cup ToSet(Tail(todo)) /\ Proceeds
        /\ Head(todo).comp = "help" /\ T = {Head(todo)} \cup ToSet(Tail(todo)) /\ Plan
        /\ \A y \in ToSet(Tail(todo)) : Follows(process, Head(todo), y)
        /\ \A y \in ToSet(Tail(todo)) : y.comp = "help" => y.op \notin {"delete", "detach", "shut"}
        /\ process # "stopping" /\ Running
    BY <1>3, <1>4, GrowIs
  <1>6. Hooking /\ UsesBPF /\ ~First
    BY <1>0, <1>1 DEF Hooking, HookList
  <1>7. /\ Links \notin ToSet(attached)
        /\ ToSet(attached) \cup FilterCmds \cup QdiscObjs = Classic(next)
        /\ ToSet(attached) \cap (FilterCmds \cup QdiscObjs) = {} /\ FilterCmds \cap QdiscObjs = {}
    <2>1. ~Booting
      BY <1>0, <1>5, ProceedsIs
    <2>2. Part
      BY <1>0, <1>5, <1>6, <2>1 DEF HookList
    <2>. QED
      BY <1>6, <2>2 DEF Part
  <1>8. N \subseteq QdiscObjs
    BY <1>0, <1>1, <1>2 DEF QdiscObjs, FiltersOf
  <1>9. ListInv' /\ JobInv'
    <2>1. ASSUME NEW x \in ToSet(L), NEW y \in ToSet(Tail(todo)), y.comp = "help", x.op = y.op, x.obj = y.obj PROVE FALSE
      <3>1. PICK o \in N : x = Do("help", "filter", o)
        BY <1>2, <2>1
      <3>2. x.op = "filter" /\ x.obj = o
        BY <3>1 DEF Do
      <3>3. y \in Commands
        BY <1>0, <1>5, Now DEF Grow
      <3>4. y = Do("help", "filter", o)
        BY <2>1, <3>2, <3>3, DoIs
      <3>5. o \in FilterCmds
        BY <1>2, <1>5, <3>4 DEF FilterCmds
      <3>. QED
        BY <1>7, <1>8, <3>1, <3>5
    <2>. QED
      BY <1>3, <1>4, <2>1, GrowList
  <1>10. /\ process' = process /\ next' = next /\ attached' = attached /\ host' = host /\ made' = made
         /\ eligible' = eligible /\ selectedPrograms(next)' = selectedPrograms(next) /\ (UsesBPF' <=> UsesBPF)
    BY DEF Grow, eligible, selectedPrograms, UsesBPF, HelperWanted
  <1>11. ~HasDel("help")' /\ Do("help", "shut", Nowhere) \notin T' /\ ~First'
    <2>1. \A x \in T' : x.comp = "help" => x.op \notin {"delete", "shut"}
      BY <1>3, <1>5 DEF Programs
    <2>2. \A x \in T' : x.op \notin {"tcx", "nowan"}
      BY <1>3, <1>5, <1>6 DEF Programs, First
    <2>. QED
      BY <2>1, <2>2, HookNames DEF HasDel, First
  <1>12. FilterCmds' = FilterCmds \cup N
    <2>1. \A o : Do("help", "filter", o) \in T' <=> Do("help", "filter", o) \in T \/ o \in N
      <3>1. TAKE o
      <3>2. PICK y : y = Do("help", "filter", o)
        OBVIOUS
      <3>3. y \in ToSet(L) <=> o \in N
        BY <1>2, <3>2, HookNames
      <3>4. y # Head(todo)
        BY <3>2, HookNames
      <3>. QED
        BY <1>5, <3>2, <3>3, <3>4
    <2>. QED
      BY <1>2, <2>1 DEF FilterCmds
  <1>13. QdiscObjs' = QdiscObjs \ N
    <2>1. \A j : Do("help", "qdisc", j) \in T' <=> Do("help", "qdisc", j) \in T /\ j # i
      <3>1. TAKE j
      <3>2. PICK y : y = Do("help", "qdisc", j)
        OBVIOUS
      <3>3. y \notin ToSet(L) /\ y.op = "qdisc" /\ y.comp = "help" /\ y.obj = j
        BY <1>2, <3>2, HookNames DEF Do
      <3>4. j = i => y \notin ToSet(Tail(todo))
        BY <1>5, <3>3 DEF Follows
      <3>5. y = Head(todo) <=> j = i
        BY <1>1, <3>2, <3>3
      <3>. QED
        BY <1>5, <3>2, <3>3, <3>4, <3>5
    <2>2. QdiscObjs = UNION {FiltersOf(next, j) : j \in {j \in Interfaces : Do("help", "qdisc", j) \in T}}
      BY <1>0, QdiscFilters DEF QdiscObjs, FiltersOf
    <2>3. QdiscObjs' = UNION {FiltersOf(next, j) : j \in {j \in Interfaces : Do("help", "qdisc", j) \in T'}}
      BY <1>0, <1>10, QdiscFilters DEF QdiscObjs, FiltersOf
    <2>4. \A j \in Interfaces : j # i => FiltersOf(next, j) \cap N = {}
      BY <1>0, <1>1, QdiscFilters
    <2>. QED
      BY <1>1, <2>1, <2>2, <2>3, <2>4
  <1>14. Part'
    <2>1. Classic(next)' = Classic(next)
      BY <1>10 DEF Classic
    <2>2. /\ Links \notin ToSet(attached')
          /\ ToSet(attached') \cup FilterCmds' \cup QdiscObjs' = Classic(next)'
          /\ ToSet(attached') \cap (FilterCmds' \cup QdiscObjs') = {} /\ FilterCmds' \cap QdiscObjs' = {}
      BY <1>7, <1>8, <1>10, <1>12, <1>13, <2>1
    <2>. QED
      BY <2>2 DEF Part
  <1>15. "help" \in made
    BY <1>0, <1>1, <1>5, HeadMade DEF Grow
  <1>. QED
    BY <1>0, <1>5, <1>6, <1>9, <1>10, <1>11, <1>14, <1>15 DEF HookList, Running

(* What a command says of a configuration that only the type and the machine matter for. *)
LEMMA SameCmds ==
    ASSUME host' = host, type' = type, NEW d, next' = d
    PROVE  \A c \in Components : /\ Cmds(c, next)' = Cmds(c, d) /\ (Enabled(c, next)' <=> Enabled(c, d))
                                 /\ (ByBPF(c, next)' <=> ByBPF(c, d)) /\ Backend(next)' = Backend(d)
  <1>1. TAKE c \in Components
  <1>2. /\ (Enabled(c, next)' <=> Enabled(c, d)) /\ (ByBPF(c, next)' <=> ByBPF(c, d)) /\ Backend(next)' = Backend(d)
    BY DEF Enabled, ByBPF, HelperWanted, Components, Backend, SelectNFT, QueueNeeded
  <1>3. Install(c, next)' = Install(c, d)
    <2>1. HelperNft(next)' = HelperNft(d) /\ HelperIpt(next)' = HelperIpt(d) /\ DesyncIpt(next)' = DesyncIpt(d)
          /\ ServerNft' = ServerNft /\ ServerIpt' = ServerIpt /\ DesyncNft' = DesyncNft
      BY DEF HelperNft, HelperIpt, DesyncNft, DesyncIpt, ServerNft, ServerIpt, TproxyNft, RedirectNft,
       NfqueueNft, TproxyIpt, RedirectIpt, NfqueueIpt, IptSets, AddTproxyRoute
    <2>. QED
      BY <1>2, <2>1 DEF Install, Components
  <1>4. Cmds(c, next)' = Cmds(c, d)
    BY <1>2, <1>3 DEF Cmds
  <1>. QED
    BY <1>2, <1>4

(* Nothing is left to do. *)
LEMMA NoneLeft ==
    ASSUME todo' = <<>>
    PROVE  ListInv' /\ T' = {} /\ ~Aborting' /\ ~Booting' /\ ~First' /\ ~Hooking' /\ \A c : ~HasDel(c)' /\ ~Busy(c)'
  <1>1. T' = {} /\ DOMAIN <<>> = {}
    BY Empty DEF T
  <1>2. ~Aborting' /\ ~Booting' /\ ~First' /\ ~Hooking' /\ \A c : ~HasDel(c)' /\ ~Busy(c)'
    BY <1>1 DEF Aborting, Booting, First, Hooking, HasDel, Busy
  <1>3. InOrder(process', todo') /\ After(todo', Do("help", "detach", Nowhere), Do("help", "delete", "QUIC"))
    BY <1>1 DEF InOrder, After
  <1>4. (\A x \in T : Typed(x))' /\ (\A i \in DOMAIN todo : todo[i] = Aborts => i = Len(todo))'
    BY <1>1
  <1>. QED
    BY <1>1, <1>2, <1>3, <1>4 DEF ListInv

(* The steps that end a list or make a new one: the end, a kill, a restart
   given up, a start. *)
LEMMA FinishLists == Lists /\ Finish => ListInv' /\ JobInv' /\ HookList'
  <1>. SUFFICES ASSUME Lists, Finish PROVE ListInv' /\ JobInv' /\ HookList'
    OBVIOUS
  <1>0. TypeInv /\ ListInv /\ JobInv /\ HookList
    BY DEF Lists
  <1>1. T = {} /\ todo' = <<>>
    BY Empty DEF Finish, T
  <1>2. ListInv' /\ T' = {} /\ ~Aborting' /\ ~Booting' /\ ~First' /\ ~Hooking' /\ \A c : ~HasDel(c)' /\ ~Busy(c)'
    BY <1>1, NoneLeft
  <1>3. ~Aborting /\ ~Booting /\ process' \in {"up", "exited"} /\ Running /\ (process \in {"starting", "restarting"} <=> process' = "up")
    BY <1>1 DEF Finish, Aborting, Booting, Running
  <1>4. \A c \in Components : c \in made /\ process' = "up" => cfg[c] = next
    <2>1. process' = "up" => Plan
      BY <1>3 DEF Plan
    <2>. QED
      BY <1>0, <1>1, <2>1 DEF JobInv
  <1>5. process' = "up" => {"help", "srv"} \subseteq made
    BY <1>0, <1>1, <1>3 DEF JobInv
  <1>6. JobInv'
    <2>1. UNCHANGED <<host, type, cfg, next, made, watching, slipped, starts, dirty>> /\ failed' = FALSE
      BY DEF Finish, bounds
    <2>2. ~Plan' /\ (process' # "starting" /\ process' # "restarting" /\ process' # "killed" /\ process' # "off")
      BY <1>3 DEF Plan
    <2>3. \A c \in made : c \in Components
      BY <1>0 DEF TypeInv
    <2>. QED
      BY <1>0, <1>3, <1>4, <1>5, <2>1, <2>2, <2>3 DEF JobInv, Running
  <1>7. process' = "exited" => attached = <<>>
    <2>1. process' = "exited" => process = "stopping"
      BY DEF Finish
    <2>. QED
      BY <1>0, <1>1, <2>1 DEF HookList
  <1>8. HookList'
    <2>1. attached' = attached /\ made' = made /\ ~Plan'
      BY <1>3 DEF Finish, Plan
    <2>2. process' = "up" => Running'
      BY DEF Running
    <2>. QED
      BY <1>0, <1>2, <1>3, <1>7, <2>1, <2>2 DEF HookList
  <1>. QED
    BY <1>2, <1>6, <1>8

LEMMA KilledLists ==
    Lists /\ Running /\ Killed /\ UNCHANGED <<host, type, cfg, next, made, failures, starts>> => ListInv' /\ JobInv' /\ HookList'
  <1>. SUFFICES ASSUME Lists, Running, Killed, UNCHANGED <<host, type, cfg, next, made, failures, starts>>
                PROVE  ListInv' /\ JobInv' /\ HookList'
    OBVIOUS
  <1>0. TypeInv /\ ListInv /\ JobInv /\ HookList
    BY DEF Lists
  <1>1. todo' = <<>> /\ process' = "killed" /\ attached' = <<>> /\ watching' = FALSE /\ dirty' # {}
    BY DEF Killed
  <1>2. ListInv' /\ T' = {} /\ ~Aborting' /\ ~Booting' /\ ~First' /\ ~Hooking' /\ \A c : ~HasDel(c)' /\ ~Busy(c)'
    BY <1>1, NoneLeft
  <1>3. ~Plan' /\ ~Running'
    BY <1>1 DEF Plan, Running
  <1>4. JobInv'
    BY <1>0, <1>1, <1>3 DEF JobInv, failures
  <1>5. HookList'
    BY <1>1, <1>2, <1>3 DEF HookList
  <1>. QED
    BY <1>2, <1>4, <1>5

LEMMA AbortLists ==
    Lists /\ Doing({"abort"}) /\ Build => ListInv' /\ JobInv' /\ HookList'
  <1>. SUFFICES ASSUME Lists, Doing({"abort"}), Build PROVE  ListInv' /\ JobInv' /\ HookList'
    OBVIOUS
  <1>0. TypeInv /\ ListInv /\ JobInv /\ HookList
    BY DEF Lists
  <1>1. /\ todo' = <<>> /\ process' = "up" /\ failed' = TRUE /\ slipped' = TRUE /\ UNCHANGED <<made, cfg, attached, watching, dirty>>
        /\ UNCHANGED <<host, type, next, starts>> /\ Head(todo).op = "abort" /\ todo # <<>>
    BY DEF Build, Doing, Command, Steady
  <1>2. ListInv' /\ T' = {} /\ ~Aborting' /\ ~Booting' /\ ~First' /\ ~Hooking' /\ \A c : ~HasDel(c)' /\ ~Busy(c)'
    BY <1>1, NoneLeft
  <1>3. process = "restarting" /\ Running
    <2>1. Aborting
      BY <1>0, <1>1, Now
    <2>. QED
      BY <1>0, <2>1 DEF ListInv, Running
  <1>4. ~Plan' /\ Running'
    BY <1>1 DEF Plan, Running
  <1>5. JobInv'
    BY <1>0, <1>1, <1>3, <1>4 DEF JobInv
  <1>6. HookList'
    BY <1>0, <1>1, <1>2, <1>4 DEF HookList
  <1>. QED
    BY <1>2, <1>5, <1>6

LEMMA BootLists == Lists /\ Boot => ListInv' /\ JobInv' /\ HookList'
  <1>. SUFFICES ASSUME Lists, Boot PROVE  ListInv' /\ JobInv' /\ HookList'
    OBVIOUS
  <1>0. TypeInv /\ ListInv /\ JobInv /\ HookList
    BY DEF Lists
  <1>1. /\ todo' = <<Boots>> /\ process' = "starting" /\ made' = {} /\ attached' = <<>> /\ watching' = FALSE
        /\ failed' = FALSE /\ starts' = starts + 1 /\ UNCHANGED <<slipped, host, dirty>> /\ starts \in Nat
    BY <1>0 DEF Boot, Boots, TypeInv
  <1>2. Boots \in Commands /\ Boots.op = "boot" /\ Boots.comp = "srv" /\ Boots.obj = Nowhere
    BY SingleTypes DEF Boots, Do
  <1>3. T' = {Boots} /\ todo' \in Seq(Commands) /\ DOMAIN todo' = {1} /\ todo'[1] = Boots
    <2>1. PICK b \in Commands : b = Boots
      BY <1>2
    <2>2. ToSet(<<b>>) = {b} /\ <<b>> \in Seq(Commands) /\ DOMAIN <<b>> = {1} /\ <<b>>[1] = b
      BY One
    <2>. QED
      BY <1>1, <2>1, <2>2 DEF T
  <1>4. ~Aborting' /\ Booting' /\ ~First' /\ ~Hooking' /\ \A c : ~HasDel(c)' /\ ~Busy(c)'
    <2>1. Aborts.op = "abort"
      BY DEF Aborts, Do
    <2>. QED
      BY <1>2, <1>3, <2>1 DEF Aborting, Booting, First, Hooking, HasDel, Busy
  <1>5. (\A x \in T : Typed(x))'
    BY <1>2, <1>3, OpsApart DEF Typed
  <1>6. /\ (Plan => InOrder(process, todo))'
        /\ After(todo, Do("help", "detach", Nowhere), Do("help", "delete", "QUIC"))'
        /\ (\A i \in DOMAIN todo : todo[i] = Aborts => i = Len(todo))'
    <2>1. \A i, j \in DOMAIN todo' : ~(i < j)
      BY <1>3
    <2>2. Do("help", "detach", Nowhere) # Boots
      BY <1>2 DEF Do
    <2>3. Aborts # Boots
      BY <1>2 DEF Aborts, Do
    <2>. QED
      BY <1>3, <2>1, <2>2, <2>3 DEF InOrder, After
  <1>7. ListInv'
    BY <1>1, <1>2, <1>3, <1>4, <1>5, <1>6 DEF ListInv
  <1>8. JobInv'
    <2>1. starts' > 0 /\ (starts > 0 => starts' > 1)
      BY <1>1
    <2>2. \A x \in T' : x.op \notin PutOps \cup {"fail", "open"}
      BY <1>2, <1>3, OpsApart
    <2>. QED
      BY <1>0, <1>1, <1>4, <2>1, <2>2 DEF JobInv, Running, Plan
  <1>9. HookList'
    <2>1. Do("help", "shut", Nowhere) \notin T'
      BY <1>2, <1>3 DEF Do
    <2>. QED
      BY <1>1, <1>4, <2>1 DEF HookList, Plan
  <1>. QED
    BY <1>7, <1>8, <1>9

(* What a list without hooks in it says of the order. *)
LEMMA NewList ==
    ASSUME NEW L \in Seq(Commands), todo' = L, host' = host, type' = type,
           \A x \in ToSet(L) : Typed(x) /\ x.op \notin {"boot", "abort"},
           process' \in {"starting", "restarting", "stopping"},
           process' \in {"starting", "restarting"} => InOrder(process', L),
           process' = "starting" => \A x \in ToSet(L) : x.op \notin {"shut", "detach"},
           process' = "stopping" => \A x \in ToSet(L) : x.op \in {"delete", "detach", "shut", "watch"},
           After(L, Detaches, Do("help", "delete", "QUIC"))
    PROVE  ListInv' /\ T' = ToSet(L) /\ ~Aborting' /\ ~Booting' /\ (Plan' <=> process' \in {"starting", "restarting"})
  <1>1. T' = ToSet(L) /\ Aborts.op = "abort" /\ Boots.op = "boot"
    BY DEF T, Aborts, Boots, Do
  <1>2. ~Aborting' /\ ~Booting'
    BY <1>1 DEF Aborting, Booting
  <1>3. (\A x \in T : Typed(x))'
    BY <1>1, TypedSame
  <1>4. (\A i \in DOMAIN todo : todo[i] = Aborts => i = Len(todo))'
    BY <1>2 DEF Aborting, T, ToSet
  <1>. QED
    BY <1>1, <1>2, <1>3, <1>4 DEF ListInv, Plan, Detaches

(* runRoot's list, the list of a restart and that of an end. *)
LEMMA BootedLists == Lists /\ Doing({"boot"}) /\ Build => ListInv' /\ JobInv' /\ HookList'
  <1>. SUFFICES ASSUME Lists, Doing({"boot"}), Build PROVE  ListInv' /\ JobInv' /\ HookList'
    OBVIOUS
  <1>0. TypeInv /\ ListInv /\ JobInv /\ HookList
    BY DEF Lists
  <1>1a. PICK d \in Configs : d = next
    BY <1>0 DEF TypeInv
  <1>1. PICK L : d \in Configs /\ d = next /\ L = StartSystem(d)
    BY <1>1a
  <1>2. /\ todo' = L /\ UNCHANGED <<made, cfg, attached, watching, dirty, host, type, next, starts, process, failed, slipped>>
        /\ Head(todo).op = "boot" /\ todo # <<>>
    BY <1>1 DEF Build, Doing, Command, Steady, failures
  <1>3. /\ L \in Seq(Commands) /\ InOrder("starting", L)
        /\ \A x \in ToSet(L) : Typed(x) /\ x.op \notin {"boot", "abort", "shut", "detach"}
        /\ \A c \in Components : Plans(L, c, d, d) \/ (c = "des" /\ \A x \in ToSet(L) : x.comp # "des")
    BY <1>0, <1>1, StartFacts DEF TypeInv, Types
  <1>4. Booting /\ process = "starting" /\ made = {} /\ attached = <<>> /\ ~watching
    <2>1. Booting
      BY <1>0, <1>2, Now
    <2>. QED
      BY <1>0, <2>1 DEF ListInv
  <1>5. After(L, Detaches, Do("help", "delete", "QUIC"))
    <2>1. Detaches \notin ToSet(L)
      BY <1>3, HookNames
    <2>. QED
      BY <1>3, <2>1, JoinAfter
  <1>6. ListInv' /\ T' = ToSet(L) /\ ~Aborting' /\ ~Booting' /\ Plan'
    BY <1>2, <1>3, <1>4, <1>5, NewList
  <1>7. \A c \in Components : (Cmds(c, next)' = Cmds(c, d)) /\ (Enabled(c, next)' <=> Enabled(c, d)) /\ (ByBPF(c, next)' <=> ByBPF(c, d))
    BY <1>1, <1>2, SameCmds
  <1>8. \A x \in ToSet(L) : x.comp \in Components
    <2>1. ToSet(L) \subseteq Commands
      BY <1>3, Within
    <2>. QED
      BY <2>1 DEF Commands
  <1>9. JobInv'
    <2>1. \A c \in {"help", "srv"} : c \in Components /\ Adopts(c) \in T'
      BY <1>3, <1>6 DEF Plans, Components
    <2>2. \A c \in Components : Busy(c)' => Adopts(c) \in T'
      BY <1>3, <1>6 DEF Plans, Busy
    <2>3. (\A x \in T : /\ x.op \in PutOps => x \in Cmds(x.comp, next)
                        /\ x.op \in PutOps \cup {"fail", "open"} => Enabled(x.comp, next) /\ ~ByBPF(x.comp, next))'
      BY <1>3, <1>6, <1>7, <1>8 DEF Plans
    <2>4. process' = "starting" /\ (Running' <=> Running)
      BY <1>2, <1>4 DEF Running
    <2>. QED
      BY <1>0, <1>2, <1>4, <1>6, <2>1, <2>2, <2>3, <2>4 DEF JobInv
  <1>10. HookList'
    <2>1. "help" \in Components /\ (UsesBPF' <=> ByBPF("help", d))
      BY <1>1, <1>2 DEF UsesBPF, ByBPF, HelperWanted, Components
    <2>2. First' => UsesBPF'
      <3>1. \A x \in T' : x.op \in {"tcx", "nowan"} => x.comp = "help"
        BY <1>3, <1>6 DEF Typed
      <3>. QED
        BY <1>3, <1>6, <2>1, <3>1 DEF First, Plans
    <2>3. ~Hooking'
      <3>1. \A x \in T' : x.op \in {"qdisc", "filter"} => x.comp = "help"
        BY <1>3, <1>6 DEF Typed
      <3>. QED
        BY <1>3, <1>6, <2>1, <3>1 DEF Hooking, Plans
    <2>4. UsesBPF' => First'
      BY <1>3, <1>6, <2>1 DEF Plans, First
    <2>. QED
      BY <1>2, <1>4, <1>6, <2>2, <2>3, <2>4 DEF HookList
  <1>. QED
    BY <1>6, <1>9, <1>10

LEMMA RestartLists == Lists /\ Restart => ListInv' /\ JobInv' /\ HookList'
  <1>. SUFFICES ASSUME Lists, Restart PROVE  ListInv' /\ JobInv' /\ HookList'
    OBVIOUS
  <1>0. TypeInv /\ ListInv /\ JobInv /\ HookList
    BY DEF Lists
  <1>1a. PICK d \in Configs : next' = d /\ todo' = RestartSystem(d)
    BY DEF Restart
  <1>1. PICK L : d \in Configs /\ next' = d /\ L = RestartSystem(d) /\ todo' = L
    BY <1>1a
  <1>2. /\ UNCHANGED <<made, cfg, attached, watching, dirty, host, type, starts, failed, slipped>>
        /\ process = "up" /\ process' = "restarting"
    BY DEF Restart, Idle, failures
  <1>2a. {"help", "srv"} \subseteq made
    BY <1>0, <1>2 DEF JobInv
  <1>3. /\ L \in Seq(Commands) /\ InOrder("restarting", L)
        /\ \A x \in ToSet(L) : Typed(x) /\ x.op \notin {"boot", "abort"}
        /\ \A c \in Components : IF c = "des" /\ "des" \notin made THEN \A x \in ToSet(L) : x.comp # "des"
                                 ELSE Plans(L, c, d, cfg[c])
        /\ Unhooks(L)
    BY <1>0, <1>1, <1>2a, RestartFacts DEF TypeInv, Types
  <1>5. After(L, Detaches, Do("help", "delete", "QUIC"))
    BY <1>3 DEF Unhooks
  <1>6. ListInv' /\ T' = ToSet(L) /\ ~Aborting' /\ ~Booting' /\ Plan'
    BY <1>1, <1>2, <1>3, <1>5, NewList
  <1>7. \A c \in Components : (Cmds(c, next)' = Cmds(c, d)) /\ (Enabled(c, next)' <=> Enabled(c, d)) /\ (ByBPF(c, next)' <=> ByBPF(c, d))
    BY <1>1, <1>2, SameCmds
  <1>8. \A x \in ToSet(L) : x.comp \in Components
    <2>1. ToSet(L) \subseteq Commands
      BY <1>3, Within
    <2>. QED
      BY <2>1 DEF Commands
  <1>9. JobInv'
    <2>1. \A c \in Components : Busy(c)' => c \in made
      BY <1>2a, <1>3, <1>6 DEF Components, Busy
    <2>2. \A c \in made : Adopts(c) \in T'
      <3>1. made \subseteq Components
        BY <1>0 DEF TypeInv
      <3>. QED
        BY <1>3, <1>6, <3>1 DEF Plans
    <2>3. (\A x \in T : /\ x.op \in PutOps => x \in Cmds(x.comp, next)
                        /\ x.op \in PutOps \cup {"fail", "open"} => Enabled(x.comp, next) /\ ~ByBPF(x.comp, next))'
      BY <1>3, <1>6, <1>7, <1>8 DEF Plans
    <2>4. Running
      BY <1>2 DEF Running
    <2>. QED
      BY <1>0, <1>2, <1>2a, <1>6, <2>1, <2>2, <2>3, <2>4 DEF JobInv
  <1>10. HookList'
    <2>1. "help" \in Components /\ (UsesBPF' <=> ByBPF("help", d))
      BY <1>1, <1>2 DEF UsesBPF, ByBPF, HelperWanted, Components
    <2>2. First' => UsesBPF'
      <3>1. \A x \in T' : x.op \in {"tcx", "nowan"} => x.comp = "help"
        BY <1>3, <1>6 DEF Typed
      <3>. QED
        BY <1>3, <1>6, <2>1, <3>1 DEF First, Plans
    <2>3. ~Hooking'
      <3>1. \A x \in T' : x.op \in {"qdisc", "filter"} => x.comp = "help"
        BY <1>3, <1>6 DEF Typed
      <3>. QED
        BY <1>3, <1>6, <2>1, <3>1 DEF Hooking, Plans
    <2>4. UsesBPF' => First'
      BY <1>3, <1>6, <2>1 DEF Plans, First
    <2>5. HasDel("help")'
      BY <1>3, <1>6, HookNames DEF Unhooks, HasDel
    <2>6. Detaches \in T' /\ Before(todo', Detaches, Do("help", "shut", Nowhere))
      BY <1>1, <1>3, <1>6 DEF Unhooks, Shuts
    <2>7. Running'
      BY <1>2 DEF Running
    <2>. QED
      BY <1>2, <1>2a, <1>6, <2>2, <2>3, <2>4, <2>5, <2>6, <2>7 DEF HookList
  <1>. QED
    BY <1>6, <1>9, <1>10

LEMMA StopLists == Lists /\ Stop => ListInv' /\ JobInv' /\ HookList'
  <1>. SUFFICES ASSUME Lists, Stop PROVE  ListInv' /\ JobInv' /\ HookList'
    OBVIOUS
  <1>0. TypeInv /\ ListInv /\ JobInv /\ HookList
    BY DEF Lists
  <1>1. PICK L : L = CloseSystem /\ todo' = L
    BY DEF Stop
  <1>2. /\ UNCHANGED <<made, cfg, attached, watching, dirty, host, type, next, starts, failed, slipped>>
        /\ process = "up" /\ process' = "stopping" /\ Running
    BY DEF Stop, Idle, failures, bounds, Running
  <1>3. /\ L \in Seq(Commands)
        /\ \A x \in ToSet(L) : Typed(x) /\ x.op \in {"delete", "detach", "shut"}
        /\ After(L, Detaches, Do("help", "delete", "QUIC"))
        /\ "help" \in made => Unhooks(L)
    BY <1>0, <1>1, CloseFacts DEF TypeInv, Types
  <1>6. ListInv' /\ T' = ToSet(L) /\ ~Aborting' /\ ~Booting' /\ ~Plan'
    BY <1>1, <1>2, <1>3, NewList
  <1>9. JobInv'
    BY <1>0, <1>2, <1>6 DEF JobInv
  <1>10. HookList'
    <2>1. ~First' /\ ~Hooking'
      BY <1>3, <1>6 DEF First, Hooking
    <2>2. attached # <<>> => "help" \in made
      BY <1>0 DEF HookList
    <2>3. "help" \in made => Detaches \in T' /\ Before(todo', Detaches, Do("help", "shut", Nowhere))
      BY <1>1, <1>3, <1>6 DEF Unhooks, Shuts
    <2>4. Running'
      BY <1>2 DEF Running
    <2>. QED
      BY <1>2, <1>6, <2>1, <2>2, <2>3, <2>4 DEF HookList
  <1>. QED
    BY <1>6, <1>9, <1>10

(* An error: what is undone first, and what is left. *)
Quits(U) ==
    /\ todo # <<>> /\ GiveUp(U) /\ Head(todo).op \in InstallOps \cup {"open", "shut"}
    /\ Head(todo).op = "shut" => process = "restarting"
    /\ Undoes(U, Head(todo).comp)
    /\ UNCHANGED <<host, type, next, starts, made, cfg, watching, dirty>>
    /\ attached' \in {attached, <<>>}
    /\ (\E x \in ToSet(U) : x.op = "delete" /\ x.comp = "help") => attached' = <<>>

(* A step in which a command fails: a start is over, a restart undoes what
   its component has done. *)
LEMMA QuitsIs ==
    ASSUME Lists, NEW U, Quits(U)
    PROVE  /\ Plan /\ Running /\ Head(todo) \in Commands /\ Head(todo).comp \in made /\ (Head(todo).op # "shut" => ~HasDel(Head(todo).comp))
           /\ U \in Seq(Commands) /\ \A x \in ToSet(U) : x.comp = Head(todo).comp /\ Typed(x) /\ x.op \in {"delete", "watch"}
           /\ ~Booting
           /\ process = "starting" => todo' = U \o CloseSystem /\ process' = "stopping"
           /\ process # "starting" => process = "restarting" /\ todo' = U \o <<Aborts>> /\ process' = "restarting"
           /\ failed' = failed /\ slipped' = slipped
  <1>0. TypeInv /\ ListInv /\ JobInv /\ HookList
    BY DEF Lists
  <1>1. /\ Head(todo) \in Commands /\ T = {Head(todo)} \cup ToSet(Tail(todo)) /\ todo # <<>>
        /\ Plan => \A y \in ToSet(Tail(todo)) : Follows(process, Head(todo), y)
        /\ process \in {"starting", "restarting", "stopping"}
        /\ process = "stopping" => Head(todo).op \in {"delete", "detach", "shut", "watch"}
        /\ Aborting => Head(todo).op \in {"delete", "watch", "abort"}
        /\ process = "stopping" \/ Plan \/ Aborting
        /\ Booting => Head(todo) = Boots
    BY <1>0, Now DEF Quits
  <1>2. Head(todo).op \notin {"delete", "detach", "watch", "abort", "boot", "adopt"}
        /\ (process = "stopping" => Head(todo).op # "shut")
    BY OpsApart DEF Quits
  <1>3. Plan /\ process \in {"starting", "restarting"} /\ Running
    BY <1>1, <1>2 DEF Running
  <1>4. ~Booting
    BY <1>1, <1>2 DEF Boots, Do
  <1>5. Head(todo).comp \in made
    BY <1>0, <1>1, <1>2, <1>3, HeadMade
  <1>6. Head(todo).op # "shut" => ~HasDel(Head(todo).comp)
    <2>1. Head(todo).op # "shut" => Head(todo).op \in InstallOps \cup {"open"}
      BY DEF Quits
    <2>2. \A y \in ToSet(Tail(todo)) : Head(todo).op # "shut" /\ y.comp = Head(todo).comp => y.op # "delete"
      BY <1>1, <1>3, <2>1 DEF Follows
    <2>. QED
      BY <1>1, <1>2, <2>2 DEF HasDel
  <1>7. /\ U \in Seq(Commands) /\ \A x \in ToSet(U) : x.comp = Head(todo).comp /\ Typed(x) /\ x.op \in {"delete", "watch"}
    BY DEF Quits, Undoes
  <1>8. /\ process = "starting" => todo' = U \o CloseSystem /\ process' = "stopping"
        /\ process # "starting" => process = "restarting" /\ todo' = U \o <<Aborts>> /\ process' = "restarting"
        /\ failed' = failed /\ slipped' = slipped
    BY <1>3 DEF Quits, GiveUp, Aborts, failures
  <1>. QED
    BY <1>1, <1>3, <1>4, <1>5, <1>6, <1>7, <1>8

(* The new list is as it should be. *)
LEMMA QuitStart ==
    ASSUME Lists, NEW U, Quits(U), process = "starting"
    PROVE  ListInv' /\ JobInv' /\ HookList'
  <1>0. TypeInv /\ ListInv /\ JobInv /\ HookList
    BY DEF Lists
  <1>1. /\ Running /\ U \in Seq(Commands) /\ \A x \in ToSet(U) : Typed(x) /\ x.op \in {"delete", "watch"}
        /\ process' = "stopping" /\ failed' = failed /\ slipped' = slipped
    BY QuitsIs
  <1>1a. UNCHANGED <<host, type, next, starts, made, cfg, watching, dirty>> /\ attached' \in {attached, <<>>}
    BY DEF Quits
  <1>2. PICK K : K = CloseSystem
    OBVIOUS
  <1>3. /\ K \in Seq(Commands)
        /\ \A x \in ToSet(K) : Typed(x) /\ x.op \in {"delete", "detach", "shut"}
        /\ After(K, Detaches, Do("help", "delete", "QUIC"))
        /\ "help" \in made => Unhooks(K)
    BY <1>0, <1>2, CloseFacts DEF TypeInv, Types
  <1>4. PICK L : L = U \o K
    OBVIOUS
  <1>5. todo' = L
    BY <1>2, <1>4, QuitsIs
  <1>6. L \in Seq(Commands) /\ ToSet(L) = ToSet(U) \cup ToSet(K)
    BY <1>1, <1>3, <1>4, Joined
  <1>7. Detaches \notin ToSet(U) /\ Shuts("help") \notin ToSet(U)
    BY <1>1, HookNames
  <1>8. After(L, Detaches, Do("help", "delete", "QUIC"))
    <2>1. After(U, Detaches, Do("help", "delete", "QUIC"))
      BY <1>1, <1>7, JoinAfter
    <2>. QED
      BY <1>1, <1>3, <1>4, <2>1, JoinAfter
  <1>9. \A x \in ToSet(L) : Typed(x) /\ x.op \in {"delete", "detach", "shut", "watch"}
    BY <1>1, <1>3, <1>6
  <1>10. ListInv' /\ T' = ToSet(L) /\ ~Aborting' /\ ~Booting' /\ ~Plan'
    BY <1>1, <1>1a, <1>5, <1>6, <1>8, <1>9, NewList
  <1>11. JobInv'
    BY <1>0, <1>1, <1>1a, <1>10 DEF JobInv
  <1>12. HookList'
    <2>1. ~First' /\ ~Hooking'
      BY <1>9, <1>10 DEF First, Hooking
    <2>2. attached' # <<>> => "help" \in made
      BY <1>0, <1>1a DEF HookList
    <2>3. "help" \in made => Detaches \in T' /\ Before(L, Detaches, Shuts("help"))
      BY <1>1, <1>3, <1>4, <1>6, <1>7, <1>10, JoinBefore DEF Unhooks
    <2>4. Running'
      BY <1>1 DEF Running
    <2>. QED
      BY <1>1, <1>1a, <1>5, <1>10, <2>1, <2>2, <2>3, <2>4 DEF HookList, Shuts
  <1>. QED
    BY <1>10, <1>11, <1>12

LEMMA QuitRestart ==
    ASSUME Lists, NEW U, Quits(U), process # "starting"
    PROVE  /\ ListInv' /\ JobInv' /\ HookList' /\ Aborting' /\ ~Booting'
           /\ T' = ToSet(U) \cup {Aborts} /\ Aborts.op = "abort" /\ todo' \in Seq(Commands)
  <1>0. TypeInv /\ ListInv /\ JobInv /\ HookList
    BY DEF Lists
  <1>1. /\ Running /\ U \in Seq(Commands) /\ \A x \in ToSet(U) : x.comp = Head(todo).comp /\ Typed(x) /\ x.op \in {"delete", "watch"}
        /\ process' = "restarting" /\ failed' = failed /\ slipped' = slipped /\ process = "restarting"
        /\ Head(todo).comp \in made
    BY QuitsIs
  <1>1a. UNCHANGED <<host, type, next, starts, made, cfg, watching, dirty>> /\ attached' \in {attached, <<>>}
         /\ ((\E x \in ToSet(U) : x.op = "delete" /\ x.comp = "help") => attached' = <<>>)
    BY DEF Quits
  <1>2. Aborts \in Commands /\ Aborts.op = "abort" /\ Aborts.comp = "srv" /\ Aborts.obj = Nowhere
    BY SingleTypes DEF Aborts, Do
  <1>3. PICK V \in Seq(Commands) : V = <<Aborts>> /\ ToSet(V) = {Aborts} /\ Len(V) = 1 /\ DOMAIN V = {1}
    <2>1. PICK a \in Commands : a = Aborts
      BY <1>2
    <2>2. <<a>> \in Seq(Commands) /\ ToSet(<<a>>) = {a} /\ Len(<<a>>) = 1 /\ DOMAIN <<a>> = {1}
      BY One
    <2>. QED
      BY <2>1, <2>2
  <1>4. todo' = U \o V
    BY <1>1, <1>3, QuitsIs
  <1>5. /\ todo' \in Seq(Commands) /\ T' = ToSet(U) \cup {Aborts} /\ Len(todo') = Len(U) + 1
        /\ \A n \in 1..Len(U) : todo'[n] = U[n]
    <2>1. /\ U \o V \in Seq(Commands) /\ Len(U \o V) = Len(U) + Len(V)
          /\ \A n \in 1..Len(U) : (U \o V)[n] = U[n]
          /\ ToSet(U \o V) = ToSet(U) \cup ToSet(V)
      <3>1. U \in Seq(Commands) /\ V \in Seq(Commands)
        BY <1>1
      <3>. QED
        BY <3>1, Joined
    <2>2. T' = ToSet(todo')
      BY DEF T
    <2>. QED
      BY <1>3, <1>4, <2>1, <2>2
  <1>6. Aborting' /\ ~Booting' /\ ~Plan'
    <2>1. Boots.op = "boot"
      BY DEF Boots, Do
    <2>. QED
      BY <1>1, <1>2, <1>5, <2>1 DEF Aborting, Booting, Plan
  <1>7. (\A x \in T : Typed(x))'
    <2>1. \A x \in T' : Typed(x)
      BY <1>1, <1>2, <1>5, SingleTypes DEF Aborts
    <2>. QED
      BY <1>1a, <2>1, TypedSame
  <1>8. (\A i \in DOMAIN todo : todo[i] = Aborts => i = Len(todo))'
    <2>1. SUFFICES ASSUME NEW i \in DOMAIN todo', todo'[i] = Aborts PROVE i = Len(todo')
      OBVIOUS
    <2>2. i \in 1..(Len(U) + 1) /\ Len(U) \in Nat
      BY <1>1, <1>5
    <2>3. i \notin 1..Len(U)
      BY <1>1, <1>2, <1>5, <2>1 DEF ToSet
    <2>. QED
      BY <1>5, <2>2, <2>3
  <1>9. After(todo', Detaches, Do("help", "delete", "QUIC"))
    <2>1. Detaches \notin T'
      BY <1>1, <1>2, <1>5, HookNames
    <2>. QED
      BY <2>1 DEF After, T, ToSet
  <1>10. ListInv'
    <2>1. \A x \in T' : x.op \in {"delete", "watch", "abort"}
      BY <1>1, <1>2, <1>5
    <2>. QED
      BY <1>1, <1>6, <1>7, <1>8, <1>9, <2>1 DEF ListInv, Detaches
  <1>11. JobInv'
    <2>1. \A c : Busy(c)' => c \in made
      BY <1>1, <1>2, <1>5 DEF Busy
    <2>. QED
      BY <1>0, <1>1, <1>1a, <1>6, <2>1 DEF JobInv, Running
  <1>12. HookList'
    <2>1. ~First' /\ ~Hooking'
      BY <1>1, <1>2, <1>5 DEF First, Hooking
    <2>2. attached' # <<>> => "help" \in made
      BY <1>0, <1>1a DEF HookList
    <2>3. HasDel("help")' => attached' = <<>>
      BY <1>1a, <1>2, <1>5 DEF HasDel
    <2>4. Running'
      BY <1>1 DEF Running
    <2>. QED
      BY <1>1, <1>1a, <1>6, <2>1, <2>2, <2>3, <2>4 DEF HookList
  <1>. QED
    BY <1>2, <1>5, <1>6, <1>10, <1>11, <1>12

LEMMA QuitLists == ASSUME Lists, NEW U, Quits(U) PROVE ListInv' /\ JobInv' /\ HookList'
  BY QuitStart, QuitRestart

(* The errors of Setup. *)
LEMMA SetupQuits ==
    ASSUME Lists, todo # <<>>, Head(todo).op \in PutOps \cup {"fail"}, SetupFails(Head(todo)),
           UNCHANGED <<host, type, next, starts, made, cfg, watching, dirty, attached>>
    PROVE  LET U == Watch(Head(todo).comp, next) \o Cleanup(Head(todo).comp, next)
           IN  Quits(U) /\ Sweeps(U, Head(todo).comp, next) /\ (Head(todo).comp = "help" => attached = <<>>)
  <1>0. TypeInv /\ ListInv /\ JobInv /\ HookList
    BY DEF Lists
  <1>. DEFINE c == Head(todo).comp
              U == Watch(c, next) \o Cleanup(c, next)
  <1>1. /\ Head(todo) \in Commands /\ Head(todo) \in T /\ T = {Head(todo)} \cup ToSet(Tail(todo)) /\ type \in Types
        /\ Plan => \A y \in ToSet(Tail(todo)) : Follows(process, Head(todo), y)
        /\ process = "stopping" => Head(todo).op \in {"delete", "detach", "shut", "watch"}
        /\ Aborting => Head(todo).op \in {"delete", "watch", "abort"}
        /\ process = "stopping" \/ Plan \/ Aborting
    BY <1>0, Now
  <1>2. Plan
    BY <1>1, OpsApart
  <1>3. c \in Components
    BY <1>1 DEF Commands
  <1>4. Undoes(U, c) /\ Sweeps(U, c, next)
    BY <1>1, <1>3, SetupUndo
  <1>5. c = "help" => attached = <<>>
    <2>1. HAVE c = "help"
    <2>2. ~UsesBPF
      <3>1. ~ByBPF("help", next)
        BY <1>0, <1>1, <1>2, <2>1 DEF JobInv
      <3>. QED
        BY <3>1 DEF UsesBPF, ByBPF
    <2>3. \A y \in ToSet(Tail(todo)) : y.comp = "help" => y.op # "delete"
      BY <1>1, <1>2, <2>1, OpsApart DEF Follows
    <2>4. ~HasDel("help")
      BY <1>1, <2>3, OpsApart DEF HasDel
    <2>. QED
      BY <1>0, <1>2, <2>2, <2>4 DEF HookList
  <1>6. Quits(U)
    <2>1. \A x \in ToSet(U) : x.comp = c
      BY <1>4 DEF Undoes
    <2>2. GiveUp(U) /\ Head(todo).op \in InstallOps \cup {"open", "shut"} /\ Head(todo).op # "shut"
      BY OpsApart DEF SetupFails
    <2>. HIDE DEF U
    <2>. QED
      BY <1>4, <1>5, <2>1, <2>2 DEF Quits
  <1>. QED
    BY <1>4, <1>5, <1>6

(* Errors after which nothing is undone first. *)
LEMMA BareQuits ==
    ASSUME todo # <<>>, Head(todo).op \in {"open", "shut", "nowan"}, GiveUp(<<>>),
           Head(todo).op = "shut" => process = "restarting",
           UNCHANGED <<host, type, next, starts, made, cfg, watching, dirty, attached>>
    PROVE  Quits(<<>>)
  <1>1. Undoes(<<>>, Head(todo).comp) /\ ToSet(<<>>) = {}
    BY NoUndo, Empty
  <1>. QED
    BY <1>1, OpsApart DEF Quits

(* attachAllClassic undoes what it has attached. *)
LEMMA ClassicQuits ==
    ASSUME Lists, todo # <<>>, Head(todo).op \in {"qdisc", "filter"}, ClassicFails,
           UNCHANGED <<host, type, next, starts, made, cfg, watching, dirty>>
    PROVE  Quits(DoAll("help", "delete", attached))
  <1>1. attached \in Seq(Hooks) /\ Head(todo).comp = "help"
    <2>1. attached \in Seq(Hooks) /\ Typed(Head(todo))
      BY Now DEF Lists, TypeInv
    <2>. QED
      BY <2>1 DEF Typed
  <1>2. Undoes(DoAll("help", "delete", attached), "help")
    BY <1>1, FilterUndo
  <1>. QED
    BY <1>1, <1>2, OpsApart DEF Quits, ClassicFails

(* What a deletion leaves, and what a command that puts something leaves. *)
LEMMA DeletedIs ==
    ASSUME NEW k \in [Objects -> Nat], NEW o \in Objects
    PROVE  /\ Deleted(k, o) \in [Objects -> Nat]
           /\ \A x \in Objects : Deleted(k, o)[x] <= k[x]
           /\ \A x \in Objects : Deleted(k, o)[x] # k[x] => x = o \/ (o = HelperTable /\ x = Ingress)
           /\ o \notin Chains \cup Sets /\ k[o] <= 1 => Deleted(k, o)[o] = 0
           /\ o \in Tables => Deleted(k, o)[o] = 0
           /\ o \in Chains /\ ~InUse(k, o) => Deleted(k, o)[o] = 0
           /\ o \in Sets /\ ~InUse(k, o) /\ k[o] <= 1 => Deleted(k, o)[o] = 0
           /\ o = HelperTable /\ k[o] > 0 => Deleted(k, o)[Ingress] = 0
           /\ o \in Chains => Deleted(k, o)[o] <= 1
  <1>1. Ingress \in Objects /\ HelperTable \in Tables /\ Tables \cap Chains = {} /\ Tables \cap Sets = {} /\ Chains \cap Sets = {}
        /\ Ingress \notin Tables \cup Chains \cup Sets
    BY DEF Objects, Ingress, HelperTable, Tables, Chains, Sets, LanSet, SkipSet
  <1>2. o \notin Chains \cup Sets => ~InUse(k, o)
    BY DEF InUse
  <1>3. CASE k[o] = 0
    BY <1>1, <1>3 DEF Deleted
  <1>4. CASE k[o] # 0 /\ o \in Tables
    <2>1. PICK f \in [Objects -> Nat] :
             f = [x \in Objects |-> IF x = o \/ (o = "nft UA3F_HELPER" /\ x = Ingress) THEN 0 ELSE k[x]]
      OBVIOUS
    <2>2. Deleted(k, o) = f
      BY <1>4, <2>1 DEF Deleted
    <2>3. f[o] = 0 /\ (o = HelperTable => f[Ingress] = 0) /\ \A x \in Objects : x = o \/ (o = HelperTable /\ x = Ingress) \/ f[x] = k[x]
      BY <1>1, <2>1 DEF HelperTable
    <2>4. \A x \in Objects : f[x] \in {0, k[x]}
      BY <2>1
    <2>5. \A x \in Objects : f[x] <= k[x]
      BY <2>4
    <2>. QED
      BY <1>1, <1>4, <2>2, <2>3, <2>5
  <1>5. CASE k[o] # 0 /\ o \in Chains
    <2>1. PICK f \in [Objects -> Nat] : f = [k EXCEPT ![o] = IF InUse(k, o) THEN 1 ELSE 0]
      OBVIOUS
    <2>2. Deleted(k, o) = f
      BY <1>1, <1>5, <2>1 DEF Deleted
    <2>3. f[o] = (IF InUse(k, o) THEN 1 ELSE 0) /\ \A x \in Objects : x # o => f[x] = k[x]
      BY <2>1
    <2>4. k[o] >= 1 /\ \A x \in Objects : f[x] <= k[x]
      <3>1. k[o] >= 1
        BY <1>5
      <3>. QED
        BY <2>3, <3>1
    <2>. QED
      BY <1>1, <1>5, <2>2, <2>3, <2>4
  <1>6. CASE k[o] # 0 /\ o \notin Tables /\ o \notin Chains /\ InUse(k, o)
    <2>1. Deleted(k, o) = k
      BY <1>6 DEF Deleted
    <2>. QED
      BY <1>1, <1>2, <1>6, <2>1
  <1>7. CASE k[o] # 0 /\ o \notin Tables /\ o \notin Chains /\ ~InUse(k, o)
    <2>0. k[o] - 1 \in Nat /\ k[o] - 1 <= k[o] /\ (k[o] <= 1 => k[o] - 1 = 0)
      BY <1>7
    <2>1. PICK f \in [Objects -> Nat] : f = [k EXCEPT ![o] = k[o] - 1]
      BY <2>0
    <2>2. Deleted(k, o) = f
      BY <1>7, <2>1 DEF Deleted
    <2>3. f[o] = k[o] - 1 /\ \A x \in Objects : x # o => f[x] = k[x]
      BY <2>1
    <2>4. \A x \in Objects : f[x] <= k[x]
      BY <2>0, <2>3
    <2>. QED
      BY <1>1, <1>7, <2>0, <2>2, <2>3, <2>4
  <1>. QED
    BY <1>3, <1>4, <1>5, <1>6, <1>7

LEMMA InstalledIs ==
    ASSUME NEW k \in [Objects -> Nat], NEW x, x.obj \in Objects
    PROVE  /\ Installed(k, x) \in [Objects -> Nat]
           /\ \A o \in Objects : o # x.obj => Installed(k, x)[o] = k[o]
           /\ Installed(k, x)[x.obj] = IF x.op = "fill" THEN 2 ELSE IF x.op = "create" THEN 1 ELSE k[x.obj] + 1
  BY DEF Installed

(* Objects by kind. *)
LEMMA Vacant == Qdisc.wan \in Objects /\ Qdisc.wwan \in Objects /\ SkipSet \in Objects /\ Links \in Objects /\ AllFilters \subseteq Objects
  BY DEF Objects, Sets
LEMMA QdiscIs == \A i \in Interfaces : Qdisc[i] \in {Qdisc.wan, Qdisc.wwan}
  BY DEF Interfaces, Qdisc

(* What a command finds. *)
LEMMA Ready ==
    ASSUME Lists, NEW ops, Doing(ops)
    PROVE  /\ todo # <<>> /\ Head(todo) \in Commands /\ Typed(Head(todo)) /\ Head(todo).op \in ops /\ Command = Head(todo)
           /\ Head(todo).comp \in Components /\ Tail(todo) \in Seq(Commands) /\ Running
           /\ TypeInv /\ ListInv /\ JobInv /\ HookList
           /\ Head(todo).op \in PutOps \cup {"delete", "filter"} => Head(todo).obj \in Objects
           /\ Head(todo).op = "qdisc" => Head(todo).obj \in Interfaces /\ Qdisc[Head(todo).obj] \in Objects
  <1>1. /\ todo # <<>> /\ Head(todo) \in Commands /\ Typed(Head(todo)) /\ Head(todo).op \in ops /\ Command = Head(todo)
        /\ Tail(todo) \in Seq(Commands) /\ Running
    BY Now DEF Lists, Doing, Command
  <1>2. Head(todo).comp \in Components
    BY <1>1 DEF Commands
  <1>3. Head(todo).op \in PutOps \cup {"delete", "filter"} => Head(todo).obj \in Objects
    BY <1>1, <1>2, ObjectFacts, Vacant DEF Typed
  <1>4. Head(todo).op = "qdisc" => Head(todo).obj \in Interfaces /\ Qdisc[Head(todo).obj] \in Objects
    BY <1>1, EligibleIs, QdiscIs, Vacant DEF Typed, Lists, TypeInv
  <1>. QED
    BY <1>1, <1>2, <1>3, <1>4 DEF Lists

(* A command that succeeds. *)
LEMMA ProceedAdvance ==
    ASSUME Lists, NEW ops, Doing(ops), Proceed, Steady, UNCHANGED dirty, ops \cap {"boot", "abort"} = {}
    PROVE  /\ Advance /\ Proceeds /\ ListInv' /\ Tail(todo) \in Seq(Commands)
           /\ Adopting /\ (watching' => watching \/ host.ipt) => JobInv'
           /\ Head(todo).op \notin HookOps /\ UNCHANGED attached /\ made \subseteq made' => HookList'
  <1>1. Advance
    BY Ready DEF Proceed, Steady, Advance, failures
  <1>2. Proceeds /\ ListInv'
    BY <1>1, AdvanceProceeds, AdvanceList DEF Lists
  <1>3. Tail(todo) \in Seq(Commands)
    BY Ready
  <1>. QED
    BY <1>1, <1>2, <1>3, AdvanceJobs, AdvanceHooks

(* The types after an error. *)
LEMMA QuitsType ==
    ASSUME Lists, NEW U, Quits(U)
    PROVE  /\ todo' \in Seq(Commands) /\ process' \in {"stopping", "restarting"} /\ attached' \in Seq(Hooks)
           /\ failed' = failed /\ slipped' = slipped /\ dirty' = dirty /\ starts' = starts
           /\ UNCHANGED <<host, type, next, made, cfg, watching>>
  <1>0. /\ U \in Seq(Commands) /\ failed' = failed /\ slipped' = slipped
        /\ process = "starting" => todo' = U \o CloseSystem /\ process' = "stopping"
        /\ process # "starting" => process' = "restarting"
    BY QuitsIs
  <1>1. CASE process = "starting"
    <2>1. PICK K \in Seq(Commands) : K = CloseSystem
      BY CloseFacts DEF Lists, TypeInv, Types
    <2>2. todo' \in Seq(Commands)
      <3>1. U \in Seq(Commands) /\ K \in Seq(Commands) /\ todo' = U \o K
        BY <1>0, <1>1, <2>1
      <3>. QED
        BY <3>1, Joined
    <2>. QED
      BY <1>0, <1>1, <2>2, Empty DEF Quits, Lists, TypeInv
  <1>2. CASE process # "starting"
    <2>1. todo' \in Seq(Commands)
      BY <1>2, QuitRestart
    <2>. QED
      BY <1>0, <1>2, <2>1, Empty DEF Quits, Lists, TypeInv
  <1>. QED
    BY <1>1, <1>2

(* One step of each kind. *)
LEMMA PutLists == Lists /\ Put => Lists'
  <1>. SUFFICES ASSUME Lists, Put PROVE Lists'
    OBVIOUS
  <1>1. /\ Doing({"create", "put", "fill"}) /\ Steady /\ UNCHANGED <<cfg, made, chan, attached, watching, faults, dirty>>
        /\ Command = Head(todo) /\ TypeInv /\ todo # <<>> /\ Head(todo).obj \in Objects /\ Head(todo).op \in PutOps
        /\ Head(todo).op \notin HookOps
    <2>1. {"create", "put", "fill"} \subseteq PutOps /\ {"create", "put", "fill"} \cap HookOps = {}
      BY OpsApart DEF HookOps
    <2>. QED
      BY <2>1, Ready DEF Put
  <1>2. CASE kern' = Installed(kern, Head(todo)) /\ Proceed
    <2>1. Advance /\ ListInv' /\ JobInv' /\ HookList' /\ Tail(todo) \in Seq(Commands)
      BY <1>1, <1>2, ProceedAdvance, OpsApart DEF Adopting
    <2>2. kern' \in [Objects -> Nat]
      BY <1>1, <1>2, InstalledIs DEF TypeInv
    <2>3. TypeInv'
      BY <1>1, <1>2, <2>1, <2>2 DEF TypeInv, Steady, Proceed, failures
    <2>. QED
      BY <2>1, <2>3 DEF Lists
  <1>3. CASE UNCHANGED kern /\ SetupFails(Head(todo))
    <2>1. UNCHANGED <<host, type, next, starts, made, cfg, watching, dirty, attached>>
      BY <1>1 DEF Steady
    <2>2. PICK U : Quits(U)
      BY <1>1, <1>3, <2>1, SetupQuits
    <2>3. ListInv' /\ JobInv' /\ HookList'
      BY <2>2, QuitLists
    <2>4. TypeInv'
      BY <1>1, <1>3, <2>2, QuitsType DEF TypeInv, Steady
    <2>. QED
      BY <2>3, <2>4 DEF Lists
  <1>. QED
    BY <1>1, <1>2, <1>3 DEF Put

LEMMA TryLists == Lists /\ Try => Lists'
  <1>. SUFFICES ASSUME Lists, Try PROVE Lists'
    OBVIOUS
  <1>1. /\ Doing({"try"}) /\ Steady /\ Proceed /\ UNCHANGED <<cfg, made, chan, attached, watching, faults, dirty>>
        /\ Command = Head(todo) /\ TypeInv /\ Head(todo).obj \in Objects /\ Head(todo).op = "try"
    BY Ready, OpsApart DEF Try
  <1>2. Advance /\ ListInv' /\ JobInv' /\ HookList' /\ Tail(todo) \in Seq(Commands)
    BY <1>1, ProceedAdvance, OpsApart DEF Adopting, HookOps
  <1>3. kern' \in [Objects -> Nat]
    BY <1>1, InstalledIs DEF TypeInv, Try
  <1>4. TypeInv'
    BY <1>1, <1>2, <1>3 DEF TypeInv, Steady, Proceed, failures
  <1>. QED
    BY <1>2, <1>4 DEF Lists

LEMMA DeleteLists == Lists /\ Delete => Lists'
  <1>. SUFFICES ASSUME Lists, Delete PROVE Lists'
    OBVIOUS
  <1>1. /\ Doing({"delete"}) /\ Steady /\ Proceed /\ UNCHANGED <<cfg, made, chan, attached, watching, faults, dirty>>
        /\ Command = Head(todo) /\ TypeInv /\ Head(todo).obj \in Objects /\ Head(todo).op = "delete"
    BY Ready DEF Delete
  <1>2. Advance /\ ListInv' /\ JobInv' /\ HookList' /\ Tail(todo) \in Seq(Commands)
    BY <1>1, ProceedAdvance, OpsApart DEF Adopting, HookOps
  <1>3. kern' \in [Objects -> Nat]
    BY <1>1, DeletedIs DEF TypeInv, Delete
  <1>4. TypeInv'
    BY <1>1, <1>2, <1>3 DEF TypeInv, Steady, Proceed, failures
  <1>. QED
    BY <1>2, <1>4 DEF Lists

LEMMA FaultLists == Lists /\ Fault => Lists'
  <1>. SUFFICES ASSUME Lists, Fault PROVE Lists'
    OBVIOUS
  <1>1. /\ Doing({"create", "put", "fill", "try", "open"}) /\ Steady /\ UNCHANGED <<cfg, made, chan, attached, watching, dirty>>
        /\ Command = Head(todo) /\ TypeInv /\ todo # <<>> /\ faults' = faults + 1
        /\ Head(todo).op \in {"create", "put", "fill", "try", "open"} /\ Tail(todo) \in Seq(Commands)
    BY Ready DEF Fault
  <1>2. UNCHANGED <<host, type, next, starts, made, cfg, watching, dirty, attached>>
    BY <1>1 DEF Steady
  <1>3. CASE Head(todo).op = "try"
    <2>1. Proceed /\ UNCHANGED kern
      BY <1>1, <1>3 DEF Fault
    <2>2. Advance /\ ListInv' /\ JobInv' /\ HookList'
      BY <1>1, <1>2, <1>3, <2>1, ProceedAdvance, OpsApart DEF Adopting, HookOps
    <2>3. TypeInv'
      BY <1>1, <2>1 DEF TypeInv, Steady, Proceed, failures
    <2>. QED
      BY <2>2, <2>3 DEF Lists
  <1>4. CASE Head(todo).op = "open"
    <2>1. GiveUp(<<>>) /\ UNCHANGED kern
      BY <1>1, <1>4 DEF Fault
    <2>2. Quits(<<>>)
      BY <1>1, <1>2, <1>4, <2>1, BareQuits
    <2>3. ListInv' /\ JobInv' /\ HookList'
      BY <2>2, QuitLists
    <2>4. TypeInv'
      BY <1>1, <2>1, <2>2, QuitsType DEF TypeInv, Steady
    <2>. QED
      BY <2>3, <2>4 DEF Lists
  <1>5. CASE Head(todo).op \in {"create", "put", "fill"}
    <2>1. kern' \in {kern, Installed(kern, Head(todo))} /\ SetupFails(Head(todo))
      BY <1>1, <1>5 DEF Fault
    <2>2. Head(todo).obj \in Objects /\ Head(todo).op \in PutOps
      BY <1>1, <1>5, Ready, OpsApart
    <2>3. kern' \in [Objects -> Nat]
      BY <1>1, <2>1, <2>2, InstalledIs DEF TypeInv
    <2>4. PICK U : Quits(U)
      BY <1>1, <1>2, <2>1, <2>2, SetupQuits
    <2>5. ListInv' /\ JobInv' /\ HookList'
      BY <2>4, QuitLists
    <2>6. TypeInv'
      BY <1>1, <2>3, <2>4, QuitsType DEF TypeInv, Steady
    <2>. QED
      BY <2>5, <2>6 DEF Lists
  <1>. QED
    BY <1>1, <1>3, <1>4, <1>5

LEMMA NoBackendLists == Lists /\ NoBackend => Lists'
  <1>. SUFFICES ASSUME Lists, NoBackend PROVE Lists'
    OBVIOUS
  <1>1. /\ Doing({"fail"}) /\ Steady /\ UNCHANGED <<kern, cfg, made, chan, attached, watching, faults, dirty>>
        /\ Command = Head(todo) /\ TypeInv /\ todo # <<>> /\ SetupFails(Head(todo)) /\ Head(todo).op = "fail"
    BY Ready DEF NoBackend
  <1>2. UNCHANGED <<host, type, next, starts, made, cfg, watching, dirty, attached>>
    BY <1>1 DEF Steady
  <1>3. PICK U : Quits(U)
    BY <1>1, <1>2, SetupQuits
  <1>4. ListInv' /\ JobInv' /\ HookList'
    BY <1>3, QuitLists
  <1>5. TypeInv'
    BY <1>1, <1>3, QuitsType DEF TypeInv, Steady
  <1>. QED
    BY <1>4, <1>5 DEF Lists

LEMMA WatchLists == Lists /\ StartWatch => Lists'
  <1>. SUFFICES ASSUME Lists, StartWatch PROVE Lists'
    OBVIOUS
  <1>1. /\ Doing({"watch"}) /\ Steady /\ Proceed /\ UNCHANGED <<kern, cfg, made, chan, attached, faults, dirty>> /\ watching' = TRUE
        /\ Command = Head(todo) /\ TypeInv /\ Head(todo).op = "watch" /\ host.ipt
    <2>1. Doing({"watch"})
      BY DEF StartWatch
    <2>2. /\ todo # <<>> /\ Head(todo) \in Commands /\ Typed(Head(todo)) /\ Head(todo).op \in {"watch"} /\ Command = Head(todo)
          /\ Head(todo).comp \in Components /\ TypeInv
          /\ Head(todo).op = "qdisc" => Head(todo).obj \in Interfaces
      BY <2>1, Ready
    <2>. QED
      BY <2>1, <2>2 DEF StartWatch, Typed
  <1>2. Advance /\ ListInv' /\ JobInv' /\ HookList' /\ Tail(todo) \in Seq(Commands)
    BY <1>1, ProceedAdvance DEF Adopting, HookOps
  <1>4. TypeInv'
    BY <1>1, <1>2 DEF TypeInv, Steady, Proceed, failures
  <1>. QED
    BY <1>2, <1>4 DEF Lists

LEMMA OpenLists == Lists /\ Open => Lists'
  <1>. SUFFICES ASSUME Lists, Open PROVE Lists'
    OBVIOUS
  <1>1. /\ Doing({"open"}) /\ Steady /\ Proceed /\ UNCHANGED <<kern, cfg, made, attached, watching, faults, dirty>>
        /\ Command = Head(todo) /\ TypeInv /\ Head(todo).op = "open" /\ Head(todo).comp \in Components
        /\ chan' \in {chan, [chan EXCEPT ![Head(todo).comp] = "open"]}
    <2>1. Doing({"open"})
      BY DEF Open
    <2>2. /\ todo # <<>> /\ Head(todo) \in Commands /\ Typed(Head(todo)) /\ Head(todo).op \in {"open"} /\ Command = Head(todo)
          /\ Head(todo).comp \in Components /\ TypeInv
          /\ Head(todo).op = "qdisc" => Head(todo).obj \in Interfaces
      BY <2>1, Ready
    <2>. QED
      BY <2>1, <2>2 DEF Open
  <1>2. Advance /\ ListInv' /\ JobInv' /\ HookList' /\ Tail(todo) \in Seq(Commands)
    BY <1>1, ProceedAdvance DEF Adopting, HookOps
  <1>3. chan' \in [Components -> {"none", "open", "closed"}]
    BY <1>1 DEF TypeInv
  <1>4. TypeInv'
    BY <1>1, <1>2, <1>3 DEF TypeInv, Steady, Proceed, failures
  <1>. QED
    BY <1>2, <1>4 DEF Lists

LEMMA AdoptLists == Lists /\ Doing({"adopt"}) /\ Build => Lists'
  <1>. SUFFICES ASSUME Lists, Doing({"adopt"}), Build PROVE Lists'
    OBVIOUS
  <1>1. /\ Steady /\ Proceed /\ UNCHANGED <<kern, attached, watching, faults, dirty>>
        /\ Command = Head(todo) /\ TypeInv /\ Head(todo).op = "adopt" /\ Head(todo).comp \in Components
        /\ chan' \in {chan, [chan EXCEPT ![Head(todo).comp] = "none"]}
        /\ made' = made \cup {Head(todo).comp} /\ cfg' = [cfg EXCEPT ![Head(todo).comp] = next]
    <2>1. /\ Head(todo).op = "adopt" /\ Command = Head(todo) /\ Head(todo).comp \in Components /\ TypeInv
      BY Ready
    <2>. QED
      BY <2>1 DEF Build
  <1>2. Advance /\ ListInv' /\ JobInv' /\ HookList' /\ Tail(todo) \in Seq(Commands)
    BY <1>1, ProceedAdvance DEF Adopting, HookOps
  <1>3. chan' \in [Components -> {"none", "open", "closed"}] /\ cfg' \in [Components -> Configs] /\ made' \subseteq Components
    BY <1>1 DEF TypeInv
  <1>4. TypeInv'
    BY <1>1, <1>2, <1>3 DEF TypeInv, Steady, Proceed, failures
  <1>. QED
    BY <1>2, <1>4 DEF Lists

LEMMA BuildLists == Lists /\ Build => Lists'
  <1>. SUFFICES ASSUME Lists, Build PROVE Lists'
    OBVIOUS
  <1>1. TypeInv
    BY DEF Lists
  <1>2. CASE Doing({"adopt"})
    BY <1>2, AdoptLists
  <1>3. CASE Doing({"boot"})
    <2>1. ListInv' /\ JobInv' /\ HookList'
      BY <1>3, BootedLists
    <2>2. todo' \in Seq(Commands)
      <3>1. todo' = StartSystem(next) /\ next \in Configs /\ type \in Types
        BY <1>1, <1>3 DEF Build, Doing, Command, TypeInv, Types
      <3>. QED
        BY <3>1, StartFacts
    <2>3. TypeInv'
      BY <1>1, <1>3, <2>2 DEF TypeInv, Build, Doing, Command, Steady, failures
    <2>. QED
      BY <2>1, <2>3 DEF Lists
  <1>4. CASE Doing({"abort"})
    <2>1. ListInv' /\ JobInv' /\ HookList'
      BY <1>4, AbortLists
    <2>2. TypeInv'
      BY <1>1, <1>4, Empty DEF TypeInv, Build, Doing, Command, Steady
    <2>. QED
      BY <2>1, <2>2 DEF Lists
  <1>. QED
    BY <1>2, <1>3, <1>4 DEF Build, Doing

LEMMA ShutLists == Lists /\ Shut => Lists'
  <1>. SUFFICES ASSUME Lists, Shut PROVE Lists'
    OBVIOUS
  <1>1. /\ Doing({"shut"}) /\ Steady /\ UNCHANGED <<cfg, made, faults>>
        /\ Command = Head(todo) /\ TypeInv /\ Head(todo).op = "shut" /\ Head(todo).comp \in Components /\ todo # <<>> /\ Running
    BY Ready DEF Shut
  <1>2. chan' \in [Components -> {"none", "open", "closed"}]
    BY <1>1 DEF TypeInv, Shut
  <1>3. CASE Proceed /\ UNCHANGED <<kern, attached, watching, blocked, dirty>>
    <2>1. Advance /\ ListInv' /\ JobInv' /\ HookList' /\ Tail(todo) \in Seq(Commands)
      BY <1>1, <1>3, ProceedAdvance DEF Adopting, HookOps
    <2>2. TypeInv'
      BY <1>1, <1>2, <1>3, <2>1 DEF TypeInv, Steady, Proceed, failures
    <2>. QED
      BY <2>1, <2>2 DEF Lists
  <1>4. CASE process = "restarting" /\ GiveUp(<<>>) /\ UNCHANGED <<kern, attached, watching, blocked, dirty>>
    <2>1. UNCHANGED <<host, type, next, starts, made, cfg, watching, dirty, attached>>
      BY <1>1, <1>4 DEF Steady
    <2>2. Quits(<<>>)
      BY <1>1, <1>4, <2>1, BareQuits
    <2>3. ListInv' /\ JobInv' /\ HookList'
      BY <2>2, QuitLists
    <2>4. TypeInv'
      BY <1>1, <1>2, <1>4, <2>2, QuitsType DEF TypeInv, Steady
    <2>. QED
      BY <2>3, <2>4 DEF Lists
  <1>5. CASE Killed /\ UNCHANGED failures
    <2>1. UNCHANGED <<host, type, cfg, next, made, failures, starts>>
      BY <1>1, <1>5 DEF Steady
    <2>2. ListInv' /\ JobInv' /\ HookList'
      BY <1>1, <1>5, <2>1, KilledLists
    <2>3. TypeInv'
      BY <1>1, <1>2, <1>5, Empty DEF TypeInv, Steady, Killed, failures
    <2>. QED
      BY <2>2, <2>3 DEF Lists
  <1>. QED
    BY <1>1, <1>3, <1>4, <1>5 DEF Shut

LEMMA TcxLists == Lists /\ AttachTCX => Lists'
  <1>. SUFFICES ASSUME Lists, AttachTCX PROVE Lists'
    OBVIOUS
  <1>1. /\ Doing({"tcx"}) /\ Steady /\ UNCHANGED <<cfg, made, chan, watching, blocked, dirty>>
        /\ Command = Head(todo) /\ TypeInv /\ Head(todo).op = "tcx" /\ todo # <<>> /\ faults' \in Nat
    BY Ready DEF AttachTCX, TypeInv
  <1>2. CASE kern' = [kern EXCEPT ![Links] = 1] /\ attached' = <<Links>> /\ Proceed
    <2>1. Advance /\ ListInv' /\ JobInv' /\ Tail(todo) \in Seq(Commands)
      BY <1>1, <1>2, ProceedAdvance DEF Adopting
    <2>2. HookList'
      BY <1>1, <1>2, <2>1, LinksHooks
    <2>3. attached' \in Seq(Hooks)
      <3>1. PICK l \in Hooks : l = Links
        BY DEF Hooks
      <3>. QED
        BY <1>2, <3>1, One
    <2>4. kern' \in [Objects -> Nat]
      BY <1>1, <1>2 DEF TypeInv
    <2>5. TypeInv'
      BY <1>1, <1>2, <2>1, <2>3, <2>4 DEF TypeInv, Steady, Proceed, failures
    <2>. QED
      BY <2>1, <2>2, <2>5 DEF Lists
  <1>3. CASE todo' = attachAllClassic \o Tail(todo) /\ UNCHANGED <<kern, attached, process, failures>>
    <2>1. Grow(attachAllClassic)
      BY <1>1, <1>3 DEF Grow, Steady, failures
    <2>2. ListInv' /\ JobInv' /\ HookList'
      BY <1>1, <2>1, Fallback
    <2>3. todo' \in Seq(Commands)
      <3>1. attachAllClassic \in Seq(Commands) /\ Tail(todo) \in Seq(Commands)
        BY <1>1, QdiscList, Ready DEF TypeInv, Segment
      <3>2. PICK a \in Seq(Commands), b \in Seq(Commands) : a = attachAllClassic /\ b = Tail(todo)
        BY <3>1
      <3>. QED
        BY <1>3, <3>2, Joined
    <2>4. TypeInv'
      BY <1>1, <1>3, <2>3 DEF TypeInv, Steady, failures
    <2>. QED
      BY <2>2, <2>4 DEF Lists
  <1>. QED
    BY <1>1, <1>2, <1>3 DEF AttachTCX

LEMMA QdiscLists == Lists /\ EnsureQdisc => Lists'
  <1>. SUFFICES ASSUME Lists, EnsureQdisc PROVE Lists'
    OBVIOUS
  <1>1. /\ Doing({"qdisc"}) /\ Steady /\ UNCHANGED <<process, failures, cfg, made, chan, attached, watching, blocked, faults, dirty>>
        /\ Command = Head(todo) /\ TypeInv /\ Head(todo).op = "qdisc" /\ todo # <<>>
        /\ kern' = [kern EXCEPT ![Qdisc[Head(todo).obj]] = 1] /\ Head(todo).obj \in Interfaces
        /\ todo' = addClsBpfFilters(next, Head(todo).obj) \o Tail(todo)
    <2>1. Doing({"qdisc"})
      BY DEF EnsureQdisc
    <2>2. /\ todo # <<>> /\ Head(todo) \in Commands /\ Typed(Head(todo)) /\ Head(todo).op \in {"qdisc"} /\ Command = Head(todo)
          /\ Head(todo).comp \in Components /\ TypeInv
          /\ Head(todo).op = "qdisc" => Head(todo).obj \in Interfaces
      BY <2>1, Ready
    <2>. QED
      BY <2>1, <2>2 DEF EnsureQdisc
  <1>2. ListInv' /\ JobInv' /\ HookList'
    <2>1. Grow(addClsBpfFilters(next, Head(todo).obj))
      BY <1>1 DEF Grow, Steady, failures
    <2>. QED
      BY <1>1, <2>1, Clsact
  <1>3. kern' \in [Objects -> Nat]
    BY <1>1 DEF TypeInv
  <1>4. todo' \in Seq(Commands)
    <2>1. addClsBpfFilters(next, Head(todo).obj) \in Seq(Commands) /\ Tail(todo) \in Seq(Commands)
      BY <1>1, FilterList, Ready DEF TypeInv, Segment
    <2>2. PICK a \in Seq(Commands), b \in Seq(Commands) : a = addClsBpfFilters(next, Head(todo).obj) /\ b = Tail(todo)
      BY <2>1
    <2>. QED
      BY <1>1, <2>2, Joined
  <1>5. TypeInv'
    BY <1>1, <1>3, <1>4 DEF TypeInv, Steady, failures
  <1>. QED
    BY <1>2, <1>5 DEF Lists

LEMMA AttachLists == Lists /\ AttachFilter => Lists'
  <1>. SUFFICES ASSUME Lists, AttachFilter PROVE Lists'
    OBVIOUS
  <1>1. /\ Doing({"filter"}) /\ Steady /\ Proceed /\ UNCHANGED <<cfg, made, chan, watching, blocked, faults, dirty>>
        /\ Command = Head(todo) /\ TypeInv /\ Head(todo).op = "filter" /\ Head(todo).obj \in AllFilters
        /\ kern' = [kern EXCEPT ![Head(todo).obj] = 1] /\ attached' = Append(attached, Head(todo).obj)
    <2>1. Doing({"filter"})
      BY DEF AttachFilter
    <2>2. /\ todo # <<>> /\ Head(todo) \in Commands /\ Typed(Head(todo)) /\ Head(todo).op \in {"filter"} /\ Command = Head(todo)
          /\ Head(todo).comp \in Components /\ TypeInv
          /\ Head(todo).op = "qdisc" => Head(todo).obj \in Interfaces
      BY <2>1, Ready
    <2>. QED
      BY <2>1, <2>2 DEF AttachFilter, Typed
  <1>2. Advance /\ ListInv' /\ JobInv' /\ Tail(todo) \in Seq(Commands)
    BY <1>1, ProceedAdvance DEF Adopting
  <1>3. HookList'
    BY <1>1, <1>2, FilterHooks
  <1>4. attached' \in Seq(Hooks)
    BY <1>1 DEF TypeInv, Hooks
  <1>5. TypeInv'
    BY <1>1, <1>2, <1>4 DEF TypeInv, Steady, Proceed, failures
  <1>. QED
    BY <1>2, <1>3, <1>5 DEF Lists

LEMMA TcFailsLists == Lists /\ TcFails => Lists'
  <1>. SUFFICES ASSUME Lists, TcFails PROVE Lists'
    OBVIOUS
  <1>1. Doing({"filter", "qdisc", "nowan"}) /\ Steady /\ UNCHANGED <<kern, cfg, made, chan, watching, dirty>>
    BY DEF TcFails, Doing
  <1>2. Command = Head(todo) /\ TypeInv /\ todo # <<>> /\ faults' \in Nat
    <2>1. Command = Head(todo) /\ TypeInv /\ todo # <<>>
      BY <1>1, Ready
    <2>. QED
      BY <2>1 DEF TypeInv, TcFails
  <1>3. UNCHANGED <<host, type, next, starts, made, cfg, watching, dirty>>
    BY <1>1 DEF Steady
  <1>4. \E U : Quits(U)
    <2>1. CASE Doing({"filter", "qdisc"}) /\ ClassicFails
      <3>1. Head(todo).op \in {"qdisc", "filter"}
        BY <1>2, <2>1 DEF Doing
      <3>. QED
        BY <1>2, <1>3, <2>1, <3>1, ClassicQuits
    <2>2. CASE Doing({"nowan"}) /\ GiveUp(<<>>) /\ UNCHANGED attached
      <3>1. Head(todo).op = "nowan"
        BY <1>2, <2>2 DEF Doing
      <3>. QED
        BY <1>2, <1>3, <2>2, <3>1, BareQuits
    <2>. QED
      BY <2>1, <2>2 DEF TcFails, Doing
  <1>5. PICK U : Quits(U)
    BY <1>4
  <1>6. ListInv' /\ JobInv' /\ HookList'
    BY <1>5, QuitLists
  <1>7. TypeInv'
    BY <1>1, <1>2, <1>5, QuitsType DEF TypeInv, Steady
  <1>. QED
    BY <1>6, <1>7 DEF Lists

LEMMA DetachLists == Lists /\ Detach => Lists'
  <1>. SUFFICES ASSUME Lists, Detach PROVE Lists'
    OBVIOUS
  <1>1. /\ Doing({"detach"}) /\ Steady /\ Proceed /\ UNCHANGED <<kern, cfg, made, chan, watching, blocked, faults, dirty>>
        /\ Command = Head(todo) /\ TypeInv /\ Head(todo).op = "detach" /\ attached' = <<>>
    BY Ready DEF Detach
  <1>2. Advance /\ ListInv' /\ JobInv' /\ Tail(todo) \in Seq(Commands)
    BY <1>1, ProceedAdvance DEF Adopting
  <1>3. HookList'
    BY <1>1, <1>2, DetachHooks
  <1>5. TypeInv'
    BY <1>1, <1>2, Empty DEF TypeInv, Steady, Proceed, failures
  <1>. QED
    BY <1>2, <1>3, <1>5 DEF Lists

LEMMA SameLists ==
    Lists /\ UNCHANGED <<host, process, type, cfg, next, made, chan, todo, attached, watching, failures, bounds, dirty>>
          /\ kern' \in [Objects -> Nat] => Lists'
  <1>. SUFFICES ASSUME Lists, UNCHANGED <<host, process, type, cfg, next, made, chan, todo, attached, watching, failures, bounds, dirty>>,
                       kern' \in [Objects -> Nat]
                PROVE  Lists'
    OBVIOUS
  <1>0. UNCHANGED <<host, process, type, cfg, next, made, chan, todo, attached, watching, failed, slipped, starts, restarts, faults, dirty>>
    BY DEF failures, bounds
  <1>1. TypeInv'
    BY <1>0 DEF Lists, TypeInv
  <1>2. T' = T /\ (Aborting' <=> Aborting) /\ (Booting' <=> Booting) /\ (Plan' <=> Plan) /\ (Running' <=> Running)
    BY <1>0 DEF T, Aborting, Booting, Plan, Running
  <1>3. ListInv'
    BY <1>0, <1>2, TypedSame DEF Lists, ListInv
  <1>4. \A c : (HasDel(c)' <=> HasDel(c)) /\ (Busy(c)' <=> Busy(c))
    BY <1>2 DEF HasDel, Busy
  <1>5. JobInv'
    <2>1. PICK d : d = next
      OBVIOUS
    <2>2. \A c \in Components : (Cmds(c, next)' = Cmds(c, next)) /\ (Enabled(c, next)' <=> Enabled(c, next)) /\ (ByBPF(c, next)' <=> ByBPF(c, next))
      BY <1>0, <2>1, SameCmds
    <2>3. \A x \in T : x.comp \in Components
      <3>1. T \subseteq Commands
        BY Within DEF Lists, TypeInv, T
      <3>. QED
        BY <3>1 DEF Commands
    <2>. QED
      BY <1>0, <1>2, <1>4, <2>2, <2>3 DEF Lists, JobInv
  <1>6. HookList'
    <2>1. (First' <=> First) /\ (Hooking' <=> Hooking) /\ (UsesBPF' <=> UsesBPF)
      BY <1>0, <1>2 DEF First, Hooking, UsesBPF, HelperWanted
    <2>2. Part' <=> Part
      BY <1>0, <1>2, <2>1 DEF Part, FilterCmds, QdiscObjs, Classic, selectedPrograms, eligible
    <2>. QED
      BY <1>0, <1>2, <1>4, <2>1, <2>2 DEF Lists, HookList
  <1>. QED
    BY <1>1, <1>3, <1>5, <1>6 DEF Lists

(* Lists is inductive: it holds at first, and every step keeps it. *)
LEMMA ListsInit == Init => Lists
  <1>. SUFFICES ASSUME Init PROVE Lists
    OBVIOUS
  <1>1. /\ host \in Hosts /\ kern = [o \in Objects |-> 0] /\ process = "off" /\ type = "SOCKS5" /\ next \in Configs
        /\ cfg = [c \in Components |-> next] /\ made = {} /\ chan = [c \in Components |-> "none"]
        /\ todo = <<>> /\ attached = <<>> /\ watching = FALSE /\ failed = FALSE /\ slipped = FALSE
        /\ starts = 0 /\ restarts = 0 /\ faults = 0 /\ dirty = {}
    BY DEF Init
  <1>2. TypeInv
    BY <1>1, Empty DEF TypeInv
  <1>3. T = {} /\ DOMAIN <<>> = {}
    BY <1>1, Empty DEF T
  <1>4. ~Plan /\ ~Running /\ ~Aborting /\ ~Booting /\ ~First /\ ~Hooking
    BY <1>1, <1>3 DEF Plan, Running, Aborting, Booting, First, Hooking
  <1>5. ListInv
    BY <1>1, <1>3, <1>4 DEF ListInv, After
  <1>6. JobInv
    BY <1>1, <1>3, <1>4 DEF JobInv
  <1>7. HookList
    BY <1>1, <1>3, <1>4 DEF HookList
  <1>. QED
    BY <1>2, <1>5, <1>6, <1>7 DEF Lists

LEMMA ListsStep == Lists /\ [Next]_vars => Lists'
  <1>. SUFFICES ASSUME Lists, [Next]_vars PROVE Lists'
    OBVIOUS
  <1>0. TypeInv
    BY DEF Lists
  <1>1. CASE Boot
    <2>1. ListInv' /\ JobInv' /\ HookList'
      BY <1>1, BootLists
    <2>2. todo' \in Seq(Commands)
      <3>1. PICK b \in Commands : b = Boots
        BY SingleTypes DEF Boots
      <3>. QED
        BY <1>1, <3>1, One DEF Boot, Boots
    <2>3. next' \in Configs /\ type' \in {"SOCKS5", "TPROXY", "REDIRECT", "NFQUEUE"}
      BY <1>1, ConfigsAssumption DEF Boot
    <2>4. attached' \in Seq(Hooks) /\ chan' \in [Components -> {"none", "open", "closed"}] /\ made' \subseteq Components
      BY <1>1, Empty DEF Boot
    <2>5. starts' \in Nat /\ process' = "starting" /\ watching' = FALSE /\ failed' = FALSE
          /\ UNCHANGED <<slipped, host, kern, cfg, restarts, faults, dirty>>
      BY <1>0, <1>1 DEF TypeInv, Boot
    <2>6. TypeInv'
      BY <1>0, <2>2, <2>3, <2>4, <2>5 DEF TypeInv
    <2>. QED
      BY <2>1, <2>6 DEF Lists
  <1>2. CASE Restart
    <2>1. ListInv' /\ JobInv' /\ HookList'
      BY <1>2, RestartLists
    <2>2. todo' \in Seq(Commands) /\ next' \in Configs
      <3>1. PICK d \in Configs : next' = d /\ todo' = RestartSystem(d) /\ process = "up"
        BY <1>2 DEF Restart, Idle
      <3>2. "help" \in made
        BY <3>1 DEF Lists, JobInv
      <3>. QED
        BY <1>0, <3>1, <3>2, RestartFacts DEF TypeInv, Types
    <2>3. TypeInv'
      BY <1>0, <1>2, <2>2 DEF TypeInv, Restart, failures
    <2>. QED
      BY <2>1, <2>3 DEF Lists
  <1>3. CASE Stop
    <2>1. ListInv' /\ JobInv' /\ HookList'
      BY <1>3, StopLists
    <2>2. todo' \in Seq(Commands)
      BY <1>0, <1>3, CloseFacts DEF TypeInv, Types, Stop
    <2>3. TypeInv'
      BY <1>0, <1>3, <2>2 DEF TypeInv, Stop, failures, bounds
    <2>. QED
      BY <2>1, <2>3 DEF Lists
  <1>4. CASE Finish
    <2>1. ListInv' /\ JobInv' /\ HookList'
      BY <1>4, FinishLists
    <2>2. TypeInv'
      BY <1>0, <1>4 DEF TypeInv, Finish, bounds
    <2>. QED
      BY <2>1, <2>2 DEF Lists
  <1>5. CASE Kill
    <2>1. ListInv' /\ JobInv' /\ HookList'
      BY <1>5, KilledLists DEF Kill
    <2>2. attached' \in Seq(Hooks) /\ todo' \in Seq(Commands) /\ faults' = faults + 1 /\ process' = "killed" /\ watching' = FALSE
          /\ dirty' = dirty \cup {type} /\ kern' = [kern EXCEPT ![Links] = 0]
          /\ UNCHANGED <<host, type, cfg, next, made, chan, failed, slipped, starts, restarts>>
      BY <1>5, Empty DEF Kill, Killed, failures
    <2>3. kern' \in [Objects -> Nat] /\ faults' \in Nat
      <3>1. kern \in [Objects -> Nat] /\ faults \in Nat
        BY <1>0 DEF TypeInv
      <3>2. [kern EXCEPT ![Links] = 0] \in [Objects -> Nat]
        BY <3>1
      <3>. QED
        BY <2>2, <3>1, <3>2
    <2>4. TypeInv'
      BY <1>0, <2>2, <2>3 DEF TypeInv
    <2>. QED
      BY <2>1, <2>4 DEF Lists
  <1>6. CASE WatchTick
    <2>1. kern' \in [Objects -> Nat]
      BY <1>0, <1>6 DEF TypeInv, WatchTick
    <2>. QED
      BY <1>6, <2>1, SameLists DEF WatchTick
  <1>7. CASE UNCHANGED vars
    <2>1. kern' \in [Objects -> Nat]
      BY <1>0, <1>7 DEF TypeInv, vars
    <2>. QED
      BY <1>7, <2>1, SameLists DEF vars
  <1>. QED
    BY <1>1, <1>2, <1>3, <1>4, <1>5, <1>6, <1>7, PutLists, TryLists, DeleteLists, FaultLists, NoBackendLists, WatchLists,
       BuildLists, OpenLists, ShutLists, TcxLists, QdiscLists, AttachLists, TcFailsLists, DetachLists DEF Next
=============================================================================
