---------------------------- MODULE FirewallSetup ----------------------------
(***************************************************************************)
(* What UA3F leaves in the kernel.  The L3 helper, the desync server and   *)
(* the proxy server each install firewall rules when they start and remove *)
(* them when they close; runRoot, RestartSystem and CloseSystem call them  *)
(* one after the other.  Any command may fail, and the process may be      *)
(* killed between two commands; what it has put into the kernel stays.     *)
(*                                                                         *)
(* A job is the list of the commands still to run, `todo`.  kern counts    *)
(* the instances of each kernel object; of a chain, 1 is an empty one and  *)
(* 2 one with rules.  A definition named Mutant... is the one after it     *)
(* with a plausible fault in it; the specification does not use it.        *)
(***************************************************************************)
EXTENDS Naturals, Sequences, FiniteSets, SequencesExt

CONSTANTS
    Hosts,        \* what the machine offers: a set of host records
    Configs,      \* the configurations a start or a restart may load
    MaxJobs,      \* bound: starts and restarts of the process
    MaxFaults     \* bound: commands that fail of themselves, and kills

ASSUME BoundsAssumption == MaxJobs \in Nat /\ MaxFaults \in Nat
ASSUME HostsAssumption == Hosts \subseteq
    [openwrt : BOOLEAN, nft : BOOLEAN, ipt : BOOLEAN, tproxyMod : BOOLEAN, queueMod : BOOLEAN,
     flow : BOOLEAN, sc : BOOLEAN, tcx : BOOLEAN,
     ifaces : SUBSET [name : {"lo", "br-lan", "eth0", "wan", "wwan"}, encap : {"ether", "ppp", "none"},
                      ipv4 : BOOLEAN, default : BOOLEAN]]
(* The interfaces that may have the default route are the two named here. *)
ASSUME UplinksAssumption == \A h \in Hosts : \A i \in h.ifaces : i.default => i.name \in {"wan", "wwan"}
ASSUME ConfigsAssumption == Configs \subseteq
    [mode : {"SOCKS5", "TPROXY", "REDIRECT", "NFQUEUE"}, ttl : {0, 64, 65}, syn : BOOLEAN,
     ipid : BOOLEAN, quic : BOOLEAN, reorder : BOOLEAN, inject : BOOLEAN, bpf : BOOLEAN]

VARIABLES
    host,
    kern,      \* instances of each kernel object
    process,   \* "off", "starting", "up", "restarting", "stopping", "exited", "killed"
    type,      \* the type of the server: the mode at the start
    cfg,       \* the configuration each component was built with
    next,      \* the configuration the job installs
    made,      \* components that exist
    chan,      \* of each: the worker channels or the listener it closes
    todo,      \* commands still to run
    attached,  \* the links or the filters of the helper's TC, in the order they were made
    watching,  \* an iptables watcher runs: it lives as long as the process
    blocked,   \* the object whose existence made the last failing command fail
    failed,    \* the last restart has failed
    slipped,   \* a restart has failed
    starts, restarts, faults,
    dirty      \* the server types of the processes that were killed

failures == <<failed, slipped>>
bounds == <<starts, restarts, faults>>
vars == <<host, kern, process, type, cfg, next, made, chan, todo, attached, watching, blocked, failures,
          bounds, dirty>>

Components == {"help", "des", "srv"}
Nowhere == "nothing"

-----------------------------------------------------------------------------
(* The kernel objects. *)

Tables == {"nft UA3F_HELPER", "nft UA3F_DESYNC", "nft UA3F"}
Ingress == "nft TTL_INGRESS"      \* a chain of UA3F_HELPER, added in a transaction of its own
Routes  == {"rule4", "route4", "rule6", "route6"}
LanSet  == "UA3F_LAN"
SkipSet == "UA3F_SKIP_IPSET"
Sets    == {LanSet, SkipSet}
(* TPROXY and NFQUEUE use the same name in the mangle table. *)
Chains  == {"mangle UA3F", "UA3F_OUTPUT", "UA3F_SIDECAR", "nat UA3F", "REORDER", "INJECT"}
TtlRule(v) == IF v = 65 THEN "TTL 65" ELSE "TTL 64"
Rules   == {"TTL 64", "TTL 65", "IP", "SYN", "QUIC"}
JumpTo  == [j \in {"PREROUTING > UA3F", "OUTPUT > UA3F_OUTPUT", "PREROUTING > UA3F_SIDECAR",
                   "nat PREROUTING > UA3F", "POSTROUTING > UA3F", "POSTROUTING > REORDER",
                   "PREROUTING > INJECT"} |->
            CASE j \in {"PREROUTING > UA3F", "POSTROUTING > UA3F"} -> "mangle UA3F"
              [] j = "OUTPUT > UA3F_OUTPUT"      -> "UA3F_OUTPUT"
              [] j = "PREROUTING > UA3F_SIDECAR" -> "UA3F_SIDECAR"
              [] j = "nat PREROUTING > UA3F"     -> "nat UA3F"
              [] j = "POSTROUTING > REORDER"     -> "REORDER"
              [] j = "PREROUTING > INJECT"       -> "INJECT"]
Jumps   == DOMAIN JumpTo
(* BPF programs at the egress of an interface: TCX links, which are gone with
   the process, or filters, whose priority and handle are their position.   *)
Links   == "TCX"
Filters == [wan  |-> <<"wan 1", "wan 2", "wan 3", "wan 4">>,
            wwan |-> <<"wwan 1", "wwan 2", "wwan 3", "wwan 4">>]
Qdisc   == [wan |-> "wan clsact", wwan |-> "wwan clsact"]
AllFilters == ToSet(Filters.wan) \cup ToSet(Filters.wwan)
Objects == Tables \cup {Ingress} \cup Routes \cup Sets \cup Chains \cup Rules \cup Jumps
           \cup {Links, Qdisc.wan, Qdisc.wwan} \cup AllFilters
MatchSets == {"mangle UA3F", "UA3F_OUTPUT", "nat UA3F"}   \* chains whose rules name the sets

(* The kernel refuses to delete a chain that is jumped to, or a set that is
   matched against.                                                         *)
InUse(k, o) ==
    \/ o \in Chains /\ \E j \in Jumps : JumpTo[j] = o /\ k[j] > 0
    \/ o \in Sets /\ \E c \in MatchSets : k[c] = 2
Deleted(k, o) ==
    IF k[o] = 0 THEN k
    ELSE IF o \in Tables THEN [x \in Objects |-> IF x = o \/ (o = "nft UA3F_HELPER" /\ x = Ingress)
                                                 THEN 0 ELSE k[x]]
    ELSE IF o \in Chains THEN [k EXCEPT ![o] = IF InUse(k, o) THEN 1 ELSE 0]
    ELSE IF InUse(k, o) THEN k
    ELSE [k EXCEPT ![o] = @ - 1]

-----------------------------------------------------------------------------
(* detectFirewallBackend. *)
QueueNeeded(c) == c.syn \/ c.ipid \/ c.mode = "NFQUEUE" \/ c.reorder \/ c.inject
SelectNFT(c) ==
    /\ host.nft
    /\ host.openwrt => (QueueNeeded(c) => host.queueMod) /\ (c.mode = "TPROXY" => host.tproxyMod)
Backend(c) == IF SelectNFT(c) THEN "nft" ELSE IF host.ipt THEN "ipt" ELSE "none"

(* Commands.  create fails if the object exists; put adds an instance; fill
   puts the rules into a chain; try may fail without consequence.           *)
Do(c, op, o) == [comp |-> c, op |-> op, obj |-> o]
DoAll(c, op, os) == [i \in DOMAIN os |-> Do(c, op, os[i])]
When(b, steps) == IF b THEN steps ELSE <<>>

AddTproxyRoute == DoAll("srv", "create", <<"rule4", "route4">>)
                  \o DoAll("srv", "try", <<"rule6", "route6">>)
DeleteTproxyRoute == DoAll("srv", "delete", <<"rule4", "route4", "rule6", "route6">>)

IptSets == DoAll("srv", "create", <<LanSet, SkipSet>>)

(* iptSetup of the TPROXY server, with the chain of a ShellCrash sidecar. *)
TproxyIpt ==
    AddTproxyRoute \o IptSets
    \o When(host.sc, <<Do("srv", "create", "UA3F_SIDECAR"),
                       Do("srv", "put", "PREROUTING > UA3F_SIDECAR")>>)
    \o DoAll("srv", "create", <<"mangle UA3F", "UA3F_OUTPUT">>)
    \o DoAll("srv", "put", <<"PREROUTING > UA3F", "OUTPUT > UA3F_OUTPUT">>)
    \o When(host.sc, <<Do("srv", "fill", "UA3F_SIDECAR")>>)
    \o DoAll("srv", "fill", <<"mangle UA3F", "UA3F_OUTPUT">>)
TproxyIptCleanup ==
    DeleteTproxyRoute
    \o DoAll("srv", "delete", <<"PREROUTING > UA3F", "OUTPUT > UA3F_OUTPUT",
                                "PREROUTING > UA3F_SIDECAR", "mangle UA3F", "UA3F_OUTPUT",
                                "UA3F_SIDECAR", LanSet>>)

RedirectIpt ==
    IptSets \o <<Do("srv", "create", "nat UA3F"), Do("srv", "put", "nat PREROUTING > UA3F"),
                 Do("srv", "fill", "nat UA3F")>>
RedirectIptCleanup ==
    DoAll("srv", "delete", <<"nat PREROUTING > UA3F", "nat UA3F", LanSet, SkipSet>>)

NfqueueIpt ==
    IptSets \o <<Do("srv", "create", "mangle UA3F"), Do("srv", "put", "POSTROUTING > UA3F"),
                 Do("srv", "fill", "mangle UA3F")>>
MutantNfqueueIptCleanup == DoAll("srv", "delete", <<"POSTROUTING > UA3F", "mangle UA3F", SkipSet>>)
NfqueueIptCleanup ==
    DoAll("srv", "delete", <<"POSTROUTING > UA3F", "mangle UA3F", LanSet, SkipSet>>)

(* nftSetup: one transaction. *)
TproxyNft   == AddTproxyRoute \o <<Do("srv", "put", "nft UA3F")>>
RedirectNft == <<Do("srv", "put", "nft UA3F")>>
NfqueueNft  == <<Do("srv", "put", "nft UA3F")>>
DesyncNft   == <<Do("des", "put", "nft UA3F_DESYNC")>>
TproxyNftCleanup   == DeleteTproxyRoute \o <<Do("srv", "delete", "nft UA3F")>>
RedirectNftCleanup == <<Do("srv", "delete", "nft UA3F")>>
NfqueueNftCleanup  == <<Do("srv", "delete", "nft UA3F")>>
DesyncNftCleanup   == <<Do("des", "delete", "nft UA3F_DESYNC")>>
HelperNftCleanup   == <<Do("help", "delete", "nft UA3F_HELPER")>>

DesyncIpt(c) ==
    When(c.reorder, <<Do("des", "create", "REORDER"), Do("des", "put", "POSTROUTING > REORDER"),
                      Do("des", "fill", "REORDER")>>)
    \o When(c.inject, <<Do("des", "create", "INJECT"), Do("des", "put", "PREROUTING > INJECT"),
                        Do("des", "fill", "INJECT")>>)
DesyncIptCleanup == DoAll("des", "delete", <<"POSTROUTING > REORDER", "PREROUTING > INJECT",
                                             "INJECT", "REORDER">>)

(* The helper puts its rules into POSTROUTING itself.  With flow offloading
   the TTL is also set at the ingress of the LAN device, by nftables; the
   iptables setup fails if that fails, the nftables setup does not.         *)
HelperIpt(c) ==
    When(c.ttl # 0, <<Do("help", "put", TtlRule(c.ttl))>>
                    \o When(host.flow, DoAll("help", "put", <<"nft UA3F_HELPER", Ingress>>)))
    \o When(c.syn /\ ~c.ipid, <<Do("help", "put", "SYN")>>)
    \o When(c.ipid, <<Do("help", "put", "IP")>>)
    \o When(c.quic, <<Do("help", "put", "QUIC")>>)
HelperIptCleanup(c) == DoAll("help", "delete", <<TtlRule(c.ttl), "IP", "SYN", "QUIC">>)
HelperNft(c) == <<Do("help", "put", "nft UA3F_HELPER")>>
                \o When(c.ttl # 0 /\ host.flow, <<Do("help", "try", Ingress)>>)

(* tc.NewTC attaches one program for each option to each interface that has
   the default route.                                                       *)
selectedPrograms(c) ==
    LET one(b) == IF b THEN 1 ELSE 0
    IN  one(c.ipid) + one(c.ttl # 0) + one(c.syn) + one(c.quic)
eligible ==
    {i.name : i \in {i \in host.ifaces : /\ i.name \notin {"lo", "br-lan"} /\ i.encap \in {"ether", "ppp"}
                                         /\ i.ipv4 /\ i.default}}
(* One interface after the other: the qdisc, then the filters. *)
addClsBpfFilters(c, i) == DoAll("help", "filter", [p \in 1..selectedPrograms(c) |-> Filters[i][p]])
attachAllClassic == DoAll("help", "qdisc", SetToSeq(eligible))
NewTC == <<Do("help", IF eligible # {} THEN "tcx" ELSE "nowan", Nowhere)>>
CloseTC == DoAll("help", "delete", attached) \o <<Do("help", "detach", Nowhere)>>

(* New gives each server its own setup and cleanup; SOCKS5 and HTTP have none. *)
ServerNft ==
    CASE type = "TPROXY" -> TproxyNft [] type = "REDIRECT" -> RedirectNft [] OTHER -> NfqueueNft
ServerIpt ==
    CASE type = "TPROXY" -> TproxyIpt [] type = "REDIRECT" -> RedirectIpt [] OTHER -> NfqueueIpt
ServerCleanup ==
    CASE type = "TPROXY"   -> TproxyNftCleanup \o TproxyIptCleanup
      [] type = "REDIRECT" -> RedirectNftCleanup \o RedirectIptCleanup
      [] type = "NFQUEUE"  -> NfqueueNftCleanup \o NfqueueIptCleanup
      [] OTHER -> <<>>

(* Firewall.Cleanup removes the rules of both backends. *)
Cleanup(comp, c) ==
    CASE comp = "help" -> HelperNftCleanup \o HelperIptCleanup(c)
      [] comp = "des"  -> DesyncNftCleanup \o DesyncIptCleanup
      [] comp = "srv"  -> ServerCleanup

Install(comp, c) ==
    CASE comp = "help" -> IF Backend(c) = "nft" THEN HelperNft(c) ELSE HelperIpt(c)
      [] comp = "des"  -> IF Backend(c) = "nft" THEN DesyncNft ELSE DesyncIpt(c)
      [] comp = "srv"  -> IF Backend(c) = "nft" THEN ServerNft ELSE ServerIpt

(* NftWatch has no lasting effect; the iptables watcher can create a set. *)
Watch(comp, c) == When(comp = "srv" /\ Backend(c) = "ipt", <<Do("srv", "watch", SkipSet)>>)

(* Firewall.Setup. *)
MutantSetup(comp, c) ==
    (IF Backend(c) = "none" THEN <<Do(comp, "fail", Nowhere)>> ELSE Install(comp, c))
    \o Watch(comp, c)
Setup(comp, c) ==
    Cleanup(comp, c)
    \o (IF Backend(c) = "none" THEN <<Do(comp, "fail", Nowhere)>> ELSE Install(comp, c))
    \o Watch(comp, c)

-----------------------------------------------------------------------------
(* Start and Close of each component: its firewall, and what it opens. *)
HelperWanted(c) == c.ttl # 0 \/ c.syn \/ c.ipid \/ c.quic
DesyncWanted(c) == c.reorder \/ c.inject
Opening(comp) == <<Do(comp, "open", Nowhere)>>
Shutting(comp) == <<Do(comp, "shut", Nowhere)>>

HelperStart(c) ==
    When(HelperWanted(c), IF c.bpf THEN NewTC
                          ELSE Setup("help", c) \o When(c.syn \/ c.ipid, Opening("help")))
DesyncStart(c) == Setup("des", c) \o When(DesyncWanted(c), Opening("des"))
ServerStart(c) == When(type # "SOCKS5", Setup("srv", c) \o Opening("srv"))

HelperClose == CloseTC \o Cleanup("help", cfg["help"]) \o Shutting("help")
DesyncClose == Cleanup("des", cfg["des"]) \o Shutting("des")
ServerClose == Cleanup("srv", cfg["srv"]) \o Shutting("srv")

Adopt(comp) == <<Do(comp, "adopt", Nowhere)>>

(* runRoot. *)
StartSystem(c) ==
    Adopt("help") \o HelperStart(c) \o When(DesyncWanted(c), Adopt("des") \o DesyncStart(c))
    \o Adopt("srv") \o ServerStart(c)

MutantCloseSystem == When("srv" \in made, ServerClose) \o When("help" \in made, HelperClose)
CloseSystem ==
    When("srv" \in made, ServerClose) \o When("des" \in made, DesyncClose)
    \o When("help" \in made, HelperClose)

(* Restart: TPROXY does not close the server it replaces. *)
ServerRestart(c) ==
    When(type \in {"REDIRECT", "NFQUEUE"}, ServerClose) \o ServerStart(c) \o Adopt("srv")
DesyncRestart(c) == DesyncClose \o DesyncStart(c) \o Adopt("des")
HelperRestart(c) == HelperClose \o HelperStart(c) \o Adopt("help")

RestartSystem(c) ==
    ServerRestart(c) \o When("des" \in made, DesyncRestart(c)) \o HelperRestart(c)

-----------------------------------------------------------------------------
Init ==
    /\ host \in Hosts
    /\ kern = [o \in Objects |-> 0]
    /\ process = "off" /\ type = "SOCKS5"
    /\ next \in Configs /\ cfg = [c \in Components |-> next]
    /\ made = {} /\ chan = [c \in Components |-> "none"]
    /\ todo = <<>> /\ attached = <<>> /\ watching = FALSE /\ blocked = Nowhere /\ failed = FALSE /\ slipped = FALSE
    /\ starts = 0 /\ restarts = 0 /\ faults = 0 /\ dirty = {}

Running == process \in {"starting", "up", "restarting", "stopping"}
Idle    == process = "up"
MoreJobs == starts + restarts < MaxJobs

(* The process is started, for the first time or again. *)
Boot ==
    /\ ~Running /\ MoreJobs
    /\ \E c \in Configs : next' = c /\ type' = c.mode
    /\ process' = "starting" /\ starts' = starts + 1
    /\ made' = {} /\ chan' = [c \in Components |-> "none"]
    /\ todo' = <<Do("srv", "boot", Nowhere)>>
    /\ attached' = <<>> /\ watching' = FALSE /\ blocked' = Nowhere
    /\ failed' = FALSE /\ UNCHANGED slipped
    /\ UNCHANGED <<host, kern, cfg, restarts, faults, dirty>>

(* /restart or SIGHUP, with the configuration read again. *)
Restart ==
    /\ Idle /\ MoreJobs
    /\ \E c \in Configs : next' = c /\ todo' = RestartSystem(c)
    /\ process' = "restarting" /\ restarts' = restarts + 1 /\ blocked' = Nowhere
    /\ UNCHANGED <<host, kern, type, cfg, made, chan, attached, watching, failures, starts, faults,
                   dirty>>

(* SIGTERM. *)
Stop ==
    /\ Idle
    /\ process' = "stopping" /\ todo' = CloseSystem
    /\ UNCHANGED <<host, kern, type, cfg, next, made, chan, attached, watching, blocked, failures,
                   bounds, dirty>>

(* The end of a job. *)
Finish ==
    /\ process \in {"starting", "restarting", "stopping"} /\ todo = <<>>
    /\ process' = IF process = "stopping" THEN "exited" ELSE "up"
    /\ failed' = FALSE
    /\ UNCHANGED <<host, kern, type, cfg, next, made, chan, todo, attached, watching, blocked, slipped,
                   bounds, dirty>>

(* The kernel keeps what does not belong to a file of the process. *)
Killed ==
    /\ kern' = [kern EXCEPT ![Links] = 0] /\ attached' = <<>>
    /\ process' = "killed" /\ todo' = <<>> /\ watching' = FALSE /\ blocked' = Nowhere
    /\ dirty' = dirty \cup {type}
Kill ==
    /\ Running /\ MoreJobs /\ faults < MaxFaults /\ faults' = faults + 1 /\ Killed
    /\ UNCHANGED <<host, type, cfg, next, made, chan, failures, starts, restarts>>

(* An error ends the job: runRoot calls CloseSystem and exits, RestartSystem
   returns.                                                                 *)
GiveUp(undo) ==
    IF process = "starting"
    THEN todo' = undo \o CloseSystem /\ process' = "stopping" /\ UNCHANGED failures
    ELSE todo' = undo \o <<Do("srv", "abort", Nowhere)>> /\ UNCHANGED <<process, failures>>
(* Setup starts the watcher and cleans up before it returns the error. *)
MutantSetupFails(s) == GiveUp(Watch(s.comp, next))
SetupFails(s) == GiveUp(Watch(s.comp, next) \o Cleanup(s.comp, next))

Command == Head(todo)
Doing(ops) == Running /\ todo # <<>> /\ Command.op \in ops
Proceed == todo' = Tail(todo) /\ UNCHANGED <<process, failures>>
Steady  == UNCHANGED <<host, type, next, starts, restarts>>

Installed(k, s) ==
    CASE s.op = "fill" -> [k EXCEPT ![s.obj] = 2]
      [] s.op = "create" -> [k EXCEPT ![s.obj] = 1]
      [] OTHER -> [k EXCEPT ![s.obj] = @ + 1]

(* A command that installs something, and one that finds it is there. *)
Put ==
    /\ Doing({"create", "put", "fill"})
    /\ IF Command.op = "create" /\ kern[Command.obj] # 0
       THEN blocked' = Command.obj /\ UNCHANGED kern /\ SetupFails(Command)
       ELSE kern' = Installed(kern, Command) /\ UNCHANGED blocked /\ Proceed
    /\ Steady /\ UNCHANGED <<cfg, made, chan, attached, watching, faults, dirty>>

Try ==
    /\ Doing({"try"})
    /\ kern' = IF kern[Command.obj] # 0 THEN kern ELSE Installed(kern, Command)
    /\ Proceed /\ Steady /\ UNCHANGED <<cfg, made, chan, attached, watching, blocked, faults, dirty>>

Delete ==
    /\ Doing({"delete"})
    /\ kern' = Deleted(kern, Command.obj)
    /\ Proceed /\ Steady /\ UNCHANGED <<cfg, made, chan, attached, watching, blocked, faults, dirty>>

(* A command fails of itself.  Some of the rules of a chain, or of the
   addresses of a set, may be in it.                                        *)
Partly(s) == s.op = "fill" \/ (s.obj \in Sets /\ kern[s.obj] = 0)
Fault ==
    /\ faults < MaxFaults /\ faults' = faults + 1
    /\ Doing({"create", "put", "fill", "try", "open"})
    /\ CASE Command.op = "try" -> Proceed /\ UNCHANGED kern
         [] Command.op = "open" -> GiveUp(<<>>) /\ UNCHANGED kern
         [] OTHER -> /\ kern' \in {kern} \cup (IF Partly(Command) THEN {Installed(kern, Command)} ELSE {})
                     /\ SetupFails(Command)
    /\ Steady /\ UNCHANGED <<cfg, made, chan, attached, watching, blocked, dirty>>

NoBackend ==
    /\ Doing({"fail"}) /\ SetupFails(Command)
    /\ Steady /\ UNCHANGED <<kern, cfg, made, chan, attached, watching, blocked, faults, dirty>>

StartWatch ==
    /\ Doing({"watch"}) /\ watching' = TRUE /\ Proceed
    /\ Steady /\ UNCHANGED <<kern, cfg, made, chan, attached, blocked, faults, dirty>>

(* IptAddSkipDomains and IptAddSkipIP create the set if it is not there. *)
WatchTick ==
    /\ watching /\ Running /\ kern[SkipSet] = 0
    /\ kern' = [kern EXCEPT ![SkipSet] = 1]
    /\ UNCHANGED <<host, process, type, cfg, next, made, chan, todo, attached, watching, blocked, failures,
                   bounds, dirty>>

(* TPROXY and REDIRECT take over the listener, open or closed. *)
Inherits(comp) == comp = "srv" /\ type \in {"TPROXY", "REDIRECT"}

(* The commands that touch the process only: runRoot builds a component, or
   RestartSystem takes the new one; nfqServer.Start or Listen.              *)
Build ==
    /\ Doing({"boot", "adopt", "abort"})
    /\ CASE Command.op = "boot" ->
              todo' = StartSystem(next) /\ UNCHANGED <<process, failures, made, cfg, chan>>
         [] Command.op = "adopt" ->
              /\ made' = made \cup {Command.comp} /\ cfg' = [cfg EXCEPT ![Command.comp] = next]
              /\ chan' = IF chan[Command.comp] = "closed" /\ ~Inherits(Command.comp)
                         THEN [chan EXCEPT ![Command.comp] = "none"] ELSE chan
              /\ Proceed
         [] Command.op = "abort" ->
              /\ todo' = <<>> /\ process' = "up" /\ failed' = TRUE /\ slipped' = TRUE
              /\ UNCHANGED <<made, cfg, chan>>
    /\ Steady /\ UNCHANGED <<kern, attached, watching, blocked, faults, dirty>>

Open ==
    /\ Doing({"open"})
    /\ chan' = IF Inherits(Command.comp) /\ chan[Command.comp] # "none" THEN chan
               ELSE [chan EXCEPT ![Command.comp] = "open"]
    /\ Proceed /\ Steady /\ UNCHANGED <<kern, cfg, made, attached, watching, blocked, faults, dirty>>

(* nfqServer.Close closes the worker channels, once more if it is called once
   more: a panic, which ends the process unless the API recovers from it.
   listener.Close only returns an error then, which CloseSystem ignores.    *)
Shut ==
    /\ Doing({"shut"})
    /\ IF chan[Command.comp] # "closed"
       THEN /\ chan' = IF chan[Command.comp] = "open" THEN [chan EXCEPT ![Command.comp] = "closed"] ELSE chan
            /\ Proceed /\ UNCHANGED <<kern, attached, watching, blocked, dirty>>
       ELSE /\ UNCHANGED chan
            /\ IF Inherits(Command.comp)
               THEN /\ IF process = "restarting" THEN GiveUp(<<>>) ELSE Proceed
                    /\ UNCHANGED <<kern, attached, watching, blocked, dirty>>
               ELSE \/ /\ process = "restarting" /\ GiveUp(<<>>)
                       /\ UNCHANGED <<kern, attached, watching, blocked, dirty>>
                    \/ Killed /\ UNCHANGED failures
    /\ Steady /\ UNCHANGED <<cfg, made, faults>>

(* attachAllTCX: all links or none; when it fails, filters are tried. *)
AttachTCX ==
    /\ Doing({"tcx"})
    /\ \/ /\ host.tcx /\ kern' = [kern EXCEPT ![Links] = 1] /\ attached' = <<Links>>
          /\ Proceed /\ UNCHANGED faults
       \/ /\ IF host.tcx THEN faults < MaxFaults /\ faults' = faults + 1 ELSE UNCHANGED faults
          /\ todo' = attachAllClassic \o Tail(todo)
          /\ UNCHANGED <<kern, attached, process, failures>>
    /\ Steady /\ UNCHANGED <<cfg, made, chan, watching, blocked, dirty>>

(* ensureClsactQdisc takes one that is there; it is never removed. *)
EnsureQdisc ==
    /\ Doing({"qdisc"}) /\ kern' = [kern EXCEPT ![Qdisc[Command.obj]] = 1]
    /\ todo' = addClsBpfFilters(next, Command.obj) \o Tail(todo)
    /\ Steady /\ UNCHANGED <<process, failures, cfg, made, chan, attached, watching, blocked, faults, dirty>>

(* A filter is added unless its handle is taken. *)
AttachFilter ==
    /\ Doing({"filter"}) /\ kern[Command.obj] = 0
    /\ kern' = [kern EXCEPT ![Command.obj] = 1]
    /\ attached' = Append(attached, Command.obj)
    /\ Proceed /\ Steady /\ UNCHANGED <<cfg, made, chan, watching, blocked, faults, dirty>>

(* On an error the filters of this attempt are deleted. *)
MutantClassicFails == GiveUp(<<>>) /\ attached' = <<>>
ClassicFails == GiveUp(DoAll("help", "delete", attached)) /\ attached' = <<>>
TcFails ==
    /\ \/ /\ Doing({"filter"}) /\ kern[Command.obj] # 0 /\ blocked' = Command.obj
          /\ ClassicFails /\ UNCHANGED faults
       \/ /\ Doing({"qdisc", "filter"}) /\ faults < MaxFaults /\ faults' = faults + 1
          /\ ClassicFails /\ UNCHANGED blocked
       \/ Doing({"nowan"}) /\ GiveUp(<<>>) /\ UNCHANGED <<attached, blocked, faults>>
    /\ Steady /\ UNCHANGED <<kern, cfg, made, chan, watching, dirty>>

(* The end of TC.Close. *)
Detach ==
    /\ Doing({"detach"}) /\ attached' = <<>>
    /\ Proceed /\ Steady /\ UNCHANGED <<kern, cfg, made, chan, watching, blocked, faults, dirty>>

Next ==
    \/ Boot \/ Restart \/ Stop \/ Finish \/ Kill
    \/ Put \/ Try \/ Delete \/ Fault \/ NoBackend
    \/ StartWatch \/ WatchTick \/ Build \/ Open \/ Shut
    \/ AttachTCX \/ EnsureQdisc \/ AttachFilter \/ TcFails \/ Detach

Spec == Init /\ [][Next]_vars

-----------------------------------------------------------------------------
Owned ==
    [comp \in Components |->
        CASE comp = "help" -> {"nft UA3F_HELPER", Ingress} \cup Rules \cup {Links} \cup AllFilters
          [] comp = "des"  -> {"nft UA3F_DESYNC", "REORDER", "INJECT", "POSTROUTING > REORDER",
                               "PREROUTING > INJECT"}
          [] comp = "srv"  -> {"nft UA3F"} \cup Routes \cup Sets \cup {c \in Chains : c \notin {"REORDER", "INJECT"}}
                              \cup {j \in Jumps : JumpTo[j] \notin {"REORDER", "INJECT"}}]

(* What the setup of a component puts into an empty kernel. *)
Enabled(comp, c) ==
    CASE comp = "help" -> HelperWanted(c) [] comp = "des" -> TRUE [] comp = "srv" -> type # "SOCKS5"
Attached(c) ==
    IF Links \in ToSet(attached) THEN {Links}
    ELSE {o \in AllFilters : \E i \in eligible, p \in 1..selectedPrograms(c) : o = Filters[i][p]}
Wanted(comp, c) ==
    IF comp = "help" /\ HelperWanted(c) /\ c.bpf
    THEN [o \in Objects |-> IF o \in Attached(c) THEN 1 ELSE 0]
    ELSE LET cmds == IF Enabled(comp, c) /\ Backend(c) # "none" THEN ToSet(Install(comp, c)) ELSE {}
         IN  [o \in Objects |-> IF Do(comp, "fill", o) \in cmds THEN 2
                                ELSE IF \E op \in {"create", "put", "try"} : Do(comp, op, o) \in cmds
                                THEN 1 ELSE 0]
Optional(c) == {"rule6", "route6"} \cup (IF Backend(c) = "nft" THEN {Ingress} ELSE {})

(* The rule of a TTL that only a failed restart has set: Close looks for the
   one of the configuration that was replaced.                              *)
StrayTTL == IF slipped THEN {"TTL 64", "TTL 65"} ELSE {}

Exact(comp, c, objects) ==
    \A o \in objects :
        \/ kern[o] = Wanted(comp, c)[o]
        \/ o \in Optional(c) /\ kern[o] = 0
        \/ o = SkipSet /\ kern[o] = 1
Gone(comp) == \A o \in Owned[comp] \ (StrayTTL \cup {SkipSet}) : kern[o] = 0

(* A start or a restart that succeeds leaves exactly the rules of the current
   configuration: each once, however often the process was restarted, none of
   an earlier configuration, and not those of a component that was switched
   off.  With nftables alone this holds after a kill, too, of the components
   that are enabled, but for the policy routes of TPROXY, for the filters of
   a helper that used BPF and for the rules of one that uses it now.        *)
Leftover ==
    StrayTTL \cup
    (IF dirty = {} THEN {}
     ELSE (IF type # "TPROXY" THEN Routes ELSE {})
          \cup (AllFilters \ ToSet(attached))
          \cup (IF next.bpf THEN {"nft UA3F_HELPER", Ingress} ELSE {}))
RulesMatch ==
    Idle /\ ~failed => \A comp \in made :
        dirty = {} \/ (~host.ipt /\ Enabled(comp, next)) =>
            Exact(comp, cfg[comp], Owned[comp] \ Leftover)

(* Whatever command of a restart fails, no component is left half set up. *)
AllOrNothing ==
    Idle /\ dirty = {} => \A comp \in made : \/ Gone(comp)
                                        \/ \E c \in Configs : Exact(comp, c, Owned[comp] \ StrayTTL)

(* A process that ends by itself takes its rules with it; only the set of
   exempt addresses may stay, if TPROXY or the watcher made it.             *)
ExitsClean ==
    process = "exited" /\ dirty = {} =>
        /\ \A comp \in Components : Gone(comp)
        /\ starts = 1 => kern[SkipSet] = 0 \/ watching \/ type = "TPROXY"

(* Setup finds an object in its way only if a process of another mode was
   killed, or if it is the set of exempt addresses, which TPROXY does not
   remove and the watcher brings back; and a filter only if a process was
   killed.  With nftables alone nothing else is ever in the way.            *)
BlockedBy ==
    blocked # Nowhere =>
        \/ blocked \in AllFilters /\ dirty # {}
        \/ /\ host.ipt
           /\ \/ dirty \ {type} # {}
              \/ blocked = SkipSet /\ (type = "TPROXY" \/ watching \/ starts > 1)

(* "Reload configuration and restart runtime components": no command fails,
   and so the restart does not.                                             *)
RestartSucceeds == failed => faults > 0
=============================================================================
