------------------------------ MODULE PacketPath ------------------------------
(***************************************************************************)
(* The way of a packet through the router: PREROUTING, OUTPUT and          *)
(* POSTROUTING with the rules of RuleChains, UA3F's own socket, and the    *)
(* connections UA3F opens in turn.  One hook is one step; between two of   *)
(* them an address may become exempt, or cease to be, which is how a       *)
(* connection gets off the path its first packet has taken.                *)
(***************************************************************************)
EXTENDS RuleChains

CONSTANTS
    Configs,      \* configurations, together with what the machine offers
    Kinds,        \* the connections hosts may open: the attributes of RuleChains
    MaxPackets,   \* bound: packets each connection sends
    MaxInFlight,  \* bound: packets on their way
    MaxChanges    \* bound: changes of the set of exempt addresses

ASSUME BoundsAssumption == {MaxPackets, MaxInFlight, MaxChanges} \subseteq Nat
ASSUME ConfigsAssumption == Configs \subseteq
    [mode : {"SOCKS5", "TPROXY", "REDIRECT", "NFQUEUE"}, nft : BOOLEAN,
     nexthop : {"unknown", "public", "private"}, wanaddr : SUBSET {"selfwan"}, lanRoutes : BOOLEAN,
     sc : BOOLEAN, ih : BOOLEAN, flow : BOOLEAN, ttl : 0..255, syn : BOOLEAN, ipid : BOOLEAN,
     quic : BOOLEAN, reorder : BOOLEAN, reorderBytes : Nat, reorderPackets : Nat, inject : BOOLEAN,
     ports : BOOLEAN]
ASSUME KindsAssumption ==
    /\ Kinds \subseteq
          [by : {"client", "router", "sidecar"}, fam : {4, 6}, proto : {"tcp", "udp"},
           peer : {"lan", "self", "selfwan", "fake", "web"},
           port : {"skip", "web", "ua3f", "other", "quic"}, dev : {"first", "second", "none"},
           mark : {"none", "ignored"}]
    /\ \A k \in Kinds : k.by = "client" <=> k.dev # "none"

VARIABLES
    cfg,
    flow,     \* the connection a host opens
    conn,     \* what conntrack and UA3F know of it and of the one UA3F opens for it
    exempt,   \* UA3F_SKIP_IPSET
    changes,
    pkt       \* packets on their way
vars == <<cfg, flow, conn, exempt, changes, pkt>>

Conns == {"host", "upstream"}
Attr(i) == IF i = "host" THEN flow ELSE [flow EXCEPT !.by = "ua3f", !.mark = "so"]
View(p) ==
    LET a == Attr(p.conn)
        t == conn[p.conn]
    IN  [by |-> a.by, fam |-> a.fam, proto |-> a.proto, peer |-> a.peer, port |-> a.port,
         dir |-> p.dir, kind |-> p.kind, mark |-> p.mark, id |-> p.id,
         est |-> t.est, nth |-> t.n, notHTTP |-> t.notHTTP]

InjectTTL == 3
Packet(i, kind, at, ttl, id) ==
    [conn |-> i, kind |-> kind, dir |-> IF kind = "synack" THEN "reply" ELSE "original", at |-> at,
     mark |-> IF kind = "inject" THEN "inject" ELSE Attr(i).mark,
     ttl |-> ttl, id |-> id, whole |-> TRUE]

Init ==
    /\ cfg \in Configs
    /\ flow \in Kinds
    /\ conn = [i \in Conns |-> [n |-> 0, est |-> FALSE, path |-> "none", nat |-> FALSE,
                                notHTTP |-> FALSE, changed |-> FALSE]]
    /\ exempt = {} /\ changes = 0 /\ pkt = {}

Move(p, qs) == pkt' = (pkt \ {p}) \cup qs

(* A host sends, with an IP identification or without one; UA3F sends what it
   relays.  The ingress chain sets the TTL of
   what comes in through the first member of the LAN bridge.                 *)
HasIngress(i) == /\ cfg.flow /\ cfg.ttl # 0
                 /\ Attr(i).by = "client" /\ Attr(i).dev = "first" /\ Attr(i).fam = 4
Send(i, kind) ==
    /\ Cardinality(pkt) < MaxInFlight
    /\ kind = "syn"  => Attr(i).proto = "tcp" /\ i = "host" /\ conn[i].n = 0
    /\ kind # "syn"  => conn[i].n < MaxPackets /\ (Attr(i).proto = "tcp" => conn[i].est)
    /\ Attr(i).proto = "udp" => kind = "data"
    /\ conn' = [conn EXCEPT ![i].n = @ + 1]
    /\ \E id \in BOOLEAN :
          pkt' = pkt \cup {Packet(i, kind, IF Attr(i).by = "client" THEN "prerouting" ELSE "output",
                                  IF HasIngress(i) THEN IngressTTL(cfg.ttl) ELSE 64, id)}
    /\ UNCHANGED <<cfg, flow, exempt, changes>>

-----------------------------------------------------------------------------
(* PREROUTING, and the route that follows from the mark. *)

Self == {"self", "selfwan"}
(* UA3F listens for TCP. *)
ToItsPort(i) == /\ Attr(i).peer \in Self /\ Attr(i).port = "ua3f" /\ Attr(i).proto = "tcp"
                /\ cfg.mode \in {"TPROXY", "REDIRECT"}
Onward(p) ==
    IF Attr(p.conn).peer \notin Self THEN {[p EXCEPT !.at = "postrouting", !.ttl = @ - 1]}
    ELSE {[p EXCEPT !.at = IF ToItsPort(p.conn) THEN "ua3f" ELSE "local"]}

(* Table 0x1c9 delivers what carries the mark of TPROXY to this machine; where
   7894 leads is up to the sidecar.                                         *)
TproxyRoute(p) ==
    LET v       == View(p)
        sidecar == IF cfg.nft THEN NftSidecar(cfg, v) ELSE IptSidecar(cfg, v)
        m       == IF sidecar THEN "sidecar" ELSE v.mark
        verdict == IF cfg.nft THEN TproxyNftPre(cfg, exempt, [v EXCEPT !.mark = m])
                   ELSE IF sidecar THEN "accept" ELSE TproxyIptPre(cfg, exempt, v)
    IN  CASE verdict = "tproxy" -> {[p EXCEPT !.at = "ua3f", !.mark = "fw"]}
          [] verdict # "tproxy" /\ m = "sidecar" ->
                {[p EXCEPT !.at = a, !.mark = m] : a \in {"ua3f", "lost"}}
          [] verdict # "tproxy" /\ m = "fw" -> {[p EXCEPT !.at = "lost"]}
          [] OTHER -> Onward(p)
Redirected(p) ==
    IF p.kind # "syn" THEN conn[p.conn].nat
    ELSE (IF cfg.nft THEN RedirectNft(cfg, exempt, View(p))
                     ELSE RedirectIpt(cfg, exempt, View(p))) = "redirect"
MutantRedirectRoute(p) ==                  \* the rules are asked for every packet
    IF (IF cfg.nft THEN RedirectNft(cfg, exempt, View(p))
                   ELSE RedirectIpt(cfg, exempt, View(p))) = "redirect"
    THEN {[p EXCEPT !.at = "ua3f"]} ELSE Onward(p)
RedirectRoute(p) == IF Redirected(p) THEN {[p EXCEPT !.at = "ua3f"]} ELSE Onward(p)

Prerouting(p) ==
    /\ p.at = "prerouting" /\ p.dir = "original"
    /\ \E q \in CASE cfg.mode = "TPROXY"   -> TproxyRoute(p)
                  [] cfg.mode = "REDIRECT" -> RedirectRoute(p)
                  [] OTHER                 -> Onward(p) : Move(p, {q})
    /\ conn' = [conn EXCEPT ![p.conn].nat = cfg.mode = "REDIRECT" /\ Redirected(p)]
    /\ UNCHANGED <<cfg, flow, exempt, changes>>

(* An offloaded connection bypasses every hook but ingress. *)
Offloaded(p) ==
    /\ p.at = "prerouting" /\ cfg.flow /\ Attr(p.conn).by = "client"
    /\ p.kind \in {"ack", "data"} /\ conn[p.conn].est /\ conn[p.conn].path = "direct"
    /\ Attr(p.conn).peer \notin Self
    /\ Move(p, {[p EXCEPT !.at = "wire", !.ttl = @ - 1, !.whole = TRUE]})
    /\ UNCHANGED <<cfg, flow, conn, exempt, changes>>

(* InjectPacket: the SYN-ACK of a server is answered with a segment that is to
   die on the way, unless the server is thought to be too near (checkTTL).   *)
SynAck(p) ==
    /\ p.at = "prerouting" /\ p.dir = "reply"
    /\ \E near \in BOOLEAN :
          Move(p, IF ~near /\ (IF cfg.nft THEN InjectNft(cfg, View(p)) ELSE InjectIpt(cfg, View(p)))
                  THEN {Packet(p.conn, "inject", "output", InjectTTL, TRUE)} ELSE {})
    /\ UNCHANGED <<cfg, flow, conn, exempt, changes>>

-----------------------------------------------------------------------------
(* OUTPUT: what is marked comes back through the loopback device. *)

Marked(p) == /\ cfg.mode = "TPROXY"
             /\ (IF cfg.nft THEN TproxyNftOut(cfg, exempt, View(p))
                            ELSE TproxyIptOut(cfg, exempt, View(p))) = "mark"
Output(p) ==
    /\ p.at = "output"
    /\ Move(p, {IF Marked(p) THEN [p EXCEPT !.at = "prerouting", !.mark = "fw"]
                ELSE IF Attr(p.conn).peer \in Self THEN [p EXCEPT !.at = "prerouting"]
                ELSE [p EXCEPT !.at = "postrouting"]})
    /\ UNCHANGED <<cfg, flow, conn, exempt, changes>>

(* POSTROUTING: the queues and what their handlers change: zeroIPID,
   ReorderPacket, and the mark by which the rewriter lets a connection go.  *)
ZeroIPID(p, qs)      == p.id /\ ~("IP" \in qs /\ Attr(p.conn).fam = 4)
ReorderPacket(p, qs) == p.whole /\ ~("DESYNC" \in qs /\ p.kind = "data")
Leaving(p) ==
    LET qs == Range(Queues(cfg, exempt, View(p)))
    IN  IF "QUIC" \in qs THEN {}
        ELSE {[p EXCEPT !.at = "wire", !.id = ZeroIPID(p, qs), !.whole = ReorderPacket(p, qs),
                        !.ttl = IF SetsTTL(cfg, View(p)) THEN cfg.ttl ELSE @]}
Postrouting(p) ==
    /\ p.at = "postrouting"
    /\ Move(p, Leaving(p))
    /\ \E b \in BOOLEAN :
          /\ b => "UA3F" \in Range(Queues(cfg, exempt, View(p)))
          /\ conn' = [conn EXCEPT ![p.conn].notHTTP = @ \/ b]
    /\ UNCHANGED <<cfg, flow, exempt, changes>>

-----------------------------------------------------------------------------
(* HandleClient: a connection to one of the addresses UA3F listened on when it
   started is closed; for any other it connects to the original destination. *)
LoopAddr(i) == Attr(i).port = "ua3f" /\ Attr(i).peer \in {"self"} \cup cfg.wanaddr
MutantHandleClient(p) ==                   \* no check for a loop
    /\ p.at = "ua3f" /\ p.kind = "syn"
    /\ IF p.conn = "upstream"
       THEN conn' = [conn EXCEPT ![p.conn].path = "ua3f"] /\ Move(p, {})
       ELSE /\ conn' = [conn EXCEPT ![p.conn].path = "ua3f", ![p.conn].est = TRUE,
                                    !["upstream"].n = 1]
            /\ Move(p, {Packet("upstream", "syn", "output", 64, TRUE)})
    /\ UNCHANGED <<cfg, flow, exempt, changes>>
HandleClient(p) ==
    /\ p.at = "ua3f" /\ p.kind = "syn"
    /\ IF LoopAddr(p.conn) \/ p.conn = "upstream"
       THEN conn' = [conn EXCEPT ![p.conn].path = "ua3f"] /\ Move(p, {})
       ELSE /\ conn' = [conn EXCEPT ![p.conn].path = "ua3f", ![p.conn].est = TRUE,
                                    !["upstream"].n = 1]
            /\ Move(p, {Packet("upstream", "syn", "output", 64, TRUE)})
    /\ UNCHANGED <<cfg, flow, exempt, changes>>

(* A packet reaches a server, or what it belongs to in UA3F, or nothing. *)
Arrive(p) ==
    /\ p.at \in {"wire", "local", "lost"} \/ (p.at = "ua3f" /\ p.kind # "syn")
    /\ IF p.kind = "syn" /\ p.at \in {"wire", "local"}
       THEN /\ conn' = [conn EXCEPT ![p.conn].est = TRUE, ![p.conn].path = "direct"]
            /\ Move(p, IF p.at = "wire" THEN {Packet(p.conn, "synack", "prerouting", 64, TRUE)} ELSE {})
       ELSE Move(p, {}) /\ UNCHANGED conn
    /\ UNCHANGED <<cfg, flow, exempt, changes>>

(* The watcher adds the address of a server that asked for it, or of a skipped
   domain; an hour later the kernel takes it out again.                     *)
Change(ex) ==
    /\ changes < MaxChanges /\ changes' = changes + 1
    /\ exempt' = ex
    /\ conn' = [i \in Conns |-> IF conn[i].n > 0 THEN [conn[i] EXCEPT !.changed = TRUE] ELSE conn[i]]
    /\ UNCHANGED <<cfg, flow, pkt>>
AddSkipIP == cfg.mode # "SOCKS5" /\ flow.peer = "web" /\ exempt = {} /\ Change({"web"})
Expire    == exempt # {} /\ Change({})

Next ==
    \/ \E i \in Conns, kind \in {"syn", "ack", "data"} : Send(i, kind)
    \/ \E p \in pkt : \/ Prerouting(p) \/ Offloaded(p) \/ SynAck(p) \/ Output(p)
                      \/ Postrouting(p) \/ HandleClient(p) \/ Arrive(p)
    \/ AddSkipIP \/ Expire
Spec == Init /\ [][Next]_vars

-----------------------------------------------------------------------------
(* UA3F takes none of its own connections, whatever the rules and the        *)
(* addresses: only an address the machine got after the start, on the port   *)
(* UA3F listens on, leads back to it (loopAddrs is read once).               *)
NoLoop == \A p \in pkt : p.at = "ua3f" /\ p.conn = "upstream" =>
              Attr(p.conn).port = "ua3f" /\ Attr(p.conn).peer = "selfwan" /\ cfg.wanaddr = {}

(* A connection stays where its first packet went, to the server or to UA3F, *)
(* and nothing marked for UA3F ends anywhere else.  It is otherwise only     *)
(* under TPROXY, whose rules judge every packet anew, when its server has    *)
(* become exempt or ceased to be meanwhile, and where a ShellCrash mark      *)
(* takes the place of UA3F's (iptables ends at the sidecar's rule).          *)
Stray(p) ==
    \/ p.at = "lost"
    \/ p.kind \in {"ack", "data"} /\ p.at = "ua3f" /\ conn[p.conn].path = "direct"
    \/ /\ p.kind \in {"ack", "data"} /\ p.at \in {"postrouting", "wire", "local"}
       /\ conn[p.conn].path = "ua3f"
StrayHasCause == \A p \in pkt : Stray(p) =>
    cfg.mode = "TPROXY" /\ (conn[p.conn].changed \/ (cfg.sc /\ ~cfg.nft))

(* In NFQUEUE mode the rewriter's queue gets every packet with a payload that *)
(* it is there for, in any order of the servers' setup.  IPv6 is left out    *)
(* under iptables and without @ih; under iptables a helper that queues every *)
(* packet wins if there is a reorder chain behind it.                        *)
Eligible(v) == /\ v.proto = "tcp" /\ v.kind = "data" /\ v.dir = "original" /\ v.est
               /\ v.peer \notin LanSet(cfg, v.fam) \cup exempt /\ v.port # "skip" /\ ~v.notHTTP
RewriteReached == \A p \in pkt :
    cfg.mode = "NFQUEUE" /\ p.at = "postrouting" /\ Eligible(View(p)) =>
        \/ "UA3F" \in Range(Queues(cfg, exempt, View(p)))
        \/ Attr(p.conn).fam = 6 /\ ~(cfg.nft /\ cfg.ih)
        \/ ~cfg.nft /\ cfg.ipid /\ cfg.reorder

(* With a fixed TTL every IPv4 packet of a client leaves with it, by the slow *)
(* path and by the offloaded one; injected segments keep the short life that *)
(* stops them before the server.  The offloaded path misses the value where  *)
(* it is the largest there is, and for clients behind another port.          *)
TtlOnTheWire == \A p \in pkt : p.at = "wire" /\ cfg.ttl # 0 /\ Attr(p.conn).fam = 4 =>
    IF p.kind = "inject" THEN p.ttl = InjectTTL
    ELSE \/ p.ttl = cfg.ttl
         \/ cfg.flow /\ conn[p.conn].path = "direct" /\ Attr(p.conn).by = "client"
            /\ (cfg.ttl = 255 \/ Attr(p.conn).dev = "second")

(* What the documentation of the desync server says: early payloads are      *)
(* split.  The thresholds it names, 8 bytes and 1500 packets, let no packet  *)
(* of an established connection through: its handshake is longer.            *)
FirstPayloadSplit == \A p \in pkt :
    /\ cfg.reorder /\ p.at = "wire" /\ p.kind = "data" /\ conn[p.conn].n <= 2
    /\ Attr(p.conn).proto = "tcp" /\ Attr(p.conn).fam = 4
    /\ Attr(p.conn).port # "skip" /\ DesyncPort(cfg, View(p))
    => ~p.whole

(* At every hook an IPv4 packet gets the same route and the same queues under *)
(* nftables and under iptables (but for the sidecar's chain), with these      *)
(* exceptions.  Only nftables spares the SYN-ACKs of LAN servers and of skipped *)
(* ports, skipped ports in the reorder chain and the helper's, packets without *)
(* a payload (with @ih) and those without an IP identification to clear; and  *)
(* it counts answers against the thresholds of the reorder chain.  As the     *)
(* first queue ends the walk under iptables, the helper that queues every     *)
(* packet takes it from the others, and the rewriter from the one behind it.  *)
OnlyNft(v) == Range(NftQueues(cfg, exempt, v)) \ Range(IptQueues(cfg, exempt, v))
OnlyIpt(v) == Range(IptQueues(cfg, exempt, v)) \ Range(NftQueues(cfg, exempt, v))
SameRoute(v, at) ==
    /\ cfg.mode = "TPROXY" /\ at = "prerouting" =>
          TproxyNftPre(cfg, exempt, v) = TproxyIptPre(cfg, exempt, v)
    /\ cfg.mode = "TPROXY" /\ at = "output" =>
          TproxyNftOut(cfg, exempt, v) = TproxyIptOut(cfg, exempt, v)
    /\ cfg.mode = "REDIRECT" /\ at = "prerouting" =>
          RedirectNft(cfg, exempt, v) = RedirectIpt(cfg, exempt, v)
SameInject(v) ==
    InjectNft(cfg, v) <=> InjectIpt(cfg, v) /\ v.peer \notin LanSet(cfg, 4) /\ v.port # "skip"
SameQueues(v) ==
    /\ \A q \in OnlyNft(v) : \/ q = "DESYNC" /\ (cfg.ipid \/ cfg.mode = "NFQUEUE")
                             \/ q = "UA3F" /\ cfg.ipid /\ cfg.reorder
                             \/ q = "IP" /\ cfg.mode = "NFQUEUE" /\ ~cfg.reorder
    /\ \A q \in OnlyIpt(v) : \/ q \in {"SYN", "DESYNC"} /\ v.port = "skip"
                             \/ q = "DESYNC" /\ ~EarlyNft(cfg, v)
                             \/ q = "UA3F" /\ cfg.ih /\ ~Payload(v)
                             \/ q = "IP" /\ ~v.id
DifferenceHasCause == \A p \in pkt : LET v == View(p) IN
    v.fam = 4 /\ ~cfg.sc =>
        /\ SameRoute(v, p.at)
        /\ p.at = "prerouting" => SameInject(v)
        /\ p.at = "postrouting" => SameQueues(v)
===============================================================================
