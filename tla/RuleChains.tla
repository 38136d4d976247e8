------------------------------ MODULE RuleChains ------------------------------
(***************************************************************************)
(* The rules UA3F installs, as functions of a packet.  c is the            *)
(* configuration of the process and of its machine, ex the addresses that  *)
(* are exempt at the moment (the set UA3F_SKIP_IPSET), p the packet:       *)
(*   by     who opened its connection: a "client" in the LAN, the "router" *)
(*          itself, the "sidecar" proxy next to UA3F, or "ua3f"            *)
(*   fam    4 or 6;  proto "tcp" or "udp"                                  *)
(*   peer   the server: in the "lan", this machine by its LAN or its WAN   *)
(*          address ("self", "selfwan"), a "fake" address, or "web"        *)
(*   port   of the server: one of SKIP_PORTS ("skip"), one of the desync   *)
(*          ports ("web"), the port UA3F listens on ("ua3f"), "other",     *)
(*          "quic"                                                         *)
(*   dir    "original" or "reply";  kind "syn", "synack", "ack", "data" or *)
(*          "inject";  est, nth: conntrack's state and count               *)
(*   mark   "none", "so", "inject", "fw", "sidecar" (7894), "ignored"      *)
(* A rule that returns and a rule that accepts differ in what follows, so  *)
(* a chain gives the verdict of its first rule that matches.  An iptables  *)
(* chain sees IPv4 only.                                                   *)
(***************************************************************************)
EXTENDS Naturals, Sequences, FiniteSetsExt, SequencesExt, TLC

Payload(p) == p.kind \in {"data", "inject"}
LongerThan40(p) == p.kind # "syn" \* a SYN is not established; an ACK has options

-----------------------------------------------------------------------------
(* Sets and ignore rules. *)

(* initLanCidrs: a range that holds a next hop of the WAN is not the LAN; the
   addresses of the machine outside the remaining ranges are added.  Without
   an answer from ubus the ranges stay as they are.                         *)
InitLanCidrs(c) == CASE c.nexthop = "unknown" -> {"lan", "self"}
                     [] c.nexthop = "public"  -> {"lan", "self"} \cup c.wanaddr
                     [] c.nexthop = "private" -> {"self"} \cup c.wanaddr
LanSet(c, fam) == IF fam = 4 THEN InitLanCidrs(c) ELSE {"lan"}
IgnoreLAN(c, p) == ~c.lanRoutes /\ p.dir = "original" /\ p.peer \in LanSet(c, p.fam)

IgnoreNotTCP(p)   == p.proto # "tcp"
IgnoreReply(p)    == p.dir = "reply"
IgnoreIP(ex, p)   == p.dir = "original" /\ p.peer \in ex
IgnorePorts(p)    == p.dir = "original" /\ p.port = "skip"
IgnoreFakeIP(p)   == p.dir = "original" /\ p.fam = 4 /\ p.peer = "fake"
IgnoreNotBrLAN(p) == ~(p.by = "client" /\ p.dir = "original")
IgnoreMark(p)     == p.mark = "ignored"
IgnoreGid(p)      == p.by = "sidecar" /\ p.dir = "original"

-----------------------------------------------------------------------------
(* TPROXY: the chain of a ShellCrash sidecar, PREROUTING, OUTPUT. *)

NftSidecar(c, p) == c.sc /\ p.proto = "tcp" /\ p.mark = "fw"
TproxyNftPre(c, ex, p) ==
    IF \/ IgnoreNotTCP(p) \/ IgnoreReply(p) \/ IgnoreFakeIP(p)
       \/ IgnoreLAN(c, p) \/ IgnoreIP(ex, p) \/ IgnorePorts(p)
       \/ p.mark = "so" \/ IgnoreMark(p)
    THEN "return" ELSE "tproxy"
TproxyNftOut(c, ex, p) ==
    IF \/ IgnoreNotTCP(p) \/ IgnoreReply(p) \/ IgnoreFakeIP(p)
       \/ IgnoreLAN(c, p) \/ IgnoreIP(ex, p) \/ IgnorePorts(p)
       \/ p.mark \in {"so", "inject"} \/ IgnoreGid(p)
    THEN "return" ELSE "mark"

IptSidecar(c, p) == c.sc /\ p.fam = 4 /\ p.proto = "tcp" /\ p.mark = "fw"
TproxyIptPre(c, ex, p) ==
    IF \/ p.fam = 6 \/ IgnoreNotTCP(p)      \* the jump: -p tcp
       \/ IgnoreReply(p) \/ IgnoreLAN(c, p) \/ IgnoreIP(ex, p) \/ IgnorePorts(p)
       \/ p.mark = "so" \/ IgnoreMark(p) \/ IgnoreFakeIP(p)
    THEN "return" ELSE "tproxy"
TproxyIptOut(c, ex, p) ==
    IF \/ p.fam = 6 \/ IgnoreNotTCP(p)
       \/ IgnoreReply(p) \/ IgnoreLAN(c, p) \/ IgnoreIP(ex, p) \/ IgnorePorts(p)
       \/ p.mark \in {"so", "inject"} \/ IgnoreFakeIP(p) \/ IgnoreGid(p)
    THEN "return" ELSE "mark"

(* REDIRECT: a NAT chain, consulted for the first packet of a connection. *)
RedirectNft(c, ex, p) ==
    IF \/ IgnoreNotBrLAN(p) \/ IgnoreNotTCP(p) \/ IgnoreReply(p)
       \/ IgnoreLAN(c, p) \/ IgnoreIP(ex, p) \/ IgnorePorts(p) \/ p.mark = "so"
    THEN "return" ELSE "redirect"
RedirectIpt(c, ex, p) ==
    IF \/ p.fam = 6 \/ IgnoreNotBrLAN(p) \/ IgnoreReply(p)
       \/ IgnoreLAN(c, p) \/ IgnoreIP(ex, p) \/ IgnorePorts(p) \/ p.mark = "so"
       \/ IgnoreNotTCP(p)
    THEN "return" ELSE "redirect"

-----------------------------------------------------------------------------
(* NFQUEUE: which packets go to the rewriter's queue.  Without @ih the length
   of the packet stands for a payload, and there is no IPv6 in it.           *)
NfqueueIgnored(c, ex, p) ==
    \/ IgnoreReply(p) \/ (p.dir = "original" /\ p.peer \in LanSet(c, p.fam))
    \/ IgnoreIP(ex, p) \/ IgnorePorts(p) \/ p.mark = "inject" \/ p.notHTTP
NfqueueNft(c, ex, p) ==
    /\ ~IgnoreNotTCP(p) /\ ~NfqueueIgnored(c, ex, p) /\ p.est
    /\ IF c.ih THEN Payload(p) ELSE p.fam = 4 /\ LongerThan40(p)
NfqueueIpt(c, ex, p) ==
    /\ p.fam = 4 /\ ~IgnoreNotTCP(p) /\ ~NfqueueIgnored(c, ex, p) /\ p.est /\ LongerThan40(p)

(* Desync.  connbytes counts what the client has sent, up to and including the
   thresholds; ct bytes and ct packets count, below them, the answers too, of
   which an established connection has had at least one.                    *)
DesyncPort(c, p) == c.ports => p.port = "web"
EarlyNft(c, p) == 60 * (p.nth + 1) < c.reorderBytes /\ p.nth + 1 < c.reorderPackets
EarlyIpt(c, p) == 60 * p.nth <= c.reorderBytes /\ p.nth <= c.reorderPackets
ReorderNft(c, p) ==
    /\ c.reorder /\ ~IgnorePorts(p) /\ p.mark # "inject" /\ DesyncPort(c, p)
    /\ p.proto = "tcp" /\ p.est /\ p.dir = "original"
    /\ p.fam = 4 /\ LongerThan40(p) /\ EarlyNft(c, p)
ReorderIpt(c, p) ==
    /\ c.reorder /\ p.fam = 4 /\ p.proto = "tcp"
    /\ p.mark # "inject" /\ DesyncPort(c, p)
    /\ p.est /\ p.dir = "original" /\ LongerThan40(p) /\ EarlyIpt(c, p)
InjectNft(c, p) ==
    /\ c.inject /\ p.peer \notin LanSet(c, p.fam) /\ p.port # "skip" /\ DesyncPort(c, p)
    /\ p.proto = "tcp" /\ p.dir = "reply" /\ p.kind = "synack"
InjectIpt(c, p) ==
    /\ c.inject /\ p.fam = 4 /\ p.proto = "tcp" /\ DesyncPort(c, p)
    /\ p.dir = "reply" /\ p.kind = "synack"

(* The L3 helper. *)
SetsTTL(c, p) == c.ttl # 0 /\ p.fam = 4 /\ p.mark # "inject"
MutantIngressTTL(ttl) == ttl                 \* forwarding decrements it
IngressTTL(ttl) == IF ttl = 255 THEN ttl ELSE ttl + 1
HookSyn(p)  == p.proto = "tcp" /\ p.kind \in {"syn", "synack"}
HelperNft(c, p) == IF c.ipid
                   THEN (c.syn /\ HookSyn(p)) \/ (p.fam = 4 /\ p.proto = "tcp" /\ p.id)
                   ELSE c.syn /\ HookSyn(p) /\ ~IgnorePorts(p)
BlocksQuic(c, p) == c.quic /\ p.proto = "udp" /\ p.port = "quic"

-----------------------------------------------------------------------------
(* The order in POSTROUTING.  nftables has a chain of every component, by
   priority: reorder, the rewriter's queue, the helper.  iptables has one
   chain, in the order of the commands of the helper, the desync server and
   the NFQUEUE server, which goes before the last queue it finds there.      *)
When(b, s) == IF b THEN s ELSE <<>>
MutantDetectNfqueue(chain) ==              \* the first queue of the chain
    SelectInSeq(chain, LAMBDA r : r \in {"SYN", "IP", "DESYNC"})
DetectNfqueue(chain) == Max({0} \cup {i \in DOMAIN chain : chain[i] \in {"SYN", "IP", "DESYNC"}})
MutantIptPostrouting(c) ==                 \* the rewriter's queue is appended
    When(c.ttl # 0, <<"TTL">>) \o When(c.syn /\ ~c.ipid, <<"SYN">>)
    \o When(c.ipid, <<"IP">>) \o When(c.quic, <<"QUIC">>)
    \o When(c.reorder, <<"DESYNC">>) \o When(c.mode = "NFQUEUE", <<"UA3F">>)
IptPostrouting(c) ==
    LET others == When(c.ttl # 0, <<"TTL">>) \o When(c.syn /\ ~c.ipid, <<"SYN">>)
                  \o When(c.ipid, <<"IP">>) \o When(c.quic, <<"QUIC">>)
                  \o When(c.reorder, <<"DESYNC">>)
        last   == DetectNfqueue(others)
    IN  IF c.mode # "NFQUEUE" THEN others
        ELSE IF last = 0 THEN Append(others, "UA3F") ELSE InsertAt(others, last, "UA3F")

(* A queue's verdict is accept, which ends the walk through the iptables
   chain: a packet gets to the first of its queues only.                    *)
IptTakes(r, c, ex, p) ==
    /\ p.fam = 4
    /\ CASE r = "SYN"    -> HookSyn(p)
         [] r = "IP"     -> p.proto = "tcp"
         [] r = "QUIC"   -> BlocksQuic(c, p)
         [] r = "DESYNC" -> ReorderIpt(c, p)
         [] r = "UA3F"   -> NfqueueIpt(c, ex, p)
         [] OTHER        -> FALSE          \* TTL goes on
IptQueues(c, ex, p) ==
    LET chain == IptPostrouting(c)
        i     == SelectInSeq(chain, LAMBDA r : IptTakes(r, c, ex, p))
    IN  IF i = 0 THEN <<>> ELSE <<chain[i]>>
NftQueues(c, ex, p) ==
    When(ReorderNft(c, p), <<"DESYNC">>)
    \o When(c.mode = "NFQUEUE" /\ NfqueueNft(c, ex, p), <<"UA3F">>)
    \o When(HelperNft(c, p), <<IF c.ipid THEN "IP" ELSE "SYN">>)
    \o When(BlocksQuic(c, p), <<"QUIC">>)
Queues(c, ex, p) == IF c.nft THEN NftQueues(c, ex, p) ELSE IptQueues(c, ex, p)
===============================================================================
