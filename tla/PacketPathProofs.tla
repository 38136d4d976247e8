--------------------------- MODULE PacketPathProofs ---------------------------
(***************************************************************************)
(* The properties of PacketPath for every configuration, every kind of     *)
(* connection and any number of packets and changes of the exempt set.     *)
(*                                                                         *)
(* RewriteReached and DifferenceHasCause are about the rules, but for the  *)
(* kinds of packets that can be in a hook.  The others need to know where  *)
(* a packet can be: each packet is well formed and in a place its          *)
(* connection can have, a SYN is alone, and, as long as nothing has        *)
(* changed, where the rules send a connection (Diverted) is where its      *)
(* packets are and where it has been accepted.                             *)
(***************************************************************************)
EXTENDS PacketPath, TLAPS, FiniteSetTheorems

Packets == [conn : Conns, kind : {"syn", "synack", "ack", "data", "inject"},
            dir : {"original", "reply"},
            at : {"prerouting", "output", "postrouting", "ua3f", "wire", "local", "lost"},
            mark : {"none", "ignored", "so", "inject", "fw", "sidecar"},
            ttl : Int, id : BOOLEAN, whole : BOOLEAN]
States  == [n : Nat, est : BOOLEAN, path : {"none", "direct", "ua3f"}, nat : BOOLEAN,
            notHTTP : BOOLEAN, changed : BOOLEAN]
Typed == cfg \in Configs /\ flow \in Kinds /\ conn \in [Conns -> States] /\ pkt \subseteq Packets

(* What a packet looks like. *)
Formed(p) ==
    /\ p.kind = "synack" <=> p.dir = "reply"
    /\ p.kind = "synack" => p.at = "prerouting"
    /\ p.kind = "inject" => /\ p.at \in {"output", "postrouting", "wire"}
                            /\ p.mark = "inject" /\ p.ttl = InjectTTL
    /\ p.kind # "inject" => \/ p.mark = Attr(p.conn).mark
                            \/ cfg.mode = "TPROXY" /\ p.conn = "host" /\ p.mark \in {"fw", "sidecar"}
    /\ p.kind \in {"syn", "synack", "inject"} => flow.proto = "tcp"

(* Where it can be. *)
Placed(p) ==
    /\ p.at \in {"postrouting", "wire"} \/ p.kind \in {"synack", "inject"} => flow.peer \notin Self
    /\ p.at = "ua3f" => flow.proto = "tcp" /\ (p.conn = "upstream" => ToItsPort("upstream"))
    /\ p.at = "output" /\ p.kind # "inject" =>
           Attr(p.conn).by # "client" /\ p.mark = Attr(p.conn).mark
    /\ p.at = "prerouting" =>
           /\ p.mark # "sidecar"
           /\ p.mark = "fw" => Attr(p.conn).by # "client"
           /\ p.dir = "original" /\ p.mark # "fw" => Attr(p.conn).by = "client" \/ flow.peer \in Self

(* UA3F opens a connection for one it has accepted. *)
Known(i) ==
    /\ conn[i].n = 0 => conn[i].path = "none" /\ ~conn[i].est /\ ~conn[i].nat /\ ~conn[i].changed
    /\ conn[i].nat => cfg.mode = "REDIRECT" /\ Attr(i).by = "client" /\ flow.proto = "tcp"
    /\ conn[i].path # "none" => flow.proto = "tcp"
Opened == flow.proto = "tcp" /\ conn["upstream"].n # 0 => conn["host"].path = "ua3f" /\ ~LoopAddr("host")
Counted == \A p \in pkt : conn[p.conn].n # 0
Alone == \A p \in pkt : p.kind = "syn" =>
             /\ conn[p.conn].path = "none" /\ ~conn[p.conn].est
             /\ \A q \in pkt : q.conn = p.conn => q = p

(* Where the rules send the connections of today. *)
Sight(i) == [by |-> Attr(i).by, fam |-> Attr(i).fam, proto |-> Attr(i).proto, peer |-> Attr(i).peer,
             port |-> Attr(i).port, dir |-> "original", mark |-> Attr(i).mark]
OutMark(i)  == (IF cfg.nft THEN TproxyNftOut(cfg, exempt, Sight(i))
                           ELSE TproxyIptOut(cfg, exempt, Sight(i))) = "mark"
PreTaken(i) == (IF cfg.nft THEN TproxyNftPre(cfg, exempt, Sight(i))
                           ELSE TproxyIptPre(cfg, exempt, Sight(i))) = "tproxy"
Diverted(i) ==
    \/ ToItsPort(i)
    \/ cfg.mode = "TPROXY" /\ Attr(i).by # "client" /\ OutMark(i)
    \/ cfg.mode = "TPROXY" /\ (Attr(i).by = "client" \/ flow.peer \in Self) /\ PreTaken(i)
    \/ conn[i].nat
Excused(i) == cfg.mode = "TPROXY" /\ (conn[i].changed \/ (cfg.sc /\ ~cfg.nft))
Stays(i) == ~Excused(i) => /\ conn[i].path = "ua3f" => Diverted(i)
                           /\ conn[i].path = "direct" => ~Diverted(i)
OnPath(p) == ~Excused(p.conn) =>
    /\ p.at = "ua3f" => Diverted(p.conn)
    /\ p.at \in {"postrouting", "wire", "local"} /\ p.kind \in {"syn", "ack", "data"} =>
           ~Diverted(p.conn)
    /\ cfg.mode = "TPROXY" /\ p.at = "prerouting" /\ p.dir = "original"
          /\ Attr(p.conn).by # "client" => (p.mark = "fw" <=> OutMark(p.conn))
    /\ p.at # "lost"

(* Which TTL it has. *)
Timed(p) ==
    /\ p.at = "prerouting" /\ p.dir = "original" /\ Attr(p.conn).by = "client" =>
           p.ttl = IF HasIngress(p.conn) THEN IngressTTL(cfg.ttl) ELSE 64
    /\ p.at = "wire" /\ cfg.ttl # 0 /\ flow.fam = 4 /\ p.kind # "inject" =>
           \/ p.ttl = cfg.ttl
           \/ cfg.flow /\ conn[p.conn].path = "direct" /\ Attr(p.conn).by = "client"
              /\ (cfg.ttl = 255 \/ Attr(p.conn).dev = "second")

Fine(p) == Formed(p) /\ Placed(p) /\ OnPath(p) /\ Timed(p)
PInv == /\ Typed /\ Opened /\ Counted /\ Alone
        /\ \A i \in Conns : Known(i) /\ Stays(i)
        /\ \A p \in pkt : Fine(p)
-----------------------------------------------------------------------------
(* The rules, as far as they look at a connection and a mark. *)

LEMMA AttrIs ==
    ASSUME Typed, NEW i \in Conns
    PROVE  /\ Attr(i).fam = flow.fam /\ Attr(i).proto = flow.proto /\ Attr(i).peer = flow.peer
           /\ Attr(i).port = flow.port /\ Attr(i).dev = flow.dev
           /\ Attr(i).by = IF i = "host" THEN flow.by ELSE "ua3f"
           /\ Attr(i).mark = IF i = "host" THEN flow.mark ELSE "so"
           /\ flow.mark \in {"none", "ignored"} /\ flow.by \in {"client", "router", "sidecar"}
           /\ flow.fam \in {4, 6} /\ flow.proto \in {"tcp", "udp"}
           /\ (flow.by = "client" <=> flow.dev # "none") /\ flow.dev \in {"first", "second", "none"}
  BY KindsAssumption DEF Typed, Attr, Conns

(* TPROXY's rules see nothing else of a packet. *)
LEMMA SameVerdict ==
    ASSUME NEW v, NEW s, NEW c, NEW ex,
           v.by = s.by, v.fam = s.fam, v.proto = s.proto, v.peer = s.peer, v.port = s.port,
           v.dir = s.dir, v.mark = s.mark
    PROVE  /\ TproxyNftOut(c, ex, v) = TproxyNftOut(c, ex, s)
           /\ TproxyIptOut(c, ex, v) = TproxyIptOut(c, ex, s)
           /\ TproxyNftPre(c, ex, v) = TproxyNftPre(c, ex, s)
           /\ TproxyIptPre(c, ex, v) = TproxyIptPre(c, ex, s)
  <1>1. /\ IgnoreNotTCP(v) = IgnoreNotTCP(s) /\ IgnoreReply(v) = IgnoreReply(s)
        /\ IgnoreFakeIP(v) = IgnoreFakeIP(s) /\ IgnoreMark(v) = IgnoreMark(s)
        /\ IgnoreGid(v) = IgnoreGid(s) /\ IgnorePorts(v) = IgnorePorts(s)
    BY Zenon DEF IgnoreNotTCP, IgnoreReply, IgnoreFakeIP, IgnoreMark, IgnoreGid, IgnorePorts
  <1>2. IgnoreLAN(c, v) = IgnoreLAN(c, s) /\ IgnoreIP(ex, v) = IgnoreIP(ex, s)
    BY Zenon DEF IgnoreLAN, IgnoreIP
  <1>3. TproxyNftOut(c, ex, v) = TproxyNftOut(c, ex, s)
    BY <1>1, <1>2, Zenon DEF TproxyNftOut
  <1>4. TproxyIptOut(c, ex, v) = TproxyIptOut(c, ex, s)
    BY <1>1, <1>2, Zenon DEF TproxyIptOut
  <1>5. TproxyNftPre(c, ex, v) = TproxyNftPre(c, ex, s)
    BY <1>1, <1>2, Zenon DEF TproxyNftPre
  <1>6. TproxyIptPre(c, ex, v) = TproxyIptPre(c, ex, s)
    BY <1>1, <1>2, Zenon DEF TproxyIptPre
  <1>. QED
    BY <1>3, <1>4, <1>5, <1>6

(* What a packet with the mark of its connection is judged by. *)
LEMMA SeenAsSight ==
    ASSUME NEW p, p.dir = "original", p.mark = Attr(p.conn).mark
    PROVE  /\ Marked(p) <=> cfg.mode = "TPROXY" /\ OutMark(p.conn)
           /\ PreTaken(p.conn) <=> (IF cfg.nft THEN TproxyNftPre(cfg, exempt, View(p))
                                               ELSE TproxyIptPre(cfg, exempt, View(p))) = "tproxy"
  <1>1. /\ View(p).by = Sight(p.conn).by /\ View(p).fam = Sight(p.conn).fam
        /\ View(p).proto = Sight(p.conn).proto /\ View(p).peer = Sight(p.conn).peer
        /\ View(p).port = Sight(p.conn).port /\ View(p).dir = Sight(p.conn).dir
        /\ View(p).mark = Sight(p.conn).mark
    BY DEF View, Sight
  <1>. QED
    BY <1>1, SameVerdict DEF Marked, OutMark, PreTaken

(* What OUTPUT has marked is taken in PREROUTING, under whatever mark. *)
LEMMA MarkedIsTaken ==
    ASSUME NEW i, OutMark(i), NEW v, v.mark \in {"fw", "sidecar"}, v.dir = "original",
           v.by = Attr(i).by, v.fam = Attr(i).fam, v.proto = Attr(i).proto, v.peer = Attr(i).peer,
           v.port = Attr(i).port
    PROVE  (IF cfg.nft THEN TproxyNftPre(cfg, exempt, v) ELSE TproxyIptPre(cfg, exempt, v)) = "tproxy"
  <1>. DEFINE s == Sight(i)
  <1>1. /\ v.by = s.by /\ v.fam = s.fam /\ v.proto = s.proto /\ v.peer = s.peer
        /\ v.port = s.port /\ v.dir = s.dir
    BY DEF Sight
  <1>. HIDE DEF s
  <1>2. /\ IgnoreNotTCP(v) = IgnoreNotTCP(s) /\ IgnoreReply(v) = IgnoreReply(s)
        /\ IgnoreFakeIP(v) = IgnoreFakeIP(s) /\ IgnorePorts(v) = IgnorePorts(s)
        /\ IgnoreLAN(cfg, v) = IgnoreLAN(cfg, s) /\ IgnoreIP(exempt, v) = IgnoreIP(exempt, s)
        /\ ~IgnoreMark(v) /\ v.mark # "so"
    BY <1>1 DEF IgnoreNotTCP, IgnoreReply, IgnoreFakeIP, IgnoreMark, IgnorePorts, IgnoreLAN, IgnoreIP
  <1>3. CASE cfg.nft
    <2>1. TproxyNftOut(cfg, exempt, s) = "mark"
      BY <1>3 DEF OutMark, s
    <2>. QED
      BY <1>2, <1>3, <2>1 DEF TproxyNftPre, TproxyNftOut
  <1>4. CASE ~cfg.nft
    <2>1. TproxyIptOut(cfg, exempt, s) = "mark"
      BY <1>4 DEF OutMark, s
    <2>. QED
      BY <1>1, <1>2, <1>4, <2>1 DEF TproxyIptPre, TproxyIptOut
  <1>. QED
    BY <1>3, <1>4

(* UA3F's own connections, and those of a protocol it does not listen for. *)
LEMMA NotForUA3F ==
    ASSUME Typed, NEW i \in Conns, i = "upstream" \/ flow.proto = "udp"
    PROVE  ~OutMark(i) /\ ~PreTaken(i)
  <1>1. Sight(i).mark = "so" \/ Sight(i).proto = "udp"
    BY AttrIs DEF Sight
  <1>. QED
    BY <1>1 DEF OutMark, PreTaken, TproxyNftOut, TproxyIptOut, TproxyNftPre, TproxyIptPre, IgnoreNotTCP

LEMMA RedirectedIs ==
    ASSUME Typed, NEW p \in Packets, p.kind = "syn", Redirected(p)
    PROVE  Attr(p.conn).by = "client" /\ flow.proto = "tcp"
  <1>1. View(p).by = Attr(p.conn).by /\ View(p).proto = flow.proto
    BY AttrIs DEF View, Packets
  <1>. QED
    BY <1>1, AttrIs DEF Redirected, RedirectNft, RedirectIpt, IgnoreNotBrLAN, IgnoreNotTCP
-----------------------------------------------------------------------------
(* What a step that leaves the configuration alone cannot change. *)

LEMMA Static ==
    ASSUME UNCHANGED <<cfg, flow>>, NEW i
    PROVE  /\ Attr(i)' = Attr(i)
           /\ ToItsPort(i)' <=> ToItsPort(i)
           /\ LoopAddr(i)' <=> LoopAddr(i)
           /\ HasIngress(i)' <=> HasIngress(i)
  BY DEF Attr, ToItsPort, LoopAddr, HasIngress

LEMMA SameMarks ==
    ASSUME UNCHANGED <<cfg, flow, exempt>>, NEW i
    PROVE  (OutMark(i)' <=> OutMark(i)) /\ (PreTaken(i)' <=> PreTaken(i))
  <1>1. Sight(i)' = Sight(i)
    BY Static DEF Sight
  <1>. QED
    BY <1>1 DEF OutMark, PreTaken

(* The other packets of a step. *)
LEMMA Kept ==
    ASSUME UNCHANGED <<cfg, flow, exempt>>, NEW q, Fine(q),
           conn'[q.conn].path = conn[q.conn].path, conn'[q.conn].nat = conn[q.conn].nat,
           conn'[q.conn].changed = conn[q.conn].changed
    PROVE  Fine(q)'
  <1>. DEFINE i == q.conn
  <1>1. /\ Attr(i)' = Attr(i) /\ (ToItsPort(i)' <=> ToItsPort(i))
        /\ (HasIngress(i)' <=> HasIngress(i))
        /\ (ToItsPort("upstream")' <=> ToItsPort("upstream"))
    BY Static
  <1>2. (OutMark(i)' <=> OutMark(i)) /\ (PreTaken(i)' <=> PreTaken(i))
    BY SameMarks
  <1>3. (Diverted(i)' <=> Diverted(i)) /\ (Excused(i)' <=> Excused(i))
    BY <1>1, <1>2 DEF Diverted, Excused
  <1>4. Formed(q)'
    BY <1>1 DEF Fine, Formed
  <1>5. Placed(q)'
    BY <1>1 DEF Fine, Placed
  <1>6. OnPath(q)'
    BY <1>1, <1>2, <1>3 DEF Fine, OnPath
  <1>7. Timed(q)'
    BY <1>1 DEF Fine, Timed
  <1>. QED
    BY <1>4, <1>5, <1>6, <1>7 DEF Fine

(* The connections of a step that neither counts down nor takes a path. *)
LEMMA KeptConn ==
    ASSUME UNCHANGED <<cfg, flow, exempt>>, NEW i, Known(i), Stays(i),
           conn'[i].path = conn[i].path, conn'[i].nat = conn[i].nat,
           conn'[i].changed = conn[i].changed, conn'[i].est = conn[i].est,
           conn'[i].n = 0 => conn[i].n = 0
    PROVE  Known(i)' /\ Stays(i)'
  <1>1. Attr(i)' = Attr(i) /\ (ToItsPort(i)' <=> ToItsPort(i))
    BY Static
  <1>2. (OutMark(i)' <=> OutMark(i)) /\ (PreTaken(i)' <=> PreTaken(i))
    BY SameMarks
  <1>3. (Diverted(i)' <=> Diverted(i)) /\ (Excused(i)' <=> Excused(i))
    BY <1>1, <1>2 DEF Diverted, Excused
  <1>. QED
    BY <1>1, <1>3 DEF Known, Stays

LEMMA PacketTyped ==
    ASSUME Typed, NEW i \in Conns, NEW kind \in {"syn", "synack", "ack", "data", "inject"},
           NEW at \in {"prerouting", "output"}, NEW ttl \in Int, NEW id \in BOOLEAN
    PROVE  Packet(i, kind, at, ttl, id) \in Packets
  <1>1. Attr(i).mark \in {"none", "ignored", "so"}
    BY AttrIs
  <1>. QED
    BY <1>1 DEF Packet, Packets

LEMMA MadeTyped ==
    ASSUME Typed, NEW i \in Conns, NEW kind \in {"syn", "synack", "inject"},
           NEW at \in {"prerouting", "output"}, NEW ttl \in Int
    PROVE  Packet(i, kind, at, ttl, TRUE) \in Packets
  <1>1. Attr(i).mark \in {"none", "ignored", "so"}
    BY AttrIs
  <1>. QED
    BY <1>1 DEF Packet, Packets

(* One packet becomes others of its connection. *)
LEMMA Moved ==
    ASSUME PInv, NEW p \in pkt, NEW qs, Move(p, qs), UNCHANGED <<cfg, flow, exempt>>,
           conn' \in [Conns -> States],
           \A i \in Conns : conn'[i].n = conn[i].n /\ conn'[i].changed = conn[i].changed,
           \A i \in Conns : \/ /\ conn'[i].path = conn[i].path /\ conn'[i].nat = conn[i].nat
                               /\ conn'[i].est = conn[i].est
                            \/ i = p.conn /\ p.kind = "syn" /\ Known(i)' /\ Stays(i)',
           \A q \in qs : q \in Packets /\ q.conn = p.conn /\ Fine(q)',
           \A q \in qs : q.kind = "syn" => /\ p.kind = "syn" /\ qs = {q}
                                           /\ conn'[p.conn].path = "none" /\ ~conn'[p.conn].est
    PROVE  PInv'
  <1>1. pkt' = (pkt \ {p}) \cup qs
    BY DEF Move
  <1>2. Typed'
    BY <1>1 DEF PInv, Typed
  <1>3. p \in Packets /\ p.conn \in Conns
    BY DEF PInv, Typed, Packets
  <1>4. ASSUME NEW i \in Conns PROVE Known(i)' /\ Stays(i)'
    <2>1. CASE /\ conn'[i].path = conn[i].path /\ conn'[i].nat = conn[i].nat
               /\ conn'[i].est = conn[i].est
      <3>1. Known(i) /\ Stays(i)
        BY DEF PInv
      <3>2. conn'[i].n = conn[i].n /\ conn'[i].changed = conn[i].changed
        OBVIOUS
      <3>. QED
        BY <2>1, <3>1, <3>2, KeptConn
    <2>. QED
      BY <2>1
  <1>5. ASSUME NEW q \in pkt, q # p
        PROVE  /\ conn'[q.conn].path = conn[q.conn].path /\ conn'[q.conn].nat = conn[q.conn].nat
               /\ conn'[q.conn].est = conn[q.conn].est
               /\ conn'[q.conn].changed = conn[q.conn].changed /\ q.conn \in Conns
               /\ p.kind = "syn" => q.conn # p.conn
    <2>1. q.conn \in Conns
      BY DEF PInv, Typed, Packets
    <2>2. p.kind = "syn" => q.conn # p.conn
      BY <1>5 DEF PInv, Alone
    <2>. QED
      BY <2>1, <2>2
  <1>6. \A q \in pkt' : Fine(q)'
    <2>1. ASSUME NEW q \in pkt, q # p PROVE Fine(q)'
      BY <1>5, <2>1, Kept DEF PInv
    <2>. QED
      BY <1>1, <2>1
  <1>7. Counted'
    BY <1>1, <1>3, <1>5 DEF PInv, Counted
  <1>8. Opened'
    <2>1. LoopAddr("host")' <=> LoopAddr("host")
      BY Static
    <2>2. "host" \in Conns /\ "upstream" \in Conns
      BY DEF Conns
    <2>3. conn'["host"].path = conn["host"].path \/ (p.conn = "host" /\ p.kind = "syn")
      BY <2>2
    <2>4. p.kind = "syn" => conn[p.conn].path = "none"
      BY DEF PInv, Alone
    <2>. QED
      BY <2>1, <2>2, <2>3, <2>4 DEF PInv, Opened
  <1>9. Alone'
    <2>1. ASSUME NEW q \in pkt, q # p, q.kind = "syn"
          PROVE  /\ conn'[q.conn].path = "none" /\ ~conn'[q.conn].est
                 /\ \A r \in pkt' : r.conn = q.conn => r = q
      <3>1. q.conn # p.conn
        BY <2>1 DEF PInv, Alone
      <3>. QED
        BY <1>1, <1>5, <2>1, <3>1 DEF PInv, Alone
    <2>2. ASSUME NEW q \in qs, q.kind = "syn"
          PROVE  /\ conn'[q.conn].path = "none" /\ ~conn'[q.conn].est
                 /\ \A r \in pkt' : r.conn = q.conn => r = q
      BY <1>1, <1>5, <2>2
    <2>. QED
      BY <1>1, <2>1, <2>2 DEF Alone
  <1>. QED
    BY <1>2, <1>4, <1>6, <1>7, <1>8, <1>9 DEF PInv

LEMMA InitInv == Init => PInv
  BY ConfigsAssumption, KindsAssumption
  DEF Init, PInv, Typed, States, Conns, Opened, Counted, Alone, Known, Stays

(* The lifetime a packet starts with, and the bounds of the configuration. *)
LEMMA TtlTyped ==
    ASSUME Typed
    PROVE  cfg.ttl \in 0..255 /\ IngressTTL(cfg.ttl) \in Int /\ cfg.wanaddr \subseteq {"selfwan"}
  <1>1. cfg.ttl \in 0..255 /\ cfg.wanaddr \subseteq {"selfwan"}
    BY ConfigsAssumption DEF Typed
  <1>. QED
    BY <1>1 DEF IngressTTL

LEMMA SendInv ==
    ASSUME PInv, NEW i \in Conns, NEW kind \in {"syn", "ack", "data"}, Send(i, kind)
    PROVE  PInv'
  <1>. PICK id \in BOOLEAN :
          pkt' = pkt \cup {Packet(i, kind, IF Attr(i).by = "client" THEN "prerouting" ELSE "output",
                                  IF HasIngress(i) THEN IngressTTL(cfg.ttl) ELSE 64, id)}
    BY DEF Send
  <1>0. PICK new : new = Packet(i, kind, IF Attr(i).by = "client" THEN "prerouting" ELSE "output",
                                IF HasIngress(i) THEN IngressTTL(cfg.ttl) ELSE 64, id)
    OBVIOUS
  <1>1. /\ pkt' = pkt \cup {new} /\ UNCHANGED <<cfg, flow, exempt>>
        /\ conn' = [conn EXCEPT ![i].n = @ + 1] /\ Typed
    BY <1>0 DEF PInv, Send
  <1>2. /\ new \in Packets /\ new.conn = i /\ new.kind = kind
    BY <1>0, <1>1, TtlTyped, PacketTyped DEF Packet
  <1>3. /\ conn' \in [Conns -> States] /\ conn'[i].n # 0
        /\ \A j \in Conns : /\ conn'[j].path = conn[j].path /\ conn'[j].nat = conn[j].nat
                            /\ conn'[j].changed = conn[j].changed /\ conn'[j].est = conn[j].est
                            /\ (conn'[j].n = 0 => conn[j].n = 0)
                            /\ (j # i => conn'[j].n = conn[j].n)
    BY <1>1 DEF Typed, States
  <1>4. Typed'
    BY <1>1, <1>2, <1>3 DEF Typed
  <1>5. \A q \in pkt : q.conn \in Conns
    BY <1>1 DEF Typed, Packets
  <1>6. \A j \in Conns : Known(j)' /\ Stays(j)'
    BY <1>1, <1>3, KeptConn DEF PInv
  <1>7. Fine(new)'
    <2>1. /\ Attr(i)' = Attr(i) /\ (HasIngress(i)' <=> HasIngress(i))
      BY <1>1, Static
    <2>2. /\ new.dir = "original" /\ new.mark = Attr(i).mark
          /\ new.at = IF Attr(i).by = "client" THEN "prerouting" ELSE "output"
          /\ new.ttl = IF HasIngress(i) THEN IngressTTL(cfg.ttl) ELSE 64
      BY <1>0 DEF Packet
    <2>3. Attr(i).mark \in {"none", "ignored", "so"} /\ Attr(i).proto = flow.proto
      BY <1>1, AttrIs
    <2>4. Formed(new)'
      BY <1>1, <1>2, <2>1, <2>2, <2>3 DEF Formed, Send
    <2>5. Placed(new)'
      BY <1>1, <1>2, <2>1, <2>2, <2>3 DEF Placed
    <2>6. OnPath(new)'
      BY <1>1, <1>2, <2>1, <2>2, <2>3 DEF OnPath
    <2>7. Timed(new)'
      BY <1>1, <1>2, <2>1, <2>2 DEF Timed
    <2>. QED
      BY <2>4, <2>5, <2>6, <2>7 DEF Fine
  <1>8. \A q \in pkt' : Fine(q)'
    <2>1. ASSUME NEW q \in pkt PROVE Fine(q)'
      BY <1>1, <1>3, <1>5, <2>1, Kept DEF PInv
    <2>. QED
      BY <1>1, <1>7, <2>1
  <1>9. Counted'
    BY <1>1, <1>2, <1>3, <1>5 DEF PInv, Counted
  <1>10. /\ conn[i].n = 0 => conn[i].path = "none" /\ ~conn[i].est
         /\ kind # "syn" /\ flow.proto = "tcp" => conn[i].est /\ conn[i].n # 0
         /\ kind = "syn" => i = "host" /\ conn[i].n = 0
    BY <1>1, AttrIs DEF PInv, Known, Send
  <1>11. Opened'
    <2>1. LoopAddr("host")' <=> LoopAddr("host")
      BY <1>1, Static
    <2>2. "host" \in Conns /\ "upstream" \in Conns
      BY DEF Conns
    <2>. QED
      BY <1>1, <1>3, <1>10, <2>1, <2>2 DEF PInv, Opened
  <1>12. Alone'
    <2>1. ASSUME NEW q \in pkt', q.kind = "syn"
          PROVE  /\ conn'[q.conn].path = "none" /\ ~conn'[q.conn].est
                 /\ \A r \in pkt' : r.conn = q.conn => r = q
      <3>1. CASE q \in pkt
        <4>1. flow.proto = "tcp"
          BY <2>1, <3>1 DEF PInv, Fine, Formed
        <4>2. conn[q.conn].path = "none" /\ ~conn[q.conn].est /\ conn[q.conn].n # 0
          BY <2>1, <3>1 DEF PInv, Alone, Counted
        <4>3. q.conn # i
          BY <1>10, <4>1, <4>2
        <4>. QED
          BY <1>1, <1>2, <1>3, <1>5, <2>1, <3>1, <4>2, <4>3 DEF PInv, Alone
      <3>2. CASE q = new
        <4>1. conn[i].n = 0
          BY <1>2, <1>10, <2>1, <3>2
        <4>. QED
          BY <1>1, <1>2, <1>3, <1>10, <3>2, <4>1 DEF PInv, Counted
      <3>. QED
        BY <1>1, <2>1, <3>1, <3>2
    <2>. QED
      BY <2>1 DEF Alone
  <1>. QED
    BY <1>4, <1>6, <1>8, <1>9, <1>11, <1>12 DEF PInv

-----------------------------------------------------------------------------
(* PREROUTING. *)

LEMMA OnwardIs ==
    ASSUME NEW p \in Packets, NEW q \in Onward(p)
    PROVE  /\ q \in Packets /\ q.conn = p.conn /\ q.kind = p.kind /\ q.dir = p.dir /\ q.mark = p.mark
           /\ \/ q.at = "postrouting" /\ Attr(p.conn).peer \notin Self
              \/ q.at = "ua3f" /\ ToItsPort(p.conn)
              \/ q.at = "local" /\ ~ToItsPort(p.conn)
  <1>1. CASE Attr(p.conn).peer \notin Self
    <2>1. q = [p EXCEPT !.at = "postrouting", !.ttl = p.ttl - 1] /\ p.ttl \in Int
      BY <1>1 DEF Onward, Packets
    <2>2. p.ttl - 1 \in Int
      BY <2>1
    <2>. QED
      BY <1>1, <2>1, <2>2 DEF Packets
  <1>2. CASE Attr(p.conn).peer \in Self /\ ToItsPort(p.conn)
    <2>1. q = [p EXCEPT !.at = "ua3f"]
      BY <1>2 DEF Onward
    <2>. QED
      BY <1>2, <2>1 DEF Packets
  <1>3. CASE Attr(p.conn).peer \in Self /\ ~ToItsPort(p.conn)
    <2>1. q = [p EXCEPT !.at = "local"]
      BY <1>3 DEF Onward
    <2>. QED
      BY <1>3, <2>1 DEF Packets
  <1>. QED
    BY <1>1, <1>2, <1>3

(* Where a packet goes from PREROUTING, given what becomes of its mark. *)
Judged(p, q) ==
    /\ q \in Packets /\ q.conn = p.conn /\ q.kind = p.kind /\ q.dir = p.dir
    /\ q.at \in {"ua3f", "postrouting", "local", "lost"}
    /\ q.at = "postrouting" => flow.peer \notin Self
    /\ q.at = "ua3f" => flow.proto = "tcp" /\ (p.conn = "upstream" => ToItsPort("upstream"))
    /\ \/ q.mark = p.mark
       \/ cfg.mode = "TPROXY" /\ p.conn = "host" /\ q.mark \in {"fw", "sidecar"}
    /\ ~Excused(p.conn) =>
          /\ q.at # "lost"
          /\ q.at = "ua3f" <=>
                \/ ToItsPort(p.conn)
                \/ cfg.mode = "TPROXY" /\ Attr(p.conn).by # "client" /\ OutMark(p.conn)
                \/ /\ cfg.mode = "TPROXY" /\ (Attr(p.conn).by = "client" \/ flow.peer \in Self)
                   /\ PreTaken(p.conn)
                \/ cfg.mode = "REDIRECT" /\ Redirected(p)

LEMMA TproxyJudges ==
    ASSUME PInv, NEW p \in pkt, p.at = "prerouting", p.dir = "original", cfg.mode = "TPROXY",
           NEW q \in TproxyRoute(p)
    PROVE  Judged(p, q)
  <1>0. /\ Typed /\ p \in Packets /\ p.conn \in Conns /\ Fine(p)
    BY DEF PInv, Typed, Packets
  <1>1. /\ Attr(p.conn).proto = flow.proto /\ Attr(p.conn).peer = flow.peer
        /\ Attr(p.conn).mark \in {"none", "ignored", "so"}
        /\ p.conn = "upstream" => Attr(p.conn).mark = "so"
    BY <1>0, AttrIs
  <1>2. /\ p.mark = Attr(p.conn).mark \/ (p.mark = "fw" /\ p.conn = "host")
        /\ p.mark = "fw" => Attr(p.conn).by # "client"
        /\ p.mark # "fw" => Attr(p.conn).by = "client" \/ flow.peer \in Self
    BY <1>0 DEF Fine, Formed, Placed
  <1>3. /\ View(p).mark = p.mark /\ View(p).dir = "original" /\ View(p).by = Attr(p.conn).by
        /\ View(p).fam = Attr(p.conn).fam /\ View(p).proto = Attr(p.conn).proto
        /\ View(p).peer = Attr(p.conn).peer /\ View(p).port = Attr(p.conn).port
    BY DEF View
  <1>. DEFINE v       == View(p)
              sidecar == IF cfg.nft THEN NftSidecar(cfg, v) ELSE IptSidecar(cfg, v)
              m       == IF sidecar THEN "sidecar" ELSE v.mark
              verdict == IF cfg.nft THEN TproxyNftPre(cfg, exempt, [v EXCEPT !.mark = m])
                         ELSE IF sidecar THEN "accept" ELSE TproxyIptPre(cfg, exempt, v)
  <1>a. q \in CASE verdict = "tproxy" -> {[p EXCEPT !.at = "ua3f", !.mark = "fw"]}
               [] verdict # "tproxy" /\ m = "sidecar" ->
                     {[p EXCEPT !.at = a, !.mark = m] : a \in {"ua3f", "lost"}}
               [] verdict # "tproxy" /\ m = "fw" -> {[p EXCEPT !.at = "lost"]}
               [] OTHER -> Onward(p)
    BY DEF TproxyRoute
  <1>4. /\ m = IF sidecar THEN "sidecar" ELSE v.mark
        /\ verdict = IF cfg.nft THEN TproxyNftPre(cfg, exempt, [v EXCEPT !.mark = m])
                     ELSE IF sidecar THEN "accept" ELSE TproxyIptPre(cfg, exempt, v)
        /\ verdict = "tproxy" => q = [p EXCEPT !.at = "ua3f", !.mark = "fw"]
        /\ verdict # "tproxy" /\ m = "sidecar" =>
              \E a \in {"ua3f", "lost"} : q = [p EXCEPT !.at = a, !.mark = m]
        /\ verdict # "tproxy" /\ m = "fw" => q = [p EXCEPT !.at = "lost"]
        /\ verdict # "tproxy" /\ m \notin {"sidecar", "fw"} => q \in Onward(p)
    <2>. HIDE DEF verdict, m, sidecar
    <2>1. m \notin {"sidecar", "fw"} => m # "sidecar" /\ m # "fw"
      OBVIOUS
    <2>. QED
      BY <1>a, <2>1 DEF verdict, m
  <1>5. sidecar => cfg.sc /\ p.mark = "fw" /\ flow.proto = "tcp"
    BY <1>1, <1>3, <1>4, Zenon DEF NftSidecar, IptSidecar
  <1>6. ~sidecar => [v EXCEPT !.mark = m] = v
    BY <1>4 DEF View
  <1>7. (verdict = "tproxy" <=> PreTaken(p.conn)) \/ p.mark = "fw"
    <2>1. CASE p.mark # "fw"
      <3>1. verdict = IF cfg.nft THEN TproxyNftPre(cfg, exempt, v) ELSE TproxyIptPre(cfg, exempt, v)
        BY <1>4, <1>5, <1>6, <2>1, <1>3
      <3>2. p.mark = Attr(p.conn).mark
        BY <1>2, <2>1
      <3>. QED
        BY <1>4, <3>1, <3>2, SeenAsSight
    <2>. QED
      BY <2>1
  <1>8. verdict = "tproxy" => p.conn = "host" /\ flow.proto = "tcp"
    <2>1. p.conn = "upstream" => ~PreTaken(p.conn) /\ p.mark # "fw"
      BY <1>0, <1>1, <1>2, NotForUA3F
    <2>2. verdict = "tproxy" => flow.proto = "tcp"
      BY <1>1, <1>3, <1>4 DEF TproxyNftPre, TproxyIptPre, IgnoreNotTCP
    <2>. QED
      BY <1>0, <1>7, <2>1, <2>2 DEF Conns
  <1>9. p.mark = "fw" /\ ~Excused(p.conn) => verdict = "tproxy" /\ OutMark(p.conn)
    <2>. SUFFICES ASSUME p.mark = "fw", ~Excused(p.conn) PROVE verdict = "tproxy" /\ OutMark(p.conn)
      OBVIOUS
    <2>1. OutMark(p.conn)
      BY <1>0, <1>2 DEF Fine, OnPath
    <2>2. ~(cfg.sc /\ ~cfg.nft)
      BY DEF Excused
    <2>3. CASE cfg.nft
      <3>1. PICK w : w = [v EXCEPT !.mark = m]
        OBVIOUS
      <3>2. m \in {"fw", "sidecar"}
        BY <1>3, <1>4
      <3>3. /\ w.mark = m /\ w.dir = v.dir /\ w.by = v.by /\ w.fam = v.fam /\ w.proto = v.proto
            /\ w.peer = v.peer /\ w.port = v.port
        BY <3>1 DEF View
      <3>4. verdict = TproxyNftPre(cfg, exempt, w)
        BY <1>4, <2>3, <3>1
      <3>. HIDE DEF verdict, m
      <3>. QED
        BY <1>3, <2>1, <2>3, <3>2, <3>3, <3>4, MarkedIsTaken
    <2>4. CASE ~cfg.nft
      <3>1. ~sidecar
        BY <1>5, <2>2, <2>4
      <3>. QED
        BY <1>3, <1>4, <2>1, <2>4, <3>1, MarkedIsTaken
    <2>. QED
      BY <2>3, <2>4
  <1>10. ~Excused(p.conn) => (p.mark # "fw" /\ Attr(p.conn).by # "client" => ~OutMark(p.conn))
    BY <1>0 DEF Fine, OnPath
  <1>. HIDE DEF verdict, m, sidecar
  <1>11. CASE verdict = "tproxy"
    <2>1. q = [p EXCEPT !.at = "ua3f", !.mark = "fw"]
      BY <1>4, <1>11
    <2>2. /\ q \in Packets /\ q.conn = p.conn /\ q.kind = p.kind /\ q.dir = p.dir
          /\ q.at = "ua3f" /\ q.mark = "fw"
      BY <1>0, <2>1 DEF Packets
    <2>3. CASE p.mark = "fw"
      BY <1>2, <1>8, <1>9, <1>11, <2>2, <2>3 DEF Judged
    <2>4. CASE p.mark # "fw"
      BY <1>2, <1>7, <1>8, <1>11, <2>2, <2>4 DEF Judged
    <2>. QED
      BY <2>3, <2>4
  <1>12. CASE verdict # "tproxy" /\ m \in {"sidecar", "fw"}
    <2>1. p.mark = "fw"
      BY <1>1, <1>2, <1>3, <1>4, <1>5, <1>12
    <2>2. /\ q \in Packets /\ q.conn = p.conn /\ q.kind = p.kind /\ q.dir = p.dir
          /\ (q.at = "ua3f" /\ m = "sidecar") \/ q.at = "lost"
          /\ q.mark \in {"sidecar", "fw"}
      BY <1>0, <1>4, <1>12, <2>1 DEF Packets
    <2>3. Excused(p.conn)
      BY <1>9, <1>12, <2>1
    <2>4. m = "sidecar" => sidecar
      BY <1>3, <1>4, <2>1
    <2>5. p.conn = "host" /\ p.conn # "upstream" /\ cfg.mode = "TPROXY"
      BY <1>1, <1>2, <2>1
    <2>. QED
      BY <1>5, <2>2, <2>3, <2>4, <2>5 DEF Judged
  <1>13. CASE verdict # "tproxy" /\ m \notin {"sidecar", "fw"}
    <2>1. q \in Onward(p) /\ p.mark # "fw"
      BY <1>3, <1>4, <1>13
    <2>. QED
      BY <1>0, <1>1, <1>2, <1>7, <1>10, <1>13, <2>1, OnwardIs DEF Judged, ToItsPort, Conns
  <1>. QED
    BY <1>11, <1>12, <1>13

LEMMA RedirectJudges ==
    ASSUME PInv, NEW p \in pkt, p.at = "prerouting", p.dir = "original", cfg.mode # "TPROXY",
           NEW q \in IF cfg.mode = "REDIRECT" THEN RedirectRoute(p) ELSE Onward(p)
    PROVE  Judged(p, q)
  <1>1. /\ Typed /\ p \in Packets /\ p.conn \in Conns /\ Fine(p) /\ Known(p.conn)
    BY DEF PInv, Typed, Packets
  <1>2. Attr(p.conn).proto = flow.proto /\ Attr(p.conn).peer = flow.peer
        /\ (p.conn = "upstream" => Attr(p.conn).by # "client")
    BY <1>1, AttrIs
  <1>3. CASE cfg.mode = "REDIRECT" /\ Redirected(p)
    <2>1. flow.proto = "tcp" /\ Attr(p.conn).by = "client"
      BY <1>1, <1>3, RedirectedIs DEF Redirected, Known
    <2>2. q = [p EXCEPT !.at = "ua3f"]
      BY <1>3 DEF RedirectRoute
    <2>3. /\ q \in Packets /\ q.conn = p.conn /\ q.kind = p.kind /\ q.dir = p.dir
          /\ q.at = "ua3f" /\ q.mark = p.mark
      BY <1>1, <2>2 DEF Packets
    <2>. QED
      BY <1>2, <1>3, <2>1, <2>3 DEF Judged
  <1>4. CASE ~(cfg.mode = "REDIRECT" /\ Redirected(p))
    <2>1. q \in Onward(p)
      BY <1>4 DEF RedirectRoute
    <2>. QED
      BY <1>1, <1>2, <1>4, <2>1, OnwardIs DEF Judged, ToItsPort, Conns
  <1>. QED
    BY <1>3, <1>4

LEMMA PreroutingInv ==
    ASSUME PInv, NEW p \in pkt, Prerouting(p)
    PROVE  PInv'
  <1>. DEFINE i == p.conn
  <1>1. /\ Typed /\ p \in Packets /\ i \in Conns /\ Fine(p) /\ Known(i) /\ Stays(i)
    BY DEF PInv, Typed, Packets
  <1>2. /\ p.at = "prerouting" /\ p.dir = "original" /\ UNCHANGED <<cfg, flow, exempt>>
        /\ conn' = [conn EXCEPT ![i].nat = cfg.mode = "REDIRECT" /\ Redirected(p)]
    BY DEF Prerouting
  <1>3. PICK q : Judged(p, q) /\ Move(p, {q})
    <2>1. PICK q \in CASE cfg.mode = "TPROXY"   -> TproxyRoute(p)
                       [] cfg.mode = "REDIRECT" -> RedirectRoute(p)
                       [] OTHER                 -> Onward(p) : Move(p, {q})
      BY DEF Prerouting
    <2>2. CASE cfg.mode = "TPROXY"
      BY <1>2, <2>1, <2>2, TproxyJudges
    <2>3. CASE cfg.mode # "TPROXY"
      <3>1. q \in IF cfg.mode = "REDIRECT" THEN RedirectRoute(p) ELSE Onward(p)
        BY <2>1, <2>3
      <3>. QED
        BY <1>2, <2>1, <2>3, <3>1, RedirectJudges
    <2>. QED
      BY <2>2, <2>3
  <1>4. p.kind \in {"syn", "ack", "data"}
    BY <1>1, <1>2 DEF Fine, Formed, Packets
  <1>5. /\ conn' \in [Conns -> States]
        /\ \A j \in Conns : /\ conn'[j].n = conn[j].n /\ conn'[j].changed = conn[j].changed
                            /\ conn'[j].path = conn[j].path /\ conn'[j].est = conn[j].est
                            /\ j # i => conn'[j].nat = conn[j].nat
        /\ conn'[i].nat <=> cfg.mode = "REDIRECT" /\ Redirected(p)
    <2>. DEFINE b == cfg.mode = "REDIRECT" /\ Redirected(p)
    <2>1. b \in BOOLEAN
      OBVIOUS
    <2>2. conn' = [conn EXCEPT ![i].nat = b]
      BY <1>2
    <2>. HIDE DEF b
    <2>3. /\ conn' \in [Conns -> States] /\ conn'[i].nat = b
          /\ \A j \in Conns : /\ conn'[j].n = conn[j].n /\ conn'[j].changed = conn[j].changed
                              /\ conn'[j].path = conn[j].path /\ conn'[j].est = conn[j].est
                              /\ j # i => conn'[j].nat = conn[j].nat
      BY <1>1, <2>1, <2>2 DEF Typed, States
    <2>. QED
      BY <2>3 DEF b
  <1>6. p.kind # "syn" => conn'[i].nat = conn[i].nat
    <2>. SUFFICES ASSUME p.kind # "syn" PROVE conn'[i].nat = conn[i].nat
      OBVIOUS
    <2>1. conn[i].nat \in BOOLEAN /\ conn'[i].nat \in BOOLEAN
      BY <1>1, <1>5 DEF Typed, States
    <2>. QED
      BY <1>1, <1>5, <2>1 DEF Redirected, Known
  <1>7. p.kind = "syn" => conn[i].path = "none" /\ ~conn[i].est
    BY DEF PInv, Alone
  <1>8. Attr(i)' = Attr(i) /\ (ToItsPort(i)' <=> ToItsPort(i))
        /\ (ToItsPort("upstream")' <=> ToItsPort("upstream"))
    BY <1>2, Static
  <1>9. p.kind = "syn" => Known(i)' /\ Stays(i)'
    <2>1. cfg.mode = "REDIRECT" /\ Redirected(p) /\ p.kind = "syn" =>
              Attr(i).by = "client" /\ flow.proto = "tcp"
      BY <1>1, RedirectedIs
    <2>2. conn[i].n # 0
      BY DEF PInv, Counted
    <2>. QED
      BY <1>1, <1>2, <1>5, <1>7, <1>8, <2>1, <2>2 DEF Known, Stays
  <1>10. /\ q \in Packets /\ q.conn = i /\ q.kind = p.kind /\ q.dir = p.dir
         /\ q.at \in {"ua3f", "postrouting", "local", "lost"}
    BY <1>3 DEF Judged
  <1>11. Fine(q)'
    <2>1. Formed(q)'
      BY <1>1, <1>2, <1>3, <1>4, <1>8, <1>10 DEF Judged, Fine, Formed
    <2>2. Placed(q)'
      BY <1>1, <1>2, <1>3, <1>4, <1>8, <1>10 DEF Judged, Fine, Placed
    <2>3. OnPath(q)'
      <3>1. Excused(i)' <=> Excused(i)
        BY <1>1, <1>2, <1>5 DEF Excused
      <3>2. (OutMark(i)' <=> OutMark(i)) /\ (PreTaken(i)' <=> PreTaken(i))
        BY <1>2, SameMarks
      <3>3. ~Excused(i) => q.at # "lost" /\ (q.at = "ua3f" <=> Diverted(i)')
        BY <1>2, <1>3, <1>5, <1>8, <3>2 DEF Judged, Diverted
      <3>. QED
        BY <1>4, <1>10, <3>1, <3>3 DEF OnPath
    <2>4. Timed(q)'
      BY <1>10 DEF Timed
    <2>. QED
      BY <2>1, <2>2, <2>3, <2>4 DEF Fine
  <1>. QED
    BY <1>2, <1>3, <1>5, <1>6, <1>7, <1>9, <1>10, <1>11, Moved

(* What the steps below have in common. *)
LEMMA Here ==
    ASSUME PInv, NEW p \in pkt
    PROVE  /\ Typed /\ p \in Packets /\ p.conn \in Conns /\ p.ttl \in Int
           /\ Fine(p) /\ Known(p.conn) /\ Stays(p.conn) /\ conn[p.conn].n # 0
           /\ p.kind = "syn" => conn[p.conn].path = "none" /\ ~conn[p.conn].est
  BY DEF PInv, Typed, Packets, Counted, Alone

(* A step that changes one packet and no connection. *)
LEMMA Passed ==
    ASSUME PInv, NEW p \in pkt, p.kind # "syn", NEW qs, Move(p, qs),
           UNCHANGED <<cfg, flow, conn, exempt>>,
           \A q \in qs : q \in Packets /\ q.conn = p.conn /\ q.kind # "syn" /\ Fine(q)'
    PROVE  PInv'
  <1>1. conn' \in [Conns -> States]
    BY DEF PInv, Typed
  <1>. QED
    BY <1>1, Moved

(* A step that changes one packet and no connection, and keeps the packet. *)
LEMMA PassedOn ==
    ASSUME PInv, NEW p \in pkt, NEW q, Move(p, {q}), UNCHANGED <<cfg, flow, conn, exempt>>,
           q \in Packets, q.conn = p.conn, q.kind = p.kind, Fine(q)'
    PROVE  PInv'
  <1>1. conn' \in [Conns -> States] /\ (p.kind = "syn" => conn[p.conn].path = "none" /\ ~conn[p.conn].est)
    BY Here DEF Typed
  <1>2. \A r \in {q} : r \in Packets /\ r.conn = p.conn /\ Fine(r)'
    OBVIOUS
  <1>3. \A r \in {q} : r.kind = "syn" => /\ p.kind = "syn" /\ {q} = {r}
                                         /\ conn'[p.conn].path = "none" /\ ~conn'[p.conn].est
    BY <1>1
  <1>. QED
    BY <1>1, <1>2, <1>3, Moved

LEMMA OffloadedInv ==
    ASSUME PInv, NEW p \in pkt, Offloaded(p)
    PROVE  PInv'
  <1>1. PICK q : /\ q = [p EXCEPT !.at = "wire", !.ttl = p.ttl - 1, !.whole = TRUE] /\ Move(p, {q})
    BY DEF Offloaded
  <1>2. /\ p.at = "prerouting" /\ cfg.flow /\ Attr(p.conn).by = "client"
        /\ p.kind \in {"ack", "data"} /\ conn[p.conn].path = "direct"
        /\ flow.peer \notin Self /\ UNCHANGED <<cfg, flow, conn, exempt>>
    BY Here, AttrIs DEF Offloaded
  <1>3. p.ttl - 1 \in Int
    BY Here
  <1>4. /\ q \in Packets /\ q.conn = p.conn /\ q.kind = p.kind /\ q.dir = p.dir /\ q.mark = p.mark
        /\ q.at = "wire" /\ q.ttl = p.ttl - 1
    BY <1>1, <1>3, Here DEF Packets
  <1>5. Attr(p.conn)' = Attr(p.conn) /\ (ToItsPort(p.conn)' <=> ToItsPort(p.conn))
    BY <1>2, Static
  <1>6. Formed(q)'
    BY <1>2, <1>4, <1>5, Here DEF Fine, Formed
  <1>7. Placed(q)'
    BY <1>2, <1>4, <1>5 DEF Placed
  <1>8. OnPath(q)'
    <2>1. (OutMark(p.conn)' <=> OutMark(p.conn)) /\ (PreTaken(p.conn)' <=> PreTaken(p.conn))
      BY <1>2, SameMarks
    <2>2. (Diverted(p.conn)' <=> Diverted(p.conn)) /\ (Excused(p.conn)' <=> Excused(p.conn))
      BY <1>2, <1>5, <2>1 DEF Diverted, Excused
    <2>. QED
      BY <1>2, <1>4, <2>2, Here DEF OnPath, Stays
  <1>9. Timed(q)'
    <2>. SUFFICES ASSUME cfg.ttl # 0, flow.fam = 4
                  PROVE  q.ttl = cfg.ttl \/ cfg.ttl = 255 \/ Attr(p.conn).dev = "second"
      BY <1>2, <1>4, <1>5 DEF Timed
    <2>1. p.ttl = IF HasIngress(p.conn) THEN IngressTTL(cfg.ttl) ELSE 64
      BY <1>2, Here DEF Fine, Timed, Formed, Packets
    <2>2. HasIngress(p.conn) \/ Attr(p.conn).dev = "second"
      BY <1>2, Here, AttrIs DEF HasIngress
    <2>. QED
      BY <1>4, <2>1, <2>2, Here, TtlTyped DEF IngressTTL
  <1>10. Fine(q)'
    BY <1>6, <1>7, <1>8, <1>9 DEF Fine
  <1>. QED
    BY <1>1, <1>2, <1>4, <1>10, PassedOn

LEMMA SynAckInv ==
    ASSUME PInv, NEW p \in pkt, SynAck(p)
    PROVE  PInv'
  <1>1. PICK q : q = Packet(p.conn, "inject", "output", InjectTTL, TRUE)
    OBVIOUS
  <1>2. /\ q \in Packets /\ q.conn = p.conn /\ q.kind = "inject" /\ q.dir = "original"
        /\ q.at = "output" /\ q.mark = "inject" /\ q.ttl = InjectTTL
    BY <1>1, Here, MadeTyped DEF Packet, InjectTTL
  <1>3. PICK qs \in {{}, {q}} : Move(p, qs)
    BY <1>1 DEF SynAck
  <1>4. p.kind = "synack" /\ UNCHANGED <<cfg, flow, conn, exempt>> /\ flow.proto = "tcp"
        /\ flow.peer \notin Self
    BY Here DEF SynAck, Fine, Formed, Placed
  <1>5. Fine(q)'
    BY <1>2, <1>4 DEF Fine, Formed, Placed, OnPath, Timed
  <1>. QED
    BY <1>2, <1>3, <1>4, <1>5, Passed

LEMMA OutputInv ==
    ASSUME PInv, NEW p \in pkt, Output(p)
    PROVE  PInv'
  <1>. DEFINE i == p.conn
  <1>1. PICK q : /\ Move(p, {q})
                 /\ q = IF Marked(p) THEN [p EXCEPT !.at = "prerouting", !.mark = "fw"]
                        ELSE IF Attr(i).peer \in Self THEN [p EXCEPT !.at = "prerouting"]
                        ELSE [p EXCEPT !.at = "postrouting"]
    BY DEF Output
  <1>2. p.at = "output" /\ UNCHANGED <<cfg, flow, conn, exempt>>
    BY DEF Output
  <1>3. /\ q \in Packets /\ q.conn = i /\ q.kind = p.kind /\ q.dir = p.dir
        /\ q.mark = (IF Marked(p) THEN "fw" ELSE p.mark) /\ q.ttl = p.ttl
        /\ q.at = IF Marked(p) \/ Attr(i).peer \in Self THEN "prerouting" ELSE "postrouting"
    BY <1>1, Here DEF Packets
  <1>4. p.dir = "original" /\ p.kind # "synack" /\ Attr(i).peer = flow.peer
    BY <1>2, Here, AttrIs DEF Fine, Formed, Packets
  <1>5. Attr(i)' = Attr(i) /\ (ToItsPort(i)' <=> ToItsPort(i))
    BY <1>2, Static
  <1>6. (OutMark(i)' <=> OutMark(i)) /\ (PreTaken(i)' <=> PreTaken(i))
    BY <1>2, SameMarks
  <1>7. CASE p.kind = "inject"
    <2>1. p.mark = "inject" /\ flow.peer \notin Self /\ flow.proto = "tcp" /\ p.ttl = InjectTTL
      BY <1>7, Here DEF Fine, Formed, Placed
    <2>2. View(p).mark = "inject"
      BY <2>1 DEF View
    <2>3. ~Marked(p)
      BY <2>2 DEF Marked, TproxyNftOut, TproxyIptOut
    <2>4. Fine(q)'
      BY <1>2, <1>3, <1>4, <1>7, <2>1, <2>3 DEF Fine, Formed, Placed, OnPath, Timed
    <2>. QED
      BY <1>1, <1>2, <1>3, <1>7, <2>4, PassedOn
  <1>8. CASE p.kind # "inject"
    <2>1. Attr(i).by # "client" /\ p.mark = Attr(i).mark
      BY <1>2, <1>8, Here DEF Fine, Placed
    <2>2. Marked(p) <=> cfg.mode = "TPROXY" /\ OutMark(i)
      BY <1>4, <2>1, SeenAsSight
    <2>3. OutMark(i) => i = "host" /\ flow.proto = "tcp"
      BY Here, NotForUA3F, AttrIs DEF Conns
    <2>4. Attr(i).mark \in {"none", "ignored", "so"}
      BY Here, AttrIs
    <2>5. ~Diverted(i)' \/ q.at = "prerouting"
      <3>. SUFFICES ASSUME q.at = "postrouting" PROVE ~Diverted(i)'
        BY <1>3
      <3>1. flow.peer \notin Self /\ ~Marked(p) /\ ~ToItsPort(i) /\ ~conn[i].nat
        BY <1>3, <1>4, <2>1, Here DEF ToItsPort, Known
      <3>. QED
        BY <1>2, <1>5, <1>6, <2>1, <2>2, <3>1 DEF Diverted
    <2>6. Formed(q)'
      BY <1>2, <1>3, <1>4, <1>5, <1>8, <2>1, <2>2, <2>3, Here DEF Fine, Formed
    <2>7. Placed(q)'
      BY <1>2, <1>3, <1>4, <1>5, <1>8, <2>1, <2>4 DEF Placed
    <2>8. OnPath(q)'
      BY <1>2, <1>3, <1>4, <1>5, <1>6, <2>1, <2>2, <2>4, <2>5 DEF OnPath
    <2>9. Timed(q)'
      BY <1>2, <1>3, <1>5, <2>1 DEF Timed
    <2>10. Fine(q)'
      BY <2>6, <2>7, <2>8, <2>9 DEF Fine
    <2>. QED
      BY <1>1, <1>2, <1>3, <2>10, PassedOn
  <1>. QED
    BY <1>7, <1>8

LEMMA PostroutingInv ==
    ASSUME PInv, NEW p \in pkt, Postrouting(p)
    PROVE  PInv'
  <1>. DEFINE i == p.conn
  <1>1. p.at = "postrouting" /\ UNCHANGED <<cfg, flow, exempt>> /\ Move(p, Leaving(p))
    BY DEF Postrouting
  <1>2. PICK b \in BOOLEAN : conn' = [conn EXCEPT ![i].notHTTP = @ \/ b]
    BY DEF Postrouting
  <1>3. /\ conn' \in [Conns -> States]
        /\ \A j \in Conns : /\ conn'[j].n = conn[j].n /\ conn'[j].changed = conn[j].changed
                            /\ conn'[j].path = conn[j].path /\ conn'[j].nat = conn[j].nat
                            /\ conn'[j].est = conn[j].est
    BY <1>2, Here DEF Typed, States
  <1>4. ASSUME NEW q \in Leaving(p)
        PROVE  /\ q \in Packets /\ q.conn = i /\ q.kind = p.kind /\ q.dir = p.dir /\ q.mark = p.mark
               /\ q.at = "wire" /\ q.ttl = (IF SetsTTL(cfg, View(p)) THEN cfg.ttl ELSE p.ttl)
               /\ Leaving(p) = {q}
    <2>1. PICK y \in BOOLEAN, w \in BOOLEAN :
              /\ q = [p EXCEPT !.at = "wire", !.id = y, !.whole = w,
                               !.ttl = IF SetsTTL(cfg, View(p)) THEN cfg.ttl ELSE @]
              /\ Leaving(p) = {q}
      <3>1. ZeroIPID(p, Range(Queues(cfg, exempt, View(p)))) \in BOOLEAN
            /\ ReorderPacket(p, Range(Queues(cfg, exempt, View(p)))) \in BOOLEAN
        BY DEF ZeroIPID, ReorderPacket
      <3>. QED
        BY <1>4, <3>1, Zenon DEF Leaving
    <2>2. cfg.ttl \in Int
      BY Here, TtlTyped
    <2>. QED
      BY <2>1, <2>2, Here DEF Packets
  <1>5. Attr(i)' = Attr(i) /\ (ToItsPort(i)' <=> ToItsPort(i))
    BY <1>1, Static
  <1>6. ASSUME NEW q \in Leaving(p) PROVE Fine(q)'
    <2>1. p.dir = "original" /\ p.kind # "synack" /\ flow.peer \notin Self
      BY <1>1, Here DEF Fine, Formed, Placed, Packets
    <2>2. View(p).mark = p.mark /\ View(p).fam = flow.fam
      BY Here, AttrIs DEF View
    <2>3. Formed(q)'
      BY <1>1, <1>4, <1>5, <2>1, <2>2, Here DEF Fine, Formed, SetsTTL
    <2>4. Placed(q)'
      BY <1>1, <1>4, <1>5, <2>1 DEF Placed
    <2>5. OnPath(q)'
      <3>1. (OutMark(i)' <=> OutMark(i)) /\ (PreTaken(i)' <=> PreTaken(i))
        BY <1>1, SameMarks
      <3>2. (Diverted(i)' <=> Diverted(i)) /\ (Excused(i)' <=> Excused(i))
        BY <1>1, <1>3, <1>5, <3>1, Here DEF Diverted, Excused
      <3>. QED
        BY <1>1, <1>4, <3>2, Here DEF OnPath, Fine
    <2>6. Timed(q)'
      <3>1. p.kind # "inject" => p.mark # "inject"
        BY Here, AttrIs DEF Fine, Formed
      <3>. QED
        BY <1>1, <1>4, <2>2, <3>1 DEF Timed, SetsTTL
    <2>. QED
      BY <2>3, <2>4, <2>5, <2>6 DEF Fine
  <1>. QED
    BY <1>1, <1>3, <1>4, <1>6, Here, Moved

(* A SYN that arrives settles the path of its connection. *)
LEMMA Settled ==
    ASSUME PInv, NEW p \in pkt, p.kind = "syn", NEW qs, Move(p, qs),
           UNCHANGED <<cfg, flow, exempt>>, NEW w \in {"direct", "ua3f"}, NEW e \in BOOLEAN,
           conn' = [conn EXCEPT ![p.conn].est = e, ![p.conn].path = w],
           flow.proto = "tcp", Excused(p.conn) \/ (w = "ua3f" <=> Diverted(p.conn)),
           \A q \in qs : q \in Packets /\ q.conn = p.conn /\ q.kind # "syn" /\ Fine(q)'
    PROVE  PInv'
  <1>. DEFINE i == p.conn
  <1>1. /\ conn' \in [Conns -> States] /\ conn'[i].path = w /\ conn'[i].nat = conn[i].nat
        /\ \A j \in Conns : /\ conn'[j].n = conn[j].n /\ conn'[j].changed = conn[j].changed
                            /\ j # i => conn'[j] = conn[j]
    BY Here DEF Typed, States
  <1>2. /\ Attr(i)' = Attr(i) /\ (ToItsPort(i)' <=> ToItsPort(i))
    BY Static
  <1>3. (OutMark(i)' <=> OutMark(i)) /\ (PreTaken(i)' <=> PreTaken(i))
    BY SameMarks
  <1>4. (Diverted(i)' <=> Diverted(i)) /\ (Excused(i)' <=> Excused(i))
    BY <1>1, <1>2, <1>3, Here DEF Diverted, Excused
  <1>5. Known(i)'
    BY <1>1, <1>2, Here DEF Known
  <1>6. Stays(i)'
    BY <1>1, <1>4 DEF Stays
  <1>. QED
    BY <1>1, <1>5, <1>6, Moved

LEMMA ArriveInv ==
    ASSUME PInv, NEW p \in pkt, Arrive(p)
    PROVE  PInv'
  <1>1. UNCHANGED <<cfg, flow, exempt>>
    BY DEF Arrive
  <1>2. CASE p.kind = "syn" /\ p.at \in {"wire", "local"}
    <2>1. PICK q : q = Packet(p.conn, "synack", "prerouting", 64, TRUE)
      OBVIOUS
    <2>2. PICK qs : Move(p, qs) /\ qs = (IF p.at = "wire" THEN {q} ELSE {})
      BY <1>2, <2>1 DEF Arrive
    <2>3. conn' = [conn EXCEPT ![p.conn].est = TRUE, ![p.conn].path = "direct"]
      BY <1>2 DEF Arrive
    <2>4. flow.proto = "tcp" /\ (p.at = "wire" => flow.peer \notin Self)
      BY <1>2, Here DEF Fine, Formed, Placed
    <2>5. Excused(p.conn) \/ ~Diverted(p.conn)
      BY <1>2, Here DEF Fine, OnPath
    <2>6. ASSUME NEW r \in qs PROVE r \in Packets /\ r.conn = p.conn /\ r.kind # "syn" /\ Fine(r)'
      <3>1. r = Packet(p.conn, "synack", "prerouting", 64, TRUE) /\ p.at = "wire"
        BY <2>1, <2>2, <2>6
      <3>2. /\ r \in Packets /\ r.conn = p.conn /\ r.kind = "synack" /\ r.dir = "reply"
            /\ r.at = "prerouting" /\ r.mark = Attr(p.conn).mark
        BY <3>1, Here, MadeTyped DEF Packet
      <3>3. Attr(p.conn)' = Attr(p.conn) /\ Attr(p.conn).mark \in {"none", "ignored", "so"}
        BY <1>1, Static, Here, AttrIs
      <3>4. Fine(r)'
        BY <1>1, <2>4, <3>1, <3>2, <3>3 DEF Fine, Formed, Placed, OnPath, Timed
      <3>. QED
        BY <3>2, <3>4
    <2>. QED
      BY <1>1, <1>2, <2>2, <2>3, <2>4, <2>5, <2>6, Settled
  <1>3. CASE ~(p.kind = "syn" /\ p.at \in {"wire", "local"})
    <2>1. Move(p, {}) /\ UNCHANGED conn
      BY <1>3 DEF Arrive
    <2>2. conn' \in [Conns -> States]
      BY <2>1, Here DEF Typed
    <2>. QED
      BY <1>1, <2>1, <2>2, Moved
  <1>. QED
    BY <1>2, <1>3

LEMMA HandleClientInv ==
    ASSUME PInv, NEW p \in pkt, HandleClient(p)
    PROVE  PInv'
  <1>. DEFINE i == p.conn
  <1>1. p.at = "ua3f" /\ p.kind = "syn" /\ UNCHANGED <<cfg, flow, exempt>>
    BY DEF HandleClient
  <1>2. flow.proto = "tcp" /\ conn[i].path = "none" /\ (Excused(i) \/ Diverted(i))
    BY <1>1, Here DEF Fine, Placed, OnPath
  <1>3. CASE LoopAddr(i) \/ i = "upstream"
    <2>1. conn' = [conn EXCEPT ![i].path = "ua3f"] /\ Move(p, {})
      BY <1>3 DEF HandleClient
    <2>2. PICK e \in BOOLEAN : conn' = [conn EXCEPT ![i].est = e, ![i].path = "ua3f"]
      <3>1. conn' = [conn EXCEPT ![i].est = conn[i].est, ![i].path = "ua3f"]
        BY <2>1, Here DEF Typed, States
      <3>2. conn[i].est \in BOOLEAN
        BY Here DEF Typed, States
      <3>. QED
        BY <3>1, <3>2
    <2>3. PICK qs, w : /\ qs = {} /\ w = "ua3f" /\ w \in {"direct", "ua3f"} /\ Move(p, qs)
                       /\ conn' = [conn EXCEPT ![i].est = e, ![i].path = w]
      BY <2>1, <2>2
    <2>4. Excused(i) \/ (w = "ua3f" <=> Diverted(i))
      BY <1>2, <2>3
    <2>5. \A q \in qs : q \in Packets /\ q.conn = i /\ q.kind # "syn" /\ Fine(q)'
      BY <2>3
    <2>. QED
      BY <1>1, <1>2, <2>3, <2>4, <2>5, Settled
  <1>4. CASE ~(LoopAddr(i) \/ i = "upstream")
    <2>1. i = "host" /\ "upstream" \in Conns /\ Typed
      BY <1>4, Here DEF Conns
    <2>2. PICK q : q = Packet("upstream", "syn", "output", 64, TRUE)
      OBVIOUS
    <2>3. /\ conn' = [conn EXCEPT !["host"].path = "ua3f", !["host"].est = TRUE, !["upstream"].n = 1]
          /\ pkt' = (pkt \ {p}) \cup {q}
      BY <1>4, <2>1, <2>2 DEF HandleClient, Move
    <2>4. conn["upstream"].n = 0
      BY <1>2, <2>1, Here DEF PInv, Opened, Typed, States
    <2>5. /\ conn["upstream"].path = "none" /\ ~conn["upstream"].est /\ ~conn["upstream"].nat
          /\ ~conn["upstream"].changed
      BY <2>1, <2>4 DEF PInv, Known
    <2>6. \A r \in pkt : r.conn = "host" => r = p
      BY <1>1, <2>1 DEF PInv, Alone
    <2>7. \A r \in pkt : r.conn # "upstream"
      BY <2>4 DEF PInv, Counted
    <2>8. pkt = {p}
      BY <2>1, <2>6, <2>7 DEF Typed, Packets, Conns
    <2>9. pkt' = {q}
      BY <2>3, <2>8
    <2>10. /\ conn' \in [Conns -> States]
           /\ conn'["host"].path = "ua3f" /\ conn'["host"].n = conn["host"].n
           /\ conn'["host"].nat = conn["host"].nat /\ conn'["host"].changed = conn["host"].changed
           /\ conn'["upstream"].n = 1 /\ conn'["upstream"].path = "none"
           /\ ~conn'["upstream"].est /\ ~conn'["upstream"].nat
      BY <2>1, <2>3, <2>5 DEF Typed, States, Conns
    <2>11. /\ q \in Packets /\ q.conn = "upstream" /\ q.kind = "syn" /\ q.at = "output"
           /\ q.dir = "original" /\ q.mark = "so" /\ Attr("upstream").by = "ua3f"
           /\ Attr("upstream").mark = "so"
      BY <2>1, <2>2, MadeTyped, AttrIs DEF Packet
    <2>12. Attr("upstream")' = Attr("upstream") /\ (LoopAddr("host")' <=> LoopAddr("host"))
           /\ Attr("host")' = Attr("host") /\ (ToItsPort("host")' <=> ToItsPort("host"))
      BY <1>1, Static
    <2>13. Fine(q)'
      BY <1>1, <1>2, <2>11, <2>12 DEF Fine, Formed, Placed, OnPath, Timed
    <2>14. Known("host")' /\ Stays("host")'
      <3>1. (OutMark("host")' <=> OutMark("host")) /\ (PreTaken("host")' <=> PreTaken("host"))
        BY <1>1, SameMarks
      <3>2. (Diverted("host")' <=> Diverted("host")) /\ (Excused("host")' <=> Excused("host"))
        BY <1>1, <2>10, <2>12, <3>1 DEF Diverted, Excused
      <3>. QED
        BY <1>1, <1>2, <2>1, <2>10, <2>12, <3>2, Here DEF Known, Stays
    <2>15. Known("upstream")' /\ Stays("upstream")'
      BY <2>10 DEF Known, Stays
    <2>16. Typed' /\ Counted' /\ Alone'
      BY <1>1, <2>1, <2>9, <2>10, <2>11 DEF Typed, Counted, Alone
    <2>17. Opened'
      BY <1>4, <2>1, <2>10, <2>12 DEF Opened
    <2>. QED
      BY <2>9, <2>13, <2>14, <2>15, <2>16, <2>17 DEF PInv, Conns
  <1>. QED
    BY <1>3, <1>4

(* An address becomes exempt, or ceases to be: only TPROXY asks again. *)
LEMMA ChangeInv ==
    ASSUME PInv, NEW ex, Change(ex)
    PROVE  PInv'
  <1>1. /\ UNCHANGED <<cfg, flow, pkt>> /\ Typed
        /\ conn' = [i \in Conns |-> IF conn[i].n > 0 THEN [conn[i] EXCEPT !.changed = TRUE] ELSE conn[i]]
    BY DEF Change, PInv
  <1>2. /\ conn' \in [Conns -> States]
        /\ \A i \in Conns : /\ conn'[i].n = conn[i].n /\ conn'[i].path = conn[i].path
                            /\ conn'[i].nat = conn[i].nat /\ conn'[i].est = conn[i].est
                            /\ conn[i].n # 0 => conn'[i].changed
                            /\ conn[i].n = 0 => ~conn'[i].changed
    <2>1. \A i \in Conns : conn'[i] = IF conn[i].n > 0 THEN [conn[i] EXCEPT !.changed = TRUE] ELSE conn[i]
      BY <1>1
    <2>2. \A i \in Conns : conn[i] \in States /\ (conn[i].n = 0 => ~conn[i].changed)
      BY DEF PInv, Typed, Known
    <2>3. \A i \in Conns : conn'[i] \in States
      BY <2>1, <2>2 DEF States
    <2>4. conn' \in [Conns -> States]
      BY <1>1, <2>1, <2>3
    <2>. QED
      BY <2>1, <2>2, <2>4 DEF States
  <1>3. Typed'
    BY <1>1, <1>2 DEF Typed
  <1>4. ASSUME NEW i \in Conns
        PROVE  /\ Attr(i)' = Attr(i) /\ (ToItsPort(i)' <=> ToItsPort(i))
               /\ LoopAddr(i)' <=> LoopAddr(i) /\ (HasIngress(i)' <=> HasIngress(i))
               /\ conn[i].n # 0 /\ cfg.mode = "TPROXY" => Excused(i)'
               /\ cfg.mode # "TPROXY" => (Diverted(i)' <=> Diverted(i))
               /\ cfg.mode # "TPROXY" => ~Excused(i)
    BY <1>1, <1>2, Static DEF Excused, Diverted
  <1>5. ASSUME NEW i \in Conns PROVE Known(i)' /\ Stays(i)'
    <2>1. Known(i) /\ Stays(i)
      BY DEF PInv
    <2>. QED
      BY <1>1, <1>2, <1>4, <2>1 DEF Known, Stays
  <1>6. ASSUME NEW p \in pkt PROVE Fine(p)'
    <2>1. /\ p.conn \in Conns /\ Fine(p) /\ conn[p.conn].n # 0
      BY Here
    <2>2. /\ Attr(p.conn)' = Attr(p.conn) /\ (HasIngress(p.conn)' <=> HasIngress(p.conn))
          /\ ToItsPort("upstream")' <=> ToItsPort("upstream")
      BY <1>1, Static
    <2>3. Formed(p)' /\ Placed(p)' /\ Timed(p)'
      BY <1>1, <1>2, <2>1, <2>2 DEF Fine, Formed, Placed, Timed
    <2>4. OnPath(p)'
      BY <1>1, <1>4, <2>1 DEF Fine, OnPath
    <2>. QED
      BY <2>3, <2>4 DEF Fine
  <1>7. Opened' /\ Counted' /\ Alone'
    <2>1. "host" \in Conns /\ "upstream" \in Conns /\ \A p \in pkt : p.conn \in Conns
      BY Here DEF Conns
    <2>. QED
      BY <1>1, <1>2, <1>4, <2>1 DEF PInv, Opened, Counted, Alone
  <1>. QED
    BY <1>1, <1>3, <1>5, <1>6, <1>7 DEF PInv

LEMMA StepInv == PInv /\ [Next]_vars => PInv'
  <1>. SUFFICES ASSUME PInv, [Next]_vars PROVE PInv'
    OBVIOUS
  <1>1. ASSUME NEW i \in Conns, NEW kind \in {"syn", "ack", "data"}, Send(i, kind) PROVE PInv'
    BY <1>1, SendInv
  <1>2. ASSUME NEW p \in pkt,
               \/ Prerouting(p) \/ Offloaded(p) \/ SynAck(p) \/ Output(p)
               \/ Postrouting(p) \/ HandleClient(p) \/ Arrive(p)
        PROVE  PInv'
    BY <1>2, PreroutingInv, OffloadedInv, SynAckInv, OutputInv, PostroutingInv, HandleClientInv,
       ArriveInv
  <1>3. ASSUME AddSkipIP \/ Expire PROVE PInv'
    BY <1>3, ChangeInv DEF AddSkipIP, Expire
  <1>4. CASE UNCHANGED vars
    <2>1. UNCHANGED <<cfg, flow, conn, exempt, pkt>>
      BY <1>4 DEF vars
    <2>2. \A p \in pkt : Fine(p)'
      BY <2>1, Kept DEF PInv
    <2>3. \A i \in Conns : Known(i)' /\ Stays(i)'
      BY <2>1, KeptConn DEF PInv
    <2>4. LoopAddr("host")' <=> LoopAddr("host")
      BY <2>1, Static
    <2>5. Typed' /\ Opened' /\ Counted' /\ Alone'
      BY <2>1, <2>4 DEF PInv, Typed, Opened, Counted, Alone
    <2>. QED
      BY <2>1, <2>2, <2>3, <2>5 DEF PInv
  <1>. QED
    BY <1>1, <1>2, <1>3, <1>4 DEF Next

LEMMA AlwaysInv == Spec => []PInv
  BY InitInv, StepInv, PTL DEF Spec

-----------------------------------------------------------------------------
(* UA3F takes none of its own connections: the rules leave what has its mark *)
(* alone, and a host's connection to the addresses UA3F listened on is       *)
(* closed before another is opened (server/base, HandleClient and loopAddrs).*)
THEOREM NoLoopEver == Spec => []NoLoop
  <1>1. PInv => NoLoop
    <2>. SUFFICES ASSUME PInv, NEW p \in pkt, p.at = "ua3f", p.conn = "upstream"
                  PROVE  /\ Attr(p.conn).port = "ua3f" /\ Attr(p.conn).peer = "selfwan"
                         /\ cfg.wanaddr = {}
      BY DEF NoLoop
    <2>1. ToItsPort("upstream") /\ flow.proto = "tcp" /\ conn["upstream"].n # 0
      BY Here DEF Fine, Placed
    <2>2. ~LoopAddr("host")
      BY <2>1 DEF PInv, Opened
    <2>3. /\ "host" \in Conns /\ "upstream" \in Conns /\ Typed
          /\ Attr("upstream").peer = Attr("host").peer /\ Attr("upstream").port = Attr("host").port
      BY Here, AttrIs DEF Conns
    <2>. QED
      BY <2>1, <2>2, <2>3, TtlTyped DEF ToItsPort, LoopAddr, Self
  <1>. QED
    BY <1>1, AlwaysInv, PTL

(* A connection leaves the path of its first packet only under TPROXY, when  *)
(* the exempt set has changed under it or a sidecar's mark has taken the     *)
(* place of UA3F's (the rules of netfilter/iptables and netfilter/nftables). *)
THEOREM NoStrayWithoutCause == Spec => []StrayHasCause
  <1>1. PInv => StrayHasCause
    <2>. SUFFICES ASSUME PInv, NEW p \in pkt, Stray(p) PROVE Excused(p.conn)
      BY DEF StrayHasCause, Excused
    <2>. QED
      BY Here DEF Fine, OnPath, Stays, Stray
  <1>. QED
    BY <1>1, AlwaysInv, PTL

(* The TTL of the configuration is on every IPv4 packet that leaves, by the  *)
(* slow path and by the offloaded one, and on no injected segment            *)
(* (rewrite/packet and the ingress chain).                                   *)
THEOREM FixedTtl == Spec => []TtlOnTheWire
  <1>1. PInv => TtlOnTheWire
    <2>. SUFFICES ASSUME PInv, NEW p \in pkt, p.at = "wire", cfg.ttl # 0, Attr(p.conn).fam = 4
                  PROVE  IF p.kind = "inject" THEN p.ttl = InjectTTL
                         ELSE \/ p.ttl = cfg.ttl
                              \/ cfg.flow /\ conn[p.conn].path = "direct" /\ Attr(p.conn).by = "client"
                                 /\ (cfg.ttl = 255 \/ Attr(p.conn).dev = "second")
      BY DEF TtlOnTheWire
    <2>. QED
      BY Here, AttrIs DEF Fine, Formed, Timed
  <1>. QED
    BY <1>1, AlwaysInv, PTL

-----------------------------------------------------------------------------
(* The rewriter's queue. *)

Rules == {"TTL", "SYN", "IP", "QUIC", "DESYNC", "UA3F"}

LEMMA WhenTyped ==
    ASSUME NEW b, NEW x \in Rules
    PROVE  /\ When(b, <<x>>) \in Seq(Rules) /\ Len(When(b, <<x>>)) \in {0, 1}
           /\ \A i \in 1..Len(When(b, <<x>>)) : When(b, <<x>>)[i] = x
  BY DEF When

LEMMA Prefix ==
    ASSUME NEW s \in Seq(Rules), NEW t \in Seq(Rules)
    PROVE  /\ s \o t \in Seq(Rules) /\ Len(s \o t) = Len(s) + Len(t)
           /\ \A i \in 1..Len(s) : (s \o t)[i] = s[i]
  OBVIOUS

LEMMA InMiddle ==
    ASSUME NEW s \in Seq(Rules), NEW t \in Seq(Rules), NEW x \in Rules
    PROVE  x \in Range(s \o <<x>> \o t)
  <1>1. s \o <<x>> \o t \in Seq(Rules) /\ Len(s \o <<x>> \o t) = Len(s) + 1 + Len(t)
    OBVIOUS
  <1>2. (s \o <<x>> \o t)[Len(s) + 1] = x /\ Len(s) + 1 \in DOMAIN (s \o <<x>> \o t)
    BY <1>1
  <1>. QED
    BY <1>2 DEF Range

(* nftables queues for the rewriter in a chain of its own. *)
LEMMA NftReaches ==
    ASSUME NEW c, NEW ex, NEW v, c.mode = "NFQUEUE", NfqueueNft(c, ex, v)
    PROVE  "UA3F" \in Range(NftQueues(c, ex, v))
  <1>1. PICK a, d, e : /\ a = When(ReorderNft(c, v), <<"DESYNC">>)
                       /\ d = When(HelperNft(c, v), <<IF c.ipid THEN "IP" ELSE "SYN">>)
                       /\ e = When(BlocksQuic(c, v), <<"QUIC">>)
    OBVIOUS
  <1>2. a \in Seq(Rules) /\ d \in Seq(Rules) /\ e \in Seq(Rules)
    <2>1. "DESYNC" \in Rules /\ "QUIC" \in Rules /\ (IF c.ipid THEN "IP" ELSE "SYN") \in Rules
      BY DEF Rules
    <2>. QED
      BY <1>1, <2>1, WhenTyped
  <1>3. NftQueues(c, ex, v) = a \o <<"UA3F">> \o (d \o e)
    <2>1. NftQueues(c, ex, v) = a \o <<"UA3F">> \o d \o e
      BY <1>1 DEF NftQueues, When
    <2>. QED
      BY <1>2, <2>1 DEF Rules
  <1>4. d \o e \in Seq(Rules) /\ "UA3F" \in Rules
    BY <1>2 DEF Rules
  <1>. QED
    BY <1>2, <1>3, <1>4, InMiddle

(* The chain of iptables without the rewriter's rule. *)
Others(c) == When(c.ttl # 0, <<"TTL">>) \o When(c.syn /\ ~c.ipid, <<"SYN">>)
             \o When(c.ipid, <<"IP">>) \o When(c.quic, <<"QUIC">>) \o When(c.reorder, <<"DESYNC">>)

(* The last queue of the chain is one that can take what is the rewriter's,  *)
(* if there is any, unless there are two of them.                            *)
LEMMA LastQueue ==
    ASSUME NEW c, ~(c.ipid /\ c.reorder)
    PROVE  /\ Others(c) \in Seq(Rules)
           /\ DetectNfqueue(Others(c)) \in 0..Len(Others(c))
           /\ \A i \in 1..Len(Others(c)) : Others(c)[i] # "UA3F"
           /\ \A i \in 1..Len(Others(c)) : Others(c)[i] \in {"IP", "DESYNC"} => DetectNfqueue(Others(c)) = i
  <1>1. PICK t, s, q : /\ t = When(c.ttl # 0, <<"TTL">>)
                       /\ s = When(c.syn /\ ~c.ipid, <<"SYN">>)
                       /\ q = When(c.quic, <<"QUIC">>)
    OBVIOUS
  <1>2. /\ t \in Seq(Rules) /\ \A i \in 1..Len(t) : t[i] = "TTL"
        /\ s \in Seq(Rules) /\ Len(s) \in {0, 1} /\ \A i \in 1..Len(s) : s[i] = "SYN"
        /\ q \in Seq(Rules) /\ \A i \in 1..Len(q) : q[i] = "QUIC"
    <2>1. "TTL" \in Rules /\ "SYN" \in Rules /\ "QUIC" \in Rules
      BY DEF Rules
    <2>. QED
      BY <1>1, <2>1, WhenTyped
  <1>3. ASSUME NEW o \in Seq(Rules), NEW m \in 0..Len(o),
               m # 0 => o[m] \in {"SYN", "IP", "DESYNC"},
               \A i \in 1..Len(o) : o[i] \in {"SYN", "IP", "DESYNC"} => i <= m
        PROVE  DetectNfqueue(o) = m
    <2>1. PICK S : S = {0} \cup {i \in DOMAIN o : o[i] \in {"SYN", "IP", "DESYNC"}}
      OBVIOUS
    <2>2. m \in S /\ S \subseteq Nat /\ \A y \in S : m >= y
      BY <1>3, <2>1
    <2>3. Max(S) = m
      <3>1. \E x \in S : \A y \in S : x >= y
        BY <2>2
      <3>2. Max(S) \in S /\ \A y \in S : Max(S) >= y
        BY <3>1, Zenon DEF Max
      <3>3. PICK x : x = Max(S)
        OBVIOUS
      <3>4. x \in Nat /\ m \in Nat /\ x >= m /\ m >= x
        BY <2>2, <3>2, <3>3
      <3>. QED
        BY <3>3, <3>4
    <2>. QED
      BY <2>1, <2>3 DEF DetectNfqueue
  <1>4. CASE c.ipid
    <2>1. Others(c) = t \o <<"IP">> \o q
      BY <1>1, <1>2, <1>4 DEF Others, When
    <2>2. /\ Others(c) \in Seq(Rules) /\ Len(Others(c)) = Len(t) + 1 + Len(q)
          /\ Others(c)[Len(t) + 1] = "IP"
          /\ \A i \in 1..Len(Others(c)) : i # Len(t) + 1 => Others(c)[i] \in {"TTL", "QUIC"}
      BY <1>2, <2>1 DEF Rules
    <2>3. DetectNfqueue(Others(c)) = Len(t) + 1
      <3>1. PICK o, m : o = Others(c) /\ m = Len(t) + 1
        OBVIOUS
      <3>2. /\ o \in Seq(Rules) /\ m \in 0..Len(o) /\ o[m] = "IP"
            /\ \A i \in 1..Len(o) : o[i] \in {"SYN", "IP", "DESYNC"} => i <= m
        BY <1>2, <2>2, <3>1
      <3>3. DetectNfqueue(o) = m
        BY <1>3, <3>2
      <3>. QED
        BY <3>1, <3>3
    <2>4. \A i \in 1..Len(Others(c)) : Others(c)[i] \in {"TTL", "QUIC", "IP"}
      BY <2>2
    <2>5. \A i \in 1..Len(Others(c)) : Others(c)[i] \in {"IP", "DESYNC"} => i = Len(t) + 1
      BY <2>2
    <2>6. Len(t) + 1 \in 0..Len(Others(c))
      BY <1>2, <2>2
    <2>7. \A i \in 1..Len(Others(c)) : Others(c)[i] # "UA3F"
      BY <2>4
    <2>. QED
      BY <2>2, <2>3, <2>5, <2>6, <2>7
  <1>5. CASE ~c.ipid /\ c.reorder
    <2>1. Others(c) = t \o s \o q \o <<"DESYNC">>
      BY <1>1, <1>2, <1>5 DEF Others, When
    <2>2. /\ Others(c) \in Seq(Rules) /\ Len(Others(c)) = Len(t) + Len(s) + Len(q) + 1
          /\ Others(c)[Len(Others(c))] = "DESYNC"
          /\ \A i \in 1..Len(Others(c)) : i # Len(Others(c)) => Others(c)[i] \in {"TTL", "SYN", "QUIC"}
      BY <1>2, <2>1 DEF Rules
    <2>3. DetectNfqueue(Others(c)) = Len(Others(c))
      <3>1. PICK o, m : o = Others(c) /\ m = Len(o)
        OBVIOUS
      <3>2. /\ o \in Seq(Rules) /\ m \in 0..Len(o) /\ o[m] = "DESYNC"
            /\ \A i \in 1..Len(o) : o[i] \in {"SYN", "IP", "DESYNC"} => i <= m
        BY <1>2, <2>2, <3>1
      <3>3. DetectNfqueue(o) = m
        BY <1>3, <3>2
      <3>. QED
        BY <3>1, <3>3
    <2>. QED
      BY <1>2, <2>2, <2>3
  <1>6. CASE ~c.ipid /\ ~c.reorder
    <2>1. Others(c) = t \o s \o q
      BY <1>1, <1>2, <1>6 DEF Others, When
    <2>2. /\ Others(c) \in Seq(Rules) /\ Len(Others(c)) = Len(t) + Len(s) + Len(q)
          /\ \A i \in 1..Len(Others(c)) :
                Others(c)[i] = IF i <= Len(t) THEN "TTL" ELSE IF i <= Len(t) + Len(s) THEN "SYN" ELSE "QUIC"
      BY <1>2, <2>1 DEF Rules
    <2>3. PICK o, m : o = Others(c) /\ m = IF Len(s) = 1 THEN Len(t) + 1 ELSE 0
      OBVIOUS
    <2>4. /\ o \in Seq(Rules) /\ m \in 0..Len(o) /\ (m # 0 => o[m] = "SYN")
          /\ \A i \in 1..Len(o) : o[i] \in {"SYN", "IP", "DESYNC"} => i <= m
          /\ \A i \in 1..Len(o) : o[i] \notin {"IP", "DESYNC", "UA3F"}
      <3>1. Len(t) \in Nat /\ Len(q) \in Nat /\ Len(o) = Len(t) + Len(s) + Len(q) /\ o \in Seq(Rules)
        BY <1>2, <2>2, <2>3
      <3>2. CASE Len(s) = 1
        <4>1. m = Len(t) + 1 /\ m \in 1..Len(o)
          BY <2>3, <3>1, <3>2
        <4>2. o[m] = "SYN"
          BY <2>2, <2>3, <3>1, <3>2, <4>1
        <4>3. \A i \in 1..Len(o) : (o[i] = "SYN" => i <= m) /\ o[i] \in {"TTL", "SYN", "QUIC"}
          BY <2>2, <2>3, <3>1, <3>2, <4>1
        <4>. QED
          BY <3>1, <4>1, <4>2, <4>3
      <3>3. CASE Len(s) = 0
        <4>1. m = 0
          BY <2>3, <3>3
        <4>2. \A i \in 1..Len(o) : o[i] \in {"TTL", "QUIC"}
          BY <2>2, <2>3, <3>1, <3>3
        <4>. QED
          BY <3>1, <4>1, <4>2
      <3>. QED
        BY <1>2, <3>2, <3>3
    <2>5. DetectNfqueue(o) = m
      BY <1>3, <2>4
    <2>. QED
      BY <2>3, <2>4, <2>5
  <1>. QED
    BY <1>4, <1>5, <1>6

(* iptables has one chain, and a packet gets to its first queue only. *)
LEMMA IptReaches ==
    ASSUME NEW c, NEW ex, NEW v, c.mode = "NFQUEUE", ~(c.ipid /\ c.reorder), NfqueueIpt(c, ex, v),
           v.proto = "tcp", v.kind \notin {"syn", "synack"}
    PROVE  "UA3F" \in Range(IptQueues(c, ex, v))
  <1>1. PICK o, last, chain : o = Others(c) /\ last = DetectNfqueue(o) /\ chain = IptPostrouting(c)
    OBVIOUS
  <1>2. /\ o \in Seq(Rules) /\ last \in 0..Len(o)
        /\ \A i \in 1..Len(o) : o[i] # "UA3F" /\ (o[i] \in {"IP", "DESYNC"} => last = i)
    BY <1>1, LastQueue
  <1>3. chain = IF last = 0 THEN Append(o, "UA3F") ELSE InsertAt(o, last, "UA3F")
    BY <1>1 DEF IptPostrouting, Others
  <1>4. PICK k : k = IF last = 0 THEN Len(o) + 1 ELSE last
    OBVIOUS
  <1>5. /\ chain \in Seq(Rules) /\ k \in 1..Len(chain) /\ chain[k] = "UA3F"
        /\ \A i \in 1..Len(chain) : i < k => i \in 1..Len(o) /\ chain[i] = o[i] /\ i # last
    <2>1. CASE last = 0
      BY <1>2, <1>3, <1>4, <2>1 DEF Rules
    <2>2. CASE last # 0
      <3>1. chain = SubSeq(o, 1, last - 1) \o <<"UA3F">> \o SubSeq(o, last, Len(o)) /\ last \in 1..Len(o)
        BY <1>2, <1>3, <2>2 DEF InsertAt
      <3>2. PICK a, b : a = SubSeq(o, 1, last - 1) /\ b = SubSeq(o, last, Len(o))
        OBVIOUS
      <3>3. /\ a \in Seq(Rules) /\ Len(a) = last - 1 /\ \A i \in 1..last - 1 : a[i] = o[i]
            /\ b \in Seq(Rules)
        BY <1>2, <3>1, <3>2
      <3>4. /\ chain \in Seq(Rules) /\ Len(chain) = last + Len(b) /\ chain[last] = "UA3F"
            /\ \A i \in 1..last - 1 : chain[i] = a[i]
        <4>1. chain = a \o <<"UA3F">> \o b /\ <<"UA3F">> \in Seq(Rules) /\ last \in Nat
          BY <1>2, <3>1, <3>2 DEF Rules
        <4>2. /\ a \o <<"UA3F">> \in Seq(Rules) /\ Len(a \o <<"UA3F">>) = last
              /\ (a \o <<"UA3F">>)[last] = "UA3F"
              /\ \A i \in 1..last - 1 : (a \o <<"UA3F">>)[i] = a[i]
          BY <3>3, <4>1
        <4>3. PICK ab : ab = a \o <<"UA3F">>
          OBVIOUS
        <4>4. /\ chain \in Seq(Rules) /\ Len(chain) = last + Len(b)
              /\ \A i \in 1..last : chain[i] = ab[i]
          <5>1. chain = ab \o b /\ ab \in Seq(Rules) /\ b \in Seq(Rules) /\ Len(ab) = last
            BY <3>3, <4>1, <4>2, <4>3
          <5>2. /\ ab \o b \in Seq(Rules) /\ Len(ab \o b) = Len(ab) + Len(b)
                /\ \A i \in 1..Len(ab) : (ab \o b)[i] = ab[i]
            BY <5>1, Prefix
          <5>. QED
            BY <5>1, <5>2
        <4>5. last \in 1..last /\ 1..last - 1 \subseteq 1..last
          BY <3>1
        <4>. QED
          BY <4>2, <4>3, <4>4, <4>5
      <3>. QED
        BY <1>2, <1>4, <2>2, <3>1, <3>3, <3>4
    <2>. QED
      BY <2>1, <2>2
  <1>6. PICK I : I = {i \in 1..Len(chain) : IptTakes(chain[i], c, ex, v)}
    OBVIOUS
  <1>7. k \in I
    <2>1. IptTakes("UA3F", c, ex, v)
      BY DEF IptTakes, NfqueueIpt
    <2>. QED
      BY <1>5, <1>6, <2>1
  <1>8. \A i \in I : k <= i
    <2>1. \A r \in {"TTL", "SYN", "QUIC", "UA3F"} : r = "UA3F" \/ ~IptTakes(r, c, ex, v)
      BY DEF IptTakes, HookSyn, BlocksQuic
    <2>2. ASSUME NEW i \in 1..Len(chain), i < k PROVE ~IptTakes(chain[i], c, ex, v)
      <3>1. i \in 1..Len(o) /\ chain[i] = o[i] /\ i # last
        BY <1>5, <2>2
      <3>2. o[i] \in Rules \ {"IP", "DESYNC", "UA3F"}
        BY <1>2, <3>1 DEF Rules
      <3>. QED
        BY <2>1, <3>1, <3>2 DEF Rules
    <2>3. \A i \in I : i \in 1..Len(chain) /\ ~(i < k)
      BY <1>6, <2>2
    <2>4. k \in Nat /\ Len(chain) \in Nat
      BY <1>5
    <2>. QED
      BY <2>3, <2>4
  <1>9. Min(I) = k
    <2>1. \E x \in I : \A y \in I : x =< y
      BY <1>7, <1>8
    <2>2. PICK x : x = Min(I)
      OBVIOUS
    <2>3. x \in I /\ \A y \in I : x =< y
      BY <2>1, <2>2, Zenon DEF Min
    <2>4. x <= k /\ k <= x /\ x \in Nat /\ k \in Nat
      BY <1>6, <1>7, <1>8, <2>3
    <2>. QED
      BY <2>2, <2>4
  <1>10. IptQueues(c, ex, v) = <<chain[k]>>
    <2>1. SelectInSeq(chain, LAMBDA r : IptTakes(r, c, ex, v)) = k
      BY <1>6, <1>7, <1>9 DEF SelectInSeq
    <2>2. k # 0
      BY <1>5
    <2>. QED
      BY <1>1, <2>1, <2>2 DEF IptQueues
  <1>. QED
    BY <1>5, <1>10 DEF Range

(* In NFQUEUE mode the rewriter's queue gets every packet with a payload it  *)
(* is there for, in whatever order the servers were set up; without @ih and  *)
(* under iptables it misses IPv6, and under iptables a helper that queues    *)
(* every packet goes first where a reorder chain follows.                    *)
THEOREM RewriterReached == Spec => []RewriteReached
  <1>1. ASSUME PInv, NEW p \in pkt, cfg.mode = "NFQUEUE", Eligible(View(p)),
               ~(Attr(p.conn).fam = 6 /\ ~(cfg.nft /\ cfg.ih)), ~(~cfg.nft /\ cfg.ipid /\ cfg.reorder)
        PROVE  "UA3F" \in Range(Queues(cfg, exempt, View(p)))
    <2>1. PICK v : v = View(p)
      OBVIOUS
    <2>2. /\ v.fam \in {4, 6} /\ v.fam = Attr(p.conn).fam /\ v.kind = p.kind /\ v.mark = p.mark
      <3>1. v.fam = Attr(p.conn).fam /\ v.kind = p.kind /\ v.mark = p.mark
        BY <2>1 DEF View
      <3>2. Typed /\ p.conn \in Conns
        BY <1>1, Here
      <3>3. Attr(p.conn).fam \in {4, 6}
        BY <3>2, AttrIs
      <3>. QED
        BY <3>1, <3>3
    <2>3. v.mark # "inject"
      BY <1>1, <2>1, <2>2, Here, AttrIs DEF Fine, Formed, Eligible
    <2>4. /\ v.proto = "tcp" /\ v.kind = "data" /\ v.est /\ Payload(v) /\ LongerThan40(v)
          /\ ~IgnoreNotTCP(v) /\ ~NfqueueIgnored(cfg, exempt, v)
      BY <1>1, <2>1, <2>3
      DEF Eligible, Payload, LongerThan40, IgnoreNotTCP, NfqueueIgnored, IgnoreReply, IgnoreIP, IgnorePorts
    <2>5. CASE cfg.nft
      BY <1>1, <2>1, <2>2, <2>4, <2>5, NftReaches DEF NfqueueNft, Queues
    <2>6. CASE ~cfg.nft
      BY <1>1, <2>1, <2>2, <2>4, <2>6, IptReaches DEF NfqueueIpt, Queues
    <2>. QED
      BY <2>5, <2>6
  <1>2. PInv => RewriteReached
    BY <1>1, Zenon DEF RewriteReached
  <1>. QED
    BY <1>2, AlwaysInv, PTL

-----------------------------------------------------------------------------
(* The queues of the two backends. *)

LEMMA RangeOfWhen ==
    ASSUME NEW b \in BOOLEAN, NEW x
    PROVE  Range(When(b, <<x>>)) = IF b THEN {x} ELSE {}
  BY DEF Range, When

LEMMA RangeOfJoin ==
    ASSUME NEW s \in Seq(Rules), NEW t \in Seq(Rules)
    PROVE  Range(s \o t) = Range(s) \cup Range(t)
  <1>1. /\ DOMAIN (s \o t) = 1..Len(s) + Len(t) /\ DOMAIN s = 1..Len(s) /\ DOMAIN t = 1..Len(t)
        /\ Len(s) \in Nat /\ Len(t) \in Nat
        /\ \A i \in 1..Len(s) + Len(t) : (s \o t)[i] = IF i <= Len(s) THEN s[i] ELSE t[i - Len(s)]
    OBVIOUS
  <1>2. Range(s \o t) \subseteq Range(s) \cup Range(t)
    BY <1>1 DEF Range
  <1>3. \A i \in 1..Len(t) : i + Len(s) \in 1..Len(s) + Len(t) /\ (s \o t)[i + Len(s)] = t[i]
    BY <1>1
  <1>4. \A i \in 1..Len(s) : i \in 1..Len(s) + Len(t) /\ (s \o t)[i] = s[i]
    BY <1>1
  <1>5. ASSUME NEW x \in Range(s) PROVE x \in Range(s \o t)
    <2>1. PICK i \in 1..Len(s) : x = s[i]
      BY <1>1 DEF Range
    <2>. QED
      BY <1>1, <1>4, <2>1, Zenon DEF Range
  <1>6. ASSUME NEW x \in Range(t) PROVE x \in Range(s \o t)
    <2>1. PICK i \in 1..Len(t) : x = t[i]
      BY <1>1 DEF Range
    <2>2. PICK k : k = i + Len(s)
      OBVIOUS
    <2>3. k \in DOMAIN (s \o t) /\ (s \o t)[k] = x
      BY <1>1, <1>3, <2>1, <2>2
    <2>. QED
      BY <2>3, Zenon DEF Range
  <1>. QED
    BY <1>2, <1>5, <1>6

(* A chain has at most six rules, so a set of its places has its least and
   its greatest.                                                           *)
LEMMA LeastPlace ==
    ASSUME NEW I \in SUBSET (1..6), I # {}
    PROVE  Min(I) \in I /\ \A y \in I : Min(I) <= y
  <1>1. \E x \in I : \A y \in I : x <= y
    <2>1. \A y \in I : y \in {1, 2, 3, 4, 5, 6}
      OBVIOUS
    <2>2. CASE 1 \in I
      BY <2>1, <2>2
    <2>3. CASE 1 \notin I /\ 2 \in I
      BY <2>1, <2>3
    <2>4. CASE 1 \notin I /\ 2 \notin I /\ 3 \in I
      BY <2>1, <2>4
    <2>5. CASE 1 \notin I /\ 2 \notin I /\ 3 \notin I /\ 4 \in I
      BY <2>1, <2>5
    <2>6. CASE 1 \notin I /\ 2 \notin I /\ 3 \notin I /\ 4 \notin I /\ 5 \in I
      BY <2>1, <2>6
    <2>7. CASE 1 \notin I /\ 2 \notin I /\ 3 \notin I /\ 4 \notin I /\ 5 \notin I
      <3>1. \A y \in I : y = 6
        BY <2>1, <2>7
      <3>2. 6 \in I
        BY <3>1
      <3>. QED
        BY <3>1, <3>2
    <2>. QED
      BY <2>2, <2>3, <2>4, <2>5, <2>6, <2>7
  <1>. QED
    BY <1>1, Zenon DEF Min

LEMMA GreatestPlace ==
    ASSUME NEW S \in SUBSET (0..5), S # {}
    PROVE  Max(S) \in S /\ \A y \in S : Max(S) >= y
  <1>1. \E x \in S : \A y \in S : x >= y
    <2>1. \A y \in S : y \in {0, 1, 2, 3, 4, 5}
      OBVIOUS
    <2>2. CASE 5 \in S
      BY <2>1, <2>2
    <2>3. CASE 5 \notin S /\ 4 \in S
      BY <2>1, <2>3
    <2>4. CASE 5 \notin S /\ 4 \notin S /\ 3 \in S
      BY <2>1, <2>4
    <2>5. CASE 5 \notin S /\ 4 \notin S /\ 3 \notin S /\ 2 \in S
      BY <2>1, <2>5
    <2>6. CASE 5 \notin S /\ 4 \notin S /\ 3 \notin S /\ 2 \notin S /\ 1 \in S
      BY <2>1, <2>6
    <2>7. CASE 5 \notin S /\ 4 \notin S /\ 3 \notin S /\ 2 \notin S /\ 1 \notin S
      <3>1. \A y \in S : y = 0
        BY <2>1, <2>7
      <3>2. 0 \in S
        BY <3>1
      <3>. QED
        BY <3>1, <3>2
    <2>. QED
      BY <2>2, <2>3, <2>4, <2>5, <2>6, <2>7
  <1>. QED
    BY <1>1, Zenon DEF Max

LEMMA NftHas ==
    ASSUME NEW c, NEW ex, NEW v, (c.mode = "NFQUEUE") \in BOOLEAN,
           ReorderNft(c, v) \in BOOLEAN, NfqueueNft(c, ex, v) \in BOOLEAN,
           HelperNft(c, v) \in BOOLEAN, BlocksQuic(c, v) \in BOOLEAN
    PROVE  Range(NftQueues(c, ex, v)) =
               {q \in Rules : \/ q = "DESYNC" /\ ReorderNft(c, v)
                              \/ q = "UA3F" /\ c.mode = "NFQUEUE" /\ NfqueueNft(c, ex, v)
                              \/ q = "IP" /\ c.ipid /\ HelperNft(c, v)
                              \/ q = "SYN" /\ ~c.ipid /\ HelperNft(c, v)
                              \/ q = "QUIC" /\ BlocksQuic(c, v)}
  <1>1. PICK a, u, d, e, x : /\ a = When(ReorderNft(c, v), <<"DESYNC">>)
                             /\ u = When(c.mode = "NFQUEUE" /\ NfqueueNft(c, ex, v), <<"UA3F">>)
                             /\ x = IF c.ipid THEN "IP" ELSE "SYN"
                             /\ d = When(HelperNft(c, v), <<x>>)
                             /\ e = When(BlocksQuic(c, v), <<"QUIC">>)
    OBVIOUS
  <1>2. a \in Seq(Rules) /\ u \in Seq(Rules) /\ d \in Seq(Rules) /\ e \in Seq(Rules)
    <2>1. "DESYNC" \in Rules /\ "QUIC" \in Rules /\ "UA3F" \in Rules /\ x \in Rules
      BY <1>1 DEF Rules
    <2>. QED
      BY <1>1, <2>1, WhenTyped
  <1>3. NftQueues(c, ex, v) = a \o u \o d \o e
    BY <1>1 DEF NftQueues
  <1>4. Range(a \o u \o d \o e) = Range(a) \cup Range(u) \cup Range(d) \cup Range(e)
    <2>1. a \o u \in Seq(Rules) /\ (a \o u) \o d \in Seq(Rules)
      BY <1>2
    <2>2. Range(a \o u) = Range(a) \cup Range(u)
      BY <1>2, RangeOfJoin
    <2>3. Range((a \o u) \o d) = Range(a \o u) \cup Range(d)
      BY <1>2, <2>1, RangeOfJoin
    <2>4. Range(((a \o u) \o d) \o e) = Range((a \o u) \o d) \cup Range(e)
      BY <1>2, <2>1, RangeOfJoin
    <2>. QED
      BY <2>2, <2>3, <2>4
  <1>5. /\ Range(a) = IF ReorderNft(c, v) THEN {"DESYNC"} ELSE {}
        /\ Range(u) = IF c.mode = "NFQUEUE" /\ NfqueueNft(c, ex, v) THEN {"UA3F"} ELSE {}
        /\ Range(d) = IF HelperNft(c, v) THEN {x} ELSE {}
        /\ Range(e) = IF BlocksQuic(c, v) THEN {"QUIC"} ELSE {}
    BY <1>1, RangeOfWhen
  <1>. QED
    <2>1. x \in {"IP", "SYN"} /\ (x = "IP" <=> c.ipid)
      BY <1>1
    <2>2. PICK N : N = Range(a) \cup Range(u) \cup Range(d) \cup Range(e)
      OBVIOUS
    <2>3. N \subseteq Rules
      BY <1>5, <2>1, <2>2 DEF Rules
    <2>4. /\ "DESYNC" \in N <=> ReorderNft(c, v)
          /\ "UA3F" \in N <=> c.mode = "NFQUEUE" /\ NfqueueNft(c, ex, v)
          /\ "QUIC" \in N <=> BlocksQuic(c, v)
      BY <1>5, <2>1, <2>2
    <2>5. /\ "IP" \in N <=> c.ipid /\ HelperNft(c, v)
          /\ "SYN" \in N <=> ~c.ipid /\ HelperNft(c, v)
          /\ "TTL" \notin N
      BY <1>5, <2>1, <2>2
    <2>. QED
      BY <1>3, <1>4, <2>2, <2>3, <2>4, <2>5 DEF Rules

Switches(c) == /\ c.syn \in BOOLEAN /\ c.ipid \in BOOLEAN /\ c.quic \in BOOLEAN /\ c.reorder \in BOOLEAN
               /\ c.ih \in BOOLEAN /\ c.ports \in BOOLEAN

(* Which rules iptables has, and that the rewriter's goes between them. *)
InChain(c, r) ==
    \/ r = "TTL" /\ c.ttl # 0
    \/ r = "SYN" /\ c.syn /\ ~c.ipid
    \/ r = "IP" /\ c.ipid
    \/ r = "QUIC" /\ c.quic
    \/ r = "DESYNC" /\ c.reorder
    \/ r = "UA3F" /\ c.mode = "NFQUEUE"

LEMMA OthersAre ==
    ASSUME NEW c, Switches(c)
    PROVE  /\ Others(c) \in Seq(Rules) /\ Len(Others(c)) \in 0..5
           /\ Range(Others(c)) = {r \in Rules \ {"UA3F"} : InChain(c, r)}
           /\ DetectNfqueue(Others(c)) \in 0..Len(Others(c))
           /\ \A i \in 1..Len(Others(c)) :
                 Others(c)[i] \in {"SYN", "IP", "DESYNC"} => i <= DetectNfqueue(Others(c))
  <1>1. PICK t, y, i, q, d : /\ t = When(c.ttl # 0, <<"TTL">>)
                             /\ y = When(c.syn /\ ~c.ipid, <<"SYN">>)
                             /\ i = When(c.ipid, <<"IP">>)
                             /\ q = When(c.quic, <<"QUIC">>)
                             /\ d = When(c.reorder, <<"DESYNC">>)
    OBVIOUS
  <1>2. /\ t \in Seq(Rules) /\ Len(t) \in {0, 1} /\ y \in Seq(Rules) /\ Len(y) \in {0, 1}
        /\ i \in Seq(Rules) /\ Len(i) \in {0, 1} /\ q \in Seq(Rules) /\ Len(q) \in {0, 1}
        /\ d \in Seq(Rules) /\ Len(d) \in {0, 1}
    <2>1. "TTL" \in Rules /\ "SYN" \in Rules /\ "IP" \in Rules /\ "QUIC" \in Rules /\ "DESYNC" \in Rules
      BY DEF Rules
    <2>. QED
      BY <1>1, <2>1, WhenTyped
  <1>3. /\ Range(t) = IF c.ttl # 0 THEN {"TTL"} ELSE {}
        /\ Range(y) = IF c.syn /\ ~c.ipid THEN {"SYN"} ELSE {}
        /\ Range(i) = IF c.ipid THEN {"IP"} ELSE {}
        /\ Range(q) = IF c.quic THEN {"QUIC"} ELSE {}
        /\ Range(d) = IF c.reorder THEN {"DESYNC"} ELSE {}
    BY <1>1, RangeOfWhen DEF Switches
  <1>4. PICK ty, tyi, tyiq, o : ty = t \o y /\ tyi = ty \o i /\ tyiq = tyi \o q /\ o = tyiq \o d
    OBVIOUS
  <1>5. o = Others(c)
    BY <1>1, <1>4 DEF Others
  <1>6. /\ ty \in Seq(Rules) /\ Len(ty) = Len(t) + Len(y) /\ Range(ty) = Range(t) \cup Range(y)
        /\ tyi \in Seq(Rules) /\ Len(tyi) = Len(ty) + Len(i) /\ Range(tyi) = Range(ty) \cup Range(i)
    <2>1. ty \in Seq(Rules) /\ Len(ty) = Len(t) + Len(y) /\ Range(ty) = Range(t) \cup Range(y)
      BY <1>2, <1>4, Prefix, RangeOfJoin
    <2>. QED
      BY <1>2, <1>4, <2>1, Prefix, RangeOfJoin
  <1>7. /\ tyiq \in Seq(Rules) /\ Len(tyiq) = Len(tyi) + Len(q) /\ Range(tyiq) = Range(tyi) \cup Range(q)
        /\ o \in Seq(Rules) /\ Len(o) = Len(tyiq) + Len(d) /\ Range(o) = Range(tyiq) \cup Range(d)
    <2>1. /\ tyiq \in Seq(Rules) /\ Len(tyiq) = Len(tyi) + Len(q)
          /\ Range(tyiq) = Range(tyi) \cup Range(q)
      BY <1>2, <1>4, <1>6, Prefix, RangeOfJoin
    <2>. QED
      BY <1>2, <1>4, <2>1, Prefix, RangeOfJoin
  <1>8. Len(o) \in 0..5
    <2>1. PICK lt, ly, li, lq, ld : /\ lt = Len(t) /\ ly = Len(y) /\ li = Len(i) /\ lq = Len(q)
                                    /\ ld = Len(d)
      OBVIOUS
    <2>2. /\ lt \in 0..1 /\ ly \in 0..1 /\ li \in 0..1 /\ lq \in 0..1 /\ ld \in 0..1
      BY <1>2, <2>1
    <2>3. Len(o) = (((lt + ly) + li) + lq) + ld
      BY <1>6, <1>7, <2>1
    <2>. QED
      BY <2>2, <2>3
  <1>9. Range(o) = {r \in Rules \ {"UA3F"} : InChain(c, r)}
    <2>1. Range(o) = Range(t) \cup Range(y) \cup Range(i) \cup Range(q) \cup Range(d)
      BY <1>6, <1>7
    <2>2. ASSUME NEW r PROVE r \in Range(o) <=> r \in Rules \ {"UA3F"} /\ InChain(c, r)
      <3>1. /\ r \in Range(t) <=> r = "TTL" /\ c.ttl # 0
            /\ r \in Range(y) <=> r = "SYN" /\ c.syn /\ ~c.ipid
            /\ r \in Range(i) <=> r = "IP" /\ c.ipid
            /\ r \in Range(q) <=> r = "QUIC" /\ c.quic
            /\ r \in Range(d) <=> r = "DESYNC" /\ c.reorder
        BY <1>3
      <3>2. r \in Range(o) <=> \/ r \in Range(t) \/ r \in Range(y) \/ r \in Range(i)
                             \/ r \in Range(q) \/ r \in Range(d)
        BY <2>1
      <3>3. r \in Range(o) => r \in Rules \ {"UA3F"} /\ InChain(c, r)
        <4>1. r \in Range(o) => r \in Rules \ {"UA3F"}
          BY <3>1, <3>2 DEF Rules
        <4>2. r \in Range(o) => InChain(c, r)
          BY <3>1, <3>2 DEF InChain
        <4>. QED
          BY <4>1, <4>2
      <3>4. r \in Rules \ {"UA3F"} /\ InChain(c, r) => r \in Range(o)
        BY <3>1, <3>2, Zenon DEF InChain, Rules
      <3>. QED
        BY <3>3, <3>4
    <2>. QED
      BY <2>2
  <1>10. PICK S : S = {0} \cup {k \in DOMAIN o : o[k] \in {"SYN", "IP", "DESYNC"}}
    OBVIOUS
  <1>11. S \in SUBSET (0..5) /\ S \subseteq 0..Len(o) /\ S # {}
    BY <1>7, <1>8, <1>10
  <1>12. Max(S) \in S /\ \A k \in S : Max(S) >= k
    BY <1>11, GreatestPlace
  <1>13. DetectNfqueue(o) = Max(S)
    BY <1>10 DEF DetectNfqueue
  <1>14. \A k \in 1..Len(o) : o[k] \in {"SYN", "IP", "DESYNC"} => k <= DetectNfqueue(o)
    <2>. SUFFICES ASSUME NEW k \in 1..Len(o), o[k] \in {"SYN", "IP", "DESYNC"} PROVE k <= DetectNfqueue(o)
      OBVIOUS
    <2>1. k \in S
      BY <1>7, <1>10
    <2>2. PICK m : m = Max(S)
      OBVIOUS
    <2>3. m \in S /\ m >= k
      BY <1>12, <2>1, <2>2
    <2>4. m \in Int /\ k \in Int
      BY <1>11, <2>3
    <2>5. k <= m
      BY <2>3, <2>4
    <2>. QED
      BY <1>13, <2>2, <2>5
  <1>. QED
    BY <1>5, <1>7, <1>8, <1>9, <1>11, <1>12, <1>13, <1>14

(* The chain of iptables has these rules and no others. *)
LEMMA IptChain ==
    ASSUME NEW c, Switches(c)
    PROVE  /\ IptPostrouting(c) \in Seq(Rules) /\ Len(IptPostrouting(c)) \in 0..6
           /\ \A r : r \in Range(IptPostrouting(c)) <=> r \in Rules /\ InChain(c, r)
  <1>1. PICK o, last, chain : o = Others(c) /\ last = DetectNfqueue(o) /\ chain = IptPostrouting(c)
    OBVIOUS
  <1>2. /\ o \in Seq(Rules) /\ Len(o) \in 0..5 /\ last \in 0..Len(o)
        /\ \A r : r \in Range(o) <=> r \in Rules \ {"UA3F"} /\ InChain(c, r)
    BY <1>1, OthersAre
  <1>3. chain = IF c.mode # "NFQUEUE" THEN o
                ELSE IF last = 0 THEN Append(o, "UA3F") ELSE InsertAt(o, last, "UA3F")
    BY <1>1 DEF IptPostrouting, Others
  <1>4. <<"UA3F">> \in Seq(Rules) /\ Len(<<"UA3F">>) = 1 /\ Range(<<"UA3F">>) = {"UA3F"}
    BY DEF Rules, Range
  <1>5. "UA3F" \in Rules /\ (InChain(c, "UA3F") <=> c.mode = "NFQUEUE")
    BY DEF Rules, InChain
  <1>6. CASE c.mode # "NFQUEUE"
    <2>1. chain = o
      BY <1>3, <1>6
    <2>2. ~InChain(c, "UA3F")
      BY <1>5, <1>6
    <2>. QED
      BY <1>1, <1>2, <2>1, <2>2
  <1>7. ASSUME c.mode = "NFQUEUE", chain \in Seq(Rules), Len(chain) = Len(o) + 1,
               Range(chain) = Range(o) \cup {"UA3F"}
        PROVE  /\ chain \in Seq(Rules) /\ Len(chain) \in 0..6
               /\ \A r : r \in Range(chain) <=> r \in Rules /\ InChain(c, r)
    <2>1. Len(chain) \in 0..6
      <3>1. PICK m : m = Len(o)
        OBVIOUS
      <3>2. m \in 0..5 /\ Len(chain) = m + 1
        BY <1>2, <1>7, <3>1
      <3>. QED
        BY <3>2
    <2>2. ASSUME NEW r PROVE r \in Range(chain) <=> r \in Rules /\ InChain(c, r)
      <3>1. CASE r = "UA3F"
        BY <1>5, <1>7, <3>1
      <3>2. CASE r # "UA3F"
        BY <1>2, <1>7, <3>2
      <3>. QED
        BY <3>1, <3>2
    <2>. QED
      BY <1>7, <2>1, <2>2
  <1>8. CASE c.mode = "NFQUEUE" /\ last = 0
    <2>1. chain = o \o <<"UA3F">>
      BY <1>2, <1>3, <1>5, <1>8
    <2>2. chain \in Seq(Rules) /\ Len(chain) = Len(o) + 1
      BY <1>2, <1>4, <2>1, Prefix
    <2>3. Range(chain) = Range(o) \cup {"UA3F"}
      BY <1>2, <1>4, <2>1, RangeOfJoin
    <2>. QED
      BY <1>1, <1>7, <1>8, <2>2, <2>3
  <1>9. CASE c.mode = "NFQUEUE" /\ last # 0
    <2>1. PICK a, b, ab : a = SubSeq(o, 1, last - 1) /\ b = SubSeq(o, last, Len(o))
                          /\ ab = a \o <<"UA3F">>
      OBVIOUS
    <2>2. /\ a \in Seq(Rules) /\ Len(a) = last - 1 /\ \A i \in 1..last - 1 : a[i] = o[i]
          /\ b \in Seq(Rules) /\ Len(b) = Len(o) - last + 1
          /\ \A i \in 1..Len(b) : b[i] = o[last + i - 1]
      <3>1. last \in 1..Len(o) /\ Len(o) \in Nat /\ last - 1 \in 0..Len(o)
        BY <1>2, <1>9
      <3>2. a \in Seq(Rules) /\ Len(a) = last - 1 /\ \A i \in 1..last - 1 : a[i] = o[i]
        BY <1>2, <2>1, <3>1
      <3>3. b \in Seq(Rules) /\ Len(b) = Len(o) - last + 1
        BY <1>2, <2>1, <3>1
      <3>4. \A i \in 1..(Len(o) - last + 1) : b[i] = o[last + i - 1]
        BY <1>2, <2>1, <3>1
      <3>. QED
        BY <3>2, <3>3, <3>4
    <2>3. Range(a) \cup Range(b) = Range(o)
      <3>1. /\ DOMAIN a = 1..last - 1 /\ DOMAIN b = 1..(Len(o) - last + 1) /\ DOMAIN o = 1..Len(o)
            /\ last \in 1..Len(o) /\ Len(o) \in Nat
        BY <1>2, <1>9, <2>2
      <3>2. ASSUME NEW k \in 1..Len(o) PROVE o[k] \in Range(a) \cup Range(b)
        <4>1. CASE k < last
          <5>1. k \in 1..last - 1 /\ a[k] = o[k]
            BY <2>2, <3>1, <4>1
          <5>. QED
            BY <3>1, <5>1 DEF Range
        <4>2. CASE ~(k < last)
          <5>1. PICK j : j = k - last + 1
            OBVIOUS
          <5>2. j \in 1..(Len(o) - last + 1) /\ last + j - 1 = k
            BY <3>1, <4>2, <5>1
          <5>3. b[j] = o[k]
            BY <2>2, <5>2
          <5>. QED
            BY <3>1, <5>2, <5>3 DEF Range
        <4>. QED
          BY <4>1, <4>2
      <3>3. ASSUME NEW k \in 1..last - 1 PROVE a[k] \in Range(o)
        <4>1. k \in 1..Len(o) /\ a[k] = o[k]
          BY <2>2, <3>1, <3>3
        <4>. QED
          BY <3>1, <4>1 DEF Range
      <3>4. ASSUME NEW k \in 1..(Len(o) - last + 1) PROVE b[k] \in Range(o)
        <4>1. PICK j : j = last + k - 1
          OBVIOUS
        <4>2. j \in 1..Len(o) /\ b[k] = o[j]
          BY <2>2, <3>1, <4>1
        <4>. QED
          BY <3>1, <4>2 DEF Range
      <3>5. \A x : x \in Range(o) <=> \E k \in 1..Len(o) : x = o[k]
        BY <3>1 DEF Range
      <3>6. \A x : x \in Range(a) <=> \E k \in 1..last - 1 : x = a[k]
        BY <3>1 DEF Range
      <3>7. \A x : x \in Range(b) <=> \E k \in 1..(Len(o) - last + 1) : x = b[k]
        BY <3>1 DEF Range
      <3>. QED
        BY <3>2, <3>3, <3>4, <3>5, <3>6, <3>7
    <2>4. /\ ab \in Seq(Rules) /\ Len(ab) = last /\ Range(ab) = Range(a) \cup {"UA3F"}
      <3>1. ab \in Seq(Rules) /\ Len(ab) = Len(a) + 1
        BY <1>4, <2>1, <2>2, Prefix
      <3>2. Range(ab) = Range(a) \cup {"UA3F"}
        <4>1. PICK u : u = <<"UA3F">>
          OBVIOUS
        <4>2. Range(a \o u) = Range(a) \cup Range(u)
          BY <1>4, <2>2, <4>1, RangeOfJoin
        <4>. QED
          BY <1>4, <2>1, <4>1, <4>2
      <3>. QED
        BY <1>2, <2>2, <3>1, <3>2
    <2>5. chain = ab \o b
      BY <1>2, <1>3, <1>9, <2>1 DEF InsertAt
    <2>6. chain \in Seq(Rules) /\ Len(chain) = Len(ab) + Len(b)
      BY <2>2, <2>4, <2>5, Prefix
    <2>7. Range(chain) = Range(ab) \cup Range(b)
      BY <2>2, <2>4, <2>5, RangeOfJoin
    <2>8. Len(chain) = Len(o) + 1
      BY <1>2, <2>2, <2>4, <2>6
    <2>. QED
      BY <1>1, <1>7, <1>9, <2>3, <2>4, <2>6, <2>7, <2>8
  <1>. QED
    BY <1>6, <1>8, <1>9

(* The first queue that takes a packet is the only one to get it. *)
LEMMA IptHas ==
    ASSUME NEW c, Switches(c),
           NEW ex, NEW v
    PROVE  /\ \A r \in Range(IptQueues(c, ex, v)) : r \in Rules /\ InChain(c, r) /\ IptTakes(r, c, ex, v)
           /\ (\E r \in Rules : InChain(c, r) /\ IptTakes(r, c, ex, v)) =>
                 \E r \in Rules : Range(IptQueues(c, ex, v)) = {r}
  <1>1. PICK chain : chain = IptPostrouting(c)
    OBVIOUS
  <1>2. /\ chain \in Seq(Rules) /\ Len(chain) \in 0..6
        /\ \A r : r \in Range(chain) <=> r \in Rules /\ InChain(c, r)
    BY <1>1, IptChain
  <1>3. PICK I : I = {i \in 1..Len(chain) : IptTakes(chain[i], c, ex, v)}
    OBVIOUS
  <1>4. PICK k : k = SelectInSeq(chain, LAMBDA r : IptTakes(r, c, ex, v))
    OBVIOUS
  <1>5. k = IF I # {} THEN Min(I) ELSE 0
    BY <1>3, <1>4 DEF SelectInSeq
  <1>6. IptQueues(c, ex, v) = IF k = 0 THEN <<>> ELSE <<chain[k]>>
    BY <1>1, <1>4 DEF IptQueues
  <1>7. \A r : r \in Range(chain) <=> \E i \in 1..Len(chain) : r = chain[i]
    BY <1>2 DEF Range
  <1>8. CASE I # {}
    <2>1. I \in SUBSET (1..6)
      BY <1>2, <1>3
    <2>2. k \in I
      <3>1. Min(I) \in I
        BY <1>8, <2>1, LeastPlace
      <3>. QED
        BY <1>5, <1>8, <3>1
    <2>3. k \in 1..Len(chain) /\ IptTakes(chain[k], c, ex, v) /\ k # 0
      BY <1>2, <1>3, <2>2
    <2>4. chain[k] \in Rules /\ InChain(c, chain[k])
      BY <1>2, <1>7, <2>3
    <2>5. Range(IptQueues(c, ex, v)) = {chain[k]}
      BY <1>6, <2>3 DEF Range
    <2>. QED
      BY <2>3, <2>4, <2>5
  <1>9. CASE I = {}
    <2>1. Range(IptQueues(c, ex, v)) = {}
      BY <1>5, <1>6, <1>9 DEF Range
    <2>2. ASSUME NEW r \in Rules, InChain(c, r), IptTakes(r, c, ex, v) PROVE FALSE
      <3>1. PICK i \in 1..Len(chain) : r = chain[i]
        BY <1>2, <1>7, <2>2
      <3>2. i \in I
        BY <1>3, <2>2, <3>1
      <3>. QED
        BY <1>9, <3>2
    <2>. QED
      BY <2>1, <2>2
  <1>. QED
    BY <1>8, <1>9

(* A helper that queues every packet takes them all where a reorder chain is
   behind it: the rewriter's queue goes before that chain, after the helper.  *)
LEMMA HelperFirst ==
    ASSUME NEW c, Switches(c),
           NEW ex, NEW v, IptTakes("IP", c, ex, v)
    PROVE  c.ipid /\ c.reorder => Range(IptQueues(c, ex, v)) = {"IP"}
  <1>1. PICK o, last, chain : o = Others(c) /\ last = DetectNfqueue(o) /\ chain = IptPostrouting(c)
    OBVIOUS
  <1>0. /\ Len(chain) \in 0..6 /\ last \in 0..Len(o)
        /\ \A i \in 1..Len(o) : o[i] \in {"SYN", "IP", "DESYNC"} => i <= last
    BY <1>1, IptChain, OthersAre
  <1>. HAVE c.ipid /\ c.reorder
  <1>2. PICK t, q : t = When(c.ttl # 0, <<"TTL">>) /\ q = When(c.quic, <<"QUIC">>)
    OBVIOUS
  <1>3. /\ t \in Seq(Rules) /\ Len(t) \in {0, 1} /\ \A i \in 1..Len(t) : t[i] = "TTL"
        /\ q \in Seq(Rules) /\ Len(q) \in {0, 1}
    <2>1. "TTL" \in Rules /\ "QUIC" \in Rules
      BY DEF Rules
    <2>. QED
      BY <1>2, <2>1, WhenTyped
  <1>4. o = t \o <<"IP">> \o q \o <<"DESYNC">>
    BY <1>1, <1>2, <1>3 DEF Others, When
  <1>5. PICK k : k = Len(t) + 1
    OBVIOUS
  <1>6. /\ o \in Seq(Rules) /\ Len(o) = k + Len(q) + 1 /\ o[k] = "IP" /\ o[Len(o)] = "DESYNC"
        /\ \A i \in 1..k - 1 : o[i] = "TTL"
    BY <1>3, <1>4, <1>5 DEF Rules
  <1>7. last = Len(o) /\ k \in 1..last - 1 /\ k \in Nat /\ last \in Nat
    <2>1. /\ last \in 0..Len(o)
          /\ \A i \in 1..Len(o) : o[i] \in {"SYN", "IP", "DESYNC"} => i <= last
      BY <1>0
    <2>2. PICK l : l = Len(o)
      OBVIOUS
    <2>3. k \in {1, 2} /\ l \in Nat /\ l \in 1..l /\ k < l
      BY <1>3, <1>5, <1>6, <2>2
    <2>4. l <= last
      BY <1>6, <2>1, <2>2, <2>3
    <2>. QED
      BY <2>1, <2>2, <2>3, <2>4
  <1>8. chain \in Seq(Rules) /\ k \in 1..Len(chain) /\ \A i \in 1..last - 1 : chain[i] = o[i]
    <2>1. chain = IF c.mode # "NFQUEUE" THEN o
                  ELSE IF last = 0 THEN Append(o, "UA3F") ELSE InsertAt(o, last, "UA3F")
      BY <1>1 DEF IptPostrouting, Others
    <2>2. CASE c.mode # "NFQUEUE"
      BY <1>6, <1>7, <2>1, <2>2
    <2>3. CASE c.mode = "NFQUEUE"
      <3>1. chain = SubSeq(o, 1, last - 1) \o <<"UA3F">> \o SubSeq(o, last, Len(o))
        BY <1>7, <2>1, <2>3 DEF InsertAt
      <3>2. PICK a, b, ab : /\ a = SubSeq(o, 1, last - 1) /\ b = SubSeq(o, last, Len(o))
                            /\ ab = a \o <<"UA3F">>
        OBVIOUS
      <3>3. /\ a \in Seq(Rules) /\ Len(a) = last - 1 /\ \A i \in 1..last - 1 : a[i] = o[i]
            /\ b \in Seq(Rules)
        BY <1>6, <1>7, <3>2
      <3>4. /\ ab \in Seq(Rules) /\ Len(ab) = last /\ \A i \in 1..last - 1 : ab[i] = a[i]
        BY <1>7, <3>2, <3>3 DEF Rules
      <3>5. chain = ab \o b
        BY <3>1, <3>2
      <3>6. /\ ab \o b \in Seq(Rules) /\ Len(ab \o b) = Len(ab) + Len(b)
            /\ \A i \in 1..Len(ab) : (ab \o b)[i] = ab[i]
        BY <3>3, <3>4, Prefix
      <3>7. 1..last - 1 \subseteq 1..last /\ Len(b) \in Nat
        BY <1>7, <3>3
      <3>8. k \in 1..Len(chain)
        BY <1>7, <3>4, <3>5, <3>6, <3>7
      <3>. QED
        BY <3>3, <3>4, <3>5, <3>6, <3>7, <3>8
    <2>. QED
      BY <2>2, <2>3
  <1>9. PICK I : I = {i \in 1..Len(chain) : IptTakes(chain[i], c, ex, v)}
    OBVIOUS
  <1>10. k \in I
    BY <1>6, <1>7, <1>8, <1>9
  <1>11. \A i \in I : k <= i
    <2>1. ~IptTakes("TTL", c, ex, v)
      BY DEF IptTakes
    <2>2. ASSUME NEW i \in I, i < k PROVE FALSE
      <3>1. i \in 1..k - 1 /\ i \in 1..last - 1 /\ IptTakes(chain[i], c, ex, v)
        BY <1>7, <1>8, <1>9, <2>2
      <3>2. chain[i] = "TTL"
        BY <1>6, <1>8, <3>1
      <3>. QED
        BY <2>1, <3>1, <3>2
    <2>. QED
      BY <1>7, <1>8, <1>9, <2>2
  <1>12. Min(I) = k
    <2>1. I \in SUBSET (1..6)
      <3>1. Len(chain) \in 0..6
        BY <1>0
      <3>. QED
        BY <1>9, <3>1
    <2>2. Min(I) \in I /\ \A y \in I : Min(I) <= y
      BY <1>10, <2>1, LeastPlace
    <2>3. PICK x : x = Min(I)
      OBVIOUS
    <2>4. x \in I /\ x <= k
      BY <1>10, <2>2, <2>3
    <2>5. k <= x /\ x \in Nat /\ k \in Nat
      BY <1>7, <1>11, <2>1, <2>4
    <2>. QED
      BY <2>3, <2>4, <2>5
  <1>13. IptQueues(c, ex, v) = <<chain[k]>>
    <2>1. SelectInSeq(chain, LAMBDA r : IptTakes(r, c, ex, v)) = k
      BY <1>9, <1>10, <1>12 DEF SelectInSeq
    <2>2. k # 0
      BY <1>7
    <2>. QED
      BY <1>1, <2>1, <2>2 DEF IptQueues
  <1>14. chain[k] = "IP"
    BY <1>6, <1>7, <1>8
  <1>. QED
    BY <1>13, <1>14 DEF Range

(* What can be in POSTROUTING. *)
Sent(v) ==
    /\ v.fam = 4 /\ v.dir = "original" /\ v.kind \in {"syn", "ack", "data", "inject"}
    /\ v.kind = "syn" => ~v.est
    /\ v.nth \in Nat /\ v.id \in BOOLEAN /\ v.est \in BOOLEAN /\ v.notHTTP \in BOOLEAN

LEMMA TakenIs ==
    ASSUME NEW v, Sent(v), NEW c, NEW ex, NEW r \in Rules, IptTakes(r, c, ex, v)
    PROVE  /\ r # "TTL"
           /\ IF r = "QUIC" THEN v.proto = "udp" ELSE v.proto = "tcp"
           /\ r = "SYN" => ~v.est
           /\ r \in {"DESYNC", "UA3F"} => v.est
  BY DEF Sent, IptTakes, HookSyn, BlocksQuic, ReorderIpt, NfqueueIpt, IgnoreNotTCP, Rules

LEMMA QueuesDiffer ==
    ASSUME NEW c, Switches(c), c.reorderBytes \in Nat, c.reorderPackets \in Nat,
           NEW ex, NEW v, Sent(v), v.proto \in {"tcp", "udp"}
    PROVE  /\ \A q \in Range(NftQueues(c, ex, v)) \ Range(IptQueues(c, ex, v)) :
                 \/ q = "DESYNC" /\ (c.ipid \/ c.mode = "NFQUEUE")
                 \/ q = "UA3F" /\ c.ipid /\ c.reorder
                 \/ q = "IP" /\ c.mode = "NFQUEUE" /\ ~c.reorder
           /\ \A q \in Range(IptQueues(c, ex, v)) \ Range(NftQueues(c, ex, v)) :
                 \/ q \in {"SYN", "DESYNC"} /\ v.port = "skip"
                 \/ q = "DESYNC" /\ ~EarlyNft(c, v)
                 \/ q = "UA3F" /\ c.ih /\ ~Payload(v)
                 \/ q = "IP" /\ ~v.id
  <1>1. PICK N, I : N = Range(NftQueues(c, ex, v)) /\ I = Range(IptQueues(c, ex, v))
    OBVIOUS
  <1>2. /\ (c.mode = "NFQUEUE") \in BOOLEAN /\ ReorderNft(c, v) \in BOOLEAN
        /\ NfqueueNft(c, ex, v) \in BOOLEAN /\ HelperNft(c, v) \in BOOLEAN
        /\ BlocksQuic(c, v) \in BOOLEAN
    BY DEF Sent, Switches, ReorderNft, NfqueueNft, HelperNft, BlocksQuic, HookSyn, IgnorePorts, DesyncPort,
           LongerThan40, EarlyNft, Payload
  <1>3. ASSUME NEW q \in N
        PROVE  /\ q \in Rules
               /\ \/ q = "DESYNC" /\ ReorderNft(c, v)
                  \/ q = "UA3F" /\ c.mode = "NFQUEUE" /\ NfqueueNft(c, ex, v)
                  \/ q = "IP" /\ c.ipid /\ HelperNft(c, v)
                  \/ q = "SYN" /\ ~c.ipid /\ HelperNft(c, v)
                  \/ q = "QUIC" /\ BlocksQuic(c, v)
    BY <1>1, <1>2, <1>3, NftHas
  <1>4. ASSUME NEW q \in Rules \ N
        PROVE  /\ q = "DESYNC" => ~ReorderNft(c, v)
               /\ q = "UA3F" => ~(c.mode = "NFQUEUE" /\ NfqueueNft(c, ex, v))
               /\ q = "IP" => ~(c.ipid /\ HelperNft(c, v))
               /\ q = "SYN" => ~(~c.ipid /\ HelperNft(c, v))
               /\ q = "QUIC" => ~BlocksQuic(c, v)
    BY <1>1, <1>2, <1>4, NftHas
  <1>5. \A r \in I : r \in Rules /\ InChain(c, r) /\ IptTakes(r, c, ex, v)
    BY <1>1, IptHas
  <1>9. IptTakes("IP", c, ex, v) /\ c.ipid /\ c.reorder => I = {"IP"}
    BY <1>1, HelperFirst
  (* What a rule takes goes to its queue, or to that of another. *)
  <1>6. ASSUME NEW q \in Rules, InChain(c, q), IptTakes(q, c, ex, v), q \notin I
        PROVE  \E r \in Rules : r # q /\ InChain(c, r) /\ IptTakes(r, c, ex, v) /\ I = {r}
    <2>1. PICK r \in Rules : I = {r}
      BY <1>1, <1>6, IptHas
    <2>. QED
      BY <1>5, <1>6, <2>1
  <1>7. ASSUME NEW q \in N \ I
        PROVE  \/ q = "DESYNC" /\ (c.ipid \/ c.mode = "NFQUEUE")
               \/ q = "UA3F" /\ c.ipid /\ c.reorder
               \/ q = "IP" /\ c.mode = "NFQUEUE" /\ ~c.reorder
    <2>1. CASE q = "DESYNC" /\ ReorderNft(c, v)
      <3>1. EarlyIpt(c, v)
        BY <2>1 DEF ReorderNft, EarlyNft, EarlyIpt, Sent
      <3>2. InChain(c, q) /\ IptTakes(q, c, ex, v) /\ v.est /\ v.proto = "tcp"
        BY <2>1, <3>1 DEF ReorderNft, ReorderIpt, IptTakes, InChain, Sent
      <3>3. PICK r \in Rules : r # q /\ InChain(c, r) /\ IptTakes(r, c, ex, v)
        BY <1>3, <1>6, <1>7, <3>2
      <3>4. r \in {"IP", "UA3F"}
        BY <2>1, <3>2, <3>3, TakenIs DEF Rules
      <3>. QED
        BY <2>1, <3>3, <3>4 DEF InChain
    <2>2. CASE q = "UA3F" /\ c.mode = "NFQUEUE" /\ NfqueueNft(c, ex, v)
      <3>1. NfqueueIpt(c, ex, v) /\ v.proto = "tcp" /\ v.kind \notin {"syn", "synack"}
        BY <2>2 DEF NfqueueNft, NfqueueIpt, Sent, Payload, LongerThan40, IgnoreNotTCP
      <3>. QED
        BY <1>1, <1>7, <2>2, <3>1, IptReaches
    <2>3. CASE q = "IP" /\ c.ipid /\ HelperNft(c, v)
      <3>1. v.proto = "tcp" /\ v.fam = 4
        BY <2>3 DEF HelperNft, HookSyn, Sent
      <3>3. InChain(c, q) /\ IptTakes(q, c, ex, v)
        BY <2>3, <3>1 DEF InChain, IptTakes
      <3>2. ~c.reorder
        BY <1>7, <1>9, <2>3, <3>3
      <3>4. PICK r \in Rules : r # q /\ InChain(c, r) /\ IptTakes(r, c, ex, v)
        BY <1>3, <1>6, <1>7, <3>3
      <3>5. r = "UA3F"
        BY <2>3, <3>1, <3>2, <3>4, TakenIs DEF Rules, InChain
      <3>. QED
        BY <2>3, <3>2, <3>4, <3>5 DEF InChain
    <2>4. CASE q = "SYN" /\ ~c.ipid /\ HelperNft(c, v)
      <3>1. InChain(c, q) /\ IptTakes(q, c, ex, v) /\ ~v.est /\ v.proto = "tcp"
        BY <2>4 DEF HelperNft, HookSyn, Sent, InChain, IptTakes
      <3>2. PICK r \in Rules : r # q /\ InChain(c, r) /\ IptTakes(r, c, ex, v)
        BY <1>3, <1>6, <1>7, <3>1
      <3>3. r \notin {"TTL", "QUIC", "DESYNC", "UA3F"}
        BY <3>1, <3>2, TakenIs
      <3>4. r = "IP"
        BY <2>4, <3>2, <3>3 DEF Rules
      <3>. QED
        BY <2>4, <3>2, <3>4 DEF InChain
    <2>5. CASE q = "QUIC" /\ BlocksQuic(c, v)
      <3>1. InChain(c, q) /\ IptTakes(q, c, ex, v) /\ v.proto = "udp"
        BY <2>5 DEF BlocksQuic, Sent, InChain, IptTakes
      <3>2. PICK r \in Rules : r # q /\ IptTakes(r, c, ex, v)
        BY <1>3, <1>6, <1>7, <3>1
      <3>. QED
        BY <2>5, <3>1, <3>2, TakenIs
    <2>. QED
      BY <1>3, <1>7, <2>1, <2>2, <2>3, <2>4, <2>5
  <1>8. ASSUME NEW q \in I \ N
        PROVE  \/ q \in {"SYN", "DESYNC"} /\ v.port = "skip"
               \/ q = "DESYNC" /\ ~EarlyNft(c, v)
               \/ q = "UA3F" /\ c.ih /\ ~Payload(v)
               \/ q = "IP" /\ ~v.id
    <2>1. q \in Rules /\ InChain(c, q) /\ IptTakes(q, c, ex, v) /\ q # "TTL" /\ q \in Rules \ N
      BY <1>5, <1>8, TakenIs
    <2>2. CASE q = "SYN"
      BY <1>4, <2>1, <2>2 DEF InChain, IptTakes, HelperNft, IgnorePorts
    <2>3. CASE q = "IP"
      BY <1>4, <2>1, <2>3 DEF InChain, IptTakes, HelperNft, Sent
    <2>4. CASE q = "QUIC"
      BY <1>4, <2>1, <2>4 DEF IptTakes
    <2>5. CASE q = "DESYNC"
      BY <1>4, <2>1, <2>5 DEF IptTakes, ReorderIpt, ReorderNft, IgnorePorts
    <2>6. CASE q = "UA3F"
      BY <1>4, <2>1, <2>6 DEF InChain, IptTakes, NfqueueIpt, NfqueueNft
    <2>. QED
      BY <2>1, <2>2, <2>3, <2>4, <2>5, <2>6 DEF Rules
  <1>. QED
    BY <1>1, <1>7, <1>8, Zenon

(* An IPv4 packet is routed and queued alike by both backends, but for the  *)
(* differences DifferenceHasCause names: the order of the queues, of which   *)
(* iptables has the packet get to one, ports and peers that only nftables    *)
(* spares, and packets one of them does not look at.                         *)
THEOREM DifferencesHaveCause == Spec => []DifferenceHasCause
  <1>1. ASSUME PInv, NEW p \in pkt, NEW v, v = View(p), v.fam = 4
        PROVE  /\ SameRoute(v, p.at)
               /\ p.at = "prerouting" => SameInject(v)
               /\ p.at = "postrouting" => SameQueues(v)
    <2>1. /\ Typed /\ p \in Packets /\ p.conn \in Conns /\ Fine(p) /\ cfg \in Configs
          /\ p.kind = "syn" => ~conn[p.conn].est
      BY <1>1, Here DEF Typed
    <2>2. SameRoute(v, p.at)
      BY <1>1 DEF SameRoute, TproxyNftPre, TproxyIptPre, TproxyNftOut, TproxyIptOut,
                  RedirectNft, RedirectIpt
    <2>3. SameInject(v)
      BY <1>1 DEF SameInject, InjectNft, InjectIpt
    <2>4. ASSUME p.at = "postrouting" PROVE SameQueues(v)
      <3>1. Sent(v) /\ v.proto \in {"tcp", "udp"}
        <4>1. p.dir = "original" /\ p.kind \in {"syn", "ack", "data", "inject"}
          BY <2>1, <2>4 DEF Packets, Fine, Formed
        <4>2. /\ conn[p.conn].n \in Nat /\ conn[p.conn].est \in BOOLEAN
              /\ conn[p.conn].notHTTP \in BOOLEAN /\ p.id \in BOOLEAN
          BY <2>1 DEF Typed, States, Packets
        <4>3. Attr(p.conn).proto \in {"tcp", "udp"}
          BY <2>1, AttrIs
        <4>4. /\ v.dir = p.dir /\ v.kind = p.kind /\ v.id = p.id /\ v.est = conn[p.conn].est
              /\ v.nth = conn[p.conn].n /\ v.notHTTP = conn[p.conn].notHTTP
              /\ v.proto = Attr(p.conn).proto
          BY <1>1 DEF View
        <4>. QED
          BY <1>1, <2>1, <4>1, <4>2, <4>3, <4>4 DEF Sent
      <3>2. Switches(cfg) /\ cfg.reorderBytes \in Nat /\ cfg.reorderPackets \in Nat
        BY <2>1, ConfigsAssumption DEF Switches
      <3>. QED
        BY <3>1, <3>2, QueuesDiffer DEF SameQueues, OnlyNft, OnlyIpt
    <2>. QED
      BY <2>2, <2>3, <2>4
  <1>2. PInv => DifferenceHasCause
    BY <1>1, Zenon DEF DifferenceHasCause
  <1>. QED
    BY <1>2, AlwaysInv, PTL

===============================================================================
