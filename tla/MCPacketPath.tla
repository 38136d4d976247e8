----------------------------- MODULE MCPacketPath -----------------------------
(* A small instance of PacketPath for TLC: a configuration for every mode on   *)
(* each backend, and connections that differ in what the rules look at.       *)
EXTENDS PacketPath

(* What the configurations do not set: a quiet router with a public address. *)
Plain == [mode |-> "SOCKS5", nft |-> TRUE, nexthop |-> "public", wanaddr |-> {"selfwan"},
          lanRoutes |-> FALSE, sc |-> FALSE, ih |-> TRUE, flow |-> FALSE, ttl |-> 0, syn |-> FALSE,
          ipid |-> FALSE, quic |-> FALSE, reorder |-> FALSE, reorderBytes |-> 1500,
          reorderPackets |-> 8, inject |-> FALSE, ports |-> FALSE]
SmallConfigs == UNION {{
    [Plain EXCEPT !.nft = b, !.mode = "TPROXY"],
    [Plain EXCEPT !.nft = b, !.mode = "TPROXY", !.sc = TRUE, !.nexthop = "private"],
    [Plain EXCEPT !.nft = b, !.mode = "TPROXY", !.nexthop = "unknown", !.wanaddr = {},
                  !.inject = TRUE, !.ttl = 64],
    [Plain EXCEPT !.nft = b, !.mode = "REDIRECT", !.lanRoutes = TRUE, !.reorder = TRUE,
                  !.ports = TRUE],
    [Plain EXCEPT !.nft = b, !.mode = "REDIRECT", !.nexthop = "unknown", !.wanaddr = {}],
    [Plain EXCEPT !.nft = b, !.mode = "NFQUEUE", !.ipid = TRUE, !.syn = TRUE, !.quic = TRUE],
    [Plain EXCEPT !.nft = b, !.mode = "NFQUEUE", !.ih = FALSE, !.ipid = TRUE, !.reorder = TRUE],
    [Plain EXCEPT !.nft = b, !.mode = "NFQUEUE", !.syn = TRUE, !.ttl = 65, !.reorder = TRUE,
                  !.inject = TRUE],
    [Plain EXCEPT !.nft = b, !.mode = "SOCKS5", !.ttl = 255, !.flow = TRUE, !.inject = TRUE,
                  !.reorder = TRUE, !.reorderPackets = 3],
    [Plain EXCEPT !.nft = b, !.mode = "SOCKS5", !.ttl = 65, !.flow = TRUE, !.quic = TRUE,
                  !.ipid = TRUE, !.reorder = TRUE]
    } : b \in BOOLEAN}

ReorderDefault == {[Plain EXCEPT !.reorder = TRUE, !.reorderBytes = 8, !.reorderPackets = 1500]}

K(by, fam, proto, peer, port, dev, mark) ==
    [by |-> by, fam |-> fam, proto |-> proto, peer |-> peer, port |-> port, dev |-> dev, mark |-> mark]
SmallKinds == {
    K("client", 4, "tcp", "web", "web", "first", "none"),
    K("client", 4, "tcp", "web", "other", "second", "none"),
    K("client", 4, "tcp", "web", "web", "first", "ignored"),
    K("client", 4, "tcp", "web", "skip", "first", "none"),
    K("client", 6, "tcp", "web", "web", "first", "none"),
    K("client", 4, "udp", "web", "quic", "first", "none"),
    K("client", 4, "tcp", "lan", "other", "first", "none"),
    K("client", 4, "tcp", "fake", "web", "first", "none"),
    K("client", 4, "tcp", "self", "ua3f", "first", "none"),
    K("client", 4, "tcp", "selfwan", "ua3f", "first", "none"),
    K("client", 6, "tcp", "self", "other", "first", "none"),
    K("router", 4, "tcp", "web", "web", "none", "none"),
    K("router", 6, "tcp", "web", "other", "none", "none"),
    K("router", 4, "tcp", "fake", "web", "none", "none"),
    K("sidecar", 4, "tcp", "web", "web", "none", "none")}
===============================================================================
