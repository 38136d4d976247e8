--------------------------- MODULE MCFirewallSetup ---------------------------
(* A small instance of FirewallSetup for TLC: four machines and the          *)
(* configurations that differ in what they install.                          *)
EXTENDS FirewallSetup

Iface(n, e, v, d) == [name |-> n, encap |-> e, ipv4 |-> v, default |-> d]
Lans == {Iface("lo", "none", TRUE, FALSE), Iface("br-lan", "ether", TRUE, FALSE)}
Wans == Lans \cup {Iface("wan", "ppp", TRUE, TRUE), Iface("eth0", "ether", FALSE, FALSE),
                  Iface("wwan", "ether", TRUE, TRUE)}

Machine(o, n, i, t, q, f, s, x, w) ==
    [openwrt |-> o, nft |-> n, ipt |-> i, tproxyMod |-> t, queueMod |-> q, flow |-> f, sc |-> s,
     tcx |-> x, ifaces |-> w]
SmallHosts == {
    Machine(FALSE, TRUE, FALSE, TRUE, TRUE, FALSE, FALSE, TRUE, Wans),    \* nftables alone
    Machine(FALSE, FALSE, TRUE, TRUE, TRUE, FALSE, TRUE, FALSE, Wans),    \* iptables alone, with ShellCrash
    Machine(TRUE, TRUE, TRUE, TRUE, FALSE, TRUE, FALSE, FALSE, Wans),     \* OpenWrt without kmod-nft-queue
    Machine(FALSE, FALSE, FALSE, FALSE, FALSE, FALSE, FALSE, FALSE, Lans)}

C(m, t, s, i, q, r, j, b) ==
    [mode |-> m, ttl |-> t, syn |-> s, ipid |-> i, quic |-> q, reorder |-> r, inject |-> j,
     bpf |-> b]
SmallConfigs == {
    C("TPROXY", 64, FALSE, FALSE, TRUE, FALSE, FALSE, FALSE),
    C("TPROXY", 65, TRUE, FALSE, FALSE, TRUE, FALSE, FALSE),
    C("REDIRECT", 0, FALSE, FALSE, FALSE, FALSE, FALSE, FALSE),
    C("NFQUEUE", 65, TRUE, TRUE, FALSE, FALSE, TRUE, FALSE),
    C("SOCKS5", 64, FALSE, TRUE, FALSE, TRUE, TRUE, TRUE),
    C("SOCKS5", 0, FALSE, FALSE, TRUE, FALSE, FALSE, TRUE)}

IptablesHost  == {h \in SmallHosts : ~h.nft /\ h.ipt}
TproxyConfigs == {c \in SmallConfigs : c.mode = "TPROXY"}
=============================================================================
