------------------------------- MODULE MCSocks5 -------------------------------
(* A small instance of Socks5 for TLC: a client with two UDP sockets, a host   *)
(* of its own address and one elsewhere.                                      *)
EXTENDS Socks5
SmallPorts == {"c1", "c2"}
SmallHosts == {"h", "l"}
SmallLocal == {"l"}
===============================================================================
