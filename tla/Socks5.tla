-------------------------------- MODULE Socks5 --------------------------------
(***************************************************************************)
(* HandleClient of the SOCKS5 server, for one client: the handshake, the   *)
(* request, and what CONNECT, BIND and UDP ASSOCIATE open and close.  What *)
(* is relayed over TCP is ConnLink's; the UDP relay, a goroutine that the  *)
(* TCP connection's monitor stops, is here.  The network loses and         *)
(* reorders datagrams.                                                     *)
(***************************************************************************)
EXTENDS Naturals, FiniteSets

CONSTANTS
    Ports,          \* UDP addresses of the client
    Hosts,          \* UDP addresses of others
    Local,          \* those of them at the client's own IP address
    MaxDatagrams    \* bound: datagrams sent to UA3F

ASSUME LocalAssumption == Local \subseteq Hosts /\ Ports \cap Hosts = {}
ASSUME BoundAssumption == MaxDatagrams \in Nat

VARIABLES
    client,         \* the client's side of the TCP connection: "here", "left"
    stage,          \* HandleClient
    cmd,            \* request.Cmd
    sock,           \* the listener of BIND, the UDP socket
    rconn,          \* the upstream connection
    done,           \* the monitor has closed done
    relay,          \* the goroutine of tunnelUDP
    clientUDPAddr,
    sent, net,      \* datagrams sent to UA3F; those that have arrived or will
    out,            \* datagrams UA3F has sent
    late            \* datagrams it has handled since done was closed
tcp  == <<client, stage, cmd, sock, rconn>>
udp  == <<done, relay, clientUDPAddr, sent, net, out, late>>
socks5Vars == <<tcp, udp>>

None == "none"
Bad  == "unreadable"    \* no SOCKS5 datagram, or one to a name that does not resolve

Socks5Init ==
    /\ client = "here" /\ stage = "methods" /\ cmd = None /\ sock = None /\ rconn = None
    /\ done = FALSE /\ relay = None /\ clientUDPAddr = None
    /\ sent = {} /\ net = {} /\ out = {} /\ late = 0

-----------------------------------------------------------------------------
(* HandleClient: each step may fail, and a read waits for the client.  It is
   over when stage is "end"; the TCP connection is then closed.             *)

To(next) == stage' = next \/ stage' = "end"
Keep == UNCHANGED <<client, udp>>

handShake == stage = "methods" /\ To("request") /\ Keep /\ UNCHANGED <<cmd, sock, rconn>>
ReadRequest ==
    /\ stage = "request"
    /\ \/ cmd' = "CONNECT" /\ stage' = "dial"
       \/ cmd' \in {"BIND", "UDP"} /\ stage' = "listen"
       \/ stage' = "end" /\ UNCHANGED cmd
    /\ Keep /\ UNCHANGED <<sock, rconn>>

Dial ==
    /\ stage = "dial"
    /\ \/ stage' = "reply" /\ rconn' = "open"
       \/ stage' = "end" /\ UNCHANGED rconn
    /\ Keep /\ UNCHANGED <<cmd, sock>>
Listen ==
    /\ stage = "listen"
    /\ \/ stage' = "reply" /\ sock' = "open"
       \/ stage' = "end" /\ UNCHANGED sock
    /\ Keep /\ UNCHANGED <<cmd, rconn>>

(* A reply cannot be written to a client that has left, once that is known. *)
handleConnect ==
    /\ stage = "reply" /\ cmd = "CONNECT"
    /\ \/ stage' = "serving" /\ rconn' = "relayed"
       \/ client = "left" /\ stage' = "end" /\ rconn' = "closed"
    /\ Keep /\ UNCHANGED <<cmd, sock>>
handleBind ==
    /\ stage = "reply" /\ cmd = "BIND"
    /\ \/ stage' = "accept" /\ UNCHANGED sock
       \/ client = "left" /\ stage' = "end" /\ sock' = "closed"
    /\ Keep /\ UNCHANGED <<cmd, rconn>>
AcceptTCP ==
    /\ stage = "accept" /\ sock' = "closed"
    /\ \/ stage' = "reply2" /\ rconn' = "open"
       \/ stage' = "end" /\ UNCHANGED rconn
    /\ Keep /\ UNCHANGED cmd
BindReply ==
    /\ stage = "reply2"
    /\ \/ stage' = "serving" /\ rconn' = "relayed"
       \/ client = "left" /\ stage' = "end" /\ rconn' = "closed"
    /\ Keep /\ UNCHANGED <<cmd, sock>>
Served ==
    /\ stage = "serving" /\ stage' = "end"
    /\ rconn' = IF cmd = "BIND" THEN "closed" ELSE rconn
    /\ Keep /\ UNCHANGED <<cmd, sock>>

handleUDPAssociate ==
    /\ stage = "reply" /\ cmd = "UDP"
    /\ \/ stage' = "monitor" /\ relay' = "check" /\ UNCHANGED sock
       \/ client = "left" /\ stage' = "end" /\ sock' = "closed" /\ UNCHANGED relay
    /\ UNCHANGED <<client, cmd, rconn, done, clientUDPAddr, sent, net, out, late>>

(* The monitor reads bytes it ignores, until the client leaves or has been
   silent for a minute, whatever the relay does meanwhile.                  *)
Stop == /\ stage = "monitor" /\ stage' = "end" /\ done' = TRUE
        /\ UNCHANGED <<client, cmd, sock, rconn, relay, clientUDPAddr, sent, net, out, late>>
MonitorClosed  == client = "left" /\ Stop
MonitorTimeout == client = "here" /\ Stop

-----------------------------------------------------------------------------
(* The relay.  Who sent a datagram is judged by its IP address. *)

CheckDone ==
    /\ relay = "check"
    /\ IF done THEN relay' = "ended" /\ sock' = "closed" ELSE relay' = "read" /\ UNCHANGED sock
    /\ UNCHANGED <<client, stage, cmd, rconn, done, clientUDPAddr, sent, net, out, late>>

(* 30 seconds without a datagram, or another error. *)
MutantReadFails ==                         \* no deadline: a read ends with its socket
    /\ relay = "read" /\ sock = "closed" /\ relay' = "ended"
    /\ UNCHANGED <<tcp, done, clientUDPAddr, sent, net, out, late>>
ReadFails ==
    /\ relay = "read" /\ relay' = "check"
    /\ UNCHANGED <<tcp, done, clientUDPAddr, sent, net, out, late>>

MutantIsFromClient(addr) == clientUDPAddr \in {None, addr}
IsFromClient(addr) == addr \in Ports \cup Local

(* What ReadUDPDatagram and ResolveUDPAddr make of it: a host that answers
   from the client's address has not sent a SOCKS5 datagram, but it may look
   like one.                                                                 *)
Destinations(d) == IF d.from \in Ports THEN {d.to} ELSE Hosts \cup {Bad}
Request(d, to) == [to |-> to, wrapped |-> FALSE, id |-> d.id, from |-> d.from]
Reply(d)       == [to |-> clientUDPAddr, wrapped |-> TRUE, id |-> d.id, from |-> d.from]

ReadFrom(d) ==
    /\ relay = "read" /\ relay' = "check"
    /\ net' = net \ {d} /\ late' = IF done THEN late + 1 ELSE late
    /\ IF IsFromClient(d.from)
       THEN /\ clientUDPAddr' = d.from
            /\ \E to \in Destinations(d) :
                  out' = IF to = Bad THEN out ELSE out \cup {Request(d, to)}
       ELSE /\ out' = IF clientUDPAddr = None THEN out ELSE out \cup {Reply(d)}
            /\ UNCHANGED clientUDPAddr
    /\ UNCHANGED <<tcp, done, sent>>

-----------------------------------------------------------------------------
(* The client, the hosts and the network. *)

Leave == client = "here" /\ client' = "left" /\ UNCHANGED <<stage, cmd, sock, rconn, udp>>
Send(from, to) ==
    LET d == [id |-> Cardinality(sent) + 1, from |-> from, to |-> to]
    IN  /\ sock = "open" /\ cmd = "UDP" /\ Cardinality(sent) < MaxDatagrams
        /\ sent' = sent \cup {d} /\ net' = net \cup {d}
        /\ UNCHANGED <<tcp, done, relay, clientUDPAddr, out, late>>
Lose(d) == net' = net \ {d} /\ UNCHANGED <<tcp, done, relay, clientUDPAddr, sent, out, late>>

Talks  == \/ handShake \/ ReadRequest \/ Dial \/ Listen \/ handleConnect \/ handleBind \/ BindReply
          \/ handleUDPAssociate \/ MonitorClosed
Relays == CheckDone \/ ReadFails \/ \E d \in net : ReadFrom(d)
Socks5Next ==
    \/ Talks \/ AcceptTCP \/ Served \/ MonitorTimeout \/ Relays
    \/ Leave
    \/ \E p \in Ports, h \in Hosts \cup {Bad} : Send(p, h)
    \/ \E h \in Hosts : Send(h, "client")
    \/ \E d \in net : Lose(d)

(* Both goroutines run, and a UDP read returns after 30 seconds at the latest.
   The client need not say anything, nor anyone connect to BIND's listener.  *)
Socks5Spec == /\ Socks5Init /\ [][Socks5Next]_socks5Vars
              /\ WF_socks5Vars(client = "left" /\ Talks) /\ WF_socks5Vars(Relays)

-----------------------------------------------------------------------------
(* When the client has left, HandleClient comes to its end, the relay with it,
   and whatever was opened and not handed to ConnLink is closed.  Only BIND
   goes on waiting for a connection that need not come.                      *)
Released ==
    client = "left" ~> \/ stage = "end" /\ sock # "open" /\ rconn # "open"
                       \/ stage \in {"accept", "serving"}

(* The two loops share nothing but done, and one socket serves both sides.
   Hosts get what the client has addressed to them; the client gets, wrapped
   and at an address it has sent from, what hosts have sent; unless a host at
   the client's own address has sent something, and is taken for the client.
   After the end of the association one datagram more is relayed at most.    *)
AskedFor  == \A o \in out : ~o.wrapped => \E d \in sent : d.from \in Ports /\ d.id = o.id /\ d.to = o.to
Returned  == \A o \in out : o.wrapped =>
                 \E d, c \in sent : /\ d.from \in Hosts /\ d.id = o.id /\ d.from = o.from
                                    /\ c.from \in Ports /\ c.from = o.to
OneLate   == late <= 1
RelayedRight == OneLate /\ ((\A d \in sent : d.from \notin Local) => AskedFor /\ Returned)
===============================================================================
