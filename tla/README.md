# TLA+ verification of UA3F

UA3F is a proxy that rewrites HTTP header fields, above all the User-Agent. It runs on a router as a SOCKS5,
HTTP, TPROXY or REDIRECT proxy, or as an NFQUEUE packet handler. This directory holds TLA+ models of its
concurrent core, its rules and what it does to the kernel, TLC configurations that check them on small instances,
and TLAPS proofs of the results that matter most. Paths below are relative to the repository root (`src/` in `PROJECT.json`).

- [How to run](#how-to-run)
- [The system](#the-system): the parts, their state and operations, what is hard, what must hold
- [The models](#the-models): which module models which part, and how definitions correspond to code
- [The runs](#the-runs): what each configuration checks and shows, and why its bounds are enough
- [Fairness](#fairness)
- [The proofs](#the-proofs)
- [Where the code disagrees](#where-the-code-disagrees)
- [What is left out](#what-is-left-out)
- [Plan](#plan)

## How to run

    tlc -workers 2 -config connlink_safety.cfg MCConnLink     # any run: its cfg and its MC module
    tlapm LinkProofs.tla                                      # any *Proofs module

`PROJECT.json` lists the runs with the properties they check, the source lines behind every definition
(`map`), the hazards the properties are aimed at, the theorems, and for every property a plausible bug in the
code that breaks it (`mutants`). The definitions called `Mutant...` in the modules are those bugs; no
specification uses them.

## The system

### Data path of the proxies

**Connection relay** (`internal/server/base/server.go`, `internal/common/connlink.go`, `internal/sniff`).
Every TCP connection becomes a `ConnLink`: two sockets, `LConn` to the client and `RConn` to the server, and two
goroutines. `ProcessLR` sniffs the client's first bytes, decides the protocol (TCP, TLS, HTTP), tries MitM on a
ClientHello, rewrites HTTP requests in a loop, and on every other exit falls back to a byte copy of the rest.
`ProcessRL` does the same for responses if the rewriter serves responses, after it waited on the `SniffDone`
wait group. Otherwise `CopyRL` copies. The goroutines share `Skipped`, `Protocol`, the two connections and the
cache of addresses without a lock; the end of one direction half-closes the sockets. *Hard:* the protocol is
decided by one goroutine and used by the other; MitM replaces the connections under the other goroutine; the
loops stop through a flag that the other goroutine sets; half-closes and full closes; bodies of dropped
requests that stay in the reader. *Must hold:* nothing passes after a rejection; the response side leaves
the server alone until the protocol is known; no handshake byte is relayed as data; what was written is
delivered or dropped for a reason; both goroutines end.

**Rewriters and rule engine** (`internal/rewrite`, `internal/rule`). `DIRECT` never parses; `GLOBAL` rewrites the
User-Agent, with a whitelist that caches the address; `RULE` evaluates header, body and URL-redirect rules in
order, with a `continue` flag per rule. The result is a `RewriteDecision` (drop, redirect, reject, or forward).
*Hard:* three stages that pre-empt each other, a redirect that has already answered the client, metadata of the
latest request used for an earlier response, bodies that are decoded and encoded again. *Must hold:* a rejected request goes nowhere,
a response is judged by its own request, one answer per request, no agent of Go's own on the wire.

**MitM** (`internal/mitm`). `HandleTLS` peeks at the ClientHello, checks the SNI against a host filter, obtains a
leaf certificate from a cache or signs one, handshakes with the client and then with the server, and replaces
both connections. *Hard:* the handshake runs while the other goroutine may read; a failure half-way leaves a
closed client side. *Must hold:* interception is complete or has no effect; one certificate per host.

**Sockmap and TC offload** (`internal/bpf`, `internal/server/base/server_linux.go`). After the sniff a raw connection can be
handed to the kernel: both sockets are entered in two BPF maps with each other as peer. *Hard:* the
userspace copy is still reading; an entry may fail half-way. *Must hold:* no byte twice or lost. The TC programs do the
helper's work on packets; they hang on interfaces, by a link or by classic filters, and are part of what a start leaves in the kernel.

**Destination cache** (`Server.Cache`, filled in `server.go`). Under GLOBAL a destination that spoke something else than HTTP, or showed a
whitelisted agent, is remembered, and later connections to it are copied unread. *Hard:* it outlives the connection that
filled it. *Must hold:* nothing goes unread that no earlier connection gave a reason for.

**SOCKS5** (`internal/server/socks5`). Negotiation, CONNECT into the relay, UDP ASSOCIATE (a relay loop that ends with
its TCP connection or an idle timeout) and BIND (waits for one inbound connection). *Hard:* one UDP socket serves both sides; two loops
share a channel that one of them closes. *Must hold:* each side gets what the other sent; everything opened is closed. **HTTP forward handler**
(`internal/server/http`): CONNECT tunnels into the relay, plain requests through a transport of its own.

### Data path of the packet handlers

**NFQUEUE packet server** (`internal/server/base/nfqueue.go`, `internal/server/nfqueue`). The netlink goroutine of the
go-nfqueue library calls a callback per packet; it hands the packet to the worker its flow hashes to, over a channel of
bounded length, or accepts it at once when that channel is full. Workers decode a packet, rewrite the
User-Agent and give the verdict. `Close` cancels the context, closes the channels, waits for the workers and
closes the socket. *Hard:* the callback and `Close` race for the channels, a worker may return early, packets
of one flow must not overtake each other. *Must hold:* a verdict for every packet, in flow order; `Close` returns.

**Sniff marks of NFQUEUE mode** (`internal/server/nfqueue/nfqueue_linux.go`, `nftables.go`). A flow's connmark counts how many of
its packets held no User-Agent: a ladder `SniffCtMarkLower..SniffCtMarkUpper` that ends in `NotHTTP`, which
the firewall no longer queues; a rewritten packet sets `HTTP`. Destinations at the top of the ladder enter a
cache, those of exempted clients a firewall set. *Hard:* the mark a verdict is computed from is the one the
packet was queued with, and other packets of the flow may have moved it. *Must hold:* a flow is exempted only
for a cause; `HTTP` sticks.

**Packet User-Agent rewriter** (`internal/rewrite/packet.go`), **desync** (`internal/server/desync`: fragment reordering and packet
injection), **L3 helper** (`internal/server/netlink`: TTL, IP id, TCP timestamp). *Hard:* modular arithmetic of sequence
numbers, offsets and hop counts; length-preserving edits of a payload.

### Around it

**Proxy server lifecycle** (`internal/server/server.go`, `cmd/root.go`, `internal/api/api.go`, `Start`/`Close`/`Restart` of every server).
`/restart` and SIGHUP load the configuration and restart server, helper and statistics. SOCKS5 and TPROXY
hand the open listener to the new server, REDIRECT hands over one it has closed, HTTP and NFQUEUE close and open anew. *Hard:* two restarts run
without a lock; an old accept loop still blocks in `Accept`; each step can fail and there is no way back.
**Firewall** (`internal/netfilter`, the `nftables.go` and `iptables.go` of every server): rule sets, policy routes and address sets, by
nftables or by iptables, set up by proxy server, helper and desync server on start and removed on close or failure; the process may be
killed at any time, and what it put into the kernel stays. The rules decide which packets UA3F sees. *Hard:* the order of jumps and hooks, exemptions
that come and go while connections last, UA3F's own packets; a setup over what an earlier process left. *Must hold:* a start leaves its rules and no
others; UA3F does not take its own connections; a connection stays on its path; the two backends differ only where their means differ.
**Statistics** (`internal/statistics`): bounded channels that drop when full, additions and removals of connections that overtake each other.
**Log broadcaster** (`internal/log/broadcaster.go`, `internal/api/logs.go`): subscribers with bounded channels under a lock.
**API routes**, **configuration**, **daemon and logging setup**, **OpenWrt/LuCI**: read-only handlers, parsing, process setup
and a web front end.

Interaction in one line: a server accepts a connection (or a packet), a `ConnLink` (or a worker) asks the
`Rewriter`, the rewriter asks the rule engine; MitM and offload replace what the `ConnLink` reads and
writes; the lifecycle replaces the server under all of them; statistics and logs are written from everywhere.

## The models

| Module | Models | Built on |
| --- | --- | --- |
| `ConnLink` | one proxied connection with both goroutines and both peers | |
| `LinkProofs` | theorems about a connection, and about what connections share | `ConnLink`, `Connections`, TLAPS |
| `MCConnLink` | the sets of configurations TLC explores | `ConnLink` |
| `FlowQueue` | abstract: packets of a flow are decided in order, except those let through on arrival | |
| `NfqueueServer` | callback, worker channels, workers and `Close`; implements `FlowQueue` | `FlowQueue` by `INSTANCE ... WITH` |
| `DatagramProofs` | theorems about the packet server, its refinement of `FlowQueue` among them, and about SOCKS5's relay | `NfqueueServer`, `Socks5`, TLAPS |
| `MCNfqueueServer` | two flows, two workers | `NfqueueServer` |
| `CtMark` | connmark ladder, cache and skip set | extends `FlowQueue` |
| `MCCtMark` | two flows to one destination, one to a destination in SKIP_DOMAINS | `CtMark` |
| `Lifecycle` | restarts and the end of the process in all five server modes, with the accept loops | |
| `LifecycleProofs` | its theorems | `Lifecycle`, TLAPS |
| `MCLifecycle` | the signal handler and one API request | `Lifecycle` |
| `FirewallSetup` | the commands by which helper, desync server and proxy server change the kernel in starts, restarts, ends and kills | |
| `FirewallListProofs` | lemmas about its list of commands | `FirewallSetup`, TLAPS |
| `FirewallSetupProofs` | its theorems | `FirewallListProofs` |
| `MCFirewallSetup` | four machines, six configurations | `FirewallSetup` |
| `RuleChains` | every firewall chain, on both backends, as a function of the packet | |
| `PacketPath` | packets through the hooks, conntrack, UA3F's sockets and queues | `RuleChains` |
| `PacketPathProofs` | its theorems | `PacketPath`, TLAPS |
| `MCPacketPath` | twenty configurations, fifteen kinds of connections | `PacketPath` |
| `RuleEngine` | a rule: when it matches, what its action makes of a message, which lists can be built | |
| `HttpRules` | the requests and responses of a connection through the stages of the rewriter | `RuleEngine` |
| `HttpRulesProofs` | its theorems | `HttpRules`, TLAPS |
| `MCHttpRules` | rule lists that meet in every stage | `HttpRules` |
| `Offload` | a connection whose sockets are in the sockmap, next to the copies in user space | |
| `MCOffload` | (nothing but the instance) | `Offload` |
| `HandoverProofs` | theorems about what is handed to the kernel: flows without the queue, sockets in the sockmap | `CtMark`, `Offload`, TLAPS |
| `Socks5` | one SOCKS5 client: handshake, CONNECT, BIND, UDP ASSOCIATE | |
| `MCSocks5` | two UDP sockets of the client, two hosts | `Socks5` |
| `Connections` | what connections share: the destination cache and the list of connections | |
| `MCConnections` | two clients, one destination | `Connections` |

The models meet at named places. `CtMark` builds on what `NfqueueServer` is shown to implement. `HttpRules` says which decisions the loops take that
`ConnLink` leaves open, `ConnLink` what ends those loops; `Connections` is many links over one cache, each reduced to what it writes there;
`Offload` and `Socks5` hand over to a link or take over from it. `FirewallSetup` says which chains exist, `RuleChains` what is in them,
`PacketPath` what follows for packets; `Lifecycle` has the overlap of restarts, `FirewallSetup` their effect on the kernel, one at a time.
`Init`, `Next` and `Spec` are called after their module in `FlowQueue` (`QueueInit`) and `Offload` (`OffloadInit`), which others extend next to a specification of their own.

### ConnLink

The client's stream is the list of messages it wrote, kept whole: `kind[i]` says what message `i` is (`get`; `post`, with
a body; `ws`, an upgrade; `hello`, a TLS ClientHello; `raw`; `short`, fewer bytes than the sniffer peeks) and
`fate[i]` what became of it. `csent` counts what was written, `lread` what the proxy consumed; `lrest` says
that the head of message `lread` was consumed and its body was not. `skind, sfate, ssent, rread, rrest` are the
same for the server.

| State | Code |
| --- | --- |
| `lr` | where the goroutine of `ProcessLR`/`CopyLR` is: `sniff`, the two handshakes of `HandleTLS`, request `loop`, `after` a request was written, the deferred function (`ret`), byte copy (`raw`), returned |
| `rl` | the same for `ProcessRL`/`CopyRL`: `wait` is `SniffDone.Wait()`; `read` lies between the look at `Protocol` and the evaluation of the response |
| `skipped`, `protocol`, `cached` | `ConnLink.Skipped`, `ConnLink.Protocol`, membership of `RAddr` in `Server.Cache` |
| `pending` | the counter of `SniffDone` (0 once `SniffOnce` ran) |
| `mitmed`, `rconn` | whether `HandleTLS` replaced the connections, and which one the response side's reader reads |
| `l`, `r` | the halves of the sockets that the proxy has not closed |
| `cliEnd`, `srvEnd` | whether the peer half-closed (`fin`) or left (`gone`) |
| `late` | the client messages written to the server, by the loop or by the byte copy, after a response was rejected |

Actions are the atomic steps of the two goroutines between two accesses to shared state: `LRSniff...` the outcome
of the first peek; `LRMitmClient` and `LRMitmServer` the handshakes of `HandleTLS`; `LRLoop...`, `LRMalformed`,
`LRForward`, `LRSwallow`, `LRReject`, `LRAfterWrite` one turn of the request loop; `LRReturn` the deferred
function; `LRCopy`, `LRCopyEnd` the byte copy; `LRServed` the return of `ServeConnLink`. `RL...` likewise; `RLSniffResponse` is the peek
and the look at `Protocol`, which the other goroutine may change before the response is evaluated. `NoteLate` fills `late`, which no action reads.
Which decision a rewriter takes is a free choice among those its mode can take, so that what is shown holds for
every rule set. `ClientMay` and `ServerMay` are the peers: they speak HTTP, TLS or neither (`app`), a server answers
HTTP only when a request reached it, and a TLS peer sends data only after a handshake.

### FlowQueue and NfqueueServer

Packets are numbered in the order the kernel queued them. `at[i]` is the place of packet `i`: in the `kernel`, `held` by the
callback, in a `chan`nel, in `work`, or decided (`handled` by the handler, `accepted` by a worker unseen, `bypassed` by
the callback). A channel needs no sequence: it is the set of packets in it, and its head is the least of them.
`cb` is the netlink goroutine (context check, receive, callback), `worker[w]` a worker, `closer` how far `Close`
has come, `closed` the channels it has closed, `crashed` a panic.

`CbSend`/`CbFull`/`CbPanic` are the callback's `select`: there is room, there is none, the channel is closed.
`WorkerInvalid`/`WorkerUndecodable`/`WorkerTake`/`WorkerHandle`/`WorkerEnd` are the body of `worker`: `WorkerInvalid` leaves
the goroutine, as the `return` in the code does. `CloseCancel`, `CloseChan`, `CloseWait`, `CloseNf` are the four steps of
`Close`. The netlink goroutine and the kernel are not in the repository; they are modelled from how
`nfqueue.go` uses the library and marked external. A flow hashes to one worker (`hash`), any that `Hashes` allows.

The abstract `FlowQueue` has no workers and no channels: `Serve(i)` requires that the earlier packets of the flow be decided,
`Bypass` decides the packet received last. The mapping makes `handled` and `accepted` the abstract `served`.

### CtMark

`CtMark` takes the queue's promise (`FlowQueue`, which `NfqueueServer` is proved to implement) and adds what a verdict does.
`mark[f]` is the connmark of a flow, `snap[i]` the mark that packet `i` was queued with (a kernel may leave out a mark
of zero: `Absent`), `cache` is `Server.Cache`, `skipping` is `SkipIpChan`, `skipset` the firewall's set.
`NextMark` is `getNextMark`, case by case. `Queue` and `PassBy` are the firewall's decision to queue a packet
(`NftSetNfqueue`); `ServeCached`, `ServePlain`, `ServeUA`, `ServeUAFails` and `ServeSkip` are `handlePacket`,
the packet rewriter and `sendVerdict` for the cases they distinguish; `AddSkipIP` and `AddSkipDomains` are the watcher
goroutine, which puts the exempted client's destinations, and at its start and on a ticker the addresses behind SKIP_DOMAINS, into one
set (adding may fail, and a name may not resolve); `SkipIPExpires` and `CacheForgets` are the two timeouts.

### Lifecycle

Servers are numbered in the order they are built; `lsn[s]` is the listener a server has, named after the server that opened it, `open`
the listeners that are open, `done` the servers whose `done` channel is closed (or that were shut down), `acc[s]` the
goroutine with the accept loop: not started, before the check of `done`, in `Accept`, or gone. `rules` says that the
firewall redirects traffic.

| Code | Definition |
| --- | --- |
| `Restart` of each server down to the assignment in `RestartSystem`, `Close` of each server | `SOCKS5Restart`, `SOCKS5Stop` and so on: the order of their steps |
| `RestartSystem`, `CloseSystem` take the current server | `Begin` (`Restart`, `Stop`), `Assign`, `Exit` |
| `rewrite.New`, `mitm.NewMiddleMan`, `New` | `Build`, which may fail |
| `Firewall.Setup` (cleans up when it fails), `Firewall.Cleanup` | `Rule`, `Unrule` |
| `Start` of the new server | `Start`: a server without an inherited listener needs the port |
| `select` on `done`, then `close(done)` | `Look`, then `Shut`: two steps, and the second panics if somebody was faster |
| `listener.Close`, `http.Server.Shutdown`, `NfqueueServer.Close` | `Hangup`, `Down` |
| the accept loop | `AcceptCheck`, `Accept`, `AcceptFails` (a passing error), `AcceptClosed` (`net.ErrClosed`) |

A caller (`Callers`) is a goroutine that runs `RestartSystem`; there is no lock, so their steps interleave in every way. A caller's
step that fails ends its job and undoes nothing, as the code does. A panic ends the process, except in the handler of `/restart`,
which the API's Recoverer wraps.

### FirewallSetup

A *job* is a start, a restart or an end of the process, as the list `todo` of the commands it still has to run: `Put` (create), `Try` (a command whose
error the code ignores), `Delete`, the programs of the helper (`AttachTCX`, `EnsureQdisc`, `AttachFilter`, `Detach`), and the steps in the process itself
(`Build`, `Open`, `Shut`, `StartWatch`). `attached` is what `TC` remembers: links, or filters in the order they were added, which `attachAllClassic` takes away again when it fails
(`ClassicFails`) and `Close` at the end (`CloseTC`). `Setup`, `Cleanup`, `Start`, `Close`, `runRoot`, `RestartSystem` and `CloseSystem` are those lists, in the code's order.
`kern` counts the instances of each kernel object (an iptables rule can be there twice). A command may be refused by what is there (`File exists`), may fail
of itself (`Fault`), and the process may be killed between two (`Kill`); `dirty` then remembers the modes of the killed processes. `NoBackend` is a
machine on which `detectFirewallBackend` finds nothing. `WatchTick` is the goroutine that creates the set of exempt addresses again under iptables; it
lives as long as the process. HTTP mode has no rules of its own, like SOCKS5.

### RuleChains and PacketPath

`RuleChains` is a chain for a chain: each `nft add rule` and `iptables -A` is a case with a match over the packet's attributes and a verdict, in the
order in which the code adds them, with the lists (LAN ranges, ports, marks, exempt addresses) it puts in front. What the attributes may be is in the module's head.
`PacketPath` sends packets along: `Send`, `Prerouting`, `Offloaded` (the flow table), `SynAck`, `Output`, `Postrouting`, `HandleClient` (UA3F accepts
and opens its upstream connection), `Arrive`. One hook is a step. `conn` is what conntrack knows: `est`ablished, how many packets (`n`), the connmark
`notHTTP`, and the `path` the first packet took. `AddSkipIP` and `Expire` are the exempt set between any two hooks.
The rewriting, splitting and injecting queues are what they do to TTL, identification, `whole` and marks.

### RuleEngine and HttpRules

A pattern is the set of values it matches, so a rule is a record and a list of rules a sequence. `RuleEngine` has the matchers, the actions (`Execute`), the
decoding and encoding of bodies, and `NewEngine`, which says what becomes of a list with a rule that cannot be built. `HttpRules` is the connection:
`LRRead`, `LRGlobal`, `LRBody`, `LRHeader`, `LRUrl`, `LRSwallow`, `LRForward`, `LRRaw` are `ProcessLR` with `RewriteRequest`, one rule a step
(`ix`, `dec`, `redirect` are its local variables); `RLRead` and so on are `ProcessRL` with `RewriteResponse`. Both work on one Metadata (`q`, `p`), and
`seen` keeps the requests a response was judged by. `up`, `elsewhere` and `down` are what server, other hosts and client were sent. `NextRule` is the loop
over the engine's rules; `Start` builds the engines, and `crashed` is the panic. GLOBAL's whitelist and cache are `LRGlobal`.

### Offload

`sockhash` and `peer` are the two BPF maps; `todo` lists the system calls which `TryOffload`, `Add` (with its error path) and `DeleteOffload` have still to
make, one step each. `sock` holds what no program has seen, `passed` what the verdict program left to user space, `buf` what the sniffer's reader
holds, `held` what a copy has read and not written; `out` is what arrived. The kernel's verdict is part of `HostSend`: a chunk is judged on arrival, and
what was passed on to user space stays readable. `CloseSockmap` is the end of the server under live connections: nothing in the process can change the maps then, and the kernel still has them.

### Socks5

`Talks` is `HandleClient`, a step for each message read (`stage` is the place in it, `"methods"` to `"end"`); `AcceptTCP` and `Served` are the ends of BIND's wait and of the relay of
a connection (which is `ConnLink`'s). `MonitorTimeout` is the read deadline of the loop that watches the TCP connection, `Relays` the goroutine of `tunnelUDP`: it looks at `done`, reads a
datagram, and judges its sender by IP address. `Send` and `Lose` are the network: a datagram in `net` may be read at any time, in any order, once or
not at all.

### Connections

`conn` are the connections in the order they were made, each with where its goroutine is, reduced to its looks at the cache and its records:
`ServeConnLink` starts one (and looks), `Work` takes the next step, and `handleHTTP`, `ForwardHTTP` are the plain requests of the HTTP proxy, which have a record and, under
GLOBAL, a look at the agent, but are never looked up in the cache. `adds` and `removes` are the two channels of `ConnectionRecordList`; `Add`, `Remove` and `Cleanup` its goroutine's `select`. `stray` and
`gone` only remember which removals and additions the list has missed, for the properties. `Expire` stands for every way the cache forgets.

## The runs

All runs but the violation run end without an error. `CHECK_DEADLOCK` is off everywhere because a finished connection, a closed
server, a process that has ended and a kernel without another packet are states in which the system rightly stops.

| Run | Instance | Question | Result |
| --- | --- | --- | --- |
| `connlink_safety` | 3 client, 2 server messages, all 4 modes, SOCKS5 and TPROXY, MitM on and off, three applications | does any order of the two goroutines and the peers let traffic past a rejected request or lose what the server wrote? What passes after a rejected response and why, when does a response skip the rules, is interception safe under them? | 3.25 M states; all hold |
| `connlink_liveness` | 2 client, 1 server messages, the same configurations | is what was written dealt with, do both goroutines end? | 253 000 states; all hold |
| `nfqueue_server` | 3 packets, channel of 2, 2 flows, 2 workers, every packet form, flows share a worker or not | flow order, verdicts, shutdown, and the refinement of `FlowQueue` | 169 000 states; all hold |
| `ctmark` | 4 packets, 2 flows to one destination and a third to one in SKIP_DOMAINS, ladder of two marks; `OnlyLastToD2`, `OnlyWhatIsRead` | exemption has a cause, `HTTP` sticks | 2.66 M states; all hold |
| `lifecycle` | 3 servers, 2 connections, signal handler and one API request, all 5 modes, any step may fail | does somebody accept at all times, who serves after a restart, what do overlapping restarts and failures leave behind? | 444 000 states; all hold |
| `firewall_setup` | 4 machines, 6 configurations, 3 jobs, one command that fails or one kill | does a job leave exactly its rules, one that fails none, and what can block the next? | 2.14 M states; all hold |
| `bad_tproxy_restart` | one machine with iptables, TPROXY, 2 jobs | does a restart, with nothing else going wrong, succeed? | violated |
| `packet_path` | 20 configurations, 15 kinds of connections, 3 packets, 2 in flight, 2 changes of the exempt set | does UA3F take its own packets, does a connection leave its path, do the queues get what they are for, in what do the backends differ? | 539 000 states; all hold |
| `http_rules` | 24 rule lists and clients, 6 kinds of requests, 3 of responses, 2 requests | who is judged by what, what gets out after a rejection, which agent, which body, and is every request settled? | 134 000 states; all hold |
| `offload` | 3 chunks each way, one system call that fails | do kernel and copies together lose, repeat or overtake the sniffed bytes? | 276 000 states; all hold |
| `socks5` | 3 datagrams, 2 UDP sockets of the client, a host elsewhere and one at the client's address | who gets what, how much after the end, is all closed? | 245 000 states; all hold |
| `connections` | 2 connections of two clients to one destination, channels of one | is the list explained by what it lost, does it forget, does anything go unread without a reason? | 550 000 states; all hold |

Type invariants, `SniffFirst` and `DrainedOnClose` are proved for every instance and therefore not run again.

**Properties of ConnLink.** `NoTrafficAfterReject`: of the exits of `ProcessLR` all but one copy the rest of the stream; no
interleaving reaches them after a rejection. `LateHasCause`: `Skipped`, set by the other goroutine, is looked at
by the loop after each write, and once before the byte copy. After a rejected response the server therefore gets the one request that the loop had in hand
and nothing else, or it gets what the byte copy sends, any number of messages; the copy runs past a rejection only if a message had derailed the
loop before: one that is no request, malformed, could not be written, or left its body unread (`Derails`). `HandshakeSafeWithResponseRules`: no byte of the handshake is relayed as data, if there
are response rules. `ResponsesDelivered`: the end of the request direction never loses, or leaves unread, what the
server wrote, except under SOCKS5, which closes the client socket when `ServeConnLink` returns, and under MitM, whose
connections cannot be half-closed. `UnevaluatedHasCause`: when a response skips the response rules, the stream lost
its framing, the client ended its stream, or it upgraded. `BothSidesFinish`, `ClientHeard`, `ServerHeardAfterClient`:
liveness, with the cases where the code does wait written out.

**Properties of Lifecycle.** `StaleServesOne`: a server that was replaced is still blocked in `Accept` on the shared listener and serves
one more connection with its old configuration, and never two. `NeverUnserved`: SOCKS5 and TPROXY hand the listener over
without a gap, whatever step fails and however restarts overlap. `ServedByCurrent`: after restarts one at a time, if the last
was successful, the current server serves, no other does, and the rules are there; REDIRECT is excluded because it is false for it.
`PanicHasCause`: the process panics only from overlapping restarts, or from closing an NFQUEUE server again
after a restart that failed. `ConnectionsServed`: a connection in the backlog is accepted or reset.

**Properties of FirewallSetup.** `RulesMatch`: after a job that succeeded every object is there as often as the current configuration wants, and no
other; what an earlier configuration or a component now switched off had is gone. With nftables alone it holds after kills too. The exceptions are written out: leftovers of a kill, and a TTL rule that
stays when the NFQUEUE server of the helper fails in a restart with a new TTL. `AllOrNothing`: a failed job leaves each component whole or absent.
`ExitsClean`: an orderly end leaves nothing but the set of exempt addresses (TPROXY and the watcher leave it) and the `clsact` qdisc. `BlockedBy`: the objects
that can ever make a setup fail, and why. Chains and sets are shared by name between modes, so a kill in one mode blocks a start in another; the
classic filters of a killed process block a later BPF helper, or stay in force unnoticed.

**Properties of PacketPath.** `NoLoop`: no packet of UA3F's own connections comes back to it, but at an address the machine got after the start on the port UA3F listens on.
`StrayHasCause`: a packet leaves the path of its connection only under TPROXY, when the exempt set changed meanwhile, or by ShellCrash's mark.
`RewriteReached`: in NFQUEUE mode the rewriter gets every packet it is there for. It is not so under iptables, when a helper that queues every packet has its jump before (the
first queue wins), nor for flow-offloaded connections. `TtlOnTheWire`: every IPv4 packet of a client leaves with the configured TTL, injected ones with a short one; under flow
offload 255 becomes 254, and only the first port of the LAN bridge is covered. `DifferenceHasCause`: with every chain compared (routes, injection, and all
queues of POSTROUTING, the desync server's and the helper's among them), nftables and iptables treat an IPv4 packet alike but for what it names. Only nftables spares SYN-ACKs of
LAN servers and of skipped ports, skipped ports in the reorder chain and the helper's, packets without payload (with `@ih`), and packets without an identification; it counts
the bytes and packets of both directions against the reorder thresholds, iptables those of one. And under iptables the first queue ends the walk, so the helper that queues every packet takes it from the others and the rewriter takes it from
the desync queue behind it.

**Properties of CtMark.** `ExemptHasCause`: a flow is exempted only because the exempted client spoke on it, or because a flow to its destination went up the whole ladder, by packets that held no
User-Agent or were queued without a mark (these start the ladder whatever they hold); however many packets of a flow wait in the queue together, they do not shorten it. The firewall skips only what the exempted client spoke to and what SKIP_DOMAINS
names. `HTTPSticks`: a flow marked `HTTP` loses the mark only to a packet queued before it was set, or to the exempted client.

**Properties of HttpRules.** They are about what the order of stages and goroutines does to a message, not about a single rule.
`RejectHolds`: a request on which some rule executed REJECT is neither forwarded nor answered, and is the last one read. `OrderlyExchange`: with a client that waits for each answer,
sends no HEAD, and whose requests are either answered or forwarded, responses are judged by their own request and arrive in order, whole. `AgentFromRules`: the server sees
the client's agent, a rule's, or none. `BodiesIntact`: what arrives is encoded as it says, and decodes to what was sent or to what a body rule made of it.
`RequestsSettled`: every request is answered, or excused by a reason listed.

**Properties of Offload, Socks5, Connections.** `ChunksKept`: every chunk is in exactly one place; only between the two deletions of `Add`'s error path are chunks dropped, and only the
server's. `SniffedFirst`: what the sniffer has read leaves before what the kernel moves. `RelayedRight`: hosts get what the client addressed to them, the client what hosts sent, at an address
it uses, and at most one datagram is relayed after the end; a host at the client's own IP address is the exception. `Released`: a client that leaves leaves nothing open, except
a BIND that still waits. `ListExplained`: an entry too many or too few goes back to a lost or overtaken record; `ForgottenInTheEnd`: none stays for good.
`UninspectedHasCause`: a connection is copied unread only under GLOBAL, and only to where an earlier one spoke TLS, something else than HTTP, or showed a whitelisted agent.

**Why the bounds are enough.** Two messages a side are a first one, whose treatment is special, and a later one, which meets what the
first left behind (an unread body, a changed protocol, a half-closed socket); three client messages allow a message that
derails the loop and two that the copy sends, or two requests after a rejected response, one more than `LateHasCause` permits the loop. Three packets and channels of two fill a
channel and bring one packet more, put an invalid packet before, between and after others, and let `Close` come at every point;
four packets are a whole ladder of two marks (three packets) and one more to be exempted or to push on.
Two flows to one destination share the cache and the skip set. The third flow shows what SKIP_DOMAINS exempts; `OnlyLastToD2` lets
one packet, the last, be on it, because its marks and destination meet nothing of the other two flows', and `OnlyWhatIsRead` leaves one value to what no step reads (the contents of a packet that passes a full channel). Three servers are the first one and two restarts, which may be one after
the other or overlap; a third restart would find what the second found. Two connections let a replaced server accept
twice, once more than `StaleServesOne` permits. Three jobs are a start, whatever goes wrong in it or after it, and two more that meet the leftovers and what they
become; one mishap is enough for each kind of leftover, and two would only add up what two single ones leave. The machines and configurations switch every branch of the setups both ways. Three packets are a SYN, an
acknowledgement and data, the cases the chains tell apart, two in flight can overtake each other's changes, and two changes exempt an address and take it back.
Two requests are one and the next, whose Metadata may overwrite the first's; the lists put every action into each stage that knows it, before and after a `continue`. Three chunks are the sniffed one, one in
flight while the maps change and one after. Three datagrams are the client's first, an answer, and one after the end. Two connections let the
second find what the first left in cache and list; `connections` was also run with channels of two, with the same result. The proofs remove these bounds from the properties they state.

## Fairness

`FairSpec` of `ConnLink` has weak fairness on each goroutine: the Go scheduler runs a goroutine that is not
blocked. The peers owe nothing: they may stay silent, and need not close; properties that need them to close say so.
`FairSpec` of `NfqueueServer` has it on the netlink goroutine's own steps, on each worker and on the rest of `Close`; not on `CbReceive`
(the kernel need not queue another packet) and not on `CloseCancel` (nobody has to call `Close`).
`FairSpec` of `Lifecycle` has it on the steps of each caller, on each accept loop and on the end of the process, and strong fairness on
`Accept`: its errors pass (too many open files), so a loop that retries for ever does accept at last. Nobody has to restart or stop the process.
`HttpRules` has weak fairness on each of the two goroutines and on the server, which answers what it received in full: this is the one peer that owes anything, and only `RequestsSettled` uses it.
`Socks5` has it on `HandleClient` once the client has left, because its reads then return an error, and on the relay, whose reads have a deadline of 30 seconds;
a client that stays owes nothing (the handshake's reads have no deadline), and nobody has to connect to BIND's listener.
`Connections` has it on each branch of the list's goroutine: Go's `select` chooses at random among the ready channels, and the ticker ticks.
`CtMark`, `FirewallSetup`, `PacketPath` and `Offload` are checked without fairness, for safety only.

## The proofs

Every theorem holds for all values of the constants that satisfy the named assumptions, which are no more than types and
sizes: `BoundsAssumption`, `SetupsAssumption` (`ConnLink`); `SizesAssumption`, `HashesAssumption`, `FormsAssumption`
(`NfqueueServer`); `PacketsAssumption` (`FlowQueue`); `DstAssumption`, `MarkAssumption` (`CtMark`); `BoundsAssumption` (`Offload`, not even needed);
`BoundsAssumption`, `CallersAssumption`, `ModesAssumption` (`Lifecycle`: any number of callers, servers and connections);
`BoundsAssumption`, `ConfigsAssumption`, `KindsAssumption` (`PacketPath`: the forms that a configuration and a connection can have); `BoundAssumption`, `TextsAssumption`,
`ConfigsAssumption`, `KindsAssumption`, `RepliesAssumption` (`HttpRules`: the forms of rules, requests and responses, whose bodies are as net/http hands them over); `LocalAssumption`, `BoundAssumption` (`Socks5`: UDP addresses of the client
and of others are not the same); `CapacityAssumption` (`Connections`); `BoundsAssumption`, `HostsAssumption`, `UplinksAssumption`, `ConfigsAssumption` (`FirewallSetup`: the forms of a machine, of its interfaces, of which at most
`wan` and `wwan` have the default route, and of a configuration; any set of them, any number of starts, faults and kills). TLC evaluates them in the runs.

| Theorem | Says | Rests on |
| --- | --- | --- |
| `LinkProofs!TypeCorrect` | types; no read position passes what was sent | `TypeInv`: `TypeOK`, and a message is waiting while the client handshake runs |
| `RejectIsFinal` | `NoTrafficAfterReject` | `RejectInv`: nothing past the read position was touched; a rejected request is the last one read, `skipped` is set and the loop has ended |
| `LateTrafficHasCause` | `LateHasCause`, byte copy included, for streams of any length | `LoopInv`: a rejection has set `skipped`, and the copy runs beside it only after a message that derailed the loop; `LateInv`: after a late request the loop is at or past the check of `skipped` |
| `SniffComesFirst` | `SniffFirst` | inductive with the types |
| `InterceptionIsSafe` | `HandshakeSafeWithResponseRules` | `MitmInv`: the handshake runs only while `SniffDone` is pending, and a reader is never on the old connection after it |
| `UnevaluatedExplained` | `UnevaluatedHasCause` | `RuleInv` (`InOrder`, `Waits`, `Hearing`, `Released`, `Explained`), with `ClientInv` and `ServerInv` about the peers |
| `HalfCloseDelivers` | `ResponsesDelivered` | `DeliveryInv`: outside SOCKS5 and MitM the halves the response side uses are closed only by that side (`HalvesKept`), which ends for one of three reasons (`EndedFor`) |
| `DatagramProofs!TypeCorrect` | types, and channels within their capacity | `Capacity`, with `Received`: only the callback adds, and only one packet |
| `DecidedInFlowOrder` | `FlowOrder` | `IInv` |
| `CloseDrains` | `DrainedOnClose` | `IInv` |
| `ServesLikeAFlowQueue` | `ImplementsFlowQueue` | `IInv`: initial states map to initial states, every step to a step or a stutter |
| `HandoverProofs!TypeCorrect` | types; no mark off the ladder | inductive |
| `ExemptionHasCause` | `ExemptHasCause`, with every writer of the skip set | `IInv` |
| `HTTPMarkSticks` | `HTTPSticks` | `TypeOK` and the cases of `NextMark` |
| `KernelKeepsChunks` | `ChunksKept`, for any number of chunks and of failed system calls | `OffloadInv` |
| `SniffedGoesFirst` | `SniffedFirst` | `OffloadInv`, above all `FirstChunk` |
| `LifecycleProofs!TypeCorrect` | types; an accept loop that was started has a listener | `TypeInv`: connections are counted, a server about to become the current one has a listener (`HasListener`) |
| `StaleServedOnce` | `StaleServesOne` | `StaleInv` |
| `AlwaysAServer` | `NeverUnserved` | `ServeInv` |
| `PanicsHaveCause` | `PanicHasCause` | `CausedInv` |
| `CurrentServes` | `ServedByCurrent` | `PlaceInv`, on `CausedInv` |
| `FirewallSetupProofs!FirewallType` | types; only known commands are ever listed | `FirewallInvariant` |
| `FirewallRulesMatch` | `RulesMatch`, for any number of starts, restarts, faults and kills on any machine | `FirewallInvariant`: `IInv`, above all `Stages` and `HookInv` |
| `FirewallAllOrNothing` | `AllOrNothing` | `Stages` (`Rested`), `HookInv` |
| `FirewallExitsClean` | `ExitsClean` | `Ending` |
| `FirewallBlockedBy` | `BlockedBy` | `Stages`, `HookInv` (for filters) |
| `PacketPathProofs!NoLoopEver` | `NoLoop`, for every configuration and connection and any number of packets | `PInv` |
| `NoStrayWithoutCause` | `StrayHasCause` | `PInv`, above all `OnPath`: where a packet can be, given where the first of its connection went |
| `FixedTtl` | `TtlOnTheWire` | `PInv` (`Timed`: who has set the TTL so far) |
| `DifferencesHaveCause` | `DifferenceHasCause`, for every chain, configuration and IPv4 packet | which queues each backend gives a packet (`NftHas`, `IptChain`, `IptHas`): under nftables each chain that matches, under iptables the first jump (`HelperFirst`); `QueuesDiffer`; `PInv` |
| `RewriterReached` | `RewriteReached` | the order of jumps and hooks in POSTROUTING, `PInv` |
| `HttpRulesProofs!RejectedGoesNowhere` | `RejectHolds`, for every list of rules, every request and any number of them | `RInv` (`RejectInvariant`) |
| `NothingInvented` | `Before`: whatever was forwarded, sent elsewhere or answered by UA3F had been read | `RInv` |
| `AgentsComeFromRules` | `AgentFromRules` | `MessageInvariant`: `RInv`, and what the message in hand can hold at each stage (`MInv`, `Answering`) |
| `BodiesStayIntact` | `BodiesIntact` | `MessageInvariant` |
| `ExchangeStaysOrderly` | `OrderlyExchange`, for every list of rules and any number of requests | `OrdInv`, on `MessageInvariant` |
| `DatagramProofs!OnlyWhatWasSent` | `RelayedRight`, for any number of sockets, hosts and datagrams | `RInv` |
| `LinkProofs!InspectedUnlessKnown` | `UninspectedHasCause`, for any number of connections | `CInv` |
| `ListHasReasons` | `ListExplained`, for channels of every capacity | `LInv` |

*Why the invariants are needed.* `FlowOrder` alone is not inductive: a packet may be handled while an earlier one is still in a channel of
another worker, as far as the property knows. `DatagramProofs!IInv` adds that the packets past `got` are in the kernel and only the last one
received is held (`Received`), that a worker has one packet in hand (`OneInHand`), that what a worker took has nothing of its
channel before it (`TakenInOrder`), why a worker has left (`GoneFor`), and how far the goroutines are when `Close` is
(`ClosedBehind`). `ExemptHasCause` counts decided packets (`Sniffed`), but a verdict looks at the mark the packet was queued with:
`HandoverProofs!IInv` says that every mark on the ladder, and every mark a queued packet carries, has as many such packets of
its flow behind it as its rung is high (`MarkHasRungs`, `SnapHasRungs`), and that flow, cache and skip set each have their cause.
Packets that were queued together all carry the same low mark, so they can only set the flow back, never ahead: this is
the step the proof turns on.

Both theorems on the lifecycle rest on `Fresh`: a server that was built and not yet assigned belongs to the one caller that built it, so
nobody else can have closed it. `StaleInv` adds that a replaced server that has served is in front of the check of `done` or gone
(`SharedStale`), and that one with a listener of its own has lost it (`OwnStale`). `ServeInv` adds that until the process is told to stop all servers share the first
listener, which nobody closes (`OneListener`), and that a caller past `Start` has a server that accepts (`Started`): then whoever closes
the last server has just started another, or stops the process.

`PanicHasCause` and `ServedByCurrent` are about restarts that do not overlap, and become statements about a lone caller: `CausedInv` says that as long as no two restarts met, at most one caller is at work
(`Single`), on the server that is current (`OnCurrent`), which nobody has closed unless an NFQUEUE restart failed (`Unclosed`), so that a look at `done` stays true until the `close` after it (`Looked`). `PlaceInv` adds what is
there at each position of its plan: replaced servers are out (`Retired`), nobody else accepts (`NoOther`), the current server does (`Alive`), and the rules are set (`Ruled`).

In `ConnLink` the response side passes over the rules only by a copy, or by returning with something unread. `RuleInv` says that it does so for a reason that lasts (`Explained`): either what is left in its stream cannot be judged, or no
response will come, or the request side has stopped because the client ended its stream or upgraded (`Released`). That the reasons last is a matter of the peers: after an upgrade no request follows and what is unread has no
fate yet (`ClientInv`), and a server that wrote raw bytes has answered everything, so that no response comes after them (`ServerInv`).

`PacketPathProofs!PInv` follows a packet: UA3F's own connection exists only once the client's has reached it (`Opened`), a SYN is the only packet of its connection (`Alone`), a connection without packets has no state (`Known`), and the
path its first packet took is the one the rules of today would choose, unless the exempt set changed (`Stays`). For each packet, `Placed` says what must be so where it is, `OnPath` that the place agrees with the path of its
connection, and `Timed` what its TTL is there. `NoLoop` turns on the order of the rules: in every chain the mark of UA3F's sockets is looked at before anything that leads to UA3F, so only an address the machine itself answers to gets by.

`RejectHolds` speaks of a request after it was rejected; `HttpRulesProofs!RInv` follows every request before. The request in hand is the last one read (`Current`); while its stages run it has reached nobody
(`Fresh`), and nothing reaches anybody that was not read (`Before`); a REJECT was executed only on the last request and has ended the loop (`Rejected`); and no URL rule of a connection
that is served rejects, because an engine with one would not have been built (`Checked`: the action would be nil). `DatagramProofs!RInv` says that what is in the network was sent (`FromSomewhere`), that
the client's UDP address is one it has sent from unless a host at its address spoke (`AddrSeen`, in `Relayed`), and that the relay has passed its look at `done` when a datagram is late (`OneAfter`).
`LinkProofs!CInv` adds to the property that each cached destination has a connection that put it there (`CacheHasCause`), which stays true when the cache forgets. `LInv` adds to the
list's two halves (`Over`, `Missing`) what the channels hold (`Queues`, `Entries`): a record in `adds` of a connection that is over must find its removal still queued, or be stray.

`MessageInvariant` follows agent and body through the stages: while a request is in hand, its agent is the client's, a rule's value or none, and its body decodes to the one read unless a body rule has run (`Carries`); a header that
is missing was missing or went in a DELETE (`Deleted`). Both are kept by the execution of any rule, whatever its stage. `Answering` says the same of the response.

`OrderlyExchange` joins both goroutines, the server and what the client has heard, so `OrdInv` counts: `H` answers are complete, and a client that waits has sent no more than one request beyond them (`Turns`).
That request is in one place at a time. ProcessLR has it, and then the server does not; or the server was sent it, and then what is due (`Due`: a response not read yet, or the one in hand) can only be the answer
to it (`Once`), and ProcessLR has nothing in hand. So the response in hand is judged by the request it answers (`Judgement`), no rule is read while ProcessLR writes to its header, and a piece of an answer is followed by the
rest of it (`Pieces`). The hypothesis that nobody answers what is forwarded is about the history, and a step can break it but not restore it (`StaysOrderly`).

`ChunksKept` is two sums per sender (`SharedAt`): there are as many places as numbers, and every number is in one of them, so that none is there twice. A system call only moves a chunk from one place to the next, and what the kernel
drops was nowhere else. Who may drop is a matter of the maps: `todo` still holds the whole rest of the plan, so that each of its values says what the maps contain (`Planned`), and the client has a peer entry only while
both sockets are in the map, the server one without the client's socket only after the last update of `Add` has failed (`Paired`). `SniffedFirst` needs to know where the first chunk is (`FirstChunk`): in the socket, in `sniffReader`, which nothing
overwrites (`Unopened`), in the hands of the copy, or out; and while it is not out no other chunk of the client has left and the client's socket is not in the map (`Alone`).

`RulesMatch` and the other properties of `FirewallSetup` speak of the kernel when no job runs, so `FirewallSetupProofs!IInv` has to say what the kernel is at every command of a job. It compares the kernel with the list `todo`,
because the list still holds the rest of the plan, and everything a job does to an object is one command at its head. The proof has two halves. `FirewallListProofs` proves `Lists`, which is about the list alone: which
commands can be on it in which phase (`ListInv`), in which order (`InOrder`: components one after the other, deletions before the installation, no object made twice), whose configuration is installed (`JobInv`), and that what the
helper has attached and what the list still attaches are together what the configuration asks for (`HookList`). `InOrder` is a relation between any two positions of the list, so a step that takes the head keeps it, and
only the few steps that write a list (`Boot`, `Restart`, `Stop`, `Build`, and the failures) need a look at the lists themselves; these are concatenations of named pieces, and no induction is needed.

The second half is about the kernel. For each component `Stage` knows where it is. While its old rules wait to be deleted, each object is either absent or deleted by a command still to come, which itself comes after everything that
would keep the kernel from deleting (`Gonner`, `Doomed`). While the new ones are installed, the kernel shows the commands that have run and none that has not (`Installing`). At rest it is what the setup of its
configuration puts there (`Rested`), or, after a failure, nothing or what that of another configuration puts there (`Loose`). `Ending` says the same of an orderly end. After a kill less is known, and `Cover` names the objects of which it is.
`HookInv` adds that nothing but what the helper remembers hangs on the interfaces, `Where` that a chain, a jump or a set of a server is in use, about to go, or left by a killed process, and `Singles` and `NoIpt` that jumps and sets are there
once, and only where there is iptables. The set of exempt addresses is the exception throughout (`Sure`, `Tidy`): the watcher makes it again at any time. `BlockedBy` then follows because a setup's own objects are gone
when its installation begins, but for those that a process of another mode has left.

*Only model-checked:*

- Liveness, which is out of the prover's reach: `BothSidesFinish`, `ClientHeard`, `ServerHeardAfterClient`, `EveryPacketDecided`, `CloseReturns`, `ConnectionsServed`, `RequestsSettled`, `Released`, `ForgottenInTheEnd`.

## Where the code disagrees

With a run, and in `PROJECT.json` under `findings`:

- *TPROXY restart under iptables* (`RestartSucceeds`, `bad_tproxy_restart`): the cleanup of `internal/server/tproxy/iptables.go` leaves the set `UA3F_SKIP_IPSET`
  behind and the setup insists on creating it, so that no restart succeeds; `/restart` is documented as "Reload configuration and restart runtime components".

Without a run of their own. Each is a definition of its module; added as an INVARIANT or PROPERTY to a copy of the configuration named, TLC shows the trace:

- *Server speaks first* (`ConnLink!ServerHeard`, `connlink_liveness`; `server.go:313`): with response rules nothing from the server is relayed until the
  client wrote something; SSH or SMTP through RULE mode with a response rule stands still. `docs/en/modes/socks5.md:22` says that generic TCP streams are forwarded.
- *Handshake stolen* (`HandshakeUndisturbed`, `connlink_safety`; `server.go:88`): without response rules `CopyRL` reads the server's handshake
  away from `HandleTLS`.
- *Bypass by half-close* (`ResponsesEvaluated`; `server.go:337`): a client that half-closes after its request turns `Protocol` to
  TCP, and the response passes without evaluation.
- *Dropped response, body delivered* (`DroppedStaysDropped`; `server.go:351`).
- *Close panics* (`NfqueueServer!NeverPanics`, `nfqueue_server`; `nfqueue.go:133`): send on a closed channel while the server is restarted.
- *Rewritten flow exempted* (`CtMark!RewrittenFlowsStay`, `ctmark`; `nfqueue_linux.go:168`): with an absent or outdated mark a rewritten packet does
  not set `HTTP`, and an upload walks its flow, and its destination, out of inspection.
- *Restart on a closed listener* (`Lifecycle!RestartServes`, `lifecycle`; `redirect_linux.go:171`): `Restart` of REDIRECT closes the listener and gives it to
  the new server, whose accept loop ends at once; `/restart` answers that it succeeded.
- *Nothing is split* (`PacketPath!FirstPayloadSplit`, `packet_path` with `ReorderDefault`; `cmd/root.go:213`): with the default thresholds of 8 bytes and 1500
  packets, which `docs/en/desync/tcp-reorder.md` names too, no packet of an established connection matches the desync rule: the handshake alone is longer than 8 bytes.
- *DROP does not drop* (`HttpRules!DropDrops`, `http_rules`; `rule.go:51`, `77`): a dropped request goes on. `docs/en/guide/concepts.md:51` says "Drop the request".
- *Same host goes nowhere* (`SameHostGoesOn`; `rule.go:95`): a REDIRECT-HEADER to the same host swallows the request. `docs/en/actions/redirect-header.md:14` says
  "If the rewritten URL keeps the same host, UA3F updates the request URL and continues."
- *Offloaded bytes overtake* (`Offload!InOrder`, `offload`; `server_linux.go:19`): the callers go on copying after `TryOffload`, whose comment tells them not to, and a
  chunk that the kernel moves can overtake one that a copy holds.

Seen in the code, and described by what the properties above exclude or name:

- *Relay.* One request passes after a rejected response, and any number once the request side is in the byte copy, which looks at `Skipped` only before it starts; SOCKS5 cuts off the response when the client half-closes; a first message under three bytes waits for more, and a TLS
  handshake has no timeout. A worker that met an invalid attribute is not replaced.
- *Restarts.* Two restarts at once can leave two servers running, one of which nobody can reach any more, and can close one `done` twice, a panic. A TPROXY restart whose rule
  setup fails leaves the old server without rules, and an NFQUEUE restart that fails leaves a closed server as the current one, so that the next `Close` panics. A restart racing SIGTERM may set up
  rules after they were cleaned up.
- *Kernel state.* A TTL rule set by a restart that failed stays, because `Close` looks for the one of the old configuration. The watcher of an iptables server is never stopped, and creates the exempt set again after the
  cleanup. TCX links vanish with the process; classic filters do not, and block a later helper or stay in force. A BPF helper does not remove firewall rules that a killed one left. `sysctl` settings are not restored.
- *Packets.* Under iptables the first queue in POSTROUTING wins; flow-offloaded connections bypass the rewriter; in NFQUEUE mode under nftables the desync server cuts payloads before the rewriter sees them.
- *Rules.* URL rules are reached only when a header rule matched that does not continue (`rule.go:58`); a matching ADD with `continue` is executed twice (`rule.go:59`); a rule whose action
  cannot be built (REJECT or DROP without a direction, a bad CIDR, a bad rewrite-regex) is a typed nil that passes `r != nil` (`engine.go:84`) and panics at the start. A 302 or 307 answered by UA3F is followed by the
  request's forwarding, and a redirect rule that does not match swallows the request. Response rules read `Metadata.Request`, which a pipelining client has overwritten; the header map
  is then read and written at once, which can end the process. An answer to HEAD announces a body, and takes the next response for it. A body that broke off becomes a complete, empty one under a body rule (`metadata.go:127`).
  A redirected request whose body is used up cannot be written, and the rest of the stream is then copied unread (`LRForward`). Go's own agent reaches the host of REDIRECT-HEADER after a DELETE of User-Agent.
- *Plain requests of the HTTP proxy* (`http.go:169-196`): REJECT is not looked at, so a rejected request goes on; a redirect writes to `metadata.ConnLink.LConn`, which is nil there, and the panic is
  caught by `net/http`; a dropped request gets 503, a dropped response an empty 200; hop-by-hop headers are copied.
- *Sockmap.* When the second peer entry cannot be added, `Add` deletes the entry that is not there (`sockmap_linux.go:117`): the first stays. `TryOffload`'s result is ignored.
- *SOCKS5.* The association ends after a minute of silence on its TCP connection, whatever its relay carries (`socks5.go:401`). Its client is known by IP address alone, so a host at that address is
  taken for it: its bytes are parsed as a SOCKS5 datagram and the replies go to it. BIND waits for ever on a listener that nothing closes when the client leaves.
- *Shared state.* A record may stay on the list until two daily cleanups have passed, and that of a live connection vanishes after a day or by an earlier connection's late removal. Under GLOBAL
  the first TLS connection to a destination caches it, so that later ones are not intercepted, although `docs/en/http-rewrite/mitm.md:39` says that "`hostname` controls which HTTPS destinations are intercepted".

## What is left out

- *In ConnLink:* BPF offload (`Sockmap` is nil; `Offload` has it), panics, read deadlines, partial writes (a message is written whole or lost), and the
  text of messages. What a rule does to a header is not visible; which decision results is a free choice (`HttpRules` makes it). REDIRECT
  serves a link as TPROXY does. A client that pipelines is included, since messages are written at any time.
- *In NfqueueServer:* `Start`'s error paths, a second `Close`, errors of the netlink socket, and packets that the kernel drops because its
  own queue is full.
- *In CtMark:* restarts (connmarks survive one, cache and skip set do not), IPv6, and the other exemptions of the rule set, which `RuleChains`
  has. A verdict is one step; `NfqueueServer` says why that is right for one flow, and packets of
  different flows touch only the cache and the skip set in common.
- *In Lifecycle:* the first start, the helper and the desync server, statistics, the `Sockmap` a server hands on, and reloaded configurations that
  change mode or port. The Recoverer is taken to catch every panic of a request. What the rules are is `FirewallSetup`'s.
- *In FirewallSetup:* commands that delete do not fail of themselves, jobs do not overlap (`Lifecycle` has that), and one object stands for several that are always
  made together: `SYN` for the TCP timestamp and the window rule. `sysctl`, the LAN routes and the kernel side of BPF are left out.
- *In PacketPath:* one connection of a host and the one UA3F opens for it; packets of exactly 41 bytes, which iptables' desync rule takes (`41:0xffff`) and nftables' does not (`> 41`); how many answers a server sends
  to a packet (at least one is assumed, which nftables' thresholds count); IP fragments, UDP under TPROXY beyond the hook that catches it, replies after PREROUTING, TCP options and the window (single assignments
  to a header), and the bytes of packets. Which payload is a User-Agent is `CtMark`'s free choice.
- *In HttpRules:* ends of client and server (`ConnLink` has them), WebSocket upgrades, interim and 204 responses, `https` as a scheme, the log line of a matched rule (`engine.go:113`, whose `LogValue`
  gives the header an empty User-Agent field when it has none and that level is logged), and header fields beyond the agent and one other.
- *In Offload:* how the programs are attached, partial writes, and descriptors that are closed and reused between a system call and the next.
- *In Socks5:* authentication beyond its result, the contents of datagrams, and the idle timer of a relay in which datagrams keep coming (its end is a choice at any time).
- *In Connections:* the lists of rewritten and passed requests, which only count, and the dumps, which only read. Size, lifetime and restart of the cache are one action, `Expire`.
- *Not modelled at all:* the components with status `not_modelled` in `PROJECT.json`, each with its reason. Configuration, routes, logging,
  daemon and the OpenWrt package are data, I/O or another program; the log broadcaster takes a subscriber out under a lock before it closes its channel, so nothing can interleave. The kernel programs of
  `internal/bpf` are compiled separately, and modelled only by what they do to a socket or a packet. `internal/common/frame.go` is called by nothing.

## Plan

Done: the models above with their proofs. Next, most important first:

1. A composition of `ConnLink` and `Connections` in which a link's looks at the cache are steps of several links, if an instance that TLC can finish shows more than the two do apart.
2. The scan of `internal/rewrite/packet.go` against a reference definition over bounded payloads, and the certificate cache of `internal/mitm` with concurrent misses.
