------------------------------- MODULE CtMark -------------------------------
(***************************************************************************)
(* NFQUEUE mode (server/nfqueue): which flows the kernel keeps sending to  *)
(* the User-Agent rewriter.  Every packet carries the connmark its flow    *)
(* had when it was queued.  The handler climbs a ladder of sniff marks as  *)
(* long as it finds nothing, marks the flow HTTP when it rewrote something *)
(* and NotHTTP when the ladder ends; the firewall no longer queues packets *)
(* of a NotHTTP flow, and the destination is remembered.  How packets move *)
(* through the queue is FlowQueue; a verdict is one step here.             *)
(* A definition named Mutant... is the one after it with a plausible fault *)
(* in it; the specification does not use it.                               *)
(***************************************************************************)
EXTENDS FlowQueue, Integers, FiniteSets

CONSTANTS
    Dsts,        \* destinations
    Dst,         \* the destination of each flow
    SkipDomains, \* the destinations that names in SKIP_DOMAINS resolve to
    Lower, Upper \* SniffCtMarkLower and SniffCtMarkUpper

ASSUME DstAssumption  == Dst \in [Flows -> Dsts] /\ SkipDomains \subseteq Dsts

NotHTTP == 201   \* NotHTTPCtMark
HTTP    == 202   \* HTTPCtMark
Foreign == 1     \* a mark of other software
Absent  == -1    \* no mark in the conntrack attribute
ASSUME MarkAssumption == Lower \in Nat /\ Upper \in Nat /\ HTTP < Lower /\ Lower <= Upper
Marks   == {0, Foreign, HTTP, NotHTTP} \cup (Lower..Upper)

(* A packet without a User-Agent to rewrite, with one, with the exempted
   client's User-Agent.                                                    *)
Kinds == {"plain", "ua", "skip"}

VARIABLES
    kind,      \* what each packet holds, chosen when it is queued
    mark,      \* connmark of each flow
    snap,      \* the mark a packet was queued with; or Absent
    rewritten, \* packets whose User-Agent was replaced
    cache,     \* s.Cache: destinations that are not HTTP
    skipping,  \* s.SkipIpChan
    skipset    \* the firewall's set of addresses to skip

vars == <<queueVars, kind, mark, snap, rewritten, cache, skipping, skipset>>

Init ==
    /\ QueueInit
    /\ kind = [i \in Packets |-> "plain"]
    /\ mark \in [Flows -> {0, Foreign}]
    /\ snap = [i \in Packets |-> Absent]
    /\ rewritten = {} /\ cache = {} /\ skipping = {} /\ skipset = {}

DstOf(i) == Dst[flow[i]]

-----------------------------------------------------------------------------
(* The firewall: NftSetNfqueue. *)

Exempted(i) == mark[flow[i]] = NotHTTP \/ DstOf(i) \in skipset

Arrives(i) == \E k \in Kinds : kind' = [kind EXCEPT ![i] = k]

(* A kernel may leave a mark of zero out of the conntrack attribute. *)
Queue ==
    /\ Receive /\ Arrives(got + 1) /\ ~Exempted(got + 1)
    /\ \E m \in {mark[flow[got + 1]], Absent} :
          /\ m = Absent => mark[flow[got + 1]] = 0
          /\ snap' = [snap EXCEPT ![got + 1] = m]
    /\ UNCHANGED <<mark, rewritten, cache, skipping, skipset>>

PassBy ==
    /\ got < MaxPackets /\ Exempted(got + 1)
    /\ got' = got + 1
    /\ verdict' = [verdict EXCEPT ![got + 1] = "exempt"]
    /\ UNCHANGED <<flow, kind, mark, snap, rewritten, cache, skipping, skipset>>

(* The channel of the worker is full: accepted without a look. *)
PassFull ==
    /\ Bypass
    /\ UNCHANGED <<kind, mark, snap, rewritten, cache, skipping, skipset>>

-----------------------------------------------------------------------------
(* getNextMark for a packet without the exempted User-Agent: the mark its
   flow gets, which is the one it has when the handler does not set one.   *)

MutantNextMarkEarly(i, modified, cached) ==
    LET m == snap[i]  now == mark[flow[i]] IN
    IF m = Absent THEN Lower
    ELSE IF m \in {HTTP, NotHTTP} THEN now
    ELSE IF cached THEN NotHTTP
    ELSE IF modified THEN HTTP
    ELSE IF m = 0 THEN Lower
    ELSE IF m \in Lower..Upper /\ m + 1 >= Upper THEN NotHTTP
    ELSE IF m \in Lower..Upper THEN m + 1 ELSE now
MutantNextMarkNoHTTP(i, modified, cached) ==
    LET m == snap[i]  now == mark[flow[i]] IN
    IF m = Absent THEN Lower
    ELSE IF m = NotHTTP THEN now
    ELSE IF cached THEN NotHTTP
    ELSE IF modified THEN HTTP
    ELSE IF m = 0 \/ m = HTTP THEN Lower
    ELSE IF m = Upper THEN NotHTTP
    ELSE IF m \in Lower..Upper THEN m + 1 ELSE now
NextMark(i, modified, cached) ==
    LET m == snap[i]  now == mark[flow[i]] IN
    IF m = Absent THEN Lower
    ELSE IF m \in {HTTP, NotHTTP} THEN now
    ELSE IF cached THEN NotHTTP
    ELSE IF modified THEN HTTP
    ELSE IF m = 0 THEN Lower
    ELSE IF m = Upper THEN NotHTTP
    ELSE IF m \in Lower..Upper THEN m + 1 ELSE now

SetMark(i, m) == mark' = [mark EXCEPT ![flow[i]] = m]

(* handlePacket when the destination is in the cache. *)
ServeCached(i) ==
    /\ Serve(i) /\ DstOf(i) \in cache
    /\ SetMark(i, NextMark(i, FALSE, TRUE))
    /\ UNCHANGED <<kind, snap, rewritten, cache, skipping, skipset>>

(* handlePacket, RewritePacketUserAgent and sendVerdict for each kind of
   packet.  The top of the ladder also fills the cache.                    *)
ServePlain(i) ==
    /\ Serve(i) /\ DstOf(i) \notin cache /\ kind[i] = "plain"
    /\ SetMark(i, NextMark(i, FALSE, FALSE))
    /\ cache' = IF snap[i] = Upper THEN cache \cup {DstOf(i)} ELSE cache
    /\ UNCHANGED <<kind, snap, rewritten, skipping, skipset>>

ServeUA(i) ==
    /\ Serve(i) /\ DstOf(i) \notin cache /\ kind[i] = "ua"
    /\ SetMark(i, NextMark(i, TRUE, FALSE))
    /\ rewritten' = rewritten \cup {i}
    /\ UNCHANGED <<kind, snap, cache, skipping, skipset>>

(* The packet cannot be serialized, or the kernel refuses the altered one. *)
ServeUAFails(i) ==
    /\ Serve(i) /\ DstOf(i) \notin cache /\ kind[i] = "ua"
    /\ UNCHANGED <<kind, mark, snap, rewritten, cache, skipping, skipset>>

(* The address goes to the firewall unless SkipIpChan is full. *)
ServeSkip(i) ==
    /\ Serve(i) /\ DstOf(i) \notin cache /\ kind[i] = "skip"
    /\ SetMark(i, NotHTTP)
    /\ skipping' \in {skipping, skipping \cup {DstOf(i)}}
    /\ UNCHANGED <<kind, snap, rewritten, cache, skipset>>

-----------------------------------------------------------------------------
(* The goroutine of nftWatch, or iptWatch.  An address that the firewall does
   not take is dropped: the error is ignored.                              *)
AddSkipIP(d) ==
    /\ d \in skipping
    /\ skipping' = skipping \ {d} /\ skipset' \in {skipset, skipset \cup {d}}
    /\ UNCHANGED <<queueVars, kind, mark, snap, rewritten, cache>>

(* Its start and its ticker: the addresses of those names that resolve. *)
AddSkipDomains ==
    /\ \E D \in SUBSET SkipDomains : skipset' = skipset \cup D
    /\ UNCHANGED <<queueVars, kind, mark, snap, rewritten, cache, skipping>>

(* An element of the firewall's set times out. *)
SkipIPExpires(d) ==
    /\ d \in skipset
    /\ skipset' = skipset \ {d}
    /\ UNCHANGED <<queueVars, kind, mark, snap, rewritten, cache, skipping>>

(* The expirable LRU drops an entry that is old, or for a newer one. *)
CacheForgets(d) ==
    /\ d \in cache
    /\ cache' = cache \ {d}
    /\ UNCHANGED <<queueVars, kind, mark, snap, rewritten, skipping, skipset>>

Next ==
    \/ Queue \/ PassBy \/ PassFull
    \/ \E i \in Packets : \/ ServeCached(i) \/ ServePlain(i) \/ ServeUA(i)
                          \/ ServeUAFails(i) \/ ServeSkip(i)
    \/ \E d \in Dsts : AddSkipIP(d) \/ SkipIPExpires(d) \/ CacheForgets(d)
    \/ AddSkipDomains

Spec == Init /\ [][Next]_vars

-----------------------------------------------------------------------------
(* The types; a mark is never off the ladder. *)
TypeOK ==
    /\ flow \in [Packets -> Flows] /\ kind \in [Packets -> Kinds]
    /\ got \in 0..MaxPackets
    /\ verdict \in [Packets -> Verdicts \cup {"exempt"}]
    /\ mark \in [Flows -> Marks]
    /\ snap \in [Packets -> Marks \cup {Absent}]
    /\ rewritten \subseteq Packets
    /\ cache \subseteq Dsts /\ skipping \subseteq Dsts /\ skipset \subseteq Dsts

(* The packets that may have taken a flow up the ladder: those in which the
   handler found no User-Agent, and those queued without a mark, which start
   the ladder whatever they hold.                                          *)
Sniffed(f) == {k \in 1..got : /\ flow[k] = f /\ verdict[k] = "served"
                              /\ kind[k] = "plain" \/ snap[k] = Absent}

(* A flow is marked NotHTTP only when the exempted client spoke on it, or
   when a flow to its destination has climbed the whole ladder: Upper -
   Lower + 2 packets.  Packets of a flow that wait in the queue together do
   not shorten the ladder, and a packet in which the handler found a
   User-Agent counts for it only if it was queued without a mark.  The
   firewall skips only destinations that the exempted client spoke to, and
   those of SKIP_DOMAINS.                                                  *)
ExemptHasCause ==
    /\ \A f \in Flows :
          mark[f] = NotHTTP =>
              \/ \E k \in 1..got : flow[k] = f /\ verdict[k] = "served" /\ kind[k] = "skip"
              \/ \E g \in Flows : /\ Dst[g] = Dst[f]
                                  /\ Cardinality(Sniffed(g)) >= Upper - Lower + 2
    /\ \A d \in skipset \ SkipDomains :
          \E k \in 1..got : verdict[k] = "served" /\ kind[k] = "skip" /\ DstOf(k) = d

(* A flow marked HTTP loses the mark only to a packet that was queued before
   the mark was set, or to the exempted client.                            *)
HTTPSticks ==
    [][\A f \in Flows :
         mark[f] = HTTP /\ mark'[f] # HTTP =>
             \E i \in Packets : /\ flow[i] = f /\ verdict'[i] # verdict[i]
                                /\ snap[i] # HTTP \/ kind[i] = "skip"]_vars

(* A flow in which a User-Agent was rewritten stays under inspection unless
   the exempted client talks to its destination, or SKIP_DOMAINS names it. *)
RewrittenFlowsStay ==
    \A i, j \in Packets :
        i \in rewritten /\ i < j /\ flow[i] = flow[j] /\ verdict[j] = "exempt" =>
            \/ DstOf(j) \in SkipDomains
            \/ \E k \in Packets : kind[k] = "skip" /\ DstOf(k) = DstOf(j)
=============================================================================
