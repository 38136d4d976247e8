------------------------------ MODULE ConnLink ------------------------------
(***************************************************************************)
(* One proxied connection: the client socket L, the server socket R, and   *)
(* the two goroutines that serve them.  ProcessLR (or CopyLR) carries      *)
(* client messages to the server: it sniffs the first message, decides the *)
(* protocol, rewrites HTTP requests and falls back to a byte copy.         *)
(* ProcessRL (or CopyRL) carries server messages back; with response rules *)
(* it first waits on SniffDone.  The two share Skipped, Protocol and the   *)
(* sockets, without a lock.                                                *)
(*                                                                         *)
(* A stream is the list of messages its peer wrote, kept whole: kind[i]    *)
(* says what message i is, fate[i] what became of it, and a read position  *)
(* separates the consumed messages from the ones still in the socket.      *)
(* BPF offload is disabled (Sockmap = nil, so TryOffload returns false).   *)
(*                                                                         *)
(* A definition named Mutant... is the one after it with a plausible fault *)
(* in it; the specification does not use it.                               *)
(***************************************************************************)
EXTENDS Naturals, FiniteSets

CONSTANTS
    MaxC,    \* bound: messages the client writes
    MaxS,    \* bound: messages the server writes
    Setups   \* the configurations a connection may be served under

Modes   == {"DIRECT", "GLOBAL", "RULE", "RULE_RESP"}  \* RULE_RESP: RULE, ServeResponse()
Servers == {"SOCKS5", "HTTP", "TPROXY"}               \* REDIRECT serves a link as TPROXY does
Apps    == {"http", "https", "other"}                 \* what client and server talk

ASSUME BoundsAssumption == MaxC \in Nat /\ MaxS \in Nat
ASSUME SetupsAssumption ==
    Setups \subseteq [mode : Modes, server : Servers, mitm : BOOLEAN, app : Apps]

VARIABLES
    setup,      \* the configuration of this connection
    lr, rl,     \* where the two goroutines are
    skipped,    \* ConnLink.Skipped
    protocol,   \* ConnLink.Protocol
    pending,    \* counter of the SniffDone WaitGroup
    mitmed,     \* LConn and RConn are the TLS connections of HandleTLS
    rconn,      \* the connection the server-to-client side reads: R, or its TLS stream
    l, r,       \* which halves of the two sockets the proxy has open
    cached,     \* RAddr is in Server.Cache
    kind, fate, csent, lread, lrest,     \* client stream; lrest: an unread body is at lread
    skind, sfate, ssent, rread, rrest,   \* server stream
    cliEnd, srvEnd,  \* how far the peers have closed
    late        \* client messages the server got a part of after a response was rejected

client == <<kind, csent>>
server == <<skind, ssent>>
ends   == <<cliEnd, srvEnd>>
shared == <<skipped, protocol, pending, mitmed, cached>>
lvars  == <<lr, fate, lread, lrest, late>>
rvars  == <<rl, rconn, sfate, rread, rrest>>
vars   == <<setup, lr, rl, skipped, protocol, pending, mitmed, rconn, l, r, cached,
            kind, fate, csent, lread, lrest, skind, sfate, ssent, rread, rrest,
            cliEnd, srvEnd, late>>

Requests  == {"get", "post", "ws"}            \* post has a body, ws asks for an upgrade
CKinds    == Requests \cup {"hello", "raw", "short", "none"}   \* short: under 3 bytes
Responses == {"resp", "respBody"}
SKinds    == Responses \cup {"hello", "raw", "none"}
(* "sent": in the socket, or not yet written; "lost": read, then not written;
   "leaked": the head was consumed, the body copied on.                     *)
Fates     == {"sent", "forwarded", "raw", "swallowed", "leaked", "rejected", "bad",
              "lost", "mitm"}
SFates    == {"sent", "forwarded", "raw", "dropped", "leaked", "rejected", "bad",
              "lost", "mitm", "stolen"}
LRStates  == {"sniff", "mitm", "mitmServer", "loop", "after", "ret", "raw", "served", "done"}
RLStates  == {"wait", "loop", "read", "ret", "raw", "done"}
Protocols == {"TCP", "TLS", "HTTP", "HTTPS", "WebSocket"}
Ends      == {"open", "fin", "gone"}          \* gone: closed in both directions
Halves    == {"rd", "wr"}                     \* of a socket, as the proxy sees it
IsHTTP(p) == p \in {"HTTP", "HTTPS"}

-----------------------------------------------------------------------------
(* ServeConnLink: which goroutines serve the link, and where they start.   *)
CopyOnly == \/ setup.mode = "DIRECT"
            \/ setup.mode = "GLOBAL" /\ cached

Init ==
    /\ setup \in Setups
    /\ cached \in BOOLEAN /\ (cached => setup.mode = "GLOBAL")  \* read in GLOBAL only
    /\ lr = IF CopyOnly THEN "raw" ELSE "sniff"
    /\ rl = IF setup.mode = "RULE_RESP" THEN "wait" ELSE "raw"
    /\ pending = IF setup.mode = "RULE_RESP" THEN 1 ELSE 0
    /\ rconn = IF setup.mode = "RULE_RESP" THEN "none" ELSE "tcp"
    /\ skipped = FALSE /\ protocol = "TCP" /\ mitmed = FALSE
    /\ l = Halves /\ r = Halves
    /\ kind = [i \in 1..MaxC |-> "none"] /\ fate = [i \in 1..MaxC |-> "sent"]
    /\ skind = [j \in 1..MaxS |-> "none"] /\ sfate = [j \in 1..MaxS |-> "sent"]
    /\ csent = 0 /\ lread = 0 /\ lrest = FALSE
    /\ ssent = 0 /\ rread = 0 /\ rrest = FALSE
    /\ cliEnd = "open" /\ srvEnd = "open"
    /\ late = {}

(* CloseLR and CloseRL: half-closes on TCP connections, full closes on the
   TLS connections MitM installs.                                          *)
MutantCloseLRFully == l' = {} /\ r' = {}
CloseLR == IF mitmed
           THEN l' = {} /\ r' = {}
           ELSE l' = l \ {"rd"} /\ r' = r \ {"wr"}
CloseRL == IF mitmed
           THEN l' = {} /\ r' = {}
           ELSE l' = l \ {"wr"} /\ r' = r \ {"rd"}

(* Reading L: a message can be peeked once 3 of its bytes are there; the
   reader fails once L is closed or the client ended and all is consumed.  *)
Unread    == lread < csent /\ "rd" \in l
Peekable  == Unread /\ ~(kind[lread + 1] = "short" /\ lread + 1 = csent)
PeekFails == \/ "rd" \notin l
             \/ cliEnd # "open" /\ (lread = csent \/ ~Peekable)
RUnread   == rread < ssent /\ "rd" \in r
RFails    == "rd" \notin r \/ (srvEnd # "open" /\ rread = ssent)
CanWriteR == "wr" \in r /\ srvEnd # "gone"
CanWriteL == "wr" \in l /\ cliEnd # "gone"

(* SniffOnce lets the counter go down once. *)
DoneSniff == pending' = 0

Consume(f) == /\ lread' = lread + 1
              /\ fate' = [fate EXCEPT ![lread + 1] = f]
RConsume(f) == /\ rread' = rread + 1
               /\ sfate' = [sfate EXCEPT ![rread + 1] = f]

(* What io.Copy reads next: the rest of a body, or a whole message. *)
CopyNext(f)  == IF lrest THEN fate' = [fate EXCEPT ![lread] = "leaked"] /\ UNCHANGED lread
                         ELSE Consume(f)
RCopyNext(f) == IF rrest THEN sfate' = [sfate EXCEPT ![rread] = "leaked"] /\ UNCHANGED rread
                         ELSE RConsume(f)

(* What becomes of message i after a rejected response, for the properties. *)
RejectedResponse == \E j \in 1..MaxS : sfate[j] = "rejected"
NoteLate(i) == late' = IF RejectedResponse THEN late \cup {i} ELSE late

-----------------------------------------------------------------------------
(* ProcessLR, first message.                                               *)

(* The client's bytes fail to arrive: neither TLS nor HTTP. *)
LRSniffEOF ==
    /\ lr = "sniff" /\ PeekFails
    /\ lr' = "ret"
    /\ UNCHANGED <<setup, shared, l, r, client, server, ends, fate, lread, lrest,
                   late, rvars>>

(* A ClientHello: the address is cached, and MitM is tried when it is
   enabled and the SNI names an allowed host.                              *)
LRSniffTLS ==
    /\ lr = "sniff" /\ ~mitmed /\ Peekable /\ kind[lread + 1] = "hello"
    /\ cached' = TRUE /\ protocol' = "TLS"
    /\ \E intercept \in IF setup.mitm THEN BOOLEAN ELSE {FALSE} :
          lr' = IF intercept THEN "mitm" ELSE "ret"
    /\ UNCHANGED <<setup, skipped, pending, mitmed, l, r, client, server, ends,
                   fate, lread, lrest, late, rvars>>

LRSniffRaw ==
    /\ lr = "sniff" /\ Peekable /\ kind[lread + 1] \in {"raw", "short"}
    /\ cached' = TRUE /\ lr' = "ret"
    /\ UNCHANGED <<setup, skipped, protocol, pending, mitmed, l, r, client, server,
                   ends, fate, lread, lrest, late, rvars>>

(* The protocol is set before the other side is released. *)
MutantLRSniffHTTPUnset ==
    /\ lr = "sniff" /\ Peekable /\ kind[lread + 1] \in Requests
    /\ DoneSniff
    /\ lr' = "loop"
    /\ UNCHANGED <<setup, skipped, protocol, mitmed, cached, l, r, client, server, ends,
                   fate, lread, lrest, late, rvars>>
LRSniffHTTP ==
    /\ lr = "sniff" /\ Peekable /\ kind[lread + 1] \in Requests
    /\ protocol' = IF protocol = "TLS" THEN "HTTPS" ELSE "HTTP"
    /\ DoneSniff
    /\ lr' = "loop"
    /\ UNCHANGED <<setup, skipped, mitmed, cached, l, r, client, server, ends,
                   fate, lread, lrest, late, rvars>>

(* HandleTLS, the handshake with the client: it may not trust the CA. *)
LRMitmClient ==
    /\ lr = "mitm"
    /\ \/ Consume("mitm") /\ lr' = "mitmServer"
       \/ Consume("bad") /\ lr' = "ret"
    /\ UNCHANGED <<setup, shared, l, r, client, server, ends, lrest, late, rvars>>

(* HandleTLS, the handshake with the server: on success both connections
   are replaced; on failure the client side is closed and the link returns
   to the byte copy.                                                       *)
LRMitmServer ==
    /\ lr = "mitmServer"
    /\ \/ /\ RUnread /\ skind[rread + 1] = "hello"
          /\ RConsume("mitm")
          /\ mitmed' = TRUE /\ lr' = "sniff"
          /\ UNCHANGED l
       \/ /\ RUnread
          /\ RConsume("bad")
          /\ l' = {} /\ lr' = "ret"
          /\ UNCHANGED mitmed
       \/ /\ RFails
          /\ l' = {} /\ lr' = "ret"
          /\ UNCHANGED <<mitmed, rread, sfate>>
    /\ UNCHANGED <<setup, skipped, protocol, pending, cached, r, client, server, ends,
                   fate, lread, lrest, late, rl, rconn, rrest>>

-----------------------------------------------------------------------------
(* ProcessLR, the request loop.                                            *)

LRLoopEOF ==
    /\ lr = "loop" /\ ~lrest /\ PeekFails
    /\ protocol' = IF protocol = "HTTPS" THEN "TLS" ELSE "TCP"
    /\ lr' = "ret"
    /\ UNCHANGED <<setup, skipped, pending, mitmed, cached, l, r, client, server, ends,
                   fate, lread, lrest, late, rvars>>

(* The next bytes are not a request: a body left unread, or another protocol. *)
MutantLRLoopStuckOnBody ==
    /\ lr = "loop"
    /\ Peekable /\ kind[lread + 1] \notin Requests
    /\ lr' = "ret"
    /\ UNCHANGED <<setup, shared, l, r, client, server, ends, fate, lread, lrest,
                   late, rvars>>
LRLoopNotHTTP ==
    /\ lr = "loop"
    /\ lrest \/ (Peekable /\ kind[lread + 1] \notin Requests)
    /\ lr' = "ret"
    /\ UNCHANGED <<setup, shared, l, r, client, server, ends, fate, lread, lrest,
                   late, rvars>>

ReadingRequest ==
    /\ lr = "loop" /\ ~lrest /\ Peekable /\ kind[lread + 1] \in Requests
    /\ UNCHANGED <<setup, pending, mitmed, protocol, l, r, client, server, ends, rvars>>

(* http.ReadRequest fails on a malformed request. *)
LRMalformed ==
    /\ ReadingRequest
    /\ Consume("bad") /\ lr' = "ret"
    /\ UNCHANGED <<skipped, cached, lrest, late>>

(* A request is rewritten and written to R.  GLOBAL caches a whitelisted
   address and, for one client, asks the firewall to skip it: TrySkip sets
   Skipped if the channel exists and has room.  In RULE, REDIRECT-HEADER
   may have sent the request elsewhere and let it through all the same: its
   body is then used up, and writing it fails.                             *)
LRForward ==
    /\ ReadingRequest
    /\ \E tag \in IF setup.mode = "GLOBAL" THEN {"plain", "cache", "skip"}
                  ELSE {"plain", "refetch"} :
        /\ cached' = (cached \/ tag \in {"cache", "skip"})
        /\ IF tag = "skip" /\ setup.server = "TPROXY"
           THEN skipped' \in {skipped, TRUE} ELSE UNCHANGED skipped
        /\ IF CanWriteR /\ ~(tag = "refetch" /\ kind[lread + 1] = "post")
           THEN /\ Consume("forwarded") /\ lr' = "after"
                /\ NoteLate(lread + 1)
           ELSE /\ Consume("lost") /\ lr' = "ret"
                /\ UNCHANGED late
    /\ UNCHANGED lrest

(* decision.Redirect: the loop goes on; the request's body is not read. *)
LRSwallow ==
    /\ ReadingRequest /\ setup.mode # "GLOBAL"
    /\ Consume("swallowed")
    /\ lrest' = (kind[lread + 1] = "post")
    /\ UNCHANGED <<skipped, cached, lr, late>>

LRReject ==
    /\ ReadingRequest /\ setup.mode # "GLOBAL"
    /\ Consume("rejected")
    /\ skipped' = TRUE /\ lr' = "ret"
    /\ UNCHANGED <<cached, lrest, late>>

(* After the write: a WebSocket upgrade or Skipped ends the loop. *)
MutantLRAfterWriteUnchecked ==
    /\ lr = "after"
    /\ IF kind[lread] = "ws"
       THEN protocol' = "WebSocket" /\ lr' = "ret"
       ELSE lr' = "loop" /\ UNCHANGED protocol
    /\ UNCHANGED <<setup, skipped, pending, mitmed, cached, l, r, client, server, ends,
                   fate, lread, lrest, late, rvars>>
LRAfterWrite ==
    /\ lr = "after"
    /\ IF kind[lread] = "ws"
       THEN protocol' = "WebSocket" /\ lr' = "ret"
       ELSE lr' = (IF skipped THEN "ret" ELSE "loop") /\ UNCHANGED protocol
    /\ UNCHANGED <<setup, skipped, pending, mitmed, cached, l, r, client, server, ends,
                   fate, lread, lrest, late, rvars>>

-----------------------------------------------------------------------------
(* ProcessLR, the deferred end; CopyLR; the return of ServeConnLink.       *)

MutantLRReturnCopies ==
    /\ lr = "ret" /\ lr' = "raw"
    /\ DoneSniff
    /\ UNCHANGED <<setup, skipped, protocol, mitmed, cached, l, r, client, server, ends,
                   fate, lread, lrest, late, rvars>>
MutantLRReturnSilent ==
    /\ lr = "ret"
    /\ IF skipped THEN CloseLR /\ lr' = "served"
                  ELSE lr' = "raw" /\ UNCHANGED <<l, r>>
    /\ UNCHANGED <<setup, shared, client, server, ends, fate, lread, lrest, late, rvars>>
LRReturn ==
    /\ lr = "ret"
    /\ DoneSniff
    /\ IF skipped THEN CloseLR /\ lr' = "served"
                  ELSE lr' = "raw" /\ UNCHANGED <<l, r>>
    /\ UNCHANGED <<setup, skipped, protocol, mitmed, cached, client, server, ends,
                   fate, lread, lrest, late, rvars>>

(* io.Copy from L to R: what is left of a body first, then whole messages.
   Skipped is not looked at again.                                         *)
LRCopy ==
    /\ lr = "raw" /\ (lrest \/ Unread)
    /\ lrest' = FALSE
    /\ IF CanWriteR THEN /\ CopyNext("raw") /\ NoteLate(IF lrest THEN lread ELSE lread + 1)
                         /\ UNCHANGED <<lr, l, r>>
                    ELSE /\ CopyNext("lost") /\ lr' = "served" /\ CloseLR
                         /\ UNCHANGED late
    /\ UNCHANGED <<setup, shared, client, server, ends, rvars>>

LRCopyEnd ==
    /\ lr = "raw" /\ ~lrest
    /\ "rd" \notin l \/ (cliEnd # "open" /\ lread = csent)
    /\ lr' = "served" /\ CloseLR
    /\ UNCHANGED <<setup, shared, client, server, ends, fate, lread, lrest, late, rvars>>

(* ServeConnLink returns when the client-to-server side is done.  SOCKS5's
   HandleClient then closes the client connection.                         *)
LRServed ==
    /\ lr = "served" /\ lr' = "done"
    /\ l' = IF setup.server = "SOCKS5" THEN {} ELSE l
    /\ UNCHANGED <<setup, shared, r, client, server, ends, fate, lread, lrest, late, rvars>>

-----------------------------------------------------------------------------
(* ProcessRL and CopyRL.                                                   *)

MutantRLSniffOldReader ==
    /\ rl = "wait" /\ pending = 0
    /\ rl' = IF IsHTTP(protocol) THEN "loop" ELSE "ret"
    /\ rconn' = "tcp"
    /\ UNCHANGED <<setup, shared, l, r, client, server, ends, lvars, sfate, rread, rrest>>
RLSniffDone ==
    /\ rl = "wait" /\ pending = 0
    /\ rl' = IF IsHTTP(protocol) THEN "loop" ELSE "ret"
    /\ rconn' = IF mitmed THEN "tls" ELSE "tcp"      \* reader.Reset(c.RConn)
    /\ UNCHANGED <<setup, shared, l, r, client, server, ends, lvars, sfate, rread, rrest>>

(* EOF, bytes that do not start a response, or a protocol that left HTTP. *)
MutantRLLoopEndAnyProtocol ==
    /\ rl = "loop"
    /\ RFails \/ rrest \/ (RUnread /\ skind[rread + 1] \notin Responses)
    /\ rl' = "ret"
    /\ UNCHANGED <<setup, shared, l, r, client, server, ends, lvars, rconn, sfate, rread, rrest>>
RLLoopEnd ==
    /\ rl = "loop"
    /\ \/ RFails
       \/ rrest
       \/ RUnread /\ (skind[rread + 1] \notin Responses \/ ~IsHTTP(protocol))
    /\ rl' = "ret"
    /\ UNCHANGED <<setup, shared, l, r, client, server, ends, lvars, rconn, sfate, rread, rrest>>

(* The protocol is looked at before the response is read and evaluated: the
   client-to-server side may change it, and end, in between.               *)
RLSniffResponse ==
    /\ rl = "loop" /\ ~rrest /\ RUnread
    /\ skind[rread + 1] \in Responses /\ IsHTTP(protocol)
    /\ rl' = "read"
    /\ UNCHANGED <<setup, shared, l, r, client, server, ends, lvars, rconn, sfate, rread, rrest>>

ReadingResponse ==
    /\ rl = "read" /\ rread < ssent
    /\ UNCHANGED <<setup, protocol, pending, mitmed, cached, l, r, client, server, ends,
                   lvars, rconn>>

(* http.ReadResponse fails on a malformed response. *)
RLMalformed ==
    /\ ReadingResponse
    /\ RConsume("bad") /\ rl' = "ret"
    /\ UNCHANGED <<skipped, rrest>>

RLForward ==
    /\ ReadingResponse
    /\ IF CanWriteL THEN RConsume("forwarded") /\ rl' = "loop"
                    ELSE RConsume("lost") /\ rl' = "ret"
    /\ UNCHANGED <<skipped, rrest>>

(* DropResponseAction: the loop goes on; the response's body is not read. *)
RLDrop ==
    /\ ReadingResponse
    /\ RConsume("dropped")
    /\ rrest' = (skind[rread + 1] = "respBody")
    /\ rl' = "loop" /\ UNCHANGED skipped

RLReject ==
    /\ ReadingResponse
    /\ RConsume("rejected")
    /\ skipped' = TRUE /\ rl' = "ret"
    /\ UNCHANGED rrest

RLReturn ==
    /\ rl = "ret"
    /\ IF skipped THEN CloseRL /\ rl' = "done"
                  ELSE rl' = "raw" /\ UNCHANGED <<l, r>>
    /\ UNCHANGED <<setup, shared, client, server, ends, lvars, rconn, sfate, rread, rrest>>

(* The copy reads R while HandleTLS handshakes over it, or the encrypted
   stream of a connection that HandleTLS has since replaced.               *)
Intruding == lr = "mitmServer" \/ (mitmed /\ rconn = "tcp")

RLCopy ==
    /\ rl = "raw" /\ (rrest \/ RUnread)
    /\ rrest' = FALSE
    /\ IF CanWriteL THEN RCopyNext(IF Intruding THEN "stolen" ELSE "raw")
                         /\ UNCHANGED <<rl, l, r>>
                    ELSE RCopyNext("lost") /\ rl' = "done" /\ CloseRL
    /\ UNCHANGED <<setup, shared, client, server, ends, lvars, rconn>>

RLCopyEnd ==
    /\ rl = "raw" /\ ~rrest /\ RFails
    /\ rl' = "done" /\ CloseRL
    /\ UNCHANGED <<setup, shared, client, server, ends, lvars, rconn, sfate, rread, rrest>>

-----------------------------------------------------------------------------
(* The client and the server, as far as they decide what arrives when.     *)
Reached  == {i \in 1..csent : kind[i] \in Requests /\ fate[i] \in {"forwarded", "raw"}}
Replies  == {j \in 1..ssent : skind[j] \in Responses}
Upgraded == \E i \in 1..csent : kind[i] = "ws"

(* After its ClientHello the client talks HTTP to whoever completed the
   handshake; a passed-through server's bytes stay opaque.                 *)
ClientTalksTo == IF setup.app # "https" THEN "server"
                 ELSE IF \E i \in 1..csent : fate[i] = "mitm" THEN "proxy"
                 ELSE IF \E j \in 1..ssent : skind[j] = "raw" /\ sfate[j] = "raw" THEN "tls"
                 ELSE "nobody"
ClientMay ==
    IF setup.app = "other" THEN {"raw", "short"}
    ELSE IF setup.app = "https" /\ csent = 0 THEN {"hello"}
    ELSE IF ClientTalksTo = "nobody" THEN {}
    ELSE IF ClientTalksTo = "tls" \/ Upgraded THEN {"raw"}
    ELSE Requests

(* A server answers a handshake, a request, or an upgraded client. *)
ServerMay ==
    IF setup.app = "other" THEN {"raw"}
    ELSE IF setup.app = "https" /\ ~mitmed THEN
        {k \in {"raw", "hello"} :
           IF k = "raw" THEN \E i \in 1..csent : kind[i] = "hello" /\ fate[i] = "raw"
           ELSE lr = "mitmServer" /\ \A j \in 1..ssent : skind[j] # "hello"}
    ELSE IF Cardinality(Replies) < Cardinality(Reached) THEN Responses
    ELSE IF Upgraded /\ \E i \in Reached : kind[i] = "ws" THEN {"raw"}
    ELSE {}

Same == <<setup, shared, l, r, lvars, rvars>>

ClientSend == /\ cliEnd = "open" /\ csent < MaxC
              /\ \E k \in ClientMay : kind' = [kind EXCEPT ![csent + 1] = k]
              /\ csent' = csent + 1
              /\ UNCHANGED <<Same, server, ends>>
ServerSend == /\ srvEnd = "open" /\ ssent < MaxS
              /\ \E k \in ServerMay : skind' = [skind EXCEPT ![ssent + 1] = k]
              /\ ssent' = ssent + 1
              /\ UNCHANGED <<Same, client, ends>>
ClientEnd  == /\ cliEnd # "gone"
              /\ cliEnd' \in Ends \ {"open", cliEnd}
              /\ UNCHANGED <<Same, client, server, srvEnd>>
ServerEnd  == /\ srvEnd # "gone"
              /\ srvEnd' \in Ends \ {"open", srvEnd}
              /\ UNCHANGED <<Same, client, server, cliEnd>>

-----------------------------------------------------------------------------
LRNext == \/ LRSniffEOF \/ LRSniffTLS \/ LRSniffRaw \/ LRSniffHTTP
          \/ LRMitmClient \/ LRMitmServer
          \/ LRLoopEOF \/ LRLoopNotHTTP \/ LRMalformed \/ LRForward
          \/ LRSwallow \/ LRReject \/ LRAfterWrite
          \/ LRReturn \/ LRCopy \/ LRCopyEnd \/ LRServed
RLNext == \/ RLSniffDone \/ RLLoopEnd \/ RLSniffResponse
          \/ RLMalformed \/ RLForward \/ RLDrop \/ RLReject
          \/ RLReturn \/ RLCopy \/ RLCopyEnd
Peers  == ClientSend \/ ServerSend \/ ClientEnd \/ ServerEnd
Next   == LRNext \/ RLNext \/ Peers

Spec == Init /\ [][Next]_vars

(* The Go scheduler runs a goroutine that is not blocked.  The peers owe
   nothing: they may stay silent, and they may never close.                *)
FairSpec == Spec /\ WF_vars(LRNext) /\ WF_vars(RLNext)

-----------------------------------------------------------------------------
TypeOK ==
    /\ setup \in Setups
    /\ lr \in LRStates /\ rl \in RLStates
    /\ skipped \in BOOLEAN /\ protocol \in Protocols /\ pending \in {0, 1}
    /\ mitmed \in BOOLEAN /\ cached \in BOOLEAN /\ rconn \in {"none", "tcp", "tls"}
    /\ l \subseteq Halves /\ r \subseteq Halves
    /\ kind \in [1..MaxC -> CKinds] /\ fate \in [1..MaxC -> Fates]
    /\ csent \in 0..MaxC /\ lread \in 0..csent /\ lrest \in BOOLEAN
    /\ skind \in [1..MaxS -> SKinds] /\ sfate \in [1..MaxS -> SFates]
    /\ ssent \in 0..MaxS /\ rread \in 0..ssent /\ rrest \in BOOLEAN
    /\ cliEnd \in Ends /\ srvEnd \in Ends
    /\ late \subseteq 1..MaxC

(* Once a request is rejected, nothing the client wrote after it is read,
   by the loop or by the byte copy that every other exit falls into.       *)
NoTrafficAfterReject ==
    \A i, j \in 1..MaxC : fate[i] = "rejected" /\ i < j => fate[j] = "sent"

(* Message i is one the request loop cannot go on from: an upgrade or bytes
   that are no request, a request that is malformed or could not be written,
   or one whose body was left unread.                                      *)
Derails(i) == kind[i] \notin {"get", "post"} \/ fate[i] \in {"bad", "lost", "leaked"}

(* A rejected response stops the client-to-server side through Skipped,
   which the loop looks at after each write and its end once, before the
   byte copy.  So what the server still gets after the rejection is one
   request of the loop and nothing else, or it is copied; and the copy runs
   past a rejection only if some message derailed the loop before.         *)
LateHasCause ==
    \A k \in late :
        \/ fate[k] = "forwarded" /\ late = {k}
        \/ fate[k] \in {"raw", "leaked"} /\ \E i \in 1..k : Derails(i)

(* Until SniffDone the server-to-client side leaves R alone: only the TLS
   handshake of MitM may have read from it.                                *)
SniffFirst ==
    pending = 1 => /\ rl = "wait" /\ rconn = "none"
                   /\ \A j \in 1..MaxS : sfate[j] \in {"sent", "mitm", "bad"}

(* No byte of the server's TLS handshake, nor of the encrypted stream under
   an intercepted connection, is relayed to the client as data.            *)
HandshakeUndisturbed == \A j \in 1..MaxS : sfate[j] # "stolen"

(* With response rules the copy waits for the handshake, and then reads the
   connection that the handshake has put in place.                         *)
HandshakeSafeWithResponseRules == setup.mode = "RULE_RESP" => HandshakeUndisturbed

(* What the server wrote is lost on the way only if the client has left, and
   left unread only then or after a rejection: the end of the client-to-
   server side never closes the other direction.  Two configurations do
   close it: SOCKS5 when ServeConnLink returns, and MitM, whose TLS
   connections CloseLR cannot half-close.                                  *)
ResponsesDelivered ==
    setup.server # "SOCKS5" /\ ~setup.mitm =>
        \A j \in 1..ssent :
            /\ sfate[j] = "lost" => cliEnd = "gone"
            /\ sfate[j] = "sent" /\ rl = "done" => cliEnd = "gone" \/ skipped

(* With response rules, a response that skips them has a cause: an earlier
   response was malformed or left an unread body, the client ended its
   stream, or it upgraded to WebSocket.                                    *)
UnevaluatedHasCause ==
    \A j \in 1..MaxS :
        setup.mode = "RULE_RESP" /\ sfate[j] = "raw" /\ skind[j] \in Responses =>
            \/ \E k \in 1..MaxS : k < j /\ sfate[k] \in {"leaked", "bad"}
            \/ ~IsHTTP(protocol) /\ (cliEnd # "open" \/ Upgraded)

(* Every HTTP response of a connection with response rules meets them, as
   long as the connection is not upgraded to WebSocket.                    *)
ResponsesEvaluated ==
    setup.mode = "RULE_RESP" /\ ~Upgraded =>
        \A j \in 1..MaxS : sfate[j] = "raw" => skind[j] \notin Responses

(* A dropped response stays off the wire, its body included. *)
DroppedStaysDropped == \A j \in 1..MaxS : sfate[j] # "leaked"

(* When both peers have closed, both goroutines end: the side that waits on
   SniffDone is released on every path of the other one.                   *)
BothSidesFinish ==
    cliEnd # "open" /\ srvEnd # "open" ~> lr = "done" /\ rl = "done"

(* A message in the client's stream is dealt with, unless the
   client-to-server side ended before it, or waits: for the three bytes
   that make the first message one it can sniff, or for the server's part
   of the TLS handshake.                                                   *)
ClientHeard ==
    \A i \in 1..MaxC :
        csent >= i ~> \/ fate[i] # "sent" \/ lr = "done"
                      \/ lr = "sniff" /\ ~Peekable
                      \/ lr = "mitmServer" /\ ~RUnread

(* A message in the server's stream is dealt with, unless the
   server-to-client side ended before it.                                  *)
ServerHeard ==
    \A j \in 1..MaxS : ssent >= j ~> (sfate[j] # "sent" \/ rl = "done")

(* So it is with response rules too, except that the client must have
   written something that can be sniffed.                                  *)
ServerHeardAfterClient ==
    \A j \in 1..MaxS :
        ssent >= j ~> (sfate[j] # "sent" \/ rl = "done" \/ (pending = 1 /\ ~Peekable))
=============================================================================
