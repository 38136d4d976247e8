------------------------------ MODULE HttpRules ------------------------------
(***************************************************************************)
(* The requests and responses of one connection on their way through the   *)
(* rewriter: ProcessLR evaluates the body, header and URL rules on each    *)
(* request, ProcessRL the body and header rules on each response, and both *)
(* work on the one Metadata of the connection.  ConnLink has the same two  *)
(* loops with any decision and all that ends them; here it is which        *)
(* decision is taken, and what reaches whom.  Client and server stay.      *)
(***************************************************************************)
EXTENDS RuleEngine

CONSTANTS
    Texts,        \* what headers and bodies can say
    Configs,      \* rewrite mode, rules, how the client behaves
    Kinds,        \* the requests a client may send
    Replies,      \* the responses a server may give
    MaxRequests   \* bound: requests on the connection

ASSUME BoundAssumption == MaxRequests \in Nat
Headers  == [ua : Seq(Texts), x : Seq(Texts)]
Bodies   == [enc : {"", "gzip"}, zip : Nat, text : Texts, cut : BOOLEAN]
Requests == [id : Nat, method : STRING, host : STRING, path : STRING, hdr : Headers, body : Bodies]
Responses == [id : Nat, announced : BOOLEAN, unread : BOOLEAN, hdr : Headers, body : Bodies]
ASSUME TextsAssumption == {"", "new"} \subseteq Texts
ASSUME ConfigsAssumption ==
    \A c \in Configs : \A rules \in {c.header, c.body, c.url} :
        /\ DOMAIN rules \subseteq Nat
        /\ \A i \in DOMAIN rules :
              /\ rules[i].hdr \in {"ua", "x"} /\ rules[i].val \in Texts
              /\ rules[i].action = "REDIRECT-HEADER" => rules[i].to \in STRING \X STRING
ASSUME KindsAssumption == Kinds \subseteq Requests
ASSUME RepliesAssumption == Replies \subseteq Responses

VARIABLES
    cfg,
    loaded,       \* the domain sets have been read
    sent,         \* the requests the client has sent
    lr, ix, dec, redirect,   \* ProcessLR and RewriteRequest: stage, rule, decision
    got,          \* requests read
    q,            \* Metadata.Request
    unread,       \* the request's body is still on the connection
    ran,          \* the actions that were executed on each request
    up,           \* what the server was sent
    elsewhere,    \* what REDIRECT-HEADER sent to other hosts
    replies,      \* the server's responses
    rl, rix, rdec,           \* ProcessRL and RewriteResponse
    rep,          \* responses read
    p,            \* Metadata.Response
    seen,         \* the requests by which it was judged
    down,         \* what the client was sent, in pieces
    skipped, cached, crashed
client == <<cfg, sent>>
lvars  == <<lr, ix, dec, redirect, got, q, unread, ran, up, elsewhere>>
rvars  == <<rl, rix, rdec, rep, p, seen>>
vars   == <<client, loaded, lvars, replies, rvars, down, skipped, cached, crashed>>

None    == [id |-> 0]
Judging == \/ Serves(cfg.header, "RESPONSE") \/ Serves(cfg.body, "RESPONSE")
Sending == {"global", "body", "header", "url", "send"}   \* ProcessLR has a request

Init ==
    /\ cfg \in Configs /\ loaded = FALSE
    /\ sent = <<>> /\ replies = <<>> /\ up = <<>> /\ elsewhere = <<>> /\ down = <<>>
    /\ lr = "new" /\ ix = 0 /\ dec = "DIRECT" /\ redirect = FALSE
    /\ got = 0 /\ q = None /\ unread = FALSE /\ ran = {}
    /\ rl = "new" /\ rix = 0 /\ rdec = "DIRECT" /\ rep = 0 /\ p = None /\ seen = {}
    /\ skipped = FALSE /\ cached = FALSE /\ crashed = FALSE

(* NewRuleRewriter, then a connection: the copy of responses needs no rules. *)
Start ==
    /\ lr = "new" /\ lr' = "read"
    /\ rl' = IF cfg.mode = "RULE" /\ Judging THEN "read" ELSE "raw"
    /\ crashed' = (cfg.mode = "RULE" /\ ~(/\ NewEngine(cfg.header, "header")
                                          /\ NewEngine(cfg.body, "body")
                                          /\ NewEngine(cfg.url, "url")))
    /\ UNCHANGED <<client, loaded, ix, dec, redirect, got, q, unread, ran, up, elsewhere, replies,
                   rix, rdec, rep, p, seen, down, skipped, cached>>

(* The goroutine of DOMAIN-SET. *)
LoadDomainSet ==
    /\ ~loaded /\ lr # "new" /\ loaded' = TRUE
    /\ UNCHANGED <<client, lvars, replies, rvars, down, skipped, cached, crashed>>

-----------------------------------------------------------------------------
(* ProcessLR: the request. *)

LRKeeps == UNCHANGED <<client, loaded, replies, rvars, cached, crashed>>

LRRead ==
    /\ lr = "read" /\ got < Len(sent)
    /\ LET k == sent[got + 1]
       IN  /\ q' = UserAgent([k EXCEPT !.id = got + 1])
           /\ unread' = ~NoBody(k.body)
    /\ got' = got + 1
    /\ lr' = IF cfg.mode = "RULE" THEN "body" ELSE "global"
    /\ ix' = 0 /\ dec' = "DIRECT" /\ redirect' = FALSE
    /\ LRKeeps /\ UNCHANGED <<ran, up, elsewhere, down, skipped>>

(* GLOBAL: a known agent exempts its server, any other is replaced, if it is
   one the regex is about.  One known agent asks for the firewall's help.    *)
inWhitelist(ua) == ua \in {"white", "steam"}
RewriteAction == [Rule("FINAL", {}, IF cfg.agents = {} THEN "REPLACE" ELSE "REPLACE-REGEX")
                     EXCEPT !.regex = cfg.agents]
LRGlobal ==
    /\ lr = "global" /\ lr' = "send"
    /\ LET ua == Get(q.hdr.ua)
           rewritten == ua # "" /\ ~inWhitelist(ua) /\ (cfg.agents = {} \/ ua \in cfg.agents)
       IN  /\ q' = IF rewritten THEN Execute(RewriteAction, q) ELSE Direct(q)
           /\ cached' = (cached \/ inWhitelist(ua))
           /\ skipped' \in IF ua = "steam" THEN {skipped, TRUE} ELSE {skipped}    \* TrySkip
    /\ UNCHANGED <<client, loaded, ix, dec, redirect, got, unread, ran, up, elsewhere, replies,
                   rvars, down, crashed>>

Next1(rules) == NextRule(rules, ix, "REQUEST", q, cfg.conn, loaded)
Ran(rule)    == ran' = ran \cup {<<q.id, rule.action>>}
Stage(next)  == lr' = next /\ ix' = 0 /\ dec' = "DIRECT" /\ redirect' = FALSE

(* A REJECT in the body or header rules ends ProcessLR, and the next stage
   starts from a fresh decision.                                            *)
MutantRefuse == Stage("url") /\ skipped' = TRUE
Refuse == lr' = "ended" /\ dec' = "REJECT" /\ skipped' = TRUE /\ UNCHANGED <<ix, redirect>>

LRBody ==
    /\ lr = "body"
    /\ LET i == Next1(cfg.body)
           rule == cfg.body[i]
       IN  IF i = 0
           THEN Stage("header") /\ UNCHANGED <<q, unread, ran, skipped>>
           ELSE /\ Ran(rule)
                /\ IF rule.action = "REPLACE-REGEX"
                   THEN q' = [q EXCEPT !.body = RewriteRequestBody(rule, @)] /\ unread' = FALSE
                   ELSE UNCHANGED <<q, unread>>
                /\ CASE rule.action = "REJECT" -> Refuse
                     [] rule.action = "REPLACE-REGEX" /\ rule.cont ->
                          lr' = "body" /\ ix' = i /\ dec' = rule.action /\ UNCHANGED <<redirect, skipped>>
                     [] OTHER -> Stage("header") /\ UNCHANGED skipped
    /\ LRKeeps /\ UNCHANGED <<got, up, elsewhere, down>>

(* Without a header rule that matches and stops the URL rules are not asked,
   and the action of the last one that matched is executed once more.        *)
LRHeader ==
    /\ lr = "header"
    /\ LET i == Next1(cfg.header)
           rule == cfg.header[i]
       IN  IF i = 0
           THEN /\ lr' = "send"
                /\ q' = IF ix = 0 THEN Direct(q) ELSE Execute(cfg.header[ix], q)
                /\ UNCHANGED <<ix, dec, redirect, ran, skipped>>
           ELSE /\ Ran(rule)
                /\ q' = IF rule.action = "DIRECT" THEN Direct(q) ELSE Execute(rule, q)
                /\ CASE rule.action = "REJECT" -> Refuse
                     [] rule.cont /\ rule.action \notin {"REJECT", "DIRECT", "DROP"} ->
                          lr' = "header" /\ ix' = i /\ dec' = rule.action /\ UNCHANGED <<redirect, skipped>>
                     [] OTHER -> Stage("url") /\ UNCHANGED skipped
    /\ LRKeeps /\ UNCHANGED <<got, unread, up, elsewhere, down>>

Answer(by) == down' = Append(down, [by |-> by, of |-> q.id, part |-> "whole", seen |-> {}])

(* The URL rules.  An action whose own regex does not match says to go on, and
   the last word on going on is what the caller takes for a redirect.        *)
UrlRule == cfg.url[Next1(cfg.url)]
Goes(rule) == rule.action # "DIRECT" /\ rule.regexOK /\ URL(q) \in rule.regex
OnUrlRule == /\ lr = "url" /\ Next1(cfg.url) # 0
             /\ Ran(UrlRule) /\ dec' = UrlRule.action
             /\ UNCHANGED <<client, loaded, replies, rvars, cached, got, up, skipped>>
GoOn == ix' = Next1(cfg.url) /\ redirect' = TRUE /\ UNCHANGED <<lr, unread, elsewhere, down>>
Stop == ix' = Next1(cfg.url) /\ redirect' = FALSE /\ lr' = "send"

LRUrlNone ==
    /\ lr = "url" /\ Next1(cfg.url) = 0 /\ lr' = "send"
    /\ LRKeeps /\ UNCHANGED <<ix, dec, redirect, got, q, unread, ran, up, elsewhere, down, skipped>>
LRUrlDirect ==
    /\ OnUrlRule /\ UrlRule.action = "DIRECT"
    /\ Stop /\ q' = Direct(q)
    /\ UNCHANGED <<unread, elsewhere, down, crashed>>
LRUrlPasses ==
    /\ OnUrlRule /\ UrlRule.action # "DIRECT" /\ ~Goes(UrlRule)
    /\ GoOn /\ crashed' = ~UrlRule.regexOK
    /\ UNCHANGED q
LRRedirect302 ==
    /\ OnUrlRule /\ UrlRule.action = "REDIRECT-302" /\ Goes(UrlRule)
    /\ Stop /\ Answer("ua3f")
    /\ UNCHANGED <<q, unread, elsewhere, crashed>>
LRRedirectHeader ==
    /\ OnUrlRule /\ UrlRule.action = "REDIRECT-HEADER" /\ Goes(UrlRule)
    /\ UrlRule.to[1] = q.host
    /\ GoOn /\ q' = [q EXCEPT !.path = UrlRule.to[2]]
    /\ UNCHANGED crashed
(* To another host, which may not answer; it has the body in any case. *)
LRSendRequest ==
    /\ OnUrlRule /\ UrlRule.action = "REDIRECT-HEADER" /\ Goes(UrlRule)
    /\ UrlRule.to[1] # q.host
    /\ elsewhere' = Append(elsewhere, q) /\ unread' = FALSE
    /\ q' = IF NoBody(q.body) THEN q ELSE [q EXCEPT !.body.cut = TRUE]
    /\ \/ Stop /\ Answer("elsewhere")
       \/ lr' = "send" /\ UNCHANGED <<ix, redirect, down>>
    /\ UNCHANGED crashed
LRUrl == LRUrlNone \/ LRUrlDirect \/ LRUrlPasses \/ LRRedirect302 \/ LRRedirectHeader \/ LRSendRequest

(* decision.Redirect, or DropRequestAction: the loop goes on, and an unread
   body is not the request it expects next.                                 *)
LRSwallow ==
    /\ lr = "send" /\ (redirect \/ dec = "DROP")
    /\ lr' = IF unread THEN "raw" ELSE "read"
    /\ LRKeeps /\ UNCHANGED <<ix, dec, redirect, got, q, unread, ran, up, elsewhere, down, skipped>>

(* The pass-through record asks for the agent.  A body that breaks off, or that
   REDIRECT-HEADER has used up, ends the loop: what comes next is copied.    *)
LRForward ==
    /\ lr = "send" /\ ~redirect /\ dec # "DROP"
    /\ q' = UserAgent(q) /\ up' = Append(up, q')
    /\ lr' = IF skipped THEN "ended" ELSE IF q.body.cut THEN "raw" ELSE "read"
    /\ LRKeeps /\ UNCHANGED <<ix, dec, redirect, got, unread, ran, elsewhere, down, skipped>>

(* The copy after the loop: no header is added; Metadata keeps its request. *)
LRRaw ==
    /\ lr = "raw" /\ got < Len(sent) /\ got' = got + 1
    /\ up' = Append(up, [sent[got + 1] EXCEPT !.id = got + 1, !.hdr.ua = <<Get(@)>>])
    /\ LRKeeps /\ UNCHANGED <<lr, ix, dec, redirect, q, unread, ran, elsewhere, down, skipped>>

-----------------------------------------------------------------------------
(* ProcessRL: the response. *)

RLKeeps == UNCHANGED <<client, loaded, lvars, replies, cached>>

RLRead ==
    /\ rl = "read" /\ rep < Len(replies)
    /\ rep' = rep + 1 /\ p' = replies[rep + 1] /\ seen' = {}
    /\ rl' = "body" /\ rix' = 0 /\ rdec' = "DIRECT"
    /\ RLKeeps /\ UNCHANGED <<down, skipped, crashed>>

(* Matching and Direct read the header of Metadata.Request, a map that
   ProcessLR may be writing to: the runtime ends a process it catches at it. *)
Race == lr \in Sending
Rule2(rules) == NextRule(rules, rix, "RESPONSE", q, cfg.conn, loaded)
Judge == /\ seen' = seen \cup {q.id}
         /\ crashed' \in IF Race THEN BOOLEAN ELSE {FALSE}
RLRefuse == rl' = "ended" /\ skipped' = TRUE

(* Reading the body of an answer to HEAD waits for bytes that do not come. *)
RLBody ==
    /\ rl = "body" /\ Judge
    /\ LET i == Rule2(cfg.body)
           rule == cfg.body[i]
       IN  IF i = 0
           THEN rl' = "header" /\ rix' = 0 /\ UNCHANGED <<p, rdec, skipped>>
           ELSE CASE rule.action = "REJECT" -> RLRefuse /\ UNCHANGED <<p, rix, rdec>>
                  [] rule.action = "REPLACE-REGEX" /\ p.announced ->
                       rl' = "stuck" /\ UNCHANGED <<p, rix, rdec, skipped>>
                  [] rule.action = "REPLACE-REGEX" /\ ~p.announced ->
                       /\ p' = [p EXCEPT !.body = RewriteResponseBody(rule, @), !.unread = FALSE]
                       /\ rl' = (IF rule.cont THEN "body" ELSE "header")
                       /\ rix' = (IF rule.cont THEN i ELSE 0) /\ UNCHANGED <<rdec, skipped>>
                  [] OTHER -> rl' = "header" /\ rix' = 0 /\ UNCHANGED <<p, rdec, skipped>>
    /\ RLKeeps /\ UNCHANGED <<rep, down>>

RLHeader ==
    /\ rl = "header" /\ Judge
    /\ LET i == Rule2(cfg.header)
           rule == cfg.header[i]
       IN  IF i = 0
           THEN /\ rl' = "decided"
                /\ p' = IF rix = 0 THEN p ELSE Execute(cfg.header[rix], p)
                /\ UNCHANGED <<rix, rdec, skipped>>
           ELSE CASE rule.action = "REJECT" -> RLRefuse /\ UNCHANGED <<p, rix, rdec>>
                  [] rule.cont /\ rule.action \notin {"REJECT", "DIRECT", "DROP"} ->
                       rix' = i /\ p' = Execute(rule, p) /\ UNCHANGED <<rl, rdec, skipped>>
                  [] OTHER -> /\ rl' = "decided" /\ rdec' = rule.action /\ p' = Execute(rule, p)
                              /\ UNCHANGED <<rix, skipped>>
    /\ RLKeeps /\ UNCHANGED <<rep, down>>

Piece(part, m, by) == down' = Append(down, [by |-> "server", of |-> m.id, part |-> part, seen |-> by])

RLDrop ==
    /\ rl = "decided" /\ rdec = "DROP"
    /\ IF p.unread THEN rl' = "raw" /\ Piece("stray", p, seen) ELSE rl' = "read" /\ UNCHANGED down
    /\ RLKeeps /\ UNCHANGED <<rix, rdec, rep, p, seen, skipped, crashed>>

(* Response.Write: the head, then the body as it comes. *)
RLHead ==
    /\ rl = "decided" /\ rdec # "DROP"
    /\ IF NoBody(p.body) /\ ~p.announced
       THEN rl' = "read" /\ Piece("whole", p, seen)
       ELSE rl' = "copy" /\ Piece("head", p, seen)
    /\ RLKeeps /\ UNCHANGED <<rix, rdec, rep, p, seen, skipped, crashed>>
MutantRLTail ==
    /\ rl = "copy" /\ ~p.announced
    /\ rl' = "raw" /\ Piece("tail", p, seen)
    /\ RLKeeps /\ UNCHANGED <<rix, rdec, rep, p, seen, skipped, crashed>>
RLTail ==
    /\ rl = "copy" /\ ~p.announced
    /\ IF p.body.cut THEN rl' = "ended" /\ UNCHANGED down
                     ELSE rl' = "read" /\ Piece("tail", p, seen)
    /\ RLKeeps /\ UNCHANGED <<rix, rdec, rep, p, seen, skipped, crashed>>

(* The body an answer to HEAD announces is taken from the response after it:
   all of that, or a part, and then the rest is no response.                 *)
RLEat ==
    /\ rl \in {"copy", "stuck"} /\ p.announced /\ rep < Len(replies)
    /\ rep' = rep + 1 /\ Piece("whole", replies[rep + 1], {})
    /\ rl' \in {"read", "raw"}
    /\ RLKeeps /\ UNCHANGED <<rix, rdec, p, seen, skipped, crashed>>

(* CopyRL, and the copy after the loop. *)
RLRaw ==
    /\ rl = "raw" /\ rep < Len(replies)
    /\ rep' = rep + 1 /\ p' = replies[rep + 1] /\ seen' = {}
    /\ IF NoBody(p'.body) THEN Piece("whole", p', {}) /\ UNCHANGED rl
                          ELSE Piece("head", p', {}) /\ rl' = "rawcopy"
    /\ RLKeeps /\ UNCHANGED <<rix, rdec, skipped, crashed>>
RLRawTail ==
    /\ rl = "rawcopy"
    /\ IF p.body.cut THEN rl' = "ended" /\ UNCHANGED down
                     ELSE rl' = "raw" /\ Piece("tail", p, {})
    /\ RLKeeps /\ UNCHANGED <<rix, rdec, rep, p, seen, skipped, crashed>>

-----------------------------------------------------------------------------
(* Client and server. *)

(* A client that waits has heard all of the answer: to HEAD, that is a head. *)
Heard == Cardinality({k \in DOMAIN down :
             \/ down[k].part \in {"whole", "tail"}
             \/ down[k].part = "head" /\ sent[down[k].of].method = "HEAD"})
ClientSend ==
    /\ Len(sent) < MaxRequests /\ (cfg.serial => Heard >= Len(sent))
    /\ ~\E i \in DOMAIN sent : sent[i].body.cut
    /\ \E k \in Kinds : sent' = Append(sent, k)
    /\ UNCHANGED <<cfg, loaded, lvars, replies, rvars, down, skipped, cached, crashed>>

ServerReply ==
    /\ Len(replies) < Len(up) /\ ~up[Len(replies) + 1].body.cut
    /\ ~\E j \in DOMAIN replies : replies[j].body.cut
    /\ LET r == up[Len(replies) + 1]
       IN  \E k \in Replies :
             replies' = Append(replies,
                 [k EXCEPT !.id = r.id, !.announced = (r.method = "HEAD" /\ ~NoBody(k.body)),
                           !.unread = (r.method # "HEAD" /\ ~NoBody(k.body)),
                           !.body = IF r.method = "HEAD" THEN Empty(@) ELSE @])
    /\ UNCHANGED <<client, loaded, lvars, rvars, down, skipped, cached, crashed>>

LR == \/ LRRead \/ LRGlobal \/ LRBody \/ LRHeader \/ LRUrl \/ LRSwallow \/ LRForward \/ LRRaw
RL == \/ RLRead \/ RLBody \/ RLHeader \/ RLDrop \/ RLHead \/ RLTail \/ RLEat \/ RLRaw \/ RLRawTail
Next == ~crashed /\ (Start \/ LoadDomainSet \/ LR \/ RL \/ ClientSend \/ ServerReply)

(* Both goroutines are scheduled; a server answers what it has received. *)
Spec == /\ Init /\ [][Next]_vars
        /\ WF_vars(~crashed /\ (Start \/ LR)) /\ WF_vars(~crashed /\ RL)
        /\ WF_vars(~crashed /\ ServerReply)

-----------------------------------------------------------------------------
Forwarded  == {up[k].id : k \in DOMAIN up}
Answered   == {down[k].of : k \in {k \in DOMAIN down : down[k].by # "server"}}
Whole(k)   == down[k].part \in {"whole", "tail"}      \* ends an answer
Nth(k)     == Cardinality({j \in 1..k : Whole(j)})
RulesOf(c) == {c[i] : i \in Listed(c)}
Values     == {rule.val : rule \in RulesOf(cfg.header) \cup RulesOf(cfg.body)} \cup {"new"}
(* An engine that cannot be built, or a redirect that has no regex to ask. *)
Broken == \/ ~NewEngine(cfg.header, "header") \/ ~NewEngine(cfg.body, "body")
          \/ ~NewEngine(cfg.url, "url")
          \/ \E i \in Listed(cfg.url) : NewAction(cfg.url[i], "url") = "typed nil"

(* A client that waits for each answer, asks for bodies, and whose requests
   UA3F either answers or forwards.                                          *)
Orderly == /\ cfg.serial
           /\ \A i \in DOMAIN sent : sent[i].method # "HEAD"
           /\ Forwarded \cap Answered = {}

(* Two goroutines share the request of one Metadata and write to one client.
   With such a client every response is judged, by the request it answers;
   no answer of UA3F's own gets into the middle of a response; the n-th
   answer is that to the n-th request; and no rule is ever read while it is
   written.                                                                  *)
OrderlyExchange ==
    Orderly =>
        /\ ~crashed \/ Broken
        /\ \A k \in DOMAIN down :
              /\ down[k].seen \subseteq {down[k].of}
              /\ down[k].by = "server" /\ cfg.mode = "RULE" /\ Judging => down[k].seen # {}
              /\ down[k].part = "head" /\ k < Len(down) =>
                     down[k + 1].part = "tail" /\ down[k + 1].of = down[k].of
        /\ \A k \in DOMAIN down : Whole(k) => down[k].of = Nth(k)

(* A request some REJECT was executed on goes nowhere, whatever the other
   stages say, and no later one of the connection is read.                   *)
RejectHolds ==
    \A i \in 1..got : <<i, "REJECT">> \in ran =>
        /\ i \notin Forwarded \cup Answered
        /\ \A k \in DOMAIN elsewhere : elsewhere[k].id # i
        /\ got = i

(* Whatever the rules add and delete, the agent a server sees is the client's,
   a rule's or none.  Go's own is seen only by the server REDIRECT-HEADER goes
   to, after a rule has deleted the header.                                  *)
AgentFromRules ==
    /\ \A k \in DOMAIN up : SentAgent(up[k]) \in {Get(sent[up[k].id].hdr.ua), ""} \cup Values
    /\ \A k \in DOMAIN elsewhere :
          \/ SentAgent(elsewhere[k]) \in {Get(sent[elsewhere[k].id].hdr.ua), ""} \cup Values
          \/ <<elsewhere[k].id, "DELETE">> \in ran

(* A body that is what its encoding says reaches the other side so, and changed
   only by a body rule; a body that broke off is passed off as a complete one
   only where a body rule has asked for it.                                  *)
Labelled(b) == b.enc = "gzip" => b.zip > 0
Intact(o, s, rewritten) ==
    IF o.cut THEN s.cut \/ rewritten
    ELSE Labelled(o) =>
           /\ Labelled(s) /\ Decode(s).zip = Decode(o).zip
           /\ Decode(s).text = Decode(o).text \/ (rewritten /\ Decode(s).text \in Values)
BodyRules(dir) == \E rule \in RulesOf(cfg.body) : rule.action = "REPLACE-REGEX" /\ dir \in Directions(rule)
BodiesIntact ==
    /\ \A k \in DOMAIN up : LET i == up[k].id
                            IN  \/ Intact(sent[i].body, up[k].body, <<i, "REPLACE-REGEX">> \in ran)
                                \/ \E j \in DOMAIN elsewhere : elsewhere[j].id = i
    /\ rl \in {"decided", "copy"} => Intact(replies[rep].body, p.body, BodyRules("RESPONSE"))

(* Every request is answered in the end, unless a side is gone, a rule has
   refused, redirected or dropped, or an answer to HEAD is waited for.       *)
Excused(i) ==
    \/ crashed \/ skipped \/ "ended" \in {lr, rl}
    \/ \E j \in DOMAIN sent : sent[j].body.cut \/ sent[j].method = "HEAD"
    \/ \E k \in DOMAIN up : up[k].body.cut
    \/ \E j \in DOMAIN replies : replies[j].body.cut
    \/ \E a \in {"REJECT", "REDIRECT-302", "REDIRECT-HEADER"} : <<i, a>> \in ran
    \/ \E rule \in RulesOf(cfg.header) : rule.action = "DROP" /\ rule.dir = "RESPONSE"
RequestsSettled ==
    \A i \in 1..MaxRequests :
        Len(sent) >= i ~> Excused(i) \/ \E k \in DOMAIN down : Whole(k) /\ down[k].of = i

(* What the documentation says of DROP: the request does not go on. *)
DropDrops == \A i \in Forwarded : <<i, "DROP">> \notin ran

(* What it says of REDIRECT-HEADER to the same host: the request goes on. *)
SameHostGoesOn ==
    [][LRSwallow => ~\E rule \in RulesOf(cfg.url) :
          rule.action = "REDIRECT-HEADER" /\ q.path = rule.to[2] /\ q.host = rule.to[1]]_vars
===============================================================================
