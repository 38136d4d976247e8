------------------------------ MODULE RuleEngine ------------------------------
(***************************************************************************)
(* A rewrite rule: when it matches, and what its action makes of a request *)
(* or a response.  What a pattern matches is a set of values; a header is  *)
(* the sequence of its values; a body is a text, compressed zip times,     *)
(* under the Content-Encoding the message claims.                          *)
(***************************************************************************)
EXTENDS Integers, Sequences, FiniteSets

(* A rule: on is what its match-value matches, in the header of when the type
   is about one; regex is what its rewrite-regex matches, hdr, val and to what
   it rewrites.  listed: enabled, and accepted by the validator.             *)
Rule(type, on, action) ==
    [type |-> type, on |-> on, of |-> "ua", valueOK |-> TRUE,
     action |-> action, hdr |-> "ua", regex |-> {}, regexOK |-> TRUE, val |-> "new", to |-> <<>>,
     dir |-> "", cont |-> FALSE, listed |-> TRUE]

-----------------------------------------------------------------------------
(* Messages. *)

Get(values) == IF values = <<>> THEN "" ELSE values[1]
URL(q) == <<q.host, q.path>>

(* Asking for the User-Agent leaves an empty header where there is none. *)
MutantUserAgent(q) == q
UserAgent(q) == IF Get(q.hdr.ua) = "" THEN [q EXCEPT !.hdr.ua = <<"">>] ELSE q

Direct(q) == UserAgent(q)

(* What Request.Write and http.Client send: Go's own agent if none is set. *)
SentAgent(q) == IF q.hdr.ua = <<>> THEN "go" ELSE Get(q.hdr.ua)

NoBody(b) == b.text = "" /\ ~b.cut

(* Bytes that do not decode are taken as they are. *)
Decode(b) == IF b.enc = "gzip" /\ b.zip > 0 THEN [b EXCEPT !.zip = @ - 1] ELSE b
MutantEncode(b) == b
Encode(b) == IF b.enc = "gzip" THEN [b EXCEPT !.zip = @ + 1] ELSE b

(* A body that cannot be read to its end is no body at all. *)
Empty(b)        == [b EXCEPT !.text = "", !.zip = 0, !.cut = FALSE]
RequestBody(b)  == IF b.cut THEN Empty(b) ELSE Decode(b)
ResponseBody(b) == IF b.cut THEN Empty(b) ELSE Decode(b)
UpdateRequestBody(b)  == Encode(b)
UpdateResponseBody(b) == Encode(b)

-----------------------------------------------------------------------------
(* Matchers.  A response is matched by the request that Metadata holds. *)

MatchHeaderKeyword(rule, q) == Get(q.hdr[rule.of]) \in rule.on
MatchHeaderRegex(rule, q)   == rule.valueOK /\ Get(q.hdr[rule.of]) \in rule.on
MatchDomain(rule, q)        == q.host \in rule.on
MatchDomainSet(rule, q, loaded) == loaded /\ q.host \in rule.on
MatchDestPort(rule, conn)   == conn.port \in rule.on
MatchIPCIDR(rule, conn)     == conn.rip \in rule.on
MatchSrcIP(rule, conn)      == conn.lip \in rule.on
MatchURLRegex(rule, q)      == rule.valueOK /\ URL(q) \in rule.on

Match(rule, q, conn, loaded) ==
    CASE rule.type = "HEADER-KEYWORD" -> MatchHeaderKeyword(rule, q)
      [] rule.type = "HEADER-REGEX"   -> MatchHeaderRegex(rule, q)
      [] rule.type = "DEST-PORT"      -> MatchDestPort(rule, conn)
      [] rule.type = "IP-CIDR"        -> MatchIPCIDR(rule, conn)
      [] rule.type = "SRC-IP"         -> MatchSrcIP(rule, conn)
      [] rule.type = "DOMAIN-SET"     -> MatchDomainSet(rule, q, loaded)
      [] rule.type = "URL-REGEX"      -> MatchURLRegex(rule, q)
      [] rule.type = "FINAL"          -> TRUE
      [] OTHER                        -> MatchDomain(rule, q)  \* exact, suffix or keyword

-----------------------------------------------------------------------------
(* Actions.  An action made from a bad rewrite-regex is a nil pointer in an
   interface, which no test for nil sees.                                   *)

Undirected(rule) == rule.action \in {"REJECT", "DROP"} /\ rule.dir = ""
NewHeaderAction(rule) ==
    CASE Undirected(rule) \/ rule.action \in {"REDIRECT-302", "REDIRECT-HEADER"} -> "nil"
      [] rule.action = "REPLACE-REGEX" /\ ~rule.regexOK -> "typed nil"
      [] OTHER -> rule.action
NewBodyAction(rule) ==
    CASE Undirected(rule) \/ rule.action \notin {"DIRECT", "REJECT", "DROP", "REPLACE-REGEX"} -> "nil"
      [] rule.action = "REPLACE-REGEX" /\ ~rule.regexOK -> "typed nil"
      [] OTHER -> rule.action
NewURLAction(rule) ==
    CASE rule.action \notin {"DIRECT", "REDIRECT-302", "REDIRECT-HEADER"} -> "nil"
      [] rule.action \in {"REDIRECT-302", "REDIRECT-HEADER"} /\ ~rule.regexOK -> "typed nil"
      [] OTHER -> rule.action
NewAction(rule, target) == CASE target = "header" -> NewHeaderAction(rule)
                             [] target = "body"   -> NewBodyAction(rule)
                             [] target = "url"    -> NewURLAction(rule)

(* A rule whose action is nil, or whose network does not parse, is a nil
   pointer in an interface too.                                             *)
NewRule(rule, target)   == NewAction(rule, target) # "nil"
NewIPCIDR(rule, target) == NewAction(rule, target) # "nil" /\ rule.valueOK

(* NewEngine asks every rule for its action, and every action for its
   direction: a nil pointer panics, except that of a redirect.              *)
Listed(rules) == {i \in DOMAIN rules : rules[i].listed}
NewEngine(rules, target) ==
    \A i \in Listed(rules) :
        /\ IF rules[i].type \in {"IP-CIDR", "SRC-IP"} THEN NewIPCIDR(rules[i], target)
                                                      ELSE NewRule(rules[i], target)
        /\ target = "url" \/ NewAction(rules[i], target) # "typed nil"

Directions(rule) ==
    CASE rule.action = "DIRECT" -> {"REQUEST", "RESPONSE"}
      [] rule.action \in {"REDIRECT-302", "REDIRECT-HEADER"} \/ rule.dir = "" -> {"REQUEST"}
      [] OTHER -> {rule.dir}
Serves(rules, dir) == \E i \in Listed(rules) : Directions(rules[i]) = {dir}

(* The first rule after the last one that applies; 0 if there is none. *)
Hits(rules, dir, q, conn, loaded) ==
    {i \in Listed(rules) : dir \in Directions(rules[i]) /\ Match(rules[i], q, conn, loaded)}
MutantNextRule(rules, last, dir, q, conn, loaded) ==
    LET hits == {i \in Hits(rules, dir, q, conn, loaded) : i >= last}
    IN  IF hits = {} THEN 0 ELSE CHOOSE i \in hits : \A j \in hits : i <= j
NextRule(rules, last, dir, q, conn, loaded) ==
    LET hits == {i \in Hits(rules, dir, q, conn, loaded) : i > last}
    IN  IF hits = {} THEN 0 ELSE CHOOSE i \in hits : \A j \in hits : i <= j

(* Header actions, on a request or on a response. *)
Add(rule, values)     == Append(values, rule.val)
Delete(rule, values)  == <<>>
Replace(rule, values) == <<rule.val>>
ReplaceRegex(rule, values) ==
    IF Get(values) = "" THEN values
    ELSE << IF Get(values) \in rule.regex THEN rule.val ELSE Get(values) >>
Execute(rule, m) ==
    CASE rule.action = "ADD"           -> [m EXCEPT !.hdr[rule.hdr] = Add(rule, @)]
      [] rule.action = "DELETE"        -> [m EXCEPT !.hdr[rule.hdr] = Delete(rule, @)]
      [] rule.action = "REPLACE"       -> [m EXCEPT !.hdr[rule.hdr] = Replace(rule, @)]
      [] rule.action = "REPLACE-REGEX" -> [m EXCEPT !.hdr[rule.hdr] = ReplaceRegex(rule, @)]
      [] OTHER                         -> m

(* The body action: compressed bytes are not what its regex matches. *)
Substitute(rule, b) == IF b.zip = 0 /\ b.text \in rule.regex THEN [b EXCEPT !.text = rule.val] ELSE b
RewriteRequestBody(rule, b)  == UpdateRequestBody(Substitute(rule, RequestBody(b)))
RewriteResponseBody(rule, b) == UpdateResponseBody(Substitute(rule, ResponseBody(b)))
===============================================================================
