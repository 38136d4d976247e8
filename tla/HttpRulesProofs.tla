--------------------------- MODULE HttpRulesProofs ---------------------------
(***************************************************************************)
(* RejectHolds, AgentFromRules, BodiesIntact and OrderlyExchange, for      *)
(* every list of rules, every kind of request and response and any number  *)
(* of requests.                                                            *)
(*                                                                         *)
(* RInv follows one request through ProcessLR: until the URL rules nothing *)
(* of it has gone anywhere; only body and header rules can reject it, as   *)
(* NewEngine panics on a URL rule that does; and a rejected request ends   *)
(* the loop.  What went anywhere has been read before.                     *)
(*                                                                         *)
(* MInv says what the request of the moment looks like beside the one that *)
(* was sent, Answering the same of the response: the agent is one of the   *)
(* few it may be, the header is missing only after a DELETE, and the body  *)
(* says of its encoding what the other one did.                            *)
(*                                                                         *)
(* OrdInv is about a client that waits for each answer.  It counts the     *)
(* answers that are complete: one request at most is beyond them, and it   *)
(* is at one place, with ProcessLR, the server or ProcessRL.               *)
(***************************************************************************)
EXTENDS HttpRules, TLAPS, WellFoundedInduction, FiniteSetTheorems

IsSeq(s) == \E S : s \in Seq(S)
Gone     == {elsewhere[k].id : k \in DOMAIN elsewhere}
Reached  == Forwarded \cup Answered \cup Gone

(* Types, as far as they are needed. *)
Typed ==
    /\ cfg \in Configs /\ sent \in Seq(Kinds) /\ got \in Nat
    /\ IsSeq(up) /\ IsSeq(elsewhere) /\ IsSeq(down)

(* ProcessLR works on the request it has read last. *)
Current == lr \in Sending => q.id = got /\ got # 0 /\ "id" \in DOMAIN q

(* What is rejected is the last request, and it has gone nowhere. *)
Rejected == \A t \in ran : t[2] = "REJECT" => t[1] = got /\ lr = "ended" /\ got \notin Reached

(* The URL rules are ones NewEngine has let through. *)
Checked ==
    /\ lr \in {"body", "header", "url"} => cfg.mode = "RULE"
    /\ lr # "new" /\ ~crashed /\ cfg.mode = "RULE" => NewEngine(cfg.url, "url")

Fresh  == lr \in {"body", "header"} => got \notin Reached
Before == \A i \in Reached : i \in 1..got

RInv == Typed /\ Current /\ Rejected /\ Checked /\ Fresh /\ Before

-----------------------------------------------------------------------------
(* Sequences of anything. *)
LEMMA AppendIsSeq ==
    ASSUME NEW s, NEW e, IsSeq(s)
    PROVE  /\ IsSeq(Append(s, e))
           /\ DOMAIN s = 1..Len(s) /\ Len(s) \in Nat
           /\ DOMAIN Append(s, e) = 1..Len(s) + 1
           /\ \A k \in DOMAIN s : Append(s, e)[k] = s[k]
           /\ Append(s, e)[Len(s) + 1] = e
  <1>1. PICK S : s \in Seq(S)
    BY DEF IsSeq
  <1>2. s \in Seq(S \cup {e}) /\ e \in S \cup {e}
    BY <1>1
  <1>3. Append(s, e) \in Seq(S \cup {e})
    BY <1>2
  <1>4. IsSeq(Append(s, e))
    BY <1>3 DEF IsSeq
  <1>. QED
    BY <1>2, <1>3, <1>4

LEMMA LengthOfAppend ==
    ASSUME NEW s, NEW e, IsSeq(s)
    PROVE  Len(Append(s, e)) = Len(s) + 1 /\ Append(s, e) # <<>> /\ Append(s, e) # s
  <1>1. /\ DOMAIN s = 1..Len(s) /\ Len(s) \in Nat /\ IsSeq(Append(s, e))
        /\ DOMAIN Append(s, e) = 1..Len(s) + 1
    BY AppendIsSeq
  <1>2. DOMAIN Append(s, e) = 1..Len(Append(s, e)) /\ Len(Append(s, e)) \in Nat
    BY <1>1, AppendIsSeq
  <1>3. Len(Append(s, e)) = Len(s) + 1
    BY <1>1, <1>2
  <1>4. Append(s, e) # <<>>
    <2>1. 1 \in DOMAIN Append(s, e)
      BY <1>1
    <2>. QED
      BY <2>1
  <1>5. Append(s, e) # s
    <2>1. SUFFICES ASSUME Append(s, e) = s PROVE FALSE
      OBVIOUS
    <2>2. Len(s) = Len(s) + 1
      BY <1>3, <2>1
    <2>. QED
      BY <1>1, <2>2
  <1>. QED
    BY <1>3, <1>4, <1>5

(* The numbers of the messages of a sequence, when one is added. *)
LEMMA IdsOfAppend ==
    ASSUME NEW s, NEW e, IsSeq(s)
    PROVE  {Append(s, e)[k].id : k \in DOMAIN Append(s, e)} = {s[k].id : k \in DOMAIN s} \cup {e.id}
  <1>. DEFINE t == Append(s, e)
  <1>1. /\ DOMAIN s = 1..Len(s) /\ Len(s) \in Nat /\ DOMAIN t = 1..Len(s) + 1
        /\ \A k \in DOMAIN s : t[k] = s[k]
        /\ t[Len(s) + 1] = e
    BY AppendIsSeq
  <1>2. DOMAIN t = DOMAIN s \cup {Len(s) + 1}
    BY <1>1
  <1>. QED
    BY <1>1, <1>2

(* What the client was sent, when the server or another has sent it more. *)
Own(s) == {s[k].of : k \in {k \in DOMAIN s : s[k].by # "server"}}
LEMMA OwnOfAppend ==
    ASSUME NEW s, NEW e, IsSeq(s)
    PROVE  Own(Append(s, e)) = Own(s) \cup (IF e.by = "server" THEN {} ELSE {e.of})
  <1>. DEFINE t == Append(s, e)
  <1>1. /\ DOMAIN s = 1..Len(s) /\ Len(s) \in Nat /\ DOMAIN t = 1..Len(s) + 1
        /\ \A k \in DOMAIN s : t[k] = s[k]
        /\ t[Len(s) + 1] = e
    BY AppendIsSeq
  <1>2. DOMAIN t = DOMAIN s \cup {Len(s) + 1}
    BY <1>1
  <1>3. ASSUME NEW x
        PROVE  x \in Own(t) <=> (x \in Own(s) \/ (e.by # "server" /\ x = e.of))
    BY <1>1, <1>2 DEF Own
  <1>. QED
    BY <1>3

(* The first rule that applies is one of the list. *)
LEMMA NextRuleListed ==
    ASSUME NEW rules, DOMAIN rules \subseteq Nat,
           NEW last, NEW dir, NEW m, NEW conn, NEW known,
           NextRule(rules, last, dir, m, conn, known) # 0
    PROVE  /\ NextRule(rules, last, dir, m, conn, known) \in Listed(rules)
           /\ NextRule(rules, last, dir, m, conn, known) \in Hits(rules, dir, m, conn, known)
  <1>. DEFINE hits == {i \in Hits(rules, dir, m, conn, known) : i > last}
  <1>1. hits # {} /\ NextRule(rules, last, dir, m, conn, known)
                       = CHOOSE i \in hits : \A j \in hits : i <= j
    BY DEF NextRule
  <1>2. /\ hits \subseteq Listed(rules) /\ hits \subseteq Hits(rules, dir, m, conn, known)
        /\ hits \subseteq Nat
    BY DEF Hits, Listed
  <1>. DEFINE less == OpToRel(<, Nat)
  <1>3. IsWellFoundedOn(less, Nat)
    BY NatLessThanWellFounded
  <1>4. \A i, j \in Nat : j < i => <<j, i>> \in less
    BY DEF OpToRel
  <1>. HIDE DEF hits, less
  <1>5. PICK i \in hits : \A j \in hits : ~(<<j, i>> \in less)
    BY <1>1, <1>2, <1>3, WFMin
  <1>6. ASSUME NEW j \in hits
        PROVE  i <= j
    <2>1. i \in Nat /\ j \in Nat
      BY <1>2
    <2>2. ~(j < i)
      BY <2>1, <1>4, <1>5, Zenon
    <2>. QED
      BY <2>1, <2>2
  <1>. QED
    BY <1>1, <1>2, <1>6

(* A URL rule of a connection that is served does not reject. *)
LEMMA NoUrlReject ==
    ASSUME RInv, ~crashed, lr = "url", Next1(cfg.url) # 0
    PROVE  UrlRule.action # "REJECT"
  <1>. DEFINE i == Next1(cfg.url)
  <1>1. DOMAIN cfg.url \subseteq Nat
    BY ConfigsAssumption DEF RInv, Typed
  <1>2. i \in Listed(cfg.url)
    BY <1>1, NextRuleListed DEF Next1
  <1>3. NewEngine(cfg.url, "url")
    BY DEF RInv, Checked
  <1>4. NewAction(cfg.url[i], "url") # "nil"
    <2>. QED
      BY <1>2, <1>3 DEF NewEngine, NewRule, NewIPCIDR
  <1>5. ASSUME NEW rule, rule.action = "REJECT"
        PROVE  NewAction(rule, "url") = "nil"
    BY <1>5 DEF NewAction, NewURLAction
  <1>. QED
    BY <1>4, <1>5 DEF UrlRule

(* What becomes of a request keeps its number. *)
LEMMA KeepsId ==
    ASSUME NEW m, "id" \in DOMAIN m
    PROVE  /\ UserAgent(m).id = m.id /\ "id" \in DOMAIN UserAgent(m)
           /\ Direct(m).id = m.id /\ "id" \in DOMAIN Direct(m)
           /\ \A rule : Execute(rule, m).id = m.id /\ "id" \in DOMAIN Execute(rule, m)
  <1>1. UserAgent(m).id = m.id /\ "id" \in DOMAIN UserAgent(m)
    BY DEF UserAgent
  <1>2. ASSUME NEW rule
        PROVE  Execute(rule, m).id = m.id /\ "id" \in DOMAIN Execute(rule, m)
    BY DEF Execute
  <1>. QED
    BY <1>1, <1>2 DEF Direct

LEMMA InitRInv == Init => RInv
  <1>. SUFFICES ASSUME Init PROVE RInv
    OBVIOUS
  <1>1. <<>> \in Seq({})
    OBVIOUS
  <1>2. Typed
    BY <1>1 DEF Init, Typed, IsSeq
  <1>3. Reached = {}
    BY DEF Init, Reached, Forwarded, Answered, Gone
  <1>. QED
    BY <1>2, <1>3 DEF Init, RInv, Current, Rejected, Checked, Fresh, Before, Sending

(* Every step that ProcessLR has no part in. *)
LEMMA OthersKeepRInv ==
    ASSUME RInv, ~crashed, cfg' = cfg, sent' \in Seq(Kinds), UNCHANGED lvars,
           down' = down \/ \E d : d.by = "server" /\ down' = Append(down, d)
    PROVE  RInv'
  <1>1. Answered' = Answered /\ IsSeq(down)'
    <2>1. CASE down' = down
      BY <2>1 DEF Answered, RInv, Typed, IsSeq
    <2>2. CASE \E d : d.by = "server" /\ down' = Append(down, d)
      <3>1. PICK d : d.by = "server" /\ down' = Append(down, d)
        BY <2>2
      <3>2. IsSeq(down)
        BY DEF RInv, Typed
      <3>3. Own(Append(down, d)) = Own(down) \cup (IF d.by = "server" THEN {} ELSE {d.of})
        BY <3>2, OwnOfAppend
      <3>4. Own(Append(down, d)) = Own(down)
        BY <3>1, <3>3
      <3>5. IsSeq(Append(down, d))
        BY <3>2, AppendIsSeq
      <3>. QED
        BY <3>1, <3>4, <3>5 DEF Own, Answered, IsSeq
    <2>. QED
      BY <2>1, <2>2
  <1>2. Reached' = Reached
    BY <1>1 DEF Reached, Forwarded, Gone, lvars
  <1>. QED
    BY <1>1, <1>2 DEF RInv, Typed, Current, Rejected, Checked, Fresh, Before, lvars, IsSeq

LEMMA StartKeepsRInv == RInv /\ Start => RInv'
  <1>. SUFFICES ASSUME RInv, Start PROVE RInv'
    OBVIOUS
  <1>. USE DEF Start, client, rvars
  <1>1. Reached' = Reached
    BY DEF Reached, Forwarded, Answered, Gone
  <1>2. Typed'
    BY DEF RInv, Typed, IsSeq
  <1>3. Checked'
    BY DEF Checked
  <1>. QED
    BY <1>1, <1>2, <1>3 DEF RInv, Current, Rejected, Fresh, Before, Sending

LEMMA ReadKeepsRInv == RInv /\ ~crashed /\ LRRead => RInv'
  <1>. SUFFICES ASSUME RInv, ~crashed, LRRead PROVE RInv'
    OBVIOUS
  <1>. USE DEF LRRead, LRKeeps, client
  <1>1. Reached' = Reached
    BY DEF Reached, Forwarded, Answered, Gone
  <1>2. Typed'
    BY DEF RInv, Typed, IsSeq
  <1>3. Current'
    <2>. DEFINE k == sent[got + 1]
    <2>1. got + 1 \in 1..Len(sent) /\ got' = got + 1 /\ got + 1 # 0
      BY DEF RInv, Typed
    <2>2. k \in Kinds
      BY <2>1 DEF RInv, Typed
    <2>3. "id" \in DOMAIN k
      BY <2>2, KindsAssumption DEF Requests
    <2>. DEFINE m == [k EXCEPT !.id = got + 1]
    <2>4. "id" \in DOMAIN m /\ m.id = got + 1
      BY <2>3
    <2>5. q' = UserAgent(m)
      OBVIOUS
    <2>. QED
      BY <2>1, <2>4, <2>5, KeepsId DEF Current
  <1>4. Rejected'
    BY <1>1 DEF RInv, Rejected
  <1>5. Checked'
    BY DEF RInv, Checked
  <1>6. got + 1 \notin Reached
    BY DEF RInv, Typed, Before
  <1>7. Fresh' /\ Before'
    BY <1>1, <1>6 DEF RInv, Typed, Fresh, Before
  <1>. QED
    BY <1>2, <1>3, <1>4, <1>5, <1>7 DEF RInv

LEMMA GlobalKeepsRInv == RInv /\ ~crashed /\ LRGlobal => RInv'
  <1>. SUFFICES ASSUME RInv, ~crashed, LRGlobal PROVE RInv'
    OBVIOUS
  <1>. USE DEF LRGlobal, client
  <1>1. Reached' = Reached
    BY DEF Reached, Forwarded, Answered, Gone, rvars
  <1>2. Typed'
    BY DEF RInv, Typed, IsSeq
  <1>3. "id" \in DOMAIN q /\ q.id = got /\ got # 0
    BY DEF RInv, Current, Sending
  <1>4. Current'
    BY <1>3, KeepsId DEF Current
  <1>. QED
    BY <1>1, <1>2, <1>4 DEF RInv, Rejected, Checked, Fresh, Before

(* The body and header rules: a request that is rejected has gone nowhere. *)
LEMMA BodyKeepsRInv == RInv /\ ~crashed /\ LRBody => RInv'
  <1>. SUFFICES ASSUME RInv, ~crashed, LRBody PROVE RInv'
    OBVIOUS
  <1>. USE DEF LRKeeps, client
  <1>0. UNCHANGED <<cfg, sent, crashed, got, up, elsewhere, down>> /\ lr = "body"
    BY DEF LRBody
  <1>1. Reached' = Reached
    BY <1>0 DEF Reached, Forwarded, Answered, Gone
  <1>2. Typed'
    BY <1>0 DEF RInv, Typed, IsSeq
  <1>3. "id" \in DOMAIN q /\ q.id = got /\ got # 0 /\ got \notin Reached /\ cfg.mode = "RULE"
    BY <1>0 DEF RInv, Current, Sending, Fresh, Checked
  <1>4. \A t \in ran : t[2] # "REJECT"
    BY <1>0 DEF RInv, Rejected
  <1>. DEFINE i == Next1(cfg.body)
              rule == cfg.body[i]
  <1>5. q' = q \/ q' = [q EXCEPT !.body = RewriteRequestBody(rule, @)]
    BY DEF LRBody
  <1>6. Current'
    BY <1>0, <1>3, <1>5 DEF Current
  <1>7. \/ lr' = "ended" /\ ran' = ran \cup {<<q.id, "REJECT">>}
        \/ /\ lr' \in {"body", "header"}
           /\ \/ ran' = ran
              \/ ran' = ran \cup {<<q.id, rule.action>>} /\ rule.action # "REJECT"
    <2>1. CASE i = 0
      BY <2>1 DEF LRBody, Stage
    <2>2. CASE i # 0 /\ rule.action = "REJECT"
      BY <2>2 DEF LRBody, Ran, Refuse
    <2>3. CASE i # 0 /\ rule.action # "REJECT"
      BY <2>3 DEF LRBody, Ran, Stage
    <2>. QED
      BY <2>1, <2>2, <2>3
  <1>8. Rejected'
    <2>. HIDE DEF rule
    <2>1. \A t \in ran' : t[2] = "REJECT" => t[1] = got /\ lr' = "ended"
      BY <1>3, <1>4, <1>7
    <2>. QED
      BY <1>0, <1>1, <1>3, <2>1 DEF Rejected
  <1>. QED
    BY <1>0, <1>1, <1>2, <1>3, <1>6, <1>7, <1>8 DEF RInv, Checked, Fresh, Before

LEMMA HeaderKeepsRInv == RInv /\ ~crashed /\ LRHeader => RInv'
  <1>. SUFFICES ASSUME RInv, ~crashed, LRHeader PROVE RInv'
    OBVIOUS
  <1>. USE DEF LRKeeps, client
  <1>0. UNCHANGED <<cfg, sent, crashed, got, up, elsewhere, down>> /\ lr = "header"
    BY DEF LRHeader
  <1>1. Reached' = Reached
    BY <1>0 DEF Reached, Forwarded, Answered, Gone
  <1>2. Typed'
    BY <1>0 DEF RInv, Typed, IsSeq
  <1>3. "id" \in DOMAIN q /\ q.id = got /\ got # 0 /\ got \notin Reached /\ cfg.mode = "RULE"
    BY <1>0 DEF RInv, Current, Sending, Fresh, Checked
  <1>4. \A t \in ran : t[2] # "REJECT"
    BY <1>0 DEF RInv, Rejected
  <1>. DEFINE i == Next1(cfg.header)
              rule == cfg.header[i]
  <1>5. q' = Direct(q) \/ \E r : q' = Execute(r, q)
    BY DEF LRHeader
  <1>6. Current'
    BY <1>0, <1>3, <1>5, KeepsId DEF Current
  <1>7. \/ lr' = "ended" /\ ran' = ran \cup {<<q.id, "REJECT">>}
        \/ /\ lr' \in {"header", "url", "send"}
           /\ \/ ran' = ran
              \/ ran' = ran \cup {<<q.id, rule.action>>} /\ rule.action # "REJECT"
    <2>1. CASE i = 0
      BY <2>1 DEF LRHeader
    <2>2. CASE i # 0 /\ rule.action = "REJECT"
      BY <2>2 DEF LRHeader, Ran, Refuse
    <2>3. CASE i # 0 /\ rule.action # "REJECT"
      BY <2>3 DEF LRHeader, Ran, Stage
    <2>. QED
      BY <2>1, <2>2, <2>3
  <1>8. Rejected'
    <2>. HIDE DEF rule
    <2>1. \A t \in ran' : t[2] = "REJECT" => t[1] = got /\ lr' = "ended"
      BY <1>3, <1>4, <1>7
    <2>. QED
      BY <1>0, <1>1, <1>3, <2>1 DEF Rejected
  <1>. QED
    BY <1>0, <1>1, <1>2, <1>3, <1>6, <1>7, <1>8 DEF RInv, Checked, Fresh, Before

(* The URL rules send requests on, answer them or pass; they reject none. *)
LEMMA UrlKeepsRInv == RInv /\ ~crashed /\ LRUrl => RInv'
  <1>. SUFFICES ASSUME RInv, ~crashed, LRUrl PROVE RInv'
    OBVIOUS
  <1>. USE DEF LRKeeps, client
  <1>1. lr = "url" /\ lr' \in {"url", "send"}
    BY DEF LRUrl, LRUrlNone, LRUrlDirect, LRUrlPasses, LRRedirect302, LRRedirectHeader,
           LRSendRequest, OnUrlRule, GoOn, Stop
  <1>2. UNCHANGED <<cfg, sent, got, up>>
    BY DEF LRUrl, LRUrlNone, LRUrlDirect, LRUrlPasses, LRRedirect302, LRRedirectHeader,
           LRSendRequest, OnUrlRule
  <1>3. ran' = ran \/ (ran' = ran \cup {<<q.id, UrlRule.action>>} /\ Next1(cfg.url) # 0)
    BY DEF LRUrl, LRUrlNone, LRUrlDirect, LRUrlPasses, LRRedirect302, LRRedirectHeader,
           LRSendRequest, OnUrlRule, Ran
  <1>4. elsewhere' = elsewhere \/ elsewhere' = Append(elsewhere, q)
    BY DEF LRUrl, LRUrlNone, LRUrlDirect, LRUrlPasses, LRRedirect302, LRRedirectHeader,
           LRSendRequest, GoOn
  <1>5. down' = down \/ \E by \in {"ua3f", "elsewhere"} : Answer(by)
    BY DEF LRUrl, LRUrlNone, LRUrlDirect, LRUrlPasses, LRRedirect302, LRRedirectHeader,
           LRSendRequest, GoOn
  <1>6. /\ q' \in {q, Direct(q), [q EXCEPT !.path = UrlRule.to[2]], [q EXCEPT !.body.cut = TRUE]}
    BY DEF LRUrl, LRUrlNone, LRUrlDirect, LRUrlPasses, LRRedirect302, LRRedirectHeader,
           LRSendRequest
  <1>7. "id" \in DOMAIN q /\ q.id = got /\ got # 0 /\ cfg.mode = "RULE" /\ got \in Nat
    BY <1>1 DEF RInv, Current, Sending, Checked, Typed
  <1>8. Current'
    BY <1>1, <1>2, <1>6, <1>7, KeepsId DEF Current
  <1>9. IsSeq(elsewhere') /\ Gone' \subseteq Gone \cup {got}
    <2>1. CASE elsewhere' = elsewhere
      BY <2>1 DEF Gone, RInv, Typed
    <2>2. CASE elsewhere' = Append(elsewhere, q)
      BY <1>7, <2>2, AppendIsSeq, IdsOfAppend DEF Gone, RInv, Typed
    <2>. QED
      BY <1>4, <2>1, <2>2
  <1>10. IsSeq(down') /\ Answered' \subseteq Answered \cup {got}
    <2>1. CASE down' = down
      BY <2>1 DEF Answered, RInv, Typed
    <2>2. ASSUME NEW by \in {"ua3f", "elsewhere"}, Answer(by)
          PROVE  IsSeq(down') /\ Answered' \subseteq Answered \cup {got}
      <3>. DEFINE d == [by |-> by, of |-> q.id, part |-> "whole", seen |-> {}]
      <3>1. down' = Append(down, d) /\ d.of = got
        BY <1>7, <2>2 DEF Answer
      <3>. HIDE DEF d
      <3>2. IsSeq(down)
        BY DEF RInv, Typed
      <3>3. Own(Append(down, d)) \subseteq Own(down) \cup {got}
        BY <3>1, <3>2, OwnOfAppend
      <3>4. IsSeq(Append(down, d))
        BY <3>2, AppendIsSeq
      <3>. QED
        BY <3>1, <3>3, <3>4 DEF Own, Answered
    <2>. QED
      BY <1>5, <2>1, <2>2
  <1>11. Reached' \subseteq Reached \cup {got}
    BY <1>2, <1>9, <1>10 DEF Reached, Forwarded
  <1>12. Typed'
    BY <1>2, <1>9, <1>10 DEF RInv, Typed, IsSeq
  <1>13. Rejected'
    <2>1. \A t \in ran : t[2] # "REJECT"
      BY <1>1 DEF RInv, Rejected
    <2>2. Next1(cfg.url) # 0 => UrlRule.action # "REJECT"
      BY <1>1, NoUrlReject
    <2>. QED
      BY <1>3, <2>1, <2>2 DEF Rejected
  <1>14. Before'
    BY <1>2, <1>7, <1>11 DEF RInv, Before
  <1>. QED
    BY <1>1, <1>2, <1>7, <1>8, <1>12, <1>13, <1>14 DEF RInv, Checked, Fresh

LEMMA SwallowKeepsRInv == RInv /\ ~crashed /\ LRSwallow => RInv'
  <1>. SUFFICES ASSUME RInv, ~crashed, LRSwallow PROVE RInv'
    OBVIOUS
  <1>. USE DEF LRSwallow, LRKeeps, client
  <1>1. Reached' = Reached
    BY DEF Reached, Forwarded, Answered, Gone
  <1>2. Typed'
    BY DEF RInv, Typed, IsSeq
  <1>. QED
    BY <1>1, <1>2 DEF RInv, Current, Rejected, Checked, Fresh, Before, Sending

(* A request goes to the server: by WriteRequest, or by the copy. *)
LEMMA SentKeepsTyped ==
    ASSUME RInv, NEW m, up' = Append(up, m), UNCHANGED <<elsewhere, down>>
    PROVE  IsSeq(up') /\ Reached' = Reached \cup {m.id}
  <1>1. Forwarded' = Forwarded \cup {m.id} /\ IsSeq(up')
    BY AppendIsSeq, IdsOfAppend DEF RInv, Typed, Forwarded
  <1>2. Answered' = Answered /\ Gone' = Gone
    BY DEF Answered, Gone
  <1>. QED
    BY <1>1, <1>2 DEF Reached

LEMMA ForwardKeepsRInv == RInv /\ ~crashed /\ LRForward => RInv'
  <1>. SUFFICES ASSUME RInv, ~crashed, LRForward PROVE RInv'
    OBVIOUS
  <1>. USE DEF LRForward, LRKeeps, client
  <1>1. "id" \in DOMAIN q /\ q.id = got /\ got # 0 /\ got \in Nat
    BY DEF RInv, Current, Sending, Typed
  <1>. DEFINE m == UserAgent(q)
  <1>2. m.id = got
    BY <1>1, KeepsId
  <1>3. up' = Append(up, m)
    OBVIOUS
  <1>. HIDE DEF m
  <1>4. IsSeq(up') /\ Reached' = Reached \cup {got}
    BY <1>2, <1>3, SentKeepsTyped
  <1>5. Typed'
    BY <1>4 DEF RInv, Typed, IsSeq
  <1>6. Rejected'
    BY DEF RInv, Rejected
  <1>7. Before'
    BY <1>1, <1>4 DEF RInv, Before
  <1>. QED
    BY <1>5, <1>6, <1>7 DEF RInv, Current, Checked, Fresh, Sending

LEMMA RawKeepsRInv == RInv /\ ~crashed /\ LRRaw => RInv'
  <1>. SUFFICES ASSUME RInv, ~crashed, LRRaw PROVE RInv'
    OBVIOUS
  <1>. USE DEF LRRaw, LRKeeps, client
  <1>1. got + 1 \in 1..Len(sent) /\ got' = got + 1 /\ got \in Nat
    BY DEF RInv, Typed
  <1>2. "id" \in DOMAIN sent[got + 1]
    BY <1>1, KindsAssumption DEF RInv, Typed, Requests
  <1>. DEFINE m == [sent[got + 1] EXCEPT !.id = got + 1, !.hdr.ua = <<Get(@)>>]
  <1>3. m.id = got + 1
    BY <1>2
  <1>4. up' = Append(up, m)
    OBVIOUS
  <1>. HIDE DEF m
  <1>5. IsSeq(up') /\ Reached' = Reached \cup {got + 1}
    BY <1>3, <1>4, SentKeepsTyped
  <1>6. Typed'
    BY <1>1, <1>5 DEF RInv, Typed, IsSeq
  <1>7. Rejected'
    BY DEF RInv, Rejected
  <1>8. Before'
    BY <1>1, <1>5 DEF RInv, Before
  <1>. QED
    BY <1>6, <1>7, <1>8 DEF RInv, Current, Checked, Fresh, Sending

LEMMA RLKeepsRInv == RInv /\ ~crashed /\ RL => RInv'
  <1>. SUFFICES ASSUME RInv, ~crashed, RL PROVE RInv'
    OBVIOUS
  <1>1. RLKeeps
    BY DEF RL, RLRead, RLBody, RLHeader, RLDrop, RLHead, RLTail, RLEat, RLRaw, RLRawTail
  <1>2. down' = down \/ \E part, m, by : Piece(part, m, by)
    BY DEF RL, RLRead, RLBody, RLHeader, RLDrop, RLHead, RLTail, RLEat, RLRaw, RLRawTail
  <1>3. down' = down \/ \E d : d.by = "server" /\ down' = Append(down, d)
    BY <1>2 DEF Piece
  <1>. QED
    BY <1>1, <1>3, OthersKeepRInv DEF RLKeeps, client, RInv, Typed

LEMMA NextKeepsRInv == RInv /\ [Next]_vars => RInv'
  <1>. SUFFICES ASSUME RInv, [Next]_vars PROVE RInv'
    OBVIOUS
  <1>1. CASE UNCHANGED vars
    <2>1. Reached' = Reached
      BY <1>1 DEF vars, lvars, Reached, Forwarded, Answered, Gone
    <2>. QED
      BY <1>1, <2>1 DEF vars, client, lvars, RInv, Typed, Current, Rejected, Checked, Fresh, Before, IsSeq
  <1>2. CASE Next
    <2>. USE <1>2 DEF Next
    <2>1. CASE Start
      BY <2>1, StartKeepsRInv
    <2>2. CASE LoadDomainSet
      BY <2>2, OthersKeepRInv DEF LoadDomainSet, client, RInv, Typed
    <2>3. CASE LR
      BY <2>3, ReadKeepsRInv, GlobalKeepsRInv, BodyKeepsRInv, HeaderKeepsRInv, UrlKeepsRInv,
         SwallowKeepsRInv, ForwardKeepsRInv, RawKeepsRInv DEF LR
    <2>4. CASE RL
      BY <2>4, RLKeepsRInv
    <2>5. CASE ClientSend
      <3>1. PICK k \in Kinds : sent' = Append(sent, k)
        BY <2>5 DEF ClientSend
      <3>2. sent' \in Seq(Kinds)
        BY <3>1 DEF RInv, Typed
      <3>. QED
        BY <2>5, <3>2, OthersKeepRInv DEF ClientSend
    <2>6. CASE ServerReply
      BY <2>6, OthersKeepRInv DEF ServerReply, client, RInv, Typed
    <2>. QED
      BY <2>1, <2>2, <2>3, <2>4, <2>5, <2>6
  <1>. QED
    BY <1>1, <1>2

(* The strengthened invariant holds of every state. *)
THEOREM RejectInvariant == Spec => []RInv
  <1>1. Init => RInv
    BY InitRInv
  <1>2. RInv /\ [Next]_vars => RInv'
    BY NextKeepsRInv
  <1>. QED
    BY <1>1, <1>2, PTL DEF Spec

(* A request that REJECT was executed on goes nowhere, and is the last one that
   is read, whatever the rules, the requests and the responses.               *)
THEOREM RejectedGoesNowhere == Spec => []RejectHolds
  <1>1. RInv => RejectHolds
    <2>. SUFFICES ASSUME RInv, NEW i \in 1..got, <<i, "REJECT">> \in ran
                  PROVE  /\ i \notin Forwarded \cup Answered
                         /\ \A k \in DOMAIN elsewhere : elsewhere[k].id # i
                         /\ got = i
      BY DEF RejectHolds
    <2>1. got = i /\ got \notin Reached
      BY DEF RInv, Rejected
    <2>. QED
      BY <2>1 DEF Reached, Gone
  <1>. QED
    BY <1>1, RejectInvariant, PTL

(* Whatever reached a server, another host or the client as UA3F's own answer
   belongs to a request that has been read.                                   *)
THEOREM NothingInvented == Spec => []Before
  <1>1. RInv => Before
    BY DEF RInv
  <1>. QED
    BY <1>1, RejectInvariant, PTL

-----------------------------------------------------------------------------
(* What the request of the moment looks like: its agent, and its body, which *)
(* is that of the client but for what a body rule has made of it.            *)
AgentsOf(i) == {Get(sent[i].hdr.ua), ""} \cup Values
Went(i)     == \E j \in DOMAIN elsewhere : elsewhere[j].id = i
Same(o, s, rewritten) ==
    /\ s.enc = o.enc /\ Intact(o, s, rewritten)
    /\ s.cut => o.cut
(* A request i that is m by now, one that was sent as m, or elsewhere as m. *)
Carries(m, i) ==
    /\ m \in Requests /\ Get(m.hdr.ua) \in AgentsOf(i)
    /\ Same(sent[i].body, m.body, <<i, "REPLACE-REGEX">> \in ran) \/ Went(i)
SentOK(m) ==
    /\ SentAgent(m) \in AgentsOf(m.id)
    /\ Intact(sent[m.id].body, m.body, <<m.id, "REPLACE-REGEX">> \in ran) \/ Went(m.id)
AwayOK(m) == SentAgent(m) \in AgentsOf(m.id) \/ <<m.id, "DELETE">> \in ran

(* Only a DELETE takes the header away, and there is one until the header
   rules: what goes on without one went through such a rule.               *)
Deleted == lr \in {"body", "header", "url"} /\ q.hdr.ua = <<>> => <<got, "DELETE">> \in ran
Carried == /\ got <= Len(sent)
           /\ lr \in Sending => Carries(q, got)
           /\ Deleted
           /\ lr = "header" /\ ix # 0 => ix \in Listed(cfg.header)
UpOK    == \A k \in DOMAIN up : SentOK(up[k])
ElseOK  == \A k \in DOMAIN elsewhere : AwayOK(elsewhere[k])
MInv == Carried /\ UpOK /\ ElseOK

(* The response of the moment. *)
Answering ==
    /\ replies \in Seq(Responses)
    /\ rep \in 0..Len(replies)
    /\ rl \in {"body", "header", "decided", "copy"} =>
          /\ rep # 0 /\ Same(replies[rep].body, p.body, BodyRules("RESPONSE"))
          /\ p \in Responses
    /\ rl = "header" /\ rix # 0 => rix \in Listed(cfg.header)

-----------------------------------------------------------------------------
(* The operators of RuleEngine on messages. *)

LEMMA GetTyped ==
    ASSUME NEW v \in Seq(Texts)
    PROVE  /\ Get(v) \in Texts /\ (v = <<>> => Get(v) = "")
           /\ \A w \in Texts : /\ Append(v, w) \in Seq(Texts) /\ Append(v, w) # <<>>
                               /\ Get(Append(v, w)) = IF v = <<>> THEN w ELSE Get(v)
           /\ \A w \in Texts : <<w>> \in Seq(Texts) /\ <<w>> # <<>> /\ Get(<<w>>) = w
           /\ <<>> \in Seq(Texts) /\ Get(<<>>) = ""
  <1>1. Get(v) \in Texts /\ (v = <<>> => Get(v) = "")
    <2>1. CASE v = <<>>
      BY <2>1, TextsAssumption DEF Get
    <2>2. CASE v # <<>>
      <3>1. v[1] \in Texts
        BY <2>2
      <3>. QED
        BY <2>2, <3>1 DEF Get
    <2>. QED
      BY <2>1, <2>2
  <1>2. ASSUME NEW w \in Texts
        PROVE  /\ Append(v, w) \in Seq(Texts) /\ Append(v, w) # <<>>
               /\ Get(Append(v, w)) = IF v = <<>> THEN w ELSE Get(v)
    <2>1. /\ Append(v, w) \in Seq(Texts) /\ Len(Append(v, w)) = Len(v) + 1 /\ Len(v) \in Nat
          /\ Append(v, w)[Len(v) + 1] = w /\ \A i \in 1..Len(v) : Append(v, w)[i] = v[i]
      OBVIOUS
    <2>2. Append(v, w) # <<>>
      <3>1. ASSUME NEW u \in Seq(Texts), Len(u) # 0 PROVE u # <<>>
        BY <3>1
      <3>. QED
        BY <2>1, <3>1
    <2>3. v = <<>> => Append(v, w)[1] = w
      BY <2>1
    <2>4. v # <<>> => 1 \in 1..Len(v)
      OBVIOUS
    <2>. QED
      BY <2>1, <2>2, <2>3, <2>4 DEF Get
  <1>3. ASSUME NEW w \in Texts
        PROVE  <<w>> \in Seq(Texts) /\ <<w>> # <<>> /\ Get(<<w>>) = w
    <2>1. <<w>> \in Seq(Texts) /\ <<w>> # <<>> /\ <<w>>[1] = w
      OBVIOUS
    <2>. QED
      BY <2>1 DEF Get
  <1>4. <<>> \in Seq(Texts) /\ Get(<<>>) = ""
    BY DEF Get
  <1>. QED
    BY <1>1, <1>2, <1>3, <1>4

(* What the header actions make of the values of a header. *)
LEMMA HeaderValues ==
    ASSUME NEW v \in Seq(Texts), NEW rule, rule.val \in Texts
    PROVE  /\ \A w \in {Add(rule, v), Delete(rule, v), Replace(rule, v), ReplaceRegex(rule, v)} :
                  w \in Seq(Texts) /\ Get(w) \in {Get(v), "", rule.val}
           /\ \A w \in {Add(rule, v), Replace(rule, v), ReplaceRegex(rule, v)} : w = <<>> => v = <<>>
  <1>1. Add(rule, v) \in Seq(Texts) /\ Get(Add(rule, v)) \in {Get(v), rule.val} /\ Add(rule, v) # <<>>
    BY GetTyped DEF Add
  <1>2. Delete(rule, v) \in Seq(Texts) /\ Get(Delete(rule, v)) = ""
    BY GetTyped DEF Delete
  <1>3. /\ Replace(rule, v) \in Seq(Texts) /\ Get(Replace(rule, v)) = rule.val
        /\ Replace(rule, v) # <<>>
    BY GetTyped DEF Replace
  <1>4. /\ ReplaceRegex(rule, v) \in Seq(Texts)
        /\ Get(ReplaceRegex(rule, v)) \in {Get(v), rule.val}
        /\ ReplaceRegex(rule, v) = <<>> => v = <<>>
    <2>1. CASE Get(v) = ""
      BY <2>1 DEF ReplaceRegex
    <2>2. CASE Get(v) # ""
      <3>1. PICK w \in {Get(v), rule.val} : ReplaceRegex(rule, v) = <<w>>
        BY <2>2 DEF ReplaceRegex
      <3>. QED
        BY <3>1, GetTyped
    <2>. QED
      BY <2>1, <2>2
  <1>. QED
    BY <1>1, <1>2, <1>3, <1>4

LEMMA ExecuteRequest ==
    ASSUME NEW m \in Requests, NEW rule, rule.val \in Texts, rule.hdr \in {"ua", "x"},
           NEW n, n = Execute(rule, m)
    PROVE  /\ n \in Requests /\ n.body = m.body /\ n.id = m.id
           /\ Get(n.hdr.ua) \in {Get(m.hdr.ua), "", rule.val}
           /\ n.hdr.ua = <<>> => m.hdr.ua = <<>> \/ rule.action = "DELETE"
  <1>1. ASSUME NEW v \in Seq(Texts), n = [m EXCEPT !.hdr[rule.hdr] = v]
        PROVE  /\ n \in Requests /\ n.body = m.body /\ n.id = m.id
               /\ n.hdr.ua = IF rule.hdr = "ua" THEN v ELSE m.hdr.ua
    <2>1. CASE rule.hdr = "ua"
      BY <1>1, <2>1 DEF Requests, Headers
    <2>2. CASE rule.hdr = "x"
      BY <1>1, <2>2 DEF Requests, Headers
    <2>. QED
      BY <2>1, <2>2
  <1>2. PICK v : v = m.hdr[rule.hdr] /\ v \in Seq(Texts) /\ (rule.hdr = "ua" => v = m.hdr.ua)
    BY DEF Requests, Headers
  <1>3. CASE rule.action \in {"ADD", "REPLACE", "REPLACE-REGEX"}
    <2>1. PICK w \in {Add(rule, v), Replace(rule, v), ReplaceRegex(rule, v)} :
              n = [m EXCEPT !.hdr[rule.hdr] = w]
      BY <1>2, <1>3 DEF Execute
    <2>2. /\ w \in Seq(Texts) /\ Get(w) \in {Get(v), "", rule.val} /\ (w = <<>> => v = <<>>)
      <3>1. v \in Seq(Texts)
        BY <1>2
      <3>2. /\ w \in {Add(rule, v), Delete(rule, v), Replace(rule, v), ReplaceRegex(rule, v)}
            /\ w \in {Add(rule, v), Replace(rule, v), ReplaceRegex(rule, v)}
        BY <2>1
      <3>. QED
        BY <3>1, <3>2, HeaderValues, Zenon
    <2>. QED
      BY <1>1, <1>2, <2>1, <2>2
  <1>4. CASE rule.action = "DELETE"
    <2>1. n = [m EXCEPT !.hdr[rule.hdr] = Delete(rule, v)]
      BY <1>2, <1>4 DEF Execute
    <2>2. /\ Delete(rule, v) \in Seq(Texts) /\ Get(Delete(rule, v)) \in {Get(v), "", rule.val}
      BY <1>2, HeaderValues
    <2>. QED
      BY <1>1, <1>2, <1>4, <2>1, <2>2
  <1>5. CASE rule.action \notin {"ADD", "REPLACE", "REPLACE-REGEX", "DELETE"}
    BY <1>5 DEF Execute
  <1>. QED
    BY <1>3, <1>4, <1>5

LEMMA UserAgentRequest ==
    ASSUME NEW m \in Requests, NEW n \in {UserAgent(m), Direct(m)}
    PROVE  /\ n \in Requests /\ n.body = m.body /\ n.id = m.id
           /\ Get(n.hdr.ua) = Get(m.hdr.ua) /\ n.hdr.ua # <<>>
  <1>1. m.hdr.ua \in Seq(Texts) /\ "" \in Texts
    BY TextsAssumption DEF Requests, Headers
  <1>2. CASE Get(m.hdr.ua) = ""
    <2>1. n = [m EXCEPT !.hdr.ua = <<"">>]
      BY <1>2 DEF UserAgent, Direct
    <2>2. <<"">> \in Seq(Texts) /\ <<"">> # <<>> /\ Get(<<"">>) = ""
      BY <1>1, GetTyped
    <2>3. n \in Requests /\ n.body = m.body /\ n.id = m.id /\ n.hdr.ua = <<"">>
      BY <2>1, <2>2 DEF Requests, Headers
    <2>. QED
      BY <1>2, <2>2, <2>3
  <1>3. CASE Get(m.hdr.ua) # ""
    BY <1>1, <1>3, GetTyped DEF UserAgent, Direct
  <1>. QED
    BY <1>2, <1>3

(* A body rule keeps what the encoding says of a body. *)
LEMMA RewriteBody ==
    ASSUME NEW o \in Bodies, NEW s \in Bodies, NEW r \in BOOLEAN,
           NEW rule, rule.val \in Texts, rule.val \in Values,
           NEW n \in {RewriteRequestBody(rule, s), RewriteResponseBody(rule, s)}
    PROVE  n \in Bodies /\ (Same(o, s, r) => Same(o, n, TRUE))
  <1>1. n = Encode(Substitute(rule, IF s.cut THEN Empty(s) ELSE Decode(s)))
    BY DEF RewriteRequestBody, RewriteResponseBody, UpdateRequestBody, UpdateResponseBody,
           RequestBody, ResponseBody
  <1>2. PICK b : b = IF s.cut THEN Empty(s) ELSE Decode(s)
    OBVIOUS
  <1>3. /\ b \in Bodies /\ b.enc = s.enc /\ ~b.cut
        /\ ~s.cut => b.text = s.text /\ b.zip = IF s.enc = "gzip" /\ s.zip > 0 THEN s.zip - 1 ELSE s.zip
    <2>1. CASE s.cut
      <3>1. b = [s EXCEPT !.text = "", !.zip = 0, !.cut = FALSE]
        BY <1>2, <2>1 DEF Empty
      <3>. QED
        BY <2>1, <3>1, TextsAssumption DEF Bodies
    <2>2. CASE ~s.cut /\ s.enc = "gzip" /\ s.zip > 0
      <3>1. b = [s EXCEPT !.zip = s.zip - 1]
        BY <1>2, <2>2 DEF Decode
      <3>2. s.zip \in Nat
        BY DEF Bodies
      <3>3. s.zip - 1 \in Nat
        BY <2>2, <3>2
      <3>. QED
        BY <2>2, <3>1, <3>3 DEF Bodies
    <2>3. CASE ~s.cut /\ ~(s.enc = "gzip" /\ s.zip > 0)
      BY <1>2, <2>3 DEF Decode, Bodies
    <2>. QED
      BY <2>1, <2>2, <2>3
  <1>4. PICK d : d = Substitute(rule, b)
    OBVIOUS
  <1>5. /\ d \in Bodies /\ d.enc = b.enc /\ d.zip = b.zip /\ ~d.cut /\ d.text \in {b.text, rule.val}
    BY <1>3, <1>4 DEF Bodies, Substitute
  <1>6. n = Encode(d)
    BY <1>1, <1>2, <1>4
  <1>7. /\ n \in Bodies /\ n.enc = d.enc /\ n.text = d.text /\ ~n.cut
        /\ n.zip = IF d.enc = "gzip" THEN d.zip + 1 ELSE d.zip
    <2>1. CASE d.enc = "gzip"
      <3>1. n = [d EXCEPT !.zip = d.zip + 1]
        BY <1>6, <2>1 DEF Encode
      <3>2. d.zip \in Nat
        BY <1>5 DEF Bodies
      <3>3. d.zip + 1 \in Nat
        BY <3>2
      <3>. QED
        BY <1>5, <2>1, <3>1, <3>3 DEF Bodies
    <2>2. CASE d.enc # "gzip"
      BY <1>5, <1>6, <2>2 DEF Encode
    <2>. QED
      BY <2>1, <2>2
  <1>8. ASSUME NEW x \in Bodies
        PROVE  /\ Decode(x).text = x.text
               /\ Decode(x).zip = IF x.enc = "gzip" /\ x.zip > 0 THEN x.zip - 1 ELSE x.zip
    BY DEF Bodies, Decode
  <1>. SUFFICES ASSUME Same(o, s, r) PROVE Same(o, n, TRUE)
    BY <1>7
  <1>9. CASE o.cut
    BY <1>3, <1>5, <1>7, <1>9 DEF Same, Intact
  <1>10. CASE ~o.cut
    <2>1. ~s.cut /\ s.enc = o.enc
      BY <1>10 DEF Same
    <2>. SUFFICES ASSUME Labelled(o)
                  PROVE  /\ Labelled(n) /\ Decode(n).zip = Decode(o).zip
                         /\ Decode(n).text = Decode(o).text \/ Decode(n).text \in Values
      BY <1>3, <1>5, <1>7, <1>10, <2>1 DEF Same, Intact
    <2>2. /\ Labelled(s) /\ Decode(s).zip = Decode(o).zip
          /\ Decode(s).text = Decode(o).text \/ Decode(s).text \in Values
      BY <1>10 DEF Same, Intact
    <2>3. n.zip \in Nat /\ d.zip \in Nat /\ s.zip \in Nat
      BY <1>5, <1>7 DEF Bodies
    <2>. QED
      BY <1>3, <1>5, <1>7, <1>8, <2>1, <2>2, <2>3 DEF Labelled
  <1>. QED
    BY <1>7, <1>9, <1>10

(* A listed body or header rule, and what it says. *)
LEMMA RuleSays ==
    ASSUME cfg \in Configs, NEW rules \in {cfg.header, cfg.body}, NEW i \in Listed(rules)
    PROVE  rules[i].val \in Texts /\ rules[i].val \in Values /\ rules[i].hdr \in {"ua", "x"}
  <1>1. i \in DOMAIN rules
    BY DEF Listed
  <1>2. rules[i].val \in Texts /\ rules[i].hdr \in {"ua", "x"}
    BY <1>1, ConfigsAssumption
  <1>3. rules[i] \in RulesOf(rules)
    BY DEF RulesOf
  <1>. QED
    BY <1>2, <1>3 DEF Values

-----------------------------------------------------------------------------
(* What stays true of a request while the others go on. *)

Steady ==
    /\ cfg' = cfg /\ ran \subseteq ran'
    /\ \A i \in 1..Len(sent) : sent'[i] = sent[i]
    /\ elsewhere' = elsewhere \/ \E m : elsewhere' = Append(elsewhere, m)

LEMMA WentStays ==
    ASSUME RInv, Steady, NEW i, Went(i) PROVE Went(i)'
  <1>1. PICK j \in DOMAIN elsewhere : elsewhere[j].id = i
    BY DEF Went
  <1>2. CASE elsewhere' = elsewhere
    BY <1>1, <1>2 DEF Went
  <1>3. ASSUME NEW m, elsewhere' = Append(elsewhere, m)
        PROVE  Went(i)'
    <2>1. j \in DOMAIN Append(elsewhere, m) /\ Append(elsewhere, m)[j] = elsewhere[j]
      BY AppendIsSeq DEF RInv, Typed
    <2>. QED
      BY <1>1, <1>3, <2>1 DEF Went
  <1>. QED
    BY <1>2, <1>3 DEF Steady

LEMMA ValuesStay == Steady => Values' = Values
  BY DEF Steady, Values

LEMMA IntactStays ==
    ASSUME Steady, NEW o, NEW s, NEW i
    PROVE  /\ Intact(o, s, <<i, "REPLACE-REGEX">> \in ran) => Intact(o, s, <<i, "REPLACE-REGEX">> \in ran)'
           /\ Same(o, s, <<i, "REPLACE-REGEX">> \in ran) => Same(o, s, <<i, "REPLACE-REGEX">> \in ran)'
  <1>1. <<i, "REPLACE-REGEX">> \in ran => <<i, "REPLACE-REGEX">> \in ran'
    BY DEF Steady
  <1>. QED
    BY <1>1, ValuesStay DEF Intact, Same

LEMMA RequestStays ==
    ASSUME RInv, Steady, NEW m, NEW i \in 1..Len(sent)
    PROVE  /\ AgentsOf(i)' = AgentsOf(i)
           /\ Carries(m, i) => Carries(m, i)'
           /\ m.id = i /\ SentOK(m) => SentOK(m)'
           /\ m.id = i /\ AwayOK(m) => AwayOK(m)'
  <1>1. sent'[i] = sent[i]
    BY DEF Steady
  <1>2. AgentsOf(i)' = AgentsOf(i)
    BY <1>1, ValuesStay DEF AgentsOf
  <1>3. \A a : <<i, a>> \in ran => <<i, a>> \in ran'
    BY DEF Steady
  <1>4. Went(i) => Went(i)'
    BY WentStays
  <1>5. PICK o : o = sent[i].body
    OBVIOUS
  <1>6. /\ Intact(o, m.body, <<i, "REPLACE-REGEX">> \in ran)
              => Intact(o, m.body, <<i, "REPLACE-REGEX">> \in ran)'
        /\ Same(o, m.body, <<i, "REPLACE-REGEX">> \in ran)
              => Same(o, m.body, <<i, "REPLACE-REGEX">> \in ran)'
    BY IntactStays
  <1>7. Carries(m, i) => Carries(m, i)'
    BY <1>1, <1>2, <1>4, <1>5, <1>6 DEF Carries
  <1>8. m.id = i /\ SentOK(m) => SentOK(m)'
    BY <1>1, <1>2, <1>4, <1>5, <1>6 DEF SentOK
  <1>9. m.id = i /\ AwayOK(m) => AwayOK(m)'
    <2>1. ASSUME m.id = i, SentAgent(m) \in AgentsOf(i)
          PROVE  SentAgent(m) \in AgentsOf(m.id)'
      BY <1>2, <2>1
    <2>. QED
      BY <1>2, <1>3, <2>1 DEF AwayOK
  <1>. QED
    BY <1>2, <1>7, <1>8, <1>9

(* What was sent stays so, and what is sent now may be. *)
LEMMA SendingKeeps ==
    ASSUME RInv, MInv, Steady,
           \/ up' = up
           \/ \E m : up' = Append(up, m) /\ m.id \in 1..Len(sent) /\ SentOK(m),
           \/ elsewhere' = elsewhere
           \/ \E m : elsewhere' = Append(elsewhere, m) /\ m.id \in 1..Len(sent) /\ AwayOK(m)
    PROVE  UpOK' /\ ElseOK'
  <1>1. \A i \in 1..got : i \in 1..Len(sent)
    BY DEF RInv, Typed, MInv, Carried
  <1>2. ASSUME NEW k \in DOMAIN up
        PROVE  \E m : m = up[k] /\ SentOK(m)'
    <2>1. PICK m : m = up[k]
      OBVIOUS
    <2>2. m.id \in 1..Len(sent)
      BY <1>1, <2>1 DEF RInv, Before, Reached, Forwarded
    <2>3. SentOK(m)
      BY <2>1 DEF MInv, UpOK
    <2>. QED
      BY <2>1, <2>2, <2>3, RequestStays
  <1>3. ASSUME NEW k \in DOMAIN elsewhere
        PROVE  \E m : m = elsewhere[k] /\ AwayOK(m)'
    <2>1. PICK m : m = elsewhere[k]
      OBVIOUS
    <2>2. m.id \in 1..Len(sent)
      BY <1>1, <2>1 DEF RInv, Before, Reached, Gone
    <2>3. AwayOK(m)
      BY <2>1 DEF MInv, ElseOK
    <2>. QED
      BY <2>1, <2>2, <2>3, RequestStays
  <1>4. ASSUME NEW k \in DOMAIN up'
        PROVE  \E m : m = up'[k] /\ SentOK(m)'
    <2>1. CASE up' = up
      BY <1>2, <2>1
    <2>2. ASSUME NEW m, up' = Append(up, m), m.id \in 1..Len(sent), SentOK(m)
          PROVE  \E n : n = up'[k] /\ SentOK(n)'
      <3>1. /\ DOMAIN up = 1..Len(up) /\ Len(up) \in Nat
            /\ DOMAIN up' = 1..Len(up) + 1
            /\ \A j \in DOMAIN up : up'[j] = up[j]
            /\ up'[Len(up) + 1] = m
        BY <2>2, AppendIsSeq DEF RInv, Typed
      <3>2. CASE k \in DOMAIN up
        BY <1>2, <3>1, <3>2
      <3>3. CASE k \notin DOMAIN up
        <4>1. k = Len(up) + 1
          BY <3>1, <3>3
        <4>. QED
          BY <2>2, <3>1, <4>1, RequestStays
      <3>. QED
        BY <3>2, <3>3
    <2>. QED
      BY <2>1, <2>2
  <1>5. ASSUME NEW k \in DOMAIN elsewhere'
        PROVE  \E m : m = elsewhere'[k] /\ AwayOK(m)'
    <2>1. CASE elsewhere' = elsewhere
      BY <1>3, <2>1
    <2>2. ASSUME NEW m, elsewhere' = Append(elsewhere, m), m.id \in 1..Len(sent), AwayOK(m)
          PROVE  \E n : n = elsewhere'[k] /\ AwayOK(n)'
      <3>1. /\ DOMAIN elsewhere = 1..Len(elsewhere) /\ Len(elsewhere) \in Nat
            /\ DOMAIN elsewhere' = 1..Len(elsewhere) + 1
            /\ \A j \in DOMAIN elsewhere : elsewhere'[j] = elsewhere[j]
            /\ elsewhere'[Len(elsewhere) + 1] = m
        BY <2>2, AppendIsSeq DEF RInv, Typed
      <3>2. CASE k \in DOMAIN elsewhere
        BY <1>3, <3>1, <3>2
      <3>3. CASE k \notin DOMAIN elsewhere
        <4>1. k = Len(elsewhere) + 1
          BY <3>1, <3>3
        <4>. QED
          BY <2>2, <3>1, <4>1, RequestStays
      <3>. QED
        BY <3>2, <3>3
    <2>. QED
      BY <2>1, <2>2
  <1>6. UpOK'
    BY <1>4 DEF UpOK, SentOK
  <1>7. ElseOK'
    BY <1>5 DEF ElseOK, AwayOK
  <1>. QED
    BY <1>6, <1>7

(* Every step that ProcessLR has no part in. *)
LEMMA OthersKeepMInv ==
    ASSUME RInv, MInv, Steady, UNCHANGED lvars, Len(sent) <= Len(sent'), Len(sent') \in Nat
    PROVE  MInv'
  <1>1. UpOK' /\ ElseOK'
    BY SendingKeeps DEF lvars
  <1>2. got' <= Len(sent')
    BY DEF lvars, RInv, Typed, MInv, Carried
  <1>3. ASSUME lr \in Sending
        PROVE  Carries(q, got)'
    <2>1. PICK m, i : m = q /\ i = got
      OBVIOUS
    <2>2. i \in 1..Len(sent) /\ Carries(m, i)
      BY <1>3, <2>1 DEF RInv, Typed, Current, MInv, Carried
    <2>3. Carries(m, i)'
      BY <2>2, RequestStays
    <2>4. q' = m /\ got' = i
      BY <2>1 DEF lvars
    <2>. QED
      BY <2>3, <2>4 DEF Carries
  <1>4. Deleted' /\ Sending' = Sending
    BY DEF Deleted, MInv, Carried, lvars, Sending
  <1>. QED
    BY <1>1, <1>2, <1>3, <1>4 DEF MInv, Carried, lvars, Steady, Listed

LEMMA OfTheMoment ==
    ASSUME RInv, MInv, lr \in Sending
    PROVE  got \in 1..Len(sent) /\ Carries(q, got) /\ q.id = got /\ q \in Requests
  BY DEF RInv, Typed, Current, MInv, Carried, Carries

(* A rule or UA3F's own question for the agent: the body stays what it is. *)
LEMMA CarriesOn ==
    ASSUME NEW m \in Requests, NEW n \in Requests, NEW i, Carries(m, i), n.body = m.body,
           \/ Get(n.hdr.ua) = Get(m.hdr.ua) \/ Get(n.hdr.ua) = "" \/ Get(n.hdr.ua) \in Values
    PROVE  Carries(n, i)
  <1>1. Get(n.hdr.ua) \in AgentsOf(i)
    BY DEF Carries, AgentsOf
  <1>. QED
    BY <1>1 DEF Carries

LEMMA StartKeepsMInv == RInv /\ MInv /\ Start => MInv'
  <1>. SUFFICES ASSUME RInv, MInv, Start PROVE MInv'
    OBVIOUS
  <1>1. Steady
    BY DEF Start, client, Steady
  <1>2. UpOK' /\ ElseOK'
    BY <1>1, SendingKeeps DEF Start
  <1>. QED
    BY <1>2 DEF MInv, Carried, Deleted, Start, client, Sending

LEMMA ReadKeepsMInv == RInv /\ MInv /\ LRRead => MInv'
  <1>. SUFFICES ASSUME RInv, MInv, LRRead PROVE MInv'
    OBVIOUS
  <1>1. Steady
    BY DEF LRRead, LRKeeps, client, Steady
  <1>2. UpOK' /\ ElseOK'
    BY <1>1, SendingKeeps DEF LRRead
  <1>3. got + 1 \in 1..Len(sent) /\ got' = got + 1 /\ Len(sent) \in Nat /\ got + 1 \in Nat
    BY DEF LRRead, RInv, Typed
  <1>4. PICK i, k, m : i = got + 1 /\ k = sent[i] /\ m = [k EXCEPT !.id = i]
    OBVIOUS
  <1>5. k \in Requests
    BY <1>3, <1>4, KindsAssumption DEF RInv, Typed
  <1>6. m \in Requests /\ m.body = k.body /\ m.hdr = k.hdr
    BY <1>3, <1>4, <1>5 DEF Requests
  <1>7. q' = UserAgent(m)
    BY <1>4 DEF LRRead
  <1>8. PICK n : n = q'
    OBVIOUS
  <1>9. n \in Requests /\ n.body = k.body /\ Get(n.hdr.ua) = Get(k.hdr.ua) /\ n.hdr.ua # <<>>
    BY <1>6, <1>7, <1>8, UserAgentRequest
  <1>10. sent' = sent
    BY DEF LRRead, LRKeeps, client
  <1>11. Carries(n, i)'
    <2>1. Get(n.hdr.ua) \in AgentsOf(i)'
      BY <1>4, <1>9, <1>10 DEF AgentsOf
    <2>2. \A b, r : Same(b, b, r)'
      BY DEF Same, Intact
    <2>3. Same(sent[i].body, n.body, <<i, "REPLACE-REGEX">> \in ran)'
      BY <1>4, <1>9, <1>10, <2>2
    <2>. QED
      BY <1>9, <2>1, <2>3 DEF Carries
  <1>12. Carries(q, got)' /\ Deleted'
    BY <1>3, <1>4, <1>8, <1>9, <1>11 DEF Carries, Deleted
  <1>. QED
    BY <1>2, <1>3, <1>10, <1>12 DEF MInv, Carried, LRRead

LEMMA GlobalKeepsMInv == RInv /\ MInv /\ LRGlobal => MInv'
  <1>. SUFFICES ASSUME RInv, MInv, LRGlobal PROVE MInv'
    OBVIOUS
  <1>1. Steady
    BY DEF LRGlobal, client, Steady
  <1>2. UpOK' /\ ElseOK'
    BY <1>1, SendingKeeps DEF LRGlobal
  <1>3. PICK m, i, n : m = q /\ i = got /\ n = q'
    OBVIOUS
  <1>4. i \in 1..Len(sent) /\ Carries(m, i) /\ m \in Requests
    BY <1>3, OfTheMoment DEF LRGlobal, Sending
  <1>5. n \in {Execute(RewriteAction, m), Direct(m)}
    BY <1>3 DEF LRGlobal
  <1>6. n \in Requests /\ n.body = m.body /\ Get(n.hdr.ua) \in {Get(m.hdr.ua), "", "new"}
    <2>1. CASE n = Direct(m)
      BY <1>4, <2>1, UserAgentRequest
    <2>2. CASE n = Execute(RewriteAction, m)
      <3>1. PICK r : r = RewriteAction
        OBVIOUS
      <3>2. r.val = "new" /\ r.val \in Texts /\ r.hdr \in {"ua", "x"}
        BY <3>1, TextsAssumption DEF RewriteAction, Rule
      <3>3. n = Execute(r, m)
        BY <2>2, <3>1
      <3>. QED
        BY <1>4, <3>2, <3>3, ExecuteRequest
    <2>. QED
      BY <1>5, <2>1, <2>2
  <1>7. Carries(n, i)
    <2>1. Get(n.hdr.ua) = Get(m.hdr.ua) \/ Get(n.hdr.ua) = "" \/ Get(n.hdr.ua) \in Values
      BY <1>6 DEF Values
    <2>. QED
      BY <1>4, <1>6, <2>1, CarriesOn
  <1>8. Carries(n, i)'
    BY <1>1, <1>4, <1>7, RequestStays
  <1>9. Carries(q, got)'
    BY <1>3, <1>8 DEF LRGlobal, Carries
  <1>. QED
    BY <1>2, <1>9 DEF MInv, Carried, Deleted, LRGlobal, client

LEMMA BodyKeepsMInv == RInv /\ MInv /\ LRBody => MInv'
  <1>. SUFFICES ASSUME RInv, MInv, LRBody PROVE MInv'
    OBVIOUS
  <1>1. Steady
    BY DEF LRBody, LRKeeps, Ran, client, Steady
  <1>2. UpOK' /\ ElseOK'
    BY <1>1, SendingKeeps DEF LRBody
  <1>3. PICK m, i, n, j, rule : m = q /\ i = got /\ n = q' /\ j = Next1(cfg.body) /\ rule = cfg.body[j]
    OBVIOUS
  <1>4. i \in 1..Len(sent) /\ Carries(m, i) /\ m \in Requests /\ m.id = i
    BY <1>3, OfTheMoment DEF LRBody, Sending
  <1>5. UNCHANGED <<got, cfg, sent>> /\ lr' \in {"body", "header", "ended"} /\ (lr' = "header" => ix' = 0)
    BY DEF LRBody, LRKeeps, client, Stage, Refuse
  <1>6. Carries(n, i)' /\ n.hdr = m.hdr
    <2>1. CASE n = m
      BY <1>1, <1>4, <2>1, RequestStays
    <2>2. CASE n # m
      <3>1. /\ j # 0 /\ rule.action = "REPLACE-REGEX" /\ ran' = ran \cup {<<i, "REPLACE-REGEX">>}
            /\ n = [m EXCEPT !.body = RewriteRequestBody(rule, m.body)]
        BY <1>3, <1>4, <2>2 DEF LRBody, Ran
      <3>2. rule.val \in Texts /\ rule.val \in Values
        <4>1. j \in Listed(cfg.body)
          BY <1>3, <3>1, NextRuleListed, ConfigsAssumption DEF Next1, RInv, Typed
        <4>. QED
          BY <1>3, <4>1, RuleSays DEF RInv, Typed
      <3>3. PICK o, b, c : o = sent[i].body /\ b = m.body /\ c = RewriteRequestBody(rule, b)
        OBVIOUS
      <3>4. o \in Bodies /\ b \in Bodies
        BY <1>4, <3>3, KindsAssumption DEF Requests, RInv, Typed
      <3>5. /\ c \in Bodies
            /\ Same(o, b, TRUE) => Same(o, c, TRUE)
            /\ Same(o, b, FALSE) => Same(o, c, TRUE)
        BY <3>2, <3>3, <3>4, RewriteBody
      <3>6. n \in Requests /\ n.body = c /\ n.hdr = m.hdr
        BY <1>4, <3>1, <3>3, <3>5 DEF Requests
      <3>7. <<i, "REPLACE-REGEX">> \in ran'
        BY <3>1
      <3>8. Same(o, b, <<i, "REPLACE-REGEX">> \in ran) => Same(o, c, TRUE)
        BY <3>5 DEF Same, Intact
      <3>9. Same(o, c, TRUE) => Same(o, c, <<i, "REPLACE-REGEX">> \in ran)'
        BY <1>1, <3>7, ValuesStay DEF Same, Intact
      <3>10. Same(sent[i].body, n.body, <<i, "REPLACE-REGEX">> \in ran)' \/ Went(i)'
        BY <1>1, <1>4, <1>5, <3>3, <3>6, <3>8, <3>9, WentStays DEF Carries
      <3>11. Get(n.hdr.ua) \in AgentsOf(i)'
        BY <1>1, <1>4, <3>6, RequestStays DEF Carries
      <3>. QED
        BY <3>6, <3>10, <3>11 DEF Carries
    <2>. QED
      BY <2>1, <2>2
  <1>7. Carries(q, got)'
    BY <1>3, <1>5, <1>6 DEF Carries
  <1>8. Deleted'
    BY <1>1, <1>3, <1>5, <1>6 DEF MInv, Carried, Deleted, Steady, LRBody
  <1>. QED
    BY <1>2, <1>5, <1>7, <1>8 DEF MInv, Carried

LEMMA HeaderKeepsMInv == RInv /\ MInv /\ LRHeader => MInv'
  <1>. SUFFICES ASSUME RInv, MInv, LRHeader PROVE MInv'
    OBVIOUS
  <1>1. Steady
    BY DEF LRHeader, LRKeeps, Ran, client, Steady
  <1>2. UpOK' /\ ElseOK'
    BY <1>1, SendingKeeps DEF LRHeader
  <1>3. PICK m, i, n, j : m = q /\ i = got /\ n = q' /\ j = Next1(cfg.header)
    OBVIOUS
  <1>4. i \in 1..Len(sent) /\ Carries(m, i) /\ m \in Requests /\ m.id = i
    BY <1>3, OfTheMoment DEF LRHeader, Sending
  <1>5. UNCHANGED <<got, cfg, sent>> /\ lr = "header" /\ lr' \in {"header", "url", "send", "ended"}
    BY DEF LRHeader, LRKeeps, client, Stage, Refuse
  <1>6. ASSUME j # 0
        PROVE  j \in Listed(cfg.header)
    BY <1>3, <1>6, NextRuleListed, ConfigsAssumption DEF Next1, RInv, Typed
  <1>7. lr' = "header" /\ ix' # 0 => ix' \in Listed(cfg.header)
    <2>1. CASE j = 0
      BY <1>3, <2>1 DEF LRHeader
    <2>2. CASE j # 0
      BY <1>3, <1>6, <2>2 DEF LRHeader, Stage, Refuse
    <2>. QED
      BY <2>1, <2>2
  <1>8. /\ n \in Requests /\ n.body = m.body /\ n.id = m.id /\ Carries(n, i)
        /\ lr' # "send" /\ n.hdr.ua = <<>> => m.hdr.ua = <<>> \/ <<i, "DELETE">> \in ran'
    <2>1. CASE n = Direct(m)
      <3>3. /\ n \in Requests /\ n.body = m.body /\ n.id = m.id
            /\ Get(n.hdr.ua) = Get(m.hdr.ua) /\ n.hdr.ua # <<>>
        BY <1>4, <2>1, UserAgentRequest
      <3>. QED
        BY <1>4, <3>3, CarriesOn
    <2>2. CASE n # Direct(m)
      <3>1. PICK l, rule : /\ l \in Listed(cfg.header) /\ rule = cfg.header[l] /\ n = Execute(rule, m)
                           /\ lr' = "send" \/ ran' = ran \cup {<<i, rule.action>>}
        <4>1. CASE j = 0
          <5>1. ix \in Listed(cfg.header)
            BY <1>3, <1>5, <2>2, <4>1 DEF LRHeader, MInv, Carried
          <5>. QED
            BY <1>3, <2>2, <4>1, <5>1 DEF LRHeader
        <4>2. CASE j # 0
          BY <1>3, <1>4, <1>6, <2>2, <4>2 DEF LRHeader, Ran
        <4>. QED
          BY <4>1, <4>2
      <3>2. rule.val \in Texts /\ rule.val \in Values /\ rule.hdr \in {"ua", "x"}
        BY <3>1, RuleSays DEF RInv, Typed
      <3>3. /\ n \in Requests /\ n.body = m.body /\ n.id = m.id
            /\ Get(n.hdr.ua) \in {Get(m.hdr.ua), "", rule.val}
            /\ n.hdr.ua = <<>> => m.hdr.ua = <<>> \/ rule.action = "DELETE"
        BY <1>4, <3>1, <3>2, ExecuteRequest
      <3>4. Get(n.hdr.ua) = Get(m.hdr.ua) \/ Get(n.hdr.ua) = "" \/ Get(n.hdr.ua) \in Values
        BY <3>2, <3>3
      <3>5. Carries(n, i)
        BY <1>4, <3>3, <3>4, CarriesOn
      <3>6. rule.action = "DELETE" /\ lr' # "send" => <<i, "DELETE">> \in ran'
        BY <3>1
      <3>. QED
        BY <3>3, <3>5, <3>6
    <2>. QED
      BY <2>1, <2>2
  <1>9. Carries(n, i)'
    BY <1>1, <1>4, <1>8, RequestStays
  <1>10. Carries(q, got)'
    BY <1>3, <1>5, <1>9 DEF Carries
  <1>11. m.hdr.ua = <<>> => <<i, "DELETE">> \in ran'
    BY <1>1, <1>3, <1>5 DEF MInv, Carried, Deleted, Steady
  <1>12. Deleted'
    BY <1>3, <1>5, <1>8, <1>11 DEF Deleted
  <1>. QED
    BY <1>2, <1>5, <1>7, <1>10, <1>12 DEF MInv, Carried

(* The URL rules change the path, take the body away when it is sent to another
   host, and send the request there with the agent the header rules have left. *)
LEMMA UrlKeepsMInv == RInv /\ MInv /\ LRUrl => MInv'
  <1>. SUFFICES ASSUME RInv, MInv, LRUrl PROVE MInv'
    OBVIOUS
  <1>. USE DEF LRUrl, LRUrlNone, LRUrlDirect, LRUrlPasses, LRRedirect302, LRRedirectHeader,
               LRSendRequest
  <1>1. /\ UNCHANGED <<cfg, sent, got, up>> /\ ran \subseteq ran'
        /\ lr = "url" /\ lr' \in {"url", "send"}
    BY DEF OnUrlRule, Ran, GoOn, Stop, LRKeeps, client
  <1>2. elsewhere' = elsewhere \/ elsewhere' = Append(elsewhere, q)
    BY DEF GoOn
  <1>3. Steady
    BY <1>1, <1>2 DEF Steady
  <1>4. PICK m, i, n, j, rule : m = q /\ i = got /\ n = q' /\ j = Next1(cfg.url) /\ rule = cfg.url[j]
    OBVIOUS
  <1>5. i \in 1..Len(sent) /\ Carries(m, i) /\ m \in Requests /\ m.id = i
    BY <1>1, <1>4, OfTheMoment DEF Sending
  <1>6. m.hdr.ua = <<>> => <<i, "DELETE">> \in ran
    BY <1>1, <1>4 DEF MInv, Carried, Deleted
  <1>7. AwayOK(m)
    BY <1>5, <1>6 DEF AwayOK, SentAgent, Carries
  <1>8. UpOK' /\ ElseOK'
    BY <1>1, <1>2, <1>3, <1>4, <1>5, <1>7, SendingKeeps
  <1>9. \/ n \in {m, Direct(m)}
        \/ n = [m EXCEPT !.path = rule.to[2]] /\ j # 0 /\ rule.action = "REDIRECT-HEADER"
        \/ n = [m EXCEPT !.body.cut = TRUE] /\ elsewhere' = Append(elsewhere, m)
    BY <1>4 DEF OnUrlRule, UrlRule
  <1>10. Carries(n, i)' /\ (n.hdr.ua = <<>> => m.hdr.ua = <<>>)
    <2>1. CASE n = m
      BY <1>3, <1>5, <2>1, RequestStays
    <2>2. CASE n = Direct(m)
      <3>3. /\ n \in Requests /\ n.body = m.body
            /\ Get(n.hdr.ua) = Get(m.hdr.ua) /\ n.hdr.ua # <<>>
        BY <1>5, <2>2, UserAgentRequest
      <3>4. Carries(n, i)
        BY <1>5, <3>3, CarriesOn
      <3>. QED
        BY <1>3, <1>5, <3>3, <3>4, RequestStays
    <2>3. CASE n = [m EXCEPT !.path = rule.to[2]] /\ j # 0 /\ rule.action = "REDIRECT-HEADER"
      <3>1. j \in Listed(cfg.url)
        BY <1>4, <2>3, NextRuleListed, ConfigsAssumption DEF Next1, RInv, Typed
      <3>2. rule.to \in STRING \X STRING
        BY <1>4, <2>3, <3>1, ConfigsAssumption DEF RInv, Typed, Listed
      <3>3. n \in Requests /\ n.body = m.body /\ n.hdr = m.hdr
        BY <1>5, <2>3, <3>2 DEF Requests
      <3>4. Carries(n, i)
        BY <1>5, <3>3 DEF Carries
      <3>. QED
        BY <1>3, <1>5, <3>3, <3>4, RequestStays
    <2>4. CASE n = [m EXCEPT !.body.cut = TRUE] /\ elsewhere' = Append(elsewhere, m)
      <3>1. n \in Requests /\ n.hdr = m.hdr
        BY <1>5, <2>4 DEF Requests, Bodies
      <3>2. Went(i)'
        <4>1. Len(elsewhere) + 1 \in DOMAIN Append(elsewhere, m)
          BY AppendIsSeq DEF RInv, Typed
        <4>2. Append(elsewhere, m)[Len(elsewhere) + 1] = m
          BY AppendIsSeq DEF RInv, Typed
        <4>. QED
          BY <1>5, <2>4, <4>1, <4>2 DEF Went
      <3>3. Get(n.hdr.ua) \in AgentsOf(i)'
        BY <1>3, <1>5, <3>1, RequestStays DEF Carries
      <3>. QED
        BY <3>1, <3>2, <3>3 DEF Carries
    <2>. QED
      BY <1>9, <2>1, <2>2, <2>3, <2>4
  <1>11. Carries(q, got)'
    BY <1>1, <1>4, <1>10 DEF Carries
  <1>12. Deleted'
    BY <1>1, <1>4, <1>6, <1>10 DEF Deleted
  <1>. QED
    BY <1>1, <1>8, <1>11, <1>12 DEF MInv, Carried

LEMMA SwallowKeepsMInv == RInv /\ MInv /\ LRSwallow => MInv'
  <1>. SUFFICES ASSUME RInv, MInv, LRSwallow PROVE MInv'
    OBVIOUS
  <1>1. Steady
    BY DEF LRSwallow, LRKeeps, client, Steady
  <1>2. UpOK' /\ ElseOK'
    BY <1>1, SendingKeeps DEF LRSwallow
  <1>. QED
    BY <1>2 DEF MInv, Carried, Deleted, LRSwallow, LRKeeps, client, Sending

LEMMA ForwardKeepsMInv == RInv /\ MInv /\ LRForward => MInv'
  <1>. SUFFICES ASSUME RInv, MInv, LRForward PROVE MInv'
    OBVIOUS
  <1>1. Steady
    BY DEF LRForward, LRKeeps, client, Steady
  <1>2. PICK m, i, n : m = q /\ i = got /\ n = q'
    OBVIOUS
  <1>3. i \in 1..Len(sent) /\ Carries(m, i) /\ m \in Requests /\ m.id = i
    BY <1>2, OfTheMoment DEF LRForward, Sending
  <1>4. n = UserAgent(m) /\ up' = Append(up, n) /\ elsewhere' = elsewhere
    BY <1>2 DEF LRForward
  <1>5. /\ n \in Requests /\ n.body = m.body /\ n.id = m.id
        /\ Get(n.hdr.ua) = Get(m.hdr.ua) /\ n.hdr.ua # <<>>
    BY <1>3, <1>4, UserAgentRequest
  <1>6. SentOK(n)
    BY <1>3, <1>5 DEF SentOK, SentAgent, Carries, Same
  <1>7. UpOK' /\ ElseOK'
    BY <1>1, <1>3, <1>4, <1>5, <1>6, SendingKeeps
  <1>. QED
    BY <1>7 DEF MInv, Carried, Deleted, LRForward, LRKeeps, client, Sending

LEMMA RawKeepsMInv == RInv /\ MInv /\ LRRaw => MInv'
  <1>. SUFFICES ASSUME RInv, MInv, LRRaw PROVE MInv'
    OBVIOUS
  <1>1. Steady
    BY DEF LRRaw, LRKeeps, client, Steady
  <1>2. got + 1 \in 1..Len(sent) /\ got' = got + 1 /\ Len(sent) \in Nat /\ got + 1 \in Nat
    BY DEF LRRaw, RInv, Typed
  <1>3. PICK i, k, v, m : /\ i = got + 1 /\ k = sent[i] /\ v = <<Get(k.hdr.ua)>>
                          /\ m = [k EXCEPT !.id = i, !.hdr.ua = v]
    OBVIOUS
  <1>4. k \in Requests
    BY <1>2, <1>3, KindsAssumption DEF RInv, Typed
  <1>5. v # <<>> /\ Get(v) = Get(k.hdr.ua)
    BY <1>3, <1>4, GetTyped DEF Requests, Headers
  <1>6. m.body = k.body /\ m.id = i /\ m.hdr.ua = v
    BY <1>3, <1>4 DEF Requests, Headers
  <1>7. up' = Append(up, m) /\ elsewhere' = elsewhere
    BY <1>3 DEF LRRaw
  <1>8. SentOK(m)
    <2>1. \A b, r : Intact(b, b, r)
      BY DEF Intact
    <2>. QED
      BY <1>3, <1>5, <1>6, <2>1 DEF SentOK, SentAgent, AgentsOf
  <1>9. UpOK' /\ ElseOK'
    BY <1>1, <1>2, <1>3, <1>6, <1>7, <1>8, SendingKeeps
  <1>. QED
    BY <1>2, <1>9 DEF MInv, Carried, Deleted, LRRaw, LRKeeps, client, Sending

-----------------------------------------------------------------------------
(* The responses. *)

LEMMA ExecuteResponse ==
    ASSUME NEW m \in Responses, NEW rule, rule.val \in Texts, rule.hdr \in {"ua", "x"}
    PROVE  Execute(rule, m) \in Responses /\ Execute(rule, m).body = m.body
  <1>1. ASSUME NEW v \in Seq(Texts)
        PROVE  [m EXCEPT !.hdr[rule.hdr] = v] \in Responses /\ [m EXCEPT !.hdr[rule.hdr] = v].body = m.body
    BY DEF Responses, Headers
  <1>2. PICK v : v = m.hdr[rule.hdr] /\ v \in Seq(Texts)
    BY DEF Responses, Headers
  <1>3. CASE rule.action \in {"ADD", "REPLACE", "REPLACE-REGEX", "DELETE"}
    <2>1. PICK w \in {Add(rule, v), Delete(rule, v), Replace(rule, v), ReplaceRegex(rule, v)} :
              Execute(rule, m) = [m EXCEPT !.hdr[rule.hdr] = w]
      BY <1>2, <1>3 DEF Execute
    <2>2. w \in Seq(Texts)
      BY <1>2, <2>1, HeaderValues
    <2>. QED
      BY <1>1, <2>1, <2>2
  <1>4. CASE rule.action \notin {"ADD", "REPLACE", "REPLACE-REGEX", "DELETE"}
    BY <1>4 DEF Execute
  <1>. QED
    BY <1>3, <1>4

LEMMA StartAnswers == Answering /\ Start => Answering'
  BY DEF Start, client, rvars, Answering

LEMMA OthersAnswer ==
    ASSUME Answering, cfg' = cfg, UNCHANGED <<replies, rvars>>
    PROVE  Answering'
  <1>1. BodyRules("RESPONSE")' = BodyRules("RESPONSE") /\ Values' = Values
    BY DEF BodyRules, Values
  <1>2. \A o, s, r : Same(o, s, r)' <=> Same(o, s, r)
    BY <1>1 DEF Same, Intact
  <1>3. ASSUME rl \in {"body", "header", "decided", "copy"}
        PROVE  Same(replies[rep].body, p.body, BodyRules("RESPONSE"))'
    <2>1. Same(replies[rep].body, p.body, BodyRules("RESPONSE"))
      BY <1>3 DEF Answering
    <2>. QED
      BY <1>1, <2>1 DEF rvars, Same, Intact
  <1>. QED
    BY <1>3 DEF Answering, rvars, Listed

LEMMA ServerAnswers ==
    ASSUME RInv, Answering, ServerReply
    PROVE  Answering'
  <1>1. UNCHANGED <<cfg, rvars>>
    BY DEF ServerReply, client
  <1>2. PICK r, k : /\ r = up[Len(replies) + 1] /\ k \in Replies
                    /\ replies' = Append(replies,
                           [k EXCEPT !.id = r.id, !.announced = (r.method = "HEAD" /\ ~NoBody(k.body)),
                                     !.unread = (r.method # "HEAD" /\ ~NoBody(k.body)),
                                     !.body = IF r.method = "HEAD" THEN Empty(@) ELSE @])
    BY DEF ServerReply
  <1>3. PICK a, u, b : /\ a = (r.method = "HEAD" /\ ~NoBody(k.body))
                       /\ u = (r.method # "HEAD" /\ ~NoBody(k.body))
                       /\ b = IF r.method = "HEAD" THEN Empty(k.body) ELSE k.body
    OBVIOUS
  <1>4. PICK n : n = [k EXCEPT !.id = r.id, !.announced = a, !.unread = u, !.body = b]
    OBVIOUS
  <1>5. replies' = Append(replies, n)
    BY <1>2, <1>3, <1>4
  <1>6. r.id \in Nat
    <2>1. IsSeq(up) /\ Len(replies) \in Nat /\ Len(replies) < Len(up)
      BY DEF RInv, Typed, Answering, ServerReply
    <2>2. Len(replies) + 1 \in DOMAIN up
      BY <2>1, AppendIsSeq
    <2>3. r.id \in Forwarded
      BY <1>2, <2>2 DEF Forwarded
    <2>. QED
      BY <2>3 DEF RInv, Before, Reached, Typed
  <1>7. a \in BOOLEAN /\ u \in BOOLEAN
    BY <1>3, Zenon
  <1>8. k \in Responses
    BY <1>2, RepliesAssumption
  <1>9. b \in Bodies
    <2>1. k.body \in Bodies
      BY <1>8 DEF Responses
    <2>2. Empty(k.body) \in Bodies
      BY <2>1, TextsAssumption DEF Empty, Bodies
    <2>. QED
      BY <1>3, <2>1, <2>2
  <1>10. n \in Responses
    BY <1>4, <1>6, <1>7, <1>8, <1>9 DEF Responses
  <1>11. /\ replies' \in Seq(Responses) /\ Len(replies') = Len(replies) + 1
         /\ \A j \in 1..Len(replies) : replies'[j] = replies[j]
    BY <1>5, <1>10 DEF Answering
  <1>12. ASSUME rl \in {"body", "header", "decided", "copy"}
         PROVE  Same(replies[rep].body, p.body, BodyRules("RESPONSE"))'
    <2>1. Same(replies[rep].body, p.body, BodyRules("RESPONSE")) /\ rep \in 1..Len(replies)
      BY <1>12 DEF Answering
    <2>2. replies'[rep'] = replies[rep] /\ p' = p
      BY <1>1, <1>11, <2>1 DEF rvars
    <2>3. BodyRules("RESPONSE")' = BodyRules("RESPONSE") /\ Values' = Values
      BY <1>1 DEF BodyRules, Values
    <2>. QED
      BY <2>1, <2>2, <2>3 DEF Same, Intact
  <1>. QED
    BY <1>1, <1>11, <1>12 DEF Answering, rvars, Listed

LEMMA ReadAnswers ==
    ASSUME Answering, RLRead
    PROVE  Answering'
  <1>1. rep + 1 \in 1..Len(replies) /\ rep' = rep + 1 /\ replies' = replies /\ cfg' = cfg
    BY DEF RLRead, RLKeeps, client, Answering
  <1>2. p' = replies'[rep'] /\ p' \in Responses
    BY <1>1 DEF RLRead, Answering
  <1>3. \A b, r : Same(b, b, r)'
    BY DEF Same, Intact
  <1>4. Same(replies[rep].body, p.body, BodyRules("RESPONSE"))'
    BY <1>2, <1>3 DEF Same, Intact
  <1>. QED
    BY <1>1, <1>2, <1>4 DEF Answering, RLRead

LEMMA BodyAnswers ==
    ASSUME RInv, Answering, RLBody
    PROVE  Answering'
  <1>1. UNCHANGED <<cfg, replies, rep>> /\ rl = "body"
    BY DEF RLBody, RLKeeps, client
  <1>2. PICK j, rule, n : j = Rule2(cfg.body) /\ rule = cfg.body[j] /\ n = p'
    OBVIOUS
  <1>3. BodyRules("RESPONSE")' = BodyRules("RESPONSE") /\ Values' = Values
    BY <1>1 DEF BodyRules, Values
  <1>4. PICK m, o : m = p /\ o = replies[rep].body
    OBVIOUS
  <1>5. m \in Responses /\ Same(o, m.body, BodyRules("RESPONSE")) /\ o \in Bodies /\ m.body \in Bodies
    <2>1. m \in Responses /\ rep \in 1..Len(replies)
      BY <1>1, <1>4 DEF Answering
    <2>2. replies[rep] \in Responses
      BY <2>1 DEF Answering
    <2>3. Same(o, m.body, BodyRules("RESPONSE"))
      BY <1>1, <1>4 DEF Answering
    <2>. QED
      BY <1>4, <2>1, <2>2, <2>3 DEF Responses
  <1>6. n \in Responses /\ Same(o, n.body, BodyRules("RESPONSE"))
    <2>1. CASE n = m
      BY <1>5, <2>1
    <2>2. CASE n # m
      <3>1. /\ j # 0 /\ rule.action = "REPLACE-REGEX"
            /\ n = [m EXCEPT !.body = RewriteResponseBody(rule, m.body), !.unread = FALSE]
        BY <1>2, <1>4, <2>2 DEF RLBody, RLRefuse
      <3>2. j \in Listed(cfg.body) /\ j \in Hits(cfg.body, "RESPONSE", q, cfg.conn, loaded)
        BY <1>2, <3>1, NextRuleListed, ConfigsAssumption DEF Rule2, RInv, Typed
      <3>3. rule.val \in Texts /\ rule.val \in Values
        BY <1>2, <3>2, RuleSays DEF RInv, Typed
      <3>4. BodyRules("RESPONSE")
        BY <1>2, <3>1, <3>2 DEF BodyRules, RulesOf, Hits
      <3>5. PICK b, c : b = m.body /\ c = RewriteResponseBody(rule, b)
        OBVIOUS
      <3>6. /\ c \in Bodies
            /\ Same(o, b, TRUE) => Same(o, c, TRUE)
        BY <1>5, <3>3, <3>5, RewriteBody
      <3>7. n \in Responses /\ n.body = c
        BY <1>5, <3>1, <3>5, <3>6 DEF Responses
      <3>8. Same(o, b, TRUE)
        BY <1>5, <3>5 DEF Same, Intact
      <3>9. Same(o, c, BodyRules("RESPONSE"))
        BY <3>4, <3>6, <3>8 DEF Same, Intact
      <3>. QED
        BY <3>7, <3>9
    <2>. QED
      BY <2>1, <2>2
  <1>7. Same(replies[rep].body, p.body, BodyRules("RESPONSE"))'
    BY <1>1, <1>2, <1>3, <1>4, <1>6 DEF Same, Intact
  <1>8. rl' = "header" => rix' = 0
    BY DEF RLBody, RLRefuse
  <1>. QED
    BY <1>1, <1>2, <1>6, <1>7, <1>8 DEF Answering

LEMMA HeaderAnswers ==
    ASSUME RInv, Answering, RLHeader
    PROVE  Answering'
  <1>1. UNCHANGED <<cfg, replies, rep>> /\ rl = "header" /\ rl' \in {"header", "decided", "ended"}
    BY DEF RLHeader, RLRefuse, RLKeeps, client
  <1>2. PICK j, m, n : j = Rule2(cfg.header) /\ m = p /\ n = p'
    OBVIOUS
  <1>3. j # 0 => j \in Listed(cfg.header)
    BY <1>2, NextRuleListed, ConfigsAssumption DEF Rule2, RInv, Typed
  <1>4. m \in Responses
    BY <1>1, <1>2 DEF Answering
  <1>5. n \in Responses /\ n.body = m.body
    <2>1. CASE n = m
      BY <1>4, <2>1
    <2>2. CASE n # m
      <3>1. PICK l \in Listed(cfg.header) : n = Execute(cfg.header[l], m)
        <4>1. rix # 0 => rix \in Listed(cfg.header)
          BY <1>1 DEF Answering
        <4>. QED
          BY <1>2, <1>3, <2>2, <4>1 DEF RLHeader, RLRefuse
      <3>2. PICK rule : rule = cfg.header[l]
        OBVIOUS
      <3>3. rule.val \in Texts /\ rule.hdr \in {"ua", "x"}
        BY <3>2, RuleSays DEF RInv, Typed
      <3>. QED
        BY <1>4, <3>1, <3>2, <3>3, ExecuteResponse
    <2>. QED
      BY <2>1, <2>2
  <1>6. rl' = "header" /\ rix' # 0 => rix' \in Listed(cfg.header)
    BY <1>1, <1>2, <1>3 DEF RLHeader, RLRefuse
  <1>7. BodyRules("RESPONSE")' = BodyRules("RESPONSE") /\ Values' = Values
    BY <1>1 DEF BodyRules, Values
  <1>8. Same(replies[rep].body, p.body, BodyRules("RESPONSE"))'
    <2>1. Same(replies[rep].body, p.body, BodyRules("RESPONSE"))
      BY <1>1 DEF Answering
    <2>. QED
      BY <1>1, <1>2, <1>5, <1>7, <2>1 DEF Same, Intact
  <1>. QED
    BY <1>1, <1>2, <1>5, <1>6, <1>8 DEF Answering, Listed

(* The other steps of ProcessRL keep the response, or give it up. *)
LEMMA WritingAnswers ==
    ASSUME Answering, RLDrop \/ RLHead \/ RLTail \/ RLEat \/ RLRaw \/ RLRawTail
    PROVE  Answering'
  <1>. USE DEF RLDrop, RLHead, RLTail, RLEat, RLRaw, RLRawTail
  <1>1. UNCHANGED <<cfg, replies>>
    BY DEF RLKeeps, client
  <1>2. \/ rl = "decided" /\ rl' = "copy" /\ UNCHANGED <<rep, p>>
        \/ rl' \in {"read", "raw", "rawcopy", "ended"}
    BY DEF Piece
  <1>3. rep' \in 0..Len(replies)
    BY DEF Answering
  <1>4. CASE rl = "decided" /\ rl' = "copy" /\ UNCHANGED <<rep, p>>
    <2>1. BodyRules("RESPONSE")' = BodyRules("RESPONSE") /\ Values' = Values
      BY <1>1 DEF BodyRules, Values
    <2>2. Same(replies[rep].body, p.body, BodyRules("RESPONSE"))
      BY <1>4 DEF Answering
    <2>3. Same(replies[rep].body, p.body, BodyRules("RESPONSE"))'
      BY <1>1, <1>4, <2>1, <2>2 DEF Same, Intact
    <2>. QED
      BY <1>1, <1>4, <2>3 DEF Answering
  <1>5. CASE rl' \in {"read", "raw", "rawcopy", "ended"}
    BY <1>1, <1>3, <1>5 DEF Answering
  <1>. QED
    BY <1>2, <1>4, <1>5

-----------------------------------------------------------------------------
XInv == RInv /\ MInv /\ Answering

LEMMA InitXInv == Init => XInv
  <1>. SUFFICES ASSUME Init PROVE XInv
    OBVIOUS
  <1>1. RInv
    BY InitRInv
  <1>2. MInv
    BY DEF Init, MInv, Carried, Deleted, Sending, UpOK, ElseOK
  <1>3. Answering
    BY DEF Init, Answering
  <1>. QED
    BY <1>1, <1>2, <1>3 DEF XInv

LEMMA NextKeepsXInv == XInv /\ [Next]_vars => XInv'
  <1>. SUFFICES ASSUME XInv, [Next]_vars PROVE XInv'
    OBVIOUS
  <1>. USE DEF XInv
  <1>1. RInv'
    BY NextKeepsRInv
  <1>2. Len(sent) \in Nat
    BY DEF RInv, Typed
  <1>3. CASE UNCHANGED vars
    <2>1. Steady /\ UNCHANGED <<sent, lvars, cfg, replies, rvars>>
      BY <1>3 DEF vars, client, lvars, Steady
    <2>. QED
      BY <1>1, <1>2, <2>1, OthersKeepMInv, OthersAnswer
  <1>4. CASE Next
    <2>. USE <1>4 DEF Next
    <2>1. CASE Start
      BY <1>1, <2>1, StartKeepsMInv, StartAnswers
    <2>2. CASE LoadDomainSet
      <3>1. Steady /\ UNCHANGED <<sent, lvars, cfg, replies, rvars>>
        BY <2>2 DEF LoadDomainSet, client, lvars, Steady
      <3>. QED
        BY <1>1, <1>2, <3>1, OthersKeepMInv, OthersAnswer
    <2>3. CASE LR
      <3>1. MInv'
        BY <2>3, ReadKeepsMInv, GlobalKeepsMInv, BodyKeepsMInv, HeaderKeepsMInv, UrlKeepsMInv,
           SwallowKeepsMInv, ForwardKeepsMInv, RawKeepsMInv DEF LR
      <3>2. UNCHANGED <<cfg, replies, rvars>>
        BY <2>3 DEF LR, LRRead, LRGlobal, LRBody, LRHeader, LRUrl, LRUrlNone, LRUrlDirect, LRUrlPasses,
             LRRedirect302, LRRedirectHeader, LRSendRequest, OnUrlRule, LRSwallow, LRForward, LRRaw,
             LRKeeps, client
      <3>. QED
        BY <1>1, <3>1, <3>2, OthersAnswer
    <2>4. CASE RL
      <3>1. Steady /\ UNCHANGED <<sent, lvars>>
        BY <2>4 DEF RL, RLRead, RLBody, RLHeader, RLDrop, RLHead, RLTail, RLEat, RLRaw, RLRawTail,
             RLKeeps, client, lvars, Steady
      <3>2. Answering'
        BY <2>4, ReadAnswers, BodyAnswers, HeaderAnswers, WritingAnswers DEF RL
      <3>. QED
        BY <1>1, <1>2, <3>1, <3>2, OthersKeepMInv
    <2>5. CASE ClientSend
      <3>1. PICK k \in Kinds : sent' = Append(sent, k)
        BY <2>5 DEF ClientSend
      <3>2. /\ Len(sent') = Len(sent) + 1
            /\ \A i \in 1..Len(sent) : sent'[i] = sent[i]
        BY <3>1 DEF RInv, Typed
      <3>3. Steady /\ UNCHANGED <<lvars, cfg, replies, rvars>>
        BY <2>5, <3>2 DEF ClientSend, lvars, Steady
      <3>. QED
        BY <1>1, <1>2, <3>2, <3>3, OthersKeepMInv, OthersAnswer
    <2>6. CASE ServerReply
      <3>1. Steady /\ UNCHANGED <<sent, lvars>>
        BY <2>6 DEF ServerReply, client, lvars, Steady
      <3>. QED
        BY <1>1, <1>2, <2>6, <3>1, OthersKeepMInv, ServerAnswers
    <2>. QED
      BY <2>1, <2>2, <2>3, <2>4, <2>5, <2>6
  <1>. QED
    BY <1>3, <1>4

(* The strengthened invariant of what requests and responses look like. *)
THEOREM MessageInvariant == Spec => []XInv
  <1>. QED
    BY InitXInv, NextKeepsXInv, PTL DEF Spec

(* Whatever the rules, the agent a server sees is the client's, a rule's or
   none; a host REDIRECT-HEADER goes to sees another only after a DELETE.    *)
THEOREM AgentsComeFromRules == Spec => []AgentFromRules
  <1>1. XInv => AgentFromRules
    BY DEF XInv, MInv, UpOK, ElseOK, SentOK, AwayOK, AgentsOf, AgentFromRules
  <1>. QED
    BY <1>1, MessageInvariant, PTL

(* Whatever the rules, bodies reach the other side as their encoding says, cut
   short where they were, and changed by body rules alone.                   *)
THEOREM BodiesStayIntact == Spec => []BodiesIntact
  <1>1. XInv => BodiesIntact
    BY DEF XInv, MInv, UpOK, SentOK, Went, Answering, Same, BodiesIntact
  <1>. QED
    BY <1>1, MessageInvariant, PTL

-----------------------------------------------------------------------------
(* A client that waits: the exchange goes on turn by turn.  H answers are   *)
(* complete; the request of the moment, if there is one, is the next.       *)

Judged == cfg.mode = "RULE" /\ Judging
Wholes == {k \in DOMAIN down : Whole(k)}
H      == Cardinality(Wholes)

(* What the client was sent, piece by piece. *)
Pieces ==
    /\ \A k \in DOMAIN down :
          /\ down[k].seen \subseteq {down[k].of}
          /\ down[k].by = "server" /\ Judged => down[k].seen # {}
          /\ down[k].part = "head" /\ k < Len(down) =>
                 down[k + 1].part = "tail" /\ down[k + 1].of = down[k].of
          /\ Whole(k) => down[k].of = Nth(k)
          /\ down[k].of \in 1..got
    /\ {down[k].of : k \in Wholes} = 1..H

(* At most one request is not answered.  The client sends no other; ProcessLR
   has it in hand before it was forwarded, or has answered it and goes on to
   forward it, or has lost the thread with it.                              *)
Turns ==
    /\ H <= got /\ Len(sent) <= H + 1
    /\ got # 0 => q.id = got
    /\ lr \in Sending => q.method # "HEAD" /\ got \notin Forwarded
    /\ lr \in Sending /\ H = got => lr = "send" /\ got \in Answered /\ ~redirect /\ dec # "DROP"
    /\ lr = "raw" => H # got /\ \A k \in DOMAIN up : up[k].id = got => up[k].body.cut

(* ProcessRL has a response in hand, or has left the client without one. *)
InHand == {"body", "header", "decided", "copy", "rawcopy"}
Busy   == InHand \cup {"ended"} \cup IF Judged THEN {"raw"} ELSE {}
Due(k) == k > rep \/ (k = rep /\ rl \in Busy)

(* The server was sent each request once; the answers that are not complete
   are to the request of the moment.                                        *)
Once ==
    /\ \A j, k \in DOMAIN up : up[j].id = up[k].id => j = k
    /\ \A k \in DOMAIN up : up[k].method # "HEAD" /\ (Due(k) => up[k].id = H + 1)
    /\ Len(replies) <= Len(up)
    /\ \A j \in DOMAIN replies : /\ replies[j].id = up[j].id /\ ~replies[j].announced
                                /\ ~up[j].body.cut

(* The response in hand is judged by the request it answers, and only the
   writing of it leaves a head without a tail.                              *)
Judgement ==
    /\ rl # "stuck" /\ (rl \in Busy => rep # 0) /\ (Judged => rl # "rawcopy")
    /\ lr = "new" => rl = "new"
    /\ rl \in InHand => p.id = replies[rep].id /\ ~p.announced
    /\ rl \in {"read"} \cup (InHand \ {"rawcopy"}) => Judged
    /\ rl \in InHand \ {"rawcopy"} => seen \subseteq {p.id}
    /\ rl \in {"header", "decided", "copy"} => seen # {}
    /\ down # <<>> /\ down[Len(down)].part = "head" =>
          /\ rl \in {"copy", "rawcopy", "ended"}
          /\ rl # "ended" => down[Len(down)].of = p.id

OrdInv == Pieces /\ Turns /\ Once /\ Judgement
OInv   == Orderly => OrdInv /\ (~crashed \/ Broken)

LEMMA HNat ==
    ASSUME IsSeq(down)
    PROVE  /\ IsFiniteSet(Wholes) /\ H \in Nat /\ Wholes \subseteq 1..Len(down) /\ Len(down) \in Nat
           /\ DOMAIN down = 1..Len(down)
  <1>1. DOMAIN down = 1..Len(down) /\ Len(down) \in Nat
    BY AppendIsSeq
  <1>2. Wholes \in SUBSET (1..Len(down)) /\ IsFiniteSet(1..Len(down))
    BY <1>1, FS_Interval DEF Wholes
  <1>3. IsFiniteSet(Wholes)
    BY <1>2, FS_Subset
  <1>. QED
    BY <1>1, <1>2, <1>3, FS_CardinalityType DEF H

(* A piece more. *)
LEMMA PiecesGrow ==
    ASSUME IsSeq(down), Pieces, NEW d, down' = Append(down, d), cfg' = cfg, got' = got, got \in Nat,
           d.seen \subseteq {d.of}, d.by = "server" /\ Judged => d.seen # {},
           down # <<>> /\ down[Len(down)].part = "head" =>
               d.part = "tail" /\ d.of = down[Len(down)].of,
           d.part \in {"whole", "tail"} => d.of = H + 1,
           d.of \in 1..got
    PROVE  /\ Pieces' /\ H' = IF d.part \in {"whole", "tail"} THEN H + 1 ELSE H
           /\ down' # <<>> /\ down'[Len(down')] = d
  <1>. PICK last : last = Len(down) + 1
    OBVIOUS
  <1>. DEFINE whole == d.part \in {"whole", "tail"}
  <1>1. /\ DOMAIN down = 1..Len(down) /\ Len(down) \in Nat /\ DOMAIN down' = 1..last
        /\ \A k \in DOMAIN down : down'[k] = down[k]
        /\ down'[last] = d /\ IsSeq(down')
    BY AppendIsSeq
  <1>2. Len(down') = last /\ down' # <<>>
    <2>1. DOMAIN down' = 1..Len(down') /\ Len(down') \in Nat
      BY <1>1, AppendIsSeq
    <2>2. Len(down') = last
      BY <1>1, <2>1
    <2>3. 1 \in DOMAIN down'
      BY <1>1
    <2>. QED
      BY <2>2, <2>3
  <1>3. Judged' = Judged
    BY DEF Judged, Judging
  <1>4. \A k \in DOMAIN down : Whole(k)' = Whole(k)
    BY <1>1 DEF Whole
  <1>5. Whole(last)' = whole
    BY <1>1 DEF Whole
  <1>6. Wholes' = Wholes \cup (IF whole THEN {last} ELSE {})
    <2>1. ASSUME NEW k
          PROVE  k \in Wholes' <=> (k \in Wholes \/ (whole /\ k = last))
      <3>1. k \in DOMAIN down' <=> (k \in DOMAIN down \/ k = last)
        BY <1>1
      <3>2. last \notin DOMAIN down
        BY <1>1
      <3>. QED
        BY <1>4, <1>5, <3>1, <3>2 DEF Wholes
    <2>. QED
      BY <2>1
  <1>7. H' = IF whole THEN H + 1 ELSE H
    <2>1. IsFiniteSet(Wholes) /\ last \notin Wholes
      BY <1>1, HNat
    <2>2. CASE whole
      BY <1>6, <2>1, <2>2, FS_AddElement DEF H
    <2>3. CASE ~whole
      BY <1>6, <2>3 DEF H
    <2>. QED
      BY <2>2, <2>3
  <1>8. \A k \in DOMAIN down : Nth(k)' = Nth(k)
    <2>1. ASSUME NEW k \in DOMAIN down
          PROVE  {j \in 1..k : Whole(j)}' = {j \in 1..k : Whole(j)}
      <3>1. \A j \in 1..k : j \in DOMAIN down
        BY <1>1
      <3>. QED
        BY <1>4, <3>1
    <2>. QED
      BY <2>1 DEF Nth
  <1>9. whole => d.of = Nth(last)'
    <2>1. {j \in 1..last : Whole(j)}' = Wholes'
      BY <1>1 DEF Wholes
    <2>2. Nth(last)' = H'
      BY <2>1 DEF Nth, H
    <2>. QED
      BY <1>7, <2>2
  <1>10. ASSUME NEW k \in DOMAIN down'
         PROVE  /\ down'[k].seen \subseteq {down'[k].of}
                /\ down'[k].by = "server" /\ Judged => down'[k].seen # {}
                /\ down'[k].part = "head" /\ k < last =>
                       down'[k + 1].part = "tail" /\ down'[k + 1].of = down'[k].of
                /\ Whole(k)' => down'[k].of = Nth(k)'
                /\ down'[k].of \in 1..got
    <2>1. CASE k = last
      <3>1. down'[k] = d /\ ~(k < last) /\ (Whole(k)' <=> whole) /\ (whole => d.of = Nth(k)')
        <4>1. down'[k] = d /\ ~(k < last) /\ (Whole(k)' <=> whole)
          BY <1>1, <2>1 DEF Whole
        <4>2. whole => d.of = Nth(k)'
          BY <1>9, <2>1 DEF Nth
        <4>. QED
          BY <4>1, <4>2
      <3>. QED
        BY <3>1
    <2>2. CASE k # last
      <3>1. k \in DOMAIN down /\ down'[k] = down[k] /\ k \in 1..Len(down)
        BY <1>1, <2>2
      <3>2. /\ down[k].seen \subseteq {down[k].of}
            /\ down[k].by = "server" /\ Judged => down[k].seen # {}
            /\ Whole(k) => down[k].of = Nth(k)
            /\ down[k].of \in 1..got
        BY <3>1 DEF Pieces
      <3>3. ASSUME down[k].part = "head"
            PROVE  down'[k + 1].part = "tail" /\ down'[k + 1].of = down[k].of
        <4>1. CASE k = Len(down)
          <5>1. down # <<>>
            BY <3>1
          <5>. QED
            BY <1>1, <3>3, <4>1, <5>1
        <4>2. CASE k # Len(down)
          <5>1. k < Len(down) /\ k + 1 \in DOMAIN down
            BY <1>1, <3>1, <4>2
          <5>2. down[k + 1].part = "tail" /\ down[k + 1].of = down[k].of
            BY <3>1, <3>3, <5>1 DEF Pieces
          <5>. QED
            BY <1>1, <5>1, <5>2
        <4>. QED
          BY <4>1, <4>2
      <3>. QED
        BY <1>4, <1>8, <3>1, <3>2, <3>3
    <2>. QED
      BY <2>1, <2>2
  <1>11. {down[k].of : k \in Wholes}' = 1..H'
    <2>1. {down[k].of : k \in Wholes}' = {down[k].of : k \in Wholes} \cup (IF whole THEN {d.of} ELSE {})
      <3>1. Wholes \subseteq DOMAIN down
        BY DEF Wholes
      <3>. QED
        BY <1>1, <1>6, <3>1
    <2>2. {down[k].of : k \in Wholes} = 1..H /\ H \in Nat
      BY HNat DEF Pieces
    <2>3. CASE whole
      <3>1. H' = H + 1 /\ d.of = H + 1
        BY <1>7, <2>3
      <3>2. 1..(H + 1) = 1..H \cup {H + 1}
        BY <2>2
      <3>. QED
        BY <2>1, <2>2, <2>3, <3>1, <3>2
    <2>4. CASE ~whole
      BY <1>7, <2>1, <2>2, <2>4
    <2>. QED
      BY <2>3, <2>4
  <1>12. Pieces'
    BY <1>2, <1>3, <1>10, <1>11 DEF Pieces
  <1>. QED
    BY <1>1, <1>2, <1>7, <1>12

LEMMA Numbers ==
    ASSUME XInv
    PROVE  /\ H \in Nat /\ got \in Nat /\ Len(sent) \in Nat /\ got <= Len(sent) /\ IsSeq(down)
           /\ IsSeq(up) /\ DOMAIN up = 1..Len(up) /\ Len(up) \in Nat
           /\ Len(replies) \in Nat /\ DOMAIN replies = 1..Len(replies)
           /\ rep \in Nat /\ rep <= Len(replies)
           /\ Forwarded \subseteq 1..got /\ Answered \subseteq 1..got
  <1>1. IsSeq(up) /\ IsSeq(down) /\ got \in Nat /\ Len(sent) \in Nat
    BY DEF XInv, RInv, Typed
  <1>2. H \in Nat /\ DOMAIN up = 1..Len(up) /\ Len(up) \in Nat
    BY <1>1, HNat, AppendIsSeq
  <1>3. got <= Len(sent)
    BY DEF XInv, MInv, Carried
  <1>4. /\ Len(replies) \in Nat /\ DOMAIN replies = 1..Len(replies)
        /\ rep \in Nat /\ rep <= Len(replies)
    BY DEF XInv, Answering
  <1>5. Forwarded \subseteq 1..got /\ Answered \subseteq 1..got
    BY DEF XInv, RInv, Before, Reached
  <1>. QED
    BY <1>1, <1>2, <1>3, <1>4, <1>5

(* While an answer is due ProcessLR has no request in hand, and has not lost
   the one that is answered on the way.                                      *)
LEMMA OneDue ==
    ASSUME XInv, OrdInv, NEW k \in DOMAIN up, Due(k)
    PROVE  /\ up[k].id = got /\ got = H + 1 /\ got \in Forwarded
           /\ lr \notin Sending /\ (lr = "raw" => k \notin DOMAIN replies) /\ q.id = got
           /\ \A j \in DOMAIN up : Due(j) => j = k
  <1>1. up[k].id = H + 1 /\ up[k].id \in Forwarded
    BY DEF OrdInv, Once, Forwarded
  <1>2. up[k].id \in 1..got /\ got <= H + 1 /\ H \in Nat /\ got \in Nat
    BY <1>1, Numbers DEF OrdInv, Turns
  <1>3. got = H + 1 /\ got # 0
    BY <1>1, <1>2
  <1>. QED
    BY <1>1, <1>3 DEF OrdInv, Once, Turns

(* A head without its tail is of the answer due. *)
LEMMA HeadIsDue ==
    ASSUME XInv, OrdInv, down # <<>>, down[Len(down)].part = "head"
    PROVE  rep \in DOMAIN up /\ Due(rep)
  <1>1. rl \in Busy /\ rep # 0
    BY DEF OrdInv, Judgement, Busy, InHand
  <1>2. rep \in 1..Len(up)
    BY <1>1, Numbers DEF OrdInv, Once
  <1>. QED
    BY <1>1, <1>2, Numbers DEF Due

LEMMA TurnsKeep ==
    ASSUME XInv, OrdInv, UNCHANGED <<client, lvars>>, Answered \subseteq Answered',
           H' = H \/ (H' = H + 1 /\ \E k \in DOMAIN up : k \in DOMAIN replies /\ Due(k))
    PROVE  Turns'
  <1>1. Forwarded' = Forwarded /\ Sending' = Sending
    BY DEF Forwarded, lvars, Sending
  <1>2. CASE H' = H
    BY <1>1, <1>2 DEF OrdInv, Turns, client, lvars
  <1>3. CASE H' = H + 1 /\ \E k \in DOMAIN up : k \in DOMAIN replies /\ Due(k)
    <2>1. got = H + 1 /\ lr \notin Sending /\ lr # "raw"
      BY <1>3, OneDue
    <2>2. H \in Nat /\ got \in Nat /\ Len(sent) \in Nat
      BY Numbers
    <2>. QED
      BY <1>1, <1>3, <2>1, <2>2 DEF OrdInv, Turns, client, lvars
  <1>. QED
    BY <1>2, <1>3

LEMMA OnceKeeps ==
    ASSUME XInv, OrdInv, UNCHANGED <<up, replies>>,
           \/ H' = H /\ \A k \in DOMAIN up : Due(k)' => Due(k)
           \/ \A k \in DOMAIN up : ~Due(k)'
    PROVE  Once'
  <1>1. ASSUME NEW k \in DOMAIN up
        PROVE  up[k].method # "HEAD" /\ (Due(k)' => up[k].id = H' + 1)
    BY DEF OrdInv, Once
  <1>. QED
    BY <1>1 DEF OrdInv, Once

(* What both goroutines leave alone. *)
LEMMA PiecesKeep ==
    ASSUME Pieces, UNCHANGED <<cfg, down>>, got \in Nat, got' \in Nat, got <= got'
    PROVE  Pieces' /\ H' = H /\ Answered' = Answered
  <1>1. Judged' = Judged /\ Wholes' = Wholes /\ H' = H /\ Answered' = Answered
    BY DEF Judged, Judging, Wholes, Whole, H, Answered
  <1>2. \A k : Nth(k)' = Nth(k) /\ Whole(k)' = Whole(k)
    BY DEF Nth, Whole
  <1>3. 1..got \subseteq 1..got'
    OBVIOUS
  <1>4. ASSUME NEW k \in DOMAIN down PROVE down[k].of \in 1..got'
    BY <1>3 DEF Pieces
  <1>. QED
    BY <1>1, <1>2, <1>4 DEF Pieces

(* The steps of ProcessLR. *)

LEMMA DueStays ==
    ASSUME UNCHANGED <<cfg, rl, rep>>
    PROVE  Judged' = Judged /\ InHand' = InHand /\ Busy' = Busy /\ \A k : Due(k)' <=> Due(k)
  <1>1. Judged' = Judged /\ InHand' = InHand /\ Busy' = Busy
    BY DEF Judged, Judging, Busy, InHand
  <1>. QED
    BY <1>1 DEF Due

(* Nothing is sent, and the next thing is still to be done about the request. *)
LEMMA LRQuiet ==
    ASSUME XInv, OrdInv, UNCHANGED <<client, got, up, replies, rvars, down>>,
           lr \in Sending, lr' # "new", H # got, q'.id = q.id, q'.method = q.method
    PROVE  OrdInv'
  <1>1. Pieces' /\ H' = H /\ Answered' = Answered
    BY PiecesKeep, Numbers DEF OrdInv, client
  <1>2. Judged' = Judged /\ InHand' = InHand /\ Busy' = Busy /\ \A k : Due(k)' <=> Due(k)
    BY DueStays DEF client, rvars
  <1>3. Forwarded' = Forwarded
    BY DEF Forwarded
  <1>4. Turns'
    <2>1. \A k \in DOMAIN up : up[k].id # got
      BY DEF OrdInv, Turns, Forwarded
    <2>. QED
      BY <1>1, <1>3, <2>1 DEF OrdInv, Turns, client
  <1>5. Once'
    BY <1>1, <1>2, OnceKeeps
  <1>6. Judgement'
    BY <1>2 DEF OrdInv, Judgement, rvars
  <1>. QED
    BY <1>1, <1>4, <1>5, <1>6 DEF OrdInv

(* The client is answered for the server: the server was sent nothing yet. *)
LEMMA LRAnswers ==
    ASSUME XInv, OrdInv, UNCHANGED <<client, got, up, replies, rvars>>,
           lr = "url", NEW by, by # "server",
           down' = Append(down, [by |-> by, of |-> q.id, part |-> "whole", seen |-> {}]),
           lr' = "send", redirect' = FALSE, dec' # "DROP", q'.id = q.id, q'.method = q.method
    PROVE  OrdInv'
  <1>. PICK d : d = [by |-> by, of |-> q.id, part |-> "whole", seen |-> {}]
    OBVIOUS
  <1>1. lr \in Sending /\ H # got /\ got \notin Forwarded /\ q.id = got /\ got # 0
    BY DEF Sending, OrdInv, Turns, XInv, RInv, Current
  <1>2. got = H + 1
    BY <1>1, Numbers DEF OrdInv, Turns
  <1>3. \A k \in DOMAIN up : ~Due(k)
    BY <1>1, OneDue
  <1>4. ~(down # <<>> /\ down[Len(down)].part = "head")
    BY <1>3, HeadIsDue
  <1>5. /\ Pieces' /\ H' = H + 1 /\ down' # <<>> /\ down'[Len(down')] = d
    <2>1. d.by # "server" /\ d.of = H + 1 /\ d.of \in 1..got /\ d.part = "whole" /\ d.seen = {}
      BY <1>1, <1>2, Numbers
    <2>2. down' = Append(down, d) /\ cfg' = cfg /\ got' = got /\ IsSeq(down) /\ Pieces /\ got \in Nat
      BY Numbers DEF OrdInv, client
    <2>. QED
      BY <1>4, <2>1, <2>2, PiecesGrow
  <1>6. got \in Answered'
    <2>1. Answered' = Own(Append(down, d))
      BY DEF Answered, Own
    <2>. QED
      BY <1>1, <2>1, Numbers, OwnOfAppend
  <1>7. Judged' = Judged /\ InHand' = InHand /\ Busy' = Busy /\ \A k : Due(k)' <=> Due(k)
    BY DueStays DEF client, rvars
  <1>8. Forwarded' = Forwarded
    BY DEF Forwarded
  <1>9. Turns'
    <2>1. H' <= got' /\ Len(sent') <= H' + 1 /\ q'.method # "HEAD" /\ q'.id = got'
      BY <1>1, <1>2, <1>5, Numbers DEF OrdInv, Turns, client
    <2>2. got' \notin Forwarded' /\ got' \in Answered' /\ lr' = "send" /\ ~redirect' /\ dec' # "DROP"
      BY <1>1, <1>6, <1>8
    <2>. QED
      BY <2>1, <2>2 DEF Turns
  <1>10. Once'
    BY <1>3, <1>7, OnceKeeps
  <1>11. Judgement'
    BY <1>5, <1>7 DEF OrdInv, Judgement, rvars
  <1>. QED
    BY <1>5, <1>9, <1>10, <1>11 DEF OrdInv

(* What becomes of a request keeps its method. *)
LEMMA KeepsMethod ==
    ASSUME NEW m \in Requests
    PROVE  /\ UserAgent(m).method = m.method /\ Direct(m).method = m.method
           /\ UserAgent(m).id = m.id /\ Direct(m).id = m.id
           /\ \A rule : Execute(rule, m).method = m.method /\ Execute(rule, m).id = m.id
  BY DEF Requests, UserAgent, Direct, Execute

LEMMA ReadKeepsOrd == XInv /\ Orderly /\ OrdInv /\ LRRead => OrdInv'
  <1>. SUFFICES ASSUME XInv, Orderly, OrdInv, LRRead PROVE OrdInv'
    OBVIOUS
  <1>1. UNCHANGED <<client, up, replies, rvars, down>> /\ got' = got + 1 /\ got < Len(sent)
    BY DEF LRRead, LRKeeps
  <1>2. got = H /\ got' = H + 1 /\ got' \in Nat /\ Len(sent) = got' /\ got' \in DOMAIN sent
    BY <1>1, Numbers DEF OrdInv, Turns, XInv, RInv, Typed
  <1>3. Pieces' /\ H' = H /\ Answered' = Answered
    BY <1>1, <1>2, PiecesKeep, Numbers DEF OrdInv, client
  <1>4. q'.id = got' /\ q'.method # "HEAD"
    <2>1. PICK k, m : k = sent[got'] /\ m = [k EXCEPT !.id = got']
      OBVIOUS
    <2>2. k \in Requests /\ k.method # "HEAD"
      BY <1>2, <2>1, KindsAssumption DEF Orderly, XInv, RInv, Typed
    <2>3. m \in Requests /\ m.id = got' /\ m.method = k.method
      BY <1>2, <2>1, <2>2 DEF Requests
    <2>4. q' = UserAgent(m)
      BY <1>1, <2>1 DEF LRRead
    <2>. QED
      BY <2>2, <2>3, <2>4, KeepsMethod
  <1>5. Forwarded' = Forwarded /\ got' \notin Forwarded
    BY <1>1, Numbers DEF Forwarded
  <1>6. Turns'
    BY <1>1, <1>2, <1>3, <1>4, <1>5, Numbers DEF Turns, LRRead, client
  <1>7. Judged' = Judged /\ InHand' = InHand /\ Busy' = Busy /\ \A k : Due(k)' <=> Due(k)
    BY <1>1, DueStays DEF client, rvars
  <1>8. Once'
    BY <1>1, <1>3, <1>7, OnceKeeps
  <1>9. Judgement'
    BY <1>1, <1>7 DEF OrdInv, Judgement, rvars, LRRead
  <1>. QED
    BY <1>3, <1>6, <1>8, <1>9 DEF OrdInv

LEMMA RulesKeepOrd == XInv /\ OrdInv /\ (LRGlobal \/ LRBody \/ LRHeader) => OrdInv'
  <1>. SUFFICES ASSUME XInv, OrdInv, LRGlobal \/ LRBody \/ LRHeader PROVE OrdInv'
    OBVIOUS
  <1>1. lr \in {"global", "body", "header"} /\ lr \in Sending
    BY DEF LRGlobal, LRBody, LRHeader, Sending
  <1>2. H # got
    BY <1>1 DEF OrdInv, Turns
  <1>3. UNCHANGED <<client, got, up, replies, rvars, down>> /\ lr' # "new"
    BY DEF LRGlobal, LRBody, LRHeader, LRKeeps, Stage, Refuse
  <1>4. PICK m : m = q
    OBVIOUS
  <1>5. m \in Requests
    BY <1>1, <1>4, OfTheMoment DEF XInv
  <1>6. q'.id = m.id /\ q'.method = m.method
    <2>1. CASE LRGlobal
      <3>1. q' = Execute(RewriteAction, m) \/ q' = Direct(m)
        BY <1>4, <2>1 DEF LRGlobal
      <3>. QED
        BY <1>5, <3>1, KeepsMethod
    <2>2. CASE LRBody
      <3>1. q' = m \/ \E b : q' = [m EXCEPT !.body = b]
        BY <1>4, <2>2 DEF LRBody
      <3>. QED
        BY <1>5, <3>1 DEF Requests
    <2>3. CASE LRHeader
      <3>1. q' = Direct(m) \/ \E rule : q' = Execute(rule, m)
        BY <1>4, <2>3 DEF LRHeader
      <3>. QED
        BY <1>5, <3>1, KeepsMethod
    <2>. QED
      BY <2>1, <2>2, <2>3
  <1>. QED
    BY <1>1, <1>2, <1>3, <1>4, <1>6, LRQuiet

LEMMA UrlKeepsOrd == XInv /\ OrdInv /\ LRUrl => OrdInv'
  <1>. SUFFICES ASSUME XInv, OrdInv, LRUrl PROVE OrdInv'
    OBVIOUS
  <1>1. /\ lr = "url" /\ lr \in Sending /\ lr' \in {"url", "send"}
        /\ UNCHANGED <<client, got, up, replies, rvars>>
    BY DEF LRUrl, LRUrlNone, LRUrlDirect, LRUrlPasses, LRRedirect302, LRRedirectHeader, LRSendRequest,
           OnUrlRule, LRKeeps, GoOn, Stop, Sending
  <1>2. H # got
    BY <1>1 DEF OrdInv, Turns
  <1>3. PICK m : m = q
    OBVIOUS
  <1>4. m \in Requests
    BY <1>1, <1>3, OfTheMoment DEF XInv
  <1>5. q'.id = m.id /\ q'.method = m.method
    <2>1. \/ q' = m \/ q' = Direct(m) \/ \E s : q' = [m EXCEPT !.path = s]
          \/ q' = [m EXCEPT !.body.cut = TRUE]
      BY <1>3 DEF LRUrl, LRUrlNone, LRUrlDirect, LRUrlPasses, LRRedirect302, LRRedirectHeader, LRSendRequest
    <2>. QED
      BY <1>4, <2>1, KeepsMethod DEF Requests
  <1>6. CASE down' = down
    BY <1>1, <1>2, <1>3, <1>5, <1>6, LRQuiet
  <1>7. CASE down' # down
    <2>1. PICK by \in {"ua3f", "elsewhere"} :
              /\ down' = Append(down, [by |-> by, of |-> q.id, part |-> "whole", seen |-> {}])
              /\ lr' = "send" /\ redirect' = FALSE /\ dec' # "DROP"
      BY <1>7 DEF LRUrl, LRUrlNone, LRUrlDirect, LRUrlPasses, LRRedirect302, LRRedirectHeader, LRSendRequest,
             OnUrlRule, LRKeeps, GoOn, Stop, Answer
    <2>. QED
      BY <1>1, <1>3, <1>5, <2>1, LRAnswers
  <1>. QED
    BY <1>6, <1>7

LEMMA SwallowKeepsOrd == XInv /\ OrdInv /\ LRSwallow => OrdInv'
  <1>. SUFFICES ASSUME XInv, OrdInv, LRSwallow PROVE OrdInv'
    OBVIOUS
  <1>1. lr \in Sending /\ H # got
    BY DEF LRSwallow, Sending, OrdInv, Turns
  <1>2. UNCHANGED <<client, got, up, replies, rvars, down, q>> /\ lr' # "new"
    BY DEF LRSwallow, LRKeeps
  <1>. QED
    BY <1>1, <1>2, LRQuiet

(* A request that was answered is not forwarded too: that would be no orderly
   exchange any more.                                                         *)
LEMMA ForwardKeepsOrd == XInv /\ OrdInv /\ Orderly' /\ LRForward => OrdInv'
  <1>. SUFFICES ASSUME XInv, OrdInv, Orderly', LRForward PROVE OrdInv'
    OBVIOUS
  <1>. PICK m, n : m = q /\ n = q'
    OBVIOUS
  <1>1. /\ UNCHANGED <<client, got, replies, rvars, down>> /\ lr' \in {"read", "ended", "raw"}
        /\ (lr' = "raw" => m.body.cut) /\ up' = Append(up, n) /\ lr \in Sending
    BY DEF LRForward, LRKeeps, Sending
  <1>2. m \in Requests /\ m.id = got /\ n = UserAgent(m) /\ m.method # "HEAD" /\ got \notin Forwarded
    BY <1>1, OfTheMoment DEF LRForward, XInv, OrdInv, Turns
  <1>3. n.id = got /\ n.method # "HEAD"
    BY <1>2, KeepsMethod
  <1>4. /\ DOMAIN up' = 1..Len(up) + 1 /\ up'[Len(up) + 1] = n /\ IsSeq(up')
        /\ \A k \in DOMAIN up : up'[k] = up[k]
    BY <1>1, Numbers, AppendIsSeq
  <1>5. Pieces' /\ H' = H /\ Answered' = Answered
    BY <1>1, PiecesKeep, Numbers DEF OrdInv, client
  <1>6. H # got
    <2>1. got \in Forwarded'
      BY <1>3, <1>4, Numbers DEF Forwarded
    <2>2. got \notin Answered
      BY <1>5, <2>1 DEF Orderly
    <2>. QED
      BY <1>1, <2>2 DEF OrdInv, Turns
  <1>7. got = H + 1
    BY <1>6, Numbers DEF OrdInv, Turns
  <1>8. \A k \in DOMAIN up : ~Due(k) /\ up[k].id # got
    BY <1>1, <1>2, OneDue DEF Forwarded
  <1>9. Judged' = Judged /\ InHand' = InHand /\ Busy' = Busy /\ \A k : Due(k)' <=> Due(k)
    BY <1>1, DueStays DEF client, rvars
  <1>10. Turns'
    <2>1. lr' = "raw" => \A k \in DOMAIN up' : up'[k].id = got => up'[k].body.cut
      <3>1. n.body = m.body
        BY <1>2, UserAgentRequest
      <3>. QED
        BY <1>1, <1>4, <1>8, <3>1, Numbers
    <2>. QED
      BY <1>1, <1>3, <1>5, <1>6, <2>1 DEF OrdInv, Turns, client, Sending
  <1>11. Once'
    <2>1. DOMAIN up = 1..Len(up) /\ Len(up) \in Nat /\ Len(up') = Len(up) + 1
      <3>1. DOMAIN up' = 1..Len(up') /\ Len(up') \in Nat
        BY <1>4, AppendIsSeq
      <3>. QED
        BY <1>4, <3>1, Numbers
    <2>2. \A k \in DOMAIN up' : k \in DOMAIN up \/ k = Len(up) + 1
      BY <1>4, <2>1
    <2>3. \A j, k \in DOMAIN up' : up'[j].id = up'[k].id => j = k
      BY <1>3, <1>4, <1>8, <2>2 DEF OrdInv, Once
    <2>4. ASSUME NEW k \in DOMAIN up'
          PROVE  up'[k].method # "HEAD" /\ (Due(k)' => up'[k].id = H' + 1)
      <3>1. CASE k \in DOMAIN up
        BY <1>4, <1>8, <1>9, <3>1 DEF OrdInv, Once
      <3>2. CASE k = Len(up) + 1
        BY <1>3, <1>4, <1>5, <1>7, <3>2
      <3>. QED
        BY <2>2, <3>1, <3>2
    <2>5. Len(replies') <= Len(up') /\ \A j \in DOMAIN replies : j \in DOMAIN up
      BY <1>1, <2>1, Numbers DEF OrdInv, Once
    <2>6. \A j \in DOMAIN replies : up'[j] = up[j]
      BY <1>4, <2>5
    <2>. QED
      BY <1>1, <2>3, <2>4, <2>5, <2>6 DEF OrdInv, Once
  <1>12. Judgement'
    BY <1>1, <1>9 DEF OrdInv, Judgement, rvars
  <1>. QED
    BY <1>5, <1>10, <1>11, <1>12 DEF OrdInv

(* With a client that waits there is nothing for ProcessLR to copy. *)
LEMMA NoRaw == XInv /\ OrdInv => ~LRRaw
  <1>. SUFFICES ASSUME XInv, OrdInv, LRRaw PROVE FALSE
    OBVIOUS
  <1>. QED
    BY Numbers DEF LRRaw, OrdInv, Turns

-----------------------------------------------------------------------------
(* The other steps that are not ProcessRL's. *)

LEMMA StartKeepsOrd == XInv /\ OrdInv /\ Start => OrdInv'
  <1>. SUFFICES ASSUME XInv, OrdInv, Start PROVE OrdInv'
    OBVIOUS
  <1>1. /\ UNCHANGED <<client, got, up, replies, rep, p, q, seen, down>>
        /\ lr' = "read" /\ rl' = IF Judged THEN "read" ELSE "raw"
    BY DEF Start, Judged
  <1>2. Pieces' /\ H' = H /\ Answered' = Answered /\ Judged' = Judged
    BY <1>1, PiecesKeep, Numbers DEF OrdInv, client, Judged, Judging
  <1>3. Turns'
    BY <1>1, <1>2 DEF OrdInv, Turns, client, Sending
  <1>4. rl' \notin Busy' /\ rl' \notin InHand' /\ InHand' = InHand
    BY <1>1, <1>2 DEF Busy, InHand
  <1>5. \A k : Due(k)' => Due(k)
    BY <1>1, <1>4 DEF Due
  <1>6. Once'
    BY <1>1, <1>2, <1>5, OnceKeeps
  <1>7. ~(down # <<>> /\ down[Len(down)].part = "head")
    BY DEF OrdInv, Judgement, Start
  <1>8. Judgement'
    BY <1>1, <1>2, <1>4, <1>7 DEF OrdInv, Judgement, InHand
  <1>. QED
    BY <1>2, <1>3, <1>6, <1>8 DEF OrdInv

LEMMA LoadKeepsOrd == XInv /\ OrdInv /\ (LoadDomainSet \/ UNCHANGED vars) => OrdInv'
  <1>. SUFFICES ASSUME XInv, OrdInv, LoadDomainSet \/ UNCHANGED vars PROVE OrdInv'
    OBVIOUS
  <1>1. UNCHANGED <<client, lvars, replies, rvars, down>>
    BY DEF LoadDomainSet, vars
  <1>2. Pieces' /\ H' = H /\ Answered' = Answered
    BY <1>1, PiecesKeep, Numbers DEF OrdInv, client, lvars
  <1>3. Judged' = Judged /\ InHand' = InHand /\ Busy' = Busy /\ \A k : Due(k)' <=> Due(k)
    BY <1>1, DueStays DEF client, rvars
  <1>4. Turns'
    BY <1>1, <1>2, TurnsKeep
  <1>5. Once'
    BY <1>1, <1>2, <1>3, OnceKeeps DEF lvars
  <1>6. Judgement'
    BY <1>1, <1>3 DEF OrdInv, Judgement, rvars, lvars
  <1>. QED
    BY <1>2, <1>4, <1>5, <1>6 DEF OrdInv

(* A client that waits has heard every answer before it sends again. *)
LEMMA ClientKeepsOrd == XInv /\ Orderly /\ OrdInv /\ ClientSend => OrdInv'
  <1>. SUFFICES ASSUME XInv, Orderly, OrdInv, ClientSend PROVE OrdInv'
    OBVIOUS
  <1>1. UNCHANGED <<cfg, lvars, replies, rvars, down>>
    BY DEF ClientSend
  <1>2. Pieces' /\ H' = H /\ Answered' = Answered
    BY <1>1, PiecesKeep, Numbers DEF OrdInv, lvars
  <1>3. Judged' = Judged /\ InHand' = InHand /\ Busy' = Busy /\ \A k : Due(k)' <=> Due(k)
    BY <1>1, DueStays DEF rvars
  <1>4. Heard = H
    <2>1. ASSUME NEW k \in DOMAIN down
          PROVE  sent[down[k].of].method # "HEAD"
      <3>1. down[k].of \in 1..Len(sent)
        BY Numbers DEF OrdInv, Pieces
      <3>2. down[k].of \in DOMAIN sent
        BY <3>1 DEF XInv, RInv, Typed
      <3>. QED
        BY <3>2 DEF Orderly
    <2>2. {k \in DOMAIN down : \/ down[k].part \in {"whole", "tail"}
                               \/ down[k].part = "head" /\ sent[down[k].of].method = "HEAD"} = Wholes
      BY <2>1 DEF Wholes, Whole
    <2>. QED
      BY <2>2 DEF Heard, H
  <1>5. Len(sent') <= H + 1
    <2>1. PICK k \in Kinds : sent' = Append(sent, k)
      BY DEF ClientSend
    <2>2. Len(sent') = Len(sent) + 1
      BY <2>1 DEF XInv, RInv, Typed
    <2>3. Len(sent) <= H
      BY <1>4, Numbers DEF ClientSend, Orderly
    <2>. QED
      BY <2>2, <2>3, Numbers
  <1>6. Turns'
    <2>1. Forwarded' = Forwarded
      BY <1>1 DEF lvars, Forwarded
    <2>. QED
      BY <1>1, <1>2, <1>5, <2>1 DEF OrdInv, Turns, lvars
  <1>7. Once'
    BY <1>1, <1>2, <1>3, OnceKeeps DEF lvars
  <1>8. Judgement'
    BY <1>1, <1>3 DEF OrdInv, Judgement, rvars, lvars
  <1>. QED
    BY <1>2, <1>6, <1>7, <1>8 DEF OrdInv

LEMMA ServerKeepsOrd == XInv /\ OrdInv /\ ServerReply => OrdInv'
  <1>. SUFFICES ASSUME XInv, OrdInv, ServerReply PROVE OrdInv'
    OBVIOUS
  <1>1. UNCHANGED <<client, lvars, rvars, down>>
    BY DEF ServerReply
  <1>2. Pieces' /\ H' = H /\ Answered' = Answered
    BY <1>1, PiecesKeep, Numbers DEF OrdInv, lvars, client
  <1>3. Judged' = Judged /\ InHand' = InHand /\ Busy' = Busy /\ \A k : Due(k)' <=> Due(k)
    BY <1>1, DueStays DEF rvars, client
  <1>4. Turns'
    BY <1>1, <1>2, TurnsKeep
  <1>5. PICK j, n : /\ j = Len(replies) + 1 /\ replies' = Append(replies, n) /\ j <= Len(up)
                    /\ n.id = up[j].id /\ ~n.announced
    <2>1. Len(replies) + 1 \in DOMAIN up /\ Len(replies) + 1 <= Len(up)
      BY Numbers DEF ServerReply
    <2>2. PICK r, k : /\ r = up[Len(replies) + 1] /\ k \in Replies
                      /\ replies' = Append(replies,
                             [k EXCEPT !.id = r.id, !.announced = (r.method = "HEAD" /\ ~NoBody(k.body)),
                                       !.unread = (r.method # "HEAD" /\ ~NoBody(k.body)),
                                       !.body = IF r.method = "HEAD" THEN Empty(@) ELSE @])
      BY DEF ServerReply
    <2>3. r.method # "HEAD"
      BY <2>1, <2>2 DEF OrdInv, Once
    <2>4. k \in Responses
      BY <2>2, RepliesAssumption
    <2>5. PICK a, u, b : /\ a = (r.method = "HEAD" /\ ~NoBody(k.body))
                         /\ u = (r.method # "HEAD" /\ ~NoBody(k.body))
                         /\ b = IF r.method = "HEAD" THEN Empty(k.body) ELSE k.body
      OBVIOUS
    <2>6. PICK n : n = [k EXCEPT !.id = r.id, !.announced = a, !.unread = u, !.body = b]
      OBVIOUS
    <2>7. replies' = Append(replies, n)
      BY <2>2, <2>5, <2>6
    <2>8. ~a
      BY <2>3, <2>5
    <2>9. n.id = r.id /\ ~n.announced
      BY <2>4, <2>6, <2>8 DEF Responses
    <2>. QED
      BY <2>1, <2>2, <2>7, <2>9
  <1>6. /\ DOMAIN replies' = 1..Len(replies) + 1 /\ Len(replies') = Len(replies) + 1
        /\ replies'[Len(replies) + 1] = n /\ \A i \in DOMAIN replies : replies'[i] = replies[i]
    <2>1. IsSeq(replies)
      BY DEF XInv, Answering, IsSeq
    <2>2. /\ DOMAIN replies' = 1..Len(replies) + 1 /\ IsSeq(replies')
          /\ replies'[Len(replies) + 1] = n /\ \A i \in DOMAIN replies : replies'[i] = replies[i]
      BY <1>5, <2>1, AppendIsSeq
    <2>3. DOMAIN replies' = 1..Len(replies') /\ Len(replies') \in Nat
      BY <2>2, AppendIsSeq
    <2>. QED
      BY <2>2, <2>3, Numbers
  <1>7. \A i \in DOMAIN replies' : i \in DOMAIN replies \/ i = Len(replies) + 1
    BY <1>6, Numbers
  <1>8. \A i \in DOMAIN replies' : /\ replies'[i].id = up[i].id /\ ~replies'[i].announced
                                  /\ ~up[i].body.cut
    BY <1>5, <1>6, <1>7 DEF OrdInv, Once, ServerReply
  <1>9. Once'
    BY <1>1, <1>2, <1>3, <1>5, <1>6, <1>8 DEF OrdInv, Once, lvars
  <1>10. rl \in InHand => replies'[rep] = replies[rep]
    <2>1. rl \in InHand => rep # 0
      BY DEF OrdInv, Judgement, Busy
    <2>2. rl \in InHand => rep \in DOMAIN replies
      BY <2>1, Numbers
    <2>. QED
      BY <1>6, <2>2
  <1>11. Judgement'
    BY <1>1, <1>3, <1>10 DEF OrdInv, Judgement, rvars, lvars
  <1>. QED
    BY <1>2, <1>4, <1>9, <1>11 DEF OrdInv

-----------------------------------------------------------------------------
(* The steps of ProcessRL. *)

(* A piece of the answer due; what ends it makes it the last one due. *)
LEMMA Written ==
    ASSUME XInv, OrdInv, UNCHANGED <<client, lvars>>, NEW k \in DOMAIN up, Due(k), k \in DOMAIN replies,
           NEW part, NEW by,
           down' = Append(down, [by |-> "server", of |-> up[k].id, part |-> part, seen |-> by]),
           by \subseteq {up[k].id}, Judged => by # {},
           down # <<>> /\ down[Len(down)].part = "head" => part = "tail" /\ down[Len(down)].of = up[k].id
    PROVE  /\ Pieces' /\ Turns' /\ H' = IF part \in {"whole", "tail"} THEN H + 1 ELSE H
           /\ down'[Len(down')].part = part /\ down'[Len(down')].of = up[k].id
  <1>. PICK d : d = [by |-> "server", of |-> up[k].id, part |-> part, seen |-> by]
    OBVIOUS
  <1>1. d.by = "server" /\ d.of = up[k].id /\ d.part = part /\ d.seen = by
    OBVIOUS
  <1>2. up[k].id = H + 1 /\ up[k].id \in 1..got
    BY OneDue, Numbers
  <1>3. /\ Pieces' /\ H' = IF part \in {"whole", "tail"} THEN H + 1 ELSE H
        /\ down'[Len(down')] = d
    <2>1. IsSeq(down) /\ Pieces /\ down' = Append(down, d) /\ cfg' = cfg /\ got' = got /\ got \in Nat
      BY Numbers DEF OrdInv, client, lvars
    <2>. QED
      BY <1>1, <1>2, <2>1, PiecesGrow
  <1>4. Answered \subseteq Answered'
    <2>1. Answered' = Own(Append(down, d)) /\ Answered = Own(down)
      BY DEF Answered, Own
    <2>. QED
      BY <2>1, Numbers, OwnOfAppend
  <1>5. Turns'
    BY <1>3, <1>4, TurnsKeep
  <1>. QED
    BY <1>1, <1>3, <1>5

LEMMA HandIsDue ==
    ASSUME XInv, OrdInv, rl \in InHand
    PROVE  /\ rep \in DOMAIN up /\ rep \in DOMAIN replies /\ Due(rep) /\ p.id = up[rep].id /\ ~p.announced
           /\ rl \in Busy /\ lr \notin Sending /\ q.id = p.id
  <1>1. rl \in Busy /\ rep # 0
    BY DEF OrdInv, Judgement, Busy
  <1>2. rep \in DOMAIN up /\ rep \in DOMAIN replies
    BY <1>1, Numbers DEF OrdInv, Once
  <1>3. Due(rep)
    BY <1>1 DEF Due
  <1>4. p.id = up[rep].id /\ ~p.announced
    BY <1>2 DEF OrdInv, Once, Judgement
  <1>. QED
    BY <1>1, <1>2, <1>3, <1>4, OneDue

LEMMA RLReadKeepsOrd == XInv /\ OrdInv /\ RLRead => OrdInv'
  <1>. SUFFICES ASSUME XInv, OrdInv, RLRead PROVE OrdInv'
    OBVIOUS
  <1>1. /\ UNCHANGED <<client, lvars, replies, down>> /\ rl = "read" /\ rl' = "body"
        /\ rep' = rep + 1 /\ rep < Len(replies) /\ p' = replies[rep + 1] /\ seen' = {}
    BY DEF RLRead, RLKeeps
  <1>2. Pieces' /\ H' = H /\ Answered' = Answered
    BY <1>1, PiecesKeep, Numbers DEF OrdInv, client, lvars
  <1>3. Turns'
    BY <1>1, <1>2, TurnsKeep
  <1>4. Judged' = Judged
    BY <1>1 DEF Judged, Judging, client
  <1>5. \A k \in DOMAIN up : Due(k)' => Due(k)
    BY <1>1, Numbers DEF Due
  <1>6. Once'
    BY <1>1, <1>2, <1>5, OnceKeeps DEF lvars
  <1>7. rep + 1 \in DOMAIN replies /\ rep + 1 # 0
    BY <1>1, Numbers
  <1>8. p'.id = replies'[rep'].id /\ ~p'.announced
    BY <1>1, <1>7 DEF OrdInv, Once
  <1>9. Judgement'
    BY <1>1, <1>4, <1>7, <1>8 DEF OrdInv, Judgement, InHand, lvars
  <1>. QED
    BY <1>2, <1>3, <1>6, <1>9 DEF OrdInv

(* The rules leave a response its number and its announcement. *)
LEMMA JudgedResponse ==
    ASSUME XInv, OrdInv, RLBody \/ RLHeader
    PROVE  p'.id = p.id /\ ~p'.announced /\ rl' \in {"body", "header", "decided", "ended"}
  <1>. PICK m, n : m = p /\ n = p'
    OBVIOUS
  <1>1. rl \in {"body", "header"} /\ rl \in InHand
    BY DEF RLBody, RLHeader, InHand
  <1>2. ~m.announced /\ m \in Responses
    BY <1>1, HandIsDue DEF XInv, Answering
  <1>3. n = m \/ (\E rule : n = Execute(rule, m)) \/ (\E b : n = [m EXCEPT !.body = b, !.unread = FALSE])
    BY DEF RLBody, RLHeader, RLRefuse
  <1>4. n.id = m.id /\ ~n.announced
    <2>1. \A rule : Execute(rule, m).id = m.id /\ Execute(rule, m).announced = m.announced
      BY <1>2 DEF Execute, Responses
    <2>2. \A b : LET r == [m EXCEPT !.body = b, !.unread = FALSE]
                 IN  r.id = m.id /\ r.announced = m.announced
      BY <1>2 DEF Responses
    <2>. QED
      BY <1>2, <1>3, <2>1, <2>2
  <1>5. rl' \in {"body", "header", "decided", "ended"}
    BY <1>1, <1>2 DEF RLBody, RLHeader, RLRefuse
  <1>. QED
    BY <1>4, <1>5

LEMMA RLJudgeKeepsOrd == XInv /\ OrdInv /\ (RLBody \/ RLHeader) => OrdInv'
  <1>. SUFFICES ASSUME XInv, OrdInv, RLBody \/ RLHeader PROVE OrdInv'
    OBVIOUS
  <1>1. /\ UNCHANGED <<client, lvars, replies, rep, down>> /\ rl \in {"body", "header"} /\ rl \in InHand
        /\ rl' \in {"body", "header", "decided", "ended"} /\ seen' = seen \cup {q.id}
    BY JudgedResponse DEF RLBody, RLHeader, RLKeeps, Judge, InHand
  <1>2. /\ rep \in DOMAIN up /\ Due(rep) /\ p.id = up[rep].id /\ rl \in Busy /\ q.id = p.id
    BY <1>1, HandIsDue
  <1>3. Pieces' /\ H' = H /\ Answered' = Answered
    BY <1>1, PiecesKeep, Numbers DEF OrdInv, client, lvars
  <1>4. Turns'
    BY <1>1, <1>3, TurnsKeep
  <1>5. Judged' = Judged /\ Busy' = Busy /\ InHand' = InHand
    BY <1>1 DEF Judged, Judging, Busy, InHand, client
  <1>6. \A k \in DOMAIN up : Due(k)' => Due(k)
    BY <1>1, <1>2, <1>5 DEF Due
  <1>7. Once'
    BY <1>1, <1>3, <1>6, OnceKeeps DEF lvars
  <1>8. p'.id = replies'[rep'].id /\ ~p'.announced /\ p'.id = p.id
    BY <1>1, JudgedResponse DEF OrdInv, Judgement
  <1>9. seen' \subseteq {p'.id} /\ seen' # {} /\ Judged' /\ rep' # 0
    BY <1>1, <1>2, <1>5, <1>8 DEF OrdInv, Judgement, InHand
  <1>10. ~(down # <<>> /\ down[Len(down)].part = "head")
    BY <1>1 DEF OrdInv, Judgement
  <1>11. Judgement'
    BY <1>1, <1>5, <1>8, <1>9, <1>10 DEF OrdInv, Judgement, InHand, lvars
  <1>. QED
    BY <1>3, <1>4, <1>7, <1>11 DEF OrdInv

(* Writing a response: to its end, to its head, or not at all. *)
LEMMA RLWriteKeepsOrd == XInv /\ OrdInv /\ (RLDrop \/ RLHead \/ RLTail \/ RLRawTail) => OrdInv'
  <1>. SUFFICES ASSUME XInv, OrdInv, RLDrop \/ RLHead \/ RLTail \/ RLRawTail PROVE OrdInv'
    OBVIOUS
  <1>1. /\ UNCHANGED <<client, lvars, replies, rep, p, seen>> /\ rl \in InHand
        /\ rl \in {"decided", "copy", "rawcopy"}
    BY DEF RLDrop, RLHead, RLTail, RLRawTail, RLKeeps, InHand
  <1>2. /\ rep \in DOMAIN up /\ Due(rep) /\ p.id = up[rep].id /\ rl \in Busy /\ rep # 0
        /\ rep \in DOMAIN replies
    BY <1>1, HandIsDue, Numbers DEF OrdInv, Judgement
  <1>3. Judged' = Judged /\ Busy' = Busy /\ InHand' = InHand
    BY <1>1 DEF Judged, Judging, Busy, InHand, client
  <1>4. \A k \in DOMAIN up : Due(k)' => k = rep /\ rl' \in Busy
    BY <1>1, <1>2, <1>3, OneDue, Numbers DEF Due
  <1>5. CASE UNCHANGED down
    <2>1. \/ rl = "decided" /\ rl' = "read"
          \/ rl \in {"copy", "rawcopy"} /\ rl' = "ended"
      <3>1. ASSUME NEW part, NEW m, NEW by, Piece(part, m, by)
            PROVE  FALSE
        BY <1>5, <3>1, Numbers, LengthOfAppend DEF Piece
      <3>. QED
        BY <3>1 DEF RLDrop, RLHead, RLTail, RLRawTail
    <2>2. Pieces' /\ H' = H /\ Answered' = Answered
      BY <1>1, <1>5, PiecesKeep, Numbers DEF OrdInv, client, lvars
    <2>3. Turns'
      BY <1>1, <2>2, TurnsKeep
    <2>4. Once'
      BY <1>1, <1>2, <1>4, <2>2, OnceKeeps DEF lvars
    <2>5. Judgement'
      BY <1>1, <1>2, <1>3, <1>5, <2>1 DEF OrdInv, Judgement, InHand, lvars
    <2>. QED
      BY <2>2, <2>3, <2>4, <2>5 DEF OrdInv
  <1>6. ASSUME NEW part, NEW by, Piece(part, p, by),
               \/ part = "stray" /\ rl = "decided" /\ rl' = "raw" /\ by = seen
               \/ part = "whole" /\ rl = "decided" /\ rl' = "read" /\ by = seen
               \/ part = "head" /\ rl = "decided" /\ rl' = "copy" /\ by = seen
               \/ part = "tail" /\ rl = "copy" /\ rl' = "read" /\ by = seen
               \/ part = "tail" /\ rl = "rawcopy" /\ rl' = "raw" /\ by = {}
        PROVE  OrdInv'
    <2>1. /\ rl # "rawcopy" => by \subseteq {p.id} /\ by # {} /\ Judged
          /\ rl = "rawcopy" => by = {} /\ ~Judged
      BY <1>1, <1>6 DEF OrdInv, Judgement, InHand
    <2>2. down # <<>> /\ down[Len(down)].part = "head" => part = "tail" /\ down[Len(down)].of = p.id
      BY <1>1, <1>6 DEF OrdInv, Judgement
    <2>3. /\ Pieces' /\ Turns' /\ H' = IF part \in {"whole", "tail"} THEN H + 1 ELSE H
          /\ down'[Len(down')].part = part /\ down'[Len(down')].of = p.id
      <3>1. down' = Append(down, [by |-> "server", of |-> up[rep].id, part |-> part, seen |-> by])
        BY <1>2, <1>6 DEF Piece
      <3>. QED
        BY <1>1, <1>2, <2>1, <2>2, <3>1, Written
    <2>4. Once'
      <3>1. CASE part \in {"whole", "tail"}
        <4>1. rl' \notin Busy
          BY <1>6, <2>1, <3>1 DEF Busy, InHand
        <4>. QED
          BY <1>1, <1>4, <4>1, OnceKeeps DEF lvars
      <3>2. CASE part \notin {"whole", "tail"}
        BY <1>1, <1>2, <1>4, <2>3, <3>2, OnceKeeps DEF lvars
      <3>. QED
        BY <3>1, <3>2
    <2>5. Judgement'
      BY <1>1, <1>2, <1>3, <1>6, <2>1, <2>3 DEF OrdInv, Judgement, InHand, lvars
    <2>. QED
      BY <2>3, <2>4, <2>5 DEF OrdInv
  <1>7. \/ UNCHANGED down
        \/ \E part, by : /\ Piece(part, p, by)
                         /\ \/ part = "stray" /\ rl = "decided" /\ rl' = "raw" /\ by = seen
                            \/ part = "whole" /\ rl = "decided" /\ rl' = "read" /\ by = seen
                            \/ part = "head" /\ rl = "decided" /\ rl' = "copy" /\ by = seen
                            \/ part = "tail" /\ rl = "copy" /\ rl' = "read" /\ by = seen
                            \/ part = "tail" /\ rl = "rawcopy" /\ rl' = "raw" /\ by = {}
    BY DEF RLDrop, RLHead, RLTail, RLRawTail
  <1>. QED
    BY <1>5, <1>6, <1>7

(* The copy without rules: the next response, whose number is the next due. *)
LEMMA RLRawKeepsOrd == XInv /\ OrdInv /\ RLRaw => OrdInv'
  <1>. SUFFICES ASSUME XInv, OrdInv, RLRaw PROVE OrdInv'
    OBVIOUS
  <1>. PICK k : k = rep + 1
    OBVIOUS
  <1>1. /\ UNCHANGED <<client, lvars, replies>> /\ rl = "raw" /\ rep < Len(replies)
        /\ rep' = k /\ p' = replies[k] /\ seen' = {}
        /\ \/ rl' = "raw" /\ Piece("whole", p', {})
           \/ rl' = "rawcopy" /\ Piece("head", p', {})
    BY DEF RLRaw, RLKeeps
  <1>2. k \in DOMAIN replies /\ k \in DOMAIN up /\ k > rep /\ k # 0
    BY <1>1, Numbers DEF OrdInv, Once
  <1>3. Due(k)
    BY <1>2 DEF Due
  <1>4. ~Judged
    <2>1. ASSUME Judged PROVE rep \in DOMAIN up /\ Due(rep)
      <3>1. rl \in Busy /\ rep # 0
        BY <1>1, <2>1 DEF Busy, OrdInv, Judgement
      <3>. QED
        BY <1>2, <3>1, Numbers DEF Due
    <2>. QED
      BY <1>2, <1>3, <2>1, OneDue, Numbers
  <1>5. Judged' = Judged /\ InHand' = InHand /\ Busy' = Busy /\ "raw" \notin Busy
    BY <1>1, <1>4 DEF Judged, Judging, Busy, InHand, client
  <1>6. p'.id = up[k].id /\ ~p'.announced
    BY <1>1, <1>2 DEF OrdInv, Once
  <1>7. ~(down # <<>> /\ down[Len(down)].part = "head")
    BY <1>1 DEF OrdInv, Judgement
  <1>8. ASSUME NEW part, Piece(part, p', {}),
               \/ part = "whole" /\ rl' = "raw"
               \/ part = "head" /\ rl' = "rawcopy"
        PROVE  OrdInv'
    <2>1. down' = Append(down, [by |-> "server", of |-> up[k].id, part |-> part, seen |-> {}])
      BY <1>6, <1>8 DEF Piece
    <2>2. /\ Pieces' /\ Turns' /\ H' = IF part \in {"whole", "tail"} THEN H + 1 ELSE H
          /\ down'[Len(down')].part = part /\ down'[Len(down')].of = p'.id
      BY <1>1, <1>2, <1>3, <1>4, <1>6, <1>7, <2>1, Written
    <2>3. \A j \in DOMAIN up : Due(j)' => Due(j) /\ j = k /\ rl' \in Busy
      <3>1. ASSUME NEW j \in DOMAIN up, Due(j)' PROVE Due(j)
        BY <1>1, <1>2, <3>1, Numbers DEF Due
      <3>2. ASSUME NEW j \in DOMAIN up, Due(j)' PROVE j = k
        BY <1>2, <1>3, <3>1, <3>2, OneDue
      <3>. QED
        BY <1>1, <1>5, <3>1, <3>2, Numbers DEF Due
    <2>4. Once'
      BY <1>1, <1>5, <1>8, <2>2, <2>3, OnceKeeps DEF lvars
    <2>5. Judgement'
      BY <1>1, <1>2, <1>4, <1>5, <1>6, <1>8, <2>2 DEF OrdInv, Judgement, InHand, lvars
    <2>. QED
      BY <2>2, <2>4, <2>5 DEF OrdInv
  <1>. QED
    BY <1>1, <1>8

(* No response is read for the body of another. *)
LEMMA NoEat == XInv /\ OrdInv => ~RLEat
  <1>. SUFFICES ASSUME XInv, OrdInv, RLEat PROVE FALSE
    OBVIOUS
  <1>1. rl \in InHand /\ p.announced
    BY DEF RLEat, InHand, OrdInv, Judgement
  <1>. QED
    BY <1>1, HandIsDue

-----------------------------------------------------------------------------
(* What was no orderly exchange does not become one. *)
LEMMA StaysOrderly == XInv /\ Next /\ Orderly' => Orderly
  <1>. SUFFICES ASSUME XInv, Next, Orderly' PROVE Orderly
    OBVIOUS
  <1>1. cfg' = cfg
    BY DEF Next, Start, LoadDomainSet, LR, LRRead, LRGlobal, LRBody, LRHeader, LRUrl, LRUrlNone, LRUrlDirect,
           LRUrlPasses, LRRedirect302, LRRedirectHeader, LRSendRequest, OnUrlRule, LRSwallow, LRForward,
           LRRaw, LRKeeps, RL, RLRead, RLBody, RLHeader, RLDrop, RLHead, RLTail, RLEat, RLRaw, RLRawTail,
           RLKeeps, ClientSend, ServerReply, client
  <1>2. \A i \in DOMAIN sent : i \in DOMAIN sent' /\ sent'[i] = sent[i]
    <2>1. CASE ClientSend
      <3>1. PICK k \in Kinds : sent' = Append(sent, k)
        BY <2>1 DEF ClientSend
      <3>. QED
        BY <3>1 DEF XInv, RInv, Typed
    <2>2. CASE ~ClientSend
      <3>1. sent' = sent
        BY <2>2 DEF Next, Start, LoadDomainSet, LR, LRRead, LRGlobal, LRBody, LRHeader, LRUrl, LRUrlNone,
           LRUrlDirect, LRUrlPasses, LRRedirect302, LRRedirectHeader, LRSendRequest, OnUrlRule, LRSwallow,
           LRForward, LRRaw, LRKeeps, RL, RLRead, RLBody, RLHeader, RLDrop, RLHead, RLTail, RLEat, RLRaw,
           RLRawTail, RLKeeps, ServerReply, client
      <3>. QED
        BY <3>1
    <2>. QED
      BY <2>1, <2>2
  <1>3. Forwarded \subseteq Forwarded'
    <2>1. up' = up \/ \E e : up' = Append(up, e)
      BY DEF Next, Start, LoadDomainSet, LR, LRRead, LRGlobal, LRBody, LRHeader, LRUrl, LRUrlNone,
         LRUrlDirect, LRUrlPasses, LRRedirect302, LRRedirectHeader, LRSendRequest, OnUrlRule, LRSwallow,
         LRForward, LRRaw, LRKeeps, RL, RLRead, RLBody, RLHeader, RLDrop, RLHead, RLTail, RLEat, RLRaw,
         RLRawTail, RLKeeps, ClientSend, ServerReply, lvars
    <2>. QED
      BY <2>1, Numbers, IdsOfAppend DEF Forwarded
  <1>4. Answered \subseteq Answered'
    <2>1. down' = down \/ \E e : down' = Append(down, e)
      BY DEF Next, Start, LoadDomainSet, LR, LRRead, LRGlobal, LRBody, LRHeader, LRUrl, LRUrlNone,
         LRUrlDirect, LRUrlPasses, LRRedirect302, LRRedirectHeader, LRSendRequest, OnUrlRule, LRSwallow,
         LRForward, LRRaw, LRKeeps, RL, RLRead, RLBody, RLHeader, RLDrop, RLHead, RLTail, RLEat, RLRaw,
         RLRawTail, RLKeeps, ClientSend, ServerReply, Answer, GoOn, Stop, Piece
    <2>2. Answered = Own(down) /\ Answered' = Own(down')
      BY DEF Answered, Own
    <2>. QED
      BY <2>1, <2>2, Numbers, OwnOfAppend
  <1>. QED
    BY <1>1, <1>2, <1>3, <1>4 DEF Orderly

(* Only the engine's own rules crash the process then: no response is judged
   while ProcessLR has a request in hand.                                     *)
LEMMA CrashHasCause == XInv /\ OrdInv /\ Next /\ crashed' => Broken'
  <1>. SUFFICES ASSUME XInv, OrdInv, Next, crashed' PROVE Broken'
    OBVIOUS
  <1>1. ~crashed
    BY DEF Next
  <1>2. CASE Start
    BY <1>2 DEF Start, Broken, client
  <1>3. CASE LRUrlPasses
    <2>1. lr = "url" /\ Next1(cfg.url) # 0 /\ UrlRule.action # "DIRECT" /\ ~UrlRule.regexOK /\ cfg' = cfg
      BY <1>3 DEF LRUrlPasses, OnUrlRule, client
    <2>2. Next1(cfg.url) \in Listed(cfg.url)
      BY <2>1, NextRuleListed, ConfigsAssumption DEF Next1, XInv, RInv, Typed
    <2>3. NewEngine(cfg.url, "url")
      BY <1>1, <2>1 DEF XInv, RInv, Checked
    <2>4. NewAction(UrlRule, "url") # "nil"
      BY <2>2, <2>3 DEF NewEngine, NewRule, NewIPCIDR, UrlRule
    <2>5. NewAction(UrlRule, "url") = "typed nil"
      BY <2>1, <2>4 DEF NewAction, NewURLAction
    <2>. QED
      BY <2>1, <2>2, <2>5 DEF Broken, UrlRule
  <1>4. CASE RLBody \/ RLHeader
    <2>1. lr \notin Sending
      BY <1>4, HandIsDue DEF RLBody, RLHeader, InHand
    <2>. QED
      BY <1>4, <2>1 DEF RLBody, RLHeader, Judge, Race
  <1>5. CASE ~(Start \/ LRUrlPasses \/ RLBody \/ RLHeader)
    <2>1. crashed' = crashed
      BY <1>5 DEF Next, LoadDomainSet, LR, LRRead, LRGlobal, LRBody, LRHeader, LRUrl, LRUrlNone, LRUrlDirect,
         LRRedirect302, LRRedirectHeader, LRSendRequest, LRSwallow, LRForward, LRRaw, LRKeeps, RL, RLRead,
         RLDrop, RLHead, RLTail, RLEat, RLRaw, RLRawTail, RLKeeps, ClientSend, ServerReply
    <2>. QED
      BY <1>1, <2>1
  <1>. QED
    BY <1>2, <1>3, <1>4, <1>5

LEMMA InitOInv == Init => OInv
  <1>. SUFFICES ASSUME Init PROVE OInv
    OBVIOUS
  <1>1. down = <<>> /\ up = <<>> /\ replies = <<>> /\ sent = <<>> /\ got = 0 /\ rep = 0 /\ ~crashed
        /\ lr = "new" /\ rl = "new"
    BY DEF Init
  <1>2. Wholes = {} /\ H = 0
    <2>1. Wholes = {}
      BY <1>1 DEF Wholes
    <2>. QED
      BY <2>1, FS_EmptySet DEF H
  <1>3. Pieces
    <2>1. 1..0 = {}
      OBVIOUS
    <2>. QED
      BY <1>1, <1>2, <2>1 DEF Pieces
  <1>4. Turns
    BY <1>1, <1>2 DEF Turns, Sending
  <1>5. Once
    BY <1>1, <1>2 DEF Once
  <1>6. Judgement
    BY <1>1 DEF Judgement, Busy, InHand
  <1>. QED
    BY <1>1, <1>3, <1>4, <1>5, <1>6 DEF OInv, OrdInv

LEMMA NextKeepsOInv == XInv /\ OInv /\ [Next]_vars => OInv'
  <1>. SUFFICES ASSUME XInv, OInv, [Next]_vars, Orderly' PROVE OrdInv' /\ (~crashed' \/ Broken')
    BY DEF OInv
  <1>1. CASE UNCHANGED vars
    <2>1. Orderly /\ OrdInv /\ (~crashed \/ Broken)
      BY <1>1 DEF OInv, Orderly, Forwarded, Answered, vars, client, lvars
    <2>2. OrdInv'
      BY <1>1, <2>1, LoadKeepsOrd
    <2>3. crashed' = crashed /\ Broken' = Broken
      BY <1>1 DEF vars, client, Broken
    <2>. QED
      BY <2>1, <2>2, <2>3
  <1>2. CASE Next
    <2>1. Orderly /\ OrdInv
      BY <1>2, StaysOrderly DEF OInv
    <2>2. OrdInv'
      BY <1>2, <2>1, StartKeepsOrd, LoadKeepsOrd, ClientKeepsOrd, ServerKeepsOrd, ReadKeepsOrd, RulesKeepOrd,
         UrlKeepsOrd, SwallowKeepsOrd, ForwardKeepsOrd, NoRaw, RLReadKeepsOrd, RLJudgeKeepsOrd,
         RLWriteKeepsOrd, RLRawKeepsOrd, NoEat DEF Next, LR, RL
    <2>. QED
      BY <1>2, <2>1, <2>2, CrashHasCause
  <1>. QED
    BY <1>1, <1>2

(* With a client that waits for each answer and gets it from one side, every
   response is judged, by the request it answers, arrives in one piece and in
   turn, and nothing but the rules themselves crashes the process.            *)
THEOREM ExchangeStaysOrderly == Spec => []OrderlyExchange
  <1>1. Init => OInv
    BY InitOInv
  <1>2. XInv /\ OInv /\ [Next]_vars => OInv'
    BY NextKeepsOInv
  <1>3. OInv => OrderlyExchange
    BY DEF OInv, OrdInv, Pieces, Judged, OrderlyExchange
  <1>. QED
    BY <1>1, <1>2, <1>3, MessageInvariant, PTL DEF Spec
=============================================================================
