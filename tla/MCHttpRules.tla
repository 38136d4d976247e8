------------------------------ MODULE MCHttpRules ------------------------------
(* A small instance of HttpRules for TLC: lists of rules that meet in every    *)
(* stage, requests that differ in what the rules look at, and both clients.   *)
EXTENDS HttpRules

SmallTexts == {"", "old", "new", "app", "white", "steam"}
Text(enc, zip, text) == [enc |-> enc, zip |-> zip, text |-> text, cut |-> FALSE]
Nothing == Text("", 0, "")
Ask(host, ua, body) ==
    [id |-> 0, method |-> "GET", host |-> host, path |-> "old",
     hdr |-> [ua |-> IF ua = "" THEN <<>> ELSE <<ua>>, x |-> <<>>], body |-> body]
SmallKinds == {
    Ask("a", "app", Nothing), Ask("b", "", Nothing), Ask("a", "white", Nothing),
    Ask("b", "app", Text("gzip", 1, "old")), Ask("a", "steam", [Text("", 0, "old") EXCEPT !.cut = TRUE]),
    [Ask("a", "app", Nothing) EXCEPT !.method = "HEAD"]}
Give(body) == [id |-> 0, announced |-> FALSE, unread |-> FALSE,
               hdr |-> [ua |-> <<>>, x |-> <<"old">>], body |-> body]
SmallReplies == {Give(Nothing), Give(Text("gzip", 1, "old")), Give([Text("", 0, "old") EXCEPT !.cut = TRUE])}

Any(action) == Rule("FINAL", {}, action)
On(type, on, action) == Rule(type, on, action)
Resp(rule) == [rule EXCEPT !.dir = "RESPONSE", !.hdr = "x"]
Req(rule)  == [rule EXCEPT !.dir = "REQUEST"]
Cont(rule) == [rule EXCEPT !.cont = TRUE]
Subst(rule) == [rule EXCEPT !.regex = {"old", "app"}]
To(rule, host) == [rule EXCEPT !.regex = {<<"a", "old">>}, !.to = <<host, "new">>]

Lists(mode, header, body, url) ==
    {[mode |-> mode, header |-> header, body |-> body, url |-> url, serial |-> s, agents |-> {},
      conn |-> [port |-> "80", rip |-> "r", lip |-> "l"]] : s \in BOOLEAN}
SmallConfigs ==
    Lists("GLOBAL", <<>>, <<>>, <<>>)
    \cup {[c EXCEPT !.agents = {"app"}] : c \in Lists("GLOBAL", <<>>, <<>>, <<>>)}
    \cup Lists("RULE", <<Cont(On("HEADER-KEYWORD", {"app"}, "ADD")), Req(On("DOMAIN", {"a"}, "DROP")),
                         Any("REPLACE"), Resp(Any("REPLACE"))>>, <<>>, <<>>)
    \cup Lists("RULE", <<Cont(Any("DELETE")), Resp(On("HEADER-REGEX", {"app"}, "DROP"))>>,
                       <<Req(On("DOMAIN-SET", {"a"}, "REJECT")), Cont(Subst(Any("REPLACE-REGEX")))>>, <<>>)
    \cup Lists("RULE", <<Any("DELETE")>>, <<>>,
                       <<To(On("URL-REGEX", {<<"a", "old">>}, "REDIRECT-302"), "c")>>)
    \cup Lists("RULE", <<Any("DELETE")>>, <<>>, <<To(Any("REDIRECT-HEADER"), "c")>>)
    \cup Lists("RULE", <<Any("DIRECT"), Resp(Any("DELETE"))>>,
                       <<Req(On("SRC-IP", {"l"}, "DROP"))>>,
                       <<To(Any("REDIRECT-HEADER"), "a"), To(On("DEST-PORT", {"80"}, "REDIRECT-302"), "c")>>)
    \cup Lists("RULE", <<Cont(Resp(Any("ADD"))), On("IP-CIDR", {"r"}, "DIRECT")>>, <<Any("DIRECT")>>,
                       <<Any("DIRECT")>>)
    \cup Lists("RULE", <<Req(On("HEADER-KEYWORD", {"white"}, "REJECT")), Resp(On("DOMAIN", {"a"}, "REJECT"))>>,
                       <<Resp(On("DOMAIN", {"b"}, "REJECT")), Resp(Subst(Any("REPLACE-REGEX")))>>, <<>>)
    \cup Lists("RULE", <<Any("DIRECT")>>, <<>>,
                       <<[To(Any("REDIRECT-302"), "c") EXCEPT !.regexOK = FALSE]>>)
    \cup Lists("RULE", <<Any("REJECT")>>, <<>>, <<>>)
    \cup Lists("RULE", <<[On("IP-CIDR", {}, "DIRECT") EXCEPT !.valueOK = FALSE]>>, <<>>, <<>>)
===============================================================================
