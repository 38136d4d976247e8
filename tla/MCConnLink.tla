----------------------------- MODULE MCConnLink -----------------------------
(* Small instances of ConnLink for TLC: each set names the configurations   *)
(* one question is about.                                                    *)
EXTENDS ConnLink

(* Every configuration that differs in behaviour: mitm only matters to a     *)
(* TLS client, and an HTTP tunnel is served as TPROXY without the skip.      *)
AllSetups ==
    {s \in [mode : Modes, server : {"SOCKS5", "TPROXY"}, mitm : BOOLEAN, app : Apps] :
        s.mitm => s.app = "https"}
ResponseRules ==
    {s \in AllSetups : s.mode = "RULE_RESP" /\ s.server = "TPROXY"}
ResponseRulesHTTP == {s \in ResponseRules : s.app = "http" \/ s.mitm}
ServerFirst == {s \in ResponseRules : s.app = "other"}
RequestRulesMitM == {s \in AllSetups : s.mode = "RULE" /\ s.mitm /\ s.server = "SOCKS5"}
=============================================================================
