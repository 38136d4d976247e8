------------------------------ MODULE MCCtMark ------------------------------
(* A small instance of CtMark for TLC: two flows to one destination, and one *)
(* to a destination whose name is in SKIP_DOMAINS.                           *)
EXTENDS CtMark, TLC

CONSTANTS f1, f2, f3, d1, d2

ThreeFlows == {f1, f2, f3}
TwoDsts    == {d1, d2}
Domains    == {d2}
Symmetry   == Permutations({f1, f2})
Dests      == [f \in ThreeFlows |-> IF f = f3 THEN d2 ELSE d1]

(* The last packet, and only it, may go to d2, on a flow without a mark: it
   takes no ladder to skip one.                                            *)
OnlyLastToD2 ==
    /\ \A i \in Packets : flow[i] = f3 => i = MaxPackets
    /\ mark[f3] # Foreign

(* What nothing reads takes one value: the contents of a packet that passes
   a full channel, the mark and the skipped address of a flow without packets. *)
OnlyWhatIsRead ==
    /\ \A i \in Packets : verdict[i] = "bypassed" => kind[i] = "plain" /\ snap[i] # Absent
    /\ \A f \in Flows : mark[f] = Foreign => f \in {flow[i] : i \in Packets}
    /\ d2 \in skipset => f3 \in {flow[i] : i \in Packets}
=============================================================================
