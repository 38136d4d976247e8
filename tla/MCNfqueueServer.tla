-------------------------- MODULE MCNfqueueServer --------------------------
(* A small instance of NfqueueServer for TLC.                               *)
EXTENDS NfqueueServer

CONSTANTS f1, f2, w1, w2

TwoFlows   == {f1, f2}
TwoWorkers == {w1, w2}
(* Up to the names of the workers: the flows share a worker, or not. *)
OneEachOrShared == {[f \in TwoFlows |-> w1], [f \in TwoFlows |-> IF f = f1 THEN w1 ELSE w2]}
AllForms   == {"ok", "undecodable", "invalid"}
=============================================================================
