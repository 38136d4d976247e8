---------------------------- MODULE MCConnections ----------------------------
(* A small instance of Connections for TLC: a later connection may have the    *)
(* addresses of an earlier one, or share only its destination.                *)
EXTENDS Connections
SmallSrcs  == {"s", "t"}
SmallDests == {"d"}
===============================================================================
