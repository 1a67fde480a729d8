------------------------------ MODULE MCForward ------------------------------
(* Two exchanges that compete for one API permit. *)
EXTENDS Forward
CONSTANTS e1, e2
MCExchanges == {e1, e2}
=============================================================================
