------------------------------ MODULE MCGateway ------------------------------
(* Two connections for one slot; an association has room for one flow.       *)
EXTENDS Gateway
CONSTANTS c1, c2, t1, t2, p1, p2
MCConns == {c1, c2}
MCTargets == {t1, t2}
MCClients == {p1, p2}
=============================================================================
