--------------------------- MODULE MCTopologyCache ---------------------------
(* TopologyCache: two goroutines of one replica, or one on each of two.      *)
EXTENDS TopologyCache, TLC

CONSTANTS p1, p2, p3, r1, r2

MCHome == (p1 :> r1) @@ (p2 :> r1) @@ (p3 :> r2)
Pairs == {{p1, p2}, {p1, p3}}
=============================================================================
