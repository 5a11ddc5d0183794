---------------------------- MODULE MCEvsetPara -----------------------------
(* EvsetPara for TLC: two vCPUs for every pair, the pairs of them that     *)
(* find_optimal_vcpu_pairs hands out, and the pairs the threads start on.  *)
EXTENDS EvsetPara

MCPlace(p) == [main |-> 2 * p, helper |-> 2 * p + 1]

MCPlacements == {MCPlace(p) : p \in 0..(NPairsReq - 1)}

MCFirstPlaces == [p \in 0..(NPairsReq - 1) |-> MCPlace(p)]

=============================================================================
