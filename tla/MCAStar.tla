------------------------------ MODULE MCAStar ------------------------------
(***************************************************************************)
(* AStar on all maps of four nodes in which no edge leads to the start or  *)
(* away from the target (neither is ever of use), with costs 0, 1 and 3.   *)
(***************************************************************************)
EXTENDS AStar

CONSTANTS s, a, b, t

Possible == {<<s, a>>, <<s, b>>, <<a, b>>, <<b, a>>, <<a, t>>, <<b, t>>}
MCNodes == {s, a, b, t}
MCGraphs == UNION {[E -> {0, 1, 3}] : E \in SUBSET Possible}
MCHeuristics == {x \in [MCNodes -> {0, 1, 2}] : x[t] = 0 /\ x[s] = 2}
=============================================================================
