------------------------------- MODULE HpaMap -------------------------------
(***************************************************************************)
(* The hierarchical map that the client searches for paths on a level:     *)
(* GridSurface.updateTiles and findPaths, GridSurfaceFactory,              *)
(* HierarchicalMap, HierarchicalMapFactory, Cluster, Graph and             *)
(* AbstractNode of agent/navigation.                                       *)
(*                                                                         *)
(* The level is cut into square clusters.  Where two open tiles face each  *)
(* other across the border of two clusters there are entrances: pairs of   *)
(* abstract nodes joined by an edge.  Nodes of one cluster are joined by   *)
(* edges that cost what the shortest way inside the cluster costs.  A      *)
(* search adds a node for its start and one for its target, runs A* on the *)
(* abstract graph, and takes both away again.                              *)
(*                                                                         *)
(* Of a tile only what decides about steps is kept: whether it was         *)
(* observed, is an instance of Walkable, and lets diagonal steps pass (any *)
(* Walkable but a Door).  The passabilities, the isObstacle flags and the  *)
(* edges of a cluster's own map follow from that and are derived.  The id  *)
(* of an abstract node is never given twice and means nothing else; here a *)
(* node is named by its place, its border and the update that made it.     *)
(* Costs are in steps (COST_ONE).  Of A* only whether it finds a path is   *)
(* used (module AStar shows that it does exactly when there is one).       *)
(***************************************************************************)
EXTENDS Integers, FiniteSets

CONSTANTS
  Width, Height,    \* the size of the level
  ClusterSize,      \* 8 in nethack/world/Surface.java
  MaxEntranceWidth, \* MAX_ENTRANCE_WIDTH: wider openings get an entrance at each end
  Observations,     \* what the game may report: a kind for every tile
  Places,           \* where searches may begin and end
  MaxUpdates,       \* bound: how often tiles are updated
  Start, Target     \* stand for the border in the two nodes of a search

Pos == (0 .. Width - 1) \X (0 .. Height - 1)
Open == {"straight", "diagonal"}
Kinds == Open \cup {"unseen", "blocked"}

\* A door stays a door while it can be walked over, and no other tile becomes
\* one but a wall or a tile not seen before.
ASSUME HpaAssumption ==
  /\ Width \in Nat /\ Height \in Nat /\ ClusterSize \in Nat \ {0}
  /\ MaxEntranceWidth \in Nat \ {0} /\ MaxUpdates \in Nat
  /\ Observations \subseteq [Pos -> Kinds] /\ Places \subseteq Pos
  /\ \A p \in Pos : Cardinality({o[p] : o \in Observations} \cap Open) < 2
  /\ Start # Target

ClusterOf(p) == <<p[1] \div ClusterSize, p[2] \div ClusterSize>>
Cells(c) == {p \in Pos : ClusterOf(p) = c}

\* The borders: between a cluster and the one on its right or below it.
Borders == {b \in (Int \X Int) \X (Int \X Int) :
              b[2] \in {<<b[1][1] + 1, b[1][2]>>, <<b[1][1], b[1][2] + 1>>}}

ASSUME NamesAssumption == Start \notin Borders /\ Target \notin Borders

NoPath == -1
NoPlace == <<>>
Nodes == [at : Pos, of : Borders \cup {Start, Target}, made : 0 .. MaxUpdates]
Edge(a, b, c) == [from |-> a, to |-> b, cost |-> c]
Edges == [from : Nodes, to : Nodes, cost : Nat \cup {NoPath}]

VARIABLES
  kind,       \* the tile at each place
  nodes,      \* abstractGraph.nodes
  live,       \* the nodes in the entrancePoints of their cluster
  edges,      \* the edges of all nodes; at most one from a node to another
  cached,     \* distanceCalculated and distances; NoPath: calculated, no distance
  updates,    \* how often tiles were updated
  pc,         \* "idle", or where findPaths is: "started", "inserted", "answered"
  from, to,   \* the places of the search
  found,      \* whether the last answer is a path
  before,     \* (history) the map when the search began
  obstructed  \* (history) a tile that was open was observed as blocked

vars == <<kind, nodes, live, edges, cached, updates, pc, from, to, found, before, obstructed>>

Map == <<nodes, live, edges, cached>>
Home(n) == ClusterOf(n.at)

\* Every tile is an obstacle at first, so there are no entrances.
Init ==
  /\ kind = [p \in Pos |-> "unseen"]
  /\ nodes = {} /\ live = {} /\ edges = {} /\ cached = {}
  /\ updates = 0 /\ pc = "idle" /\ from = NoPlace /\ to = NoPlace
  /\ found = FALSE /\ before = <<{}, {}, {}, {}>> /\ obstructed = FALSE

-----------------------------------------------------------------------------
(* Steps and distances *)

Near(d) == d \in -1 .. 1
Adjacent(p, q) == p # q /\ Near(p[1] - q[1]) /\ Near(p[2] - q[2])
Straight(p, q) == Adjacent(p, q) /\ (p[1] = q[1] \/ p[2] = q[2])

\* Whether one may step between p, of kind a, and q, of kind b.
CanStep(p, a, q, b) ==
  /\ a \in Open /\ b \in Open
  /\ \/ Straight(p, q)
     \/ Adjacent(p, q) /\ a = "diagonal" /\ b = "diagonal"

\* The edges of the map of one cluster when the tiles are k.
Links(k, c) == {s \in Cells(c) \X Cells(c) : CanStep(s[1], k[s[1]], s[2], k[s[2]])}

\* What can be reached from x in up to n of the steps.
Spread(x, steps) ==
  LET reached[n \in Nat] ==
        IF n = 0 THEN {x}
        ELSE LET r == reached[n - 1] IN r \cup {s[2] : s \in {t \in steps : t[1] \in r}}
  IN reached

\* The length of the shortest way between two places of a cluster: that many
\* steps, from 0 on, are too few.  It is looked for in one direction and kept for
\* both.
Distance(links, ends) ==
  LET p == CHOOSE p \in ends : TRUE
      q == CHOOSE q \in ends : ends = {p, q}
      enough == ClusterSize * ClusterSize
  IN IF q \in Spread(p, links)[enough]
     THEN Cardinality({n \in 0 .. enough : q \notin Spread(p, links)[n]})
     ELSE NoPath

\* computePathBetweenEntrances.
DistanceOf(k, a, b) == Distance(Links(k, Home(a)), {a.at, b.at})

-----------------------------------------------------------------------------
(* updateTiles *)

\* A tile that is known stays known.
After(obs) == [p \in Pos |-> IF obs[p] = "unseen" THEN kind[p] ELSE obs[p]]
Changed(obs) == {p \in Pos : obs[p] \notin {"unseen", kind[p]}}

\* The border addEdges names for a step from p to q: East or West whenever the
\* clusters are not in one column, also for a step around a corner.
BorderOf(p, q) ==
  LET c == ClusterOf(p)
      d == ClusterOf(q)
  IN CASE c[1] < d[1] -> <<c, <<c[1] + 1, c[2]>>>>
       [] c[1] > d[1] -> <<<<c[1] - 1, c[2]>>, c>>
       [] c[1] = d[1] /\ c[2] < d[2] -> <<c, <<c[1], c[2] + 1>>>>
       [] OTHER -> <<<<c[1], c[2] - 1>>, c>>

\* (mutant) the neighbours are looked up before the batch is put in
KnownBeforeBatch(q, p, obs) == kind[q]

\* What is known of q when p is put in: the tiles of a batch come column by column.
KnownOf(q, p, obs) ==
  IF q[1] < p[1] \/ (q[1] = p[1] /\ q[2] < p[2]) THEN After(obs)[q] ELSE kind[q]

\* The steps across borders that addEdges sees.
Openings(obs) ==
  {s \in Changed(obs) \X Pos :
     /\ Adjacent(s[1], s[2]) /\ ClusterOf(s[1]) # ClusterOf(s[2])
     /\ CanStep(s[1], obs[s[1]], s[2], KnownOf(s[2], s[1], obs))}

\* What the loop over the tiles of updateTiles leaves: the tiles, updatedClusters,
\* and entrances, the borders whose entrances are made anew.  A tile that is
\* blocked adds no border.
Batch(obs) == [tiles    |-> After(obs),
               touched  |-> {ClusterOf(p) : p \in Changed(obs)},
               reopened |-> {BorderOf(s[1], s[2]) : s \in Openings(obs)}]

\* The pairs of open tiles that face each other across a border, and where on it.
Facing(k, b) ==
  {s \in Cells(b[1]) \X Cells(b[2]) : Straight(s[1], s[2]) /\ k[s[1]] \in Open /\ k[s[2]] \in Open}
Along(b, s) == IF b[1][2] = b[2][2] THEN s[1][2] ELSE s[1][1]

\* createEntrancesAlongEdge: the middle of every opening, or both its ends.
Entrances(k, b) ==
  LET open == {Along(b, s) : s \in Facing(k, b)}
      Opening(lo, hi) == lo .. hi \subseteq open /\ lo - 1 \notin open /\ hi + 1 \notin open
      Chosen(i) == \E lo, hi \in open :
                     /\ lo <= i /\ i <= hi /\ Opening(lo, hi)
                     /\ IF hi - lo + 1 > MaxEntranceWidth THEN i \in {lo, hi}
                        ELSE i = (lo + hi) \div 2
  IN {s \in Facing(k, b) : Chosen(Along(b, s))}

\* The edges of addInterClusterEdge, one way.
Crossings(u) ==
  UNION {{Edge([at |-> s[1], of |-> b, made |-> updates + 1],
               [at |-> s[2], of |-> b, made |-> updates + 1], 1) :
            s \in Entrances(u.tiles, b)} : b \in u.reopened}

BothWays(es) == es \cup {Edge(e.to, e.from, e.cost) : e \in es}
Made(u) == {e.from : e \in BothWays(Crossings(u))}

\* removeEntrancesBetweenClusters: the old entrances of those borders.  A node
\* that has other edges stays in the graph, but is in no cluster any more.
Dropped(u) == {n \in live : n.of \in u.reopened}
\* (mutant) every dropped entrance is removed, whatever edges lead to it
EveryDropped(u) == Dropped(u)
Lone(u) == {n \in Dropped(u) : \A e \in edges : e.from = n => Home(e.to) # Home(n)}
LiveAfter(u) == (live \ Dropped(u)) \cup Made(u)

\* The pairs that have to have a distance: two nodes of one cluster that was
\* touched or has new entrances.
Refreshed(u) == u.touched \cup UNION {{b[1], b[2]} : b \in u.reopened}
Mates(u) ==
  LET now == LiveAfter(u)
      where == Refreshed(u)
  IN {m \in now \X now : m[1] # m[2] /\ Home(m[1]) = Home(m[2]) /\ Home(m[1]) \in where}

Joins(es, m) == \E e \in es : e.from = m[1] /\ e.to = m[2]

\* resetComputedPaths, then computePathBetweenEntrances for the pairs it has not calculated.
KeptDistances(u) ==
  LET gone == Lone(u)
  IN {e \in cached : Home(e.from) \notin u.touched /\ e.from \notin gone /\ e.to \notin gone}
CachedAfter(u) ==
  LET kept == KeptDistances(u)
  IN kept \cup {Edge(m[1], m[2], DistanceOf(u.tiles, m[1], m[2])) :
                  m \in {m \in Mates(u) : ~ Joins(kept, m)}}

\* (mutant) no edges are removed when the tiles of a cluster have changed
KeptWithoutReset(u) == {e \in edges : Home(e.from) = Home(e.to) \/ e.from.of \notin u.reopened}

\* What removeEntrancesBetweenClusters and resetIntraClusterPaths do not remove.
KeptEdges(u) ==
  LET now == LiveAfter(u)
  IN {e \in edges : IF Home(e.from) # Home(e.to) THEN e.from.of \notin u.reopened
                    ELSE Home(e.from) \notin u.touched \/ e.from \notin now \/ e.to \notin now}

\* createIntraClusterEdges: an edge that is there is not replaced (AbstractNode.addEdge).
EdgesAfter(u) ==
  LET kept == KeptEdges(u)
      mates == Mates(u)
  IN kept \cup BothWays(Crossings(u))
       \cup {e \in CachedAfter(u) : /\ e.cost # NoPath /\ <<e.from, e.to>> \in mates
                                    /\ ~ Joins(kept, <<e.from, e.to>>)}

\* createEntrances and resetIntraClusterPaths.
Rebuild(u) ==
  /\ kind' = u.tiles
  /\ nodes' = (nodes \ Lone(u)) \cup Made(u)
  /\ live' = LiveAfter(u)
  /\ edges' = EdgesAfter(u)
  /\ cached' = CachedAfter(u)

\* updateTiles, with the tiles of one observation that changed.
Update(obs) ==
  /\ pc = "idle" /\ updates < MaxUpdates /\ Changed(obs) # {}
  /\ \E u \in {Batch(obs)} : Rebuild(u)
  /\ updates' = updates + 1
  /\ obstructed' = (obstructed \/ \E p \in Changed(obs) : kind[p] \in Open)
  /\ UNCHANGED <<pc, from, to, found, before>>

-----------------------------------------------------------------------------
(* findPaths; findShortestPath makes the same steps, and may leave targets out. *)

StartNode(p) == [at |-> p, of |-> Start, made |-> 0]
TargetNode(p) == [at |-> p, of |-> Target, made |-> 0]

\* The distances updatePathsForLocalEntrance adds for a new node.
Spokes(n) == BothWays({Edge(n, m, DistanceOf(kind, n, m)) : m \in {l \in live : Home(l) = Home(n)}})

\* insertAbstractNode.
Insert(n) ==
  /\ nodes' = nodes \cup {n} /\ live' = live \cup {n}
  /\ cached' = cached \cup Spokes(n)
  /\ edges' = edges \cup {e \in Spokes(n) : e.cost # NoPath}

\* (mutant) only the node's own edges are removed
OwnEdgesRemoved(n) == {e \in edges : e.from # n}

\* removeEdgesFromAndToNode: the other end is found by the node's own edges.
Unlinked(n) ==
  {e \in edges : e.from # n /\ ~ (e.to = n /\ \E d \in edges : d.from = n /\ d.to = e.from)}

\* removeAbstractNode.
Remove(n) ==
  /\ nodes' = nodes \ {n} /\ live' = live \ {n}
  /\ cached' = {e \in cached : e.from # n /\ e.to # n}
  /\ edges' = Unlinked(n)

BeginSearch(p) ==
  /\ pc = "idle" /\ pc' = "started" /\ from' = p /\ before' = Map
  /\ Insert(StartNode(p))
  /\ UNCHANGED <<kind, updates, to, found, obstructed>>

\* A target equal to the start is answered without a search.
InsertTarget(p) ==
  /\ pc \in {"started", "answered"} /\ p # from /\ pc' = "inserted" /\ to' = p
  /\ Insert(TargetNode(p))
  /\ UNCHANGED <<kind, updates, from, found, before, obstructed>>

\* Whether A* finds the target on the abstract graph.
Connected(a, b) == b \in Spread(a, {<<e.from, e.to>> : e \in edges})[Cardinality(nodes)]

\* doHierarchicalSearch, and the target is removed.
Answer ==
  /\ pc = "inserted" /\ pc' = "answered"
  /\ found' = Connected(StartNode(from), TargetNode(to))
  /\ Remove(TargetNode(to))
  /\ UNCHANGED <<kind, updates, from, to, before, obstructed>>

EndSearch ==
  /\ pc \in {"started", "answered"} /\ pc' = "idle"
  /\ Remove(StartNode(from))
  /\ from' = NoPlace /\ to' = NoPlace /\ found' = FALSE /\ before' = <<{}, {}, {}, {}>>
  /\ UNCHANGED <<kind, updates, obstructed>>

Next ==
  \/ \E obs \in Observations : Update(obs)
  \/ \E p \in Places : BeginSearch(p)
  \/ \E p \in Places : InsertTarget(p)
  \/ Answer
  \/ EndSearch

Spec == Init /\ [][Next]_vars

-----------------------------------------------------------------------------
(* Properties *)

\* The types of the variables; a node of a cluster is a node of the graph.
TypeOK ==
  /\ kind \in [Pos -> Kinds]
  /\ nodes \subseteq Nodes /\ live \subseteq nodes
  /\ edges \subseteq [from : nodes, to : nodes, cost : Nat]
  /\ cached \subseteq Edges
  /\ updates \in 0 .. MaxUpdates
  /\ pc \in {"idle", "started", "inserted", "answered"}
  /\ from \in Pos \cup {NoPlace} /\ to \in Pos \cup {NoPlace}
  /\ found \in BOOLEAN /\ obstructed \in BOOLEAN
  /\ before[1] \subseteq Nodes /\ before[2] \subseteq Nodes
  /\ before[3] \subseteq Edges /\ before[4] \subseteq Edges

\* Whatever has opened and closed, within a cluster the graph says what its tiles
\* say: two of its nodes are joined by an edge exactly when there is a way between
\* them, the edge costs what the shortest way costs, and so says the cache.
EntrancesExact ==
  LET couples == {m \in live \X live : m[1] # m[2] /\ Home(m[1]) = Home(m[2])}
      exact == {Edge(m[1], m[2], DistanceOf(kind, m[1], m[2])) : m \in couples}
      Within(es) == {e \in es : e.from \in live /\ e.to \in live /\ Home(e.from) = Home(e.to)}
  IN Within(cached) = exact /\ Within(edges) = {e \in exact : e.cost # NoPath}

\* A search, whatever its targets, leaves the map as it found it.
SearchLeavesNoTrace ==
  [][pc # "idle" /\ pc' = "idle" => Map' = before]_vars

\* The steps the map knows: within a cluster, and straight ahead across a border.
KnownSteps ==
  {s \in Pos \X Pos : /\ CanStep(s[1], kind[s[1]], s[2], kind[s[2]])
                      /\ (ClusterOf(s[1]) = ClusterOf(s[2]) \/ Straight(s[1], s[2]))}

\* As long as no open tile was ever blocked, a path is found exactly when such
\* steps lead to the target: the few entrances that are kept lose no way.
FoundIfReachable ==
  pc = "answered" /\ ~ obstructed =>
    (found <=> to \in Spread(from, KnownSteps)[Width * Height])

\* "You can use findPath to check which frontiers are reachable"
\* (GridSurface.java:276): with every step a player may take, and whatever happened.
FindPathTells ==
  pc = "answered" /\ kind[from] \in Open =>
    (found <=> to \in Spread(from, {s \in Pos \X Pos :
                                      CanStep(s[1], kind[s[1]], s[2], kind[s[2]])})[Width * Height])
=============================================================================
