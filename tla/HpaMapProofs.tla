---------------------------- MODULE HpaMapProofs ----------------------------
(***************************************************************************)
(* What holds of the hierarchical map on levels of every size, with        *)
(* clusters and openings of every size: the map stays well formed, within  *)
(* a cluster it says what the tiles say, and searches leave it alone.      *)
(*                                                                         *)
(* How far two places are from each other is never computed here: the      *)
(* proofs only use that the distance depends on the tiles of one cluster.  *)
(***************************************************************************)
EXTENDS HpaMap, FiniteSetTheorems, TLAPS

-----------------------------------------------------------------------------
(* The inductive invariant *)

Temp(n) == n.of \in {Start, Target}

\* The nodes of the search that goes on.
Temps == {n \in {StartNode(from)} : pc # "idle"} \cup {n \in {TargetNode(to)} : pc = "inserted"}

\* Names are not given twice: an update gives names of its own.
Named ==
  /\ \A n \in nodes : n.made <= updates /\ (Temp(n) => n \in Temps)
  /\ pc # "idle" => from \in Pos
  /\ pc = "inserted" => to \in Pos

\* Edges go both ways; those across a border belong to it.
EdgesMatched ==
  \A e \in edges : /\ Edge(e.to, e.from, e.cost) \in edges
                   /\ Home(e.from) # Home(e.to) => e.from.of = e.to.of

\* Distances are kept both ways, between nodes of one cluster.
CacheMatched ==
  \A e \in cached : /\ e.from \in nodes /\ e.to \in nodes
                    /\ Home(e.from) = Home(e.to)
                    /\ Edge(e.to, e.from, e.cost) \in cached

\* EntrancesExact, one pair at a time: es holds the distances ds of the nodes ns.
Holds(es, ns, k) ==
  /\ \A e \in es : /\ e.from \in ns /\ e.to \in ns /\ Home(e.from) = Home(e.to)
                   => e.from # e.to /\ e.cost = DistanceOf(k, e.from, e.to)
  /\ \A a, b \in ns : a # b /\ Home(a) = Home(b) /\ DistanceOf(k, a, b) # NoPath
                      => Edge(a, b, DistanceOf(k, a, b)) \in es

Calculated(es, ns, k) ==
  \A a, b \in ns : a # b /\ Home(a) = Home(b) => Edge(a, b, DistanceOf(k, a, b)) \in es

\* What a search found, without the nodes it added.
Trace ==
  pc # "idle" =>
    before = <<{n \in nodes : ~ Temp(n)}, {n \in live : ~ Temp(n)},
               {e \in edges : ~ Temp(e.from) /\ ~ Temp(e.to)},
               {e \in cached : ~ Temp(e.from) /\ ~ Temp(e.to)}>>

DistancesExact ==
  /\ Holds(edges, live, kind) /\ Holds(cached, live, kind) /\ Calculated(cached, live, kind)
  /\ \A e \in edges : e.cost # NoPath

GraphOK ==
  /\ nodes \subseteq Nodes /\ live \subseteq nodes
  /\ edges \subseteq [from : nodes, to : nodes, cost : Nat]
  /\ cached \subseteq Edges

MapInv == GraphOK /\ EdgesMatched /\ CacheMatched /\ DistancesExact
IInv == TypeOK /\ MapInv /\ Named /\ Trace

-----------------------------------------------------------------------------
(* Distances *)

\* The cluster of a place is a pair of integers.
LEMMA ClusterType ==
  ASSUME NEW p \in Pos PROVE ClusterOf(p) \in Int \X Int
BY HpaAssumption DEF Pos, ClusterOf

\* A distance is a number of steps, or there is none.
LEMMA DistanceType ==
  ASSUME NEW links, NEW ends PROVE Distance(links, ends) \in Nat \cup {NoPath}
<1> DEFINE p == CHOOSE p \in ends : TRUE
           q == CHOOSE q \in ends : ends = {p, q}
           enough == ClusterSize * ClusterSize
           few == {n \in 0 .. enough : q \notin Spread(p, links)[n]}
<1>1. enough \in Nat
  BY HpaAssumption
<1>2. IsFiniteSet(0 .. enough)
  BY <1>1, FS_Interval
<1>3. IsFiniteSet(few)
  BY <1>2, FS_Subset
<1>4. Cardinality(few) \in Nat
  BY <1>3, FS_CardinalityType
<1> QED
  BY <1>4 DEF Distance

\* It is the same in both directions.
LEMMA DistanceBothWays ==
  ASSUME NEW k, NEW a, NEW b, Home(a) = Home(b)
  PROVE  DistanceOf(k, a, b) = DistanceOf(k, b, a)
<1>1. {a.at, b.at} = {b.at, a.at}
  OBVIOUS
<1> QED
  BY <1>1 DEF DistanceOf

\* It does not change unless a tile of the cluster does.
LEMMA DistanceLocal ==
  ASSUME NEW k, NEW m, NEW a, NEW b,
         \A p \in Pos : ClusterOf(p) = Home(a) => k[p] = m[p]
  PROVE  DistanceOf(k, a, b) = DistanceOf(m, a, b)
<1>1. Links(k, Home(a)) = Links(m, Home(a))
  BY DEF Links, Cells
<1> QED
  BY <1>1 DEF DistanceOf

-----------------------------------------------------------------------------
(* A node is inserted, and removed *)

\* The distances of a new node: there and back, to every node of its cluster.
LEMMA SpokesAre ==
  ASSUME NEW n
  PROVE  /\ \A e \in Spokes(n) : \E m \in live :
              /\ Home(m) = Home(n)
              /\ \/ e = Edge(n, m, DistanceOf(kind, n, m))
                 \/ e = Edge(m, n, DistanceOf(kind, m, n))
         /\ \A m \in live : Home(m) = Home(n) =>
              /\ Edge(n, m, DistanceOf(kind, n, m)) \in Spokes(n)
              /\ Edge(m, n, DistanceOf(kind, m, n)) \in Spokes(n)
<1> DEFINE out == {Edge(n, m, DistanceOf(kind, n, m)) : m \in {l \in live : Home(l) = Home(n)}}
<1>1. Spokes(n) = out \cup {Edge(e.to, e.from, e.cost) : e \in out}
  BY DEF Spokes, BothWays
<1>2. ASSUME NEW m \in live, Home(m) = Home(n)
      PROVE  /\ Edge(n, m, DistanceOf(kind, n, m)) \in out
             /\ DistanceOf(kind, n, m) = DistanceOf(kind, m, n)
  BY <1>2, DistanceBothWays
<1>3. \A a, b, c : Edge(a, b, c).from = a /\ Edge(a, b, c).to = b /\ Edge(a, b, c).cost = c
  BY DEF Edge
<1>4. ASSUME NEW e \in Spokes(n)
      PROVE  \E m \in live : /\ Home(m) = Home(n)
                             /\ \/ e = Edge(n, m, DistanceOf(kind, n, m))
                                \/ e = Edge(m, n, DistanceOf(kind, m, n))
  <2>1. PICK d \in out : e = d \/ e = Edge(d.to, d.from, d.cost)
    BY <1>1
  <2>2. PICK m \in live : Home(m) = Home(n) /\ d = Edge(n, m, DistanceOf(kind, n, m))
    OBVIOUS
  <2>3. d.to = m /\ d.from = n /\ d.cost = DistanceOf(kind, m, n)
    BY <2>2, <1>2, <1>3
  <2> QED
    BY <2>1, <2>2, <2>3
<1>5. ASSUME NEW m \in live, Home(m) = Home(n)
      PROVE  /\ Edge(n, m, DistanceOf(kind, n, m)) \in Spokes(n)
             /\ Edge(m, n, DistanceOf(kind, m, n)) \in Spokes(n)
  <2> DEFINE d == Edge(n, m, DistanceOf(kind, n, m))
  <2>1. d \in out /\ d.to = m /\ d.from = n /\ d.cost = DistanceOf(kind, m, n)
    BY <1>2, <1>3, <1>5
  <2>2. Edge(d.to, d.from, d.cost) \in {Edge(e.to, e.from, e.cost) : e \in out}
    BY <2>1
  <2> HIDE DEF out
  <2> QED
    BY <1>1, <2>1, <2>2
<1> QED
  BY <1>4, <1>5

\* A map with one node more is as well formed as before.
LEMMA InsertKeeps ==
  ASSUME MapInv, NEW n \in Nodes, n \notin nodes, Insert(n), kind' = kind
  PROVE  MapInv'
<1> USE DEF MapInv
<1>1. /\ nodes' = nodes \cup {n} /\ live' = live \cup {n}
      /\ cached' = cached \cup Spokes(n)
      /\ edges' = edges \cup {e \in Spokes(n) : e.cost # NoPath}
  BY DEF Insert
<1>2. /\ nodes \subseteq Nodes /\ live \subseteq nodes /\ cached \subseteq Edges
      /\ edges \subseteq [from : nodes, to : nodes, cost : Nat]
  BY DEF GraphOK
<1>3. \A a, b, c : Edge(a, b, c).from = a /\ Edge(a, b, c).to = b /\ Edge(a, b, c).cost = c
  BY DEF Edge
<1>4. ASSUME NEW e \in Spokes(n)
      PROVE  /\ e.from \in nodes' /\ e.to \in nodes'
             /\ e.cost \in Nat \cup {NoPath} /\ e = Edge(e.from, e.to, e.cost)
             /\ e.from # e.to /\ Home(e.from) = Home(e.to)
             /\ e.from = n \/ e.to = n
             /\ e.cost = DistanceOf(kind, e.from, e.to)
             /\ Edge(e.to, e.from, e.cost) \in Spokes(n)
  <2>1. PICK m \in live : /\ Home(m) = Home(n)
                          /\ \/ e = Edge(n, m, DistanceOf(kind, n, m))
                             \/ e = Edge(m, n, DistanceOf(kind, m, n))
    BY SpokesAre
  <2>2. DistanceOf(kind, n, m) = DistanceOf(kind, m, n)
    BY <2>1, DistanceBothWays
  <2>3. DistanceOf(kind, n, m) \in Nat \cup {NoPath}
    BY DistanceType DEF DistanceOf
  <2>4. m # n
    BY <1>2
  <2>5. /\ Edge(n, m, DistanceOf(kind, n, m)) \in Spokes(n)
        /\ Edge(m, n, DistanceOf(kind, m, n)) \in Spokes(n)
    BY <2>1, SpokesAre
  <2> QED
    BY <1>1, <1>2, <1>3, <2>1, <2>2, <2>3, <2>4, <2>5
<1>5. \A a, b, c : a \in nodes' /\ b \in nodes' /\ c \in Nat
                   => Edge(a, b, c) \in [from : nodes', to : nodes', cost : Nat]
  BY DEF Edge
<1>6. GraphOK'
  <2>1. nodes' \subseteq Nodes /\ live' \subseteq nodes'
    BY <1>1, <1>2
  <2>2. edges' \subseteq [from : nodes', to : nodes', cost : Nat]
    <3>1. ASSUME NEW e \in Spokes(n), e.cost # NoPath
          PROVE  e \in [from : nodes', to : nodes', cost : Nat]
      BY <1>4, <1>5, <3>1
    <3>2. edges \subseteq [from : nodes', to : nodes', cost : Nat]
      BY <1>1, <1>2
    <3> QED
      BY <1>1, <3>1, <3>2
  <2>3. cached' \subseteq Edges
    <3>1. \A a, b \in Nodes, c \in Nat \cup {NoPath} : Edge(a, b, c) \in Edges
      BY DEF Edges, Edge
    <3>2. ASSUME NEW e \in Spokes(n) PROVE e \in Edges
      <4>1. e.from \in Nodes /\ e.to \in Nodes /\ e.cost \in Nat \cup {NoPath}
        BY <1>4, <2>1
      <4> QED
        BY <1>4, <3>1, <4>1
    <3> QED
      BY <1>1, <1>2, <3>2
  <2> QED
    BY <2>1, <2>2, <2>3 DEF GraphOK
<1>7. EdgesMatched'
  BY <1>1, <1>3, <1>4 DEF EdgesMatched
<1>8. CacheMatched'
  BY <1>1, <1>4 DEF CacheMatched
<1>9. DistancesExact'
  <2>1. \A e \in edges : e.from \in nodes /\ e.to \in nodes /\ e.from # n /\ e.to # n
    BY <1>2
  <2>2. \A e \in cached : e.from \in nodes /\ e.to \in nodes /\ e.from # n /\ e.to # n
    BY DEF CacheMatched
  <2>3. \A a, b \in live' : a # b /\ Home(a) = Home(b)
          => (a \in live /\ b \in live) \/ Edge(a, b, DistanceOf(kind, a, b)) \in Spokes(n)
    BY <1>1, SpokesAre
  <2>4. Holds(edges', live', kind)
    BY <1>1, <1>3, <1>4, <2>1, <2>3 DEF Holds, DistancesExact
  <2>5. Holds(cached', live', kind)
    BY <1>1, <1>4, <2>2, <2>3 DEF Holds, DistancesExact
  <2>6. Calculated(cached', live', kind)
    BY <1>1, <2>3 DEF Calculated, DistancesExact
  <2>7. \A e \in edges' : e.cost # NoPath
    BY <1>1 DEF DistancesExact
  <2> QED
    BY <2>4, <2>5, <2>6, <2>7 DEF DistancesExact
<1> QED
  BY <1>6, <1>7, <1>8, <1>9

\* The edges to a node are found by the edges from it.
LEMMA UnlinkedAre ==
  ASSUME EdgesMatched, NEW n
  PROVE  Unlinked(n) = {e \in edges : e.from # n /\ e.to # n}
<1>1. ASSUME NEW e \in edges, e.to = n
      PROVE  \E d \in edges : d.from = n /\ d.to = e.from
  <2>1. Edge(e.to, e.from, e.cost) \in edges
    BY DEF EdgesMatched
  <2> QED
    BY <1>1, <2>1 DEF Edge
<1> QED
  BY <1>1 DEF Unlinked

\* A map with one node less is as well formed as before.
LEMMA RemoveKeeps ==
  ASSUME MapInv, NEW n, Remove(n), kind' = kind
  PROVE  MapInv'
<1> USE DEF MapInv
<1>1. /\ nodes' = nodes \ {n} /\ live' = live \ {n}
      /\ cached' = {e \in cached : e.from # n /\ e.to # n}
      /\ edges' = {e \in edges : e.from # n /\ e.to # n}
  BY UnlinkedAre DEF Remove
<1>2. GraphOK'
  <2>1. ASSUME NEW e \in edges' PROVE e \in [from : nodes', to : nodes', cost : Nat]
    BY <1>1 DEF GraphOK
  <2> QED
    BY <1>1, <2>1 DEF GraphOK
<1>3. EdgesMatched'
  BY <1>1 DEF EdgesMatched, Edge
<1>4. CacheMatched'
  BY <1>1 DEF CacheMatched, Edge
<1>5. \A a, b, c : Edge(a, b, c).from = a /\ Edge(a, b, c).to = b
  BY DEF Edge
<1>6. DistancesExact'
  <2>1. Holds(edges', live', kind)
    BY <1>1, <1>5 DEF Holds, DistancesExact
  <2>2. Holds(cached', live', kind) /\ Calculated(cached', live', kind)
    BY <1>1, <1>5 DEF Holds, Calculated, DistancesExact
  <2> QED
    BY <1>1, <2>1, <2>2 DEF DistancesExact
<1> QED
  BY <1>2, <1>3, <1>4, <1>6

-----------------------------------------------------------------------------
(* Tiles are updated *)

\* What the loop over the tiles leaves: a tile in no updated cluster is as it was.
LEMMA BatchIs ==
  ASSUME NEW obs \in Observations, kind \in [Pos -> Kinds], NEW u, u = Batch(obs)
  PROVE  /\ u.tiles \in [Pos -> Kinds] /\ u.reopened \subseteq Borders
         /\ \A p \in Pos : ClusterOf(p) \notin u.touched => u.tiles[p] = kind[p]
<1>1. /\ u.tiles = After(obs) /\ u.touched = {ClusterOf(p) : p \in Changed(obs)}
      /\ u.reopened = {BorderOf(s[1], s[2]) : s \in Openings(obs)}
  BY DEF Batch
<1>2. obs \in [Pos -> Kinds]
  BY HpaAssumption
<1>3. After(obs) \in [Pos -> Kinds]
  BY <1>2 DEF After
<1>4. ASSUME NEW p \in Pos, ClusterOf(p) \notin u.touched
      PROVE  After(obs)[p] = kind[p]
  BY <1>1, <1>4 DEF Changed, After
<1>5. ASSUME NEW p \in Pos, NEW q \in Pos, ClusterOf(p) # ClusterOf(q)
      PROVE  BorderOf(p, q) \in Borders
  <2>1. PICK x, y, v, w \in Int : ClusterOf(p) = <<x, y>> /\ ClusterOf(q) = <<v, w>>
    BY ClusterType
  <2>2. CASE x < v
    <3>1. BorderOf(p, q) = <<<<x, y>>, <<x + 1, y>>>>
      BY <2>1, <2>2 DEF BorderOf
    <3> QED
      BY <3>1 DEF Borders
  <2>3. CASE x > v
    <3>1. BorderOf(p, q) = <<<<x - 1, y>>, <<x, y>>>>
      BY <2>1, <2>3 DEF BorderOf
    <3> QED
      BY <3>1 DEF Borders
  <2>4. CASE x = v /\ y < w
    <3>1. BorderOf(p, q) = <<<<x, y>>, <<x, y + 1>>>>
      BY <2>1, <2>4 DEF BorderOf
    <3> QED
      BY <3>1 DEF Borders
  <2>5. CASE x = v /\ ~ (y < w)
    <3>1. BorderOf(p, q) = <<<<x, y - 1>>, <<x, y>>>>
      BY <2>1, <2>5 DEF BorderOf
    <3> QED
      BY <3>1 DEF Borders
  <2> QED
    BY <2>2, <2>3, <2>4, <2>5
<1>6. \A s \in Openings(obs) : s[1] \in Pos /\ s[2] \in Pos /\ ClusterOf(s[1]) # ClusterOf(s[2])
  BY DEF Openings, Changed
<1> QED
  BY <1>1, <1>3, <1>4, <1>5, <1>6

\* The new edges across a border join new nodes of the two clusters beside it.
LEMMA CrossingsAre ==
  ASSUME NEW u, u.reopened \subseteq Borders, updates \in Nat, updates < MaxUpdates,
         NEW e \in Crossings(u)
  PROVE  /\ e.from \in Nodes /\ e.to \in Nodes /\ e.cost = 1 /\ e = Edge(e.from, e.to, 1)
         /\ e.from.made = updates + 1 /\ e.to.made = updates + 1
         /\ e.from.of \in u.reopened /\ e.to.of = e.from.of
         /\ Home(e.from) = e.from.of[1] /\ Home(e.to) = e.from.of[2]
<1> DEFINE New(p, b) == [at |-> p, of |-> b, made |-> updates + 1]
<1>0. PICK b \in u.reopened : \E s \in Entrances(u.tiles, b) : e = Edge(New(s[1], b), New(s[2], b), 1)
  BY DEF Crossings
<1>1. PICK s \in Entrances(u.tiles, b) : e = Edge(New(s[1], b), New(s[2], b), 1)
  BY <1>0
<1>2. s \in Cells(b[1]) \X Cells(b[2])
  BY DEF Entrances, Facing
<1>3. s[1] \in Pos /\ s[2] \in Pos /\ ClusterOf(s[1]) = b[1] /\ ClusterOf(s[2]) = b[2]
  BY <1>2 DEF Cells
<1>4. updates + 1 \in 0 .. MaxUpdates
  BY HpaAssumption
<1>5. b \in Borders
  OBVIOUS
<1>6. New(s[1], b) \in Nodes /\ New(s[2], b) \in Nodes
  BY <1>3, <1>4, <1>5 DEF Nodes
<1> QED
  BY <1>1, <1>3, <1>6 DEF Edge, Home

\* Both ways, with the nodes that are made for them.
LEMMA MadeAre ==
  ASSUME NEW u, u.reopened \subseteq Borders, updates \in Nat, updates < MaxUpdates
  PROVE  /\ \A e \in BothWays(Crossings(u)) :
              /\ e.from \in Made(u) /\ e.to \in Made(u) /\ e.cost = 1
              /\ e = Edge(e.from, e.to, 1) /\ Edge(e.to, e.from, 1) \in BothWays(Crossings(u))
              /\ Home(e.from) # Home(e.to) /\ e.from.of = e.to.of
         /\ \A n \in Made(u) : /\ n \in Nodes /\ n.made = updates + 1
                               /\ n.of \in u.reopened /\ Home(n) \in Refreshed(u)
<1> DEFINE both == BothWays(Crossings(u))
<1>1. \A a, b, c : Edge(a, b, c).from = a /\ Edge(a, b, c).to = b /\ Edge(a, b, c).cost = c
  BY DEF Edge
<1>2. ASSUME NEW e \in Crossings(u)
      PROVE  Home(e.from) # Home(e.to)
  <2>1. e.from.of \in Borders /\ Home(e.from) = e.from.of[1] /\ Home(e.to) = e.from.of[2]
    BY CrossingsAre
  <2>2. \A b \in Borders : b[1] # b[2]
    BY DEF Borders
  <2> QED
    BY <2>1, <2>2
<1>3. both = Crossings(u) \cup {Edge(e.to, e.from, e.cost) : e \in Crossings(u)}
  BY DEF BothWays
<1>4. ASSUME NEW e \in both
      PROVE  /\ Edge(e.to, e.from, 1) \in both
             /\ e.from \in Nodes /\ e.to \in Nodes /\ e.cost = 1 /\ e = Edge(e.from, e.to, 1)
             /\ e.from.made = updates + 1
             /\ e.from.of \in u.reopened /\ e.to.of = e.from.of
             /\ Home(e.from) # Home(e.to)
             /\ Home(e.from) \in {e.from.of[1], e.from.of[2]}
  <2>1. CASE e \in Crossings(u)
    <3>1. Edge(e.to, e.from, e.cost) \in both
      BY <1>3, <2>1
    <3> QED
      BY <2>1, <3>1, <1>2, CrossingsAre
  <2>2. CASE e \notin Crossings(u)
    <3>1. PICK d \in Crossings(u) : e = Edge(d.to, d.from, d.cost)
      BY <1>3, <2>2
    <3>2. e.from = d.to /\ e.to = d.from /\ e.cost = d.cost
      BY <3>1, <1>1
    <3>3. /\ d.from \in Nodes /\ d.to \in Nodes /\ d.cost = 1 /\ d = Edge(d.from, d.to, 1)
          /\ d.to.made = updates + 1 /\ d.from.of \in u.reopened /\ d.to.of = d.from.of
          /\ Home(d.from) # Home(d.to) /\ Home(d.to) = d.from.of[2]
      BY <1>2, CrossingsAre
    <3>4. d \in both
      BY <1>3
    <3> QED
      BY <3>1, <3>2, <3>3, <3>4
  <2> QED
    BY <2>1, <2>2
<1>5. Made(u) = {e.from : e \in both}
  BY DEF Made
<1> HIDE DEF both
<1>6. ASSUME NEW e \in both PROVE e.from \in Made(u) /\ e.to \in Made(u)
  <2>1. Edge(e.to, e.from, 1) \in both
    BY <1>4
  <2>2. Edge(e.to, e.from, 1).from = e.to
    BY <1>1
  <2> QED
    BY <1>5, <2>1, <2>2
<1>7. ASSUME NEW n \in Made(u)
      PROVE  /\ n \in Nodes /\ n.made = updates + 1
             /\ n.of \in u.reopened /\ Home(n) \in Refreshed(u)
  <2>1. PICK e \in both : n = e.from
    BY <1>5
  <2>2. /\ n \in Nodes /\ n.made = updates + 1 /\ n.of \in u.reopened
        /\ Home(n) \in {n.of[1], n.of[2]}
    BY <1>4, <2>1
  <2> QED
    BY <2>2 DEF Refreshed
<1> QED
  BY <1>4, <1>6, <1>7 DEF both

\* The edges that are kept join nodes that are kept, both ways.
LEMMA KeptEdgesAre ==
  ASSUME GraphOK, EdgesMatched, NEW u
  PROVE  \A e \in KeptEdges(u) :
           /\ e \in edges /\ e.from \in nodes \ Lone(u) /\ e.to \in nodes \ Lone(u)
           /\ Edge(e.to, e.from, e.cost) \in KeptEdges(u)
           /\ Home(e.from) = Home(e.to) /\ e.from \in LiveAfter(u) /\ e.to \in LiveAfter(u)
                => Home(e.from) \notin u.touched
<1> SUFFICES ASSUME NEW e \in KeptEdges(u)
             PROVE  /\ e \in edges /\ e.from \in nodes \ Lone(u) /\ e.to \in nodes \ Lone(u)
                    /\ Edge(e.to, e.from, e.cost) \in KeptEdges(u)
                    /\ Home(e.from) = Home(e.to) /\ e.from \in LiveAfter(u) /\ e.to \in LiveAfter(u)
                         => Home(e.from) \notin u.touched
  OBVIOUS
<1> DEFINE d == Edge(e.to, e.from, e.cost)
<1>1. e \in edges /\ e.from \in nodes /\ e.to \in nodes
  BY DEF KeptEdges, GraphOK
<1>2. d \in edges /\ d.from = e.to /\ d.to = e.from
  BY <1>1 DEF EdgesMatched, Edge
<1>3. Home(e.from) # Home(e.to) => e.from.of = e.to.of /\ e.from.of \notin u.reopened
  BY <1>1 DEF KeptEdges, EdgesMatched
<1>4. \A n \in Lone(u) : n.of \in u.reopened /\ \A x \in edges : x.from = n => Home(x.to) # Home(n)
  BY DEF Lone, Dropped
<1>5. e.from \notin Lone(u) /\ e.to \notin Lone(u)
  BY <1>1, <1>2, <1>3, <1>4
<1>6. Home(e.from) = Home(e.to) =>
        Home(e.from) \notin u.touched \/ e.from \notin LiveAfter(u) \/ e.to \notin LiveAfter(u)
  BY DEF KeptEdges
<1>7. d \in KeptEdges(u)
  BY <1>2, <1>3, <1>6 DEF KeptEdges
<1> QED
  BY <1>1, <1>5, <1>6, <1>7

\* What updateTiles makes of a map that is well formed is well formed, and says of
\* every cluster what its tiles say now.
LEMMA RebuildKeeps ==
  ASSUME MapInv, \A n \in nodes : n.made <= updates, updates \in Nat, updates < MaxUpdates,
         NEW u, u.reopened \subseteq Borders,
         \A p \in Pos : ClusterOf(p) \notin u.touched => u.tiles[p] = kind[p],
         Rebuild(u)
  PROVE  MapInv'
<1> USE DEF MapInv
<1> DEFINE k == u.tiles
           now == LiveAfter(u)
           both == BothWays(Crossings(u))
           keptEdges == KeptEdges(u)
           keptDistances == KeptDistances(u)
           D(a, b) == DistanceOf(k, a, b)
<1>1. /\ kind' = k /\ live' = now
      /\ nodes' = (nodes \ Lone(u)) \cup Made(u)
      /\ cached' = CachedAfter(u) /\ edges' = EdgesAfter(u)
  BY DEF Rebuild
<1>2. /\ nodes \subseteq Nodes /\ live \subseteq nodes /\ cached \subseteq Edges
      /\ edges \subseteq [from : nodes, to : nodes, cost : Nat]
  BY DEF GraphOK
<1>3. \A n \in Made(u) : n \in Nodes /\ n \notin nodes /\ Home(n) \in Refreshed(u)
  <2>1. \A n \in nodes : n.made \in Int /\ n.made # updates + 1
    BY <1>2 DEF Nodes
  <2> QED
    BY <2>1, MadeAre
<1>4. Lone(u) \subseteq Dropped(u) /\ now = (live \ Dropped(u)) \cup Made(u)
  BY DEF Lone, LiveAfter
<1>5. now \subseteq nodes' /\ nodes' \subseteq Nodes
  BY <1>1, <1>2, <1>3, <1>4
<1>6. \A n \in now : n \in nodes => n \in live /\ n \notin Lone(u)
  BY <1>3, <1>4
<1>7. \A n \in now : n \notin nodes => Home(n) \in Refreshed(u)
  BY <1>2, <1>3, <1>4
<1>8. \A m : m \in Mates(u) <=> /\ m \in now \X now /\ m[1] # m[2]
                                /\ Home(m[1]) = Home(m[2]) /\ Home(m[1]) \in Refreshed(u)
  BY DEF Mates
<1>9. u.touched \subseteq Refreshed(u)
  BY DEF Refreshed
<1>10. \A a, b : Home(a) \notin u.touched => DistanceOf(kind, a, b) = D(a, b)
  <2>1. ASSUME NEW a, NEW b, Home(a) \notin u.touched
        PROVE  DistanceOf(kind, a, b) = D(a, b)
    <3>1. \A p \in Pos : ClusterOf(p) = Home(a) => kind[p] = k[p]
      BY <2>1
    <3> QED
      BY <3>1, DistanceLocal
  <2> QED
    BY <2>1
<1>11. \A a, b : D(a, b) \in Nat \cup {NoPath}
  BY DistanceType DEF DistanceOf
<1>12. \A a, b : Home(a) = Home(b) => D(a, b) = D(b, a)
  BY DistanceBothWays
<1>13. \A a, b, c : Edge(a, b, c).from = a /\ Edge(a, b, c).to = b /\ Edge(a, b, c).cost = c
  BY DEF Edge
<1>14. \A e : e \in keptDistances <=> /\ e \in cached /\ Home(e.from) \notin u.touched
                                      /\ e.from \notin Lone(u) /\ e.to \notin Lone(u)
  BY DEF KeptDistances
<1>15. \A e \in keptDistances : /\ e.from \in nodes /\ e.to \in nodes
                                /\ Home(e.from) = Home(e.to)
                                /\ Edge(e.to, e.from, e.cost) \in keptDistances
  BY <1>13, <1>14 DEF CacheMatched
<1>16. \A es, a, b : Joins(es, <<a, b>>) <=> \E e \in es : e.from = a /\ e.to = b
  BY DEF Joins
<1>17. \A e : e \in cached' <=>
         \/ e \in keptDistances
         \/ \E m \in Mates(u) : ~ Joins(keptDistances, m) /\ e = Edge(m[1], m[2], D(m[1], m[2]))
  BY <1>1 DEF CachedAfter
<1>18. \A e : e \in edges' <=>
         \/ e \in keptEdges \/ e \in both
         \/ /\ e \in cached' /\ e.cost # NoPath /\ <<e.from, e.to>> \in Mates(u)
            /\ ~ Joins(keptEdges, <<e.from, e.to>>)
  BY <1>1 DEF EdgesAfter
<1>19. \A e \in both : /\ e.from \in nodes' /\ e.to \in nodes' /\ e.cost = 1
                       /\ e = Edge(e.from, e.to, 1) /\ Edge(e.to, e.from, 1) \in both
                       /\ Home(e.from) # Home(e.to) /\ e.from.of = e.to.of
  BY <1>1, MadeAre
<1>20. \A e \in keptEdges :
         /\ e \in edges /\ e.from \in nodes \ Lone(u) /\ e.to \in nodes \ Lone(u)
         /\ Edge(e.to, e.from, e.cost) \in keptEdges
         /\ Home(e.from) = Home(e.to) /\ e.from \in now /\ e.to \in now
              => Home(e.from) \notin u.touched
  BY KeptEdgesAre
<1>21. /\ Holds(edges, live, kind) /\ Holds(cached, live, kind) /\ Calculated(cached, live, kind)
       /\ EdgesMatched /\ CacheMatched
  BY DEF DistancesExact
<1>22. \A e \in edges : Home(e.from) = Home(e.to) /\ Home(e.from) \notin u.touched => e \in keptEdges
  BY DEF KeptEdges
<1>23. \A e \in edges : e = Edge(e.from, e.to, e.cost) /\ e.cost \in Nat
  BY <1>2 DEF Edge
<1>24. \A e \in cached : /\ e = Edge(e.from, e.to, e.cost) /\ e.cost \in Nat \cup {NoPath}
  BY <1>2 DEF Edge, Edges
<1> HIDE DEF k, now, both, keptEdges, keptDistances, D, MapInv
\* A new distance.
<1>25. ASSUME NEW e \in cached', e \notin keptDistances
       PROVE  /\ e.from \in now /\ e.to \in now /\ e.from # e.to /\ Home(e.from) = Home(e.to)
              /\ e.cost = D(e.from, e.to) /\ e = Edge(e.from, e.to, e.cost)
              /\ Edge(e.to, e.from, e.cost) \in cached'
  <2>1. PICK m \in Mates(u) : /\ ~ Joins(keptDistances, m)
                              /\ e = Edge(m[1], m[2], D(m[1], m[2]))
    BY <1>17, <1>25
  <2>2. /\ m = <<m[1], m[2]>> /\ m[1] \in now /\ m[2] \in now /\ m[1] # m[2]
        /\ Home(m[1]) = Home(m[2]) /\ Home(m[1]) \in Refreshed(u)
    BY <1>8
  <2>3. e.from = m[1] /\ e.to = m[2] /\ e.cost = D(m[1], m[2])
    BY <1>13, <2>1
  <2>4. <<m[2], m[1]>> \in Mates(u)
    BY <1>8, <2>2
  <2>5. ~ Joins(keptDistances, <<m[2], m[1]>>)
    <3>1. SUFFICES ASSUME NEW d \in keptDistances, d.from = m[2], d.to = m[1] PROVE FALSE
      BY <1>16
    <3>2. Edge(d.to, d.from, d.cost) \in keptDistances
      BY <1>15
    <3>3. Joins(keptDistances, <<m[1], m[2]>>)
      BY <1>13, <1>16, <3>1, <3>2
    <3> QED
      BY <2>1, <2>2, <3>3
  <2>6. Edge(m[2], m[1], D(m[2], m[1])) \in cached'
    BY <1>17, <2>4, <2>5
  <2> QED
    BY <1>12, <2>1, <2>2, <2>3, <2>6
\* A distance between nodes of a cluster is that of the tiles, old or new.
<1>26. ASSUME NEW e \in cached', e.from \in now, e.to \in now
       PROVE  e.from # e.to /\ e.cost = D(e.from, e.to) /\ e = Edge(e.from, e.to, e.cost)
  <2>1. CASE e \in keptDistances
    <3>1. e \in cached /\ Home(e.from) \notin u.touched /\ e.from \in nodes /\ e.to \in nodes
          /\ Home(e.from) = Home(e.to)
      BY <1>14, <1>15, <2>1
    <3>2. e.from \in live /\ e.to \in live
      BY <1>6, <1>26, <3>1
    <3>3. e.from # e.to /\ e.cost = DistanceOf(kind, e.from, e.to)
      BY <1>21, <3>1, <3>2 DEF Holds
    <3> QED
      BY <1>10, <1>24, <3>1, <3>3
  <2>2. CASE e \notin keptDistances
    BY <1>25, <2>2
  <2> QED
    BY <2>1, <2>2
\* Every pair has one.
<1>27. ASSUME NEW a \in now, NEW b \in now, a # b, Home(a) = Home(b)
       PROVE  Edge(a, b, D(a, b)) \in cached'
  <2>1. CASE Joins(keptDistances, <<a, b>>)
    <3>1. PICK e \in keptDistances : e.from = a /\ e.to = b
      BY <1>16, <2>1
    <3>2. e \in cached'
      BY <1>17
    <3> QED
      BY <1>26, <3>1, <3>2
  <2>2. CASE ~ Joins(keptDistances, <<a, b>>) /\ Home(a) \in Refreshed(u)
    <3>1. <<a, b>> \in Mates(u)
      BY <1>8, <1>27, <2>2
    <3> QED
      BY <1>17, <2>2, <3>1
  <2>3. CASE ~ Joins(keptDistances, <<a, b>>) /\ Home(a) \notin Refreshed(u)
    <3>1. a \in live /\ b \in live /\ a \notin Lone(u) /\ b \notin Lone(u) /\ Home(a) \notin u.touched
      BY <1>6, <1>7, <1>9, <1>27, <2>3
    <3>2. Edge(a, b, DistanceOf(kind, a, b)) \in cached
      BY <1>21, <1>27, <3>1 DEF Calculated
    <3>3. Edge(a, b, DistanceOf(kind, a, b)) \in keptDistances
      BY <1>13, <1>14, <3>1, <3>2
    <3> QED
      BY <1>13, <1>16, <2>3, <3>3
  <2> QED
    BY <2>1, <2>2, <2>3
\* An edge between nodes of a cluster is that of the tiles, old or new.
<1>28. ASSUME NEW e \in keptEdges, e.from \in now, e.to \in now, Home(e.from) = Home(e.to)
       PROVE  e.from # e.to /\ e.cost = D(e.from, e.to) /\ e = Edge(e.from, e.to, e.cost)
  <2>1. e \in edges /\ e.from \in nodes /\ e.to \in nodes /\ Home(e.from) \notin u.touched
    BY <1>20, <1>28
  <2>2. e.from \in live /\ e.to \in live
    BY <1>6, <1>28, <2>1
  <2>3. e.from # e.to /\ e.cost = DistanceOf(kind, e.from, e.to)
    BY <1>21, <1>28, <2>1, <2>2 DEF Holds
  <2> QED
    BY <1>10, <1>23, <2>1, <2>3
<1>29. ASSUME NEW a \in now, NEW b \in now, a # b, Home(a) = Home(b), D(a, b) # NoPath
       PROVE  Edge(a, b, D(a, b)) \in edges'
  <2>1. CASE Joins(keptEdges, <<a, b>>)
    <3>1. PICK e \in keptEdges : e.from = a /\ e.to = b
      BY <1>16, <2>1
    <3>2. e \in edges'
      BY <1>18
    <3> QED
      BY <1>28, <1>29, <3>1, <3>2
  <2>2. CASE ~ Joins(keptEdges, <<a, b>>) /\ Home(a) \in Refreshed(u)
    <3>1. <<a, b>> \in Mates(u)
      BY <1>8, <1>29, <2>2
    <3>2. Edge(a, b, D(a, b)) \in cached'
      BY <1>27, <1>29
    <3> QED
      BY <1>13, <1>18, <1>29, <2>2, <3>1, <3>2
  <2>3. CASE ~ Joins(keptEdges, <<a, b>>) /\ Home(a) \notin Refreshed(u)
    <3>1. a \in live /\ b \in live /\ Home(a) \notin u.touched
      BY <1>6, <1>7, <1>9, <1>29, <2>3
    <3>2. Edge(a, b, DistanceOf(kind, a, b)) \in edges
      BY <1>10, <1>21, <1>29, <3>1 DEF Holds
    <3>3. Edge(a, b, DistanceOf(kind, a, b)) \in keptEdges
      BY <1>13, <1>22, <1>29, <3>1, <3>2
    <3> QED
      BY <1>13, <1>16, <2>3, <3>3
  <2> QED
    BY <2>1, <2>2, <2>3
<1>30. DistancesExact'
  <2>1. Holds(edges', live', kind')
    <3>1. ASSUME NEW e \in edges', e.from \in now, e.to \in now, Home(e.from) = Home(e.to)
          PROVE  e.from # e.to /\ e.cost = D(e.from, e.to)
      <4>1. e \in keptEdges \/ e \in cached'
        BY <1>18, <1>19, <3>1
      <4> QED
        BY <1>26, <1>28, <3>1, <4>1
    <3> QED
      BY <1>1, <1>29, <3>1 DEF Holds, D
  <2>2. Holds(cached', live', kind') /\ Calculated(cached', live', kind')
    BY <1>1, <1>26, <1>27 DEF Holds, Calculated, D
  <2>3. \A e \in edges' : e.cost # NoPath
    <3>1. \A e \in keptEdges : e.cost \in Nat
      BY <1>20, <1>23
    <3>2. 1 # NoPath /\ \A c \in Nat : c # NoPath
      BY DEF NoPath
    <3>3. \A e \in edges' : e \in keptEdges \/ e \in both \/ e.cost # NoPath
      BY <1>18
    <3> QED
      BY <1>19, <3>1, <3>2, <3>3
  <2> QED
    BY <2>1, <2>2, <2>3 DEF DistancesExact
<1>31. CacheMatched'
  <2>1. ASSUME NEW e \in keptDistances
        PROVE  e.from \in nodes' /\ e.to \in nodes'
    BY <1>1, <1>14, <1>15
  <2>2. ASSUME NEW e \in cached'
        PROVE  /\ e.from \in nodes' /\ e.to \in nodes' /\ Home(e.from) = Home(e.to)
               /\ Edge(e.to, e.from, e.cost) \in cached'
    BY <1>5, <1>15, <1>17, <1>25, <2>1, <2>2
  <2> QED
    BY <2>2 DEF CacheMatched
<1>32. EdgesMatched'
  <2>1. ASSUME NEW e \in keptEdges
        PROVE  /\ Edge(e.to, e.from, e.cost) \in keptEdges
               /\ Home(e.from) # Home(e.to) => e.from.of = e.to.of
    BY <1>20, <1>21 DEF EdgesMatched
  <2>2. ASSUME NEW e \in edges', e \notin keptEdges, e \notin both
        PROVE  Home(e.from) = Home(e.to) /\ Edge(e.to, e.from, e.cost) \in edges'
    <3>1. /\ e \in cached' /\ e.cost # NoPath /\ <<e.from, e.to>> \in Mates(u)
          /\ ~ Joins(keptEdges, <<e.from, e.to>>)
      BY <1>18, <2>2
    <3>2. /\ <<e.to, e.from>> \in Mates(u) /\ Home(e.from) = Home(e.to)
      BY <1>8, <3>1
    <3>3. Edge(e.to, e.from, e.cost) \in cached'
      BY <1>31, <3>1 DEF CacheMatched
    <3>4. ~ Joins(keptEdges, <<e.to, e.from>>)
      BY <1>13, <1>16, <2>1, <3>1
    <3> QED
      BY <1>13, <1>18, <3>1, <3>2, <3>3, <3>4
  <2>3. \A e \in edges' : /\ Edge(e.to, e.from, e.cost) \in edges'
                          /\ Home(e.from) # Home(e.to) => e.from.of = e.to.of
    BY <1>18, <1>19, <2>1, <2>2
  <2> QED
    BY <2>3 DEF EdgesMatched
<1>33. GraphOK'
  <2>1. \A a, b \in Nodes, c \in Nat \cup {NoPath} : Edge(a, b, c) \in Edges
    BY DEF Edge, Edges
  <2>2. ASSUME NEW e \in cached' PROVE e = Edge(e.from, e.to, e.cost) /\ e.cost \in Nat \cup {NoPath}
    BY <1>11, <1>14, <1>24, <1>25, <2>2 DEF D
  <2>3. \A e \in cached' : e.from \in nodes' /\ e.to \in nodes'
    BY <1>31 DEF CacheMatched
  <2>4. ASSUME NEW e \in cached' PROVE e \in Edges
    <3>1. e.from \in Nodes /\ e.to \in Nodes
      BY <1>5, <2>3
    <3>2. Edge(e.from, e.to, e.cost) \in Edges
      BY <2>1, <2>2, <3>1
    <3> QED
      BY <2>2, <3>2
  <2>5. \A a, b \in nodes', c \in Nat : Edge(a, b, c) \in [from : nodes', to : nodes', cost : Nat]
    BY DEF Edge
  <2>6. ASSUME NEW e \in edges' PROVE e \in [from : nodes', to : nodes', cost : Nat]
    <3>1. CASE e \in keptEdges
      <4>1. e.from \in nodes' /\ e.to \in nodes'
        BY <1>1, <1>20, <3>1
      <4>2. e = Edge(e.from, e.to, e.cost) /\ e.cost \in Nat
        BY <1>20, <1>23, <3>1
      <4>3. Edge(e.from, e.to, e.cost) \in [from : nodes', to : nodes', cost : Nat]
        BY <2>5, <4>1, <4>2
      <4> QED
        BY <4>2, <4>3
    <3>2. CASE e \in both
      <4>1. e.from \in nodes' /\ e.to \in nodes' /\ e = Edge(e.from, e.to, 1)
        BY <1>19, <3>2
      <4>2. Edge(e.from, e.to, 1) \in [from : nodes', to : nodes', cost : Nat]
        BY <2>5, <4>1
      <4> QED
        BY <4>1, <4>2
    <3>3. CASE e \notin keptEdges /\ e \notin both
      <4>1. e \in cached' /\ e.cost # NoPath
        BY <1>18, <3>3
      <4>2. e = Edge(e.from, e.to, e.cost) /\ e.cost \in Nat
        BY <2>2, <4>1
      <4>3. Edge(e.from, e.to, e.cost) \in [from : nodes', to : nodes', cost : Nat]
        BY <2>3, <2>5, <4>1, <4>2
      <4> QED
        BY <4>2, <4>3
    <3> QED
      BY <3>1, <3>2, <3>3
  <2> QED
    BY <1>1, <1>5, <2>4, <2>6 DEF GraphOK
<1> QED
  BY <1>30, <1>31, <1>32, <1>33 DEF MapInv

-----------------------------------------------------------------------------
(* The steps *)

\* What a search adds has the node of the search at one end.
LEMMA SpokesTouch ==
  ASSUME NEW n, NEW e \in Spokes(n) PROVE e.from = n \/ e.to = n
<1>1. \A a, b, c : Edge(a, b, c).from = a /\ Edge(a, b, c).to = b
  BY DEF Edge
<1>2. PICK m \in live : \/ e = Edge(n, m, DistanceOf(kind, n, m))
                        \/ e = Edge(m, n, DistanceOf(kind, m, n))
  BY SpokesAre
<1> QED
  BY <1>1, <1>2

\* The nodes of a search are nodes, with names no entrance has.
LEMMA TempNodes ==
  ASSUME NEW p \in Pos
  PROVE  /\ StartNode(p) \in Nodes /\ StartNode(p).made = 0 /\ StartNode(p).of = Start
         /\ TargetNode(p) \in Nodes /\ TargetNode(p).made = 0 /\ TargetNode(p).of = Target
         /\ Temp(StartNode(p)) /\ Temp(TargetNode(p))
BY HpaAssumption DEF StartNode, TargetNode, Nodes, Temp

\* With a node of the search inserted, the rest of the map is what it was.
LEMMA InsertHides ==
  ASSUME MapInv, NEW n, Temp(n), Insert(n)
  PROVE  /\ {m \in nodes' : ~ Temp(m)} = {m \in nodes : ~ Temp(m)}
         /\ {m \in live' : ~ Temp(m)} = {m \in live : ~ Temp(m)}
         /\ {e \in edges' : ~ Temp(e.from) /\ ~ Temp(e.to)}
              = {e \in edges : ~ Temp(e.from) /\ ~ Temp(e.to)}
         /\ {e \in cached' : ~ Temp(e.from) /\ ~ Temp(e.to)}
              = {e \in cached : ~ Temp(e.from) /\ ~ Temp(e.to)}
BY SpokesTouch DEF Insert

\* The same when one is removed.
LEMMA RemoveHides ==
  ASSUME MapInv, NEW n, Temp(n), Remove(n)
  PROVE  /\ {m \in nodes' : ~ Temp(m)} = {m \in nodes : ~ Temp(m)}
         /\ {m \in live' : ~ Temp(m)} = {m \in live : ~ Temp(m)}
         /\ {e \in edges' : ~ Temp(e.from) /\ ~ Temp(e.to)}
              = {e \in edges : ~ Temp(e.from) /\ ~ Temp(e.to)}
         /\ {e \in cached' : ~ Temp(e.from) /\ ~ Temp(e.to)}
              = {e \in cached : ~ Temp(e.from) /\ ~ Temp(e.to)}
BY UnlinkedAre DEF Remove, MapInv

\* The empty map.
LEMMA InitInv == Init => IInv
<1> SUFFICES ASSUME Init PROVE IInv
  OBVIOUS
<1>1. TypeOK
  <2>1. kind \in [Pos -> Kinds]
    BY DEF Init, Kinds
  <2>2. before[1] = {} /\ before[2] = {} /\ before[3] = {} /\ before[4] = {}
    BY DEF Init
  <2>3. updates \in 0 .. MaxUpdates
    BY HpaAssumption DEF Init
  <2> QED
    BY <2>1, <2>2, <2>3 DEF Init, TypeOK
<1>2. EdgesMatched /\ CacheMatched /\ DistancesExact
  BY DEF Init, EdgesMatched, CacheMatched, DistancesExact, Holds, Calculated
<1>3. Named /\ Trace
  BY DEF Init, Named, Trace
<1> QED
  BY <1>1, <1>2, <1>3 DEF IInv, MapInv, GraphOK, TypeOK

\* updateTiles.
LEMMA UpdateInv ==
  ASSUME IInv, NEW obs \in Observations, Update(obs) PROVE IInv'
<1>1. /\ pc = "idle" /\ updates < MaxUpdates /\ updates' = updates + 1
      /\ UNCHANGED <<pc, from, to, found, before>>
      /\ obstructed' = (obstructed \/ \E p \in Changed(obs) : kind[p] \in Open)
  BY DEF Update
<1>2. PICK u \in {Batch(obs)} : Rebuild(u)
  BY DEF Update
<1>3. TypeOK /\ MapInv /\ Named /\ kind \in [Pos -> Kinds] /\ updates \in 0 .. MaxUpdates
  BY DEF IInv, TypeOK
<1>4. /\ u.tiles \in [Pos -> Kinds] /\ u.reopened \subseteq Borders
      /\ \A p \in Pos : ClusterOf(p) \notin u.touched => u.tiles[p] = kind[p]
  BY <1>2, <1>3, BatchIs
<1>5. updates \in Nat /\ updates + 1 \in 0 .. MaxUpdates /\ \A n \in nodes : n.made <= updates
  BY <1>1, <1>3, HpaAssumption DEF Named
<1>6. MapInv'
  BY <1>1, <1>2, <1>3, <1>4, <1>5, RebuildKeeps
<1>7. TypeOK'
  <2>1. kind' \in [Pos -> Kinds]
    BY <1>2, <1>4 DEF Rebuild
  <2>2. obstructed' \in BOOLEAN
    BY <1>1
  <2> QED
    BY <1>1, <1>3, <1>5, <1>6, <2>1, <2>2 DEF TypeOK, MapInv, GraphOK
<1>8. Named'
  <2>1. nodes' = (nodes \ Lone(u)) \cup Made(u)
    BY <1>2 DEF Rebuild
  <2>2. \A n \in nodes : ~ Temp(n) /\ n.made \in Nat
    <3>1. \A n \in nodes : n.made \in Nat
      BY <1>3 DEF TypeOK, Nodes
    <3> QED
      BY <1>1, <1>3, <3>1 DEF Named, Temps
  <2>3. \A n \in Made(u) : ~ Temp(n) /\ n.made = updates + 1
    BY <1>1, <1>4, <1>5, MadeAre, NamesAssumption DEF Temp
  <2>4. \A n \in nodes' : n.made <= updates + 1 /\ ~ Temp(n)
    BY <1>5, <2>1, <2>2, <2>3
  <2> QED
    BY <1>1, <2>4 DEF Named, Temp
<1>9. Trace'
  BY <1>1 DEF Trace
<1> QED
  BY <1>6, <1>7, <1>8, <1>9 DEF IInv

\* A search begins.
LEMMA BeginSearchInv ==
  ASSUME IInv, NEW p \in Pos, BeginSearch(p) PROVE IInv'
<1> DEFINE n == StartNode(p)
<1>1. /\ pc = "idle" /\ pc' = "started" /\ from' = p /\ before' = Map /\ Insert(n)
      /\ UNCHANGED <<kind, updates, to, found, obstructed>>
  BY DEF BeginSearch
<1>2. TypeOK /\ MapInv /\ Named
  BY DEF IInv
<1>3. \A m \in nodes : ~ Temp(m)
  BY <1>1, <1>2 DEF Named, Temps
<1>4. n \in Nodes /\ n.made = 0 /\ Temp(n) /\ n \notin nodes
  BY <1>3, TempNodes
<1> HIDE DEF n
<1>5. MapInv'
  BY <1>1, <1>2, <1>4, InsertKeeps
<1>6. TypeOK'
  <2>1. edges \subseteq Edges
    BY <1>2 DEF TypeOK, Edges
  <2> QED
    BY <1>1, <1>2, <1>5, <2>1 DEF TypeOK, MapInv, GraphOK, Map
<1>7. Named'
  <2>1. nodes' = nodes \cup {n}
    BY <1>1 DEF Insert
  <2>2. updates \in Nat
    BY <1>2, HpaAssumption DEF TypeOK
  <2>3. n \in Temps'
    BY <1>1 DEF Temps, n
  <2>4. \A m \in nodes' : m.made <= updates /\ (Temp(m) => m \in Temps')
    BY <1>2, <1>3, <1>4, <2>1, <2>2, <2>3 DEF Named
  <2> QED
    BY <1>1, <2>4 DEF Named, Temp
<1>8. Trace'
  <2>1. /\ nodes = {m \in nodes : ~ Temp(m)} /\ live = {m \in live : ~ Temp(m)}
        /\ edges = {e \in edges : ~ Temp(e.from) /\ ~ Temp(e.to)}
        /\ cached = {e \in cached : ~ Temp(e.from) /\ ~ Temp(e.to)}
    BY <1>2, <1>3 DEF MapInv, GraphOK, CacheMatched
  <2>2. /\ nodes = {m \in nodes' : ~ Temp(m)} /\ live = {m \in live' : ~ Temp(m)}
        /\ edges = {e \in edges' : ~ Temp(e.from) /\ ~ Temp(e.to)}
        /\ cached = {e \in cached' : ~ Temp(e.from) /\ ~ Temp(e.to)}
    BY <1>1, <1>2, <1>4, <2>1, InsertHides
  <2> QED
    BY <1>1, <2>2 DEF Trace, Map, Temp
<1> QED
  BY <1>5, <1>6, <1>7, <1>8 DEF IInv

\* A target is inserted.
LEMMA InsertTargetInv ==
  ASSUME IInv, NEW p \in Pos, InsertTarget(p) PROVE IInv'
<1> DEFINE n == TargetNode(p)
<1>1. /\ pc \in {"started", "answered"} /\ pc' = "inserted" /\ to' = p /\ Insert(n)
      /\ UNCHANGED <<kind, updates, from, found, before, obstructed>>
  BY DEF InsertTarget
<1>2. TypeOK /\ MapInv /\ Named /\ Trace
  BY DEF IInv
<1>3. \A m \in nodes : Temp(m) => m = StartNode(from)
  BY <1>1, <1>2 DEF Named, Temps
<1>4. n \in Nodes /\ n.made = 0 /\ n.of = Target /\ Temp(n)
  BY TempNodes
<1>5. n \notin nodes
  <2>1. from \in Pos
    BY <1>1, <1>2 DEF Named
  <2> QED
    BY <1>3, <1>4, <2>1, TempNodes, HpaAssumption
<1> HIDE DEF n
<1>6. MapInv'
  BY <1>1, <1>2, <1>4, <1>5, InsertKeeps
<1>7. TypeOK'
  BY <1>1, <1>2, <1>6 DEF TypeOK, MapInv, GraphOK
<1>8. Named'
  <2>1. nodes' = nodes \cup {n}
    BY <1>1 DEF Insert
  <2>2. updates \in Nat
    BY <1>2, HpaAssumption DEF TypeOK
  <2>3. n \in Temps' /\ StartNode(from) \in Temps'
    BY <1>1 DEF Temps, n, StartNode
  <2>4. \A m \in nodes' : m.made <= updates /\ (Temp(m) => m \in Temps')
    BY <1>2, <1>3, <1>4, <2>1, <2>2, <2>3 DEF Named
  <2>5. from \in Pos
    BY <1>1, <1>2 DEF Named
  <2> QED
    BY <1>1, <2>4, <2>5 DEF Named, Temp
<1>9. Trace'
  BY <1>1, <1>2, <1>4, InsertHides DEF Trace, Temp
<1> QED
  BY <1>6, <1>7, <1>8, <1>9 DEF IInv

\* A target is answered for, and removed.
LEMMA AnswerInv ==
  ASSUME IInv, Answer PROVE IInv'
<1> DEFINE n == TargetNode(to)
<1>1. /\ pc = "inserted" /\ pc' = "answered" /\ Remove(n)
      /\ UNCHANGED <<kind, updates, from, to, before, obstructed>>
  BY DEF Answer
<1>2. TypeOK /\ MapInv /\ Named /\ Trace
  BY DEF IInv
<1>3. found' \in BOOLEAN
  BY DEF Answer, Connected
<1>4. from \in Pos /\ to \in Pos
  BY <1>1, <1>2 DEF Named
<1>5. Temp(n)
  BY <1>4, TempNodes
<1>6. \A m \in nodes : Temp(m) => m = StartNode(from) \/ m = n
  BY <1>1, <1>2 DEF Named, Temps
<1> HIDE DEF n
<1>7. MapInv'
  BY <1>1, <1>2, RemoveKeeps
<1>8. TypeOK'
  BY <1>1, <1>2, <1>3, <1>7 DEF TypeOK, MapInv, GraphOK
<1>9. Named'
  <2>1. nodes' = nodes \ {n}
    BY <1>1 DEF Remove
  <2>2. StartNode(from) \in Temps'
    BY <1>1 DEF Temps, StartNode
  <2>3. \A m \in nodes' : m.made <= updates /\ (Temp(m) => m \in Temps')
    BY <1>2, <1>6, <2>1, <2>2 DEF Named
  <2> QED
    BY <1>1, <1>4, <2>3 DEF Named, Temp
<1>10. Trace'
  BY <1>1, <1>2, <1>5, RemoveHides DEF Trace, Temp
<1> QED
  BY <1>7, <1>8, <1>9, <1>10 DEF IInv

\* A search ends: the map is what it was when it began.
LEMMA EndSearchInv ==
  ASSUME IInv, EndSearch PROVE IInv' /\ Map' = before
<1> DEFINE n == StartNode(from)
<1>1. /\ pc \in {"started", "answered"} /\ pc' = "idle" /\ Remove(n)
      /\ from' = NoPlace /\ to' = NoPlace /\ found' = FALSE /\ before' = <<{}, {}, {}, {}>>
      /\ UNCHANGED <<kind, updates, obstructed>>
  BY DEF EndSearch
<1>2. TypeOK /\ MapInv /\ Named /\ Trace
  BY DEF IInv
<1>3. from \in Pos
  BY <1>1, <1>2 DEF Named
<1>4. Temp(n)
  BY <1>3, TempNodes
<1>5. \A m \in nodes : Temp(m) <=> m = n
  BY <1>1, <1>2, <1>4 DEF Named, Temps
<1> HIDE DEF n
<1>6. MapInv'
  BY <1>1, <1>2, RemoveKeeps
<1>7. TypeOK'
  <2>1. before'[1] = {} /\ before'[2] = {} /\ before'[3] = {} /\ before'[4] = {}
    BY <1>1
  <2> QED
    BY <1>1, <1>2, <1>6, <2>1 DEF TypeOK, MapInv, GraphOK
<1>8. nodes' = nodes \ {n}
  BY <1>1 DEF Remove
<1>9. Named'
  <2>1. \A m \in nodes' : m.made <= updates /\ ~ Temp(m)
    BY <1>2, <1>5, <1>8 DEF Named
  <2> QED
    BY <1>1, <2>1 DEF Named, Temp
<1>10. Trace'
  BY <1>1 DEF Trace
<1>11. Map' = before
  <2>1. /\ nodes' = {m \in nodes : ~ Temp(m)}
        /\ live' = {m \in live : ~ Temp(m)}
    BY <1>1, <1>2, <1>5 DEF Remove, MapInv, GraphOK
  <2>2. edges' = {e \in edges : ~ Temp(e.from) /\ ~ Temp(e.to)}
    <3>1. \A e \in edges : e.from \in nodes /\ e.to \in nodes
      BY <1>2 DEF MapInv, GraphOK
    <3>2. edges' = {e \in edges : e.from # n /\ e.to # n}
      BY <1>1, <1>2, UnlinkedAre DEF Remove, MapInv
    <3> QED
      BY <1>5, <3>1, <3>2
  <2>3. cached' = {e \in cached : ~ Temp(e.from) /\ ~ Temp(e.to)}
    <3>1. \A e \in cached : e.from \in nodes /\ e.to \in nodes
      BY <1>2 DEF MapInv, CacheMatched
    <3> QED
      BY <1>1, <1>5, <3>1 DEF Remove
  <2>4. before = <<{m \in nodes : ~ Temp(m)}, {m \in live : ~ Temp(m)},
                   {e \in edges : ~ Temp(e.from) /\ ~ Temp(e.to)},
                   {e \in cached : ~ Temp(e.from) /\ ~ Temp(e.to)}>>
    BY <1>1, <1>2 DEF Trace
  <2> QED
    BY <2>1, <2>2, <2>3, <2>4 DEF Map
<1> QED
  BY <1>6, <1>7, <1>9, <1>10, <1>11 DEF IInv

\* Nothing happens.
LEMMA StutterInv ==
  ASSUME IInv, UNCHANGED vars PROVE IInv'
<1> USE DEF vars
<1>1. TypeOK' /\ GraphOK'
  BY DEF IInv, TypeOK, MapInv, GraphOK
<1>2. EdgesMatched' /\ CacheMatched'
  BY DEF IInv, MapInv, EdgesMatched, CacheMatched
<1>3. DistancesExact'
  BY DEF IInv, MapInv, DistancesExact, Holds, Calculated
<1>4. Named' /\ Trace'
  BY DEF IInv, Named, Trace, Temps, Temp
<1> QED
  BY <1>1, <1>2, <1>3, <1>4 DEF IInv, MapInv

\* Every step keeps the invariant.
LEMMA NextInv ==
  ASSUME IInv, [Next]_vars PROVE IInv'
<1>1. Places \subseteq Pos
  BY HpaAssumption
<1> QED
  BY <1>1, UpdateInv, BeginSearchInv, InsertTargetInv, AnswerInv, EndSearchInv, StutterInv DEF Next

-----------------------------------------------------------------------------
(* Theorems *)

\* The variables keep their types; edges join nodes that are in the graph.
THEOREM HpaTypeCorrect == Spec => []TypeOK
<1>1. IInv => TypeOK
  BY DEF IInv
<1> QED
  BY InitInv, NextInv, <1>1, PTL DEF Spec

\* Every edge can be walked back: what the removal of a node relies on.
THEOREM EdgesGoBothWays == Spec => []EdgesMatched
<1>1. IInv => EdgesMatched
  BY DEF IInv, MapInv
<1> QED
  BY InitInv, NextInv, <1>1, PTL DEF Spec

\* Pair by pair, the graph and the cache say what the tiles say.
LEMMA ExactByPairs == MapInv => EntrancesExact
<1> SUFFICES ASSUME MapInv PROVE EntrancesExact
  OBVIOUS
<1> DEFINE couples == {m \in live \X live : m[1] # m[2] /\ Home(m[1]) = Home(m[2])}
           D(a, b) == DistanceOf(kind, a, b)
           exact == {Edge(m[1], m[2], D(m[1], m[2])) : m \in couples}
           Within(es) == {e \in es : e.from \in live /\ e.to \in live /\ Home(e.from) = Home(e.to)}
<1>1. \A a, b, c : Edge(a, b, c).from = a /\ Edge(a, b, c).to = b /\ Edge(a, b, c).cost = c
  BY DEF Edge
<1>2. /\ Holds(edges, live, kind) /\ Holds(cached, live, kind) /\ Calculated(cached, live, kind)
      /\ \A e \in edges : e.cost # NoPath
  BY DEF MapInv, DistancesExact
<1>3. /\ \A e \in edges : e = Edge(e.from, e.to, e.cost)
      /\ \A e \in cached : e = Edge(e.from, e.to, e.cost)
  BY DEF MapInv, GraphOK, Edges, Edge
<1>4. ASSUME NEW e, e = Edge(e.from, e.to, e.cost), e.from \in live, e.to \in live,
             e.from # e.to, Home(e.from) = Home(e.to), e.cost = D(e.from, e.to)
      PROVE  e \in exact
  <2>1. <<e.from, e.to>> \in couples
    BY <1>4
  <2>2. e = Edge(<<e.from, e.to>>[1], <<e.from, e.to>>[2], D(<<e.from, e.to>>[1], <<e.from, e.to>>[2]))
    BY <1>4
  <2> QED
    BY <2>1, <2>2
<1>5. ASSUME NEW e \in exact
      PROVE  \E a, b \in live : a # b /\ Home(a) = Home(b) /\ e = Edge(a, b, D(a, b))
  OBVIOUS
<1> HIDE DEF exact, D
<1>6. Within(cached) = exact
  <2>1. ASSUME NEW e \in Within(cached) PROVE e \in exact
    BY <1>2, <1>3, <1>4 DEF Holds, D
  <2>2. ASSUME NEW e \in exact PROVE e \in Within(cached)
    BY <1>1, <1>2, <1>5 DEF Calculated, D
  <2> QED
    BY <2>1, <2>2
<1>7. Within(edges) = {e \in exact : e.cost # NoPath}
  <2>1. ASSUME NEW e \in Within(edges) PROVE e \in exact /\ e.cost # NoPath
    BY <1>2, <1>3, <1>4 DEF Holds, D
  <2>2. ASSUME NEW e \in exact, e.cost # NoPath PROVE e \in Within(edges)
    BY <1>1, <1>2, <1>5, <2>2 DEF Holds, D
  <2> QED
    BY <2>1, <2>2
<1> QED
  BY <1>6, <1>7 DEF EntrancesExact, exact, D

\* Whatever opens and closes, on every level and for every cluster size: nodes of
\* one cluster are joined exactly when the tiles join them, at the cost of the
\* shortest way.
THEOREM HpaEntrancesExact == Spec => []EntrancesExact
<1>1. IInv => EntrancesExact
  BY ExactByPairs DEF IInv
<1> QED
  BY InitInv, NextInv, <1>1, PTL DEF Spec

\* Every search leaves the map as it found it.
THEOREM SearchesLeaveNoTrace == Spec => SearchLeavesNoTrace
<1>1. ASSUME IInv, [Next]_vars
      PROVE  [pc # "idle" /\ pc' = "idle" => Map' = before]_vars
  <2>1. SUFFICES ASSUME Next, pc # "idle", pc' = "idle" PROVE Map' = before
    BY <1>1
  <2>2. EndSearch
    BY <2>1 DEF Next, Update, BeginSearch, InsertTarget, Answer
  <2> QED
    BY <1>1, <2>2, EndSearchInv
<1> QED
  BY InitInv, NextInv, <1>1, PTL DEF Spec, SearchLeavesNoTrace
=============================================================================
