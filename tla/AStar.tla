------------------------------- MODULE AStar -------------------------------
(***************************************************************************)
(* The search of agent/navigation/hpastar/search/AStar.java, with its      *)
(* NodeLookup and AStarNode, over any map that has edges with costs and a  *)
(* heuristic (ConcreteMap and HierarchicalMap in the repository).          *)
(*                                                                         *)
(* Ids are compared by value (equals) everywhere but in the loop that      *)
(* reconstructs the path, which compares references.  An Id object is      *)
(* modelled as <<value, holder>>, where holder is the node whose edge      *)
(* holds the object; the object of the caller is <<Start, Start>>.         *)
(*                                                                         *)
(* The neighbours of a node have different values, so the order in which   *)
(* its edges are visited makes no difference and an expansion is one step. *)
(* Which of several entries of the lowest priority the queue gives first   *)
(* is left open.                                                           *)
(***************************************************************************)
EXTENDS Integers, Sequences, FiniteSets

CONSTANTS
  Nodes,
  Start, Target,  \* the nodes of the search
  Graphs,         \* the maps: functions from edges <<from, to>> to costs
  Heuristics      \* the heuristics: functions from nodes to estimates

ASSUME AStarAssumption ==
  /\ IsFiniteSet(Nodes) /\ Start \in Nodes /\ Target \in Nodes
  /\ \A cost \in Graphs : /\ DOMAIN cost \subseteq Nodes \X Nodes
                          /\ \A e \in DOMAIN cost : cost[e] \in Nat
                          /\ cost \in [DOMAIN cost -> Nat]
  /\ Heuristics \subseteq [Nodes -> Nat]

VARIABLES
  cost,     \* the map of this search
  h,        \* its heuristic
  pc,       \* "search", "walk", "found" or "null"
  status,   \* CellStatus of each node, "none" for one that is not in the lookup
  g,        \* AStarNode.g of each node
  parent,   \* AStarNode.parent: an Id object
  queue,    \* openQueue: entries [item, priority]
  at,       \* currentNode of reconstructPathFrom
  path      \* pathNodes, in the order of the result

vars == <<cost, h, pc, status, g, parent, queue, at, path>>

Edges  == DOMAIN cost
Ids    == Nodes \X Nodes
f(n)   == g[n] + h[n]
Entry(item, priority) == [item |-> item, priority |-> priority]
Origin == <<Start, Start>>

\* The constructor: the start is open, at cost 0, and its own parent.
Init ==
  /\ cost \in Graphs /\ h \in Heuristics
  /\ pc = "search"
  /\ status = [n \in Nodes |-> IF n = Start THEN "Open" ELSE "none"]
  /\ g = [n \in Nodes |-> 0]
  /\ parent = [n \in Nodes |-> Origin]
  /\ queue = {Entry(Origin, h[Start])}
  /\ at = Origin /\ path = <<>>

\* An entry of the lowest priority.
First(e) == e \in queue /\ \A d \in queue : e.priority <= d.priority

\* (mutant) A node is never taken over once it is open.
ImprovesUnseen(n, m) ==
  /\ <<n, m>> \in Edges
  /\ status[m] = "none"

\* (mutant) Closed nodes are not left out.
ImprovesClosed(n, m) ==
  /\ <<n, m>> \in Edges
  /\ status[m] = "none" \/ g[n] + cost[<<n, m>>] < g[m]

\* n leads to m at a lower cost than what is known, or for the first time.
Improves(n, m) ==
  /\ <<n, m>> \in Edges
  /\ \/ status[m] = "none"
     \/ status[m] = "Open" /\ g[n] + cost[<<n, m>>] < g[m]

\* (mutant) The entry of a node that is found again is not taken out.
EnqueuedTwice(n, e) ==
  (queue \ {e})
    \cup {Entry(<<m, n>>, g[n] + cost[<<n, m>>] + h[m]) :
            m \in {k \in Nodes : Improves(n, k)}}

\* (mutant) expand looks at the first entry and leaves it in the queue.
EnqueuedByPeek(n, e) ==
  queue \cup {Entry(<<m, n>>, g[n] + cost[<<n, m>>] + h[m]) :
                m \in {k \in Nodes : Improves(n, k)}}

\* The queue after n's entry e has been taken and its neighbours processed: a
\* node that is found again keeps the Id object of its entry.
Enqueued(n, e) ==
  LET better == {m \in Nodes : Improves(n, m)}
      old(m) == {d \in queue : d.item[1] = m}
      priority(m) == g[n] + cost[<<n, m>>] + h[m]
  IN  (queue \ ({e} \cup UNION {old(m) : m \in better}))
        \cup {Entry(<<m, n>>, priority(m)) :
                m \in {k \in better : status[k] = "none"}}
        \cup UNION {{Entry(d.item, priority(m)) : d \in old(m)} :
                      m \in {k \in better : status[k] # "none"}}

\* expand, and the test of findPath that follows it.
Expand ==
  /\ pc = "search"
  /\ \E e \in queue :
       LET n == e.item[1]
       IN  /\ First(e)
           /\ status' = [m \in Nodes |-> IF m = n THEN "Closed"
                                         ELSE IF Improves(n, m) THEN "Open"
                                         ELSE status[m]]
           /\ g' = [m \in Nodes |-> IF m # n /\ Improves(n, m)
                                    THEN g[n] + cost[<<n, m>>] ELSE g[m]]
           /\ parent' = [m \in Nodes |-> IF m # n /\ Improves(n, m)
                                         THEN e.item ELSE parent[m]]
           /\ queue' = IF n = Target THEN {} ELSE Enqueued(n, e)
           /\ pc' = IF n = Target THEN "walk" ELSE "search"
           /\ at' = e.item
  /\ UNCHANGED <<cost, h, path>>

\* (mutant) canExpand wants more than one entry.
GiveUpEarly ==
  /\ pc = "search" /\ Cardinality(queue) <= 1
  /\ pc' = "null"
  /\ UNCHANGED <<cost, h, status, g, parent, queue, at, path>>

\* findPath returns null.
GiveUp ==
  /\ pc = "search" /\ queue = {}
  /\ pc' = "null"
  /\ UNCHANGED <<cost, h, status, g, parent, queue, at, path>>

\* (mutant) The walk ends before it has added the start.
WalkWithoutStart ==
  /\ pc = "walk"
  /\ IF parent[at[1]] # at
     THEN at' = parent[at[1]] /\ path' = <<at[1]>> \o path /\ UNCHANGED pc
     ELSE pc' = "found" /\ UNCHANGED <<at, path>>
  /\ UNCHANGED <<cost, h, status, g, parent, queue>>

\* (mutant) The walk collects Id objects instead of nodes.
WalkOverIds ==
  /\ pc = "walk"
  /\ path' = <<at>> \o path
  /\ IF parent[at[1]] # at
     THEN at' = parent[at[1]] /\ UNCHANGED pc
     ELSE pc' = "found" /\ UNCHANGED at
  /\ UNCHANGED <<cost, h, status, g, parent, queue>>

\* One iteration of reconstructPathFrom, which ends at an object that is its
\* own parent.
Walk ==
  /\ pc = "walk"
  /\ path' = <<at[1]>> \o path
  /\ IF parent[at[1]] # at
     THEN at' = parent[at[1]] /\ UNCHANGED pc
     ELSE pc' = "found" /\ UNCHANGED at
  /\ UNCHANGED <<cost, h, status, g, parent, queue>>

Done == pc \in {"found", "null"} /\ UNCHANGED vars

Next == Expand \/ GiveUp \/ Walk \/ Done
Spec == Init /\ [][Next]_vars
FairSpec == Spec /\ WF_vars(Next)

-----------------------------------------------------------------------------
(* Properties.                                                             *)

\* Every variable has its type.
TypeOK ==
  /\ cost \in Graphs /\ h \in Heuristics
  /\ pc \in {"search", "walk", "found", "null"}
  /\ status \in [Nodes -> {"none", "Open", "Closed"}]
  /\ g \in [Nodes -> Nat] /\ parent \in [Nodes -> Ids]
  /\ queue \subseteq [item : Ids, priority : Nat]
  /\ at \in Ids /\ path \in Seq(Nodes)

\* While the search goes on, the queue holds one entry of each open node, with
\* its current f as priority, and no other: processNeighbours asserts that it
\* finds one entry to replace, and a stale priority would reorder the search.
QueueIsOpenSet ==
  pc = "search" =>
    /\ \A e \in queue : status[e.item[1]] = "Open" /\ e.priority = f(e.item[1])
    /\ \A d, e \in queue : d.item[1] = e.item[1] => d = e
    /\ \A n \in Nodes : status[n] = "Open" => \E e \in queue : e.item[1] = n

\* What the lookup says of a node comes from its parent: an edge leads from the
\* parent, which is closed, and the node's cost is the parent's and the edge's.
ParentsLead ==
  \A n \in Nodes \ {Start} : status[n] # "none" =>
    LET p == parent[n][1]
    IN  status[p] = "Closed" /\ <<p, n>> \in Edges /\ g[n] = g[p] + cost[<<p, n>>]

\* Every neighbour of a closed node is known.
ClosedIsExpanded ==
  \A e \in Edges : status[e[1]] = "Closed" => status[e[2]] # "none"

\* Some way leads to the target: it is in every set of nodes that holds the
\* start and, with a node, its neighbours.
Reachable ==
  \A S \in SUBSET Nodes :
    (Start \in S /\ \A e \in Edges : e[1] \in S => e[2] \in S) => Target \in S

\* null is returned when, and only when, no path leads to the target.
NullMeansUnreachable == /\ pc = "null" => ~Reachable
                        /\ pc \in {"walk", "found"} => Reachable

\* The cost of reaching a node in at most k edges, NoWay if there is no such
\* path; the reference for the search.
NoWay == -1
Least(S) == CHOOSE x \in S : \A y \in S : x <= y
OneMore(d) ==
  [n \in Nodes |->
     LET via == {d[e[1]] + cost[e] : e \in {x \in Edges : x[2] = n /\ d[x[1]] # NoWay}}
         all == via \cup ({d[n]} \ {NoWay})
     IN  IF all = {} THEN NoWay ELSE Least(all)]
Distance ==
  LET d[k \in 0..Cardinality(Nodes)] ==
        IF k = 0 THEN [n \in Nodes |-> IF n = Start THEN 0 ELSE NoWay]
        ELSE OneMore(d[k - 1])
  IN  d[Cardinality(Nodes)]

\* The path that is returned is a path of the map from the start to the target,
\* of the cost the lookup has for the target.
PathIsReal ==
  pc = "found" =>
    /\ path[1] = Start /\ path[Len(path)] = Target
    /\ \A i \in 1..(Len(path) - 1) :
         /\ <<path[i], path[i + 1]>> \in Edges
         /\ g[path[i + 1]] = g[path[i]] + cost[<<path[i], path[i + 1]>>]

\* With a consistent heuristic the path is the cheapest, and pathCost, the f of
\* the target, is its cost.
Consistent == /\ h[Target] = 0
              /\ \A e \in Edges : h[e[1]] <= cost[e] + h[e[2]]
PathIsCheapest ==
  pc = "found" /\ Consistent => f(Target) = Distance[Target]

\* How much is left to do, at most: to expand the nodes that are not closed, and
\* to walk over as many nodes as there are.
ClosedSet == {n \in Nodes : status[n] = "Closed"}
WorkLeft ==
  LET all == Cardinality(Nodes)
  IN  CASE pc = "search" -> 2 * all - Cardinality(ClosedSet) + 1
        [] pc = "walk" -> all - Len(path) + 1
        [] OTHER -> 0

\* Every step leaves less to do: no node is expanded twice, whatever the heuristic,
\* and the walk along the parents, for which the source wishes a safety guard
\* (AStar.java:98), never meets a node again.
WorkGetsLess == [][WorkLeft' < WorkLeft /\ WorkLeft' \in Nat]_vars

\* The search ends, and so does the walk.
SearchEnds == <>(pc \in {"found", "null"})
=============================================================================
