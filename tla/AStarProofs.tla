----------------------------- MODULE AStarProofs -----------------------------
(***************************************************************************)
(* Safety of AStar for every finite map with costs from the naturals and   *)
(* every heuristic: the queue is the open set, null is returned exactly    *)
(* when the target cannot be reached, and a path that is returned exists;  *)
(* with a consistent heuristic it is a cheapest one (the last part).       *)
(***************************************************************************)
EXTENDS AStar, SequenceTheorems, FiniteSetTheorems, WellFoundedInduction, TLAPS

\* A cost of the map is a natural number.
LEMMA CostIsNat ==
  ASSUME cost \in Graphs, NEW n \in Nodes, NEW m \in Nodes, <<n, m>> \in Edges
  PROVE  cost[<<n, m>>] \in Nat
  BY AStarAssumption DEF Edges

\* What the types say of an entry, and of the node it stands for.
LEMMA EntryTypes ==
  ASSUME TypeOK, NEW e \in queue
  PROVE  /\ e.item \in Ids /\ e.item[1] \in Nodes /\ e.item[2] \in Nodes
         /\ e.priority \in Nat /\ e = Entry(e.item, e.priority)
  BY DEF TypeOK, Ids, Entry

\* The priorities that Enqueued computes are natural numbers.
LEMMA NewPriority ==
  ASSUME TypeOK, NEW n \in Nodes, NEW m \in Nodes, Improves(n, m)
  PROVE  g[n] + cost[<<n, m>>] + h[m] \in Nat /\ g[n] + cost[<<n, m>>] \in Nat
<1>1. cost[<<n, m>>] \in Nat
  BY CostIsNat DEF TypeOK, Improves
<1>2. h[m] \in Nat
  BY AStarAssumption DEF TypeOK
<1>3. g[n] \in Nat
  BY DEF TypeOK
<1> QED
  BY <1>1, <1>2, <1>3

\* d is the entry that the expansion of n makes for m: with the Id object of the
\* edge, or with that of m's old entry.
Renewed(n, m, d) ==
  /\ Improves(n, m) /\ d.item[1] = m /\ d.item \in Ids
  /\ d.priority = g[n] + cost[<<n, m>>] + h[m]
  /\ \/ status[m] = "none" /\ d.item = <<m, n>>
     \/ status[m] # "none" /\ \E c \in queue : d.item = c.item

\* An entry of the new queue is an old one that stays, or a renewed one.
LEMMA InEnqueued ==
  ASSUME TypeOK, NEW e \in queue, NEW n, n = e.item[1], NEW d \in Enqueued(n, e)
  PROVE  \/ d \in queue /\ d # e /\ ~Improves(n, d.item[1])
         \/ \E m \in Nodes : Renewed(n, m, d)
<1> DEFINE better == {m \in Nodes : Improves(n, m)}
           old(m) == {c \in queue : c.item[1] = m}
           priority(m) == g[n] + cost[<<n, m>>] + h[m]
<1>1. CASE d \in queue \ ({e} \cup UNION {old(m) : m \in better})
  <2>1. d \in queue /\ d # e /\ d.item[1] \in Nodes
    BY <1>1, EntryTypes
  <2>2. d.item[1] \notin better
    BY <1>1, <2>1
  <2> QED
    BY <2>1, <2>2
<1>2. CASE d \in {Entry(<<m, n>>, priority(m)) : m \in {k \in better : status[k] = "none"}}
  <2>1. PICK m \in better : status[m] = "none" /\ d = Entry(<<m, n>>, priority(m))
    BY <1>2
  <2>2. d.item = <<m, n>> /\ d.priority = priority(m) /\ m \in Nodes /\ n \in Nodes
    BY <2>1, EntryTypes DEF Entry
  <2>3. Improves(n, m) /\ status[m] = "none"
    BY <2>1
  <2>4. d.item[1] = m /\ d.item \in Ids
    BY <2>2 DEF Ids
  <2> QED
    BY <2>2, <2>3, <2>4 DEF Renewed
<1>3. CASE d \in UNION {{Entry(c.item, priority(m)) : c \in old(m)} :
                          m \in {k \in better : status[k] # "none"}}
  <2>1. PICK m \in better : /\ status[m] # "none"
                            /\ d \in {Entry(c.item, priority(m)) : c \in old(m)}
    BY <1>3
  <2>2. PICK c \in old(m) : d = Entry(c.item, priority(m))
    BY <2>1
  <2>3. d.item = c.item /\ d.priority = priority(m) /\ c.item \in Ids /\ c.item[1] = m
    BY <2>2, EntryTypes DEF Entry
  <2> QED
    BY <2>1, <2>2, <2>3 DEF Renewed
<1> QED
  BY <1>1, <1>2, <1>3 DEF Enqueued

\* Conversely, what becomes better has an entry, and what does not keeps it.
LEMMA EnqueuedHas ==
  ASSUME TypeOK, NEW e \in queue, NEW n, n = e.item[1]
  PROVE  /\ \A d \in queue : d # e /\ ~Improves(n, d.item[1]) => d \in Enqueued(n, e)
         /\ \A m \in Nodes :
              /\ Improves(n, m)
              /\ status[m] = "none" \/ \E c \in queue : c.item[1] = m
              => \E d \in Enqueued(n, e) : d.item[1] = m
<1> DEFINE better == {m \in Nodes : Improves(n, m)}
           old(m) == {c \in queue : c.item[1] = m}
           priority(m) == g[n] + cost[<<n, m>>] + h[m]
<1>1. ASSUME NEW d \in queue, d # e, ~Improves(n, d.item[1])
      PROVE  d \in Enqueued(n, e)
  <2>1. d \in queue \ ({e} \cup UNION {old(m) : m \in better})
    BY <1>1
  <2> QED
    BY <2>1 DEF Enqueued
<1>2. ASSUME NEW m \in Nodes, Improves(n, m), status[m] = "none"
      PROVE  \E d \in Enqueued(n, e) : d.item[1] = m
  <2>1. Entry(<<m, n>>, priority(m))
          \in {Entry(<<k, n>>, priority(k)) : k \in {j \in better : status[j] = "none"}}
    BY <1>2
  <2>2. Entry(<<m, n>>, priority(m)) \in Enqueued(n, e)
    BY <2>1 DEF Enqueued
  <2>3. Entry(<<m, n>>, priority(m)).item[1] = m
    BY DEF Entry
  <2> QED
    BY <2>2, <2>3
<1>3. ASSUME NEW m \in Nodes, Improves(n, m), status[m] # "none",
             NEW c \in queue, c.item[1] = m
      PROVE  \E d \in Enqueued(n, e) : d.item[1] = m
  <2>1. Entry(c.item, priority(m)) \in {Entry(b.item, priority(m)) : b \in old(m)}
    BY <1>3
  <2>2. Entry(c.item, priority(m))
          \in UNION {{Entry(b.item, priority(k)) : b \in old(k)} :
                       k \in {j \in better : status[j] # "none"}}
    BY <1>3, <2>1
  <2>3. Entry(c.item, priority(m)) \in Enqueued(n, e)
    BY <2>2 DEF Enqueued
  <2>4. Entry(c.item, priority(m)).item[1] = m
    BY <1>3 DEF Entry
  <2> QED
    BY <2>3, <2>4
<1> QED
  BY <1>1, <1>2, <1>3

\* An expansion, for the entry that it takes.
Expansion(e) ==
  LET n == e.item[1]
  IN  /\ First(e)
      /\ status' = [m \in Nodes |-> IF m = n THEN "Closed"
                                    ELSE IF Improves(n, m) THEN "Open"
                                    ELSE status[m]]
      /\ g' = [m \in Nodes |-> IF m # n /\ Improves(n, m)
                               THEN g[n] + cost[<<n, m>>] ELSE g[m]]
      /\ parent' = [m \in Nodes |-> IF m # n /\ Improves(n, m)
                                    THEN e.item ELSE parent[m]]
      /\ queue' = IF n = Target THEN {} ELSE Enqueued(n, e)
      /\ pc' = IF n = Target THEN "walk" ELSE "search"
      /\ at' = e.item

\* An expansion is one of an entry of the queue.
LEMMA ExpandPicks ==
  ASSUME Expand
  PROVE  /\ pc = "search" /\ UNCHANGED <<cost, h, path>>
         /\ \E e \in queue : Expansion(e)
  BY DEF Expand, Expansion

-----------------------------------------------------------------------------
\* Every step keeps the types.
LEMMA TypeStep == TypeOK /\ [Next]_vars => TypeOK'
<1> SUFFICES ASSUME TypeOK, [Next]_vars PROVE TypeOK'
  OBVIOUS
<1>1. CASE Expand
  <2>1. PICK e \in queue : Expansion(e)
    BY <1>1, ExpandPicks
  <2> DEFINE n == e.item[1]
  <2>2. n \in Nodes /\ e.item \in Ids
    BY EntryTypes
  <2>3. UNCHANGED <<cost, h, path>>
    BY <1>1, ExpandPicks
  <2>4. status' \in [Nodes -> {"none", "Open", "Closed"}] /\ pc' \in {"walk", "search"}
    BY <2>1 DEF Expansion, TypeOK
  <2>5. g' \in [Nodes -> Nat]
    BY <2>1, <2>2, NewPriority DEF Expansion, TypeOK
  <2>6. parent' \in [Nodes -> Ids] /\ at' \in Ids
    BY <2>1, <2>2 DEF Expansion, TypeOK
  <2>7. ASSUME NEW d \in Enqueued(n, e) PROVE d \in [item : Ids, priority : Nat]
    <3>1. CASE d \in queue
      BY <3>1 DEF TypeOK
    <3>2. CASE d \notin queue
      <4>1. PICK m \in Nodes : Renewed(n, m, d)
        BY <3>2, InEnqueued, Zenon
      <4>2. d.priority \in Nat /\ d.item \in Ids
        BY <4>1, <2>2, NewPriority DEF Renewed
      <4>3. \E x, y : d = Entry(x, y)
        BY <3>2 DEF Enqueued
      <4> QED
        BY <4>2, <4>3 DEF Entry
    <3> QED
      BY <3>1, <3>2
  <2>8. queue' \subseteq [item : Ids, priority : Nat]
    BY <2>1, <2>7 DEF Expansion
  <2> QED
    BY <2>3, <2>4, <2>5, <2>6, <2>8 DEF TypeOK
<1>2. CASE GiveUp
  BY <1>2 DEF GiveUp, TypeOK
<1>3. CASE Walk
  <2>1. at[1] \in Nodes
    BY DEF TypeOK, Ids
  <2>2. <<at[1]>> \in Seq(Nodes)
    BY <2>1
  <2>3. path' \in Seq(Nodes)
    BY <1>3, <2>2, ConcatProperties DEF Walk, TypeOK
  <2>4. at' \in Ids /\ pc' \in {"walk", "found"}
    BY <1>3, <2>1 DEF Walk, TypeOK
  <2> QED
    BY <1>3, <2>3, <2>4 DEF Walk, TypeOK
<1>4. CASE UNCHANGED vars
  BY <1>4 DEF vars, TypeOK
<1> QED
  BY <1>1, <1>2, <1>3, <1>4 DEF Next, Done

\* Every variable of the search keeps its type in every behaviour.
THEOREM SearchTyping == Spec => []TypeOK
<1>1. Init => TypeOK
  BY AStarAssumption, EmptySeq DEF Init, TypeOK, Ids, Origin, Entry
<1> QED
  BY <1>1, TypeStep, PTL DEF Spec

-----------------------------------------------------------------------------
\* What an expansion does to each node.
LEMMA ExpandFacts ==
  ASSUME TypeOK, QueueIsOpenSet, Expand, NEW e \in queue, Expansion(e),
         NEW n, n = e.item[1]
  PROVE  /\ n \in Nodes /\ status[n] = "Open" /\ ~Improves(n, n)
         /\ status'[n] = "Closed" /\ g'[n] = g[n] /\ parent'[n] = parent[n]
         /\ \A m \in Nodes : Improves(n, m) =>
              /\ m # n /\ <<n, m>> \in Edges /\ status[m] # "Closed"
              /\ status'[m] = "Open" /\ parent'[m] = e.item
              /\ g'[m] = g[n] + cost[<<n, m>>]
         /\ \A m \in Nodes : m # n /\ ~Improves(n, m) =>
              status'[m] = status[m] /\ g'[m] = g[m] /\ parent'[m] = parent[m]
<1>1. n \in Nodes /\ status[n] = "Open"
  BY EntryTypes, ExpandPicks DEF QueueIsOpenSet
<1>2. ~Improves(n, n)
  <2>1. SUFFICES ASSUME <<n, n>> \in Edges PROVE ~(g[n] + cost[<<n, n>>] < g[n])
    BY <1>1 DEF Improves
  <2>2. cost[<<n, n>>] \in Nat /\ g[n] \in Nat
    BY <1>1, <2>1, CostIsNat DEF TypeOK
  <2> QED
    BY <2>2
<1>3. status'[n] = "Closed" /\ g'[n] = g[n] /\ parent'[n] = parent[n]
  BY <1>1 DEF Expansion, TypeOK
<1>4. ASSUME NEW m \in Nodes, Improves(n, m)
      PROVE  /\ m # n /\ <<n, m>> \in Edges /\ status[m] # "Closed"
             /\ status'[m] = "Open" /\ parent'[m] = e.item
             /\ g'[m] = g[n] + cost[<<n, m>>]
  <2>1. m # n /\ <<n, m>> \in Edges /\ status[m] # "Closed"
    BY <1>2, <1>4 DEF Improves
  <2> QED
    BY <1>4, <2>1 DEF Expansion
<1>5. ASSUME NEW m \in Nodes, m # n, ~Improves(n, m)
      PROVE  status'[m] = status[m] /\ g'[m] = g[m] /\ parent'[m] = parent[m]
  BY <1>5 DEF Expansion
<1> QED
  BY <1>1, <1>2, <1>3, <1>4, <1>5

\* An expansion that does not reach the target leaves the queue the open set.
LEMMA QueueExpand == TypeOK /\ QueueIsOpenSet /\ Expand => QueueIsOpenSet'
<1> SUFFICES ASSUME TypeOK, QueueIsOpenSet, Expand, pc' = "search"
             PROVE  QueueIsOpenSet'
  BY DEF QueueIsOpenSet
<1>1. PICK e \in queue : Expansion(e)
  BY ExpandPicks
<1>2. PICK n : n = e.item[1]
  OBVIOUS
<1>3. pc = "search" /\ h' = h /\ queue' = Enqueued(n, e)
  BY <1>1, <1>2, ExpandPicks DEF Expansion
<1>4. \A d \in queue : status[d.item[1]] = "Open" /\ d.priority = f(d.item[1])
  BY <1>3 DEF QueueIsOpenSet
<1>5. \A c, d \in queue : c.item[1] = d.item[1] => c = d
  BY <1>3 DEF QueueIsOpenSet
<1>6. \A m \in Nodes : status[m] = "Open" => \E d \in queue : d.item[1] = m
  BY <1>3 DEF QueueIsOpenSet
<1>7. ASSUME NEW d \in queue'
      PROVE  \/ /\ d \in queue /\ d # e /\ ~Improves(n, d.item[1])
                /\ d.item[1] \in Nodes /\ d.item[1] # n
             \/ \E m \in Nodes : Renewed(n, m, d)
  <2>1. d \in Enqueued(n, e)
    BY <1>3
  <2>2. ASSUME d \in queue, d # e PROVE d.item[1] \in Nodes /\ d.item[1] # n
    BY <1>2, <1>5, <2>2, EntryTypes
  <2>3. \/ d \in queue /\ d # e /\ ~Improves(n, d.item[1])
        \/ \E m \in Nodes : Renewed(n, m, d)
    BY <1>2, <2>1, InEnqueued, Zenon
  <2> QED
    BY <2>2, <2>3, Zenon
<1>8. ASSUME NEW d \in queue'
      PROVE  status'[d.item[1]] = "Open" /\ d.priority = f(d.item[1])'
  <2>1. CASE /\ d \in queue /\ d # e /\ ~Improves(n, d.item[1])
             /\ d.item[1] \in Nodes /\ d.item[1] # n
    BY <1>1, <1>2, <1>3, <1>4, <2>1, ExpandFacts DEF f
  <2>2. ASSUME NEW m \in Nodes, Renewed(n, m, d)
        PROVE  status'[d.item[1]] = "Open" /\ d.priority = f(d.item[1])'
    BY <1>1, <1>2, <1>3, <2>2, ExpandFacts DEF f, Renewed
  <2> QED
    BY <1>7, <2>1, <2>2
<1>9. ASSUME NEW c \in queue', NEW d \in queue', c.item[1] = d.item[1]
      PROVE  c = d
  <2>1. c \in [item : Ids, priority : Nat] /\ d \in [item : Ids, priority : Nat]
    BY TypeStep DEF TypeOK, Next
  <2>2. CASE ~Improves(n, d.item[1])
    <3>1. c \in queue /\ d \in queue
      BY <1>7, <1>9, <2>2 DEF Renewed
    <3> QED
      BY <1>5, <1>9, <3>1
  <2>3. CASE Improves(n, d.item[1])
    <3> DEFINE m == d.item[1]
    <3>a. \A k \in Nodes : /\ Renewed(n, k, c) => k = m
                           /\ Renewed(n, k, d) => k = m
      BY <1>9 DEF Renewed
    <3>b. \E k \in Nodes : Renewed(n, k, c)
      BY <1>7, <1>9, <2>3
    <3>c. \E k \in Nodes : Renewed(n, k, d)
      BY <1>7, <2>3
    <3>0. Renewed(n, m, c) /\ Renewed(n, m, d)
      BY <3>a, <3>b, <3>c, Zenon
    <3>1. c.priority = d.priority
      BY <3>0 DEF Renewed
    <3>2. c.item = d.item
      <4>1. CASE status[m] = "none"
        BY <3>0, <4>1 DEF Renewed
      <4>2. CASE status[m] # "none"
        <5>1. PICK c0 \in queue : c.item = c0.item
          BY <3>0, <4>2 DEF Renewed
        <5>2. PICK d0 \in queue : d.item = d0.item
          BY <3>0, <4>2 DEF Renewed
        <5> QED
          BY <1>5, <1>9, <5>1, <5>2
      <4> QED
        BY <4>1, <4>2
    <3> QED
      BY <2>1, <3>1, <3>2
  <2> QED
    BY <2>2, <2>3
<1>10. ASSUME NEW m \in Nodes, status'[m] = "Open"
       PROVE  \E d \in queue' : d.item[1] = m
  <2>1. m # n
    BY <1>1, <1>2, <1>10, ExpandFacts
  <2>2. CASE Improves(n, m)
    <3>1. status[m] = "none" \/ \E d \in queue : d.item[1] = m
      BY <1>6, <2>2 DEF Improves
    <3> QED
      BY <1>2, <1>3, <2>2, <3>1, EnqueuedHas
  <2>3. CASE ~Improves(n, m)
    <3>1. status[m] = "Open"
      BY <1>1, <1>2, <1>10, <2>1, <2>3, ExpandFacts
    <3>2. PICK d \in queue : d.item[1] = m
      BY <1>6, <3>1
    <3>3. d # e /\ ~Improves(n, d.item[1])
      BY <1>2, <2>1, <2>3, <3>2
    <3> QED
      BY <1>2, <1>3, <3>2, <3>3, EnqueuedHas
  <2> QED
    BY <2>2, <2>3
<1> QED
  BY <1>8, <1>9, <1>10 DEF QueueIsOpenSet

\* While the search goes on the queue is the open set, so that the entry which
\* processNeighbours replaces is always there, and the only one.
THEOREM QueueIsOpen == Spec => []QueueIsOpenSet
<1>1. Init => QueueIsOpenSet
  <2> SUFFICES ASSUME Init PROVE QueueIsOpenSet
    OBVIOUS
  <2>1. queue = {Entry(Origin, h[Start])} /\ Origin[1] = Start
    BY DEF Init, Origin
  <2>2. h[Start] \in Nat /\ g[Start] = 0 /\ status[Start] = "Open"
    BY AStarAssumption DEF Init
  <2>3. \A m \in Nodes : status[m] = "Open" => m = Start
    BY DEF Init
  <2> QED
    BY <2>1, <2>2, <2>3 DEF QueueIsOpenSet, Entry, f
<1>2. TypeOK /\ QueueIsOpenSet /\ [Next]_vars => QueueIsOpenSet'
  <2>1. QueueIsOpenSet /\ (GiveUp \/ Walk) => QueueIsOpenSet'
    BY DEF QueueIsOpenSet, GiveUp, Walk
  <2>2. QueueIsOpenSet /\ UNCHANGED vars => QueueIsOpenSet'
    BY DEF QueueIsOpenSet, vars, f
  <2> QED
    BY <2>1, <2>2, QueueExpand DEF Next, Done
<1> QED
  BY <1>1, <1>2, SearchTyping, PTL DEF Spec

-----------------------------------------------------------------------------
\* The lookup is a tree: besides ParentsLead, the start is in it, and no other
\* node is its own parent.
Tree == /\ ParentsLead /\ status[Start] # "none"
        /\ \A n \in Nodes \ {Start} : status[n] # "none" => parent[n][1] # n

\* An expansion keeps the tree of parents.
LEMMA TreeExpand ==
  ASSUME TypeOK, QueueIsOpenSet, Tree, Expand
  PROVE  Tree'
<1>1. PICK e \in queue : Expansion(e)
  BY ExpandPicks
<1>2. PICK n : n = e.item[1]
  OBVIOUS
<1>3. /\ n \in Nodes /\ status[n] = "Open" /\ ~Improves(n, n)
      /\ status'[n] = "Closed" /\ g'[n] = g[n] /\ parent'[n] = parent[n]
  BY <1>1, <1>2, ExpandFacts
<1>4. \A m \in Nodes : Improves(n, m) =>
        /\ m # n /\ <<n, m>> \in Edges /\ status[m] # "Closed"
        /\ status'[m] = "Open" /\ parent'[m] = e.item
        /\ g'[m] = g[n] + cost[<<n, m>>]
  BY <1>1, <1>2, ExpandFacts
<1>5. \A m \in Nodes : m # n /\ ~Improves(n, m) =>
        status'[m] = status[m] /\ g'[m] = g[m] /\ parent'[m] = parent[m]
  BY <1>1, <1>2, ExpandFacts
<1>6. cost' = cost /\ Edges' = Edges
  BY ExpandPicks DEF Edges
<1>7. ASSUME NEW m \in Nodes \ {Start}, status'[m] # "none"
      PROVE  LET p == parent'[m][1]
             IN  /\ p # m /\ status'[p] = "Closed" /\ <<p, m>> \in Edges
                 /\ g'[m] = g'[p] + cost[<<p, m>>]
  <2>1. CASE Improves(n, m)
    <3>1. parent'[m][1] = n /\ m # n /\ <<n, m>> \in Edges
      BY <1>2, <1>4, <2>1
    <3>2. g'[m] = g'[n] + cost[<<n, m>>]
      BY <1>3, <1>4, <2>1
    <3> QED
      BY <1>3, <3>1, <3>2
  <2>2. CASE ~Improves(n, m)
    <3> DEFINE p == parent[m][1]
    <3>1. status[m] # "none" /\ g'[m] = g[m] /\ parent'[m] = parent[m]
      BY <1>3, <1>5, <1>7, <2>2
    <3>2. /\ p # m /\ status[p] = "Closed" /\ <<p, m>> \in Edges
          /\ g[m] = g[p] + cost[<<p, m>>] /\ p \in Nodes
      BY <3>1 DEF Tree, ParentsLead, TypeOK, Ids
    <3>3. p # n /\ ~Improves(n, p)
      BY <1>3, <3>2 DEF Improves
    <3> QED
      BY <1>5, <3>1, <3>2, <3>3
  <2> QED
    BY <2>1, <2>2
<1>8. status'[Start] # "none"
  BY <1>3, <1>4, <1>5, AStarAssumption DEF Tree
<1> QED
  BY <1>6, <1>7, <1>8 DEF Tree, ParentsLead

\* Every step keeps the tree of parents.
LEMMA TreeStep == TypeOK /\ QueueIsOpenSet /\ Tree /\ [Next]_vars => Tree'
<1>1. Tree /\ UNCHANGED <<cost, status, g, parent>> => Tree'
  BY DEF Tree, ParentsLead, Edges
<1> QED
  BY <1>1, TreeExpand DEF Next, GiveUp, Walk, Done, vars

LEMMA TreeAlways == Spec => []Tree
<1>1. Init => Tree
  BY AStarAssumption DEF Init, Tree, ParentsLead
<1> QED
  BY <1>1, TreeStep, SearchTyping, QueueIsOpen, PTL DEF Spec

\* Every node the lookup knows was found along an edge from its parent, which
\* is closed, at the cost it has there.
THEOREM ParentsAlwaysLead == Spec => []ParentsLead
<1>1. Tree => ParentsLead
  BY DEF Tree
<1> QED
  BY <1>1, TreeAlways, PTL

-----------------------------------------------------------------------------
\* S holds the start and, with a node, its neighbours.
Complete(S) == Start \in S /\ \A e \in Edges : e[1] \in S => e[2] \in S

\* Where the search is: what is known can be reached, what is closed has been
\* expanded, and the target is closed when, and only when, it was found.
Progress ==
  /\ \A S \in SUBSET Nodes : Complete(S) => \A n \in Nodes : status[n] # "none" => n \in S
  /\ ClosedIsExpanded
  /\ pc \in {"walk", "found"} <=> status[Target] = "Closed"
  /\ pc = "null" => \A n \in Nodes : status[n] # "Open"

\* An expansion keeps what is known of the progress of the search.
LEMMA ProgressExpand ==
  ASSUME TypeOK, QueueIsOpenSet, Progress, Expand
  PROVE  Progress'
<1>1. PICK e \in queue : Expansion(e)
  BY ExpandPicks
<1>2. PICK n : n = e.item[1]
  OBVIOUS
<1>3. n \in Nodes /\ status[n] = "Open" /\ status'[n] = "Closed"
  BY <1>1, <1>2, ExpandFacts
<1>4. \A m \in Nodes : Improves(n, m) =>
        <<n, m>> \in Edges /\ status[m] # "Closed" /\ status'[m] = "Open"
  BY <1>1, <1>2, ExpandFacts
<1>5. \A m \in Nodes : m # n /\ ~Improves(n, m) => status'[m] = status[m]
  BY <1>1, <1>2, ExpandFacts
<1>6. pc = "search" /\ Edges' = Edges
  BY ExpandPicks DEF Edges
<1>7. pc' = IF n = Target THEN "walk" ELSE "search"
  BY <1>1, <1>2 DEF Expansion
<1>8. ASSUME NEW S \in SUBSET Nodes, Complete(S), NEW m \in Nodes, status'[m] # "none"
      PROVE  m \in S
  <2>1. n \in S
    BY <1>3, <1>8 DEF Progress
  <2>2. CASE Improves(n, m)
    BY <1>4, <1>8, <2>1, <2>2 DEF Complete
  <2>3. CASE ~Improves(n, m)
    BY <1>5, <1>8, <2>1, <2>3 DEF Progress
  <2> QED
    BY <2>2, <2>3
<1>9. ASSUME NEW d \in Edges, status'[d[1]] = "Closed" PROVE status'[d[2]] # "none"
  <2>1. d[1] \in Nodes /\ d[2] \in Nodes /\ d = <<d[1], d[2]>>
    BY AStarAssumption DEF Edges, TypeOK
  <2>2. CASE d[1] = n
    <3>1. CASE status[d[2]] = "none"
      <4>1. Improves(n, d[2])
        BY <2>1, <2>2, <3>1 DEF Improves
      <4> QED
        BY <1>4, <2>1, <4>1
    <3>2. CASE status[d[2]] # "none"
      BY <1>3, <1>4, <1>5, <2>1, <3>2
    <3> QED
      BY <3>1, <3>2
  <2>3. CASE d[1] # n
    <3>1. status[d[1]] = "Closed"
      BY <1>4, <1>5, <1>9, <2>1, <2>3
    <3>2. status[d[2]] # "none"
      BY <3>1 DEF Progress, ClosedIsExpanded
    <3> QED
      BY <1>3, <1>4, <1>5, <2>1, <3>2
  <2> QED
    BY <2>2, <2>3
<1>10. status'[Target] = "Closed" <=> n = Target
  BY <1>3, <1>4, <1>5, <1>6, AStarAssumption DEF Progress
<1> QED
  BY <1>6, <1>7, <1>8, <1>9, <1>10 DEF Progress, ClosedIsExpanded, Complete

LEMMA ProgressStep ==
  TypeOK /\ QueueIsOpenSet /\ Progress /\ [Next]_vars => Progress'
<1> SUFFICES ASSUME TypeOK, QueueIsOpenSet, Progress, [Next]_vars PROVE Progress'
  OBVIOUS
<1> USE DEF Progress, ClosedIsExpanded, Complete, Edges
<1>1. CASE GiveUp
  <2>1. \A n \in Nodes : status[n] # "Open"
    BY <1>1 DEF GiveUp, QueueIsOpenSet
  <2> QED
    BY <1>1, <2>1 DEF GiveUp
<1>2. CASE Walk
  BY <1>2 DEF Walk
<1>3. CASE UNCHANGED vars
  BY <1>3 DEF vars
<1> QED
  BY <1>1, <1>2, <1>3, ProgressExpand DEF Next, Done

LEMMA ProgressAlways == Spec => []Progress
<1>1. Init => Progress
  <2> SUFFICES ASSUME Init PROVE Progress
    OBVIOUS
  <2>1. \A n \in Nodes : status[n] # "Closed" /\ (status[n] # "none" => n = Start)
    BY DEF Init
  <2>2. \A e \in Edges : e[1] \in Nodes
    BY AStarAssumption DEF Init, Edges
  <2>3. pc = "search" /\ Target \in Nodes
    BY AStarAssumption DEF Init
  <2> QED
    BY <2>1, <2>2, <2>3 DEF Progress, ClosedIsExpanded, Complete
<1> QED
  BY <1>1, ProgressStep, SearchTyping, QueueIsOpen, PTL DEF Spec

\* findPath returns null only if no path leads to the target, and finds the
\* target only if one does: the closed nodes are a complete set without it.
THEOREM NullIsUnreachable == Spec => []NullMeansUnreachable
<1>1. TypeOK /\ Tree /\ Progress => NullMeansUnreachable
  <2> SUFFICES ASSUME TypeOK, Tree, Progress PROVE NullMeansUnreachable
    OBVIOUS
  <2>1. ASSUME pc = "null" PROVE ~Reachable
    <3> DEFINE S == {n \in Nodes : status[n] = "Closed"}
    <3>1. \A n \in Nodes : status[n] # "none" => n \in S
      BY <2>1 DEF TypeOK, Progress
    <3>2. Start \in S /\ Target \notin S
      BY <2>1, <3>1, AStarAssumption DEF Tree, Progress
    <3>3. \A e \in Edges : e[1] \in Nodes /\ e[2] \in Nodes
      BY AStarAssumption DEF Edges, TypeOK
    <3>4. \A e \in Edges : e[1] \in S => e[2] \in S
      BY <3>1, <3>3 DEF Progress, ClosedIsExpanded
    <3> QED
      BY <3>2, <3>4 DEF Reachable
  <2>2. ASSUME pc \in {"walk", "found"} PROVE Reachable
    BY <2>2, AStarAssumption DEF Progress, Complete, Reachable
  <2> QED
    BY <2>1, <2>2 DEF NullMeansUnreachable
<1> QED
  BY <1>1, SearchTyping, TreeAlways, ProgressAlways, PTL

-----------------------------------------------------------------------------
\* The start is never improved upon, and every reference to it is to the object
\* that the search was created with: so the walk knows the start by reference.
StartIsOrigin ==
  /\ g[Start] = 0 /\ parent[Start] = Origin
  /\ \A d \in queue : d.item[1] = Start => d.item = Origin
  /\ \A n \in Nodes : parent[n][1] = Start => parent[n] = Origin
  /\ at[1] = Start => at = Origin

\* Every step keeps the object of the caller the only one that stands for the start.
LEMMA OriginStep ==
  TypeOK /\ QueueIsOpenSet /\ Tree /\ StartIsOrigin /\ [Next]_vars => StartIsOrigin'
<1> SUFFICES ASSUME TypeOK, QueueIsOpenSet, Tree, StartIsOrigin, [Next]_vars
             PROVE  StartIsOrigin'
  OBVIOUS
<1>1. CASE Expand
  <2>1. PICK e \in queue : Expansion(e)
    BY <1>1, ExpandPicks
  <2>2. PICK n : n = e.item[1]
    OBVIOUS
  <2>3. ~Improves(n, Start)
    <3>1. ASSUME <<n, Start>> \in Edges PROVE ~(g[n] + cost[<<n, Start>>] < g[Start])
      <4>1. g[n] \in Nat /\ cost[<<n, Start>>] \in Nat /\ g[Start] = 0
        BY <2>2, <3>1, EntryTypes, CostIsNat, AStarAssumption DEF TypeOK, StartIsOrigin
      <4> QED
        BY <4>1
    <3> QED
      BY <3>1 DEF Improves, Tree
  <2>4. g'[Start] = 0 /\ parent'[Start] = Origin
    BY <2>1, <2>2, <2>3, AStarAssumption DEF Expansion, StartIsOrigin
  <2>5. \A m \in Nodes : parent'[m] \in {parent[m], e.item}
    BY <2>1 DEF Expansion
  <2>6. ASSUME NEW d \in queue', d.item[1] = Start PROVE d.item = Origin
    <3>1. d \in Enqueued(n, e)
      BY <2>1, <2>2 DEF Expansion
    <3>2. d \in queue \/ \E m \in Nodes : Renewed(n, m, d)
      BY <2>2, <3>1, InEnqueued, Zenon
    <3>3. d \in queue
      BY <2>3, <2>6, <3>2 DEF Renewed
    <3> QED
      BY <2>6, <3>3 DEF StartIsOrigin
  <2>7. at' = e.item
    BY <2>1 DEF Expansion
  <2> QED
    BY <2>4, <2>5, <2>6, <2>7 DEF StartIsOrigin
<1>2. CASE GiveUp
  BY <1>2 DEF GiveUp, StartIsOrigin
<1>3. CASE Walk
  <2>1. at[1] \in Nodes
    BY DEF TypeOK, Ids
  <2> QED
    BY <1>3, <2>1 DEF Walk, StartIsOrigin
<1>4. CASE UNCHANGED vars
  BY <1>4 DEF vars, StartIsOrigin
<1> QED
  BY <1>1, <1>2, <1>3, <1>4 DEF Next, Done

-----------------------------------------------------------------------------
\* One edge of the path, at the cost the lookup has for its ends.
Leads(m, n) == <<m, n>> \in Edges /\ g[n] = g[m] + cost[<<m, n>>]

\* p goes along edges to the target; pathNodes does so at every moment of the
\* walk, and the node the walk is at leads to its first node.
Trail(p) == /\ Len(p) > 0 => p[Len(p)] = Target
            /\ \A i \in 1..(Len(p) - 1) : Leads(p[i], p[i + 1])
WalkOK ==
  /\ pc = "search" => path = <<>>
  /\ pc = "walk" => /\ Trail(path) /\ status[at[1]] = "Closed"
                    /\ IF path = <<>> THEN at[1] = Target ELSE Leads(at[1], path[1])
  /\ pc = "found" => Trail(path) /\ path # <<>> /\ path[1] = Start

\* A trail is made longer by a node that leads to its first one.
LEMMA TrailGrows ==
  ASSUME NEW p \in Seq(Nodes), NEW n \in Nodes, Trail(p),
         IF p = <<>> THEN n = Target ELSE Leads(n, p[1])
  PROVE  /\ <<n>> \o p \in Seq(Nodes) /\ <<n>> \o p # <<>>
         /\ (<<n>> \o p)[1] = n /\ Trail(<<n>> \o p)
<1> DEFINE q == <<n>> \o p
<1>1. <<n>> \in Seq(Nodes) /\ Len(<<n>>) = 1 /\ <<n>>[1] = n
  OBVIOUS
<1>2. /\ q \in Seq(Nodes) /\ Len(q) = 1 + Len(p)
      /\ \A i \in 1..(1 + Len(p)) : q[i] = IF i <= 1 THEN <<n>>[i] ELSE p[i - 1]
  BY <1>1, ConcatProperties
<1>3. Len(p) \in Nat /\ (p = <<>> <=> Len(p) = 0)
  BY EmptySeq, LenProperties
<1>4. q[1] = n /\ \A i \in 1..Len(p) : q[i + 1] = p[i]
  BY <1>1, <1>2, <1>3
<1> HIDE DEF q
<1>5. q[Len(q)] = Target
  <2>1. CASE Len(p) = 0
    BY <1>2, <1>3, <1>4, <2>1
  <2>2. CASE Len(p) > 0
    BY <1>2, <1>3, <1>4, <2>2 DEF Trail
  <2> QED
    BY <1>3, <2>1, <2>2
<1>6. ASSUME NEW i \in 1..(Len(q) - 1) PROVE Leads(q[i], q[i + 1])
  <2>1. Len(p) > 0 /\ Leads(n, p[1])
    BY <1>2, <1>3
  <2>2. CASE i = 1
    BY <1>4, <2>1, <2>2
  <2>3. CASE i # 1
    <3>1. i - 1 \in 1..(Len(p) - 1)
      BY <1>2, <1>3, <2>3
    <3>2. Leads(p[i - 1], p[(i - 1) + 1])
      BY <3>1 DEF Trail
    <3>3. q[i] = p[i - 1] /\ q[i + 1] = p[(i - 1) + 1]
      BY <1>3, <1>4, <3>1
    <3> QED
      BY <3>2, <3>3
  <2> QED
    BY <2>2, <2>3
<1>7. q # <<>>
  BY <1>2, <1>3, EmptySeq
<1> QED
  BY <1>2, <1>4, <1>5, <1>6, <1>7 DEF q, Trail

\* Every step keeps what was walked a path.
LEMMA WalkStep ==
  TypeOK /\ QueueIsOpenSet /\ Tree /\ StartIsOrigin /\ WalkOK /\ [Next]_vars => WalkOK'
<1> SUFFICES ASSUME TypeOK, QueueIsOpenSet, Tree, StartIsOrigin, WalkOK, [Next]_vars
             PROVE  WalkOK'
  OBVIOUS
<1>1. CASE Expand
  <2>1. PICK e \in queue : Expansion(e)
    BY <1>1, ExpandPicks
  <2>2. status'[e.item[1]] = "Closed"
    BY <1>1, <2>1, ExpandFacts
  <2>3. /\ path' = <<>> /\ at' = e.item
        /\ pc' = IF e.item[1] = Target THEN "walk" ELSE "search"
    BY <1>1, <2>1, ExpandPicks DEF WalkOK, Expansion
  <2>4. Len(path') = 0
    BY <2>3
  <2>5. Trail(path)'
    BY <2>4 DEF Trail
  <2> QED
    BY <2>2, <2>3, <2>5 DEF WalkOK
<1>2. CASE GiveUp
  BY <1>2 DEF GiveUp, WalkOK
<1>3. CASE Walk
  <2> DEFINE n == at[1]
             q == <<n>> \o path
  <2>1. n \in Nodes /\ path \in Seq(Nodes)
    BY DEF TypeOK, Ids
  <2>2. /\ pc = "walk" /\ Trail(path) /\ status[n] = "Closed"
        /\ IF path = <<>> THEN n = Target ELSE Leads(n, path[1])
    BY <1>3 DEF Walk, WalkOK
  <2>3. q # <<>> /\ q[1] = n /\ Trail(q)
    BY <2>1, <2>2, TrailGrows
  <2>4. path' = q /\ UNCHANGED <<cost, status, g, parent>>
    BY <1>3 DEF Walk
  <2> HIDE DEF q
  <2>5. Trail(path)'
    <3>1. /\ Len(path') > 0 => path'[Len(path')] = Target
          /\ \A i \in 1..(Len(path') - 1) : Leads(path'[i], path'[i + 1])
      BY <2>3, <2>4 DEF Trail
    <3>2. \A x, y : Leads(x, y)' <=> Leads(x, y)
      BY <2>4 DEF Leads, Edges
    <3>3. (\A i \in 1..(Len(path) - 1) : Leads(path[i], path[i + 1]))'
      BY <3>1, <3>2 DEF Leads
    <3> QED
      BY <3>1, <3>3 DEF Trail
  <2>6. CASE parent[n] = at
    <3>1. n = Start
      BY <2>1, <2>2, <2>6 DEF Tree
    <3>2. pc' = "found"
      BY <1>3, <2>6 DEF Walk
    <3> QED
      BY <2>3, <2>4, <2>5, <3>1, <3>2 DEF WalkOK
  <2>7. CASE parent[n] # at
    <3>1. at' = parent[n] /\ pc' = "walk"
      BY <1>3, <2>2, <2>7 DEF Walk
    <3>2. n # Start
      BY <2>7 DEF StartIsOrigin
    <3>3. status[parent[n][1]] = "Closed" /\ Leads(parent[n][1], n)
      BY <2>1, <2>2, <3>2 DEF Tree, ParentsLead, Leads
    <3>4. status'[at'[1]] = "Closed" /\ Leads(at[1], path[1])'
      BY <2>3, <2>4, <3>1, <3>3 DEF Leads, Edges
    <3> QED
      BY <2>3, <2>4, <2>5, <3>1, <3>4 DEF WalkOK
  <2> QED
    BY <2>6, <2>7
<1>4. CASE UNCHANGED vars
  BY <1>4 DEF vars, WalkOK, Trail, Leads, Edges
<1> QED
  BY <1>1, <1>2, <1>3, <1>4 DEF Next, Done

\* What the walk needs, in every state.
LEMMA WalkAlways == Spec => [](StartIsOrigin /\ WalkOK)
<1>1. Init => StartIsOrigin /\ WalkOK
  <2> SUFFICES ASSUME Init PROVE StartIsOrigin /\ WalkOK
    OBVIOUS
  <2>1. \A d \in queue : d.item = Origin
    BY DEF Init, Entry
  <2> QED
    BY <2>1, AStarAssumption DEF Init, StartIsOrigin, WalkOK
<1> QED
  BY <1>1, OriginStep, WalkStep, SearchTyping, QueueIsOpen, TreeAlways, PTL DEF Spec

\* The path that findPath returns is one: from the start to the target along
\* edges of the map, adding up to the cost the lookup has for the target.
THEOREM PathAlwaysReal == Spec => []PathIsReal
<1>1. TypeOK /\ WalkOK => PathIsReal
  <2> SUFFICES ASSUME TypeOK, WalkOK, pc = "found" PROVE PathIsReal
    BY DEF PathIsReal
  <2>1. Trail(path) /\ path # <<>> /\ path[1] = Start
    BY DEF WalkOK
  <2>2. Len(path) > 0
    BY <2>1, EmptySeq, LenProperties DEF TypeOK
  <2> QED
    BY <2>1, <2>2 DEF PathIsReal, Trail, Leads
<1> QED
  BY <1>1, SearchTyping, WalkAlways, PTL

-----------------------------------------------------------------------------
(***************************************************************************)
(* With a consistent heuristic A* returns a cheapest path, on every finite *)
(* map with costs from the naturals.  Two facts make it so.  The closed    *)
(* nodes are settled: no open node has a smaller f, and no edge from one   *)
(* of them leads anywhere more cheaply than is known.  And they are in a   *)
(* tree: each has a rank above that of its parent and below their number.  *)
(* When the target is closed, g on the closed nodes and f(Target) - h on   *)
(* the others bound every way from below; the tree bounds it from above.   *)
(***************************************************************************)

(* Least elements and induction over a set of naturals.                    *)

\* The least element of a set of naturals is in it.
LEMMA LeastIn ==
  ASSUME NEW B \in SUBSET Nat, B # {}
  PROVE  Least(B) \in B /\ \A n \in B : Least(B) <= n
<1> DEFINE R == OpToRel(<, Nat)
<1>1. IsWellFoundedOn(R, Nat)
  BY NatLessThanWellFounded
<1>2. PICK m \in B : \A n \in B : <<n, m>> \notin R
  <2> HIDE DEF R
  <2> QED
    BY <1>1, WFMin
<1>3. \A n \in B : ~ n < m
  BY <1>2 DEF OpToRel
<1> HIDE DEF R
<1>4. \A n \in B : m <= n
  BY <1>3, SMT
<1> QED
  BY <1>4, Zenon DEF Least

\* A set that holds 0 and with a number the next one holds them all.
LEMMA SetInduction ==
  ASSUME NEW T \in SUBSET Nat, 0 \in T, \A k \in T : k + 1 \in T
  PROVE  T = Nat
<1> SUFFICES ASSUME Nat \ T # {} PROVE FALSE
  OBVIOUS
<1> DEFINE m == Least(Nat \ T)
<1>1. m \in Nat \ T /\ \A n \in Nat \ T : m <= n
  BY LeastIn
<1> HIDE DEF m
<1>2. m # 0 /\ m - 1 \in Nat
  BY <1>1
<1>3. m - 1 \in T
  BY <1>1, <1>2
<1> QED
  BY <1>1, <1>2, <1>3

-----------------------------------------------------------------------------
(* The reference: the costs of the ways of at most k edges.                *)

Costs == Nat \cup {NoWay}
AtStart == [n \in Nodes |-> IF n = Start THEN 0 ELSE NoWay]

\* One more edge: a cost is one that was there, or comes along an edge, and is
\* not above any of these.
LEMMA OneMoreFacts ==
  ASSUME cost \in Graphs, NEW d \in [Nodes -> Costs], NEW n \in Nodes
  PROVE  /\ OneMore(d)[n] \in Costs
         /\ d[n] # NoWay => OneMore(d)[n] \in Nat /\ OneMore(d)[n] <= d[n]
         /\ \A m \in Nodes : <<m, n>> \in Edges /\ d[m] # NoWay =>
              OneMore(d)[n] \in Nat /\ OneMore(d)[n] <= d[m] + cost[<<m, n>>]
         /\ OneMore(d)[n] # NoWay =>
              \/ d[n] # NoWay /\ OneMore(d)[n] = d[n]
              \/ \E m \in Nodes : /\ <<m, n>> \in Edges /\ d[m] # NoWay
                                  /\ OneMore(d)[n] = d[m] + cost[<<m, n>>]
<1> DEFINE into == {x \in Edges : x[2] = n /\ d[x[1]] # NoWay}
           via == {d[e[1]] + cost[e] : e \in into}
           all == via \cup ({d[n]} \ {NoWay})
<1>1. OneMore(d)[n] = IF all = {} THEN NoWay ELSE Least(all)
  BY DEF OneMore
<1>2. \A e \in into : \E m \in Nodes : e = <<m, n>> /\ d[m] # NoWay /\ <<m, n>> \in Edges
  <2>1. Edges \subseteq Nodes \X Nodes
    BY AStarAssumption DEF Edges
  <2> SUFFICES ASSUME NEW e \in into
               PROVE  \E m \in Nodes : e = <<m, n>> /\ d[m] # NoWay /\ <<m, n>> \in Edges
    OBVIOUS
  <2>2. e[1] \in Nodes /\ e = <<e[1], n>> /\ d[e[1]] # NoWay /\ e \in Edges
    BY <2>1
  <2> QED
    BY <2>2
<1>3. \A m \in Nodes : <<m, n>> \in Edges /\ d[m] # NoWay => <<m, n>> \in into
  OBVIOUS
<1>4. \A c \in via : \E m \in Nodes : /\ <<m, n>> \in Edges /\ d[m] # NoWay
                                      /\ c = d[m] + cost[<<m, n>>]
  <2> SUFFICES ASSUME NEW e \in into
               PROVE  \E m \in Nodes : /\ <<m, n>> \in Edges /\ d[m] # NoWay
                                       /\ d[e[1]] + cost[e] = d[m] + cost[<<m, n>>]
    OBVIOUS
  <2>1. PICK m \in Nodes : e = <<m, n>> /\ d[m] # NoWay /\ <<m, n>> \in Edges
    BY <1>2
  <2> QED
    BY <2>1
<1>5. \A m \in Nodes : <<m, n>> \in Edges /\ d[m] # NoWay => d[m] + cost[<<m, n>>] \in via
  BY <1>3
<1>6. \A m \in Nodes : <<m, n>> \in Edges /\ d[m] # NoWay => d[m] + cost[<<m, n>>] \in Nat
  BY CostIsNat DEF Costs
<1> HIDE DEF via
<1>7. all \subseteq Nat
  BY <1>4, <1>6 DEF Costs
<1>8. all # {} => Least(all) \in all /\ Least(all) \in Nat /\ \A c \in all : Least(all) <= c
  <2> HIDE DEF all
  <2> QED
    BY <1>7, LeastIn
<1>9. OneMore(d)[n] # NoWay => OneMore(d)[n] \in all /\ OneMore(d)[n] = Least(all) /\ all # {}
  BY <1>1, <1>8
<1>10. all # {} => OneMore(d)[n] \in Nat /\ \A c \in all : OneMore(d)[n] <= c
  BY <1>1, <1>8
<1>11. OneMore(d)[n] \in Costs
  BY <1>1, <1>10 DEF Costs
<1>12. d[n] # NoWay => d[n] \in all
  OBVIOUS
<1>13. \A c \in all : c \in via \/ (d[n] # NoWay /\ c = d[n])
  OBVIOUS
<1>14. \A c \in via : c \in all
  OBVIOUS
<1> HIDE DEF all
<1>15. d[n] # NoWay => OneMore(d)[n] \in Nat /\ OneMore(d)[n] <= d[n]
  BY <1>10, <1>12
<1>16. \A m \in Nodes : <<m, n>> \in Edges /\ d[m] # NoWay =>
         OneMore(d)[n] \in Nat /\ OneMore(d)[n] <= d[m] + cost[<<m, n>>]
  BY <1>5, <1>10, <1>14
<1>17. OneMore(d)[n] # NoWay =>
         \/ d[n] # NoWay /\ OneMore(d)[n] = d[n]
         \/ \E m \in Nodes : /\ <<m, n>> \in Edges /\ d[m] # NoWay
                             /\ OneMore(d)[n] = d[m] + cost[<<m, n>>]
  BY <1>4, <1>9, <1>13
<1> QED
  BY <1>11, <1>15, <1>16, <1>17

\* d is the table of these costs for 0 to k edges.
Table(d, k) == d = [i \in 0..k |-> IF i = 0 THEN AtStart ELSE OneMore(d[i - 1])]

\* There is such a table, and Distance is its last row.
LEMMA TableExists == \A k \in Nat : \E d : Table(d, k)
<1> DEFINE T == {k \in Nat : \E d : Table(d, k)}
<1>1. 0 \in T
  <2> DEFINE d == [i \in 0..0 |-> AtStart]
  <2>1. d = [i \in 0..0 |-> IF i = 0 THEN AtStart ELSE OneMore(d[i - 1])]
    OBVIOUS
  <2> HIDE DEF d
  <2> QED
    BY <2>1 DEF Table
<1>2. ASSUME NEW k \in T PROVE k + 1 \in T
  <2>1. PICK d : Table(d, k)
    OBVIOUS
  <2> DEFINE e == [i \in 0..(k + 1) |-> IF i = 0 THEN AtStart ELSE OneMore(d[i - 1])]
  <2>2. k \in Nat
    OBVIOUS
  <2>3. ASSUME NEW i \in 0..k PROVE e[i] = d[i]
    <3>1. d[i] = IF i = 0 THEN AtStart ELSE OneMore(d[i - 1])
      BY <2>1 DEF Table
    <3> QED
      BY <2>2, <3>1
  <2>4. e = [i \in 0..(k + 1) |-> IF i = 0 THEN AtStart ELSE OneMore(e[i - 1])]
    <3> SUFFICES ASSUME NEW i \in 0..(k + 1), i # 0 PROVE OneMore(d[i - 1]) = OneMore(e[i - 1])
      OBVIOUS
    <3>1. i - 1 \in 0..k
      BY <2>2
    <3>2. e[i - 1] = d[i - 1]
      BY <2>3, <3>1
    <3> QED
      BY <3>2
  <2> HIDE DEF e
  <2>5. Table(e, k + 1)
    BY <2>4 DEF Table
  <2> QED
    BY <2>2, <2>5
<1> HIDE DEF T
<1>3. T = Nat
  <2>1. T \in SUBSET Nat
    BY DEF T
  <2> QED
    BY <1>1, <1>2, <2>1, SetInduction
<1> QED
  BY <1>3 DEF T

\* The nodes can be counted.
LEMMA NodesCounted == IsFiniteSet(Nodes) /\ Cardinality(Nodes) \in Nat
  BY AStarAssumption, FS_CardinalityType

\* The reference is the last row of a table of distances.
LEMMA DistanceIsLastRow ==
  \E d : Table(d, Cardinality(Nodes)) /\ Distance = d[Cardinality(Nodes)]
<1> DEFINE k == Cardinality(Nodes)
           d == CHOOSE d : d = [i \in 0..k |-> IF i = 0 THEN AtStart ELSE OneMore(d[i - 1])]
<1>1. \E e : e = [i \in 0..k |-> IF i = 0 THEN AtStart ELSE OneMore(e[i - 1])]
  BY TableExists, NodesCounted DEF Table
<1>2. d = [i \in 0..k |-> IF i = 0 THEN AtStart ELSE OneMore(d[i - 1])]
  <2> HIDE DEF k
  <2> QED
    BY <1>1, Zenon
<1>3. Distance = d[k]
  BY Zenon DEF Distance, AtStart
<1> HIDE DEF d
<1> QED
  BY <1>2, <1>3 DEF Table

-----------------------------------------------------------------------------
(* Bounds on the reference.                                                *)

\* Every row of the table has costs.
LEMMA RowTypes ==
  ASSUME cost \in Graphs, NEW k \in Nat, NEW d, Table(d, k)
  PROVE  /\ d[0] = AtStart
         /\ \A i \in 0..k : i > 0 => d[i] = OneMore(d[i - 1])
         /\ \A i \in 0..k : d[i] \in [Nodes -> Costs]
<1>1. \A i \in 0..k : d[i] = IF i = 0 THEN AtStart ELSE OneMore(d[i - 1])
  BY DEF Table
<1>2. d[0] = AtStart /\ \A i \in 0..k : i > 0 => d[i] = OneMore(d[i - 1])
  BY <1>1
<1> DEFINE T == {i \in Nat : i <= k => d[i] \in [Nodes -> Costs]}
<1>3. 0 \in T
  BY <1>2 DEF AtStart, Costs
<1>4. ASSUME NEW i \in T PROVE i + 1 \in T
  <2> SUFFICES ASSUME i + 1 <= k PROVE d[i + 1] \in [Nodes -> Costs]
    OBVIOUS
  <2>1. d[i] \in [Nodes -> Costs] /\ i + 1 \in 0..k /\ d[i + 1] = OneMore(d[i])
    BY <1>2
  <2>2. \A n \in Nodes : OneMore(d[i])[n] \in Costs
    BY <2>1, OneMoreFacts
  <2>3. OneMore(d[i]) \in [Nodes -> Costs]
    <3>1. DOMAIN OneMore(d[i]) = Nodes /\ OneMore(d[i]) = [n \in Nodes |-> OneMore(d[i])[n]]
      BY DEF OneMore
    <3> QED
      BY <2>2, <3>1, Zenon
  <2> QED
    BY <2>1, <2>3
<1> HIDE DEF T
<1>5. T = Nat
  <2>1. T \in SUBSET Nat
    BY DEF T
  <2> QED
    BY <1>3, <1>4, <2>1, SetInduction
<1> QED
  BY <1>2, <1>5 DEF T

\* A potential that no edge raises by more than its cost bounds the table from
\* below.
LEMMA PotentialBounds ==
  ASSUME cost \in Graphs, NEW k \in Nat, NEW d, Table(d, k),
         NEW u \in [Nodes -> Int], u[Start] <= 0,
         \A n, m \in Nodes : <<n, m>> \in Edges => u[m] <= u[n] + cost[<<n, m>>]
  PROVE  \A i \in 0..k, n \in Nodes : d[i][n] # NoWay => u[n] <= d[i][n]
<1> DEFINE T == {i \in Nat : i <= k => \A n \in Nodes : d[i][n] # NoWay => u[n] <= d[i][n]}
<1>1. 0 \in T
  <2>1. d[0] = AtStart
    BY RowTypes
  <2>2. \A n \in Nodes : d[0][n] # NoWay => n = Start /\ d[0][n] = 0
    BY <2>1 DEF AtStart
  <2> QED
    BY <2>2
<1>2. ASSUME NEW i \in T PROVE i + 1 \in T
  <2> SUFFICES ASSUME i + 1 <= k, NEW n \in Nodes, d[i + 1][n] # NoWay
               PROVE  u[n] <= d[i + 1][n]
    OBVIOUS
  <2>1. /\ d[i] \in [Nodes -> Costs] /\ i + 1 \in 0..k /\ d[i + 1] = OneMore(d[i])
        /\ \A m \in Nodes : d[i][m] # NoWay => u[m] <= d[i][m]
    BY RowTypes
  <2>2. CASE d[i][n] # NoWay /\ d[i + 1][n] = d[i][n]
    BY <2>1, <2>2
  <2>3. ASSUME NEW m \in Nodes, <<m, n>> \in Edges, d[i][m] # NoWay,
               d[i + 1][n] = d[i][m] + cost[<<m, n>>]
        PROVE  u[n] <= d[i + 1][n]
    <3>1. u[n] <= u[m] + cost[<<m, n>>] /\ u[m] <= d[i][m]
      BY <2>1, <2>3
    <3>2. d[i][m] \in Nat /\ cost[<<m, n>>] \in Nat /\ u[n] \in Int /\ u[m] \in Int
      BY <2>1, <2>3, CostIsNat DEF Costs
    <3> QED
      BY <2>3, <3>1, <3>2
  <2>4. \/ d[i][n] # NoWay /\ OneMore(d[i])[n] = d[i][n]
        \/ \E m \in Nodes : /\ <<m, n>> \in Edges /\ d[i][m] # NoWay
                            /\ OneMore(d[i])[n] = d[i][m] + cost[<<m, n>>]
    BY <2>1, OneMoreFacts
  <2> QED
    BY <2>1, <2>2, <2>3, <2>4
<1> HIDE DEF T
<1>3. T = Nat
  <2>1. T \in SUBSET Nat
    BY DEF T
  <2> QED
    BY <1>1, <1>2, <2>1, SetInduction
<1> QED
  BY <1>3 DEF T

\* C is a tree of ways from the start: each of its nodes is reached along an edge
\* from one that has a smaller rank, at the cost v.
RankedTree(C, rank, v, par) ==
  /\ rank[Start] = 0 /\ v[Start] = 0
  /\ \A n \in C \ {Start} : /\ par[n][1] \in C /\ <<par[n][1], n>> \in Edges
                             /\ rank[par[n][1]] < rank[n]
                             /\ v[n] = v[par[n][1]] + cost[<<par[n][1], n>>]

\* Such a tree bounds the table from above, from the row of a node's rank on.
LEMMA TreeBounds ==
  ASSUME cost \in Graphs, NEW k \in Nat, NEW d, Table(d, k),
         NEW C \in SUBSET Nodes, NEW rank \in [Nodes -> Nat], NEW v \in [Nodes -> Nat],
         NEW par \in [Nodes -> Ids], RankedTree(C, rank, v, par)
  PROVE  \A i \in 0..k, n \in C : rank[n] <= i => d[i][n] \in Nat /\ d[i][n] <= v[n]
<1> DEFINE Bound(i) == \A n \in C : rank[n] <= i => d[i][n] \in Nat /\ d[i][n] <= v[n]
           T == {i \in Nat : i <= k => Bound(i)}
<1>1. 0 \in T
  <2>1. \A n \in C : rank[n] <= 0 => n = Start
    <3> SUFFICES ASSUME NEW n \in C \ {Start}, rank[n] <= 0 PROVE FALSE
      OBVIOUS
    <3>1. par[n][1] \in Nodes /\ rank[par[n][1]] < rank[n]
      BY DEF RankedTree
    <3> QED
      BY <3>1
  <2>2. d[0][Start] = 0
    BY RowTypes, AStarAssumption DEF AtStart
  <2> QED
    BY <2>1, <2>2 DEF RankedTree
<1>2. ASSUME NEW i \in T PROVE i + 1 \in T
  <2> SUFFICES ASSUME i + 1 <= k, NEW n \in C, rank[n] <= i + 1
               PROVE  d[i + 1][n] \in Nat /\ d[i + 1][n] <= v[n]
    OBVIOUS
  <2>1. /\ d[i] \in [Nodes -> Costs] /\ i + 1 \in 0..k /\ d[i + 1] = OneMore(d[i])
        /\ Bound(i)
    BY RowTypes
  <2>2. CASE n = Start
    <3>1. d[i][n] \in Nat /\ d[i][n] <= v[n]
      BY <2>1, <2>2 DEF RankedTree
    <3>2. d[i][n] # NoWay
      BY <3>1 DEF NoWay
    <3>3. d[i + 1][n] \in Nat /\ d[i + 1][n] <= d[i][n]
      BY <2>1, <3>2, OneMoreFacts
    <3> QED
      BY <3>1, <3>3
  <2>3. CASE n # Start
    <3> DEFINE p == par[n][1]
    <3>1. /\ p \in C /\ <<p, n>> \in Edges /\ rank[p] < rank[n]
          /\ v[n] = v[p] + cost[<<p, n>>]
      BY <2>3 DEF RankedTree
    <3>2. d[i][p] \in Nat /\ d[i][p] <= v[p]
      BY <2>1, <3>1
    <3>3. d[i][p] # NoWay
      BY <3>2 DEF NoWay
    <3>4. d[i + 1][n] \in Nat /\ d[i + 1][n] <= d[i][p] + cost[<<p, n>>]
      BY <2>1, <3>1, <3>3, OneMoreFacts
    <3>5. cost[<<p, n>>] \in Nat
      BY <3>1, CostIsNat
    <3> QED
      BY <3>1, <3>2, <3>4, <3>5
  <2> QED
    BY <2>2, <2>3
<1> HIDE DEF T
<1>3. T = Nat
  <2>1. T \in SUBSET Nat
    BY DEF T
  <2> QED
    BY <1>1, <1>2, <2>1, SetInduction
<1> QED
  BY <1>3 DEF T

-----------------------------------------------------------------------------
(* The tree of the closed nodes.                                           *)

\* The closed nodes form a tree whose ranks are below their number.
Ranked ==
  \E rank \in [Nodes -> Nat] :
    /\ RankedTree(ClosedSet, rank, g, parent)
    /\ \A n \in ClosedSet : rank[n] < Cardinality(ClosedSet)

\* The closed nodes can be counted.
LEMMA ClosedCounted ==
  /\ IsFiniteSet(ClosedSet) /\ Cardinality(ClosedSet) \in Nat
  /\ Cardinality(ClosedSet) <= Cardinality(Nodes)
<1>1. ClosedSet \subseteq Nodes
  BY DEF ClosedSet
<1> QED
  BY <1>1, NodesCounted, FS_Subset, FS_CardinalityType

\* An expansion closes one node, to which its parent leads.
LEMMA RankedExpand ==
  ASSUME TypeOK, QueueIsOpenSet, Tree, Ranked, Expand
  PROVE  Ranked'
<1>1. PICK e \in queue : Expansion(e)
  BY ExpandPicks
<1>2. PICK n : n = e.item[1]
  OBVIOUS
<1>3. /\ n \in Nodes /\ status[n] = "Open" /\ status'[n] = "Closed" /\ g'[n] = g[n]
      /\ parent'[n] = parent[n]
  BY <1>1, <1>2, ExpandFacts
<1>4. \A m \in Nodes : Improves(n, m) =>
        /\ m # n /\ <<n, m>> \in Edges /\ status[m] # "Closed"
        /\ status'[m] = "Open" /\ g'[m] = g[n] + cost[<<n, m>>]
  BY <1>1, <1>2, ExpandFacts
<1>5. \A m \in Nodes : m # n /\ ~Improves(n, m) =>
        status'[m] = status[m] /\ g'[m] = g[m] /\ parent'[m] = parent[m]
  BY <1>1, <1>2, ExpandFacts
<1>6. cost' = cost /\ Edges' = Edges
  BY ExpandPicks DEF Edges
<1>7. ClosedSet' = ClosedSet \cup {n} /\ n \notin ClosedSet
  <2>1. ASSUME NEW m \in Nodes
        PROVE  status'[m] = "Closed" <=> (status[m] = "Closed" \/ m = n)
    <3>1. CASE m = n
      BY <1>3, <3>1
    <3>2. CASE m # n /\ Improves(n, m)
      BY <1>4, <3>2
    <3>3. CASE m # n /\ ~Improves(n, m)
      BY <1>5, <3>3
    <3> QED
      BY <3>1, <3>2, <3>3
  <2> QED
    BY <1>3, <2>1 DEF ClosedSet
<1>8. Cardinality(ClosedSet') = Cardinality(ClosedSet) + 1
  BY <1>7, ClosedCounted, FS_AddElement
<1>9. \A m \in ClosedSet : m \in Nodes /\ g'[m] = g[m] /\ parent'[m] = parent[m]
  BY <1>3, <1>4, <1>5 DEF ClosedSet
<1>10. PICK rank \in [Nodes -> Nat] :
         /\ RankedTree(ClosedSet, rank, g, parent)
         /\ \A m \in ClosedSet : rank[m] < Cardinality(ClosedSet)
  BY DEF Ranked
<1>11. g'[Start] = 0
  <2>1. g[Start] = 0 /\ status[Start] # "none" /\ Start \in Nodes
    BY <1>10, AStarAssumption DEF RankedTree, Tree
  <2>2. ~Improves(n, Start)
    <3> SUFFICES ASSUME Improves(n, Start) PROVE FALSE
      OBVIOUS
    <3>1. g[n] + cost[<<n, Start>>] < 0 /\ g[n] + cost[<<n, Start>>] \in Nat
      BY <1>3, <2>1, NewPriority DEF Improves
    <3> QED
      BY <3>1
  <2> QED
    BY <1>3, <1>5, <2>1, <2>2
<1> DEFINE top == IF n = Start THEN 0 ELSE Cardinality(ClosedSet)
<1>a. top \in Nat
  BY ClosedCounted
<1>b. PICK next \in [Nodes -> Nat] : next = [rank EXCEPT ![n] = top]
  BY <1>a
<1>12. next[n] = top /\ \A m \in ClosedSet : next[m] = rank[m]
  BY <1>3, <1>7, <1>9, <1>b
<1>13. next[Start] = 0
  BY <1>3, <1>10, <1>b, AStarAssumption DEF RankedTree
<1>14. ASSUME NEW m \in ClosedSet' \ {Start}
       PROVE  /\ parent'[m][1] \in ClosedSet' /\ <<parent'[m][1], m>> \in Edges
              /\ next[parent'[m][1]] < next[m]
              /\ g'[m] = g'[parent'[m][1]] + cost[<<parent'[m][1], m>>]
  <2> DEFINE p == parent[m][1]
  <2>1. CASE m = n
    <3>1. p \in ClosedSet /\ <<p, n>> \in Edges /\ g[n] = g[p] + cost[<<p, n>>]
      BY <1>3, <1>14, <2>1 DEF Tree, ParentsLead, ClosedSet, TypeOK, Ids
    <3>2. next[p] = rank[p] /\ rank[p] < Cardinality(ClosedSet) /\ g'[p] = g[p]
      BY <1>9, <1>10, <1>12, <3>1
    <3>3. next[n] = Cardinality(ClosedSet)
      BY <1>12, <1>14, <2>1
    <3> QED
      BY <1>3, <1>7, <2>1, <3>1, <3>2, <3>3
  <2>2. CASE m \in ClosedSet
    <3>1. /\ p \in ClosedSet /\ <<p, m>> \in Edges /\ rank[p] < rank[m]
          /\ g[m] = g[p] + cost[<<p, m>>]
      BY <1>10, <1>14, <2>2 DEF RankedTree
    <3> QED
      BY <1>7, <1>9, <1>12, <2>2, <3>1
  <2> QED
    BY <1>7, <1>14, <2>1, <2>2
<1>15. \A m \in ClosedSet' : next[m] < Cardinality(ClosedSet')
  <2>1. next[n] < Cardinality(ClosedSet) + 1
    BY <1>12, ClosedCounted
  <2>2. \A m \in ClosedSet : next[m] < Cardinality(ClosedSet) + 1
    <3> TAKE m \in ClosedSet
    <3>1. next[m] < Cardinality(ClosedSet) /\ next[m] \in Nat
      BY <1>9, <1>10, <1>12
    <3> QED
      BY <3>1, ClosedCounted
  <2> QED
    BY <1>7, <1>8, <2>1, <2>2
<1>16. RankedTree(ClosedSet, next, g, parent)'
  BY <1>6, <1>11, <1>13, <1>14 DEF RankedTree
<1> QED
  BY <1>15, <1>16 DEF Ranked

LEMMA RankedAlways == Spec => []Ranked
<1>1. Init => Ranked
  <2> SUFFICES ASSUME Init PROVE Ranked
    OBVIOUS
  <2>1. ClosedSet = {} /\ g[Start] = 0
    BY AStarAssumption DEF Init, ClosedSet
  <2> DEFINE rank == [n \in Nodes |-> 0]
  <2>2. rank \in [Nodes -> Nat] /\ rank[Start] = 0
    BY AStarAssumption
  <2> HIDE DEF rank
  <2> QED
    BY <2>1, <2>2 DEF Ranked, RankedTree
<1>2. Ranked /\ UNCHANGED <<cost, status, g, parent>> => Ranked'
  BY DEF Ranked, RankedTree, ClosedSet, Edges
<1>3. TypeOK /\ QueueIsOpenSet /\ Tree /\ Ranked /\ [Next]_vars => Ranked'
  BY <1>2, RankedExpand DEF Next, GiveUp, Walk, Done, vars
<1> QED
  BY <1>1, <1>3, SearchTyping, QueueIsOpen, TreeAlways, PTL DEF Spec

-----------------------------------------------------------------------------
(* The closed nodes are settled.                                           *)

Settled ==
  /\ status[Start] = "Closed" \/ \A n \in Nodes : status[n] # "none" => n = Start
  /\ \A n, m \in Nodes :
       status[n] = "Closed" /\ <<n, m>> \in Edges => g[m] <= g[n] + cost[<<n, m>>]
  /\ \A c, o \in Nodes : status[c] = "Closed" /\ status[o] = "Open" => f(c) <= f(o)
  /\ pc \in {"walk", "found"} =>
       \A c \in Nodes : status[c] = "Closed" => f(c) <= f(Target)

\* Estimates, costs and their sums are natural numbers.
LEMMA EstimateIsNat ==
  ASSUME TypeOK, NEW n \in Nodes
  PROVE  h[n] \in Nat /\ g[n] \in Nat /\ f(n) = g[n] + h[n] /\ f(n) \in Nat
  BY AStarAssumption DEF TypeOK, f

\* With a consistent heuristic, an expansion settles the node it closes.
LEMMA SettledExpand ==
  ASSUME TypeOK, TypeOK', QueueIsOpenSet, Tree, ClosedIsExpanded, Consistent, Settled, Expand
  PROVE  Settled'
<1>1. PICK e \in queue : Expansion(e)
  BY ExpandPicks
<1>2. PICK n : n = e.item[1]
  OBVIOUS
<1>3. /\ n \in Nodes /\ status[n] = "Open" /\ status'[n] = "Closed" /\ g'[n] = g[n]
  BY <1>1, <1>2, ExpandFacts
<1>4. \A m \in Nodes : Improves(n, m) =>
        /\ m # n /\ <<n, m>> \in Edges /\ status[m] # "Closed"
        /\ status'[m] = "Open" /\ g'[m] = g[n] + cost[<<n, m>>]
  BY <1>1, <1>2, ExpandFacts
<1>5. \A m \in Nodes : m # n /\ ~Improves(n, m) => status'[m] = status[m] /\ g'[m] = g[m]
  BY <1>1, <1>2, ExpandFacts
<1>6. cost' = cost /\ Edges' = Edges /\ h' = h /\ pc = "search"
  BY ExpandPicks DEF Edges
<1>7. \A o \in Nodes : status[o] = "Open" => f(n) <= f(o)
  <2> SUFFICES ASSUME NEW o \in Nodes, status[o] = "Open" PROVE f(n) <= f(o)
    OBVIOUS
  <2>1. pc = "search" /\ First(e)
    BY <1>1, <1>6 DEF Expansion
  <2>2. e.priority = f(n)
    BY <1>2, <2>1 DEF QueueIsOpenSet
  <2>3. PICK d \in queue : d.item[1] = o /\ d.priority = f(o)
    BY <2>1 DEF QueueIsOpenSet
  <2> QED
    BY <2>1, <2>2, <2>3 DEF First
<1>8. \A x, m \in Nodes : <<x, m>> \in Edges =>
        h[x] <= cost[<<x, m>>] + h[m] /\ cost[<<x, m>>] \in Nat
  BY CostIsNat DEF Consistent, TypeOK
<1>9. \A c \in Nodes : status'[c] = "Closed" => c = n \/ (status[c] = "Closed" /\ g'[c] = g[c])
  BY <1>3, <1>4, <1>5
<1>10. \A c \in Nodes : status'[c] = "Closed" => f(c)' = f(c) /\ f(c) <= f(n)
  BY <1>3, <1>6, <1>9, EstimateIsNat DEF f, Settled
<1>11. status'[Start] = "Closed" \/ \A m \in Nodes : status'[m] # "none" => m = Start
  <2>1. CASE status[Start] = "Closed"
    BY <1>3, <1>4, <1>5, <2>1, AStarAssumption
  <2>2. CASE n = Start
    BY <1>3, <2>2
  <2> QED
    BY <1>3, <2>1, <2>2 DEF Settled
<1>12. ASSUME NEW x \in Nodes, NEW m \in Nodes, status'[x] = "Closed", <<x, m>> \in Edges
       PROVE  g'[m] <= g'[x] + cost[<<x, m>>]
  <2>1. /\ g[m] \in Nat /\ g[x] \in Nat /\ g[n] \in Nat /\ h[m] \in Nat
        /\ h[x] \in Nat /\ h[n] \in Nat /\ cost[<<x, m>>] \in Nat
        /\ h[x] <= cost[<<x, m>>] + h[m]
    BY <1>3, <1>8, <1>12, EstimateIsNat
  <2>2. CASE x # n
    <3>1. status[x] = "Closed" /\ g'[x] = g[x]
      BY <1>9, <1>12, <2>2
    <3>2. g[m] <= g[x] + cost[<<x, m>>] /\ status[m] # "none"
      BY <1>12, <3>1 DEF Settled, ClosedIsExpanded
    <3>3. CASE Improves(n, m)
      <4>1. g'[m] < g[m] /\ g'[m] \in Nat
        BY <1>3, <1>4, <3>2, <3>3, NewPriority DEF Improves
      <4> QED
        BY <2>1, <3>1, <3>2, <4>1
    <3>4. CASE ~Improves(n, m)
      BY <1>3, <1>5, <3>1, <3>2, <3>4
    <3> QED
      BY <3>3, <3>4
  <2>3. CASE x = n /\ m = n
    BY <1>3, <2>1, <2>3
  <2>4. CASE x = n /\ m # n /\ Improves(n, m)
    BY <1>3, <1>4, <2>1, <2>4
  <2>5. CASE x = n /\ m # n /\ ~Improves(n, m)
    <3>1. g'[m] = g[m] /\ g'[x] = g[x]
      BY <1>3, <1>5, <2>5
    <3>2. CASE status[m] = "Open"
      BY <1>12, <2>1, <2>5, <3>1, <3>2 DEF Improves
    <3>3. CASE status[m] = "Closed"
      <4>1. f(m) <= f(n)
        BY <1>3, <3>3 DEF Settled
      <4> QED
        BY <1>3, <2>1, <2>5, <3>1, <4>1, EstimateIsNat
    <3>4. status[m] \in {"none", "Open", "Closed"} /\ status[m] # "none"
      BY <1>12, <2>5 DEF TypeOK, Improves
    <3> QED
      BY <3>2, <3>3, <3>4
  <2> QED
    BY <2>2, <2>3, <2>4, <2>5
<1>13. ASSUME NEW c \in Nodes, NEW o \in Nodes, status'[c] = "Closed", status'[o] = "Open"
       PROVE  f(c)' <= f(o)'
  <2>1. f(c)' = f(c) /\ f(c) <= f(n) /\ f(c) \in Nat /\ f(n) \in Nat /\ o # n
    BY <1>3, <1>10, <1>13, EstimateIsNat
  <2>2. f(n) <= f(o)' /\ f(o)' \in Nat
    <3>1. CASE Improves(n, o)
      <4>1. /\ f(o)' = g[n] + cost[<<n, o>>] + h[o] /\ h[n] <= cost[<<n, o>>] + h[o]
            /\ cost[<<n, o>>] \in Nat
        BY <1>3, <1>4, <1>6, <1>8, <3>1 DEF f
      <4> QED
        BY <1>3, <4>1, EstimateIsNat
    <3>2. CASE ~Improves(n, o)
      <4>1. f(o)' = f(o) /\ status[o] = "Open"
        BY <1>5, <1>6, <1>13, <2>1, <3>2 DEF f
      <4> QED
        BY <1>7, <4>1, EstimateIsNat
    <3> QED
      BY <3>1, <3>2
  <2> QED
    BY <2>1, <2>2
<1>14. ASSUME pc' \in {"walk", "found"}, NEW c \in Nodes, status'[c] = "Closed"
       PROVE  f(c)' <= f(Target)'
  <2>1. n = Target
    BY <1>1, <1>2, <1>14 DEF Expansion
  <2> QED
    BY <1>3, <1>10, <1>14, <2>1
<1> QED
  BY <1>6, <1>11, <1>12, <1>13, <1>14 DEF Settled

LEMMA SettledAlways == Spec => [](Consistent => Settled)
<1>1. Init => (Consistent => Settled)
  BY DEF Init, Settled
<1>2. UNCHANGED <<cost, h>> => (Consistent' <=> Consistent)
  BY DEF Consistent, Edges
<1>3. TypeOK /\ TypeOK' /\ QueueIsOpenSet /\ Tree /\ Progress /\ (Consistent => Settled)
        /\ [Next]_vars => (Consistent' => Settled')
  <2> SUFFICES ASSUME TypeOK, TypeOK', QueueIsOpenSet, Tree, Progress,
                      Consistent => Settled, [Next]_vars, Consistent'
               PROVE  Settled'
    OBVIOUS
  <2>1. UNCHANGED <<cost, h>>
    BY ExpandPicks DEF Next, GiveUp, Walk, Done, vars
  <2>2. Consistent /\ Settled
    BY <1>2, <2>1
  <2>3. CASE Expand
    BY <2>2, <2>3, SettledExpand DEF Progress
  <2>4. CASE GiveUp \/ Walk \/ UNCHANGED vars
    <3>1. UNCHANGED <<cost, h, status, g>> /\ (pc' \in {"walk", "found"} => pc \in {"walk", "found"})
      BY <2>4 DEF GiveUp, Walk, vars
    <3> QED
      BY <2>2, <3>1 DEF Settled, Edges, f
  <2> QED
    BY <2>3, <2>4 DEF Next, Done
<1> QED
  BY <1>1, <1>3, SearchTyping, QueueIsOpen, TreeAlways, ProgressAlways, PTL DEF Spec

-----------------------------------------------------------------------------
\* With a consistent heuristic the path that is returned costs what the cheapest
\* costs: f of the target is its distance, on every map.
THEOREM PathAlwaysCheapest == Spec => []PathIsCheapest
<1>1. TypeOK /\ Progress /\ Ranked /\ (Consistent => Settled) => PathIsCheapest
  <2> SUFFICES ASSUME TypeOK, Progress, Ranked, Settled, pc = "found", Consistent
               PROVE  f(Target) = Distance[Target]
    BY DEF PathIsCheapest
  <2> DEFINE last == Cardinality(Nodes)
  <2>1. PICK d : Table(d, last) /\ Distance = d[last]
    BY DistanceIsLastRow
  <2>2. /\ cost \in Graphs /\ last \in Nat /\ last \in 0..last
        /\ Target \in Nodes /\ Start \in Nodes /\ h[Target] = 0
    BY NodesCounted, AStarAssumption DEF TypeOK, Consistent
  <2>3. status[Target] = "Closed" /\ status[Start] = "Closed"
    BY <2>2 DEF Progress, Settled
  <2>4. f(Target) = g[Target] /\ g[Target] \in Nat
    BY <2>2, EstimateIsNat
  <2>5. d[last][Target] \in Nat /\ d[last][Target] <= g[Target]
    <3>1. PICK rank \in [Nodes -> Nat] :
            /\ RankedTree(ClosedSet, rank, g, parent)
            /\ \A n \in ClosedSet : rank[n] < Cardinality(ClosedSet)
      BY DEF Ranked
    <3>2. ClosedSet \in SUBSET Nodes /\ Target \in ClosedSet
      BY <2>2, <2>3 DEF ClosedSet
    <3>3. rank[Target] <= last
      BY <3>1, <3>2, <2>2, ClosedCounted
    <3>4. g \in [Nodes -> Nat] /\ parent \in [Nodes -> Ids]
      BY DEF TypeOK
    <3> HIDE DEF last
    <3>5. \A i \in 0..last, n \in ClosedSet : rank[n] <= i => d[i][n] \in Nat /\ d[i][n] <= g[n]
      BY <2>1, <2>2, <3>1, <3>2, <3>4, TreeBounds
    <3> QED
      BY <2>2, <3>2, <3>3, <3>5
  <2>6. g[Target] <= d[last][Target]
    <3> DEFINE u == [n \in Nodes |-> IF status[n] = "Closed" THEN g[n] ELSE g[Target] - h[n]]
    <3>1. \A n \in Nodes : /\ g[n] \in Nat /\ h[n] \in Nat /\ f(n) = g[n] + h[n]
                           /\ status[n] \in {"none", "Open", "Closed"}
      BY EstimateIsNat DEF TypeOK
    <3>2. u \in [Nodes -> Int]
      BY <2>4, <3>1
    <3>3. u[Start] = 0 /\ u[Target] = g[Target]
      <4>1. g[Start] = 0
        BY DEF Ranked, RankedTree
      <4> QED
        BY <2>2, <2>3, <4>1
    <3>4. ASSUME NEW n \in Nodes, NEW m \in Nodes, <<n, m>> \in Edges
          PROVE  u[m] <= u[n] + cost[<<n, m>>]
      <4>1. /\ cost[<<n, m>>] \in Nat /\ h[n] <= cost[<<n, m>>] + h[m]
        BY <2>2, <3>4, CostIsNat DEF Consistent
      <4>2. CASE status[n] = "Closed" /\ status[m] = "Closed"
        BY <3>4, <4>2 DEF Settled
      <4>3. CASE status[n] = "Closed" /\ status[m] # "Closed"
        <5>1. status[m] = "Open"
          BY <3>1, <3>4, <4>3 DEF Progress, ClosedIsExpanded
        <5>2. f(Target) <= f(m) /\ g[m] <= g[n] + cost[<<n, m>>]
          BY <2>2, <2>3, <3>4, <4>3, <5>1 DEF Settled
        <5> QED
          BY <2>4, <3>1, <4>1, <4>3, <5>2
      <4>4. CASE status[n] # "Closed" /\ status[m] # "Closed"
        BY <2>4, <3>1, <4>1, <4>4
      <4>5. CASE status[n] # "Closed" /\ status[m] = "Closed"
        <5>1. f(m) <= f(Target)
          BY <4>5 DEF Settled
        <5> QED
          BY <2>4, <3>1, <4>1, <4>5, <5>1
      <4> QED
        BY <4>2, <4>3, <4>4, <4>5
    <3> HIDE DEF u, last
    <3>5. \A i \in 0..last, n \in Nodes : d[i][n] # NoWay => u[n] <= d[i][n]
      BY <2>1, <2>2, <3>2, <3>3, <3>4, PotentialBounds
    <3>6. d[last][Target] # NoWay
      BY <2>5 DEF NoWay
    <3> QED
      BY <2>2, <3>3, <3>5, <3>6
  <2> QED
    BY <2>1, <2>4, <2>5, <2>6
<1> QED
  BY <1>1, SearchTyping, ProgressAlways, RankedAlways, SettledAlways, PTL
-----------------------------------------------------------------------------
(* The search comes to an end.                                             *)

\* While it walks, what is behind it and what is before it are not more nodes than
\* are closed: the ranks fall from the target to the start.
Short ==
  pc = "walk" => \E rank \in [Nodes -> Nat] :
                   /\ RankedTree(ClosedSet, rank, g, parent)
                   /\ Len(path) + rank[at[1]] < Cardinality(ClosedSet)

\* One step of the walk: to a node of a lower rank, or, from the start, to the end.
LEMMA WalkGoesDown ==
  ASSUME TypeOK, StartIsOrigin, WalkOK, Walk
  PROVE  /\ Len(path') = Len(path) + 1 /\ Len(path) \in Nat /\ at[1] \in ClosedSet
         /\ pc' = "walk" => at[1] # Start /\ at' = parent[at[1]]
<1>1. at[1] \in Nodes /\ path \in Seq(Nodes)
  BY DEF TypeOK, Ids
<1>2. Len(path') = Len(path) + 1 /\ Len(path) \in Nat
  BY <1>1 DEF Walk
<1>3. at[1] \in ClosedSet
  BY <1>1 DEF Walk, WalkOK, ClosedSet
<1>4. pc' = "walk" => parent[at[1]] # at /\ at' = parent[at[1]]
  BY DEF Walk
<1>5. at[1] = Start => parent[at[1]] = at
  BY DEF StartIsOrigin
<1> QED
  BY <1>2, <1>3, <1>4, <1>5

\* Every step keeps the walk short.
LEMMA ShortStep ==
  ASSUME TypeOK, QueueIsOpenSet, StartIsOrigin, WalkOK, Ranked', Short, [Next]_vars
  PROVE  Short'
<1>1. CASE Expand
  <2>1. PICK e \in queue : Expansion(e)
    BY <1>1, ExpandPicks
  <2>2. status'[e.item[1]] = "Closed" /\ e.item[1] \in Nodes
    BY <1>1, <2>1, ExpandFacts
  <2>3. path' = <<>> /\ at' = e.item
    BY <1>1, <2>1, ExpandPicks DEF WalkOK, Expansion
  <2>4. PICK rank \in [Nodes -> Nat] : /\ RankedTree(ClosedSet, rank, g, parent)'
                                       /\ \A n \in ClosedSet' : rank[n] < Cardinality(ClosedSet')
    BY DEF Ranked
  <2>5. Len(path') = 0 /\ at'[1] \in ClosedSet' /\ rank[at'[1]] \in Nat
    BY <2>2, <2>3 DEF ClosedSet
  <2>6. Len(path') + rank[at'[1]] < Cardinality(ClosedSet')
    BY <2>4, <2>5
  <2> QED
    BY <2>4, <2>6 DEF Short
<1>2. CASE Walk
  <2> SUFFICES ASSUME pc' = "walk" PROVE Short'
    BY DEF Short
  <2>1. /\ Len(path') = Len(path) + 1 /\ Len(path) \in Nat
        /\ at[1] \in ClosedSet /\ at[1] # Start /\ at' = parent[at[1]]
    BY <1>2, WalkGoesDown
  <2>2. pc = "walk" /\ UNCHANGED <<cost, status, g, parent>>
    BY <1>2 DEF Walk
  <2>3. PICK rank \in [Nodes -> Nat] : /\ RankedTree(ClosedSet, rank, g, parent)
                                       /\ Len(path) + rank[at[1]] < Cardinality(ClosedSet)
    BY <2>2 DEF Short
  <2>4. rank[at'[1]] < rank[at[1]] /\ at'[1] \in ClosedSet
    BY <2>1, <2>3 DEF RankedTree
  <2>5. rank[at'[1]] \in Nat /\ rank[at[1]] \in Nat /\ Cardinality(ClosedSet) \in Nat
    BY <2>1, <2>4, ClosedCounted DEF ClosedSet
  <2>6. ClosedSet' = ClosedSet /\ RankedTree(ClosedSet, rank, g, parent)'
    BY <2>2, <2>3 DEF ClosedSet, RankedTree, Edges
  <2>7. Len(path') + rank[at'[1]] < Cardinality(ClosedSet')
    BY <2>1, <2>3, <2>4, <2>5, <2>6
  <2> QED
    BY <2>6, <2>7 DEF Short
<1>3. CASE GiveUp
  BY <1>3 DEF GiveUp, Short
<1>4. CASE UNCHANGED vars
  <2>1. ClosedSet' = ClosedSet /\ Edges' = Edges
    BY <1>4 DEF vars, ClosedSet, Edges
  <2> QED
    BY <1>4, <2>1 DEF vars, Short, RankedTree
<1> QED
  BY <1>1, <1>2, <1>3, <1>4 DEF Next, Done

\* An expansion closes a node that was not closed.
LEMMA ClosesOne ==
  ASSUME TypeOK, QueueIsOpenSet, Expand
  PROVE  Cardinality(ClosedSet') > Cardinality(ClosedSet) /\ Cardinality(ClosedSet') \in Nat
<1>1. PICK e \in queue : Expansion(e)
  BY ExpandPicks
<1>2. PICK n : n = e.item[1]
  OBVIOUS
<1>3. n \in Nodes /\ status[n] = "Open" /\ status'[n] = "Closed"
  BY <1>1, <1>2, ExpandFacts
<1>4. ClosedSet \cup {n} \subseteq ClosedSet' /\ n \notin ClosedSet
  <2>1. \A m \in Nodes : Improves(n, m) =>
          /\ m # n /\ <<n, m>> \in Edges /\ status[m] # "Closed"
          /\ status'[m] = "Open" /\ parent'[m] = e.item
          /\ g'[m] = g[n] + cost[<<n, m>>]
    BY <1>1, <1>2, ExpandFacts
  <2>2. \A m \in Nodes : m # n /\ ~Improves(n, m) =>
          status'[m] = status[m] /\ g'[m] = g[m] /\ parent'[m] = parent[m]
    BY <1>1, <1>2, ExpandFacts
  <2> QED
    BY <1>3, <2>1, <2>2 DEF ClosedSet
<1>5. IsFiniteSet(ClosedSet') /\ Cardinality(ClosedSet') \in Nat
  <2>1. ClosedSet' \subseteq Nodes
    BY DEF ClosedSet
  <2> QED
    BY <2>1, NodesCounted, FS_Subset, FS_CardinalityType
<1>6. Cardinality(ClosedSet \cup {n}) = Cardinality(ClosedSet) + 1
  BY <1>4, ClosedCounted, FS_AddElement
<1>7. Cardinality(ClosedSet \cup {n}) <= Cardinality(ClosedSet')
  BY <1>4, <1>5, FS_Subset
<1> QED
  BY <1>5, <1>6, <1>7, ClosedCounted

\* Every step leaves less to do.
LEMMA WorkStep ==
  ASSUME TypeOK, QueueIsOpenSet, StartIsOrigin, WalkOK, Short, Short', Next, vars' # vars
  PROVE  WorkLeft' < WorkLeft /\ WorkLeft' \in Nat
<1> DEFINE all == Cardinality(Nodes)
<1>1. all \in Nat /\ Cardinality(ClosedSet) \in Nat /\ Cardinality(ClosedSet) <= all
  BY NodesCounted, ClosedCounted
<1>2. Cardinality(ClosedSet') <= all
  <2>1. ClosedSet' \subseteq Nodes
    BY DEF ClosedSet
  <2> QED
    BY <2>1, NodesCounted, FS_Subset
<1>3. /\ pc = "search" => WorkLeft = 2 * all - Cardinality(ClosedSet) + 1
      /\ pc = "walk" => WorkLeft = all - Len(path) + 1
  BY DEF WorkLeft
<1>4. /\ pc' = "search" => WorkLeft' = 2 * all - Cardinality(ClosedSet') + 1
      /\ pc' = "walk" => WorkLeft' = all - Len(path') + 1
      /\ pc' \in {"found", "null"} => WorkLeft' = 0
  BY DEF WorkLeft
<1> HIDE DEF all
<1>5. CASE Expand
  <2>1. Cardinality(ClosedSet') > Cardinality(ClosedSet) /\ Cardinality(ClosedSet') \in Nat
    BY <1>5, ClosesOne
  <2>2. pc = "search" /\ pc' \in {"search", "walk"} /\ path' = <<>>
    BY <1>5 DEF Expand, WalkOK
  <2>3. Len(path') = 0
    BY <2>2
  <2> QED
    BY <1>1, <1>2, <1>3, <1>4, <2>1, <2>2, <2>3
<1>6. CASE GiveUp
  BY <1>1, <1>3, <1>4, <1>6 DEF GiveUp
<1>7. CASE Walk
  <2>1. /\ Len(path') = Len(path) + 1 /\ Len(path) \in Nat /\ at[1] \in ClosedSet
    BY <1>7, WalkGoesDown
  <2>2. pc = "walk" /\ pc' \in {"walk", "found"}
    BY <1>7 DEF Walk
  <2>3. PICK rank \in [Nodes -> Nat] : Len(path) + rank[at[1]] < Cardinality(ClosedSet)
    BY <2>2 DEF Short
  <2>4. rank[at[1]] \in Nat
    BY <2>1 DEF ClosedSet
  <2>5. Len(path) < all
    BY <1>1, <2>1, <2>3, <2>4
  <2> QED
    BY <1>1, <1>3, <1>4, <2>1, <2>2, <2>5
<1> QED
  BY <1>5, <1>6, <1>7 DEF Next, Done

\* On every finite map and with every heuristic, each step leaves less to do, of
\* which there is a natural number: no node is expanded twice, and the walk along the
\* parents does not go in a circle.
THEOREM EveryStepCounts == Spec => WorkGetsLess
<1>1. Init => Short
  BY DEF Init, Short
<1>2. ASSUME TypeOK, QueueIsOpenSet, StartIsOrigin, WalkOK, Short, Short', [Next]_vars
      PROVE  [WorkLeft' < WorkLeft /\ WorkLeft' \in Nat]_vars
  BY <1>2, WorkStep
<1> QED
  BY <1>1, <1>2, ShortStep, SearchTyping, QueueIsOpen, WalkAlways, RankedAlways, PTL
     DEF Spec, WorkGetsLess
=============================================================================
