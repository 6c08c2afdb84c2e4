------------------------------ MODULE Surface ------------------------------
(***************************************************************************)
(* What the client keeps of the map of one level, and where exploration    *)
(* may go on from there: Level.java and the tile part of GridSurface.java, *)
(* with the tiles of nethack/world/tiles.                                  *)
(*                                                                         *)
(* An observation names every tile of the level, also those never in view; *)
(* what has been in view is the tile's own `seen'.  An object of the class *)
(* observed is updated in place, one of another class is replaced.  Kinds  *)
(* stand for classes: Floor and Door carry the marks of shops, Ice is the  *)
(* class whose getVisibility, not setVisibility, marks it as seen, Wall is *)
(* any tile that is not Walkable, Boulder the tile put where an entity     *)
(* "boulder" lies.                                                         *)
(*                                                                         *)
(* frontiers is kept from one call of getFrontier to the next, and only    *)
(* tiles in view during a call are added to it.                            *)
(***************************************************************************)
EXTENDS Integers, FiniteSets

CONSTANTS
  Width, Height, \* the size of a level, 79 by 21 in Level.java
  Levels,        \* the maps the game may report: a kind, or "None", everywhere
  Views,         \* the sets of places that may be in view at one time
  BoulderSpots,  \* where boulders may lie
  KeeperSpots,   \* where shopkeepers may stand
  Engravings     \* where "Closed for inventory" may be read

Pos == (0 .. Width - 1) \X (0 .. Height - 1)
Walkable == {"Floor", "Door", "Ice"}
Kinds == Walkable \cup {"Wall", "Boulder"}

ASSUME LevelAssumption ==
  /\ Width \in Nat /\ Height \in Nat
  /\ Levels \subseteq [Pos -> (Kinds \ {"Boulder"}) \cup {"None"}]
  /\ Views \subseteq SUBSET Pos
  /\ BoulderSpots \subseteq Pos /\ KeeperSpots \subseteq Pos /\ Engravings \subseteq Pos

VARIABLES
  tile,      \* tiles: what is known of each place
  tileTypes, \* the places of each class
  frontiers, \* the frontiers kept
  looked,    \* (history) the places in view at some time since their class appeared
  asked,     \* (history) getFrontier was called since the last observation
  smooth     \* (history) it was after every observation, and no class changed

vars == <<tile, tileTypes, frontiers, looked, asked, smooth>>

\* mark is Floor.isShop or Door.isShopDoor.
NoTile == [kind |-> "None", seen |-> FALSE, visible |-> FALSE, mark |-> FALSE]

Tiles == {NoTile} \cup [kind : Kinds, seen : BOOLEAN, visible : BOOLEAN, mark : BOOLEAN]

Init ==
  /\ tile = [p \in Pos |-> NoTile]
  /\ tileTypes = [k \in Kinds |-> {}]
  /\ frontiers = {} /\ looked = {}
  /\ asked = TRUE /\ smooth = TRUE

\* neighbourCoordinates with diagonals.
Neighbours ==
  [p \in Pos |-> {q \in Pos \ {p} : q[1] - p[1] \in -1 .. 1 /\ q[2] - p[2] \in -1 .. 1}]

-----------------------------------------------------------------------------
(* An observation.                                                         *)

\* A tile as the decoder or Level.updateTiles makes it.
NewTile(kind, visible) ==
  [kind |-> kind, seen |-> visible /\ kind # "Ice", visible |-> visible, mark |-> FALSE]

\* (mutant) A tile is new in each observation.
ForgetTile(t, kind, visible) == IF kind = "None" THEN t ELSE NewTile(kind, visible)

\* (mutant) A place in view is seen, tile or none.
SeeNoTile(t, kind, visible) ==
  IF t.kind # kind THEN NewTile(kind, visible)
  ELSE [t EXCEPT !.seen = @ \/ visible \/ (kind = "Ice" /\ t.visible), !.visible = visible]

\* The tile t once `kind' is observed there.  The comparison that precedes the
\* update asks both tiles for their visibility, which marks Ice as seen.
UpdatedTile(t, kind, visible) ==
  IF t.kind # kind THEN NewTile(kind, visible)
  ELSE [t EXCEPT !.seen = @ \/ (kind # "None" /\ (visible \/ (kind = "Ice" /\ t.visible))),
                 !.visible = kind # "None" /\ visible]

\* (mutant) The old class keeps the place.
NeverUnlist(old, new) ==
  [k \in Kinds |-> tileTypes[k] \cup {p \in Pos : old[p].kind # k /\ new[p].kind = k}]

\* replaceTile: the places of each class after the tiles `old' became `new'.
Relist(old, new) ==
  [k \in Kinds |-> (tileTypes[k] \ {p \in Pos : old[p].kind = k /\ new[p].kind # k})
                     \cup {p \in Pos : old[p].kind # k /\ new[p].kind = k}]

\* markShops: the Floor not yet marked among the places a queue reaches that begins
\* with the shopkeepers and goes on with the neighbours of such Floor.
Flooded(t, keepers) ==
  LET plain == {p \in Pos : t[p].kind = "Floor" /\ ~t[p].mark}
      queued[n \in 0 .. Cardinality(Pos)] ==
        IF n = 0 THEN keepers
        ELSE UNION {{p} \cup Neighbours[p] : p \in plain \cap queued[n - 1]}
  IN  plain \cap queued[Cardinality(Pos)]

\* markShopDoors, at the places (one or none) where the message is read.
ShopDoors(t, places) ==
  {p \in Pos : t[p].kind = "Door" /\ Neighbours[p] \cap places # {}}

\* Level.updateLevel, and markShopDoors at the places `readers', for the kinds
\* observed.
UpdateLevel(kind, view, keepers, readers) ==
  LET observed == [p \in Pos |-> UpdatedTile(tile[p], kind[p], p \in view)]
      marked   == Flooded(observed, keepers) \cup ShopDoors(observed, readers)
  IN  /\ tile' = [p \in Pos |-> [observed[p] EXCEPT !.mark = @ \/ p \in marked]]
      /\ tileTypes' = Relist(tile, tile')
      /\ looked' = {p \in Pos : kind[p] # "None" /\
                       (p \in view \/ (p \in looked /\ kind[p] = tile[p].kind))}
      /\ asked' = FALSE
      /\ smooth' = (smooth /\ asked /\ (\/ \A p \in Pos : tile[p].kind = "None"
                                        \/ \A p \in Pos : kind[p] = tile[p].kind))
      /\ UNCHANGED frontiers

\* An observation of this level: the map, the places in view, the boulders, the
\* shopkeepers and the message are the game's.  A level just met reads no message.
Observe ==
  \E level \in Levels, view \in Views, keepers \in SUBSET KeeperSpots,
     boulders \in SUBSET BoulderSpots, readers \in {{}} \cup {{p} : p \in Engravings} :
    /\ \A p \in boulders : level[p] \in Walkable
    /\ \A p \in Pos : level[p] = "None" => tile[p].kind = "None"
    /\ readers # {} => \E p \in Pos : tile[p].kind # "None"
    /\ UpdateLevel([p \in Pos |-> IF p \in boulders THEN "Boulder" ELSE level[p]],
                   view, keepers, readers)

-----------------------------------------------------------------------------
(* The frontiers.                                                          *)

Known(p) == tile[p].kind # "None"
Hidden(p) == Known(p) /\ ~tile[p].seen
ShopDoor(p) == tile[p].kind = "Door" /\ tile[p].mark

\* A frontier goes once no neighbour is known and unseen, walkable or not.
Spent == {p \in frontiers : \A q \in Neighbours[p] : ~Hidden(q)}

\* A tile that the loop of getFrontier adds.
NewFrontier(p) ==
  /\ tile[p].seen /\ tile[p].kind \in Walkable /\ ~ShopDoor(p) /\ tile[p].visible
  /\ \E q \in Neighbours[p] : Hidden(q) /\ tile[q].kind \in Walkable

\* (mutant) The frontiers are those in view.
FrontierInView == {p \in Pos : NewFrontier(p)}

\* getFrontier: what it returns, and keeps.
Frontier == (frontiers \ Spent) \cup {p \in Pos : NewFrontier(p)}

\* HierarchicalNavigation.explore, or whoever else asks.
GetFrontier ==
  /\ frontiers' = Frontier
  /\ asked' = TRUE
  /\ UNCHANGED <<tile, tileTypes, looked, smooth>>

\* Surface.toString, for AgentState.render: the frontiers first; then each tile
\* is asked for its visibility, which marks Ice as seen.
Render ==
  /\ frontiers' = Frontier
  /\ asked' = TRUE
  /\ tile' = [p \in Pos |-> [tile[p] EXCEPT !.seen =
                @ \/ (tile[p].kind = "Ice" /\ tile[p].visible)]]
  /\ UNCHANGED <<tileTypes, looked, smooth>>

Next == Observe \/ GetFrontier \/ Render

Spec == Init /\ [][Next]_vars

-----------------------------------------------------------------------------
(* Properties.                                                             *)

\* Every variable has its type.
TypeOK ==
  /\ tile \in [Pos -> Tiles]
  /\ tileTypes \in [Kinds -> SUBSET Pos]
  /\ frontiers \subseteq Pos /\ looked \subseteq Pos
  /\ asked \in BOOLEAN /\ smooth \in BOOLEAN

\* The index by class that the tile selectors search names each known place once,
\* under the class of the tile that is there now, whatever was there before.
TypesMatchTiles == \A k \in Kinds : tileTypes[k] = {p \in Pos : tile[p].kind = k}

\* What is marked as seen is what has been in view since its class appeared,
\* however many observations ago; only Ice may have been in view and not count.
SeenIsLookedAt ==
  \A p \in Pos : /\ tile[p].seen => p \in looked
                 /\ p \in looked /\ tile[p].kind # "Ice" => tile[p].seen

\* Ice counts as seen from the second observation of it at the latest, though
\* its setVisibility does not mark it.
IceIsSeenLate ==
  [][\A p \in Pos : (~asked' /\ tile[p].kind = "Ice" /\ tile'[p].kind = "Ice" /\ p \in looked')
        => tile'[p].seen]_vars

\* A place marked as shop or shop door keeps the mark, which no observation
\* carries, for as long as its class stays.
ShopMarksKept ==
  [][\A p \in Pos : (tile[p].mark /\ tile'[p].kind = tile[p].kind) => tile'[p].mark]_vars

\* Only tiles in view are added to the frontiers.  That misses nothing while
\* getFrontier is called after every observation and no tile changes its class:
\* each seen place next to an unseen Walkable one is then a frontier, in view or
\* not.  Doors of shops are left out on purpose, Ice by the way it is seen.
NoFrontierMissed ==
  (asked /\ smooth) =>
    \A p \in Pos : (/\ tile[p].seen /\ tile[p].kind \in {"Floor", "Door"} /\ ~ShopDoor(p)
                   /\ \E q \in Neighbours[p] : Hidden(q) /\ tile[q].kind \in Walkable)
                  => p \in frontiers
=============================================================================
