--------------------------- MODULE SurfaceProofs ---------------------------
(***************************************************************************)
(* What holds of Surface on levels of every size, for every map the game   *)
(* may report and every set of places in view.                             *)
(***************************************************************************)
EXTENDS Surface, TLAPS

\* The kinds observed at the places of a level.
Observed == [Pos -> Kinds \cup {"None"}]

\* Every observation is an update for kinds, a view and marks of some sort; a
\* place that is known is never observed as none.
LEMMA Observation ==
  ASSUME Observe
  PROVE  \E kind \in Observed, view, keepers, readers \in SUBSET Pos :
           /\ \A p \in Pos : kind[p] = "None" => tile[p].kind = "None"
           /\ UpdateLevel(kind, view, keepers, readers)
  <1>1. PICK level \in Levels, view \in Views, keepers \in SUBSET KeeperSpots,
             boulders \in SUBSET BoulderSpots, readers \in {{}} \cup {{p} : p \in Engravings} :
          /\ \A p \in Pos : level[p] = "None" => tile[p].kind = "None"
          /\ UpdateLevel([p \in Pos |-> IF p \in boulders THEN "Boulder" ELSE level[p]],
                         view, keepers, readers)
    BY DEF Observe
  <1> DEFINE kind == [p \in Pos |-> IF p \in boulders THEN "Boulder" ELSE level[p]]
  <1>2. kind \in Observed
    BY LevelAssumption DEF Observed, Kinds
  <1>3. \A p \in Pos : kind[p] = "None" => tile[p].kind = "None"
    BY <1>1
  <1>4. view \in SUBSET Pos /\ keepers \in SUBSET Pos /\ readers \in SUBSET Pos
    BY LevelAssumption
  <1> QED
    BY <1>1, <1>2, <1>3, <1>4

\* A tile that was there has a class; where there was none, the place is NoTile.
LEMMA TileCases ==
  ASSUME NEW t \in Tiles
  PROVE  /\ t.kind = "None" => t = NoTile
         /\ t.kind # "None" =>
              t \in [kind : Kinds, seen : BOOLEAN, visible : BOOLEAN, mark : BOOLEAN]
  BY DEF Tiles, NoTile, Kinds, Walkable

\* An updated tile is a tile of the kind observed.
LEMMA UpdatedTileType ==
  ASSUME NEW t \in Tiles, NEW k \in Kinds \cup {"None"}, NEW v \in BOOLEAN,
         k = "None" => t.kind = "None"
  PROVE  UpdatedTile(t, k, v) \in Tiles /\ UpdatedTile(t, k, v).kind = k
  <1> DEFINE u == UpdatedTile(t, k, v)
  <1>1. CASE t.kind # k
    <2>1. u = NewTile(k, v)
      BY <1>1 DEF UpdatedTile
    <2>2. k \in Kinds /\ (v /\ k # "Ice") \in BOOLEAN
      BY <1>1
    <2>3. NewTile(k, v).kind = k
      BY DEF NewTile
    <2>4. NewTile(k, v) \in Tiles
      BY <2>2 DEF NewTile, Tiles
    <2> QED
      BY <2>1, <2>3, <2>4
  <1>2. CASE t.kind = k /\ k = "None"
    <2>1. t = NoTile
      BY <1>2, TileCases
    <2>2. u = NoTile
      BY <1>2, <2>1 DEF UpdatedTile, NoTile
    <2> QED
      BY <2>2, <1>2 DEF Tiles, NoTile
  <1>3. CASE t.kind = k /\ k # "None"
    <2>1. t \in [kind : Kinds, seen : BOOLEAN, visible : BOOLEAN, mark : BOOLEAN]
      BY <1>3, TileCases
    <2>2. u = [t EXCEPT !.seen = t.seen \/ v \/ (k = "Ice" /\ t.visible), !.visible = v]
      BY <1>3, <2>1 DEF UpdatedTile
    <2>3. (t.seen \/ v \/ (k = "Ice" /\ t.visible)) \in BOOLEAN
      OBVIOUS
    <2> QED
      BY <1>3, <2>1, <2>2, <2>3 DEF Tiles
  <1> QED
    BY <1>1, <1>2, <1>3

\* What an update keeps: of a tile of the kind observed what was seen and marked,
\* of another tile nothing.
LEMMA UpdatedTileFields ==
  ASSUME NEW t \in Tiles, NEW k \in Kinds \cup {"None"}, NEW v \in BOOLEAN
  PROVE  /\ t.kind # k => /\ UpdatedTile(t, k, v).seen <=> (v /\ k # "Ice")
                          /\ UpdatedTile(t, k, v).visible <=> v
         /\ t.kind = k /\ k # "None" =>
              /\ UpdatedTile(t, k, v).seen <=> (t.seen \/ v \/ (k = "Ice" /\ t.visible))
              /\ UpdatedTile(t, k, v).visible <=> v
              /\ UpdatedTile(t, k, v).mark = t.mark
         /\ t.kind = k /\ k = "None" => UpdatedTile(t, k, v) = NoTile
  <1>1. ASSUME t.kind # k
        PROVE  /\ UpdatedTile(t, k, v).seen <=> (v /\ k # "Ice")
               /\ UpdatedTile(t, k, v).visible <=> v
    BY <1>1 DEF UpdatedTile, NewTile
  <1>2. ASSUME t.kind = k, k # "None"
        PROVE  /\ UpdatedTile(t, k, v).seen <=> (t.seen \/ v \/ (k = "Ice" /\ t.visible))
               /\ UpdatedTile(t, k, v).visible <=> v
               /\ UpdatedTile(t, k, v).mark = t.mark
    <2>1. t \in [kind : Kinds, seen : BOOLEAN, visible : BOOLEAN, mark : BOOLEAN]
      BY <1>2, TileCases
    <2>2. UpdatedTile(t, k, v) =
            [t EXCEPT !.seen = t.seen \/ v \/ (k = "Ice" /\ t.visible), !.visible = v]
      BY <1>2, <2>1 DEF UpdatedTile
    <2> QED
      BY <2>1, <2>2
  <1>3. ASSUME t.kind = k, k = "None"
        PROVE  UpdatedTile(t, k, v) = NoTile
    <2>1. t = NoTile
      BY <1>3, TileCases
    <2> QED
      BY <1>3, <2>1 DEF UpdatedTile, NoTile
  <1> QED
    BY <1>1, <1>2, <1>3

\* The tiles after an update, one by one.
LEMMA TilesAfter ==
  ASSUME NEW kind \in Observed, NEW view \in SUBSET Pos,
         NEW keepers \in SUBSET Pos, NEW readers \in SUBSET Pos,
         TypeOK, UpdateLevel(kind, view, keepers, readers), NEW p \in Pos,
         kind[p] = "None" => tile[p].kind = "None"
  PROVE  \E v \in BOOLEAN :
           /\ v <=> p \in view
           /\ tile'[p] \in Tiles /\ tile'[p].kind = kind[p]
           /\ tile'[p].seen = UpdatedTile(tile[p], kind[p], v).seen
           /\ tile'[p].visible = UpdatedTile(tile[p], kind[p], v).visible
           /\ UpdatedTile(tile[p], kind[p], v).mark => tile'[p].mark
  <1> DEFINE observed == [q \in Pos |-> UpdatedTile(tile[q], kind[q], q \in view)]
             marked == Flooded(observed, keepers) \cup ShopDoors(observed, readers)
             v == p \in view
             u == UpdatedTile(tile[p], kind[p], v)
  <1>1. tile' = [q \in Pos |-> [observed[q] EXCEPT !.mark = @ \/ q \in marked]]
    BY DEF UpdateLevel
  <1>2. observed[p] = u
    OBVIOUS
  <1>3. p \in marked => u.kind \in {"Floor", "Door"}
    <2>1. p \in Flooded(observed, keepers) => observed[p].kind = "Floor"
      BY DEF Flooded
    <2>2. p \in ShopDoors(observed, readers) => observed[p].kind = "Door"
      BY DEF ShopDoors
    <2> QED
      BY <2>1, <2>2, <1>2
  <1> HIDE DEF observed, marked
  <1>4. tile'[p] = [u EXCEPT !.mark = u.mark \/ p \in marked]
    BY <1>1, <1>2
  <1>5. tile[p] \in Tiles /\ kind[p] \in Kinds \cup {"None"} /\ v \in BOOLEAN
    BY DEF TypeOK, Observed
  <1>6. v <=> p \in view
    OBVIOUS
  <1> HIDE DEF v
  <1>7. u \in Tiles /\ u.kind = kind[p]
    BY <1>5, UpdatedTileType
  <1>8. SUFFICES /\ tile'[p] \in Tiles /\ tile'[p].kind = u.kind
                 /\ tile'[p].seen = u.seen /\ tile'[p].visible = u.visible
                 /\ u.mark => tile'[p].mark
    BY <1>5, <1>6, <1>7
  <1> HIDE DEF u
  <1>9. CASE u = NoTile
    <2>1. p \notin marked
      BY <1>3, <1>9 DEF NoTile
    <2>2. tile'[p] = NoTile
      BY <1>4, <1>9, <2>1 DEF NoTile
    <2> QED
      BY <1>7, <1>9, <2>2
  <1>10. CASE u \in [kind : Kinds, seen : BOOLEAN, visible : BOOLEAN, mark : BOOLEAN]
    <2>1. tile'[p] = [kind |-> u.kind, seen |-> u.seen, visible |-> u.visible,
                      mark |-> u.mark \/ p \in marked]
      BY <1>4, <1>10
    <2> QED
      BY <1>7, <1>10, <2>1 DEF Tiles
  <1> QED
    BY <1>7, <1>9, <1>10 DEF Tiles

\* What an update makes of one tile, in the terms of the observation.
LEMMA Updated ==
  ASSUME NEW kind \in Observed, NEW view \in SUBSET Pos,
         NEW keepers \in SUBSET Pos, NEW readers \in SUBSET Pos,
         TypeOK, UpdateLevel(kind, view, keepers, readers), NEW p \in Pos,
         kind[p] = "None" => tile[p].kind = "None"
  PROVE  /\ tile'[p] \in Tiles /\ tile'[p].kind = kind[p]
         /\ kind[p] # "None" => (tile'[p].visible <=> p \in view)
         /\ tile[p].kind # kind[p] => (tile'[p].seen <=> (p \in view /\ kind[p] # "Ice"))
         /\ tile[p].kind = kind[p] /\ kind[p] # "None" =>
              /\ tile'[p].seen <=>
                   (tile[p].seen \/ p \in view \/ (kind[p] = "Ice" /\ tile[p].visible))
              /\ tile[p].mark => tile'[p].mark
         /\ kind[p] = "None" => tile'[p] = NoTile
  <1>1. PICK v \in BOOLEAN :
          /\ v <=> p \in view
          /\ tile'[p] \in Tiles /\ tile'[p].kind = kind[p]
          /\ tile'[p].seen = UpdatedTile(tile[p], kind[p], v).seen
          /\ tile'[p].visible = UpdatedTile(tile[p], kind[p], v).visible
          /\ UpdatedTile(tile[p], kind[p], v).mark => tile'[p].mark
    BY TilesAfter
  <1>2. tile[p] \in Tiles /\ kind[p] \in Kinds \cup {"None"}
    BY DEF TypeOK, Observed
  <1>3. kind[p] = "None" => tile'[p] = NoTile
    BY <1>1, TileCases
  <1>4. CASE tile[p].kind # kind[p]
    <2>1. /\ UpdatedTile(tile[p], kind[p], v).seen <=> (v /\ kind[p] # "Ice")
          /\ UpdatedTile(tile[p], kind[p], v).visible <=> v
      BY <1>2, <1>4, UpdatedTileFields
    <2> QED
      BY <1>1, <1>3, <1>4, <2>1
  <1>5. CASE tile[p].kind = kind[p] /\ kind[p] # "None"
    <2>1. /\ UpdatedTile(tile[p], kind[p], v).seen <=>
               (tile[p].seen \/ v \/ (kind[p] = "Ice" /\ tile[p].visible))
          /\ UpdatedTile(tile[p], kind[p], v).visible <=> v
          /\ UpdatedTile(tile[p], kind[p], v).mark = tile[p].mark
      BY <1>2, <1>5, UpdatedTileFields
    <2> QED
      BY <1>1, <1>5, <2>1
  <1> QED
    BY <1>1, <1>3, <1>4, <1>5

\* Rendering changes no more of a tile than that Ice in view is seen.
LEMMA TilesRendered ==
  ASSUME TypeOK, Render, NEW p \in Pos
  PROVE  /\ tile'[p] \in Tiles /\ tile'[p].kind = tile[p].kind
         /\ tile'[p].mark = tile[p].mark /\ tile'[p].visible = tile[p].visible
         /\ tile'[p].seen = (tile[p].seen \/ (tile[p].kind = "Ice" /\ tile[p].visible))
  <1>1. tile[p] \in Tiles
    BY DEF TypeOK
  <1>2. tile'[p] = [tile[p] EXCEPT !.seen =
                      tile[p].seen \/ (tile[p].kind = "Ice" /\ tile[p].visible)]
    BY DEF Render
  <1>3. CASE tile[p].kind = "None"
    <2>1. tile[p] = NoTile
      BY <1>1, <1>3, TileCases
    <2>2. (tile[p].seen \/ (tile[p].kind = "Ice" /\ tile[p].visible)) = FALSE
      BY <2>1 DEF NoTile
    <2>3. tile'[p] = [NoTile EXCEPT !.seen = FALSE]
      BY <1>2, <2>1, <2>2
    <2>4. tile'[p] = tile[p]
      BY <2>1, <2>3 DEF NoTile
    <2>5. tile[p].seen = FALSE
      BY <2>1 DEF NoTile
    <2> QED
      BY <1>1, <2>2, <2>4, <2>5
  <1>4. CASE tile[p].kind # "None"
    <2>1. tile[p] \in [kind : Kinds, seen : BOOLEAN, visible : BOOLEAN, mark : BOOLEAN]
      BY <1>1, <1>4, TileCases
    <2>2. (tile[p].seen \/ (tile[p].kind = "Ice" /\ tile[p].visible)) \in BOOLEAN
      OBVIOUS
    <2> QED
      BY <1>2, <2>1, <2>2 DEF Tiles
  <1> QED
    BY <1>3, <1>4

-----------------------------------------------------------------------------
(* Types, the index of classes and what is remembered.                     *)

\* Every variable has its type, on a level of any size.
THEOREM SurfaceTyping == Spec => []TypeOK
<1>1. Init => TypeOK
  BY DEF Init, TypeOK, Tiles
<1>2. TypeOK /\ [Next]_vars => TypeOK'
  <2> SUFFICES ASSUME TypeOK, [Next]_vars PROVE TypeOK'
    OBVIOUS
  <2>1. CASE Observe
    <3>1. PICK kind \in Observed, view, keepers, readers \in SUBSET Pos :
            /\ \A p \in Pos : kind[p] = "None" => tile[p].kind = "None"
            /\ UpdateLevel(kind, view, keepers, readers)
      BY <2>1, Observation
    <3>2. \A p \in Pos : tile'[p] \in Tiles
      BY <3>1, Updated
    <3>3. tile' \in [Pos -> Tiles]
      BY <3>1, <3>2 DEF UpdateLevel
    <3>4. tileTypes' \in [Kinds -> SUBSET Pos]
      BY <3>1 DEF TypeOK, UpdateLevel, Relist
    <3> QED
      BY <3>1, <3>3, <3>4 DEF TypeOK, UpdateLevel
  <2>2. CASE GetFrontier
    BY <2>2 DEF TypeOK, GetFrontier, Frontier
  <2>3. CASE Render
    <3>1. \A p \in Pos : tile'[p] \in Tiles
      BY <2>3, TilesRendered
    <3>2. tile' \in [Pos -> Tiles]
      BY <2>3, <3>1 DEF Render
    <3> QED
      BY <2>3, <3>2 DEF TypeOK, Render, Frontier
  <2>4. CASE UNCHANGED vars
    BY <2>4 DEF TypeOK, vars
  <2> QED
    BY <2>1, <2>2, <2>3, <2>4 DEF Next
<1> QED
  BY <1>1, <1>2, PTL DEF Spec

\* The index by class always names each known place once, under its class.
THEOREM TypesAlwaysMatch == Spec => []TypesMatchTiles
<1>1. Init => TypesMatchTiles
  BY DEF Init, TypesMatchTiles, NoTile, Kinds, Walkable
<1>2. TypeOK /\ TypesMatchTiles /\ [Next]_vars => TypesMatchTiles'
  <2> SUFFICES ASSUME TypeOK, TypesMatchTiles, [Next]_vars, NEW k \in Kinds
               PROVE  tileTypes'[k] = {p \in Pos : tile'[p].kind = k}
    BY DEF TypesMatchTiles
  <2>1. CASE Observe
    <3>1. tileTypes' = Relist(tile, tile')
      BY <2>1, Observation DEF UpdateLevel
    <3>2. tileTypes[k] = {p \in Pos : tile[p].kind = k}
      BY DEF TypesMatchTiles
    <3> QED
      BY <3>1, <3>2 DEF Relist
  <2>2. CASE GetFrontier
    BY <2>2 DEF GetFrontier, TypesMatchTiles
  <2>3. CASE Render
    <3>1. \A p \in Pos : tile'[p].kind = tile[p].kind
      BY <2>3, TilesRendered
    <3> QED
      BY <2>3, <3>1 DEF Render, TypesMatchTiles
  <2>4. CASE UNCHANGED vars
    BY <2>4 DEF vars, TypesMatchTiles
  <2> QED
    BY <2>1, <2>2, <2>3, <2>4 DEF Next
<1> QED
  BY <1>1, <1>2, SurfaceTyping, PTL DEF Spec

\* What is marked as seen has been in view since its class appeared, and the other
\* way round for every class but Ice.  Ice in view needs a part of its own: the
\* marking that comes late must not come from a place that never was in view.
InViewIsLookedAt ==
  \A p \in Pos : tile[p].visible => p \in looked

\* On levels of every size, nothing is taken as seen that was not looked at
\* (Level.updateTiles, equals and updatedTile of the tiles).
THEOREM SeenAlwaysLookedAt == Spec => [](SeenIsLookedAt /\ InViewIsLookedAt)
<1> DEFINE IInv == SeenIsLookedAt /\ InViewIsLookedAt
<1>1. Init => IInv
  BY DEF Init, SeenIsLookedAt, InViewIsLookedAt, NoTile
<1>2. TypeOK /\ IInv /\ [Next]_vars => IInv'
  <2> SUFFICES ASSUME TypeOK, IInv, [Next]_vars, NEW p \in Pos
               PROVE  /\ tile'[p].seen => p \in looked'
                      /\ p \in looked' /\ tile'[p].kind # "Ice" => tile'[p].seen
                      /\ tile'[p].visible => p \in looked'
    BY DEF SeenIsLookedAt, InViewIsLookedAt
  <2>0. tile[p] \in Tiles
    BY DEF TypeOK
  <2>1. CASE Observe
    <3>1. PICK kind \in Observed, view, keepers, readers \in SUBSET Pos :
            /\ \A q \in Pos : kind[q] = "None" => tile[q].kind = "None"
            /\ UpdateLevel(kind, view, keepers, readers)
      BY <2>1, Observation
    <3>2. /\ tile'[p].kind = kind[p]
          /\ kind[p] # "None" => (tile'[p].visible <=> p \in view)
          /\ tile[p].kind # kind[p] => (tile'[p].seen <=> (p \in view /\ kind[p] # "Ice"))
          /\ tile[p].kind = kind[p] /\ kind[p] # "None" =>
               (tile'[p].seen <=>
                  (tile[p].seen \/ p \in view \/ (kind[p] = "Ice" /\ tile[p].visible)))
          /\ kind[p] = "None" => tile'[p] = NoTile
      BY <3>1, Updated
    <3>3. p \in looked' <=> /\ kind[p] # "None"
                            /\ p \in view \/ (p \in looked /\ kind[p] = tile[p].kind)
      BY <3>1 DEF UpdateLevel
    <3>4. CASE kind[p] = "None"
      BY <3>2, <3>3, <3>4 DEF NoTile
    <3>5. CASE kind[p] # "None" /\ tile[p].kind # kind[p]
      BY <3>2, <3>3, <3>5
    <3>6. CASE kind[p] # "None" /\ tile[p].kind = kind[p]
      BY <3>2, <3>3, <3>6 DEF SeenIsLookedAt, InViewIsLookedAt
    <3> QED
      BY <3>4, <3>5, <3>6
  <2>2. CASE GetFrontier
    BY <2>2 DEF GetFrontier, SeenIsLookedAt, InViewIsLookedAt
  <2>3. CASE Render
    <3>1. /\ tile'[p].kind = tile[p].kind /\ tile'[p].visible = tile[p].visible
          /\ tile'[p].seen = (tile[p].seen \/ (tile[p].kind = "Ice" /\ tile[p].visible))
      BY <2>3, TilesRendered
    <3> QED
      BY <2>3, <3>1 DEF Render, SeenIsLookedAt, InViewIsLookedAt
  <2>4. CASE UNCHANGED vars
    BY <2>4 DEF vars, SeenIsLookedAt, InViewIsLookedAt
  <2> QED
    BY <2>1, <2>2, <2>3, <2>4 DEF Next
<1> QED
  BY <1>1, <1>2, SurfaceTyping, PTL DEF Spec

-----------------------------------------------------------------------------
(* What an observation may not undo.                                       *)

\* No step takes the mark of a shop or a shop door off a place whose class stays.
THEOREM MarksNeverLost == Spec => ShopMarksKept
<1>1. TypeOK /\ [Next]_vars =>
        [\A p \in Pos : (tile[p].mark /\ tile'[p].kind = tile[p].kind) => tile'[p].mark]_vars
  <2> SUFFICES ASSUME TypeOK, Next, NEW p \in Pos,
                      tile[p].mark, tile'[p].kind = tile[p].kind
               PROVE  tile'[p].mark
    OBVIOUS
  <2>1. CASE Observe
    <3>1. PICK kind \in Observed, view, keepers, readers \in SUBSET Pos :
            /\ \A q \in Pos : kind[q] = "None" => tile[q].kind = "None"
            /\ UpdateLevel(kind, view, keepers, readers)
      BY <2>1, Observation
    <3>2. tile'[p].kind = kind[p]
      BY <3>1, Updated
    <3>3. tile[p] \in Tiles
      BY DEF TypeOK
    <3>4. tile[p].kind # "None"
      BY <3>3, TileCases DEF NoTile
    <3> QED
      BY <3>1, <3>2, <3>4, Updated
  <2>2. CASE GetFrontier
    BY <2>2 DEF GetFrontier
  <2>3. CASE Render
    BY <2>3, TilesRendered
  <2> QED
    BY <2>1, <2>2, <2>3 DEF Next
<1> QED
  BY <1>1, SurfaceTyping, PTL DEF Spec, ShopMarksKept

\* A place that was in view is seen or in view still: Ice, which its first
\* observation does not mark, stays in view until the mark comes.
LookedIsSeenOrInView ==
  \A p \in Pos : p \in looked => tile[p].seen \/ tile[p].visible

\* Ice is seen from the second observation of it at the latest.
THEOREM IceSeenAtLast == Spec => IceIsSeenLate
<1>1. Init => LookedIsSeenOrInView
  BY DEF Init, LookedIsSeenOrInView
<1>2. TypeOK /\ SeenIsLookedAt /\ LookedIsSeenOrInView /\ [Next]_vars =>
        /\ LookedIsSeenOrInView'
        /\ [\A p \in Pos : (~asked' /\ tile[p].kind = "Ice" /\ tile'[p].kind = "Ice"
              /\ p \in looked') => tile'[p].seen]_vars
  <2> SUFFICES ASSUME TypeOK, SeenIsLookedAt, LookedIsSeenOrInView, [Next]_vars,
                      NEW p \in Pos
               PROVE  /\ p \in looked' => (tile'[p].seen \/ tile'[p].visible)
                      /\ \/ UNCHANGED vars
                         \/ (~asked' /\ tile[p].kind = "Ice" /\ tile'[p].kind = "Ice"
                              /\ p \in looked') => tile'[p].seen
    BY DEF LookedIsSeenOrInView
  <2>1. CASE Observe
    <3>1. PICK kind \in Observed, view, keepers, readers \in SUBSET Pos :
            /\ \A q \in Pos : kind[q] = "None" => tile[q].kind = "None"
            /\ UpdateLevel(kind, view, keepers, readers)
      BY <2>1, Observation
    <3>2. /\ tile'[p].kind = kind[p]
          /\ kind[p] # "None" => (tile'[p].visible <=> p \in view)
          /\ tile[p].kind = kind[p] /\ kind[p] # "None" =>
               (tile'[p].seen <=>
                  (tile[p].seen \/ p \in view \/ (kind[p] = "Ice" /\ tile[p].visible)))
      BY <3>1, Updated
    <3>3. p \in looked' <=> /\ kind[p] # "None"
                            /\ p \in view \/ (p \in looked /\ kind[p] = tile[p].kind)
      BY <3>1 DEF UpdateLevel
    <3>4. CASE p \in looked' /\ p \in view
      BY <3>2, <3>3, <3>4
    <3>5. CASE p \in looked' /\ p \notin view
      <4>1. kind[p] # "None" /\ p \in looked /\ kind[p] = tile[p].kind
        BY <3>3, <3>5
      <4>2. tile[p].seen \/ tile[p].visible
        BY <4>1 DEF LookedIsSeenOrInView
      <4>3. tile[p].kind # "Ice" => tile[p].seen
        BY <4>1 DEF SeenIsLookedAt
      <4> QED
        BY <3>2, <4>1, <4>2, <4>3
    <3> QED
      BY <3>4, <3>5
  <2>2. CASE GetFrontier
    BY <2>2 DEF GetFrontier, LookedIsSeenOrInView
  <2>3. CASE Render
    <3>1. /\ tile'[p].visible = tile[p].visible
          /\ tile[p].seen => tile'[p].seen
      BY <2>3, TilesRendered
    <3>2. looked' = looked /\ asked'
      BY <2>3 DEF Render
    <3> QED
      BY <3>1, <3>2 DEF LookedIsSeenOrInView
  <2>4. CASE UNCHANGED vars
    BY <2>4 DEF vars, LookedIsSeenOrInView
  <2> QED
    BY <2>1, <2>2, <2>3, <2>4 DEF Next
<1> QED
  BY <1>1, <1>2, SurfaceTyping, SeenAlwaysLookedAt, PTL DEF Spec, IceIsSeenLate

-----------------------------------------------------------------------------
(* The frontiers.                                                          *)

\* A place to explore from: a seen Floor or Door, no shop door, next to an unseen
\* Walkable place.
Needed(p) ==
  /\ tile[p].seen /\ tile[p].kind \in {"Floor", "Door"} /\ ~ShopDoor(p)
  /\ \E q \in Neighbours[p] : Hidden(q) /\ tile[q].kind \in Walkable

\* Between an observation and the next call of getFrontier those out of view are
\* still among the frontiers: they were before.
FrontierKept ==
  smooth => \A p \in Pos : (Needed(p) /\ (asked \/ ~tile[p].visible)) => p \in frontiers

\* Whoever asks for the frontier after every observation misses no place to explore
\* from, on a level of any size, as long as no tile changes its class.
THEOREM NoFrontierEverMissed == Spec => []NoFrontierMissed
<1>1. Init => FrontierKept
  BY DEF Init, FrontierKept, Needed, NoTile
<1>2. TypeOK /\ FrontierKept /\ [Next]_vars => FrontierKept'
  <2> SUFFICES ASSUME TypeOK, FrontierKept, [Next]_vars, smooth', NEW p \in Pos,
                      Needed(p)', asked' \/ ~tile'[p].visible
               PROVE  p \in frontiers'
    BY DEF FrontierKept
  <2>0. Neighbours[p] \subseteq Pos
    BY DEF Neighbours
  <2>1. CASE Observe
    <3>1. PICK kind \in Observed, view, keepers, readers \in SUBSET Pos :
            /\ \A q \in Pos : kind[q] = "None" => tile[q].kind = "None"
            /\ UpdateLevel(kind, view, keepers, readers)
      BY <2>1, Observation
    <3>2. \A q \in Pos :
            /\ tile'[q].kind = kind[q]
            /\ kind[q] # "None" => (tile'[q].visible <=> q \in view)
            /\ tile[q].kind # kind[q] => (tile'[q].seen <=> (q \in view /\ kind[q] # "Ice"))
            /\ tile[q].kind = kind[q] /\ kind[q] # "None" =>
                 /\ tile'[q].seen <=>
                      (tile[q].seen \/ q \in view \/ (kind[q] = "Ice" /\ tile[q].visible))
                 /\ tile[q].mark => tile'[q].mark
      BY <3>1, Updated
    <3>3. /\ smooth /\ asked /\ ~asked' /\ frontiers' = frontiers
          /\ \/ \A q \in Pos : tile[q].kind = "None"
             \/ \A q \in Pos : kind[q] = tile[q].kind
      BY <3>1 DEF UpdateLevel
    <3>4. kind[p] \in {"Floor", "Door"} /\ tile'[p].seen /\ p \notin view
      BY <3>2, <3>3 DEF Needed
    <3>5. \A q \in Pos : kind[q] = tile[q].kind
      BY <3>2, <3>3, <3>4
    <3>6. tile[p].seen /\ tile[p].kind \in {"Floor", "Door"}
      BY <3>2, <3>4, <3>5
    <3>7. ~ShopDoor(p)
      BY <3>2, <3>4, <3>5 DEF Needed, ShopDoor
    <3>8. \E q \in Neighbours[p] : Hidden(q) /\ tile[q].kind \in Walkable
      <4>1. PICK q \in Neighbours[p] : Hidden(q)' /\ tile'[q].kind \in Walkable
        BY DEF Needed, Neighbours
      <4>2. q \in Pos /\ tile[q].kind = kind[q] /\ tile'[q].kind = kind[q]
        BY <2>0, <3>2, <3>5, <4>1
      <4>3. Hidden(q)
        BY <3>2, <4>1, <4>2 DEF Hidden, Known
      <4> QED
        BY <4>1, <4>2, <4>3
    <3>9. Needed(p)
      BY <3>6, <3>7, <3>8 DEF Needed
    <3> QED
      BY <3>3, <3>9 DEF FrontierKept
  <2>2. CASE GetFrontier \/ Render
    <3>1. \A q \in Pos : /\ tile'[q].kind = tile[q].kind /\ tile'[q].mark = tile[q].mark
                         /\ tile[q].seen => tile'[q].seen
                         /\ tile[q].kind # "Ice" => tile'[q].seen = tile[q].seen
      <4>1. CASE GetFrontier
        BY <4>1 DEF GetFrontier
      <4>2. CASE Render
        <5> SUFFICES ASSUME NEW q \in Pos
                     PROVE  /\ tile'[q].kind = tile[q].kind /\ tile'[q].mark = tile[q].mark
                            /\ tile[q].seen => tile'[q].seen
                            /\ tile[q].kind # "Ice" => tile'[q].seen = tile[q].seen
          OBVIOUS
        <5>1. tile[q] \in Tiles
          BY DEF TypeOK
        <5>2. tile[q].seen \in BOOLEAN
          <6>1. CASE tile[q].kind = "None"
            <7>1. tile[q] = NoTile
              BY <5>1, <6>1, TileCases
            <7> QED
              BY <7>1 DEF NoTile
          <6>2. CASE tile[q].kind # "None"
            <7>1. tile[q] \in [kind : Kinds, seen : BOOLEAN, visible : BOOLEAN, mark : BOOLEAN]
              BY <5>1, <6>2, TileCases
            <7> QED
              BY <7>1
          <6> QED
            BY <6>1, <6>2
        <5> QED
          BY <4>2, <5>2, TilesRendered
      <4> QED
        BY <2>2, <4>1, <4>2
    <3>2. frontiers' = Frontier /\ smooth' = smooth
      BY <2>2 DEF GetFrontier, Render
    <3>3. PICK q \in Neighbours[p] : Hidden(q) /\ tile[q].kind \in Walkable
      <4>1. PICK q \in Neighbours[p] : Hidden(q)' /\ tile'[q].kind \in Walkable
        BY DEF Needed, Neighbours
      <4>2. Hidden(q) /\ tile[q].kind \in Walkable
        BY <2>0, <3>1, <4>1 DEF Hidden, Known
      <4> QED
        BY <4>2
    <3>4. tile[p].seen /\ tile[p].kind \in {"Floor", "Door"} /\ ~ShopDoor(p)
      BY <3>1 DEF Needed, ShopDoor
    <3>5. Needed(p)
      BY <3>3, <3>4 DEF Needed
    <3>6. CASE tile[p].visible
      BY <3>2, <3>3, <3>4, <3>6 DEF Frontier, NewFrontier, Walkable
    <3>7. CASE ~tile[p].visible
      <4>1. p \in frontiers
        BY <3>2, <3>5, <3>7 DEF FrontierKept
      <4>2. p \notin Spent
        BY <3>3 DEF Spent
      <4> QED
        BY <3>2, <4>1, <4>2 DEF Frontier
    <3> QED
      BY <3>6, <3>7
  <2>3. CASE UNCHANGED vars
    BY <2>3 DEF vars, FrontierKept, Needed, ShopDoor, Hidden, Known
  <2> QED
    BY <2>1, <2>2, <2>3 DEF Next
<1>3. FrontierKept => NoFrontierMissed
  BY DEF FrontierKept, NoFrontierMissed, Needed
<1> QED
  BY <1>1, <1>2, <1>3, SurfaceTyping, PTL DEF Spec
=============================================================================
