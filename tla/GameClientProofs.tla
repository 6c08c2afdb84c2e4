--------------------------- MODULE GameClientProofs ---------------------------
(***************************************************************************)
(* Safety of GameClient for every set of levels and places, timeout and    *)
(* length of game.  ClientInv is inductive: the part about the game        *)
(* numbers its levels and bounds the graph that links them, and the part   *)
(* about the agent says how far it may be behind the game at each place of *)
(* the run.                                                                *)
(***************************************************************************)
EXTENDS GameClient, FiniteSetTheorems, SequenceTheorems, TLAPS

(* The types of the game's own data, and what TypeOK does not say of them. *)
TurnOK == /\ turn \in Turns /\ turn.step <= turn.nr
          /\ done \in BOOLEAN /\ prev \in Seq(Turns) /\ Len(prev) <= 1
LevelsOK == /\ here \in [dlvl : Dlvls, lvl : LvlNrs, pos : Positions]
            /\ areas \in Seq(Dlvls) /\ DOMAIN index \subseteq Dlvls
            /\ \A d \in DOMAIN index : index[d] \in LvlNrs
LinksOK == /\ entrances \subseteq Locs
           /\ idMap \subseteq [hash : Locs, key : Locs, node : NodeNrs]
           /\ edges \subseteq NodeNrs \X NodeNrs
           /\ nodes \in Nat /\ nodes + 2 <= 2 * Len(areas)
DungeonOK == LevelsOK /\ NumbersNameAreas /\ LinksOK

\* The agent's last prayer is the one that the game state knows.
PrayerOK == /\ lastPrayer \in {Never} \cup 1..MaxTime
            /\ lastPrayer = prayed /\ prayed <= turn.time

\* The agent has seen the turn, or is one turn behind between a step and the
\* update of the state that follows it; before its first look it knows nothing.
UpToDate == seen[1] = turn /\ wom = turn.nr
Behind   == /\ ~done /\ pc \in {"fast", "mainUpdate", "end"}
            /\ turn.nr = seen[1].nr + 1 /\ Before(seen[1], turn)
AgentOK ==
  /\ pc \in {"create", "replay", "start", "fast", "main", "fastAct", "mainAct",
             "mainUpdate", "end"}
  /\ wom \in 0..MaxTurns /\ trace \in Seq(Turns)
  /\ seen \in Seq(Turns) /\ Len(seen) <= 1
  /\ pc \in {"create", "replay", "start"} => seen = <<>>
  /\ seen = <<>> => trace = <<>> /\ (done \/ pc \in {"create", "replay", "start"})
  /\ seen # <<>> => trace # <<>> /\ seen[1] = trace[Len(trace)] /\ (UpToDate \/ Behind)
  /\ pc \in {"fastAct", "mainAct"} => ~done
  /\ \A i \in 1..(Len(trace) - 1) : /\ trace[i + 1].nr = trace[i].nr + 1
                                    /\ Before(trace[i], trace[i + 1])

ClientInv == TurnOK /\ DungeonOK /\ PrayerOK /\ PrevIsPredecessor /\ AgentOK

-----------------------------------------------------------------------------
(* The levels and their links.                                             *)

\* What the bounds are.
LEMMA Bounds ==
  /\ IsFiniteSet(Dlvls) /\ Cardinality(Dlvls) \in Nat
  /\ MaxTurns \in Nat /\ MaxTime \in Nat /\ MaxTime > 0 /\ Timeout \in Nat
  BY GameAssumption, FS_CardinalityType DEF GameAssumption

\* The levels that have a number are finitely many, and one that has none is
\* missing among them.
LEMMA LevelsLeft ==
  ASSUME LevelsOK
  PROVE  /\ IsFiniteSet(DOMAIN index)
         /\ Cardinality(DOMAIN index) \in Nat
         /\ Cardinality(DOMAIN index) <= Cardinality(Dlvls)
         /\ \A d \in Dlvls \ DOMAIN index :
              /\ Cardinality(DOMAIN index \cup {d}) = Cardinality(DOMAIN index) + 1
              /\ Cardinality(DOMAIN index) < Cardinality(Dlvls)
<1>1. DOMAIN index \subseteq Dlvls
  BY DEF LevelsOK
<1>2. /\ IsFiniteSet(DOMAIN index) /\ Cardinality(DOMAIN index) \in Nat
      /\ Cardinality(DOMAIN index) <= Cardinality(Dlvls)
  BY <1>1, Bounds, FS_Subset, FS_CardinalityType
<1>3. ASSUME NEW d \in Dlvls \ DOMAIN index
      PROVE  /\ Cardinality(DOMAIN index \cup {d}) = Cardinality(DOMAIN index) + 1
             /\ Cardinality(DOMAIN index) < Cardinality(Dlvls)
  <2>1. Cardinality(DOMAIN index \cup {d}) = Cardinality(DOMAIN index) + 1
    BY <1>2, FS_AddElement
  <2>2. Cardinality(DOMAIN index \cup {d}) <= Cardinality(Dlvls)
    <3>1. DOMAIN index \cup {d} \subseteq Dlvls
      BY <1>1
    <3> QED
      BY <3>1, Bounds, FS_Subset
  <2> QED
    BY <1>2, <2>1, <2>2, Bounds
<1> QED
  BY <1>2, <1>3

\* The number of a level of the game is in range.
LEMMA LevelNrType ==
  ASSUME DungeonOK, NEW d \in Dlvls
  PROVE  LevelNr(d) \in LvlNrs
<1>1. CASE d \in DOMAIN index
  BY <1>1 DEF LevelNr, DungeonOK, LevelsOK
<1>2. CASE d \notin DOMAIN index
  <2>1. LevelNr(d) = Cardinality(DOMAIN index)
    BY <1>2 DEF LevelNr, DungeonOK, NumbersNameAreas
  <2>2. Cardinality(DOMAIN index) < Cardinality(Dlvls) /\ Cardinality(DOMAIN index) \in Nat
    BY <1>2, LevelsLeft DEF DungeonOK
  <2> QED
    BY <2>1, <2>2, Bounds DEF LvlNrs
<1> QED
  BY <1>1, <1>2

\* A known level: the player is in it.
LEMMA KnownLevel ==
  ASSUME DungeonOK, NEW dlvl \in DOMAIN index, NEW pos \in Positions,
         here' = [dlvl |-> dlvl, lvl |-> LevelNr(dlvl), pos |-> pos],
         UNCHANGED dungeon
  PROVE  DungeonOK'
<1>1. dlvl \in Dlvls /\ LevelNr(dlvl) = index[dlvl] /\ LevelNr(dlvl) \in LvlNrs
  BY LevelNrType DEF DungeonOK, LevelsOK, LevelNr
<1>2. LevelsOK' /\ NumbersNameAreas'
  BY <1>1 DEF DungeonOK, LevelsOK, NumbersNameAreas, dungeon
<1>3. LinksOK'
  BY DEF DungeonOK, LinksOK, dungeon
<1> QED
  BY <1>2, <1>3 DEF DungeonOK

\* A new level gets the next number, and the areas the next place.
LEMMA NewLevel ==
  ASSUME DungeonOK, NEW dlvl \in Dlvls, dlvl \notin DOMAIN index, NEW pos \in Positions,
         here' = [dlvl |-> dlvl, lvl |-> LevelNr(dlvl), pos |-> pos],
         areas' = Append(areas, dlvl),
         index' = [d \in DOMAIN index \cup {dlvl} |-> LevelNr(d)]
  PROVE  LevelsOK' /\ NumbersNameAreas' /\ Len(areas') = Len(areas) + 1
<1>1. /\ areas' \in Seq(Dlvls) /\ Len(areas') = Len(areas) + 1 /\ Len(areas) \in Nat
      /\ areas'[Len(areas) + 1] = dlvl
      /\ \A i \in 1..Len(areas) : areas'[i] = areas[i]
      /\ DOMAIN areas = 1..Len(areas) /\ DOMAIN areas' = 1..(Len(areas) + 1)
  BY AppendProperties, LenProperties DEF DungeonOK, LevelsOK
<1>2. /\ DOMAIN index' = DOMAIN index \cup {dlvl} /\ index'[dlvl] = Len(areas)
      /\ \A d \in DOMAIN index : index'[d] = index[d]
  BY DEF LevelNr
<1>3. LevelNr(dlvl) = Len(areas) /\ LevelNr(dlvl) \in LvlNrs
  BY LevelNrType DEF LevelNr
<1>4. LevelsOK'
  BY <1>1, <1>2, <1>3 DEF LevelsOK, DungeonOK
<1>5. Len(areas') = Cardinality(DOMAIN index')
  BY <1>1, <1>2, LevelsLeft DEF DungeonOK, NumbersNameAreas
<1>6. ASSUME NEW d \in DOMAIN index'
      PROVE  index'[d] + 1 \in DOMAIN areas' /\ areas'[index'[d] + 1] = d
  <2>1. CASE d = dlvl
    BY <1>1, <1>2, <2>1
  <2>2. CASE d \in DOMAIN index
    BY <1>1, <1>2, <2>2 DEF DungeonOK, NumbersNameAreas, LevelsOK, LvlNrs
  <2> QED
    BY <1>2, <1>6, <2>1, <2>2
<1>7. here'.dlvl \in DOMAIN index' /\ here'.lvl = index'[here'.dlvl]
  BY <1>2, <1>3
<1> QED
  BY <1>1, <1>4, <1>5, <1>6, <1>7 DEF NumbersNameAreas

Entries == [hash : Locs, key : Locs, node : NodeNrs]

\* A place is found once it has been entered.
LEMMA EntryTypes ==
  ASSUME NEW m \in SUBSET Entries, NEW loc \in Locs, NEW node \in NodeNrs
  PROVE  /\ Found(m, loc) \subseteq NodeNrs
         /\ NewEntries(m, loc, node) \subseteq Entries
         /\ NewEntries(m, loc, node) = {} \/
              \E e \in Entries : NewEntries(m, loc, node) = {e}
         /\ Found(m \cup NewEntries(m, loc, node), loc) # {}
<1> DEFINE e == [hash |-> loc, key |-> loc, node |-> node]
<1>1. e \in Entries
  BY DEF Entries
<1>2. Found(m, loc) \subseteq NodeNrs
  BY DEF Found, Entries
<1>3. CASE Found(m, loc) = {}
  <2>1. NewEntries(m, loc, node) = {e}
    BY <1>3 DEF NewEntries
  <2>2. e.node \in Found(m \cup {e}, loc)
    BY DEF Found
  <2> QED
    BY <1>1, <1>2, <2>1, <2>2
<1>4. CASE Found(m, loc) # {}
  <2>1. NewEntries(m, loc, node) = {}
    BY <1>4 DEF NewEntries
  <2>2. m \cup {} = m
    OBVIOUS
  <2> QED
    BY <1>2, <1>4, <2>1, <2>2
<1> QED
  BY <1>3, <1>4

\* The links of a new level: at most two places get a node, and two numbers of
\* nodes are left as long as a level is.
LEMMA NewLinks ==
  ASSUME DungeonOK, NEW dlvl \in Dlvls, dlvl \notin DOMAIN index,
         NEW pos \in Positions, Len(areas') = Len(areas) + 1,
         LinkLevels(pos, LevelNr(dlvl))
  PROVE  LinksOK'
<1> DEFINE from    == Loc(here.lvl, here.pos)
           to      == Loc(0, pos)
           mapFrom == idMap \cup NewEntries(idMap, from, nodes)
           count   == IF Found(idMap, from) = {} THEN nodes + 1 ELSE nodes
           added   == NewEntries(mapFrom, to, count)
           moved   == {[e EXCEPT !.key = Loc(LevelNr(dlvl), pos)] : e \in added}
           a       == CHOOSE n \in Found(mapFrom, from) : TRUE
           b       == CHOOSE n \in Found(mapFrom \cup added, to) : TRUE
           places  == (IF Found(idMap, from) = {} THEN {from} ELSE {})
                        \cup (IF added = {} THEN {} ELSE {to})
<1>1. /\ idMap' = mapFrom \cup moved
      /\ nodes' = count + Cardinality(added)
      /\ edges' = edges \cup {<<a, b>>, <<b, a>>}
      /\ entrances' = entrances \cup places
  BY DEF LinkLevels
<1>2. from \in Locs /\ to \in Locs /\ Loc(LevelNr(dlvl), pos) \in Locs
  <2>1. 0 \in LvlNrs
    BY LevelNrType, Bounds DEF LvlNrs
  <2> QED
    BY <2>1, LevelNrType DEF Loc, Locs, DungeonOK, LevelsOK
<1>3. /\ nodes \in Nat /\ nodes + 2 <= 2 * Len(areas) /\ Len(areas) \in Nat
      /\ Len(areas) < Cardinality(Dlvls)
  BY LevelsLeft DEF DungeonOK, LinksOK, NumbersNameAreas
<1>4. nodes \in NodeNrs /\ count \in NodeNrs /\ count \in Nat /\ count <= nodes + 1
  BY <1>3, Bounds DEF NodeNrs
<1>5. idMap \in SUBSET Entries
  BY DEF DungeonOK, LinksOK, Entries
<1>6. mapFrom \in SUBSET Entries /\ Found(mapFrom, from) # {}
  BY <1>2, <1>4, <1>5, EntryTypes
<1>7. /\ added \subseteq Entries
      /\ added = {} \/ \E e \in Entries : added = {e}
      /\ Found(mapFrom \cup added, to) # {}
  <2>1. mapFrom \in SUBSET Entries /\ to \in Locs /\ count \in NodeNrs
    BY <1>2, <1>4, <1>6
  <2> HIDE DEF mapFrom, count, from, to
  <2> QED
    BY <2>1, EntryTypes, Zenon
<1>8. a \in NodeNrs
  <2>1. Found(mapFrom, from) \subseteq NodeNrs
    <3> HIDE DEF mapFrom, from
    <3> QED
      BY <1>2, <1>4, <1>6, EntryTypes
  <2> QED
    BY <1>6, <2>1
<1>9. b \in NodeNrs
  <2>1. mapFrom \cup added \in SUBSET Entries
    BY <1>6, <1>7
  <2>2. Found(mapFrom \cup added, to) \subseteq NodeNrs
    <3> HIDE DEF mapFrom, added, to
    <3> QED
      BY <1>2, <1>4, <2>1, EntryTypes
  <2> QED
    BY <1>7, <2>2
<1>10. moved \subseteq Entries
  <2> HIDE DEF added
  <2> QED
    BY <1>2, <1>7 DEF Entries
<1>11. Cardinality(added) \in {0, 1}
  <2> HIDE DEF added
  <2> QED
    BY <1>7, FS_EmptySet, FS_Singleton
<1>12. nodes' \in Nat /\ nodes' + 2 <= 2 * Len(areas')
  <2> HIDE DEF count, added
  <2> QED
    BY <1>1, <1>3, <1>4, <1>11
<1>13. idMap' \subseteq Entries
  <2> HIDE DEF mapFrom, moved
  <2> QED
    BY <1>1, <1>6, <1>10
<1>14. edges' \subseteq NodeNrs \X NodeNrs
  <2> HIDE DEF a, b
  <2> QED
    BY <1>1, <1>8, <1>9 DEF DungeonOK, LinksOK
<1>15. entrances' \subseteq Locs
  <2>1. places \subseteq Locs
    <3> HIDE DEF from, to, added
    <3> QED
      BY <1>2
  <2> HIDE DEF places
  <2> QED
    BY <1>1, <2>1 DEF DungeonOK, LinksOK
<1> QED
  BY <1>12, <1>13, <1>14, <1>15 DEF LinksOK, Entries

-----------------------------------------------------------------------------
(* The steps.                                                              *)

\* An observation comes later than the turn before.
LEMMA Observed ==
  ASSUME ClientInv, NEW prayerTurn, UpdateGameState(prayerTurn), turn.nr < MaxTurns
  PROVE  /\ turn' \in Turns /\ turn'.step <= turn'.nr /\ turn'.nr = turn.nr + 1
         /\ Before(turn, turn') /\ turn.time <= turn'.time
         /\ lastPrayer' = prayerTurn /\ done' = FALSE
         /\ DungeonOK'
<1>1. PICK time \in turn.time..MaxTime, dlvl \in Dlvls, pos \in Positions :
        /\ turn' = UpdateTurn(time) /\ lastPrayer' = prayerTurn /\ done' = FALSE
        /\ here' = [dlvl |-> dlvl, lvl |-> LevelNr(dlvl), pos |-> pos]
        /\ IF dlvl \in DOMAIN index THEN UNCHANGED dungeon
           ELSE /\ areas' = Append(areas, dlvl)
                /\ index' = [d \in DOMAIN index \cup {dlvl} |-> LevelNr(d)]
                /\ LinkLevels(pos, LevelNr(dlvl))
  BY DEF UpdateGameState, CarryPrayer
<1>2. turn \in Turns /\ turn.step <= turn.nr
  BY DEF ClientInv, TurnOK
<1>3. /\ turn.time \in 1..MaxTime /\ turn.step \in Nat /\ turn.nr \in Nat
      /\ time \in 1..MaxTime /\ turn.time <= time
  BY <1>2, Bounds DEF Turns
<1>4. /\ turn' = [time |-> time, nr |-> turn.nr + 1,
                  step |-> IF time = turn.time THEN turn.step + 1 ELSE 0]
      /\ turn.nr + 1 \in 0..MaxTurns
      /\ (IF time = turn.time THEN turn.step + 1 ELSE 0) \in 0..MaxTurns
  BY <1>1, <1>2, <1>3, Bounds DEF UpdateTurn
<1>5. turn' \in Turns /\ turn'.step <= turn'.nr /\ turn'.nr = turn.nr + 1
  BY <1>2, <1>3, <1>4 DEF Turns
<1>6. Before(turn, turn') /\ turn.time <= turn'.time
  BY <1>3, <1>4 DEF Before
<1>7. DungeonOK'
  <2>1. DungeonOK
    BY DEF ClientInv
  <2>2. CASE dlvl \in DOMAIN index
    BY <1>1, <2>1, <2>2, KnownLevel
  <2>3. CASE dlvl \notin DOMAIN index
    <3>1. LevelsOK' /\ NumbersNameAreas' /\ Len(areas') = Len(areas) + 1
      BY <1>1, <2>1, <2>3, NewLevel
    <3>2. LinksOK'
      BY <1>1, <2>1, <2>3, <3>1, NewLinks
    <3> QED
      BY <3>1, <3>2 DEF DungeonOK
  <2> QED
    BY <2>2, <2>3
<1> QED
  BY <1>1, <1>5, <1>6, <1>7

\* What a step of the game leaves behind, whether the game goes on or ends.
LEMMA Stepped ==
  ASSUME ClientInv, NEW prayerTurn, Step(prayerTurn)
  PROVE  /\ ~done /\ lastPrayer' = prayerTurn /\ turn.time <= turn'.time
         /\ TurnOK' /\ DungeonOK' /\ PrevIsPredecessor'
         /\ \/ done' = FALSE /\ turn'.nr = turn.nr + 1 /\ Before(turn, turn')
            \/ done' = TRUE /\ turn' = turn
<1>1. ~done /\ turn.nr < MaxTurns /\ prev' = <<turn>>
  BY DEF Step
<1>2. turn \in Turns /\ turn.nr \in Nat /\ turn.time \in Nat
  BY DEF ClientInv, TurnOK, Turns
<1>3. prev' \in Seq(Turns) /\ Len(prev') = 1 /\ prev'[1] = turn /\ prev' # <<>>
  BY <1>1, <1>2
<1>4. CASE UpdateGameState(prayerTurn)
  <2>1. /\ turn' \in Turns /\ turn'.step <= turn'.nr /\ turn'.nr = turn.nr + 1
        /\ Before(turn, turn') /\ turn.time <= turn'.time
        /\ lastPrayer' = prayerTurn /\ done' = FALSE /\ DungeonOK'
    BY <1>1, <1>4, Observed
  <2>2. TurnOK'
    <3>1. done' \in BOOLEAN
      BY <2>1, Zenon
    <3>2. Len(prev') <= 1
      BY <1>3
    <3> QED
      BY <1>3, <2>1, <3>1, <3>2, Zenon DEF TurnOK
  <2>3. PrevIsPredecessor'
    BY <1>2, <1>3, <2>1 DEF PrevIsPredecessor
  <2> QED
    BY <1>1, <2>1, <2>2, <2>3
<1>5. CASE GameOver(prayerTurn)
  <2>1. done' = TRUE /\ turn' = turn /\ lastPrayer' = prayerTurn /\ UNCHANGED <<here, dungeon>>
    BY <1>5 DEF GameOver
  <2>2. DungeonOK'
    <3>1. LevelsOK' /\ NumbersNameAreas'
      BY <2>1 DEF ClientInv, DungeonOK, LevelsOK, NumbersNameAreas, dungeon
    <3>2. LinksOK'
      BY <2>1 DEF ClientInv, DungeonOK, LinksOK, dungeon
    <3> QED
      BY <3>1, <3>2 DEF DungeonOK
  <2>3. TurnOK'
    BY <1>3, <2>1 DEF ClientInv, TurnOK
  <2>4. PrevIsPredecessor'
    BY <1>1, <2>1, <1>3 DEF PrevIsPredecessor
  <2> QED
    BY <1>1, <1>2, <2>1, <2>2, <2>3, <2>4
<1> QED
  BY <1>4, <1>5 DEF Step

\* A step of the game leaves the agent one turn behind, or, when it ends the
\* game, where it was; the world model is renewed or left alone.
LEMMA AgentAfterStep ==
  ASSUME ClientInv, NEW prayerTurn, Step(prayerTurn),
         pc \in {"main", "fastAct", "mainAct"},
         pc' \in {"fast", "mainUpdate", "end"},
         UNCHANGED <<seen, trace>>, wom' = wom \/ wom' = turn'.nr
  PROVE  AgentOK'
<1>1. /\ ~done
      /\ \/ done' = FALSE /\ turn'.nr = turn.nr + 1 /\ Before(turn, turn')
         \/ done' = TRUE /\ turn' = turn
      /\ turn' \in Turns
  BY Stepped DEF TurnOK
<1>2. AgentOK
  BY DEF ClientInv
<1>3. seen # <<>> /\ UpToDate
  BY <1>1, <1>2 DEF AgentOK, Behind
<1>4. wom' \in 0..MaxTurns
  BY <1>1, <1>2 DEF AgentOK, Turns
<1>5. UpToDate' \/ Behind'
  <2>1. CASE done' = FALSE /\ turn'.nr = turn.nr + 1 /\ Before(turn, turn')
    <3>1. ~done'
      BY <2>1, Zenon
    <3>2. turn'.nr = seen'[1].nr + 1 /\ Before(seen'[1], turn')
      BY <1>3, <2>1 DEF UpToDate
    <3> QED
      BY <3>1, <3>2 DEF Behind
  <2>2. CASE done' = TRUE /\ turn' = turn
    BY <1>3, <2>2 DEF UpToDate
  <2> QED
    BY <1>1, <2>1, <2>2
<1> QED
  BY <1>2, <1>3, <1>4, <1>5 DEF AgentOK

\* The update of the state brings the agent up to date, and the trace with it,
\* unless the game has ended.
LEMMA AgentUpdates ==
  ASSUME ClientInv, UpdateState, UNCHANGED <<turn, done>>,
         pc \notin {"create", "replay"},
         pc' \in {"fast", "main", "fastAct", "mainAct"},
         pc' \in {"fastAct", "mainAct"} => ~done
  PROVE  AgentOK'
<1>1. AgentOK /\ turn \in Turns
  BY DEF ClientInv, TurnOK
<1>2. CASE done
  <2>1. UNCHANGED agentVars
    BY <1>2 DEF UpdateState
  <2>2. seen # <<>> => UpToDate
    BY <1>1, <1>2 DEF AgentOK, Behind
  <2> QED
    BY <1>1, <1>2, <2>1, <2>2 DEF AgentOK, agentVars, UpToDate
<1>3. CASE ~done /\ seen # <<>> /\ UpToDate
  <2>1. UNCHANGED agentVars
    BY <1>3 DEF UpdateState, UpToDate, SameTurn
  <2> QED
    BY <1>1, <1>3, <2>1 DEF AgentOK, agentVars, UpToDate
<1>4. CASE ~done /\ (seen = <<>> \/ Behind)
  <2>1. wom' = turn.nr /\ seen' = <<turn>> /\ trace' = Append(trace, turn)
    <3>1. seen # <<>> => seen[1] \in Turns
      BY <1>1 DEF AgentOK
    <3>2. seen # <<>> => ~ SameTurn(seen[1], turn)
      BY <1>1, <1>4, <3>1 DEF Behind, Before, SameTurn, Turns
    <3> QED
      BY <1>4, <3>2, Zenon DEF UpdateState
  <2>2. /\ wom' \in 0..MaxTurns /\ seen' \in Seq(Turns) /\ Len(seen') <= 1
        /\ seen' # <<>> /\ seen'[1] = turn'
    BY <1>1, <2>1 DEF Turns
  <2>3. /\ trace' \in Seq(Turns) /\ trace' # <<>> /\ Len(trace') = Len(trace) + 1
        /\ trace'[Len(trace')] = turn /\ Len(trace) \in Nat
        /\ \A i \in 1..Len(trace) : trace'[i] = trace[i]
    BY <1>1, <2>1, AppendProperties, LenProperties DEF AgentOK
  <2>4. ASSUME NEW i \in 1..(Len(trace') - 1)
        PROVE  trace'[i + 1].nr = trace'[i].nr + 1 /\ Before(trace'[i], trace'[i + 1])
    <3>1. CASE i < Len(trace)
      BY <1>1, <2>3, <3>1 DEF AgentOK
    <3>2. CASE i = Len(trace)
      <4>1. trace # <<>> /\ Len(trace) > 0
        BY <1>1, <2>3, <3>2 DEF AgentOK
      <4>2. seen # <<>> /\ seen[1] = trace[i] /\ Behind
        BY <1>1, <1>4, <3>2, <4>1 DEF AgentOK
      <4> QED
        BY <2>3, <3>2, <4>2 DEF Behind
    <3> QED
      BY <2>3, <3>1, <3>2
  <2>5. UpToDate'
    BY <2>1, <2>2 DEF UpToDate
  <2> QED
    BY <2>2, <2>3, <2>4, <2>5, <1>4 DEF AgentOK
<1> QED
  BY <1>1, <1>2, <1>3, <1>4 DEF AgentOK

\* What does not touch the game leaves its part of the invariant.
LEMMA GameKept ==
  ASSUME ClientInv, UNCHANGED <<gameState, prev, prayed>>
  PROVE  TurnOK' /\ DungeonOK' /\ PrayerOK' /\ PrevIsPredecessor'
<1>1. UNCHANGED <<turn, here, lastPrayer, done, areas, index, entrances, idMap, edges, nodes>>
  BY DEF gameState, dungeon
<1>2. TurnOK' /\ PrayerOK' /\ PrevIsPredecessor'
  BY <1>1 DEF ClientInv, TurnOK, PrayerOK, PrevIsPredecessor
<1>3. LevelsOK' /\ NumbersNameAreas' /\ LinksOK'
  BY <1>1 DEF ClientInv, DungeonOK, LevelsOK, NumbersNameAreas, LinksOK
<1> QED
  BY <1>2, <1>3 DEF DungeonOK

\* A step that is no prayer carries the time of the last one along.
LEMMA PrayerCarried ==
  ASSUME ClientInv, Step(lastPrayer), prayed' = prayed
  PROVE  PrayerOK'
<1>1. lastPrayer' = lastPrayer /\ turn.time <= turn'.time /\ TurnOK'
  BY Stepped
<1> QED
  BY <1>1, Bounds DEF ClientInv, PrayerOK, TurnOK, Turns, Never

\* After a prayer the game state knows of it.
LEMMA PrayerNoted ==
  ASSUME ClientInv, Step(turn.time), prayed' = turn.time
  PROVE  PrayerOK'
<1>1. lastPrayer' = turn.time /\ turn.time <= turn'.time /\ TurnOK'
  BY Stepped
<1> QED
  BY <1>1, Bounds DEF ClientInv, PrayerOK, TurnOK, Turns, Never

\* Every step keeps the invariant.
LEMMA ClientStep == ClientInv /\ [Next]_vars => ClientInv'
<1> SUFFICES ASSUME ClientInv, [Next]_vars PROVE ClientInv'
  OBVIOUS
<1>0. AgentOK
  BY DEF ClientInv
<1>1. CASE Create \/ EndReplay
  <2>1. /\ UNCHANGED <<gameState, prev, prayed, agentVars>>
        /\ pc \in {"create", "replay"} /\ pc' \in {"replay", "start"}
    BY <1>1 DEF Create, EndReplay
  <2>2. AgentOK'
    BY <1>0, <2>1 DEF AgentOK, agentVars
  <2> QED
    BY <2>1, <2>2, GameKept DEF ClientInv
<1>2. CASE ReplayStep
  <2>1. AgentOK'
    BY <1>0, <1>2 DEF AgentOK, ReplayStep, agentVars
  <2> QED
    BY <1>2, <2>1, Stepped, PrayerCarried DEF ReplayStep, ClientInv
<1>3. CASE Start \/ Sense \/ EndFast \/ MainUpdate
  <2>1. /\ UNCHANGED <<gameState, prev, prayed>> /\ UpdateState
        /\ pc \notin {"create", "replay"}
        /\ pc' \in {"fast", "main", "fastAct", "mainAct"}
        /\ pc' \in {"fastAct", "mainAct"} => ~done
    BY <1>3 DEF Start, Sense, EndFast, MainUpdate
  <2>2. UNCHANGED <<turn, done>>
    BY <2>1 DEF gameState
  <2> QED
    BY <2>1, <2>2, GameKept, AgentUpdates DEF ClientInv
<1>4. CASE Pray
  <2>1. /\ Step(turn.time) /\ prayed' = turn.time /\ pc \in {"fastAct", "mainAct"}
        /\ wom' = turn'.nr /\ UNCHANGED <<seen, trace>>
    BY <1>4 DEF Pray, NewWOM
  <2>2. pc' \in {"fast", "mainUpdate", "end"}
    BY <1>4, Zenon DEF Pray, AfterUpdate
  <2> QED
    BY <2>1, <2>2, Stepped, PrayerNoted, AgentAfterStep DEF ClientInv
<1>5. CASE Act \/ Approach
  <2>1. /\ Step(lastPrayer) /\ prayed' = prayed /\ pc \in {"fastAct", "mainAct"}
        /\ (wom' = turn'.nr \/ wom' = wom)
        /\ UNCHANGED <<seen, trace>>
    BY <1>5 DEF Act, Approach, NewWOM, agentVars
  <2>2. pc' \in {"fast", "mainUpdate", "end"}
    BY <1>5, Zenon DEF Act, Approach, AfterUpdate
  <2> QED
    BY <2>1, <2>2, Stepped, PrayerCarried, AgentAfterStep DEF ClientInv
<1>6. CASE UserStep
  <2>1. /\ Step(lastPrayer) /\ prayed' = prayed /\ pc = "main" /\ pc' = "mainUpdate"
        /\ wom' = wom /\ UNCHANGED <<seen, trace>>
    BY <1>6 DEF UserStep, agentVars
  <2> QED
    BY <2>1, Stepped, PrayerCarried, AgentAfterStep DEF ClientInv
<1>7. CASE Abort \/ EndMain
  <2>1. /\ UNCHANGED <<gameState, prev, prayed, agentVars>>
        /\ pc \in {"main", "fastAct", "mainAct"} /\ pc' = "end"
    BY <1>7 DEF Abort, EndMain
  <2>2. UNCHANGED <<turn, done>>
    BY <2>1 DEF gameState
  <2>3. AgentOK'
    BY <1>0, <2>1, <2>2 DEF AgentOK, agentVars, UpToDate, Behind
  <2> QED
    BY <2>1, <2>3, GameKept DEF ClientInv
<1>8. CASE UNCHANGED vars
  <2>1. UNCHANGED <<gameState, prev, prayed, agentVars, pc>>
    BY <1>8 DEF vars
  <2>2. UNCHANGED <<turn, done>>
    BY <2>1 DEF gameState
  <2>3. AgentOK'
    BY <1>0, <2>1, <2>2 DEF AgentOK, agentVars, UpToDate, Behind
  <2> QED
    BY <2>1, <2>3, GameKept DEF ClientInv
<1> QED
  BY <1>1, <1>2, <1>3, <1>4, <1>5, <1>6, <1>7, <1>8 DEF Next, InvalidStep, Ended

\* The invariant holds from the first observation on.
LEMMA ClientAlways == Spec => []ClientInv
<1>1. Init => ClientInv
  <2> SUFFICES ASSUME Init PROVE ClientInv
    OBVIOUS
  <2>1. TurnOK
    <3>1. turn \in Turns /\ turn.step <= turn.nr
      BY Bounds DEF Init, Turns
    <3>2. prev \in Seq(Turns) /\ Len(prev) <= 1
      BY EmptySeq DEF Init
    <3> QED
      BY <3>1, <3>2, Zenon DEF Init, TurnOK
  <2>2. PICK d \in Dlvls, p \in Positions : here = [dlvl |-> d, lvl |-> 0, pos |-> p]
    BY DEF Init
  <2>3. areas = <<d>> /\ index = [e \in {d} |-> 0]
    BY <2>2 DEF Init
  <2>4. Cardinality({d}) = 1 /\ Cardinality(Dlvls) >= 1
    <3>1. {d} \subseteq Dlvls
      OBVIOUS
    <3>2. Cardinality({d}) = 1
      BY FS_Singleton
    <3>3. Cardinality({d}) <= Cardinality(Dlvls)
      BY <3>1, Bounds, FS_Subset
    <3> QED
      BY <3>2, <3>3, Bounds
  <2>5. LevelsOK /\ NumbersNameAreas
    BY <2>2, <2>3, <2>4, Bounds DEF LevelsOK, NumbersNameAreas, LvlNrs
  <2>6. LinksOK
    BY <2>3 DEF Init, LinksOK
  <2>7. PrayerOK
    BY DEF Init, PrayerOK, Never
  <2>8. AgentOK /\ PrevIsPredecessor
    BY Bounds DEF Init, AgentOK, PrevIsPredecessor
  <2> QED
    BY <2>1, <2>5, <2>6, <2>7, <2>8 DEF ClientInv, DungeonOK
<1> QED
  BY <1>1, ClientStep, PTL DEF Spec

-----------------------------------------------------------------------------
(* The theorems.                                                           *)

\* Every variable of the client has its type: the numbers of levels and nodes
\* stay in range however often levels are left and found again.
THEOREM ClientTyping == Spec => []TypeOK
<1>1. ClientInv => TypeOK
  <2> SUFFICES ASSUME ClientInv PROVE TypeOK
    OBVIOUS
  <2>1. nodes \in NodeNrs
    BY LevelsLeft, Bounds DEF ClientInv, DungeonOK, LinksOK, NumbersNameAreas, NodeNrs
  <2>2. prayed \in {Never} \cup 1..MaxTime
    BY DEF ClientInv, PrayerOK
  <2> QED
    BY <2>1, <2>2 DEF ClientInv, TurnOK, DungeonOK, LevelsOK, LinksOK, PrayerOK,
       AgentOK, TypeOK
<1> QED
  BY <1>1, ClientAlways, PTL

\* The numbers of the levels are their places among the areas, in every order of
\* visits, and the player's location has the number of its level.
THEOREM LevelNumbersAgree == Spec => []NumbersNameAreas
<1>1. ClientInv => NumbersNameAreas
  BY DEF ClientInv, DungeonOK
<1> QED
  BY <1>1, ClientAlways, PTL

\* The state kept beside the game's is the one of the turn before, also after
\* commands that do not exist and at the end of the game.
THEOREM PreviousIsPredecessor == Spec => []PrevIsPredecessor
<1>1. ClientInv => PrevIsPredecessor
  BY DEF ClientInv
<1> QED
  BY <1>1, ClientAlways, PTL

\* Wherever the agent chooses an action, its world model is the newest
\* observation.
THEOREM AgentDecidesOnCurrent == Spec => []DecidesOnCurrent
<1>1. ClientInv => DecidesOnCurrent
  BY DEF ClientInv, AgentOK, Behind, UpToDate, DecidesOnCurrent
<1> QED
  BY <1>1, ClientAlways, PTL

\* The printed trace is the gapless history of the game since the agent came in.
THEOREM TraceComplete == Spec => []TraceIsHistory
<1>1. ClientInv => TraceIsHistory
  <2> SUFFICES ASSUME ClientInv PROVE TraceIsHistory
    OBVIOUS
  <2>1. AgentOK /\ turn \in Turns
    BY DEF ClientInv, TurnOK
  <2>2. ASSUME trace # <<>>
        PROVE  turn.nr - trace[Len(trace)].nr \in {0, 1}
    <3>1. seen # <<>> /\ seen[1] = trace[Len(trace)] /\ (UpToDate \/ Behind)
      BY <2>1, <2>2 DEF AgentOK
    <3>2. seen[1] \in Turns
      BY <2>1, <3>1 DEF AgentOK
    <3> QED
      BY <2>1, <3>1, <3>2 DEF UpToDate, Behind, Turns
  <2> QED
    BY <2>1, <2>2 DEF AgentOK, TraceIsHistory
<1> QED
  BY <1>1, ClientAlways, PTL

\* No two prayers of the agent are too close, for every timeout: the guard in
\* GoalLib, which subtracts the wrong way round, never lets it pray twice.
THEOREM PrayersKeepApart == Spec => PrayersApart
<1>1. ClientInv /\ [Next]_vars =>
        [prayed' # prayed => prayed = Never \/ turn.time - prayed > Timeout]_vars
  <2> SUFFICES ASSUME ClientInv, Next, prayed' # prayed PROVE prayed = Never
    OBVIOUS
  <2>1. Pray
    BY Zenon DEF Next, Create, ReplayStep, EndReplay, Start, Sense, Act, Approach,
       Abort, EndFast, UserStep, InvalidStep, MainUpdate, EndMain, Ended, vars
  <2>2. lastPrayer = Never \/ lastPrayer - turn.time > Timeout
    BY <2>1 DEF Pray, MayPray
  <2>3. /\ lastPrayer = prayed /\ lastPrayer \in {-1} \cup 1..MaxTime
        /\ prayed <= turn.time /\ turn.time \in Nat
    BY DEF ClientInv, PrayerOK, TurnOK, Turns, Never
  <2> QED
    BY <2>2, <2>3, Bounds DEF Never
<1> QED
  BY <1>1, ClientAlways, PTL DEF Spec, PrayersApart
=============================================================================
