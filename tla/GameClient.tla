----------------------------- MODULE GameClient -----------------------------
(***************************************************************************)
(* What the client keeps of a game: the GameState that NetHack.java builds *)
(* from the observations, the copy it takes of the one before, the numbers *)
(* and links of the levels in Dungeon and HierarchicalGraph, and what      *)
(* AgentState derives from it for the agent and for the printed trace.     *)
(*                                                                         *)
(* The game is the environment: after each step it shows any level, place  *)
(* and time that is not earlier, or ends.  The agent is aplib's, which is  *)
(* not part of the repository: its update first updates the state and then *)
(* executes at most one action of the tactics in GoalLib.                  *)
(*                                                                         *)
(* Dungeon.newLevel registers the place of arrival while the level of that *)
(* object is still 0; the assignment that follows changes the object, which *)
(* by then is a key of a HashMap.  An entry of the map is therefore [hash, *)
(* key, node]: it is found by a place that equals both.                    *)
(***************************************************************************)
EXTENDS Integers, Sequences, FiniteSets

CONSTANTS
  Dlvls,      \* the levels of the game, as the observations name them
  Positions,  \* the places of a level
  Timeout,    \* prayerTimeout, 900 in GoalLib
  StuckAfter, \* steps without time passing after which the run is given up
  MaxTime,    \* bound: the game time, which starts at 1
  MaxTurns    \* bound: the observations after the first

ASSUME GameAssumption ==
  /\ IsFiniteSet(Dlvls) /\ IsFiniteSet(Positions)
  /\ {Timeout, StuckAfter, MaxTime, MaxTurns} \subseteq Nat
  /\ MaxTime > 0

VARIABLES
  pc,          \* where App is; "fastAct" and "mainAct" are inside agent.update
  turn,        \* gameState.stats.turn, once there is one
  here,        \* gameState.player.location, with the dlvl of the stats
  lastPrayer,  \* gameState.player.lastPrayerTurn
  done,        \* gameState.done
  prev,        \* the turns of previousGameState: <<>> (null) or of length 1
  areas,       \* dungeon.levels, and the areas of hierarchicalNav: the dlvl of each
  index,       \* dungeon.indexes
  entrances,   \* levelToEntrancesMap
  idMap,       \* positionToAbstractNodeIdMap
  edges,       \* the edges of abstractGraph, between numbers of nodes
  nodes,       \* the number of nodes of abstractGraph
  wom,         \* the turn number of the observation in the world model
  seen,        \* AgentState.previousTurn, as a sequence of at most one
  trace,       \* NetHack.stateTrace: the turn of each state
  prayed       \* (history) the time of the agent's last prayer

dungeon   == <<areas, index, entrances, idMap, edges, nodes>>
gameState == <<turn, here, lastPrayer, done, dungeon>>
agentVars == <<wom, seen, trace>>
vars == <<pc, gameState, prev, agentVars, prayed>>

Never == -1
Loc(lvl, pos) == [lvl |-> lvl, pos |-> pos]
SameTurn(s, t) == s.time = t.time /\ s.step = t.step
Before(s, t) == s.time < t.time \/ (s.time = t.time /\ s.step < t.step)

\* The reset in the constructor of NetHack has brought the first observation.
Init ==
  /\ pc = "create"
  /\ turn = [time |-> 1, step |-> 0, nr |-> 0]
  /\ \E d \in Dlvls, p \in Positions : here = [dlvl |-> d, lvl |-> 0, pos |-> p]
  /\ lastPrayer = Never /\ done = FALSE /\ prev = <<>>
  /\ areas = <<here.dlvl>> /\ index = [d \in {here.dlvl} |-> 0]
  /\ entrances = {} /\ idMap = {} /\ edges = {} /\ nodes = 0
  /\ wom = 0 /\ seen = <<>> /\ trace = <<>> /\ prayed = Never

-----------------------------------------------------------------------------
(* The levels.                                                             *)

\* (mutant) A new level is in the list before its number is taken.
LevelNrPastEnd(dlvl) == IF dlvl \in DOMAIN index THEN index[dlvl] ELSE Len(areas) + 1

\* (mutant) A known level is taken for the newest one.
LevelNrOfNewest(dlvl) == IF dlvl \in DOMAIN index THEN Len(areas) - 1 ELSE Len(areas)

\* The number of a level: that of its first observation.
LevelNr(dlvl) == IF dlvl \in DOMAIN index THEN index[dlvl] ELSE Len(areas)

\* getAbsNodeId in the map m: the nodes of a place, at most one.
Found(m, loc) == {e.node : e \in {x \in m : x.hash = loc /\ x.key = loc}}

\* addAbstractNode: the entry for a place that is not found yet.
NewEntries(m, loc, node) ==
  IF Found(m, loc) = {} THEN {[hash |-> loc, key |-> loc, node |-> node]} ELSE {}

\* Dungeon.newLevel, for a player who comes from another level, and the level
\* number that updateGameState then sets in the place of arrival.
LinkLevels(pos, lvlNr) ==
  LET from    == Loc(here.lvl, here.pos)
      to      == Loc(0, pos)
      mapFrom == idMap \cup NewEntries(idMap, from, nodes)
      count   == IF Found(idMap, from) = {} THEN nodes + 1 ELSE nodes
      added   == NewEntries(mapFrom, to, count)
      moved   == {[e EXCEPT !.key = Loc(lvlNr, pos)] : e \in added}
      a       == CHOOSE n \in Found(mapFrom, from) : TRUE
      b       == CHOOSE n \in Found(mapFrom \cup added, to) : TRUE
      places  == (IF Found(idMap, from) = {} THEN {from} ELSE {})
                   \cup (IF added = {} THEN {} ELSE {to})
  IN  /\ idMap' = mapFrom \cup moved
      /\ nodes' = count + Cardinality(added)
      /\ edges' = edges \cup {<<a, b>>, <<b, a>>}
      /\ entrances' = entrances \cup places

-----------------------------------------------------------------------------
(* An observation.                                                         *)

\* (mutant) Every observation is step 0 of its time.
UpdateTurnNoStep(time) == [time |-> time, step |-> 0, nr |-> turn.nr + 1]

\* Turn.updateTurn: time as observed, and a step number while it stands still.
UpdateTurn(time) == [time |-> time,
                     step |-> IF time = turn.time THEN turn.step + 1 ELSE 0,
                     nr   |-> turn.nr + 1]

\* (mutant) The time of the last prayer stays with the old player object.
LosePrayer(prayerTurn) == lastPrayer' = Never

\* The time of the last prayer is carried over from the old player object.
CarryPrayer(prayerTurn) == lastPrayer' = prayerTurn

\* updateGameState, unless the game has ended.
UpdateGameState(prayerTurn) ==
  \E time \in turn.time..MaxTime, dlvl \in Dlvls, pos \in Positions :
    /\ turn' = UpdateTurn(time)
    /\ CarryPrayer(prayerTurn) /\ done' = FALSE
    /\ here' = [dlvl |-> dlvl, lvl |-> LevelNr(dlvl), pos |-> pos]
    /\ IF dlvl \in DOMAIN index THEN UNCHANGED dungeon
       ELSE /\ areas' = Append(areas, dlvl)
            /\ index' = [d \in DOMAIN index \cup {dlvl} |-> LevelNr(d)]
            /\ LinkLevels(pos, LevelNr(dlvl))

\* The end of the game changes nothing but done.
GameOver(prayerTurn) ==
  /\ lastPrayer' = prayerTurn /\ done' = TRUE
  /\ UNCHANGED <<turn, here, dungeon>>

\* stepServerSideCommand for commands that exist: a copy of the state is kept,
\* and the state updated.
Step(prayerTurn) ==
  /\ ~done /\ turn.nr < MaxTurns
  /\ prev' = <<turn>>
  /\ UpdateGameState(prayerTurn) \/ GameOver(prayerTurn)

-----------------------------------------------------------------------------
(* The agent's state.                                                      *)

\* (mutant) The state is taken for unchanged while the game time stands still.
UpdateStateByTime ==
  IF done \/ (seen # <<>> /\ seen[1].time = turn.time)
  THEN UNCHANGED agentVars
  ELSE wom' = turn.nr /\ seen' = <<turn>> /\ trace' = Append(trace, turn)

\* AgentState.updateState: nothing to do for a game that has ended, and for a
\* turn that it has seen.
UpdateState ==
  IF done \/ (seen # <<>> /\ SameTurn(seen[1], turn))
  THEN UNCHANGED agentVars
  ELSE wom' = turn.nr /\ seen' = <<turn>> /\ trace' = Append(trace, turn)

\* getNewWOM at the end of an action: only the world model is renewed.
NewWOM == wom' = turn'.nr /\ UNCHANGED <<seen, trace>>

-----------------------------------------------------------------------------
(* The run: agent/App.java.                                                *)

\* The constructors of NetHack, with or without a replay to follow.
Create ==
  /\ pc = "create"
  /\ pc' \in {"replay", "start"}
  /\ UNCHANGED <<gameState, prev, agentVars, prayed>>

\* The agent is not there yet when the commands of a replay are executed.
ReplayStep ==
  /\ pc = "replay" /\ Step(lastPrayer)
  /\ UNCHANGED <<pc, agentVars, prayed>>

EndReplay ==
  /\ pc = "replay"
  /\ pc' = "start"
  /\ UNCHANGED <<gameState, prev, agentVars, prayed>>

\* The first updateState of runAgent; then the fast-forward, if there is one.
Start ==
  /\ pc = "start" /\ UpdateState
  /\ pc' \in {"fast", "main"}
  /\ UNCHANGED <<gameState, prev, prayed>>

\* agent.update begins with an updateState.
Sense ==
  /\ pc \in {"fast", "main"} /\ ~done /\ UpdateState
  /\ pc' = IF pc = "fast" THEN "fastAct" ELSE "mainAct"
  /\ UNCHANGED <<gameState, prev, prayed>>

\* Where the loops go on after agent.update: the fast-forward gives up when the
\* game is over or seems stuck.
AfterUpdate == pc' = IF pc = "mainAct" THEN "mainUpdate"
                     ELSE IF done' \/ turn'.step > StuckAfter THEN "end" ELSE "fast"

\* The guard of the prayer in resolveHungerState, but for the hunger.
MayPray == lastPrayer = Never \/ lastPrayer - turn.time > Timeout

Pray ==
  /\ pc \in {"fastAct", "mainAct"} /\ MayPray
  /\ Step(turn.time) /\ NewWOM
  /\ prayed' = turn.time
  /\ AfterUpdate

\* Any other action of the tactics, or a move.
Act ==
  /\ pc \in {"fastAct", "mainAct"}
  /\ Step(lastPrayer) /\ NewWOM
  /\ AfterUpdate
  /\ UNCHANGED prayed

\* The move towards an entity of interactWorldEntity does not renew the world.
Approach ==
  /\ pc \in {"fastAct", "mainAct"}
  /\ Step(lastPrayer)
  /\ AfterUpdate
  /\ UNCHANGED <<agentVars, prayed>>

\* No tactic is enabled: ABORT closes the goal, and with it either loop.  The
\* updates of the state on the way out find nothing new.
Abort ==
  /\ pc \in {"fastAct", "mainAct"}
  /\ pc' = "end"
  /\ UNCHANGED <<gameState, prev, agentVars, prayed>>

EndFast ==
  /\ pc = "fast" /\ UpdateState
  /\ pc' = "main"
  /\ UNCHANGED <<gameState, prev, prayed>>

\* The user enters commands instead of letting the agent act.
UserStep ==
  /\ pc = "main" /\ Step(lastPrayer)
  /\ pc' = "mainUpdate"
  /\ UNCHANGED <<agentVars, prayed>>

\* (mutant) The state is copied before the commands have been looked up.
InvalidStepCopies ==
  /\ pc = "main" /\ ~done
  /\ prev' = <<turn>>
  /\ UNCHANGED <<pc, gameState, agentVars, prayed>>

\* One of the commands is unknown, or all are for the client itself: the loop
\* continues without an update.
InvalidStep ==
  /\ pc = "main" /\ ~done
  /\ UNCHANGED vars

\* The update of the state before it is rendered.
MainUpdate ==
  /\ pc = "mainUpdate" /\ UpdateState
  /\ pc' = "main"
  /\ UNCHANGED <<gameState, prev, prayed>>

EndMain ==
  /\ pc = "main"
  /\ pc' = "end"
  /\ UNCHANGED <<gameState, prev, agentVars, prayed>>

Ended == pc = "end" /\ UNCHANGED vars

Next == \/ Create \/ ReplayStep \/ EndReplay \/ Start \/ Sense \/ Pray \/ Act
        \/ Approach \/ Abort \/ EndFast \/ UserStep \/ InvalidStep \/ MainUpdate
        \/ EndMain \/ Ended

Spec == Init /\ [][Next]_vars

-----------------------------------------------------------------------------
(* Properties.                                                             *)

Turns  == [time : 1..MaxTime, step : 0..MaxTurns, nr : 0..MaxTurns]
LvlNrs == 0..(Cardinality(Dlvls) - 1)
Locs   == [lvl : LvlNrs, pos : Positions]
NodeNrs == 0..(2 * Cardinality(Dlvls))

\* Every variable has its type.
TypeOK ==
  /\ pc \in {"create", "replay", "start", "fast", "main", "fastAct", "mainAct",
             "mainUpdate", "end"}
  /\ turn \in Turns /\ here \in [dlvl : Dlvls, lvl : LvlNrs, pos : Positions]
  /\ lastPrayer \in {Never} \cup 1..MaxTime /\ done \in BOOLEAN
  /\ prev \in Seq(Turns) /\ Len(prev) <= 1
  /\ areas \in Seq(Dlvls) /\ DOMAIN index \subseteq Dlvls
  /\ \A d \in DOMAIN index : index[d] \in LvlNrs
  /\ entrances \subseteq Locs
  /\ idMap \subseteq [hash : Locs, key : Locs, node : NodeNrs]
  /\ edges \subseteq NodeNrs \X NodeNrs /\ nodes \in NodeNrs
  /\ wom \in 0..MaxTurns /\ seen \in Seq(Turns) /\ Len(seen) <= 1
  /\ trace \in Seq(Turns) /\ prayed \in {Never} \cup 1..MaxTime

\* The number of a level is its place among the levels and the areas, whatever
\* the order in which levels are found and found again; the player's location
\* has the number of the level that the stats name.
NumbersNameAreas ==
  /\ Len(areas) = Cardinality(DOMAIN index)
  /\ \A d \in DOMAIN index : index[d] + 1 \in DOMAIN areas /\ areas[index[d] + 1] = d
  /\ here.dlvl \in DOMAIN index /\ here.lvl = index[here.dlvl]

\* The LTL predicates of AgentLTL compare a state with the one before it, never
\* with itself or an older one: also after commands that do not exist.  The end
\* of the game is not a new state.
PrevIsPredecessor ==
  prev # <<>> => prev[1].nr = IF done THEN turn.nr ELSE turn.nr - 1

\* The agent chooses its action on the world as it is after the last step, its
\* own or the user's, though game time may stand still for many steps.
DecidesOnCurrent == pc \in {"fastAct", "mainAct"} => wom = turn.nr

\* The trace is the history from where the agent came in: no state is missing,
\* none is there twice, and only the newest may not be there yet.
TraceIsHistory ==
  /\ \A i \in 1..(Len(trace) - 1) : /\ trace[i + 1].nr = trace[i].nr + 1
                                    /\ Before(trace[i], trace[i + 1])
  /\ trace # <<>> => turn.nr - trace[Len(trace)].nr \in {0, 1}

\* Two prayers of the agent are more than the timeout apart, though the player
\* object that knows the last one is replaced by every observation.
PrayersApart ==
  [][prayed' # prayed => prayed = Never \/ turn.time - prayed > Timeout]_vars

\* (refuted) After the timeout the agent may pray again: "Only pray once every
\* 900 turns if needed" (Actions.java:134).
MayPrayAgain ==
  lastPrayer # Never /\ turn.time - lastPrayer > Timeout => MayPray

\* (refuted) The place where a new level is entered is a node of the graph that
\* a path can start or end at, as HierarchicalGraph.main asserts of the two
\* places that it links: the entrance of a level has a node.
EntrancesHaveNodes == \A loc \in entrances : Found(idMap, loc) # {}
=============================================================================
