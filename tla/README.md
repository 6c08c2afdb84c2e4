# Verification of iv4xr-nethack

iv4xr-nethack lets an iv4XR agent, written in Java, play NetHack, which runs
inside the NetHack Learning Environment (NLE) behind a Python server. This
directory holds TLA+ models of the program, the TLC configurations that check
them on small instances, and proofs, checked by TLAPS, of theorems about them
for every value of their constants.

Contents: 1 the system, 2 the modules, 3 the runs, 4 bounds and fairness,
5 the proofs, 6 findings, 7 what is not modelled, 8 the plan.

## 1. The system

```
 client-java                                   server-python
 +--------------------------------------+      +-------------------------------+
 | App.runAgent: replay, fast-forward,  |      | server.py: accept loop        |
 |   main loop, coverage, restart       |      |   one thread per connection   |
 |  AgentState / AgentEnv (world model) |      |     |  Popen, wait, exit code |
 |  GoalLib, TacticLib, Actions         |      |     v                         |
 |  NetHack: GameState, Dungeon, Turn   | TCP  | handler.py: one process per   |
 |  HierarchicalNavigation, GridSurface,|<---->|   connection, at most one NLE |
 |   HPA* graph, AStar                  |      |   environment                 |
 |  SocketClient, encoders, decoders    |      | protocol/read.py, write.py    |
 +--------------------------------------+      +-------------------------------+
```

| Component | State it keeps | Operations | What makes it correct |
|---|---|---|---|
| Connection, client end (`SocketClient`, encoders, decoders) | the socket; nothing else: replies carry no number | one `send...` per request; reset, step, get-seed and the two coverage requests block until their reply is decoded, the others do not wait | what is decoded is the reply to the call that waits; a call comes back |
| Handler process (`handler.py`, `protocol/`) | `env`, the NLE environment or `None` | one message of `handle()` per request; dismissal of messages before an observation is written; `finally` closes the game | no request reaches it that it cannot serve; a game is closed before it is replaced; it ends when its client does |
| Connection server (`server.py`) | threads, processes, exit codes, the stop flag of the accept loop | accept, spawn, wait, `shutdown` on exit code 100 or `exit_on_done` | stops only for a reason, does not stop halfway, leaves nothing over |
| Game state (`NetHack`, `Turn`, `Dungeon`, `GameState`) | current state, the previous one, turn number, levels in order of discovery | construct, replay, step, update from an observation | the previous state is the predecessor; a number always means the same level |
| Run and agent (`App`, `AgentState`) | world model, last turn seen, printed trace | loops over `agent.update()`, or commands of the user | decisions are made on the newest observation; the trace is the history |
| Links between levels (`HierarchicalGraph`) | map from places to nodes, edges | `addAbstractNode`, `getAbsNodeId`, edges of `Dungeon.newLevel` | every entrance has a node |
| Tactics (`GoalLib`, `TacticLib`, `Actions`) | the turn of the last prayer | the tactics; most only read the world | prayers are the time-out apart, and possible again after it |
| A* (`AStar`, `NodeLookup`, `AStarNode`) | lookup, priority queue | `findPath`, `expand`, `processNeighbours`, `reconstructPathFrom` | ends; null exactly when there is no path; a path that is real, and cheapest where the heuristic is consistent |
| Level surface (`GridSurface`, `Level`, tiles) | tile objects, the index of their classes, frontiers, marks of shops | observation, `getFrontier`, rendering | what was learnt of a tile survives the next observation; the index fits the tiles; no place to explore from is missed |
| HPA\* map (`GridSurfaceFactory`, `HierarchicalMap`, `Graph`, `Cluster`, `HierarchicalSearch`) | clusters with their entrances and tables of distances, abstract nodes and edges with stored costs | update for the tiles of an observation; searches that insert and remove temporary nodes; refinement of a path | stored edges and distances are those of the tiles as they are now; a search changes nothing and finds what can be reached |
| Navigation over levels (`HierarchicalNavigation`) | surfaces, graph of levels | `findPaths`, `findShortestPath`, `explore` | not modelled |
| Timers of the game (NLE's `timeout.c`, `light.c` and their callers) | the queue of timers, lists of lights, objects, level files | lighting, snuffing, splitting, merging, moving and freeing objects, the run of due timers, change of level | timers, lights and objects stay together through every change of level; fuel is used turn by turn |

How they interact. `App` owns the control flow of the client: it makes a
`NetHack` object, which sends a Reset, executes a replay if there is one, lets
aplib's agent act, renders and closes. Every action ends in
`NetHack.stepServerSideCommand`, which sends one Step for a list of commands,
waits for an observation and a step message, and updates the game state;
`AgentState.updateState` then derives the world model. The server and the
client share nothing but the socket; handler processes share nothing at all,
and tell the server about themselves by an exit code only.

What is hard. The two ends of the connection run at the same time, either may
fail at any point, no call has a time-out, and the protocol has no sequence
numbers. One connection lasts over several games. The server stops from inside
one of its own connections while others are being accepted. Game time stands
still for many commands, so observations have to be told apart by a step
number. Objects are replaced by every observation, copied before each step,
and, in one place, changed while they are keys of a map. A* compares ids by
value except in one loop, where it compares references. The HPA\* map keeps
four tables of the same facts, which an observation changes a tile at a time and
each search for a moment. In the game, a timer, the object it points to and its
light are kept in three lists that are written to a level file and read back
apart. `PROJECT.json` lists
these hazards one by one, at the line where each bites, with the properties
that would catch it.

## 2. The modules

| Module | Models | Uses |
|---|---|---|
| `RemoteCall` | abstract: what the connection promises to the code above it | |
| `NetHackSession` | one connection: `App`'s order of requests, `SocketClient`, the socket, `handler.py`, the end of the thread in `server.py` | implements `RemoteCall` by `Promise == INSTANCE RemoteCall WITH ...` |
| `SocketServer` | `server.py`: accept loop, threads, exit codes, shutdown | |
| `AStar`, `MCAStar` | the A* search, and the maps and heuristics it is checked on | |
| `GameClient` | game state, levels and their links, agent state, run | |
| `Surface`, `MCSurface` | what the client keeps of one level, the frontiers, and the levels it is checked on | |
| `HpaMap`, `MCHpaMap` | the hierarchical map of a level under observations and searches, and the levels it is checked on | |
| `FuelClock` | abstract: what `begin_burn`'s comment promises of the fuel of a light | |
| `ObjectTimers` | the game's timers, objects, lights and level files | implements `FuelClock` by `Clock == INSTANCE FuelClock WITH ...` |
| `SessionProofs`, `ServerProofs`, `AStarProofs`, `GameClientProofs`, `SurfaceProofs`, `HpaMapProofs`, `ObjectTimersProofs` | the theorems | each EXTENDS its component's module |
| `HpaSearchProofs` | the theorem that a search of `HpaMap` finds what can be reached | EXTENDS `HpaMapProofs` |

Operators marked `(mutant)` are not part of a specification: each is a
plausible wrong version of the definition that follows it, and shows that the
property named in `PROJECT.json` can fail.

### RemoteCall and NetHackSession

`RemoteCall` has calls, which wait, and one-way requests, which do not. Every
request is executed at most once and in order; a call returns at most once,
after its execution, with the answer of that execution; the server may stop at
any moment and the client may leave at any moment.

`NetHackSession` has two FIFO channels between the client (`cpc`: where
`App.runAgent` is) and the handler process (`hpc`: where `handle` is).

| Code | Model |
|---|---|
| `App.runAgent`, `NetHack` constructor, `close`, `SocketClient.send...` | `StartRun`, `NewGame`, `TakeTurn`, `ShowSeed`, `Render`, `FinalRender`, `CloseGame`, `SaveCoverage`, `EndRun` |
| `NetHackTest.teardown` | a client of its own, `SendExitServer` (Init chooses it with `cpc = "exit"`) |
| `SocketClient.readStepState`, the decoders | `ReadObs` then `ReadStep`; `ReadSeed`; `ReadNullByte`; `ReadEOF` for the exception at the end of the stream |
| a client that fails an assertion or is killed | `Abort` |
| `handle`, `handle_reset`, `handle_steps`, ... | `Handle...`, `StepCommand`, `EndSteps`, `WriteObs`, `WriteStep`, `WriteSeed`, `HandleCoverage`, `WriteNullByte` |
| `concat_all_messages` | `DismissMessage`: steps the game on; its `done` goes nowhere |
| every exception of the handler | `Raise(cause)`; `fault` keeps the cause |
| `finally` of `handle`; `proc.wait()` in `server.py` | `Finally`; `Reap` |

`env` and `fresh` are separate because `handle_reset` writes its reply while
the new environment is still a local variable: a write that fails then drops
it. The number of commands goes through `% ByteRange`; the length of a message
is the `ok` of an `Obs` reply: the byte is read as signed by the client, so a
message of 128 to 255 characters is one it cannot decode, and a longer one is
one the server cannot write (`MessageTooLong`). NLE itself is external: an
environment is running, over or closed, a step may end the game, and a step on
a game that is not running raises.

A request that was only partly written when its client died is one that never
arrives: the handler's `ProtoException` is the same (`EndOfStream`). A reset by
the kernel may overtake data that was not read, or meet a write
(`ConnectionLost`).

### SocketServer

One state per connection, from `none` over `backlog` (complete in the kernel,
not accepted) and the states of its thread to `closed` or `reset`; the main
thread is in its loop, between the test of the stop flag and `accept`
(`Ready`, `Accept`), or stopping (`LeaveLoop`, `CloseListener`, `JoinThreads`).
Python's `socketserver` is external and modelled as `serve()` uses it: daemon
threads are off, so `server_close()` joins. `Disconnect` is the `finally` of
`Handler.handle`; `SpawnFails` is the path on which `proc` is unbound.
`NetHackSession` is what happens inside one connection between `Spawn` and
`ProcessExits`.

### AStar

The map and the heuristic are chosen in Init. An expansion is one step; the
walk along the parents is one step per iteration, because its condition is the
point: it compares references, so an Id is modelled as the pair of its value
and the node whose edge holds the object. Ties in the queue are left open.

### GameClient

A state of the game is its turn `[time, step, nr]`: `time` and `step` are
`Turn`'s fields, and `nr` (which the code does not have) numbers the
observations so that the properties can tell them apart. `Step` is
`NetHack.stepServerSideCommand` after its checks: the copy of the previous
state, then `UpdateGameState` or `GameOver`. `LinkLevels` is
`Dungeon.newLevel` with the assignment of the level number that follows it; an
entry of the `HashMap` has the hash it was filed under and the key as it is
now, and is found only when both agree. `pc` follows `App`: replay,
fast-forward, main loop; `Sense` is the `updateState` at the start of
`agent.update()`, and `Pray`, `Act`, `Approach` and `Abort` are what a tactic
may do. Which tactic is enabled depends on the map in view and is left open,
except for the guard of the prayer.

### Surface

One level: for each place the tile object (its class `kind`, `seen`, `visible`
and the `mark` of a shop floor or a shop door), the index `tileTypes` of
`GridSurface`, and the set `frontiers`, which outlives the call that computes
it. `looked`, `asked` and `smooth` are history variables for the properties.

| Code | Model |
|---|---|
| `TileDecoder.toTile`, the new `Boulder` of `Level.updateTiles` | `NewTile` |
| `equals` and `updatedTile` of the tiles, the `Boulder` branch of `Level.updateTiles` | `UpdatedTile`: an object of the same class is kept and merged, one of another class is replaced |
| `replaceTile` | `Relist` |
| `markShops`, `markShopDoors` | `Flooded`, `ShopDoors` |
| `NetHack.updateGameState`, `Level.updateLevel` | `Observe`, which calls `UpdateLevel`: one step, as nobody looks in between |
| `getFrontier` | `Spent`, `NewFrontier`, `Frontier`; the action `GetFrontier` |
| `Surface.toString` | `Render`, which changes state: it computes the frontiers and, by asking `Ice` for its visibility, marks it as seen |

The classes are five: `Floor` and `Door` carry marks, `Ice` marks itself as
seen when it is asked and not when it is set, `Wall` stands for every class
that is not `Walkable`, and `Boulder` is the tile that the client itself puts
where an entity "boulder" lies. Doors that are closed are of the same class as
open ones, so their flags make no difference here; whether a boulder lies on a
place that is not `Walkable` is the game's matter, and it does not. What
`updateTiles` does to the HPA\* map is the subject of `HpaMap`: nothing of it is
read back into the variables here.

### HpaMap

Of a tile only what decides about steps is kept: not observed, blocked, or open
for straight steps (a door) or for all. `nodes` and `edges` are the abstract
graph, `live` the nodes that are in the `entrancePoints` of their cluster (a
node may be in the graph and in no cluster), `cached` the tables of all
clusters. Ids of abstract nodes mean nothing but identity and are never given
twice, so a node is named by its place, its border and the update that made it.

| Code | Model |
|---|---|
| `Level.updateTiles`, `GridSurface.updateTile`, `updatePassibility` | `Changed`, `After` |
| the loop of `GridSurface.updateTiles` with `addEdges`, `removeEdges` and `addClusterEdges`: tile after tile, column by column | `Batch`, with `Openings` (the steps across a border that `addEdges` sees, given what is known by then: `KnownOf`) and `BorderOf` |
| `createEntrancesAlongEdge`, `getEntranceSize` | `Entrances`: the middle of each opening, or both ends if it is wide |
| `addAbstractNode`, `addInterClusterEdge` | `Made`, `Crossings` |
| `removeEntrancesBetweenClusters` | `Dropped`, and `Lone` for those that leave the graph |
| `resetComputedPaths`, `computePathBetweenEntrances`, `createIntraClusterEdges` | `KeptDistances`, `CachedAfter`, `EdgesAfter` |
| `resetIntraClusterPaths` | `KeptEdges` |
| `updateTiles` as a whole | `Update`, by `Rebuild` |
| `insertAbstractNode`, `removeAbstractNode`, `removeEdgesFromAndToNode` | `Insert`, `Remove`, `Unlinked` |
| `findPaths`, `findShortestPath` | `BeginSearch`, then for each target `InsertTarget` and `Answer`, then `EndSearch` |

The search itself is `AStar`, which finds a path exactly if there is one
(`NullMeansUnreachable`); here only that is used (`Connected`). The shortest way
within a cluster is the number of steps by which it is first reached
(`Distance`). The map starts with every tile an obstacle, as
`GridSurface` makes it, so that the entrances `HierarchicalMapFactory` would
make on a known map never come about. A tile does not change between door and
other open tile (`HpaAssumption`); no update comes during a search, which is one
call.

### FuelClock and ObjectTimers

`FuelClock` states the comment above `begin_burn`: an object has so many turns
of fuel, and burns one in every turn of the game while it is lit.
`ObjectTimers` is how the game does it: a burning object's `age` is what will be
left after the present burn, a timer waits for the end of that burn, and the
queue of timers is split when the hero leaves a level: what is local goes into
the level's file, the rest stays in memory.

| Code (under `src/server-python/lib/nle/src`) | Model |
|---|---|
| `begin_burn`, `end_burn`, `cleanup_burn`, `stop_timer` | `Turns`, `Burning`, `Light`, `Snuff` |
| `splitobj`, `obj_split_timers`, `obj_split_light_source`; `mergable`, `merged` | `Split`; `Mergable`, `Merge` |
| `mksobj`, `start_corpse_timeout`; `dealloc_obj`, `obj_stop_timers` | `Create`; `Free`, `Destroy` |
| `place_object`, `remove_object`, `obj_timer_checks` | `Relocate`, in every action that moves an object: `Move`, `PetMoves`, `Ship`, `Deliver` |
| `moveloop`, `nh_timeout`, `dopray` | `Turn`, `Pray`: while the hero prays, `run_timers` is not called |
| `run_timers`, `burn_object`, `rot_corpse`, `revive_mon` | `RunTimer`, one round each, and `EndRun` |
| `goto_level` | `Leave` (`keepdogs`), `SaveLevel` (`savelev`: `save_timers`, `save_light_sources`), `GetLevel` (`getlev` or `mklev`, `restore_timers`, `relink_timers`), `Deliver` (`obj_delivery`), `Arrive` (`losedogs`) |
| `migrate_to_level` | `PetFalls`, with all the monster carries |

The kinds of objects are those whose timers differ: lamps, candles, oil and
diluted oil, corpses that rot and corpses that rise. A queue with equal timeouts
keeps the newest first; the model leaves their order open. What is left out is
named in section 7.

## 3. The runs

| Run | Distinct states | Question | Result |
|---|---|---|---|
| `session_play` | 1,945 | over the whole life of a connection, with games that end at any command and ends that fail anywhere: do requests and replies stay in step, and does the connection implement `RemoteCall`? | holds |
| `session_gameover` | | does the client know of the end of its game? | refuted |
| `server_stop` | 82,696 | why and how does the server stop? | holds |
| `astar_search` | 299,200 | is the answer of the search right, on every map of four nodes? | holds |
| `client_game` | 692,964 | what does the client keep of a game, and what do agent and trace see? | holds |
| `client_prayer` | | may the agent pray again after the time-out? | refuted |
| `client_link` | | is the entrance of a level a node of the graph of levels? | refuted |
| `surface_explore` | 6,491 | what does the client remember of a tile, and is a place to explore from missed? | holds |
| `hpa_map` | 11,484 | does the hierarchical map fit the tiles after every update, and does a search find what can be reached and leave no trace? | holds |
| `hpa_blocked` | | does it also find what can be reached after a boulder has come? | refuted |
| `object_timers` | 1,648,326 | do timers, lights and objects stay together through changes of level, and is fuel used as promised? | holds |
| `timers_ice` | | does a corpse keep its timer on ice? | refuted |

The properties of the passing runs:

- **session_play.** `RepliesInStep`: while both ends live, what has arrived and
  what the handler has still to write is exactly what the client has still to
  decode. `NoOrphanRequest`: no request finds a handler without a game.
  `DoneIsTrue`: a client that believes its game over is right, also in the
  next game of the same connection. `NoGameLeaked`: a game is closed before a
  reset replaces it. `CallReturns`: a call comes back, with its answer or with
  an exception. `HandlerEnds`: the end of a client, at whatever point, is
  noticed. `ImplementsRemoteCall`: the refinement.
- **server_stop.** `NothingLeftOver`: when `serve()` returns there is no
  process and no connection. `StopsForAReason`. `ServedOrReset`: no client
  waits in the backlog for ever. `ShutdownEnds`: the thread that asks for the
  stop, and is itself waited for, comes to its end. `ExitStopsServer`: exit
  code 100 ends the server, provided that the other games end. Without that
  premise it is false: `server_close()` waits for every thread.
- **astar_search.** `QueueIsOpenSet`: the queue holds one entry of each open
  node, with its current priority. `ParentsLead`: the parents are closed and
  their costs add up. `NullMeansUnreachable`, `PathIsReal`: the answer is
  right, for any heuristic. `PathIsCheapest`: compared with `Distance`, a
  Bellman-Ford recursion that shares nothing with the search; it holds for
  consistent heuristics, and the run contains inconsistent ones for which the
  conclusion is false. `SearchEnds`. An action property of `AStar`,
  `WorkGetsLess` (every step leaves less to do: no node is expanded twice, and the
  walk along the parents, at which the source asks for a safety guard at
  `AStar.java:98`, needs none), is proved and needs no run.
- **client_game.** `NumbersNameAreas`: the three structures that number the
  levels agree. `PrevIsPredecessor`: the LTL predicates compare neighbouring
  states. `DecidesOnCurrent`: an action is chosen on the newest observation.
  `TraceIsHistory`: no gap, no double. `PrayersApart`.
- **surface_explore.** `TypesMatchTiles`: the index by class fits the tiles.
  `SeenIsLookedAt`: seen is what has been in view since its class appeared,
  with the delay of `Ice`. `NoFrontierMissed`: only tiles in view become
  frontiers, and yet none is missed if somebody asks after every observation and
  no tile changes its class. Both premises are needed, and the code secures
  neither: a frontier is asked for only when a tactic explores, and a door or a
  wall may give way. Two action properties of `Surface`, `ShopMarksKept` (a mark,
  which no observation carries, stays as long as the class) and `IceIsSeenLate`
  (Ice in view counts as seen from its second observation on), are proved and
  need no run.
- **hpa_map.** `EntrancesExact`: within each cluster, the edges of the graph and
  the table of distances are exactly those of the tiles, after every update and
  during every search. `SearchLeavesNoTrace`: after a search nodes, entrances,
  edges and distances are what they were. `FoundIfReachable`: as long as no open
  tile was ever blocked, a path is found exactly if steps lead to the target,
  straight or diagonal within a cluster and straight across borders. That is
  what the few entrances have to secure, whatever the order in which tiles came
  to be known, and although dropped entrances stay in the graph.
- **object_timers.** `TimersFollowObjects`: timers are where their objects are,
  none points to a freed object, and the count each object keeps is exact.
  `LitMeansBurning`: lit, a light source and a burn timer are the same thing, in
  memory and in each file. `RoundsSettleTimers`: each round of `run_timers`
  leaves fewer timers due, although what it calls starts timers.
  `ImplementsFuelClock`: the refinement, with prayers, days away, splits and
  merges.

Every property of a passing run has a mutant in `PROJECT.json` under which TLC
finds it violated.

## 4. Bounds and fairness

- `session_play`: `Chains = {1, 2, 3}` with `ByteRange = 3`, so that a game may
  end before, at and after the last command of a chain, and the longest chain is
  the one whose length becomes 0 in its byte, as 256 does in the code;
  `MaxPending = 2` bounds the one request that a client may repeat without
  waiting (Render); as it waits for every call, the backlog holds that many
  one-way requests and the call behind them. The lists of the two channels are not
  bounded otherwise. With `restart` runs follow each other without end.
- `server_stop`: three connections are one that stops the server, one that
  plays and one that is still in the backlog or being accepted; both values of
  `exit_on_done` and every set of connections that ask for the exit.
- `astar_search`: each of the six possible edges is absent or costs 0, 1 or 3,
  which gives 4,096 maps, and each of the two inner nodes has an estimate of 0
  to 2: 36,864 searches. No edge
  leads into the start or out of the target: such an edge is never of use to a
  search. Costs 0 give ties and zero cycles, and 1 against 3 makes the detour
  over the other node cheaper, so that an open node is taken over.
- `client_game`: three levels, so that the second and third discovery differ
  and a known level may be entered again; two places on each, so that a place may be
  left and entered elsewhere; three steps after the first observation; a time
  of up to 4, against a time-out of 1 and a limit of 1 for being stuck.

- `surface_explore`: a level of two by two, where all places are neighbours,
  with a floor, a door, ice and rock; a second map in which the rock has become
  floor and the ice wall; any single place or all places in view; a boulder
  that comes and goes, a shopkeeper and a message. A class changes into
  another in each way that matters, and a place is in view, out of it and in it
  again.
- `hpa_map`: a level of 4 by 3 in clusters of 2 by 2, so that there are borders
  of both directions and two clusters that are cut short at the edge; with
  `MaxEntranceWidth = 1` an opening of two tiles is wide and gets two entrances,
  one of one tile its middle. Ground with a wall and a door; six views (two
  columns, two rows, all) with and without two boulders, so that a border opens
  in one observation or in two and from either side, and open tiles become
  blocked and open again; three updates, and any number of searches between
  three places, among them the tile of an entrance and the places of boulders.
- `hpa_blocked`: two clusters of 2 by 2 on open ground with the real
  `MAX_ENTRANCE_WIDTH`, and a boulder.
- `object_timers`: one object is made at a time and may become two by splitting;
  three levels, of which one is in the endgame; marks 0 and 1 for lamps, 0 and 2
  for candles, fuel up to 3, so that a burn ends at a mark, between marks and at
  the end; prayers of 2 turns against burns of 1 to 3; three turns, which are
  enough for a timer to come due during a prayer, on a level that was left, and
  in the turn it is set for. The run cannot have two objects that are made apart
  and then merge: what it merges is what was split. The proofs have no such bound.
- `timers_ice`: the same without prayers, and two turns.

Fairness is stated where liveness is checked:

- `NetHackSession`: weak fairness of the client's reads, of the handler and of
  the thread that reaps it (processes that can run are run; a coverage script
  ends), and of `WriteObs`: a game shows finitely many messages in a row.
  Nothing makes a client send anything.
- `SocketServer`: weak fairness of the main thread and of each thread, and of
  the exit of a process whose client asked for it. Nothing makes other
  clients, their processes or the keyboard do anything.
- `AStar`: weak fairness of the search.
- `GameClient`, `Surface`, `HpaMap`, `ObjectTimers` have no fairness: their
  properties are safety. That `run_timers` ends is stated without it, by
  the number of timers that are due (`RoundsSettleTimers`).

## 5. The proofs

TLAPS checks all eight proof modules. They assume no more than the named
assumptions of the component modules: `SessionAssumption` (the width of the
length is positive, and the lengths that are sent are at most that many, which
is the client's assertion), `AStarAssumption` (finitely many nodes, costs
and estimates natural numbers), `LevelAssumption` (a level is a
rectangle, and what the game reports lies on it), `HpaAssumption` and
`NamesAssumption` (sizes, what may be observed of a tile, and two names that are
not borders), and `ConstantsOK` of `ObjectTimers` (finitely many objects;
natural numbers), and `GameAssumption` (finitely many levels and places; the
bounds are natural numbers). `SocketServer` needs none. TLC evaluates the
assumptions in the runs.

**SessionProofs.** `Typing` proves `TypeOK`, by `DataOK` for the sequences and
enumerations and `FlagsOK` for the Booleans, which different provers handle.
`InStep` proves `RepliesInStep` for every set of chain lengths, any width and
any backlog. As it stands the property is not inductive: a handler that stops
with replies under way needs `Foreseen` of what is left, and the step that
reads a call needs that nothing is in flight. The invariant has one part for the
open connection, `Matched`: only the last request may be a call; as long as it
is unread, nothing is in flight and its reply is what is expected; from then
on what has arrived, followed by what is owed, is what is expected. Lemmas on
sequences state what taking or adding one element does to `Matched` and
`Foreseen`; the proof then has one step per action.

`NoOrphanRequest`, `DoneIsTrue` and `NoGameLeaked` follow from one invariant,
`GameInv`, which says for which game each request in flight is meant. A request
is written when the client has its game, and read when the handler has worked
off all that came before it, so the invariant has to look through the queue:
`Playing` is a game with no Close on its way, `Away` is no game, or one that a
Close on its way will end. `ClientOK` says at which of its places the client has
which of the two, `Meant` says it of the requests, `HandlerOK` says which of the
handler's two environments is alive where, and `DoneOK` says that the end of the
game, once told, is not undone by a Reset in flight. That a call is the last of
the requests (`CallsLast`, from `Matched`) is what makes a Reset find its game
closed, and what keeps it from meeting a Step.

`SessionImplementsRemoteCall` is the refinement. It needs `OneReply`: also when
the client has left, the handler has no older reply in flight while it works on
a call, or else the observation of that very call; so the last tag in the queue
is the answer of the last execution. Each step of the client is then a `Call`, a
`Post`, a `Return`, a `Leave` or nothing; each of the handler is an `Execute`
(when it writes the last tag of a reply, or takes a request without one), a
`Stop` or nothing.

**ServerProofs.** `NothingStays` and `StopsOnlyForAReason` hold for any number
of connections. The first needs `ClosedForGood`: the listening socket is
closed after the loop and stays so, so that no new connection enters between
the join and the end. The second needs that a raised flag was raised by a
thread which had a reason (`Reasonable`, `Asked`) and still shows it.

**AStarProofs.** For every finite map with natural costs and *any* heuristic:
`QueueIsOpen`, `ParentsAlwaysLead`, `NullIsUnreachable` and `PathAlwaysReal`.
`QueueIsOpenSet` is nearly inductive. `ParentsLead` needs that the parent is
closed and that closed nodes do not change. For null, `ClosedIsExpanded`: every
neighbour of a closed node is known, so with an empty queue the closed nodes
are a set that contains the start, leads nowhere else and does not contain the
target. For the walk, the object that ends it must be the caller's
(`StartIsOrigin`): no other object is its own parent, since the parent of
a node never is the object which that node's entry holds; and what has been
walked is a path (`WalkOK`, `Trail`).

`PathAlwaysCheapest` in the same module: on every finite map, with every
consistent heuristic, f of the target is the distance of the reference. From
below, by `PotentialBounds`: a function of the nodes that is 0 at the start and
that no edge raises by more than its cost bounds the costs of all ways. Such a
function is g on the closed nodes and f(Target) - h on the others, because the
closed nodes are `Settled`: none has a greater f than an open one, and no
edge leads from them to anything more cheaply than is known. From above, by
`TreeBounds`: the closed nodes are a tree in which each has a rank above its
parent's and below their number (`Ranked`), so g of the target is the cost of a
way of fewer edges than there are nodes. The reference is a recursive function;
what it computes is proved by induction over the number of edges, in the form
that a set of numbers which holds 0, and with a number the next one, holds them
all (`SetInduction`, from the least element of a set).

`EveryStepCounts` states `WorkGetsLess` for any heuristic. An expansion closes
one node that was not closed, and none is opened again. The walk is bounded by
`Short`: the length of what was walked and the rank of the node it has come to
are together less than the number of closed nodes. So a search among n nodes
takes at most 2n + 1 steps; what is left to TLC in `SearchEnds` is that a step
can always be taken, which is ENABLED.

**GameClientProofs.** All six properties of the run, for every set of levels and
places, timeout and length of game, from one invariant, `ClientInv`. The part
about the game numbers its levels (`DungeonOK`) and bounds the nodes of the
graph that links them by the number of levels found. The part about the agent
(`AgentOK`) says at each place of the run whether it has seen the newest turn
(`UpToDate`) or is one turn behind (`Behind`), between a step and the update of
the state that follows it; before its first look it has seen nothing. For the
prayers it needs that the agent's last prayer is the one the game state knows
(`PrayerOK`); the guard in `GoalLib` then never lets it pray a second time.

**SurfaceProofs.** All six properties of the run, for levels of every size,
every set of maps and every view. `Observation` reduces the action to an update
for some kinds, and `Updated` says what an update makes of one tile; the
theorems build on these. `SeenIsLookedAt` needs that a place in view has been
looked at, else the late mark of `Ice` could come from nowhere; `IceIsSeenLate`
the converse, that what was looked at is seen or still in view.
`NoFrontierMissed` speaks of the moment after `getFrontier`; its invariant
`FrontierKept` also says what holds between an observation and that call: the
places out of view are frontiers already.

**HpaMapProofs.** For levels, clusters and openings of every size and any set of
observations: `HpaTypeCorrect`, `HpaEntrancesExact`, `SearchesLeaveNoTrace` and
`EdgesGoBothWays`. The invariant says of the graph and of the tables that they
hold, pair by pair, exactly the distances between nodes of one cluster
(`DistancesExact`), that edges and distances are kept in both directions
(`EdgesMatched`, `CacheMatched`), that an update uses names of its own
(`Named`), and that a search found the map as it is without the nodes it added
(`Trace`). `EdgesMatched` is needed because a node's edges are removed by
following them from the node itself. Of a distance the proofs use only that it
depends on the tiles of one cluster (`DistanceLocal`): this is why it is
enough to reset the clusters of changed tiles. `RebuildKeeps` is the update,
`InsertKeeps` and `RemoveKeeps` the two halves of a search.

**HpaSearchProofs.** `PathFoundIfReachable`, for levels, clusters and openings of
every size and any observations. The reference, `Spread`, makes as many rounds as
there are places; that these are enough is proved by counting the places reached
(`Leads` is reachability without rounds: every set that is closed under the steps
and holds the one end holds the other). The rest is an invariant, `Routed`. That
a path which is found is real needs `Sound`: every edge leads from its one
end to its other by steps. That a path is found needs `Served`: every
entrance of the tiles as they are is in the graph, as two nodes joined by an edge;
and wherever a border can be crossed, one of these entrances can be walked to
within the cluster (`EntranceNear`, as the tiles of an opening lie beside each
other).
The update makes anew only the borders at which a tile opens; the others have the
openings they had (`FacingStays`), as long as no open tile has become blocked.
Without that premise it is false, as `hpa_blocked` shows.

**ObjectTimersProofs.** For any number of objects and levels, any marks and any
times: `TimersTypeCorrect`, `TimersStayWithObjects`, `LitThingsBurn`,
`RunTimersEnds` and `TimersImplementFuelClock`. The invariant `IInv` says object
by object that count, timers and light agree (`Sound`), separately for memory
and for each file, that no two files share an object (`FilesApart`), and
that the file of the level the hero is on is empty (`HereLoaded`). For the
refinement it needs `LitHasFuel`: a lamp or candle that burns will not be left
with less than nothing at the end of its burn. Each action then has a lemma that says what it
does to the fuel that is left (`...Clock`).

What is only model-checked: all liveness (`CallReturns`, `HandlerEnds`,
`ServedOrReset`, `ShutdownEnds`, `ExitStopsServer`, `SearchEnds`), which is
out of the provers' reach. Every invariant, every action property and both
refinements that the passing runs check are stated by a theorem.

## 6. Findings

1. **The end of a game can be missed** (`session_gameover`). `handle_steps`
   takes `done` from the last command, but the messages are dismissed after
   that, by further steps of the environment whose `done` stays inside
   `message.py`. The client goes on, and its next step ends the handler.
2. **The agent prays once per game** (`client_prayer`). The guard in
   `TacticLib.java:287` subtracts the wrong way round; `Actions.java:134`
   says "Only pray once every 900 turns if needed".
3. **The entrance of a new level has no node** (`client_link`).
   `Dungeon.newLevel` files the player's location under level 0, and
   `NetHack.java:304` then changes the level of the same object.
4. **A boulder on an entrance closes the border** (`hpa_blocked`). `updateTiles`
   remakes the entrances of a border only when a tile opens there. A tile that
   becomes blocked keeps its entrance, the other tiles of the opening get none,
   and `findPath` answers null although the way beside the boulder is free;
   `GridSurface.java:276` recommends that answer as the test of what is
   reachable.
5. **A corpse loses its timer on ice** (`timers_ice`). `obj_timer_checks` takes
   0 for "no timer", which `stop_timer` also returns for one that is due now: a
   corpse that is moved onto ice, or off it, at that moment never rots.

Observed while modelling, and stated by no run:

- A chain of 256 commands, the longest the assertion at `NetHack.java:188`
  allows, arrives as 0 commands; `handle_steps` has no observation to write and
  raises (`session_play` contains it, and the properties hold in spite of it).
- A frontier stays one by a weaker rule (`GridSurface.java:285`) than the one of
  the comments at lines 274 and 303: also with blocked neighbours only, or as a
  shop door that was marked later.
- A diagonal step across the border of two clusters is in no graph, although
  `GridSurface.toString` draws one: what can be reached only by such a step is
  not found. `FoundIfReachable` states what is (`KnownSteps`).
- An entrance on a tile that was blocked still has its edge across the border
  and its edges of cost 0 to nodes on the same tile, so that in a corner, which
  belongs to two borders, an abstract path may lead through the boulder.
- A dropped entrance that has edges within its cluster stays in the graph
  for ever, out of reach of later updates. While nothing is blocked its edges
  are true; afterwards they may not be.
- In the game: diluted oil whose timer came due exactly now goes out, and burns
  on if it was late; lit candles with very
  different fuel merge (`invent.c:3673` compares ages, which for a burning one is
  what will be left after the burn); a prayer makes
  `burn_object` take the branch "timeout while away" for what the hero carries;
  `end_burn` complains when a timer is due in the same turn; an age may become
  negative.

## 7. What is not modelled

- Connection attempts of `SocketClient` and their retries; `Config`, logging,
  sounds, item tables and converters: input, output and tables.
- The layout of observations beyond the length of the message. The empty
  branch of `SeedEncoder`: `Config` gives either two cores or a random seed,
  and never an empty one.
- The rest of the game (NLE, vendored), which is by far the largest part of the
  repository: to the client and the handler it is nondeterministic.
- Of the game's timers: eggs, figurines and melting ice, the candelabrum, lights
  without a timer (magic lamps, artifacts), containers, buried and billed
  objects, bones and ghost levels, the save of a whole game, worn masks, a
  monster that steals or snuffs a light during a prayer, merging on delivery and
  what a shopkeeper charges.
- Of the HPA\* map: the refinement of an abstract path to places
  (`abstractPathToLowLevelPath`, `isValidPath`), hierarchies of more than one
  level and the restoring of backed-up nodes, neither of which the agent uses
  (`maxLevel` is 1, `nodeBackups` stays empty), and a tile that is known and then
  reported as none (`Level.java:105` would pass on a null).
- The choice among tactics and what the world model contains: it depends on
  the map in view. The interactive loop of `NetHack.loop()`, a debugging aid
  which the agent does not use.
- `SmoothWizard`, `Sandbox`, `Program`, BotHack, Python utilities and mutation
  scripts: not used by the agent.
- `HierarchicalNavigation`: the search over the graph of levels, of which
  `GameClient` has the links.

## 8. The plan

The connection came first, as everything depends on it; then the server, the
search, the client's state, the surface of a level, the hierarchical map and the
timers of the game (all done). What is left, in this order:

1. `LevelGraph`: `HierarchicalGraph` with its temporary nodes, and
   `HierarchicalNavigation.findShortestPath` and `explore` over it; checked
   against the shortest path as reference (line 140 stops at the first stair
   that is nearer than the best path so far, which its comment does not say).
2. The refinement of paths in `HpaMap` and, composed with it,
   `GridSurface.findShortestPath` and `explore` over the frontiers of `Surface`
   (line 413 leaves out candidates by their Manhattan distance, although diagonal
   steps cost one; standing on a frontier gives an empty path).
3. More of the game's own bookkeeping in the style of `ObjectTimers`: containers
   and buried objects, bones, and the save of a whole game.
