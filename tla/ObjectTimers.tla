---------------------------- MODULE ObjectTimers ----------------------------
(***************************************************************************)
(* The timers of the game the server runs (src/timeout.c, light.c, mkobj.c *)
(* and what calls them, under src/server-python/lib/nle): the queue of     *)
(* things to happen, the objects it points to, the light sources that go   *)
(* with it, and how all three are split between memory and the level files *)
(* when the hero changes levels.                                           *)
(*                                                                         *)
(* The queue is a set: its order is that of the timeouts, and among equal  *)
(* ones any may be the first.  An object of a level file keeps its record  *)
(* in obj, since nothing reads or changes it there.                        *)
(***************************************************************************)
EXTENDS Integers, FiniteSets

CONSTANTS Objs,        \* places for objects, each used again when free
          Levels, FirstLevel,
          EndLevels,   \* the levels of the endgame: entering discards the others
          LampMarks,   \* 150, 100, 50, 25, 0
          CandleMarks, \* 75, 15, 0
          Grain,       \* 25: candles merge whose age is in the same interval
          MaxFuel,     \* of a new object
          MaxQuan,     \* of a stack
          MaxMade,     \* bound on the objects there may be when one is made
          RotTime,     \* the longest first timeout of a corpse
          PrayTime,    \* turns a prayer takes: 3
          MaxMoves     \* bound on the turns explored

ASSUME ConstantsOK ==
  /\ IsFiniteSet(Objs)
  /\ FirstLevel \in Levels /\ EndLevels \subseteq Levels \ {FirstLevel}
  /\ LampMarks \subseteq Nat /\ CandleMarks \subseteq Nat
  /\ Grain \in Nat \ {0} /\ MaxFuel \in Nat /\ MaxQuan \in Nat
  /\ MaxMade \in Nat /\ RotTime \in Nat /\ PrayTime \in Nat /\ MaxMoves \in Nat

VARIABLES
  moves,    \* monstermoves
  pray,     \* turns the hero is still u.uinvulnerable
  pc,       \* where the only thread is: see TypeOK
  uz,       \* u.uz, and where goto_level is going
  target,
  obj,      \* every struct obj
  timers,   \* timer_base
  lights,   \* the objects of light_base
  files,    \* the level files
  pet,      \* the chain a monster that carries things is on
  petDest   \* where it migrates to

vars == <<moves, pray, pc, uz, target, obj, timers, lights, files, pet, petDest>>

Lights == {"lamp", "candle", "oil", "diluted"}
Corpses == {"corpse", "troll"}
Stacks == {"candle", "oil", "diluted", "corpse"}
Funcs == {"BURN_OBJECT", "ROT_CORPSE", "REVIVE_MON"}
Floor == {"floor", "ice"}  \* OBJ_FLOOR, without and with is_ice there
FloorFor(b) == IF b.kind \in Corpses THEN Floor ELSE {"floor"}

Gone == [kind |-> "none", where |-> "gone", quan |-> 0, age |-> 0, lit |-> FALSE,
         timed |-> 0, onIce |-> FALSE, dest |-> FirstLevel]
NoFile == [made |-> FALSE, objs |-> {}, timers |-> {}, lights |-> {}, pet |-> FALSE]

Stored == UNION {files[l].objs : l \in Levels}
Used == {o \in Objs : obj[o].where # "gone"}
Loaded == Used \ Stored

(* The hero acts only between the calls of run_timers and of goto_level, and
   not while he prays. *)
Acting == pc = "play" /\ pray = 0
AtHand(o) ==
  /\ o \in Loaded
  /\ obj[o].where \in Floor \cup {"invent"} \/ (obj[o].where = "minvent" /\ pet = "here")

Timer(o, f, when) == [obj |-> o, func |-> f, timeout |-> moves + when]
TimersOf(T, o) == {t \in T : t.obj = o}

(* Division of C. *)
Quot(a, b) == IF a >= 0 THEN a \div b ELSE -((-a) \div b)

-----------------------------------------------------------------------------
(* begin_burn, end_burn, cleanup_burn *)

(* How long the next burn lasts: up to the next mark below the fuel. *)
Turns(b) ==
  LET marks == IF b.kind = "lamp" THEN LampMarks ELSE CandleMarks
      below == {m \in marks : m < b.age}
  IN CASE b.kind = "oil" -> b.age
       [] b.kind = "diluted" -> Quot(3 * b.age + 2, 4)
       [] OTHER -> IF below = {} THEN b.age
                   ELSE b.age - (CHOOSE m \in below : \A n \in below : n <= m)

(* begin_burn of an object with this record: it is lit, its age is what is
   left after the burn, and a timer waits for that. *)
Burning(b) == [b EXCEPT !.lit = TRUE, !.age = @ - Turns(b), !.timed = @ + 1]

(* use_lamp, light_cocktail, catch_lit *)
Light(o) ==
  /\ Acting /\ AtHand(o)
  /\ obj[o].kind \in Lights /\ ~obj[o].lit /\ obj[o].age # 0
  /\ obj' = [obj EXCEPT ![o] = Burning(@)]
  /\ timers' = timers \cup {Timer(o, "BURN_OBJECT", Turns(obj[o]))}
  /\ lights' = lights \cup {o}
  /\ UNCHANGED <<moves, pray, pc, uz, target, files, pet, petDest>>

(* use_lamp, snuff_lit: end_burn stops the timer, whose cleanup gives back the
   time that was not used *)
Snuff(o) ==
  /\ Acting /\ AtHand(o) /\ obj[o].lit
  /\ \E t \in TimersOf(timers, o) :
       /\ t.func = "BURN_OBJECT"
       /\ timers' = timers \ {t}
       /\ obj' = [obj EXCEPT ![o].lit = FALSE, ![o].age = @ + t.timeout - moves,
                             ![o].timed = @ - 1]
  /\ lights' = lights \ {o}
  /\ UNCHANGED <<moves, pray, pc, uz, target, files, pet, petDest>>

(* obfree, dealloc_obj: obj_stop_timers, del_light_source *)
Free(S) ==
  /\ obj' = [o \in Objs |-> IF o \in S THEN Gone ELSE obj[o]]
  /\ timers' = {t \in timers : t.obj \notin S}
  /\ lights' = lights \ S

Destroy(o) ==
  /\ Acting /\ AtHand(o)
  /\ Free({o})
  /\ UNCHANGED <<moves, pray, pc, uz, target, files, pet, petDest>>

-----------------------------------------------------------------------------
(* mksobj, with start_corpse_timeout for a corpse *)
Create(o) ==
  /\ Acting /\ obj[o] = Gone /\ Cardinality(Used) < MaxMade
  /\ \/ \E k \in Lights, n \in 1..MaxFuel, q \in 1..MaxQuan :
          /\ k \notin Stacks => q = 1
          /\ obj' = [obj EXCEPT ![o] = [Gone EXCEPT !.kind = k, !.where = "floor", !.quan = q, !.age = n]]
          /\ UNCHANGED timers
     \/ \E k \in Corpses, f \in {"ROT_CORPSE", "REVIVE_MON"}, n \in 1..RotTime :
          /\ f = "REVIVE_MON" => k = "troll"
          /\ obj' = [obj EXCEPT ![o] = [Gone EXCEPT !.kind = k, !.where = "floor",
                                                    !.quan = 1, !.timed = 1]]
          /\ timers' = timers \cup {Timer(o, f, n)}
  /\ UNCHANGED <<moves, pray, pc, uz, target, lights, files, pet, petDest>>

\* (mutant) The new stack gets the timers but no light source.
SplitInTheDark(o, p, n) ==
  /\ Acting /\ AtHand(o) /\ obj[p] = Gone
  /\ obj[o].kind \in Stacks /\ n < obj[o].quan
  /\ obj' = [obj EXCEPT ![o].quan = @ - n, ![p] = [obj[o] EXCEPT !.quan = n]]
  /\ timers' = timers \cup {[t EXCEPT !.obj = p] : t \in TimersOf(timers, o)}
  /\ UNCHANGED <<moves, pray, pc, uz, target, lights, files, pet, petDest>>

(* splitobj, obj_split_timers, obj_split_light_source *)
Split(o, p, n) ==
  /\ Acting /\ AtHand(o) /\ obj[p] = Gone
  /\ obj[o].kind \in Stacks /\ n < obj[o].quan
  /\ obj' = [obj EXCEPT ![o].quan = @ - n, ![p] = [obj[o] EXCEPT !.quan = n]]
  /\ timers' = timers \cup {[t EXCEPT !.obj = p] : t \in TimersOf(timers, o)}
  /\ lights' = IF o \in lights THEN lights \cup {p} ELSE lights
  /\ UNCHANGED <<moves, pray, pc, uz, target, files, pet, petDest>>

(* mergable, for objects that are alike in all but fuel *)
Mergable(o, p) ==
  /\ o # p /\ obj[o].kind = obj[p].kind /\ obj[o].kind \in Stacks
  /\ obj[o].lit = obj[p].lit
  /\ obj[o].kind = "candle" => Quot(obj[o].age, Grain) = Quot(obj[p].age, Grain)
  /\ obj[o].lit => obj[o].kind = "candle"

(* merged: p goes, with its timers and its light; what is not lit averages its
   age *)
Merge(o, p) ==
  /\ Acting /\ AtHand(o) /\ AtHand(p) /\ obj[o].where = obj[p].where
  /\ Mergable(o, p)
  /\ obj[o].quan + obj[p].quan <= MaxQuan
  /\ LET quan == obj[o].quan + obj[p].quan
         mean == Quot(obj[o].age * obj[o].quan + obj[p].age * obj[p].quan, quan)
     IN obj' = [obj EXCEPT ![p] = Gone, ![o].quan = quan,
                           ![o].age = IF obj[p].lit THEN @ ELSE mean]
  /\ timers' = timers \ TimersOf(timers, p)
  /\ lights' = lights \ {p}
  /\ UNCHANGED <<moves, pray, pc, uz, target, files, pet, petDest>>

-----------------------------------------------------------------------------
(* remove_object and place_object call obj_timer_checks for what is timed: a
   corpse rots half as fast on ice.  stop_timer returns the time that is left,
   and 0 also means that there was no timer. *)
Relocate(o, b) ==
  LET onto == b.where = "ice"
      off == b.onIce /\ b.where # "ice"
      checked == b.kind \in Corpses /\ b.timed > 0 /\ (onto \/ off)
      mine == TimersOf(timers, o)
      kept == {t \in mine : t.timeout # moves}
      Rescaled(left) == IF onto THEN left * 2 ELSE Quot(left, 2)
  IN IF ~checked
     THEN obj' = [obj EXCEPT ![o] = b] /\ UNCHANGED timers
     ELSE /\ obj' = [obj EXCEPT ![o] =
                       IF kept = {} THEN [b EXCEPT !.timed = 0] ELSE [b EXCEPT !.onIce = onto]]
          /\ timers' = (timers \ mine)
                       \cup {Timer(o, t.func, Rescaled(t.timeout - moves)) : t \in kept}

(* What the hero drops, picks up, or kicks, and water that freezes or melts;
   only under a corpse does it matter what the floor is. *)
Move(o, w) ==
  /\ Acting /\ AtHand(o)
  /\ obj[o].where # "minvent"
  /\ w \in ({"invent"} \cup FloorFor(obj[o])) \ {obj[o].where}
  /\ Relocate(o, [obj[o] EXCEPT !.where = w])
  /\ UNCHANGED <<moves, pray, pc, uz, target, lights, files, pet, petDest>>

(* What the monster picks up (mpickobj) or drops, also while the hero prays. *)
PetMoves(o, w) ==
  /\ pc = "play" /\ pet = "here" /\ AtHand(o)
  /\ \/ obj[o].where \in Floor /\ w = "minvent"
     \/ obj[o].where = "minvent" /\ w \in FloorFor(obj[o])
  /\ Relocate(o, [obj[o] EXCEPT !.where = w])
  /\ UNCHANGED <<moves, pray, pc, uz, target, lights, files, pet, petDest>>

(* ship_object, impact_drop: an object falls down the stairs or a hole, and
   waits in migrating_objs for the hero to come to level l *)
Ship(o, l) ==
  /\ Acting /\ AtHand(o) /\ obj[o].where # "minvent" /\ l \notin {uz} \cup EndLevels
  /\ Relocate(o, [obj[o] EXCEPT !.where = "migrating", !.dest = l])
  /\ UNCHANGED <<moves, pray, pc, uz, target, lights, files, pet, petDest>>

(* migrate_to_level: the monster falls, with all it carries *)
PetFalls(l) ==
  /\ pc = "play" /\ pet = "here" /\ l \notin {uz} \cup EndLevels
  /\ pet' = "migrating" /\ petDest' = l
  /\ UNCHANGED <<moves, pray, pc, uz, target, obj, timers, lights, files>>

-----------------------------------------------------------------------------
(* dopray, when the prayer is heard *)
Pray ==
  /\ Acting
  /\ pray' = PrayTime
  /\ UNCHANGED <<moves, pc, uz, target, obj, timers, lights, files, pet, petDest>>

\* (mutant) The count of the prayer goes on below zero.
TurnPastPrayer ==
  /\ pc = "play" /\ moves < MaxMoves
  /\ moves' = moves + 1 /\ pray' = pray - 1
  /\ pc' = IF pray > 0 THEN pc ELSE "run"
  /\ UNCHANGED <<uz, target, obj, timers, lights, files, pet, petDest>>

(* A turn passes in moveloop.  nh_timeout comes to run_timers only if the hero
   is not praying, and the prayer ends after that. *)
Turn ==
  /\ pc = "play" /\ moves < MaxMoves
  /\ moves' = moves + 1
  /\ IF pray > 0 THEN pray' = pray - 1 /\ UNCHANGED pc
                 ELSE pc' = "run" /\ UNCHANGED pray
  /\ UNCHANGED <<uz, target, obj, timers, lights, files, pet, petDest>>

Due == {t \in timers : t.timeout <= moves}
IsFirst(t) == t \in Due /\ \A s \in Due : t.timeout <= s.timeout

\* (mutant) An empty lamp is started again.
KeepsBurningEmpty(b, late) ==
  \/ late # 0 /\ b.age >= 0
  \/ late = 0 /\ b.age # 0 /\ b.kind \in {"lamp", "candle"}

KeepsBurning(b, late) ==
  \/ late # 0 /\ b.age > 0
  \/ late = 0 /\ b.age # 0 /\ b.kind \in {"lamp", "candle"}

\* (mutant) The time a timer is late is not burnt.
OverdueForgiven(b, late) == b

Overdue(b, late) == [b EXCEPT !.age = @ - late]

(* burn_object: begin_burn(obj, TRUE) while there is fuel; if the timer is late
   the time it is late was burnt too *)
BurnObject(t) ==
  LET o == t.obj
      late == moves - t.timeout
      b == Overdue([obj[o] EXCEPT !.timed = @ - 1], late)
  IN /\ t.func = "BURN_OBJECT"
     /\ IF KeepsBurning(b, late)
        THEN /\ obj' = [obj EXCEPT ![o] = Burning(b)]
             /\ timers' = (timers \ {t}) \cup {Timer(o, "BURN_OBJECT", Turns(b))}
             /\ UNCHANGED lights
        ELSE IF b.kind = "lamp"
        THEN /\ obj' = [obj EXCEPT ![o] = [b EXCEPT !.lit = FALSE, !.age = 0]]
             /\ timers' = timers \ {t}
             /\ lights' = lights \ {o}
        ELSE Free({o})

(* rot_corpse *)
RotCorpse(t) == t.func = "ROT_CORPSE" /\ Free({t.obj})

(* revive_mon: the corpse gets up, or a new timer *)
ReviveMon(t) ==
  /\ t.func = "REVIVE_MON"
  /\ \/ Free({t.obj}) /\ obj[t.obj].where # "migrating"
     \/ \E f \in {"ROT_CORPSE", "REVIVE_MON"}, n \in 1..RotTime :
          /\ timers' = (timers \ {t}) \cup {Timer(t.obj, f, n)}
          /\ UNCHANGED <<obj, lights>>

(* One round of the loop of run_timers. *)
RunTimer ==
  /\ pc = "run"
  /\ \E t \in timers : IsFirst(t) /\ (BurnObject(t) \/ RotCorpse(t) \/ ReviveMon(t))
  /\ UNCHANGED <<moves, pray, pc, uz, target, files, pet, petDest>>

EndRun ==
  /\ pc = "run" /\ Due = {}
  /\ pc' = "play"
  /\ UNCHANGED <<moves, pray, uz, target, obj, timers, lights, files, pet, petDest>>

-----------------------------------------------------------------------------
(* goto_level begins: keepdogs puts the monster next to the hero on mydogs. *)
Leave(l) ==
  /\ Acting /\ l # uz /\ uz \notin EndLevels
  /\ target' = l /\ pc' = "leaving"
  /\ pet' \in IF pet = "here" THEN {"here", "mydogs"} ELSE {pet}
  /\ UNCHANGED <<moves, pray, uz, obj, timers, lights, files, petDest>>

(* obj_is_local *)
Local(o) == obj[o].where \in Floor \/ (obj[o].where = "minvent" /\ pet = "here")

\* (mutant) timer_is_local takes every monster for a local one.
TimerIsLocalToAll(t) == Local(t.obj) \/ obj[t.obj].where = "minvent"

TimerIsLocal(t) == Local(t.obj)

(* savelev: save_timers and save_light_sources of RANGE_LEVEL, then the monsters
   and the objects.  On the way to the endgame nothing is written and the files
   of all levels are deleted. *)
SaveLevel ==
  LET here == {o \in Loaded : Local(o)}
  IN /\ pc = "leaving"
     /\ timers' = {t \in timers : ~TimerIsLocal(t)}
     /\ lights' = {o \in lights : ~Local(o)}
     /\ IF target \in EndLevels
        THEN /\ obj' = [o \in Objs |-> IF o \in here \cup Stored THEN Gone ELSE obj[o]]
             /\ files' = [l \in Levels |-> NoFile]
             /\ pet' = IF pet \in {"here", "file"} THEN "none" ELSE pet
        ELSE /\ files' = [files EXCEPT ![uz] =
                           [made |-> TRUE, objs |-> here,
                            timers |-> {t \in timers : TimerIsLocal(t)},
                            lights |-> {o \in lights : Local(o)}, pet |-> pet = "here"]]
             /\ pet' = IF pet = "here" THEN "file" ELSE pet
             /\ UNCHANGED obj
     /\ uz' = target /\ pc' = "entering"
     /\ UNCHANGED <<moves, pray, target, petDest>>

(* mklev for a level that is new, getlev for one that has a file: the timers and
   lights come back and are linked to the objects that come with them. *)
GetLevel ==
  /\ pc = "entering"
  /\ timers' = timers \cup files[uz].timers
  /\ lights' = lights \cup files[uz].lights
  /\ pet' = IF files[uz].pet THEN "here" ELSE pet
  /\ files' = [files EXCEPT ![uz] = [NoFile EXCEPT !.made = TRUE]]
  /\ pc' = "arriving"
  /\ UNCHANGED <<moves, pray, uz, target, obj, petDest>>

Awaited == {o \in Used : obj[o].where = "migrating" /\ obj[o].dest = uz}

(* obj_delivery, for one object; w is what it lands on *)
Deliver(o, w) ==
  /\ pc = "arriving" /\ o \in Awaited /\ w \in FloorFor(obj[o])
  /\ Relocate(o, [obj[o] EXCEPT !.where = w, !.dest = FirstLevel])
  /\ UNCHANGED <<moves, pray, pc, uz, target, lights, files, pet, petDest>>

(* losedogs, then run_timers for all that expired in the meantime *)
Arrive ==
  /\ pc = "arriving" /\ Awaited = {}
  /\ pet' = IF pet = "mydogs" \/ (pet = "migrating" /\ petDest = uz) THEN "here" ELSE pet
  /\ petDest' = IF pet' = "here" THEN FirstLevel ELSE petDest
  /\ pc' = "run"
  /\ UNCHANGED <<moves, pray, uz, target, obj, timers, lights, files>>

-----------------------------------------------------------------------------
Init ==
  /\ moves = 0 /\ pray = 0 /\ pc = "play"
  /\ uz = FirstLevel /\ target = FirstLevel
  /\ obj = [o \in Objs |-> Gone]
  /\ timers = {} /\ lights = {}
  /\ files = [l \in Levels |-> NoFile]
  /\ pet = "here" /\ petDest = FirstLevel

Next ==
  \/ \E o \in Objs : Create(o) \/ Light(o) \/ Snuff(o) \/ Destroy(o)
  \/ \E o, p \in Objs : Merge(o, p) \/ \E n \in 1..MaxQuan : Split(o, p, n)
  \/ \E o \in Objs, w \in {"invent", "floor", "ice", "minvent"} : Move(o, w) \/ PetMoves(o, w)
  \/ \E o \in Objs, l \in Levels : Ship(o, l)
  \/ \E l \in Levels : PetFalls(l) \/ Leave(l)
  \/ Pray \/ Turn
  \/ RunTimer \/ EndRun
  \/ SaveLevel \/ GetLevel \/ Arrive
  \/ \E o \in Objs, w \in Floor : Deliver(o, w)

Spec == Init /\ [][Next]_vars

-----------------------------------------------------------------------------
AllTimers == timers \cup UNION {files[l].timers : l \in Levels}
AllLights == lights \cup UNION {files[l].lights : l \in Levels}

TimerRec == [obj : Objs, func : Funcs, timeout : Int]
ObjRec == [kind : Lights \cup Corpses \cup {"none"},
           where : Floor \cup {"gone", "invent", "minvent", "migrating"},
           quan : Int, age : Int, lit : BOOLEAN, timed : Int, onIce : BOOLEAN, dest : Levels]
FileRec == [made : BOOLEAN, objs : SUBSET Objs, timers : SUBSET TimerRec,
            lights : SUBSET Objs, pet : BOOLEAN]

(* Type invariant of the state of src/timeout.c, light.c and do.c modelled here:
   "run" is run_timers; "leaving", "entering" and "arriving" are the parts of
   goto_level up to savelev, up to getlev and up to losedogs. *)
TypeOK ==
  /\ moves \in Nat /\ pray \in Nat
  /\ pc \in {"play", "run", "leaving", "entering", "arriving"}
  /\ uz \in Levels /\ target \in Levels
  /\ obj \in [Objs -> ObjRec]
  /\ timers \in SUBSET TimerRec /\ lights \in SUBSET Objs
  /\ files \in [Levels -> FileRec]
  /\ pet \in {"here", "mydogs", "migrating", "file", "none"} /\ petDest \in Levels

(* obj->timed, which decides whether dealloc_obj, place_object and splitobj look
   for timers at all, is the number of timers of the object, and the timers of an
   object are always where the object is: in memory, or in the file of its level.
   So relink_timers finds every object, and no timer is left pointing to an
   object that was freed (timer_sanity_check looks for timed = 0 only). *)
TimersFollowObjects ==
  /\ \A t \in timers : t.obj \in Loaded
  /\ \A l \in Levels : \A t \in files[l].timers : t.obj \in files[l].objs
  /\ \A o \in Objs : obj[o].timed = Cardinality(TimersOf(AllTimers, o))

(* An object is lit just if it has a light source and, since no lamp here burns
   for ever, just if a burn timer runs for it, and each is where the object is:
   the three records of the same fact are kept by different functions (begin_burn,
   light.c, timeout.c) and saved and reloaded apart. *)
LitMeansBurning ==
  /\ \A o \in Objs : obj[o].lit <=> o \in AllLights
  /\ \A o \in Objs : obj[o].lit <=> \E t \in AllTimers : t.obj = o /\ t.func = "BURN_OBJECT"
  /\ lights \subseteq Loaded
  /\ \A l \in Levels : files[l].lights \subseteq files[l].objs

(* Each round of run_timers leaves fewer timers that are due, although the
   functions it calls start timers themselves: the loop ends. *)
RoundsSettleTimers ==
  [][pc = "run" /\ pc' = "run" => Cardinality(Due') < Cardinality(Due)]_vars

(* A lamp or a stack of candles burns one turn of its fuel in every turn the game
   makes, through the marks at which its timer is set again, while it lies on a
   level the hero is away from, while he prays and no timer is run, and while it
   travels: FuelClock. *)
Fueled == {o \in Objs : obj[o].kind \in {"lamp", "candle"}}
BurnTimer(o) == CHOOSE t \in AllTimers : t.obj = o /\ t.func = "BURN_OBJECT"
FuelLeft(o) == IF obj[o].lit THEN obj[o].age + BurnTimer(o).timeout - moves ELSE obj[o].age
fuelBar == [o \in Objs |-> IF o \in Fueled /\ FuelLeft(o) > 0 THEN FuelLeft(o) ELSE 0]
burningBar == {o \in Fueled : obj[o].lit /\ FuelLeft(o) > 0}
Clock == INSTANCE FuelClock WITH fuel <- fuelBar, burning <- burningBar
ImplementsFuelClock == Clock!Spec

(* A corpse that is going to rot or to rise does so: its timer ends with the
   corpse, or is replaced by another one. *)
CorpseKeepsTimer ==
  [][\A o \in Objs : obj[o].kind \in Corpses /\ obj[o].timed > 0 /\ obj'[o].where # "gone"
                        => obj'[o].timed > 0]_vars
=============================================================================
