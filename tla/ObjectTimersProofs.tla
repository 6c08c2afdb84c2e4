------------------------ MODULE ObjectTimersProofs ------------------------
(***************************************************************************)
(* What ObjectTimers guarantees for every number of objects, levels, marks *)
(* and turns.  IInv is inductive: it says object by object that its count  *)
(* of timers, its timers and its light source agree, in memory and in each *)
(* level file, and that memory and the files share no object.              *)
(***************************************************************************)
EXTENDS ObjectTimers, FiniteSetTheorems, WellFoundedInduction, TLAPS

(* What the timers in T and the light sources in L say of object o, whose record
   is b: nothing runs for it, or one timer does. *)
Idle(b, T, L, o) ==
  TimersOf(T, o) = {} /\ b.timed = 0 /\ ~b.lit /\ o \notin L
Runs(b, T, L, o) ==
  \E t \in T :
    /\ TimersOf(T, o) = {t}
    /\ b.timed = 1
    /\ o \in L <=> b.lit
    /\ t.func = "BURN_OBJECT" <=> b.lit
    /\ b.kind \in IF b.lit THEN Lights ELSE Corpses
Sound(b, T, L, o) == Idle(b, T, L, o) \/ Runs(b, T, L, o)

MemorySound ==
  /\ \A o \in Objs \ Stored : Sound(obj[o], timers, lights, o)
  /\ \A t \in timers : t.obj \notin Stored
  /\ lights \cap Stored = {}

FilesSound ==
  \A l \in Levels :
    /\ \A o \in files[l].objs : Sound(obj[o], files[l].timers, files[l].lights, o)
    /\ \A t \in files[l].timers : t.obj \in files[l].objs
    /\ files[l].lights \subseteq files[l].objs

FilesApart ==
  /\ \A l \in Levels : \A o \in files[l].objs : obj[o].where \in Floor \cup {"minvent"}
  /\ \A l, m \in Levels : l # m => files[l].objs \cap files[m].objs = {}

HereLoaded ==
  /\ pc # "entering" => files[uz] = [NoFile EXCEPT !.made = files[uz].made]
  /\ pc = "leaving" => target # uz

GoneIsGone == \A o \in Objs : obj[o].where = "gone" => obj[o] = Gone

Counted == \A o \in Objs : obj[o].where # "gone" => obj[o].quan > 0

IInv == TypeOK /\ MemorySound /\ FilesSound /\ FilesApart /\ HereLoaded /\ GoneIsGone /\ Counted

-----------------------------------------------------------------------------
LEMMA QuotInt ==
  ASSUME NEW a \in Int, NEW b \in Nat, b > 0
  PROVE  Quot(a, b) \in Int
<1>1. CASE a >= 0
  BY <1>1, SMT DEF Quot
<1>2. CASE a < 0
  <2>1. -a \in Nat
    BY <1>2
  <2>2. (-a) \div b \in Int
    BY <2>1, SMT
  <2> QED
    BY <1>2, <2>2, SMT DEF Quot
<1> QED
  BY <1>1, <1>2

LEMMA LeastExists ==
  ASSUME NEW B \in SUBSET Nat, B # {}
  PROVE  \E m \in B : \A n \in B : m <= n
<1> DEFINE R == OpToRel(<, Nat)
<1>1. IsWellFoundedOn(R, Nat)
  BY NatLessThanWellFounded
<1>2. PICK m \in B : \A n \in B : <<n, m>> \notin R
  <2> HIDE DEF R
  <2> QED
    BY <1>1, WFMin
<1>3. \A n \in B : ~ n < m
  BY <1>2 DEF OpToRel
<1> HIDE DEF R
<1> QED
  BY <1>3, SMT

(* A set of naturals that has a bound has a largest element: the least bound. *)
LEMMA LargestExists ==
  ASSUME NEW S \in SUBSET Nat, S # {}, NEW k \in Nat, \A n \in S : n < k
  PROVE  \E m \in S : \A n \in S : n <= m
<1> DEFINE B == {m \in Nat : \A n \in S : n <= m}
<1>1. k \in B
  BY SMT
<1>2. PICK m \in B : \A n \in B : m <= n
  <2> B \subseteq Nat /\ B # {}
    BY <1>1
  <2> HIDE DEF B
  <2> QED
    BY LeastExists
<1>3. m \in S
  <2> SUFFICES ASSUME m \notin S PROVE FALSE
    OBVIOUS
  <2>1. m \in Nat /\ \A n \in S : n \in Nat /\ n <= m /\ n # m
    BY <1>2
  <2>2. m > 0
    <3> PICK n \in S : TRUE
      OBVIOUS
    <3> QED
      BY <2>1, SMT
  <2>3. m - 1 \in B
    BY <2>1, <2>2, SMT
  <2> QED
    BY <2>1, <2>3, <1>2, SMT
<1> QED
  BY <1>3

(* A burn ends at a mark below the fuel there is, or when the fuel does. *)
LEMMA TurnsBounds ==
  ASSUME NEW b \in ObjRec
  PROVE  /\ Turns(b) \in Int
         /\ b.age > 0 => Turns(b) \in 1..b.age
<1> DEFINE marks == IF b.kind = "lamp" THEN LampMarks ELSE CandleMarks
           below == {m \in marks : m < b.age}
           top == CHOOSE m \in below : \A n \in below : n <= m
<1>0. b.age \in Int
  BY DEF ObjRec
<1>1. marks \subseteq Nat
  BY ConstantsOK DEF ConstantsOK
<1>2. CASE b.kind = "oil"
  BY <1>0, <1>2, SMT DEF Turns
<1>3. CASE b.kind = "diluted"
  <2>1. Turns(b) = Quot(3 * b.age + 2, 4)
    BY <1>3 DEF Turns
  <2>2. Turns(b) \in Int
    BY <2>1, <1>0, QuotInt
  <2>3. ASSUME b.age > 0 PROVE Turns(b) \in 1..b.age
    BY <2>1, <2>3, <1>0, SMT DEF Quot
  <2> QED
    BY <2>2, <2>3
<1>4. CASE b.kind \notin {"oil", "diluted"} /\ below = {}
  <2>1. Turns(b) = b.age
    BY <1>4 DEF Turns
  <2> QED
    BY <2>1, <1>0, SMT
<1>5. CASE b.kind \notin {"oil", "diluted"} /\ below # {}
  <2>1. Turns(b) = b.age - top
    BY <1>5 DEF Turns
  <2>2. b.age \in Nat
    BY <1>0, <1>1, <1>5, SMT
  <2>3. \E m \in below : \A n \in below : n <= m
    <3>1. below \in SUBSET Nat /\ below # {} /\ \A n \in below : n < b.age
      BY <1>1, <1>5
    <3> HIDE DEF below
    <3> QED
      BY <3>1, <2>2, LargestExists
  <2>4. top \in below
    BY <2>3
  <2>5. top \in Nat /\ top < b.age
    BY <2>4, <1>1
  <2> HIDE DEF top
  <2> QED
    BY <2>1, <2>2, <2>5, SMT
<1> QED
  BY <1>2, <1>3, <1>4, <1>5

-----------------------------------------------------------------------------
(* What is said of an object depends on its own timers and light alone. *)
LEMMA SoundFrame ==
  ASSUME NEW b, NEW T, NEW T1, NEW L, NEW L1, NEW o,
         TimersOf(T1, o) = TimersOf(T, o), o \in L1 <=> o \in L, Sound(b, T, L, o)
  PROVE  Sound(b, T1, L1, o)
BY DEF Sound, Idle, Runs, TimersOf

(* A change of the records, timers and lights of objects in memory. *)
MemoryKept(S) ==
  /\ S \subseteq Objs \ Stored
  /\ files' = files
  /\ \A o \in Objs \ S : /\ obj'[o] = obj[o]
                         /\ TimersOf(timers', o) = TimersOf(timers, o)
                         /\ o \in lights' <=> o \in lights
  /\ \A o \in S : /\ Sound(obj'[o], timers', lights', o)
                  /\ obj'[o].where = "gone" => obj'[o] = Gone
                  /\ obj'[o].where # "gone" => obj'[o].quan > 0

LEMMA MemoryStep ==
  ASSUME IInv, TypeOK', NEW S, MemoryKept(S)
  PROVE  MemorySound' /\ FilesSound' /\ FilesApart' /\ GoneIsGone' /\ Counted'
<1>1. Stored' = Stored
  BY DEF MemoryKept, Stored
<1>2. \A l \in Levels : files[l].objs \subseteq Objs \cap Stored
  BY DEF IInv, TypeOK, FileRec, Stored
<1>3. \A o \in Stored : o \in Objs \ S
  BY <1>2 DEF MemoryKept, Stored
<1>4. MemorySound'
  <2>1. ASSUME NEW o \in Objs \ Stored PROVE Sound(obj'[o], timers', lights', o)
    <3>1. CASE o \in S
      BY <3>1 DEF MemoryKept
    <3>2. CASE o \notin S
      <4>1. Sound(obj[o], timers, lights, o)
        BY <2>1 DEF IInv, MemorySound
      <4> QED
        BY <3>2, <4>1, SoundFrame DEF MemoryKept
    <3> QED
      BY <3>1, <3>2
  <2>2. ASSUME NEW t \in timers' PROVE t.obj \notin Stored
    <3> SUFFICES ASSUME t.obj \in Stored PROVE FALSE
      OBVIOUS
    <3>1. t \in TimersOf(timers, t.obj)
      BY <1>3 DEF MemoryKept, TimersOf
    <3> QED
      BY <3>1 DEF TimersOf, IInv, MemorySound
  <2>3. lights' \cap Stored = {}
    BY <1>3 DEF MemoryKept, IInv, MemorySound
  <2> QED
    BY <1>1, <2>1, <2>2, <2>3 DEF MemorySound
<1>5. \A l \in Levels : \A o \in files[l].objs : obj'[o] = obj[o]
  BY <1>2, <1>3 DEF MemoryKept
<1>6. FilesSound' /\ FilesApart'
  BY <1>5 DEF FilesSound, FilesApart, IInv, MemoryKept
<1>7. GoneIsGone' /\ Counted'
  BY DEF GoneIsGone, Counted, IInv, MemoryKept
<1> QED
  BY <1>4, <1>6, <1>7

-----------------------------------------------------------------------------
LEMMA AtHandFacts ==
  ASSUME IInv, NEW o \in Objs, AtHand(o)
  PROVE  /\ o \notin Stored /\ obj[o].where # "gone" /\ obj[o].quan > 0
         /\ Sound(obj[o], timers, lights, o)
BY DEF AtHand, Loaded, Used, IInv, MemorySound, Counted

LEMMA ObjType ==
  ASSUME IInv, NEW o \in Objs
  PROVE  /\ obj[o] \in ObjRec
         /\ obj[o].quan \in Int /\ obj[o].age \in Int /\ obj[o].timed \in Int
         /\ obj[o].lit \in BOOLEAN
BY DEF IInv, TypeOK, ObjRec

LEMMA GoneType ==
  Gone \in ObjRec /\ Gone.where = "gone" /\ Gone.timed = 0 /\ ~Gone.lit
BY ConstantsOK DEF Gone, ObjRec, ConstantsOK, Floor

LEMMA NewType ==
  ASSUME NEW k \in Lights \cup Corpses, NEW n \in Int, NEW q \in Int
  PROVE  /\ [Gone EXCEPT !.kind = k, !.where = "floor", !.quan = q, !.age = n] \in ObjRec
         /\ [Gone EXCEPT !.kind = k, !.where = "floor", !.quan = q, !.timed = n] \in ObjRec
         /\ [Gone EXCEPT !.kind = k, !.where = "floor", !.quan = q, !.age = n].where = "floor"
         /\ [Gone EXCEPT !.kind = k, !.where = "floor", !.quan = q, !.timed = n].where = "floor"
BY GoneType DEF ObjRec, Floor

LEMMA TimerType ==
  ASSUME IInv, NEW o \in Objs, NEW f \in Funcs, NEW n \in Int
  PROVE  Timer(o, f, n) \in TimerRec
BY DEF IInv, TypeOK, Timer, TimerRec

LEMMA BurningType ==
  ASSUME NEW b \in ObjRec
  PROVE  Burning(b) \in ObjRec
<1>1. b.age - Turns(b) \in Int /\ b.timed + 1 \in Int
  BY TurnsBounds DEF ObjRec
<1>2. Burning(b) = [b EXCEPT !.lit = TRUE, !.age = b.age - Turns(b), !.timed = b.timed + 1]
  BY DEF Burning
<1> QED
  BY <1>1, <1>2 DEF ObjRec

LEMMA LightStep ==
  ASSUME IInv, NEW o \in Objs, Light(o)
  PROVE  TypeOK' /\ MemoryKept({o})
<1> DEFINE t == Timer(o, "BURN_OBJECT", Turns(obj[o]))
<1>1. Idle(obj[o], timers, lights, o)
  BY AtHandFacts DEF Light, Sound, Runs, Lights, Corpses
<1>2. t \in TimerRec /\ t.obj = o /\ t.func = "BURN_OBJECT"
  BY ObjType, TurnsBounds, TimerType DEF Funcs, Timer
<1>3. obj' = [obj EXCEPT ![o] = Burning(obj[o])] /\ Burning(obj[o]) \in ObjRec
  BY ObjType, BurningType DEF Light
<1>4. timers' = timers \cup {t} /\ lights' = lights \cup {o}
  BY DEF Light
<1> HIDE DEF t
<1>5. TypeOK'
  BY <1>2, <1>3, <1>4 DEF Light, IInv, TypeOK
<1>6. TimersOf(timers', o) = {t}
  BY <1>1, <1>2, <1>4 DEF Idle, TimersOf
<1>7. /\ obj'[o].timed = 1 /\ obj'[o].lit /\ obj'[o].kind \in Lights
      /\ obj'[o].where # "gone" /\ obj'[o].quan > 0
  BY <1>1, <1>3, ObjType, AtHandFacts DEF Burning, Idle, Light, IInv, TypeOK, ObjRec
<1>8. Sound(obj'[o], timers', lights', o)
  BY <1>2, <1>4, <1>6, <1>7 DEF Sound, Runs
<1>9. \A p \in Objs \ {o} : /\ obj'[p] = obj[p]
                            /\ TimersOf(timers', p) = TimersOf(timers, p)
                            /\ p \in lights' <=> p \in lights
  BY <1>2, <1>3, <1>4 DEF TimersOf, IInv, TypeOK
<1> QED
  BY <1>5, <1>7, <1>8, <1>9, AtHandFacts DEF MemoryKept, Light

DataOK == obj \in [Objs -> ObjRec] /\ timers \in SUBSET TimerRec /\ lights \in SUBSET Objs

LEMMA SnuffStep ==
  ASSUME IInv, NEW o \in Objs, Snuff(o)
  PROVE  TypeOK' /\ MemoryKept({o})
<1>1. PICK t \in TimersOf(timers, o) :
        /\ t.func = "BURN_OBJECT"
        /\ timers' = timers \ {t}
        /\ obj' = [obj EXCEPT ![o].lit = FALSE, ![o].age = @ + t.timeout - moves,
                              ![o].timed = @ - 1]
  BY DEF Snuff
<1>2. Runs(obj[o], timers, lights, o)
  BY <1>1, AtHandFacts DEF Snuff, Sound, Idle
<1>3. TimersOf(timers, o) = {t} /\ obj[o].timed = 1
  BY <1>1, <1>2 DEF Runs
<1>4. t.timeout \in Int /\ moves \in Int /\ t.obj = o
  BY <1>1 DEF TimersOf, IInv, TypeOK, TimerRec
<1>5. obj[o].age + t.timeout - moves \in Int /\ obj[o].timed - 1 = 0
  BY <1>3, <1>4, ObjType, SMT
<1>6. /\ obj' = [obj EXCEPT ![o] = obj'[o]] /\ obj'[o] \in ObjRec
      /\ obj'[o].timed = 0 /\ ~obj'[o].lit /\ obj'[o].where = obj[o].where
      /\ obj'[o].quan = obj[o].quan
  BY <1>1, <1>5, ObjType DEF ObjRec, IInv, TypeOK
<1>7. lights' = lights \ {o}
  BY DEF Snuff
<1>8. TypeOK'
  BY <1>1, <1>6, <1>7 DEF Snuff, IInv, TypeOK
<1>9. TimersOf(timers', o) = {}
  BY <1>1, <1>3 DEF TimersOf
<1>10. Sound(obj'[o], timers', lights', o)
  BY <1>6, <1>7, <1>9 DEF Sound, Idle
<1>11. \A p \in Objs \ {o} : /\ obj'[p] = obj[p]
                             /\ TimersOf(timers', p) = TimersOf(timers, p)
                             /\ p \in lights' <=> p \in lights
  BY <1>1, <1>4, <1>6, <1>7 DEF TimersOf, IInv, TypeOK
<1> QED
  BY <1>6, <1>8, <1>10, <1>11, AtHandFacts DEF MemoryKept, Snuff

LEMMA FreeStep ==
  ASSUME IInv, NEW S, S \subseteq Objs \ Stored, Free(S), files' = files
  PROVE  DataOK' /\ MemoryKept(S)
<1>1. DataOK'
  BY GoneType DEF Free, IInv, TypeOK, DataOK
<1>2. \A o \in S : obj'[o] = Gone /\ TimersOf(timers', o) = {} /\ o \notin lights'
  BY DEF Free, TimersOf
<1>3. \A o \in S : Sound(obj'[o], timers', lights', o)
  BY <1>2 DEF Sound, Idle, Gone
<1>4. \A p \in Objs \ S : /\ obj'[p] = obj[p]
                          /\ TimersOf(timers', p) = TimersOf(timers, p)
                          /\ p \in lights' <=> p \in lights
  BY DEF Free, TimersOf
<1>5. Gone.where = "gone"
  BY DEF Gone
<1> QED
  BY <1>1, <1>2, <1>3, <1>4, <1>5 DEF MemoryKept

LEMMA CreateStep ==
  ASSUME IInv, NEW o \in Objs, Create(o)
  PROVE  TypeOK' /\ MemoryKept({o})
<1>0. o \notin Stored /\ Idle(obj[o], timers, lights, o)
  <2>1. obj[o].where = "gone" /\ obj[o].timed = 0
    <3>1. obj[o] = Gone
      BY DEF Create
    <3> QED
      BY <3>1, GoneType
  <2>2. o \notin Stored
    BY <2>1 DEF IInv, FilesApart, Stored, Floor
  <2> QED
    BY <2>1, <2>2 DEF IInv, MemorySound, Sound, Runs
<1>1. CASE \E k \in Lights, n \in 1..MaxFuel, q \in 1..MaxQuan :
             /\ obj' = [obj EXCEPT ![o] = [Gone EXCEPT !.kind = k, !.where = "floor", !.quan = q, !.age = n]]
             /\ UNCHANGED timers
  <2>1. PICK k \in Lights, n \in 1..MaxFuel, q \in 1..MaxQuan :
             obj' = [obj EXCEPT ![o] = [Gone EXCEPT !.kind = k, !.where = "floor", !.quan = q, !.age = n]]
    BY <1>1
  <2>2. /\ obj'[o] = [Gone EXCEPT !.kind = k, !.where = "floor", !.quan = q, !.age = n]
        /\ n \in Int /\ q \in Int /\ q > 0
    BY <2>1, ConstantsOK, SMT DEF IInv, TypeOK, ConstantsOK
  <2>3. obj'[o] \in ObjRec /\ obj'[o].timed = 0 /\ ~obj'[o].lit /\ obj'[o].where # "gone" /\ obj'[o].quan > 0
    <3>1. obj'[o] \in ObjRec /\ obj'[o].where = "floor"
      <4>1. k \in Lights \cup Corpses
        OBVIOUS
      <4>2. n \in Int /\ q \in Int
        BY <2>2
      <4> DEFINE b == [Gone EXCEPT !.kind = k, !.where = "floor", !.quan = q, !.age = n]
      <4>3. b \in ObjRec /\ b.where = "floor"
        BY <4>1, <4>2, NewType
      <4>4. obj'[o] = b
        BY <2>2
      <4> HIDE DEF b
      <4> QED
        BY <4>3, <4>4
    <3>2. obj'[o].timed = 0 /\ obj'[o].lit = Gone.lit /\ obj'[o].quan > 0
      BY <2>2, GoneType DEF ObjRec
    <3> QED
      BY <3>1, <3>2, GoneType
  <2>4. timers' = timers /\ lights' = lights
    BY <1>1 DEF Create
  <2>5. TypeOK'
    BY <2>1, <2>2, <2>3, <2>4 DEF Create, IInv, TypeOK
  <2>6. Sound(obj'[o], timers', lights', o)
    BY <1>0, <2>3, <2>4 DEF Sound, Idle
  <2>7. \A p \in Objs \ {o} : obj'[p] = obj[p]
    BY <2>1 DEF IInv, TypeOK
  <2> QED
    BY <1>0, <2>3, <2>4, <2>5, <2>6, <2>7 DEF MemoryKept, Create
<1>2. CASE \E k \in Corpses, f \in {"ROT_CORPSE", "REVIVE_MON"}, n \in 1..RotTime :
             /\ obj' = [obj EXCEPT ![o] = [Gone EXCEPT !.kind = k, !.where = "floor",
                                                       !.quan = 1, !.timed = 1]]
             /\ timers' = timers \cup {Timer(o, f, n)}
  <2>1. PICK k \in Corpses, f \in {"ROT_CORPSE", "REVIVE_MON"}, n \in 1..RotTime :
             /\ obj' = [obj EXCEPT ![o] = [Gone EXCEPT !.kind = k, !.where = "floor",
                                                       !.quan = 1, !.timed = 1]]
             /\ timers' = timers \cup {Timer(o, f, n)}
    BY <1>2
  <2> DEFINE t == Timer(o, f, n)
  <2>2. t \in TimerRec /\ t.obj = o /\ t.func # "BURN_OBJECT"
    <3>1. f \in Funcs /\ n \in Int /\ f # "BURN_OBJECT"
      BY ConstantsOK, SMT DEF Funcs, ConstantsOK
    <3> QED
      BY <3>1, TimerType DEF Timer
  <2>3. obj'[o] = [Gone EXCEPT !.kind = k, !.where = "floor", !.quan = 1, !.timed = 1]
    BY <2>1 DEF IInv, TypeOK
  <2>4. /\ obj'[o] \in ObjRec /\ obj'[o].timed = 1 /\ ~obj'[o].lit /\ obj'[o].where # "gone"
        /\ obj'[o].kind \in Corpses /\ obj'[o].quan > 0
    <3>1. obj'[o] \in ObjRec /\ obj'[o].where = "floor"
      <4>1. k \in Lights \cup Corpses /\ 1 \in Int
        OBVIOUS
      <4> DEFINE b == [Gone EXCEPT !.kind = k, !.where = "floor", !.quan = 1, !.timed = 1]
      <4>2. b \in ObjRec /\ b.where = "floor"
        BY <4>1, NewType
      <4>3. obj'[o] = b
        BY <2>3
      <4> HIDE DEF b
      <4> QED
        BY <4>2, <4>3
    <3>2. /\ obj'[o].timed = 1 /\ obj'[o].lit = Gone.lit /\ obj'[o].quan > 0
          /\ obj'[o].kind \in Corpses
      BY <2>3, GoneType DEF ObjRec
    <3> QED
      BY <3>1, <3>2, GoneType
  <2>5. timers' = timers \cup {t} /\ lights' = lights
    BY <2>1 DEF Create
  <2> HIDE DEF t
  <2>6. TypeOK'
    BY <2>1, <2>2, <2>3, <2>4, <2>5 DEF Create, IInv, TypeOK
  <2>7. TimersOf(timers', o) = {t}
    BY <1>0, <2>2, <2>5 DEF Idle, TimersOf
  <2>8. Sound(obj'[o], timers', lights', o)
    BY <1>0, <2>2, <2>4, <2>5, <2>7 DEF Sound, Runs, Idle
  <2>9. \A p \in Objs \ {o} : obj'[p] = obj[p] /\ TimersOf(timers', p) = TimersOf(timers, p)
    BY <2>1, <2>2, <2>5 DEF IInv, TypeOK, TimersOf
  <2> QED
    BY <1>0, <2>4, <2>5, <2>6, <2>8, <2>9 DEF MemoryKept, Create
<1> QED
  BY <1>1, <1>2 DEF Create

LEMMA SplitStep ==
  ASSUME IInv, NEW o \in Objs, NEW p \in Objs, NEW n \in 1..MaxQuan, Split(o, p, n)
  PROVE  TypeOK' /\ MemoryKept({o, p})
<1> DEFINE copies == {[t EXCEPT !.obj = p] : t \in TimersOf(timers, o)}
           b == [obj[o] EXCEPT !.quan = n]
           c == [obj[o] EXCEPT !.quan = @ - n]
<1>1. /\ o \notin Stored /\ obj[o].where # "gone" /\ Sound(obj[o], timers, lights, o)
      /\ n \in Int /\ n > 0 /\ obj[o].quan - n \in Int /\ obj[o].quan - n > 0
  <2>1. n \in Int /\ n > 0
    BY ConstantsOK, SMT DEF ConstantsOK
  <2>2. n < obj[o].quan /\ AtHand(o)
    BY DEF Split
  <2> QED
    BY <2>1, <2>2, AtHandFacts, ObjType
<1>2. /\ obj[p] = Gone /\ p # o /\ p \notin Stored
      /\ Idle(obj[p], timers, lights, p)
  <2>1. obj[p] = Gone
    BY DEF Split
  <2>2. p \notin Stored
    BY <2>1, GoneType DEF IInv, FilesApart, Stored, Floor
  <2> QED
    BY <1>1, <2>1, <2>2, GoneType DEF IInv, MemorySound, Sound, Runs
<1>3. /\ b \in ObjRec /\ b.timed = obj[o].timed /\ b.lit = obj[o].lit /\ b.kind = obj[o].kind
      /\ b.where = obj[o].where /\ b.quan = n
  BY <1>1, ObjType DEF ObjRec
<1>4. /\ c \in ObjRec /\ c.timed = obj[o].timed /\ c.lit = obj[o].lit /\ c.kind = obj[o].kind
      /\ c.where = obj[o].where /\ c.quan = obj[o].quan - n
  BY <1>1, ObjType DEF ObjRec
<1>5. obj' = [obj EXCEPT ![o] = c, ![p] = b]
  BY DEF Split
<1>6. /\ timers' = timers \cup copies
      /\ lights' = IF o \in lights THEN lights \cup {p} ELSE lights
  BY DEF Split
<1>7. copies \subseteq TimerRec /\ \A t \in copies : t.obj = p
  BY DEF TimersOf, TimerRec, IInv, TypeOK
<1>8. ASSUME NEW t \in timers, TimersOf(timers, o) = {t}
      PROVE  copies = {[t EXCEPT !.obj = p]} /\ [t EXCEPT !.obj = p].func = t.func
  BY <1>8 DEF TimerRec, IInv, TypeOK
<1>9. TimersOf(timers, o) = {} => copies = {}
  OBVIOUS
<1> HIDE DEF b, c, copies
<1>10. TypeOK'
  BY <1>3, <1>4, <1>5, <1>6, <1>7 DEF Split, IInv, TypeOK
<1>11. TimersOf(timers', p) = copies
  BY <1>2, <1>6, <1>7 DEF Idle, TimersOf
<1>12. \A q \in Objs \ {p} : TimersOf(timers', q) = TimersOf(timers, q) /\ (q \in lights' <=> q \in lights)
  BY <1>6, <1>7 DEF TimersOf
<1>13. obj'[o] = c /\ obj'[p] = b /\ \A q \in Objs \ {o, p} : obj'[q] = obj[q]
  BY <1>2, <1>5 DEF IInv, TypeOK
<1>14. Sound(obj'[o], timers', lights', o)
  BY <1>1, <1>2, <1>4, <1>12, <1>13, <1>6 DEF Sound, Idle, Runs
<1>15. Sound(obj'[p], timers', lights', p)
  <2>1. p \in lights' <=> o \in lights
    BY <1>2, <1>6 DEF Idle
  <2>2. CASE Idle(obj[o], timers, lights, o)
    BY <2>1, <2>2, <1>3, <1>9, <1>11, <1>13 DEF Sound, Idle
  <2>3. CASE Runs(obj[o], timers, lights, o)
    <3>1. PICK t \in timers : /\ TimersOf(timers, o) = {t}
                              /\ obj[o].timed = 1
                              /\ o \in lights <=> obj[o].lit
                              /\ t.func = "BURN_OBJECT" <=> obj[o].lit
                              /\ obj[o].kind \in IF obj[o].lit THEN Lights ELSE Corpses
      BY <2>3 DEF Runs
    <3> DEFINE u == [t EXCEPT !.obj = p]
    <3>2. copies = {u} /\ u.func = t.func
      BY <3>1, <1>8
    <3> HIDE DEF u
    <3>3. u \in timers'
      BY <3>2, <1>6
    <3> QED
      BY <2>1, <3>1, <3>2, <3>3, <1>3, <1>11, <1>13 DEF Sound, Runs
  <2> QED
    BY <1>1, <2>2, <2>3 DEF Sound
<1> QED
  BY <1>1, <1>2, <1>3, <1>4, <1>10, <1>12, <1>13, <1>14, <1>15 DEF MemoryKept, Split

LEMMA MergeStep ==
  ASSUME IInv, NEW o \in Objs, NEW p \in Objs, Merge(o, p)
  PROVE  TypeOK' /\ MemoryKept({o, p})
<1> DEFINE quan == obj[o].quan + obj[p].quan
           mean == Quot(obj[o].age * obj[o].quan + obj[p].age * obj[p].quan, quan)
           age == IF obj[p].lit THEN obj[o].age ELSE mean
           c == [obj[o] EXCEPT !.quan = quan, !.age = age]
<1>1. /\ o \notin Stored /\ obj[o].where # "gone" /\ Sound(obj[o], timers, lights, o)
      /\ p \notin Stored /\ obj[o].quan > 0 /\ obj[p].quan > 0 /\ p # o
  BY AtHandFacts DEF Merge, Mergable
<1>2. quan \in Nat /\ quan > 0 /\ mean \in Int
  <2>1. quan \in Nat /\ quan > 0
    BY <1>1, ObjType
  <2>2. obj[o].age * obj[o].quan + obj[p].age * obj[p].quan \in Int
    BY ObjType
  <2> HIDE DEF quan
  <2> QED
    BY <2>1, <2>2, QuotInt
<1>3. obj' = [obj EXCEPT ![p] = Gone, ![o] = c]
  <2>1. obj' = [obj EXCEPT ![p] = Gone, ![o].quan = quan,
                           ![o].age = IF obj[p].lit THEN @ ELSE mean]
    BY DEF Merge
  <2> HIDE DEF quan, mean
  <2> QED
    BY <1>1, <2>1 DEF IInv, TypeOK
<1>4. timers' = timers \ TimersOf(timers, p) /\ lights' = lights \ {p}
  BY DEF Merge
<1> HIDE DEF quan, mean
<1> age \in Int
  BY <1>2, ObjType
<1> HIDE DEF age
<1>5. /\ c \in ObjRec /\ c.timed = obj[o].timed /\ c.lit = obj[o].lit /\ c.kind = obj[o].kind
      /\ c.where = obj[o].where /\ c.quan = quan
  <2>1. quan \in Int /\ obj[o] \in ObjRec
    BY <1>2, ObjType
  <2>2. c \in ObjRec
    BY <2>1 DEF ObjRec
  <2> QED
    BY <2>1 DEF ObjRec
<1> HIDE DEF c
<1>6. TypeOK'
  <2>1. obj' \in [Objs -> ObjRec]
    BY <1>3, <1>5, GoneType DEF IInv, TypeOK
  <2> QED
    BY <2>1, <1>4 DEF Merge, IInv, TypeOK
<1>7. obj'[o] = c /\ obj'[p] = Gone /\ \A q \in Objs \ {o, p} : obj'[q] = obj[q]
  BY <1>1, <1>3 DEF IInv, TypeOK
<1>8. TimersOf(timers', p) = {} /\ p \notin lights'
  BY <1>4 DEF TimersOf
<1>9. \A q \in Objs \ {p} : TimersOf(timers', q) = TimersOf(timers, q) /\ (q \in lights' <=> q \in lights)
  BY <1>4 DEF TimersOf
<1>10. Sound(obj'[p], timers', lights', p)
  BY <1>7, <1>8, GoneType DEF Sound, Idle
<1>11. Sound(obj'[o], timers', lights', o)
  BY <1>1, <1>5, <1>7, <1>9 DEF Sound, Idle, Runs, TimersOf
<1> QED
  BY <1>1, <1>2, <1>5, <1>6, <1>7, <1>9, <1>10, <1>11, GoneType DEF MemoryKept, Merge

(* An object that is moved keeps its timer and its light; only obj_timer_checks
   may change the timer or lose it, with the count. *)
LEMMA RelocateStep ==
  ASSUME IInv, NEW o \in Objs, o \notin Stored, obj[o].where # "gone",
         NEW b \in ObjRec, b.where # "gone",
         b.kind = obj[o].kind, b.lit = obj[o].lit, b.timed = obj[o].timed, b.quan = obj[o].quan,
         Relocate(o, b), UNCHANGED <<lights, files>>
  PROVE  DataOK' /\ MemoryKept({o})
<1> DEFINE onto == b.where = "ice"
           off == b.onIce /\ b.where # "ice"
           checked == b.kind \in Corpses /\ b.timed > 0 /\ (onto \/ off)
           mine == TimersOf(timers, o)
           kept == {t \in mine : t.timeout # moves}
           Rescaled(left) == IF onto THEN left * 2 ELSE Quot(left, 2)
           New(t) == Timer(o, t.func, Rescaled(t.timeout - moves))
           c == IF kept = {} THEN [b EXCEPT !.timed = 0] ELSE [b EXCEPT !.onIce = onto]
<1>1. obj[o].quan > 0 /\ Sound(obj[o], timers, lights, o)
  BY DEF IInv, MemorySound, Counted
<1>2. CASE ~checked
  <2>1. obj' = [obj EXCEPT ![o] = b] /\ timers' = timers /\ lights' = lights /\ files' = files
    BY <1>2 DEF Relocate
  <2>2. DataOK'
    BY <2>1 DEF DataOK, IInv, TypeOK
  <2>3. obj'[o] = b /\ \A q \in Objs \ {o} : obj'[q] = obj[q]
    BY <2>1 DEF IInv, TypeOK
  <2>4. Sound(obj'[o], timers', lights', o)
    BY <1>1, <2>1, <2>3 DEF Sound, Idle, Runs
  <2> QED
    BY <1>1, <2>1, <2>2, <2>3, <2>4 DEF MemoryKept
<1>3. CASE checked
  <2>1. obj' = [obj EXCEPT ![o] = c] /\ timers' = (timers \ mine) \cup {New(t) : t \in kept}
    BY <1>3 DEF Relocate
  <2>2. PICK t \in timers : /\ mine = {t} /\ obj[o].timed = 1
                            /\ t.func # "BURN_OBJECT" /\ ~obj[o].lit /\ o \notin lights
    <3>1. obj[o].kind \in Corpses /\ obj[o].timed > 0 /\ ~ obj[o].kind \in Lights
      BY <1>3 DEF Corpses, Lights
    <3> QED
      BY <1>1, <3>1 DEF Sound, Idle, Runs
  <2>3. t \in TimerRec /\ t.func \in Funcs /\ t.timeout - moves \in Int
    BY DEF IInv, TypeOK, TimerRec
  <2>4. Rescaled(t.timeout - moves) \in Int
    BY <2>3, QuotInt
  <2>5. /\ c \in ObjRec /\ c.kind = b.kind /\ c.lit = b.lit /\ c.where = b.where /\ c.quan = b.quan
        /\ c.timed = IF kept = {} THEN 0 ELSE b.timed
    <3>1. onto \in BOOLEAN
      OBVIOUS
    <3> HIDE DEF kept, onto
    <3> QED
      BY <3>1 DEF ObjRec
  <2>6. New(t) \in TimerRec /\ New(t).obj = o /\ New(t).func = t.func
    <3> HIDE DEF Rescaled
    <3>1. New(t) \in TimerRec
      BY <2>3, <2>4, TimerType
    <3> QED
      BY <3>1 DEF Timer
  <2>7. kept = {} \/ kept = {t}
    BY <2>2
  <2>8. timers' = IF kept = {} THEN timers \ {t} ELSE (timers \ {t}) \cup {New(t)}
    <3> HIDE DEF New, kept, mine
    <3> QED
      BY <2>1, <2>2, <2>7
  <2> HIDE DEF New, kept, c
  <2>9. DataOK'
    BY <2>1, <2>5, <2>6, <2>8 DEF DataOK, IInv, TypeOK
  <2>10. obj'[o] = c /\ \A q \in Objs \ {o} : obj'[q] = obj[q]
    BY <2>1 DEF IInv, TypeOK
  <2>11. TimersOf(timers', o) = IF kept = {} THEN {} ELSE {New(t)}
    BY <2>2, <2>6, <2>8 DEF TimersOf
  <2>12. \A q \in Objs \ {o} : TimersOf(timers', q) = TimersOf(timers, q)
    BY <2>2, <2>6, <2>8 DEF TimersOf
  <2>13. Sound(obj'[o], timers', lights', o)
    <3>1. CASE kept = {}
      BY <3>1, <2>2, <2>5, <2>10, <2>11 DEF Sound, Idle
    <3>2. CASE kept # {}
      BY <3>2, <1>3, <2>2, <2>5, <2>6, <2>8, <2>10, <2>11 DEF Sound, Runs
    <3> QED
      BY <3>1, <3>2
  <2> QED
    BY <1>1, <2>5, <2>9, <2>10, <2>12, <2>13 DEF MemoryKept
<1> QED
  BY <1>2, <1>3

-----------------------------------------------------------------------------
(* The timer that is run, and the object it is for. *)
LEMMA TimerFacts ==
  ASSUME IInv, NEW t \in timers
  PROVE  /\ t \in TimerRec /\ t.obj \in Objs \ Stored /\ t.func \in Funcs /\ t.timeout \in Int
         /\ TimersOf(timers, t.obj) = {t}
         /\ obj[t.obj].timed = 1 /\ obj[t.obj].where # "gone" /\ obj[t.obj].quan > 0
         /\ t.obj \in lights <=> obj[t.obj].lit
         /\ t.func = "BURN_OBJECT" <=> obj[t.obj].lit
         /\ obj[t.obj].kind \in IF obj[t.obj].lit THEN Lights ELSE Corpses
<1> DEFINE o == t.obj
<1>1. t \in TimerRec /\ o \in Objs \ Stored /\ t.func \in Funcs /\ t.timeout \in Int
  BY DEF IInv, TypeOK, TimerRec, MemorySound
<1>2. Sound(obj[o], timers, lights, o) /\ t \in TimersOf(timers, o)
  BY <1>1 DEF IInv, MemorySound, TimersOf
<1>3. Runs(obj[o], timers, lights, o)
  BY <1>2 DEF Sound, Idle
<1>4. PICK s \in timers : /\ TimersOf(timers, o) = {s}
                          /\ obj[o].timed = 1
                          /\ o \in lights <=> obj[o].lit
                          /\ s.func = "BURN_OBJECT" <=> obj[o].lit
                          /\ obj[o].kind \in IF obj[o].lit THEN Lights ELSE Corpses
  BY <1>3 DEF Runs
<1>5. s = t
  BY <1>2, <1>4
<1>6. obj[o].where # "gone"
  BY <1>1, <1>4, GoneType DEF IInv, GoneIsGone
<1> QED
  BY <1>1, <1>4, <1>5, <1>6 DEF IInv, Counted

(* A timer is replaced by another one of the same object. *)
LEMMA RestartStep ==
  ASSUME IInv, NEW t \in timers, NEW u \in TimerRec, u.obj = t.obj,
         u.func = "BURN_OBJECT" <=> t.func = "BURN_OBJECT",
         timers' = (timers \ {t}) \cup {u}, lights' = lights, files' = files,
         NEW b \in ObjRec, obj' = [obj EXCEPT ![t.obj] = b],
         b.timed = 1, b.lit = obj[t.obj].lit, b.kind = obj[t.obj].kind,
         b.where = obj[t.obj].where, b.quan = obj[t.obj].quan
  PROVE  DataOK' /\ MemoryKept({t.obj})
<1> DEFINE o == t.obj
<1>1. /\ o \in Objs /\ o \notin Stored /\ TimersOf(timers, o) = {t}
      /\ obj[o].where # "gone" /\ obj[o].quan > 0
      /\ o \in lights <=> obj[o].lit
      /\ t.func = "BURN_OBJECT" <=> obj[o].lit
      /\ obj[o].kind \in IF obj[o].lit THEN Lights ELSE Corpses
  BY TimerFacts
<1>2. DataOK'
  BY <1>1 DEF DataOK, IInv, TypeOK
<1>3. obj'[o] = b /\ \A q \in Objs \ {o} : obj'[q] = obj[q]
  BY <1>1 DEF IInv, TypeOK
<1>4. TimersOf(timers', o) = {u}
  BY <1>1 DEF TimersOf
<1>5. \A q \in Objs \ {o} : TimersOf(timers', q) = TimersOf(timers, q)
  BY <1>1 DEF TimersOf
<1>6. Sound(obj'[o], timers', lights', o)
  BY <1>1, <1>3, <1>4 DEF Sound, Runs
<1> QED
  BY <1>1, <1>2, <1>3, <1>5, <1>6 DEF MemoryKept

LEMMA BurnStep ==
  ASSUME IInv, NEW t \in timers, BurnObject(t), files' = files
  PROVE  DataOK' /\ MemoryKept({t.obj})
<1> DEFINE o == t.obj
           late == moves - t.timeout
           a == [obj[o] EXCEPT !.timed = @ - 1]
           b == Overdue(a, late)
<1>1. /\ o \in Objs /\ o \notin Stored /\ t.timeout \in Int /\ TimersOf(timers, o) = {t}
      /\ obj[o].timed = 1 /\ obj[o].lit /\ t.func = "BURN_OBJECT"
      /\ obj[o].where # "gone" /\ obj[o].quan > 0
  BY TimerFacts DEF BurnObject
<1>2. late \in Int
  BY <1>1 DEF IInv, TypeOK
<1>3. b = [obj[o] EXCEPT !.timed = obj[o].timed - 1, !.age = obj[o].age - late]
  BY ObjType, <1>1 DEF Overdue, ObjRec
<1>4. /\ b \in ObjRec /\ b.timed = 0 /\ b.lit = obj[o].lit /\ b.kind = obj[o].kind
      /\ b.where = obj[o].where /\ b.quan = obj[o].quan
  <2>1. obj[o].age - late \in Int /\ obj[o].timed - 1 \in Int /\ obj[o].timed - 1 = 0
    BY <1>1, <1>2, ObjType
  <2> HIDE DEF late
  <2>2. obj[o] \in ObjRec
    BY <1>1, ObjType
  <2>3. b \in ObjRec
    BY <2>1, <2>2, <1>3 DEF ObjRec
  <2> QED
    BY <2>1, <2>2, <2>3, <1>3 DEF ObjRec
<1> HIDE DEF b
<1>5. CASE /\ obj' = [obj EXCEPT ![o] = Burning(b)]
           /\ timers' = (timers \ {t}) \cup {Timer(o, "BURN_OBJECT", Turns(b))}
           /\ UNCHANGED lights
  <2> DEFINE u == Timer(o, "BURN_OBJECT", Turns(b))
  <2>1. u \in TimerRec /\ u.obj = o /\ u.func = "BURN_OBJECT"
    BY <1>1, <1>4, TimerType, TurnsBounds DEF Funcs, Timer
  <2>2. /\ Burning(b) \in ObjRec /\ Burning(b).timed = 1 /\ Burning(b).lit = obj[o].lit
        /\ Burning(b).kind = obj[o].kind /\ Burning(b).where = obj[o].where
        /\ Burning(b).quan = obj[o].quan
    <3>1. Burning(b) \in ObjRec
      BY <1>4, BurningType
    <3>2. obj[o].lit = TRUE
      BY <1>1, ObjType
    <3>3. Burning(b) = [b EXCEPT !.lit = TRUE, !.age = b.age - Turns(b), !.timed = b.timed + 1]
      BY DEF Burning
    <3>4. Burning(b).lit = TRUE /\ Burning(b).timed = 1
      BY <3>3, <1>4 DEF ObjRec
    <3>5. Burning(b).kind = b.kind /\ Burning(b).where = b.where /\ Burning(b).quan = b.quan
      BY <3>3, <1>4 DEF ObjRec
    <3> QED
      BY <3>1, <3>2, <3>4, <3>5, <1>4
  <2> HIDE DEF u
  <2>3. timers' = (timers \ {t}) \cup {u} /\ lights' = lights
    BY <1>5 DEF u
  <2> QED
    BY <1>1, <1>5, <2>1, <2>2, <2>3, RestartStep
<1>6. CASE /\ obj' = [obj EXCEPT ![o] = [b EXCEPT !.lit = FALSE, !.age = 0]]
           /\ timers' = timers \ {t}
           /\ lights' = lights \ {o}
  <2> DEFINE c == [b EXCEPT !.lit = FALSE, !.age = 0]
  <2>1. /\ c \in ObjRec /\ c.timed = 0 /\ ~c.lit /\ c.where = obj[o].where /\ c.quan = obj[o].quan
    BY <1>4 DEF ObjRec
  <2> HIDE DEF c
  <2>2. obj' = [obj EXCEPT ![o] = c]
    BY <1>6 DEF c
  <2>3. DataOK'
    BY <1>6, <2>1, <2>2 DEF DataOK, IInv, TypeOK
  <2>4. obj'[o] = c /\ \A q \in Objs \ {o} : obj'[q] = obj[q]
    BY <1>1, <2>2 DEF IInv, TypeOK
  <2>5. TimersOf(timers', o) = {} /\ o \notin lights'
    BY <1>1, <1>6 DEF TimersOf
  <2>6. \A q \in Objs \ {o} : TimersOf(timers', q) = TimersOf(timers, q) /\ (q \in lights' <=> q \in lights)
    BY <1>1, <1>6 DEF TimersOf
  <2>7. Sound(obj'[o], timers', lights', o)
    BY <2>1, <2>4, <2>5 DEF Sound, Idle
  <2> QED
    BY <1>1, <2>1, <2>3, <2>4, <2>6, <2>7 DEF MemoryKept
<1>7. CASE Free({o})
  BY <1>1, <1>7, FreeStep
<1> QED
  BY <1>5, <1>6, <1>7 DEF BurnObject, b

LEMMA ReviveStep ==
  ASSUME IInv, NEW t \in timers, ReviveMon(t), files' = files
  PROVE  DataOK' /\ MemoryKept({t.obj})
<1>1. t.obj \in Objs \ Stored /\ t.func # "BURN_OBJECT" /\ obj[t.obj].timed = 1
  BY TimerFacts DEF ReviveMon
<1>2. CASE Free({t.obj})
  BY <1>1, <1>2, FreeStep
<1>3. CASE \E f \in {"ROT_CORPSE", "REVIVE_MON"}, n \in 1..RotTime :
             /\ timers' = (timers \ {t}) \cup {Timer(t.obj, f, n)}
             /\ UNCHANGED <<obj, lights>>
  <2>1. PICK f \in {"ROT_CORPSE", "REVIVE_MON"}, n \in 1..RotTime :
             timers' = (timers \ {t}) \cup {Timer(t.obj, f, n)}
    BY <1>3
  <2> DEFINE u == Timer(t.obj, f, n)
  <2>2. u \in TimerRec /\ u.obj = t.obj /\ u.func # "BURN_OBJECT"
    <3>1. f \in Funcs /\ n \in Int /\ f # "BURN_OBJECT"
      BY ConstantsOK, SMT DEF Funcs, ConstantsOK
    <3> QED
      BY <1>1, <3>1, TimerType DEF Timer
  <2>3. timers' = (timers \ {t}) \cup {u}
    BY <2>1
  <2> HIDE DEF u
  <2>4. obj' = [obj EXCEPT ![t.obj] = obj[t.obj]] /\ lights' = lights
    BY <1>1, <1>3 DEF IInv, TypeOK
  <2> QED
    BY <1>1, <2>2, <2>3, <2>4, ObjType, RestartStep
<1> QED
  BY <1>2, <1>3 DEF ReviveMon

-----------------------------------------------------------------------------
(* An object is saved just if its timer and its light are. *)
LEMMA SaveLevelStep ==
  ASSUME IInv, SaveLevel
  PROVE  IInv'
<1> DEFINE here == {o \in Loaded : Local(o)}
           ft == {t \in timers : Local(t.obj)}
           fl == {o \in lights : Local(o)}
<1>1. /\ timers' = {t \in timers : ~Local(t.obj)} /\ lights' = {o \in lights : ~Local(o)}
      /\ uz' = target /\ pc' = "entering" /\ pc = "leaving" /\ target # uz
      /\ UNCHANGED <<moves, pray, target, petDest>>
  BY DEF SaveLevel, TimerIsLocal, IInv, HereLoaded
<1>2. HereLoaded'
  BY <1>1 DEF HereLoaded
<1>3. \A o \in Objs : Local(o) => obj[o].where \in Floor \cup {"minvent"} /\ obj[o].where # "gone"
  BY DEF Local, Floor
<1>4. here \subseteq Objs /\ here \cap Stored = {} /\ \A o \in Objs \ Stored : Local(o) <=> o \in here
  BY <1>3 DEF Loaded, Used
<1>5. Stored \subseteq Objs
  BY DEF Stored, IInv, TypeOK, FileRec
<1>6. /\ \A t \in timers : t.obj \in Objs \ Stored
      /\ \A o \in lights : o \in Objs \ Stored
  BY DEF IInv, MemorySound, TypeOK, TimerRec
<1>7. \A o \in (Objs \ Stored) \ here : Sound(obj[o], timers', lights', o)
  <2>1. SUFFICES ASSUME NEW o \in (Objs \ Stored) \ here
                 PROVE  Sound(obj[o], timers', lights', o)
    OBVIOUS
  <2>2. ~Local(o) /\ Sound(obj[o], timers, lights, o)
    BY <1>4 DEF IInv, MemorySound
  <2>3. TimersOf(timers', o) = TimersOf(timers, o) /\ (o \in lights' <=> o \in lights)
    BY <1>1, <2>2 DEF TimersOf
  <2> QED
    BY <2>2, <2>3, SoundFrame
<1>8. timers' \in SUBSET TimerRec /\ lights' \in SUBSET Objs
  BY <1>1 DEF IInv, TypeOK
<1>9. CASE target \in EndLevels
  <2>1. /\ obj' = [o \in Objs |-> IF o \in here \cup Stored THEN Gone ELSE obj[o]]
        /\ files' = [l \in Levels |-> NoFile]
        /\ pet' = IF pet \in {"here", "file"} THEN "none" ELSE pet
    BY <1>9 DEF SaveLevel
  <2>2. NoFile \in FileRec /\ NoFile.objs = {} /\ NoFile.timers = {} /\ NoFile.lights = {}
    BY DEF NoFile, FileRec
  <2> HIDE DEF here
  <2>3. TypeOK'
    BY <1>1, <1>8, <2>1, <2>2, GoneType DEF IInv, TypeOK
  <2>4. Stored' = {}
    BY <2>1, <2>2 DEF Stored
  <2>5. \A o \in Objs : Sound(obj'[o], timers', lights', o)
    <3>1. ASSUME NEW o \in here \cup Stored PROVE Sound(obj'[o], timers', lights', o)
      <4>1. obj'[o] = Gone
        BY <1>4, <1>5, <2>1
      <4>2. TimersOf(timers', o) = {} /\ o \notin lights'
        BY <1>1, <1>4, <1>5, <1>6 DEF TimersOf
      <4> QED
        BY <4>1, <4>2, GoneType DEF Sound, Idle
    <3>2. \A o \in (Objs \ Stored) \ here : obj'[o] = obj[o]
      BY <2>1
    <3> QED
      BY <1>7, <3>1, <3>2
  <2>6. MemorySound' /\ FilesSound' /\ FilesApart'
    BY <2>1, <2>2, <2>4, <2>5 DEF MemorySound, FilesSound, FilesApart
  <2>7. GoneIsGone' /\ Counted'
    BY <2>1, GoneType DEF IInv, GoneIsGone, Counted
  <2> QED
    BY <1>2, <2>3, <2>6, <2>7 DEF IInv
<1>10. CASE target \notin EndLevels
  <2> DEFINE f == [made |-> TRUE, objs |-> here, timers |-> ft, lights |-> fl, pet |-> pet = "here"]
  <2>1. /\ files' = [files EXCEPT ![uz] = f] /\ obj' = obj
        /\ pet' = IF pet = "here" THEN "file" ELSE pet
    BY <1>10 DEF SaveLevel, TimerIsLocal
  <2>2. /\ f \in FileRec /\ f.objs = here /\ f.timers = ft /\ f.lights = fl
    BY <1>4 DEF FileRec, IInv, TypeOK
  <2>3. uz \in Levels /\ files[uz].objs = {}
    BY <1>1 DEF IInv, TypeOK, HereLoaded, NoFile
  <2> HIDE DEF f, here
  <2>4. TypeOK'
    BY <1>1, <1>8, <2>1, <2>2 DEF IInv, TypeOK
  <2>5. /\ files'[uz].objs = here /\ files'[uz].timers = ft /\ files'[uz].lights = fl
        /\ \A l \in Levels \ {uz} : files'[l] = files[l]
    BY <2>1, <2>2, <2>3 DEF IInv, TypeOK
  <2>6. Stored' = Stored \cup here
    BY <2>3, <2>5 DEF Stored
  <2>7. MemorySound'
    <3>1. \A o \in Objs \ Stored' : Sound(obj'[o], timers', lights', o)
      BY <1>7, <2>1, <2>6
    <3>2. \A t \in timers' : t.obj \notin Stored'
      BY <1>1, <1>4, <1>6, <2>6
    <3>3. lights' \cap Stored' = {}
      BY <1>1, <1>4, <1>6, <2>6
    <3> QED
      BY <3>1, <3>2, <3>3 DEF MemorySound
  <2>8. FilesSound'
    <3>1. ASSUME NEW o \in here PROVE Sound(obj[o], ft, fl, o)
      <4>1. o \in Objs /\ o \notin Stored
        BY <1>4
      <4>2. Local(o) /\ Sound(obj[o], timers, lights, o)
        BY <1>4, <4>1 DEF IInv, MemorySound
      <4>3. TimersOf(ft, o) = TimersOf(timers, o) /\ (o \in fl <=> o \in lights)
        BY <4>2 DEF TimersOf
      <4> QED
        BY <4>2, <4>3, SoundFrame
    <3>2. \A t \in ft : t.obj \in here
      BY <1>4, <1>6
    <3>3. fl \subseteq here
      BY <1>4, <1>6
    <3> HIDE DEF ft, fl
    <3>4. ASSUME NEW l \in Levels
          PROVE  /\ \A o \in files'[l].objs : Sound(obj'[o], files'[l].timers, files'[l].lights, o)
                 /\ \A t \in files'[l].timers : t.obj \in files'[l].objs
                 /\ files'[l].lights \subseteq files'[l].objs
      <4>1. CASE l = uz
        BY <4>1, <2>1, <2>5, <3>1, <3>2, <3>3
      <4>2. CASE l # uz
        BY <4>2, <2>1, <2>5 DEF IInv, FilesSound
      <4> QED
        BY <4>1, <4>2
    <3> QED
      BY <3>4 DEF FilesSound
  <2>9. FilesApart'
    <3>1. \A o \in here : obj[o].where \in Floor \cup {"minvent"}
      BY <1>3, <1>4
    <3>2. \A l \in Levels : files[l].objs \subseteq Stored
      BY DEF Stored
    <3>3. \A l \in Levels : files[l].objs \cap here = {}
      BY <3>2, <1>4
    <3>4. ASSUME NEW l \in Levels, NEW m \in Levels, l # m
          PROVE  files'[l].objs \cap files'[m].objs = {}
      <4>1. CASE l # uz /\ m # uz
        BY <3>4, <4>1, <2>5 DEF IInv, FilesApart
      <4>2. CASE l = uz
        BY <3>4, <4>2, <2>5, <3>3
      <4>3. CASE m = uz
        BY <3>4, <4>3, <2>5, <3>3
      <4> QED
        BY <4>1, <4>2, <4>3
    <3>5. \A l \in Levels : \A o \in files'[l].objs : obj[o].where \in Floor \cup {"minvent"}
      BY <2>5, <3>1 DEF IInv, FilesApart
    <3> QED
      BY <2>1, <3>4, <3>5 DEF FilesApart
  <2>10. GoneIsGone' /\ Counted'
    BY <2>1 DEF IInv, GoneIsGone, Counted
  <2> QED
    BY <1>2, <2>4, <2>7, <2>8, <2>9, <2>10 DEF IInv
<1> QED
  BY <1>9, <1>10

(* A file is read back whole, and nothing of it was in memory. *)
LEMMA GetLevelStep ==
  ASSUME IInv, GetLevel
  PROVE  IInv'
<1> DEFINE f == files[uz]
<1>1. /\ timers' = timers \cup f.timers /\ lights' = lights \cup f.lights
      /\ pet' = IF f.pet THEN "here" ELSE pet
      /\ files' = [files EXCEPT ![uz] = [NoFile EXCEPT !.made = TRUE]]
      /\ pc' = "arriving"
      /\ UNCHANGED <<moves, pray, uz, target, obj, petDest>>
  BY DEF GetLevel
<1>2. [NoFile EXCEPT !.made = TRUE] \in FileRec /\ [NoFile EXCEPT !.made = TRUE].objs = {}
  BY DEF NoFile, FileRec
<1>3. f \in FileRec /\ uz \in Levels
  BY DEF IInv, TypeOK
<1>4. f.timers \in SUBSET TimerRec /\ f.lights \in SUBSET Objs /\ f.objs \in SUBSET Objs
  BY <1>3 DEF FileRec
<1>5. TypeOK'
  <2>1. files' \in [Levels -> FileRec]
    BY <1>1, <1>2 DEF IInv, TypeOK
  <2>2. timers' \in SUBSET TimerRec /\ lights' \in SUBSET Objs
    BY <1>1, <1>4 DEF IInv, TypeOK
  <2> QED
    BY <1>1, <2>1, <2>2 DEF IInv, TypeOK
<1>6. files'[uz] = [NoFile EXCEPT !.made = TRUE] /\ \A l \in Levels \ {uz} : files'[l] = files[l]
  BY <1>1, <1>3 DEF IInv, TypeOK
<1>7. HereLoaded'
  BY <1>1, <1>6 DEF HereLoaded, NoFile
<1>8. /\ \A t \in f.timers : t.obj \in f.objs
      /\ f.lights \subseteq f.objs /\ f.objs \subseteq Stored
      /\ \A o \in f.objs : Sound(obj[o], f.timers, f.lights, o)
  BY <1>3 DEF IInv, FilesSound, Stored
<1>9. Stored' = Stored \ f.objs
  <2>1. \A l \in Levels \ {uz} : files[l].objs \cap f.objs = {}
    BY <1>3 DEF IInv, FilesApart
  <2>2. \A l \in Levels : files'[l].objs = IF l = uz THEN {} ELSE files[l].objs
    BY <1>2, <1>6
  <2>3. Stored' = UNION {files'[l].objs : l \in Levels}
    BY DEF Stored
  <2>4. ASSUME NEW o PROVE o \in Stored' <=> o \in Stored \ f.objs
    <3>1. o \in Stored' <=> \E l \in Levels : l # uz /\ o \in files[l].objs
      BY <2>2, <2>3
    <3>2. o \in Stored <=> \E l \in Levels : o \in files[l].objs
      BY DEF Stored
    <3> QED
      BY <3>1, <3>2, <2>1
  <2> QED
    BY <2>4
<1>10. MemorySound'
  <2>1. ASSUME NEW o \in Objs, o \notin Stored \ f.objs PROVE Sound(obj[o], timers', lights', o)
    <3>1. CASE o \in f.objs
      <4>1. Sound(obj[o], f.timers, f.lights, o) /\ o \in Stored
        BY <3>1, <1>8
      <4>2. TimersOf(timers', o) = TimersOf(f.timers, o) /\ (o \in lights' <=> o \in f.lights)
        BY <4>1, <1>1 DEF TimersOf, IInv, MemorySound
      <4> QED
        BY <4>1, <4>2, SoundFrame
    <3>2. CASE o \notin f.objs
      <4>1. Sound(obj[o], timers, lights, o)
        BY <2>1, <3>2 DEF IInv, MemorySound
      <4>2. TimersOf(timers', o) = TimersOf(timers, o) /\ (o \in lights' <=> o \in lights)
        BY <3>2, <1>1, <1>8 DEF TimersOf
      <4> QED
        BY <4>1, <4>2, SoundFrame
    <3> QED
      BY <3>1, <3>2
  <2>2. \A t \in timers' : t.obj \notin Stored \ f.objs
    BY <1>1, <1>8 DEF IInv, MemorySound
  <2>3. lights' \cap (Stored \ f.objs) = {}
    BY <1>1, <1>8 DEF IInv, MemorySound
  <2>4. obj' = obj
    BY <1>1
  <2> QED
    BY <2>1, <2>2, <2>3, <2>4, <1>9 DEF MemorySound
<1>11. FilesSound'
  <2>1. /\ [NoFile EXCEPT !.made = TRUE].timers = {} /\ [NoFile EXCEPT !.made = TRUE].lights = {}
    BY DEF NoFile
  <2> QED
    BY <2>1, <1>1, <1>2, <1>6 DEF IInv, FilesSound
<1>12. FilesApart'
  BY <1>1, <1>2, <1>6 DEF IInv, FilesApart
<1>13. GoneIsGone' /\ Counted'
  BY <1>1 DEF IInv, GoneIsGone, Counted
<1> QED
  BY <1>5, <1>7, <1>10, <1>11, <1>12, <1>13 DEF IInv

-----------------------------------------------------------------------------
LEMMA InitIInv ==
  ASSUME Init
  PROVE  IInv
<1>1. NoFile \in FileRec /\ NoFile.objs = {} /\ NoFile.timers = {} /\ NoFile.lights = {} /\ ~NoFile.made
  BY DEF NoFile, FileRec
<1>2. Stored = {}
  BY <1>1 DEF Init, Stored
<1>3. TypeOK
  BY <1>1, GoneType, ConstantsOK DEF Init, TypeOK, ConstantsOK
<1>4. MemorySound
  BY <1>2, GoneType DEF Init, MemorySound, Sound, Idle, TimersOf
<1>5. FilesSound /\ FilesApart
  BY <1>1 DEF Init, FilesSound, FilesApart
<1>6. HereLoaded
  BY ConstantsOK DEF Init, HereLoaded, ConstantsOK, NoFile
<1>7. GoneIsGone /\ Counted
  BY GoneType DEF Init, GoneIsGone, Counted
<1> QED
  BY <1>3, <1>4, <1>5, <1>6, <1>7 DEF IInv

(* A step in memory that leaves goto_level where it is. *)
LEMMA InMemory ==
  ASSUME IInv, TypeOK', NEW S, MemoryKept(S), UNCHANGED <<pc, uz, target, files>>
  PROVE  IInv'
<1>1. HereLoaded'
  BY DEF IInv, HereLoaded
<1> QED
  BY <1>1, MemoryStep DEF IInv

(* A step that changes neither objects nor timers. *)
LEMMA ObjectsKept ==
  ASSUME IInv, TypeOK', HereLoaded', UNCHANGED <<obj, timers, lights, files>>
  PROVE  IInv'
<1>1. MemoryKept({})
  BY DEF MemoryKept
<1> QED
  BY <1>1, MemoryStep DEF IInv

LEMMA MoveType ==
  ASSUME IInv, NEW o \in Objs, NEW w \in Floor \cup {"invent", "minvent", "migrating"}, NEW l \in Levels
  PROVE  /\ [obj[o] EXCEPT !.where = w] \in ObjRec
         /\ [obj[o] EXCEPT !.where = w, !.dest = l] \in ObjRec
         /\ \A b \in {[obj[o] EXCEPT !.where = w], [obj[o] EXCEPT !.where = w, !.dest = l]} :
              /\ b.where # "gone" /\ b.kind = obj[o].kind /\ b.lit = obj[o].lit
              /\ b.timed = obj[o].timed /\ b.quan = obj[o].quan
<1>1. obj[o] \in ObjRec
  BY ObjType
<1>2. w # "gone"
  BY DEF Floor
<1> QED
  BY <1>1, <1>2 DEF ObjRec

LEMMA NextIInv ==
  ASSUME IInv, [Next]_vars
  PROVE  IInv'
<1>1. ASSUME NEW o \in Objs, Create(o) PROVE IInv'
  BY <1>1, CreateStep, InMemory DEF Create
<1>2. ASSUME NEW o \in Objs, Light(o) PROVE IInv'
  BY <1>2, LightStep, InMemory DEF Light
<1>3. ASSUME NEW o \in Objs, Snuff(o) PROVE IInv'
  BY <1>3, SnuffStep, InMemory DEF Snuff
<1>4. ASSUME NEW o \in Objs, Destroy(o) PROVE IInv'
  <2>1. {o} \subseteq Objs \ Stored
    BY <1>4, AtHandFacts DEF Destroy
  <2>2. DataOK' /\ MemoryKept({o})
    BY <1>4, <2>1, FreeStep DEF Destroy
  <2>3. TypeOK'
    BY <1>4, <2>2 DEF Destroy, DataOK, IInv, TypeOK
  <2> QED
    BY <1>4, <2>2, <2>3, InMemory DEF Destroy
<1>5. ASSUME NEW o \in Objs, NEW p \in Objs, Merge(o, p) PROVE IInv'
  BY <1>5, MergeStep, InMemory DEF Merge
<1>6. ASSUME NEW o \in Objs, NEW p \in Objs, NEW n \in 1..MaxQuan, Split(o, p, n) PROVE IInv'
  BY <1>6, SplitStep, InMemory DEF Split
<1>7. ASSUME NEW o \in Objs, NEW w, Move(o, w) PROVE IInv'
  <2>1. o \notin Stored /\ obj[o].where # "gone"
    BY <1>7, AtHandFacts DEF Move
  <2>2. w \in Floor \cup {"invent", "minvent", "migrating"}
    BY <1>7 DEF Move, FloorFor, Floor
  <2> DEFINE b == [obj[o] EXCEPT !.where = w]
  <2>3. /\ b \in ObjRec /\ b.where # "gone" /\ b.kind = obj[o].kind /\ b.lit = obj[o].lit
        /\ b.timed = obj[o].timed /\ b.quan = obj[o].quan
    BY <2>2, ConstantsOK, MoveType DEF ConstantsOK
  <2>4. Relocate(o, b) /\ UNCHANGED <<lights, files>>
    BY <1>7 DEF Move
  <2> HIDE DEF b
  <2>5. DataOK' /\ MemoryKept({o})
    BY <2>1, <2>3, <2>4, RelocateStep
  <2>6. TypeOK'
    BY <1>7, <2>5 DEF Move, DataOK, IInv, TypeOK
  <2> QED
    BY <1>7, <2>5, <2>6, InMemory DEF Move
<1>8. ASSUME NEW o \in Objs, NEW w, PetMoves(o, w) PROVE IInv'
  <2>1. o \notin Stored /\ obj[o].where # "gone"
    BY <1>8, AtHandFacts DEF PetMoves
  <2>2. w \in Floor \cup {"invent", "minvent", "migrating"}
    BY <1>8 DEF PetMoves, FloorFor, Floor
  <2> DEFINE b == [obj[o] EXCEPT !.where = w]
  <2>3. /\ b \in ObjRec /\ b.where # "gone" /\ b.kind = obj[o].kind /\ b.lit = obj[o].lit
        /\ b.timed = obj[o].timed /\ b.quan = obj[o].quan
    BY <2>2, ConstantsOK, MoveType DEF ConstantsOK
  <2>4. Relocate(o, b) /\ UNCHANGED <<lights, files>>
    BY <1>8 DEF PetMoves
  <2> HIDE DEF b
  <2>5. DataOK' /\ MemoryKept({o})
    BY <2>1, <2>3, <2>4, RelocateStep
  <2>6. TypeOK'
    BY <1>8, <2>5 DEF PetMoves, DataOK, IInv, TypeOK
  <2> QED
    BY <1>8, <2>5, <2>6, InMemory DEF PetMoves
<1>9. ASSUME NEW o \in Objs, NEW l \in Levels, Ship(o, l) PROVE IInv'
  <2>1. o \notin Stored /\ obj[o].where # "gone"
    BY <1>9, AtHandFacts DEF Ship
  <2> DEFINE b == [obj[o] EXCEPT !.where = "migrating", !.dest = l]
  <2>2. /\ b \in ObjRec /\ b.where # "gone" /\ b.kind = obj[o].kind /\ b.lit = obj[o].lit
        /\ b.timed = obj[o].timed /\ b.quan = obj[o].quan
    <3>1. obj[o] \in ObjRec
      BY ObjType
    <3> QED
      BY <3>1 DEF ObjRec
  <2>3. Relocate(o, b) /\ UNCHANGED <<lights, files>>
    BY <1>9 DEF Ship
  <2> HIDE DEF b
  <2>4. DataOK' /\ MemoryKept({o})
    BY <2>1, <2>2, <2>3, RelocateStep
  <2>5. TypeOK'
    BY <1>9, <2>4 DEF Ship, DataOK, IInv, TypeOK
  <2> QED
    BY <1>9, <2>4, <2>5, InMemory DEF Ship
<1>10. ASSUME NEW o \in Objs, NEW w \in Floor, Deliver(o, w) PROVE IInv'
  <2>1. o \notin Stored /\ obj[o].where # "gone"
    BY <1>10 DEF Deliver, Awaited, Used, IInv, FilesApart, Stored, Floor
  <2> DEFINE b == [obj[o] EXCEPT !.where = w, !.dest = FirstLevel]
  <2>2. /\ b \in ObjRec /\ b.where # "gone" /\ b.kind = obj[o].kind /\ b.lit = obj[o].lit
        /\ b.timed = obj[o].timed /\ b.quan = obj[o].quan
    <3>1. w \in Floor \cup {"invent", "minvent", "migrating"} /\ FirstLevel \in Levels
      BY ConstantsOK DEF ConstantsOK
    <3> QED
      BY <3>1, MoveType
  <2>3. Relocate(o, b) /\ UNCHANGED <<lights, files>>
    BY <1>10 DEF Deliver
  <2> HIDE DEF b
  <2>4. DataOK' /\ MemoryKept({o})
    BY <2>1, <2>2, <2>3, RelocateStep
  <2>5. TypeOK'
    BY <1>10, <2>4 DEF Deliver, DataOK, IInv, TypeOK
  <2> QED
    BY <1>10, <2>4, <2>5, InMemory DEF Deliver
<1>11. CASE RunTimer
  <2>1. PICK t \in timers : BurnObject(t) \/ RotCorpse(t) \/ ReviveMon(t)
    BY <1>11 DEF RunTimer
  <2>2. UNCHANGED <<moves, pray, pc, uz, target, files, pet, petDest>>
    BY <1>11 DEF RunTimer
  <2>3. DataOK' /\ MemoryKept({t.obj})
    <3>1. CASE BurnObject(t)
      BY <2>2, <3>1, BurnStep
    <3>2. CASE RotCorpse(t)
      BY <2>2, <3>2, TimerFacts, FreeStep DEF RotCorpse
    <3>3. CASE ReviveMon(t)
      BY <2>2, <3>3, ReviveStep
    <3> QED
      BY <2>1, <3>1, <3>2, <3>3
  <2>4. TypeOK'
    BY <2>2, <2>3 DEF DataOK, IInv, TypeOK
  <2> QED
    BY <2>2, <2>3, <2>4, InMemory
<1>12. ASSUME NEW l \in Levels, PetFalls(l) PROVE IInv'
  BY <1>12, ObjectsKept DEF PetFalls, IInv, TypeOK, HereLoaded
<1>13. ASSUME NEW l \in Levels, Leave(l) PROVE IInv'
  <2>1. pet' \in {"here", "mydogs", "migrating", "file", "none"}
    BY <1>13 DEF Leave, IInv, TypeOK
  <2> QED
    BY <1>13, <2>1, ObjectsKept DEF Leave, Acting, IInv, TypeOK, HereLoaded
<1>14. CASE Pray
  BY <1>14, ConstantsOK, ObjectsKept DEF Pray, IInv, TypeOK, HereLoaded, ConstantsOK
<1>15. CASE Turn
  BY <1>15, ObjectsKept DEF Turn, IInv, TypeOK, HereLoaded
<1>16. CASE EndRun
  BY <1>16, ObjectsKept DEF EndRun, IInv, TypeOK, HereLoaded
<1>17. CASE Arrive
  BY <1>17, ConstantsOK, ObjectsKept DEF Arrive, IInv, TypeOK, HereLoaded, ConstantsOK
<1>18. CASE SaveLevel
  BY <1>18, SaveLevelStep
<1>19. CASE GetLevel
  BY <1>19, GetLevelStep
<1>20. CASE UNCHANGED vars
  BY <1>20, ObjectsKept DEF vars, IInv, TypeOK, HereLoaded
<1> QED
  BY <1>1, <1>2, <1>3, <1>4, <1>5, <1>6, <1>7, <1>8, <1>9, <1>10, <1>11, <1>12, <1>13,
     <1>14, <1>15, <1>16, <1>17, <1>18, <1>19, <1>20 DEF Next

LEMMA IInvariant == Spec => []IInv
<1>1. Init => IInv
  BY InitIInv
<1>2. IInv /\ [Next]_vars => IInv'
  BY NextIInv
<1> QED
  BY <1>1, <1>2, PTL DEF Spec

-----------------------------------------------------------------------------
(* The state of the timers, lights and level files is always of its type,
   whatever the numbers of objects, levels and turns. *)
THEOREM TimersTypeCorrect == Spec => []TypeOK
BY IInvariant, PTL DEF IInv

LEMMA AllTimersOf ==
  ASSUME IInv, NEW o \in Objs
  PROVE  /\ o \notin Stored => /\ TimersOf(AllTimers, o) = TimersOf(timers, o)
                               /\ o \in AllLights <=> o \in lights
         /\ \A l \in Levels : o \in files[l].objs =>
              /\ TimersOf(AllTimers, o) = TimersOf(files[l].timers, o)
              /\ o \in AllLights <=> o \in files[l].lights
<1>1. \A l \in Levels : files[l].objs \subseteq Stored
  BY DEF Stored
<1>2. \A t \in timers : t.obj \notin Stored
  BY DEF IInv, MemorySound
<1>3. \A l \in Levels : (\A t \in files[l].timers : t.obj \in files[l].objs) /\ files[l].lights \subseteq files[l].objs
  BY DEF IInv, FilesSound
<1>4. \A l, m \in Levels : l # m => files[l].objs \cap files[m].objs = {}
  BY DEF IInv, FilesApart
<1>5. lights \cap Stored = {}
  BY DEF IInv, MemorySound
<1>6. ASSUME o \notin Stored
      PROVE  TimersOf(AllTimers, o) = TimersOf(timers, o) /\ (o \in AllLights <=> o \in lights)
  BY <1>1, <1>3, <1>6 DEF AllTimers, AllLights, TimersOf
<1>7. ASSUME NEW l \in Levels, o \in files[l].objs
      PROVE  /\ TimersOf(AllTimers, o) = TimersOf(files[l].timers, o)
             /\ o \in AllLights <=> o \in files[l].lights
  <2>1. o \in Stored
    BY <1>1, <1>7
  <2>2. \A m \in Levels : m # l => o \notin files[m].objs
    BY <1>4, <1>7
  <2>3. \A t : t \in AllTimers /\ t.obj = o <=> t \in files[l].timers /\ t.obj = o
    BY <2>1, <2>2, <1>2, <1>3 DEF AllTimers
  <2>4. o \in AllLights <=> o \in files[l].lights
    BY <2>1, <2>2, <1>3, <1>5 DEF AllLights
  <2> QED
    BY <2>3, <2>4 DEF TimersOf
<1> QED
  BY <1>6, <1>7

LEMMA AllSound ==
  ASSUME IInv, NEW o \in Objs
  PROVE  Sound(obj[o], AllTimers, AllLights, o)
<1>1. CASE o \notin Stored
  <2>1. Sound(obj[o], timers, lights, o)
    BY <1>1 DEF IInv, MemorySound
  <2> QED
    BY <1>1, <2>1, AllTimersOf, SoundFrame
<1>2. CASE o \in Stored
  <2>1. PICK l \in Levels : o \in files[l].objs
    BY <1>2 DEF Stored
  <2>2. Sound(obj[o], files[l].timers, files[l].lights, o)
    BY <2>1 DEF IInv, FilesSound
  <2> QED
    BY <2>1, <2>2, AllTimersOf, SoundFrame
<1> QED
  BY <1>1, <1>2

(* No timer is ever left without its object or apart from it, and obj->timed is
   always the number of timers, so that what looks for them finds them all: from
   the invariant, since every operation keeps both in step for the objects it
   touches, and a level is saved and read back whole. *)
THEOREM TimersStayWithObjects == Spec => []TimersFollowObjects
<1>1. IInv => TimersFollowObjects
  <2> SUFFICES ASSUME IInv PROVE TimersFollowObjects
    OBVIOUS
  <2>1. \A t \in timers : t.obj \in Loaded
    <3>1. ASSUME NEW t \in timers PROVE t.obj \in Loaded
      BY TimerFacts DEF Loaded, Used
    <3> QED
      BY <3>1
  <2>2. \A l \in Levels : \A t \in files[l].timers : t.obj \in files[l].objs
    BY DEF IInv, FilesSound
  <2>3. ASSUME NEW o \in Objs PROVE obj[o].timed = Cardinality(TimersOf(AllTimers, o))
    <3>1. Sound(obj[o], AllTimers, AllLights, o)
      BY AllSound
    <3>2. CASE Idle(obj[o], AllTimers, AllLights, o)
      BY <3>2, FS_EmptySet DEF Idle
    <3>3. CASE Runs(obj[o], AllTimers, AllLights, o)
      BY <3>3, FS_Singleton DEF Runs
    <3> QED
      BY <3>1, <3>2, <3>3 DEF Sound
  <2> QED
    BY <2>1, <2>2, <2>3 DEF TimersFollowObjects
<1> QED
  BY <1>1, IInvariant, PTL

(* A thing is lit just if it has a light source and just if a burn timer runs for
   it, wherever it is. *)
THEOREM LitThingsBurn == Spec => []LitMeansBurning
<1>1. IInv => LitMeansBurning
  <2> SUFFICES ASSUME IInv PROVE LitMeansBurning
    OBVIOUS
  <2>1. ASSUME NEW o \in Objs
        PROVE  /\ obj[o].lit <=> o \in AllLights
               /\ obj[o].lit <=> \E t \in AllTimers : t.obj = o /\ t.func = "BURN_OBJECT"
    <3>1. Sound(obj[o], AllTimers, AllLights, o)
      BY AllSound
    <3>2. \A t \in AllTimers : t.obj = o <=> t \in TimersOf(AllTimers, o)
      BY DEF TimersOf
    <3> QED
      BY <3>1, <3>2 DEF Sound, Idle, Runs
  <2>2. lights \subseteq Loaded
    <3>1. ASSUME NEW o \in lights PROVE o \in Loaded
      <4>1. o \in Objs /\ o \notin Stored
        BY DEF IInv, TypeOK, MemorySound
      <4>2. obj[o].lit
        BY <4>1 DEF IInv, MemorySound, Sound, Idle, Runs
      <4> QED
        BY <4>1, <4>2, GoneType DEF IInv, GoneIsGone, Loaded, Used
    <3> QED
      BY <3>1
  <2>3. \A l \in Levels : files[l].lights \subseteq files[l].objs
    BY DEF IInv, FilesSound
  <2> QED
    BY <2>1, <2>2, <2>3 DEF LitMeansBurning
<1> QED
  BY <1>1, IInvariant, PTL

-----------------------------------------------------------------------------
(* A lamp or candle that burns was started with a mark or nothing left. *)
LitHasFuel ==
  \A o \in Objs : obj[o].lit /\ obj[o].kind \in {"lamp", "candle"} => obj[o].age >= 0

LEMMA BurningAge ==
  ASSUME NEW b \in ObjRec, b.kind \in {"lamp", "candle"}
  PROVE  Burning(b).age >= 0
<1> DEFINE marks == IF b.kind = "lamp" THEN LampMarks ELSE CandleMarks
           below == {m \in marks : m < b.age}
           top == CHOOSE m \in below : \A n \in below : n <= m
<1>1. Burning(b).age = b.age - Turns(b) /\ b.age \in Int
  BY DEF Burning, ObjRec
<1>2. Turns(b) = IF below = {} THEN b.age ELSE b.age - top
  BY DEF Turns
<1>3. CASE below = {}
  BY <1>1, <1>2, <1>3, SMT
<1>4. CASE below # {}
  <2>1. marks \subseteq Nat
    BY ConstantsOK DEF ConstantsOK
  <2>2. b.age \in Nat
    BY <1>1, <1>4, <2>1, SMT
  <2>3. \E m \in below : \A n \in below : n <= m
    <3>1. below \in SUBSET Nat /\ below # {} /\ \A n \in below : n < b.age
      BY <2>1, <1>4
    <3> HIDE DEF below
    <3> QED
      BY <3>1, <2>2, LargestExists
  <2>4. top \in Nat
    BY <2>1, <2>3
  <2> HIDE DEF top, below
  <2> QED
    BY <1>1, <1>2, <1>4, <2>4, SMT
<1> QED
  BY <1>3, <1>4

LEMMA RelocateKeeps ==
  ASSUME IInv, NEW o \in Objs, NEW b \in ObjRec, Relocate(o, b)
  PROVE  /\ obj'[o].kind = b.kind /\ obj'[o].lit = b.lit /\ obj'[o].age = b.age
         /\ \A q \in Objs \ {o} : obj'[q] = obj[q]
<1>1. PICK c \in {b, [b EXCEPT !.timed = 0], [b EXCEPT !.onIce = (b.where = "ice")]} :
        obj' = [obj EXCEPT ![o] = c]
  BY DEF Relocate
<1>2. c.kind = b.kind /\ c.lit = b.lit /\ c.age = b.age
  BY DEF ObjRec
<1> QED
  BY <1>1, <1>2 DEF IInv, TypeOK

FuelOK(b) == b.lit /\ b.kind \in {"lamp", "candle"} => b.age >= 0

LEMMA LitHasFuelStep ==
  ASSUME IInv, LitHasFuel, [Next]_vars
  PROVE  LitHasFuel'
<1> SUFFICES ASSUME NEW q \in Objs, obj'[q] # obj[q]
             PROVE  FuelOK(obj'[q])
  BY DEF LitHasFuel, FuelOK
<1>0. \A o \in Objs : FuelOK(obj[o])
  BY DEF LitHasFuel, FuelOK
<1>1. FuelOK(Gone)
  BY DEF FuelOK, Gone
<1>2. ASSUME NEW o \in Objs, Create(o) PROVE FuelOK(obj'[q])
  <2>1. ASSUME NEW b, obj' = [obj EXCEPT ![o] = b], b.lit = Gone.lit PROVE FuelOK(obj'[q])
    <3>1. q = o /\ obj'[q] = b
      BY <2>1 DEF IInv, TypeOK
    <3> QED
      BY <2>1, <3>1, GoneType DEF FuelOK
  <2>2. ASSUME NEW k, NEW n, NEW m,
               obj' = [obj EXCEPT ![o] = [Gone EXCEPT !.kind = k, !.where = "floor", !.quan = m, !.age = n]]
        PROVE  FuelOK(obj'[q])
    <3> DEFINE b == [Gone EXCEPT !.kind = k, !.where = "floor", !.quan = m, !.age = n]
    <3>1. b.lit = Gone.lit
      BY DEF Gone
    <3> HIDE DEF b
    <3> QED
      BY <2>1, <2>2, <3>1 DEF b
  <2>3. ASSUME NEW k,
               obj' = [obj EXCEPT ![o] = [Gone EXCEPT !.kind = k, !.where = "floor", !.quan = 1, !.timed = 1]]
        PROVE  FuelOK(obj'[q])
    <3> DEFINE b == [Gone EXCEPT !.kind = k, !.where = "floor", !.quan = 1, !.timed = 1]
    <3>1. b.lit = Gone.lit
      BY DEF Gone
    <3> HIDE DEF b
    <3> QED
      BY <2>1, <2>3, <3>1 DEF b
  <2>4. CASE \E k \in Lights, n \in 1..MaxFuel, m \in 1..MaxQuan :
               obj' = [obj EXCEPT ![o] = [Gone EXCEPT !.kind = k, !.where = "floor", !.quan = m, !.age = n]]
    <3>1. PICK k \in Lights, n \in 1..MaxFuel, m \in 1..MaxQuan :
               obj' = [obj EXCEPT ![o] = [Gone EXCEPT !.kind = k, !.where = "floor", !.quan = m, !.age = n]]
      BY <2>4
    <3> QED
      BY <3>1, <2>2
  <2>5. CASE \E k \in Corpses :
               obj' = [obj EXCEPT ![o] = [Gone EXCEPT !.kind = k, !.where = "floor", !.quan = 1, !.timed = 1]]
    <3>1. PICK k \in Corpses :
               obj' = [obj EXCEPT ![o] = [Gone EXCEPT !.kind = k, !.where = "floor", !.quan = 1, !.timed = 1]]
      BY <2>5
    <3> QED
      BY <3>1, <2>3
  <2> QED
    BY <1>2, <2>4, <2>5 DEF Create
<1>3. ASSUME NEW o \in Objs, Light(o) PROVE FuelOK(obj'[q])
  <2>1. obj' = [obj EXCEPT ![o] = Burning(obj[o])]
    BY <1>3 DEF Light
  <2>2. q = o /\ obj'[q] = Burning(obj[o]) /\ obj[o] \in ObjRec
    BY <2>1, ObjType DEF IInv, TypeOK
  <2>3. Burning(obj[o]).kind = obj[o].kind
    BY <2>2 DEF Burning, ObjRec
  <2> QED
    BY <2>2, <2>3, BurningAge DEF FuelOK
<1>4. ASSUME NEW o \in Objs, Snuff(o) PROVE FuelOK(obj'[q])
  <2>1. PICK a : obj' = [obj EXCEPT ![o].lit = FALSE, ![o].age = a, ![o].timed = @ - 1]
    BY <1>4 DEF Snuff
  <2>2. q = o /\ obj'[q].lit = FALSE
    BY <2>1, ObjType DEF IInv, TypeOK, ObjRec
  <2> QED
    BY <2>2 DEF FuelOK
<1>5. ASSUME NEW S, Free(S) PROVE FuelOK(obj'[q])
  BY <1>0, <1>1, <1>5 DEF Free
<1>6. ASSUME NEW o \in Objs, NEW p \in Objs, Merge(o, p) PROVE FuelOK(obj'[q])
  <2>1. PICK a, n : /\ obj' = [obj EXCEPT ![p] = Gone, ![o].quan = n,
                                          ![o].age = IF obj[p].lit THEN @ ELSE a]
                    /\ o # p /\ obj[o].lit = obj[p].lit
    BY <1>6 DEF Merge, Mergable
  <2>2. CASE q = p
    BY <2>1, <2>2, <1>1 DEF IInv, TypeOK
  <2>3. CASE q = o
    <3> DEFINE age == IF obj[p].lit THEN obj[o].age ELSE a
    <3>1. obj'[o] = [obj[o] EXCEPT !.quan = n, !.age = age]
      BY <2>1, ObjType DEF IInv, TypeOK, ObjRec
    <3>3. obj[o].lit => age = obj[o].age
      BY <2>1
    <3> HIDE DEF age
    <3>4. obj'[o].lit = obj[o].lit /\ obj'[o].kind = obj[o].kind /\ obj'[o].age = age
      BY <3>1, ObjType DEF ObjRec
    <3>2. /\ obj'[o].lit = obj[o].lit /\ obj'[o].kind = obj[o].kind
          /\ obj[o].lit => obj'[o].age = obj[o].age
      BY <3>3, <3>4
    <3> QED
      BY <2>3, <3>2, <1>0 DEF FuelOK
  <2>4. CASE q \notin {o, p}
    BY <2>1, <2>4 DEF IInv, TypeOK
  <2> QED
    BY <2>2, <2>3, <2>4
<1>7. ASSUME NEW o \in Objs, NEW p \in Objs, NEW n \in 1..MaxQuan, Split(o, p, n)
      PROVE  FuelOK(obj'[q])
  <2>1. PICK m : obj' = [obj EXCEPT ![o].quan = m, ![p] = [obj[o] EXCEPT !.quan = n]]
    BY <1>7 DEF Split
  <2>2. obj'[q] \in {[obj[o] EXCEPT !.quan = m], [obj[o] EXCEPT !.quan = n]}
    BY <2>1 DEF IInv, TypeOK
  <2>3. obj'[q].lit = obj[o].lit /\ obj'[q].kind = obj[o].kind /\ obj'[q].age = obj[o].age
    BY <2>2, ObjType DEF ObjRec
  <2> QED
    BY <2>3, <1>0 DEF FuelOK
<1>8. ASSUME NEW o \in Objs, NEW w \in Floor \cup {"invent", "minvent", "migrating"}, NEW l \in Levels,
             NEW b \in {[obj[o] EXCEPT !.where = w], [obj[o] EXCEPT !.where = w, !.dest = l]},
             Relocate(o, b)
      PROVE  FuelOK(obj'[q])
  <2>1. b \in ObjRec
    <3>1. /\ [obj[o] EXCEPT !.where = w] \in ObjRec
          /\ [obj[o] EXCEPT !.where = w, !.dest = l] \in ObjRec
      BY MoveType
    <3> QED
      BY <3>1, <1>8
  <2>2. b.kind = obj[o].kind /\ b.lit = obj[o].lit /\ b.age = obj[o].age
    BY ObjType DEF ObjRec
  <2>3. obj'[o].kind = b.kind /\ obj'[o].lit = b.lit /\ obj'[o].age = b.age /\ q = o
    BY <1>8, <2>1, RelocateKeeps
  <2> QED
    BY <2>2, <2>3, <1>0 DEF FuelOK
<1>9. CASE RunTimer
  <2>1. PICK t \in timers : BurnObject(t) \/ RotCorpse(t) \/ ReviveMon(t)
    BY <1>9 DEF RunTimer
  <2>2. t.obj \in Objs /\ obj[t.obj] \in ObjRec /\ t.timeout \in Int
    BY TimerFacts, ObjType
  <2>3. CASE BurnObject(t)
    <3> DEFINE b == Overdue([obj[t.obj] EXCEPT !.timed = @ - 1], moves - t.timeout)
    <3>1. b \in ObjRec /\ b.kind = obj[t.obj].kind
      <4>1. moves - t.timeout \in Int /\ obj[t.obj].age \in Int /\ obj[t.obj].timed \in Int
        BY <2>2, ObjType DEF IInv, TypeOK
      <4> DEFINE late == moves - t.timeout
      <4>2. obj[t.obj].age - late \in Int /\ obj[t.obj].timed - 1 \in Int
        BY <4>1
      <4>3. b = [obj[t.obj] EXCEPT !.timed = obj[t.obj].timed - 1, !.age = obj[t.obj].age - late]
        BY <2>2 DEF Overdue, ObjRec
      <4> HIDE DEF b, late
      <4> QED
        BY <2>2, <4>2, <4>3 DEF ObjRec
    <3> HIDE DEF b
    <3>2. \/ obj' = [obj EXCEPT ![t.obj] = Burning(b)]
          \/ obj' = [obj EXCEPT ![t.obj] = [b EXCEPT !.lit = FALSE, !.age = 0]]
          \/ Free({t.obj})
      BY <2>3 DEF BurnObject, b
    <3>3. CASE obj' = [obj EXCEPT ![t.obj] = Burning(b)]
      <4>1. obj'[q] = Burning(b) /\ Burning(b).kind = b.kind
        BY <3>1, <3>3, <2>2 DEF IInv, TypeOK, Burning, ObjRec
      <4> QED
        BY <4>1, <3>1, BurningAge DEF FuelOK
    <3>4. CASE obj' = [obj EXCEPT ![t.obj] = [b EXCEPT !.lit = FALSE, !.age = 0]]
      <4>1. obj'[q].age = 0
        BY <3>1, <3>4, <2>2 DEF IInv, TypeOK, ObjRec
      <4> QED
        BY <4>1 DEF FuelOK
    <3> QED
      BY <3>2, <3>3, <3>4, <1>5
  <2>4. CASE RotCorpse(t)
    BY <2>4, <1>5 DEF RotCorpse
  <2>5. CASE ReviveMon(t)
    BY <2>5, <1>5 DEF ReviveMon
  <2> QED
    BY <2>1, <2>3, <2>4, <2>5
<1>10. CASE SaveLevel
  BY <1>10, <1>0, <1>1 DEF SaveLevel
<1>11. ASSUME NEW o \in Objs, NEW w, Move(o, w) \/ PetMoves(o, w)
       PROVE  FuelOK(obj'[q])
  <2>1. w \in Floor \cup {"invent", "minvent", "migrating"} /\ Relocate(o, [obj[o] EXCEPT !.where = w])
    BY <1>11 DEF Move, PetMoves, FloorFor, Floor
  <2> QED
    BY <2>1, <1>8, ConstantsOK DEF ConstantsOK
<1>12. ASSUME NEW o \in Objs, NEW l \in Levels, Ship(o, l)
       PROVE  FuelOK(obj'[q])
  <2>1. "migrating" \in Floor \cup {"invent", "minvent", "migrating"}
    OBVIOUS
  <2> QED
    BY <2>1, <1>8, <1>12 DEF Ship
<1>13. ASSUME NEW o \in Objs, NEW w \in Floor, Deliver(o, w)
       PROVE  FuelOK(obj'[q])
  <2>1. w \in Floor \cup {"invent", "minvent", "migrating"} /\ FirstLevel \in Levels
    BY ConstantsOK DEF ConstantsOK
  <2> QED
    BY <2>1, <1>8, <1>13 DEF Deliver
<1>14. ASSUME NEW o \in Objs, Destroy(o) PROVE FuelOK(obj'[q])
  BY <1>5, <1>14 DEF Destroy
<1>15. CASE obj' = obj
  BY <1>15
<1> QED
  BY <1>2, <1>3, <1>4, <1>6, <1>7, <1>9, <1>10, <1>11, <1>12, <1>13, <1>14, <1>15
     DEF Next, vars, PetFalls, Leave, Pray, Turn, EndRun, GetLevel, Arrive

LEMMA FuelInvariant == Spec => [](IInv /\ LitHasFuel)
<1>1. Init => LitHasFuel
  BY GoneType DEF Init, LitHasFuel
<1>2. IInv /\ LitHasFuel /\ [Next]_vars => LitHasFuel'
  BY LitHasFuelStep
<1> QED
  BY <1>1, <1>2, IInvariant, PTL DEF Spec

-----------------------------------------------------------------------------
(* Every object in memory has at most one timer, so there are no more timers than
   objects. *)
LEMMA FiniteTimers ==
  ASSUME IInv
  PROVE  IsFiniteSet(timers)
<1> DEFINE f == [t \in timers |-> t.obj]
<1>1. f \in [timers -> Objs]
  BY TimerFacts
<1>2. ASSUME NEW s \in timers, NEW t \in timers, f[s] = f[t] PROVE s = t
  <2>1. TimersOf(timers, s.obj) = {s} /\ TimersOf(timers, t.obj) = {t} /\ s.obj = t.obj
    BY <1>2, TimerFacts
  <2> QED
    BY <2>1
<1>3. f \in Injection(timers, Objs)
  BY <1>1, <1>2 DEF Injection, IsInjective
<1> QED
  BY <1>3, ConstantsOK, FS_Injection DEF ConstantsOK

LEMMA RunTimerSettles ==
  ASSUME IInv, LitHasFuel, RunTimer
  PROVE  \E t \in Due : Due' \subseteq Due \ {t}
<1>1. PICK t \in timers : IsFirst(t) /\ (BurnObject(t) \/ RotCorpse(t) \/ ReviveMon(t))
  BY DEF RunTimer
<1>2. /\ t \in Due /\ t.timeout \in Int /\ t.timeout <= moves /\ moves \in Nat /\ moves' = moves
      /\ t.obj \in Objs /\ obj[t.obj] \in ObjRec
      /\ t.func = "BURN_OBJECT" <=> obj[t.obj].lit
  BY <1>1, TimerFacts, ObjType DEF IsFirst, Due, RunTimer, IInv, TypeOK
<1>3. ASSUME timers' \subseteq timers \ {t} PROVE Due' \subseteq Due \ {t}
  BY <1>2, <1>3 DEF Due
<1>4. ASSUME NEW u, timers' = (timers \ {t}) \cup {u}, u.timeout \in Int, u.timeout > moves
      PROVE  Due' \subseteq Due \ {t}
  BY <1>2, <1>4, SMT DEF Due
<1>5. ASSUME Free({t.obj}) PROVE timers' \subseteq timers \ {t}
  BY <1>5 DEF Free
<1>6. CASE BurnObject(t)
  <2> DEFINE late == moves - t.timeout
             b == Overdue([obj[t.obj] EXCEPT !.timed = @ - 1], late)
  <2>1. late \in Nat
    BY <1>2
  <2>2. b \in ObjRec /\ b.kind = obj[t.obj].kind /\ b.age = obj[t.obj].age - late /\ b.age \in Int
    <3>1. b = [obj[t.obj] EXCEPT !.timed = obj[t.obj].timed - 1, !.age = obj[t.obj].age - late]
      BY <1>2 DEF Overdue, ObjRec
    <3>2. obj[t.obj].age - late \in Int /\ obj[t.obj].timed - 1 \in Int
      BY <1>2, <2>1, ObjType
    <3> HIDE DEF b, late
    <3> QED
      BY <1>2, <3>1, <3>2 DEF ObjRec
  <2>3. CASE /\ timers' = (timers \ {t}) \cup {Timer(t.obj, "BURN_OBJECT", Turns(b))}
             /\ KeepsBurning(b, late)
    <3>1. b.age > 0
      <4>1. CASE late # 0
        BY <4>1, <2>3 DEF KeepsBurning
      <4>2. CASE late = 0
        <5>1. obj[t.obj].age >= 0
          BY <4>2, <2>2, <2>3, <1>2, <1>6 DEF KeepsBurning, LitHasFuel, BurnObject
        <5> QED
          BY <5>1, <4>2, <2>2, <2>3, ObjType, <1>2 DEF KeepsBurning
      <4> QED
        BY <4>1, <4>2
    <3>2. Turns(b) \in 1..b.age
      BY <3>1, <2>2, TurnsBounds
    <3> DEFINE u == Timer(t.obj, "BURN_OBJECT", Turns(b))
    <3>3. u.timeout = moves + Turns(b)
      BY DEF Timer
    <3>4. u.timeout \in Int /\ u.timeout > moves
      <4> HIDE DEF u, b
      <4> QED
        BY <3>2, <3>3, <2>2, <1>2
    <3> HIDE DEF u
    <3> QED
      BY <1>2, <1>4, <2>3, <3>4 DEF u
  <2>4. CASE timers' = timers \ {t} \/ Free({t.obj})
    BY <1>2, <1>3, <1>5, <2>4
  <2> HIDE DEF b, late
  <2> QED
    BY <1>6, <2>3, <2>4 DEF BurnObject, b, late
<1>7. CASE RotCorpse(t)
  BY <1>2, <1>3, <1>5, <1>7 DEF RotCorpse
<1>8. CASE ReviveMon(t)
  <2>1. CASE Free({t.obj})
    BY <1>2, <1>3, <1>5, <2>1
  <2>2. CASE \E f \in {"ROT_CORPSE", "REVIVE_MON"}, n \in 1..RotTime :
               timers' = (timers \ {t}) \cup {Timer(t.obj, f, n)}
    <3>1. PICK f \in {"ROT_CORPSE", "REVIVE_MON"}, n \in 1..RotTime :
               timers' = (timers \ {t}) \cup {Timer(t.obj, f, n)}
      BY <2>2
    <3> DEFINE u == Timer(t.obj, f, n)
    <3>2. u.timeout = moves + n /\ n \in Int /\ n >= 1
      BY ConstantsOK, SMT DEF Timer, ConstantsOK
    <3> HIDE DEF u
    <3>3. u.timeout \in Int /\ u.timeout > moves
      BY <3>2, <1>2
    <3> QED
      BY <1>2, <1>4, <3>1, <3>3 DEF u
  <2> QED
    BY <1>8, <2>1, <2>2 DEF ReviveMon
<1> QED
  BY <1>1, <1>6, <1>7, <1>8

(* run_timers comes to an end: each of its rounds leaves fewer timers that are
   due, because a burn that begins lasts at least a turn (LitHasFuel: a light
   that burns down in time has no negative fuel). *)
THEOREM RunTimersEnds == Spec => RoundsSettleTimers
<1>1. IInv /\ LitHasFuel /\ [Next]_vars
        => [pc = "run" /\ pc' = "run" => Cardinality(Due') < Cardinality(Due)]_vars
  <2> SUFFICES ASSUME IInv, LitHasFuel, Next, pc = "run", pc' = "run"
               PROVE  Cardinality(Due') < Cardinality(Due)
    BY DEF vars
  <2>1. RunTimer
    BY DEF Next, Create, Light, Snuff, Destroy, Merge, Split, Move, PetMoves, Ship, PetFalls,
           Leave, Pray, Turn, EndRun, SaveLevel, GetLevel, Arrive, Deliver, Acting
  <2>2. PICK t \in Due : Due' \subseteq Due \ {t}
    BY <2>1, RunTimerSettles
  <2>3. IsFiniteSet(Due)
    BY FiniteTimers, FS_Subset DEF Due
  <2>4. IsFiniteSet(Due \ {t}) /\ Cardinality(Due \ {t}) = Cardinality(Due) - 1
    BY <2>3, FS_RemoveElement
  <2>5. Cardinality(Due') <= Cardinality(Due \ {t}) /\ IsFiniteSet(Due')
    BY <2>2, <2>4, FS_Subset
  <2>6. Cardinality(Due) \in Nat /\ Cardinality(Due') \in Nat
    BY <2>3, <2>5, FS_CardinalityType
  <2> QED
    BY <2>4, <2>5, <2>6
<1> QED
  BY <1>1, FuelInvariant, PTL DEF Spec, RoundsSettleTimers

-----------------------------------------------------------------------------
(* The refinement of FuelClock.  Left, BarFuel and BarBurns are FuelLeft, fuelBar
   and burningBar for an object o with record b, timers T and time m. *)
Left(b, T, m, o) ==
  IF b.lit THEN b.age + (CHOOSE t \in T : t.obj = o /\ t.func = "BURN_OBJECT").timeout - m
           ELSE b.age
BarFuel(b, T, m, o) ==
  IF b.kind \in {"lamp", "candle"} /\ Left(b, T, m, o) > 0 THEN Left(b, T, m, o) ELSE 0
BarBurns(b, T, m, o) ==
  b.kind \in {"lamp", "candle"} /\ b.lit /\ Left(b, T, m, o) > 0

LEMMA BarsAre ==
  /\ fuelBar = [o \in Objs |-> BarFuel(obj[o], AllTimers, moves, o)]
  /\ burningBar = {o \in Objs : BarBurns(obj[o], AllTimers, moves, o)}
  /\ fuelBar' = [o \in Objs |-> BarFuel(obj'[o], AllTimers', moves', o)]
  /\ burningBar' = {o \in Objs : BarBurns(obj'[o], AllTimers', moves', o)}
BY DEF fuelBar, burningBar, Fueled, FuelLeft, BurnTimer, BarFuel, BarBurns, Left

LEMMA LeftLit ==
  ASSUME NEW b, NEW T, NEW m, NEW o, NEW t,
         b.lit, TimersOf(T, o) = {t}, t.func = "BURN_OBJECT"
  PROVE  Left(b, T, m, o) = b.age + t.timeout - m
<1>1. t \in T /\ t.obj = o /\ \A s \in T : s.obj = o => s = t
  BY DEF TimersOf
<1>2. (CHOOSE s \in T : s.obj = o /\ s.func = "BURN_OBJECT") = t
  BY <1>1
<1> QED
  BY <1>2 DEF Left

LEMMA LeftUnlit ==
  ASSUME NEW b, NEW T, NEW m, NEW o, ~b.lit
  PROVE  Left(b, T, m, o) = b.age
BY DEF Left

(* The timer of what is lit, in memory or in a file. *)
LEMMA BurnTimerOf ==
  ASSUME IInv, NEW o \in Objs, obj[o].lit
  PROVE  \E t \in AllTimers : TimersOf(AllTimers, o) = {t} /\ t.func = "BURN_OBJECT" /\ t.timeout \in Int
<1>1. Sound(obj[o], AllTimers, AllLights, o)
  BY AllSound
<1>2. AllTimers \subseteq TimerRec
  BY DEF AllTimers, IInv, TypeOK, FileRec
<1> QED
  BY <1>1, <1>2 DEF Sound, Idle, Runs, TimerRec

LEMMA LeftType ==
  ASSUME IInv, NEW o \in Objs
  PROVE  Left(obj[o], AllTimers, moves, o) \in Int
<1>1. CASE obj[o].lit
  <2>1. PICK t : TimersOf(AllTimers, o) = {t} /\ t.func = "BURN_OBJECT" /\ t.timeout \in Int
    BY <1>1, BurnTimerOf
  <2>2. Left(obj[o], AllTimers, moves, o) = obj[o].age + t.timeout - moves
    BY <1>1, <2>1, LeftLit
  <2>3. obj[o].age \in Int /\ moves \in Int
    BY ObjType DEF IInv, TypeOK
  <2> QED
    BY <2>1, <2>2, <2>3
<1>2. CASE ~obj[o].lit
  BY <1>2, LeftUnlit, ObjType
<1> QED
  BY <1>1, <1>2

LEMMA BarsType ==
  ASSUME IInv
  PROVE  /\ fuelBar \in [Objs -> Nat] /\ burningBar \subseteq Objs
         /\ \A o \in burningBar : fuelBar[o] > 0
<1>1. \A o \in Objs : BarFuel(obj[o], AllTimers, moves, o) \in Nat
  BY LeftType DEF BarFuel
<1>2. \A o \in Objs : BarBurns(obj[o], AllTimers, moves, o) => BarFuel(obj[o], AllTimers, moves, o) > 0
  BY LeftType DEF BarFuel, BarBurns
<1> QED
  BY <1>1, <1>2, BarsAre

(* Nothing changes for the clock of an object that keeps its kind, light, fuel
   and timer. *)
LEMMA BarsFrame ==
  ASSUME NEW b, NEW b1, NEW T, NEW T1, NEW m, NEW o,
         b1.kind = b.kind, b1.lit = b.lit, b1.age = b.age,
         b.lit => \E t : TimersOf(T, o) = {t} /\ TimersOf(T1, o) = {t} /\ t.func = "BURN_OBJECT"
  PROVE  /\ BarFuel(b1, T1, m, o) = BarFuel(b, T, m, o)
         /\ BarBurns(b1, T1, m, o) <=> BarBurns(b, T, m, o)
<1>1. Left(b1, T1, m, o) = Left(b, T, m, o)
  <2>1. CASE b.lit
    <3>1. PICK t : TimersOf(T, o) = {t} /\ TimersOf(T1, o) = {t} /\ t.func = "BURN_OBJECT"
      BY <2>1
    <3>2. Left(b, T, m, o) = b.age + t.timeout - m
      BY <2>1, <3>1, LeftLit
    <3>3. b1.lit
      BY <2>1
    <3>4. Left(b1, T1, m, o) = b1.age + t.timeout - m
      BY <3>1, <3>3, LeftLit
    <3> QED
      BY <3>2, <3>4
  <2>2. CASE ~b.lit
    BY <2>2, LeftUnlit
  <2> QED
    BY <2>1, <2>2
<1> QED
  BY <1>1 DEF BarFuel, BarBurns

LEMMA AllTimersKept ==
  ASSUME IInv, NEW S, MemoryKept(S), NEW o \in Objs
  PROVE  /\ o \notin S => TimersOf(AllTimers', o) = TimersOf(AllTimers, o)
         /\ o \in S => TimersOf(AllTimers', o) = TimersOf(timers', o)
<1> DEFINE stored == UNION {files[l].timers : l \in Levels}
<1>1. AllTimers = timers \cup stored /\ AllTimers' = timers' \cup stored
  BY DEF AllTimers, MemoryKept
<1>2. \A t \in stored : t.obj \in Stored
  BY DEF Stored, IInv, FilesSound
<1>3. o \in S => o \notin Stored
  BY DEF MemoryKept
<1>4. o \notin S => TimersOf(timers', o) = TimersOf(timers, o)
  BY DEF MemoryKept
<1> HIDE DEF stored
<1> QED
  BY <1>1, <1>2, <1>3, <1>4 DEF TimersOf

(* Outside the objects a step in memory touches, the clock stands still. *)
BarsKept(S) ==
  /\ \A o \in Objs \ S : /\ fuelBar'[o] = fuelBar[o]
                         /\ o \in burningBar' <=> o \in burningBar
  /\ \A o \in S : /\ fuelBar[o] = BarFuel(obj[o], AllTimers, moves, o)
                  /\ o \in burningBar <=> BarBurns(obj[o], AllTimers, moves, o)
                  /\ fuelBar'[o] = BarFuel(obj'[o], AllTimers', moves, o)
                  /\ o \in burningBar' <=> BarBurns(obj'[o], AllTimers', moves, o)

LEMMA BarsStep ==
  ASSUME IInv, NEW S, MemoryKept(S), moves' = moves
  PROVE  BarsKept(S)
<1>1. ASSUME NEW o \in Objs \ S
      PROVE  fuelBar'[o] = fuelBar[o] /\ (o \in burningBar' <=> o \in burningBar)
  <2>1. obj'[o] = obj[o] /\ TimersOf(AllTimers', o) = TimersOf(AllTimers, o)
    BY AllTimersKept DEF MemoryKept
  <2>2. obj[o].lit => \E t : /\ TimersOf(AllTimers, o) = {t} /\ TimersOf(AllTimers', o) = {t}
                             /\ t.func = "BURN_OBJECT"
    BY <2>1, BurnTimerOf
  <2>3. /\ BarFuel(obj'[o], AllTimers', moves, o) = BarFuel(obj[o], AllTimers, moves, o)
        /\ BarBurns(obj'[o], AllTimers', moves, o) <=> BarBurns(obj[o], AllTimers, moves, o)
    <3> DEFINE b == obj[o]
               b1 == obj'[o]
    <3>1. b1.kind = b.kind /\ b1.lit = b.lit /\ b1.age = b.age
      BY <2>1
    <3>2. b.lit => \E t : TimersOf(AllTimers, o) = {t} /\ TimersOf(AllTimers', o) = {t} /\ t.func = "BURN_OBJECT"
      BY <2>2
    <3> HIDE DEF b, b1
    <3>3. /\ BarFuel(b1, AllTimers', moves, o) = BarFuel(b, AllTimers, moves, o)
          /\ BarBurns(b1, AllTimers', moves, o) <=> BarBurns(b, AllTimers, moves, o)
      BY <3>1, <3>2, BarsFrame
    <3> QED
      BY <3>3 DEF b, b1
  <2> QED
    BY <2>3, BarsAre
<1>2. S \subseteq Objs
  BY DEF MemoryKept
<1> QED
  BY <1>1, <1>2, BarsAre DEF BarsKept

(* The clock stands still if it does so for every object. *)
LEMMA BarsStill ==
  ASSUME IInv, NEW S, BarsKept(S),
         \A o \in S : /\ o \in Objs
                      /\ fuelBar'[o] = fuelBar[o]
                      /\ o \in burningBar' <=> o \in burningBar
  PROVE  UNCHANGED <<fuelBar, burningBar>>
<1>1. \A o \in Objs : fuelBar'[o] = fuelBar[o] /\ (o \in burningBar' <=> o \in burningBar)
  BY DEF BarsKept
<1> QED
  BY <1>1, BarsAre

LEMMA BarsEqual ==
  ASSUME IInv, NEW S, S \subseteq Objs, BarsKept(S)
  PROVE  /\ (\A o \in S : fuelBar'[o] = fuelBar[o]) => fuelBar' = fuelBar
         /\ (\A o \in S : o \in burningBar' <=> o \in burningBar) => burningBar' = burningBar
         /\ (\A o \in S : fuelBar'[o] \in Nat) => fuelBar' \in [Objs -> Nat]
<1>1. (\A o \in S : fuelBar'[o] = fuelBar[o]) => fuelBar' = fuelBar
  BY BarsAre DEF BarsKept
<1>2. (\A o \in S : o \in burningBar' <=> o \in burningBar) => burningBar' = burningBar
  BY BarsAre DEF BarsKept
<1>3. (\A o \in S : fuelBar'[o] \in Nat) => fuelBar' \in [Objs -> Nat]
  BY BarsAre, BarsType DEF BarsKept
<1> QED
  BY <1>1, <1>2, <1>3

LEMMA CreateClock ==
  ASSUME IInv, NEW o \in Objs, Create(o)
  PROVE  Clock!Fill(o)
<1>1. BarsKept({o}) /\ MemoryKept({o}) /\ TypeOK'
  BY CreateStep, BarsStep DEF Create
<1>2. ~obj[o].lit
  <2>1. obj[o] = Gone
    BY DEF Create
  <2> QED
    BY <2>1, GoneType
<1>3. ~obj'[o].lit /\ obj'[o].age \in Int
  <2>1. o \notin lights /\ lights' = lights
    <3>1. obj[o] = Gone
      BY DEF Create
    <3>2. Sound(obj[o], timers, lights, o)
      BY <1>1 DEF IInv, MemorySound, MemoryKept
    <3> QED
      BY <1>2, <3>2 DEF Sound, Idle, Runs, Create
  <2>2. Sound(obj'[o], timers', lights', o)
    BY <1>1 DEF MemoryKept
  <2> QED
    BY <1>1, <2>1, <2>2 DEF Sound, Idle, Runs, TypeOK, ObjRec
<1>4. o \notin burningBar /\ o \notin burningBar'
  BY <1>1, <1>2, <1>3 DEF BarsKept, BarBurns
<1>5. fuelBar'[o] \in Nat
  <2>1. Left(obj'[o], AllTimers', moves, o) = obj'[o].age
    BY <1>3, LeftUnlit
  <2> QED
    BY <1>1, <1>3, <2>1 DEF BarsKept, BarFuel
<1>6. \A p \in Objs \ {o} : fuelBar'[p] = fuelBar[p]
  BY <1>1 DEF BarsKept
<1> QED
  BY <1>1, <1>4, <1>5, <1>6, BarsEqual DEF Clock!Fill, Clock!OnlyOf

LEMMA LightClock ==
  ASSUME IInv, NEW o \in Objs, Light(o)
  PROVE  Clock!Light(o) \/ UNCHANGED <<fuelBar, burningBar>>
<1> DEFINE b == obj[o]
           b1 == obj'[o]
           t == Timer(o, "BURN_OBJECT", Turns(b))
<1>1. BarsKept({o}) /\ MemoryKept({o})
  BY LightStep, BarsStep DEF Light
<1>2. ~b.lit /\ b \in ObjRec /\ b.age \in Int /\ Turns(b) \in Int /\ moves \in Int
  BY ObjType, TurnsBounds DEF Light, IInv, TypeOK
<1>3. Idle(b, timers, lights, o)
  BY AtHandFacts DEF Light, Sound, Runs, Lights, Corpses
<1>4. t.obj = o /\ t.func = "BURN_OBJECT" /\ t.timeout = moves + Turns(b)
  BY DEF Timer
<1>5. timers' = timers \cup {t} /\ obj' = [obj EXCEPT ![o] = Burning(b)]
  BY DEF Light
<1>6. b1.kind = b.kind /\ b1.lit /\ b1.age = b.age - Turns(b)
  BY <1>2, <1>5 DEF Burning, ObjRec, IInv, TypeOK
<1> HIDE DEF t
<1>7. TimersOf(AllTimers', o) = {t}
  <2>1. TimersOf(timers', o) = {t}
    BY <1>3, <1>4, <1>5 DEF Idle, TimersOf
  <2> QED
    BY <1>1, <2>1, AllTimersKept
<1>8. Left(b, AllTimers, moves, o) = b.age
  BY <1>2, LeftUnlit
<1>9. Left(b1, AllTimers', moves, o) = b.age
  <2>1. Left(b1, AllTimers', moves, o) = b1.age + t.timeout - moves
    BY <1>4, <1>6, <1>7, LeftLit
  <2> HIDE DEF b, b1
  <2> QED
    BY <1>2, <1>4, <1>6, <2>1
<1>10. fuelBar'[o] = fuelBar[o]
  BY <1>1, <1>6, <1>8, <1>9 DEF BarsKept, BarFuel
<1>11. fuelBar' = fuelBar
  BY <1>1, <1>10, BarsEqual
<1>12. /\ o \notin burningBar
       /\ o \in burningBar' <=> b.kind \in {"lamp", "candle"} /\ b.age > 0
  BY <1>1, <1>2, <1>6, <1>9 DEF BarsKept, BarBurns
<1>13. CASE b.kind \in {"lamp", "candle"} /\ b.age > 0
  <2>1. fuelBar[o] > 0
    BY <1>1, <1>8, <1>13 DEF BarsKept, BarFuel
  <2>2. burningBar' = burningBar \cup {o}
    <3>1. \A p \in Objs : p \in burningBar' <=> p \in burningBar \cup {o}
      BY <1>1, <1>12, <1>13 DEF BarsKept
    <3> QED
      BY <3>1, BarsAre
  <2> QED
    BY <1>11, <1>12, <2>1, <2>2 DEF Clock!Light
<1>14. CASE ~(b.kind \in {"lamp", "candle"} /\ b.age > 0)
  <2>1. o \in burningBar' <=> o \in burningBar
    BY <1>12, <1>14
  <2> QED
    BY <1>1, <1>11, <2>1, BarsEqual
<1> QED
  BY <1>13, <1>14

LEMMA SnuffClock ==
  ASSUME IInv, NEW o \in Objs, Snuff(o)
  PROVE  Clock!PutOut(o)
<1> DEFINE b == obj[o]
           b1 == obj'[o]
<1>1. BarsKept({o}) /\ MemoryKept({o})
  BY SnuffStep, BarsStep DEF Snuff
<1>2. PICK t \in TimersOf(timers, o) :
        /\ t.func = "BURN_OBJECT"
        /\ timers' = timers \ {t}
        /\ obj' = [obj EXCEPT ![o].lit = FALSE, ![o].age = @ + t.timeout - moves,
                              ![o].timed = @ - 1]
  BY DEF Snuff
<1>3. b.lit /\ b \in ObjRec
  BY ObjType DEF Snuff
<1>4. t \in timers /\ t.obj = o
  BY <1>2 DEF TimersOf
<1>5. TimersOf(timers, o) = {t} /\ t.timeout \in Int /\ o \notin Stored
  BY <1>4, TimerFacts
<1>6. b1.kind = b.kind /\ ~b1.lit /\ b1.age = b.age + t.timeout - moves
  BY <1>2, <1>3 DEF ObjRec, IInv, TypeOK
<1>7. TimersOf(AllTimers, o) = {t}
  BY <1>5, AllTimersOf
<1>8. Left(b, AllTimers, moves, o) = b.age + t.timeout - moves
  BY <1>2, <1>3, <1>7, LeftLit
<1>9. Left(b1, AllTimers', moves, o) = b.age + t.timeout - moves
  BY <1>6, LeftUnlit
<1>10. fuelBar'[o] = fuelBar[o]
  BY <1>1, <1>6, <1>8, <1>9 DEF BarsKept, BarFuel
<1>11. o \notin burningBar'
  BY <1>1, <1>6 DEF BarsKept, BarBurns
<1>12. burningBar' = burningBar \ {o}
  <2>1. \A p \in Objs : p \in burningBar' <=> p \in burningBar \ {o}
    BY <1>1, <1>11 DEF BarsKept
  <2> QED
    BY <2>1, BarsAre
<1> QED
  BY <1>1, <1>10, <1>12, BarsEqual DEF Clock!PutOut

LEMMA FreeClock ==
  ASSUME IInv, NEW S, S \subseteq Objs \ Stored, Free(S), files' = files, moves' = moves
  PROVE  Clock!Vanish(S)
<1>1. BarsKept(S) /\ MemoryKept(S)
  BY FreeStep, BarsStep
<1>2. \A o \in S : obj'[o] = Gone
  BY DEF Free
<1>3. \A o \in S : fuelBar'[o] = 0 /\ o \notin burningBar'
  BY <1>1, <1>2 DEF BarsKept, BarFuel, BarBurns, Gone
<1>4. fuelBar' = [o \in Objs |-> IF o \in S THEN 0 ELSE fuelBar[o]]
  BY <1>1, <1>3, BarsAre DEF BarsKept
<1>5. burningBar' = burningBar \ S
  <2>1. \A p \in Objs : p \in burningBar' <=> p \in burningBar \ S
    BY <1>1, <1>3 DEF BarsKept
  <2> QED
    BY <2>1, BarsAre
<1> QED
  BY <1>4, <1>5 DEF Clock!Vanish

LEMMA SplitClock ==
  ASSUME IInv, NEW o \in Objs, NEW p \in Objs, NEW n \in 1..MaxQuan, Split(o, p, n)
  PROVE  Clock!Divide(o, p)
<1> DEFINE b == obj[o]
           bo == obj'[o]
           bp == obj'[p]
           copies == {[t EXCEPT !.obj = p] : t \in TimersOf(timers, o)}
<1>1. BarsKept({o, p}) /\ MemoryKept({o, p})
  BY SplitStep, BarsStep DEF Split
<1>2. /\ b \in ObjRec /\ Sound(b, timers, lights, o) /\ b.where # "gone"
      /\ o \notin Stored /\ p \notin Stored
  BY <1>1, ObjType, AtHandFacts DEF Split, MemoryKept
<1>3. obj[p] = Gone /\ p # o
  BY <1>2, GoneType DEF Split
<1>4. obj' = [obj EXCEPT ![o].quan = @ - n, ![p] = [b EXCEPT !.quan = n]] /\ timers' = timers \cup copies
  BY DEF Split
<1>5. /\ bo.kind = b.kind /\ bo.lit = b.lit /\ bo.age = b.age
      /\ bp.kind = b.kind /\ bp.lit = b.lit /\ bp.age = b.age
  BY <1>2, <1>3, <1>4 DEF IInv, TypeOK, ObjRec
<1>6. TimersOf(timers, p) = {} /\ ~obj[p].lit
  <2>1. Sound(obj[p], timers, lights, p)
    BY <1>2 DEF IInv, MemorySound
  <2> QED
    BY <1>3, <2>1, GoneType DEF Sound, Idle, Runs
<1>7. \A t \in copies : t.obj = p
  BY DEF TimersOf, IInv, TypeOK, TimerRec
<1>8. /\ TimersOf(AllTimers', o) = TimersOf(timers, o) /\ TimersOf(AllTimers', p) = copies
      /\ TimersOf(AllTimers, o) = TimersOf(timers, o)
  <2> HIDE DEF copies
  <2>1. TimersOf(timers', o) = TimersOf(timers, o) /\ TimersOf(timers', p) = copies
    BY <1>3, <1>4, <1>6, <1>7 DEF TimersOf
  <2> QED
    BY <1>1, <1>2, <2>1, AllTimersKept, AllTimersOf
<1>9. /\ Left(bo, AllTimers', moves, o) = Left(b, AllTimers, moves, o)
      /\ Left(bp, AllTimers', moves, p) = Left(b, AllTimers, moves, o)
  <2>1. CASE b.lit
    <3>1. PICK t \in timers : TimersOf(timers, o) = {t} /\ t.func = "BURN_OBJECT"
      BY <1>2, <2>1 DEF Sound, Idle, Runs
    <3> DEFINE u == [t EXCEPT !.obj = p]
    <3>2. copies = {u} /\ u.func = "BURN_OBJECT" /\ u.timeout = t.timeout
      BY <3>1 DEF IInv, TypeOK, TimerRec
    <3> HIDE DEF copies, u
    <3>3. TimersOf(AllTimers, o) = {t} /\ TimersOf(AllTimers', o) = {t} /\ TimersOf(AllTimers', p) = {u}
      BY <3>1, <3>2, <1>8
    <3>4. bo.lit /\ bp.lit
      BY <2>1, <1>5
    <3> HIDE DEF b, bo, bp
    <3>5. Left(b, AllTimers, moves, o) = b.age + t.timeout - moves
      BY <2>1, <3>1, <3>3, LeftLit
    <3>6. Left(bo, AllTimers', moves, o) = bo.age + t.timeout - moves
      BY <3>1, <3>3, <3>4, LeftLit
    <3>7. Left(bp, AllTimers', moves, p) = bp.age + u.timeout - moves
      BY <3>2, <3>3, <3>4, LeftLit
    <3> QED
      BY <3>2, <3>5, <3>6, <3>7, <1>5
  <2>2. CASE ~b.lit
    <3>1. ~bo.lit /\ ~bp.lit
      BY <2>2, <1>5
    <3> HIDE DEF b, bo, bp
    <3> QED
      BY <2>2, <3>1, <1>5, LeftUnlit
  <2> QED
    BY <2>1, <2>2
<1>10. /\ fuelBar'[o] = fuelBar[o] /\ fuelBar'[p] = fuelBar[o]
       /\ o \in burningBar' <=> o \in burningBar
       /\ p \in burningBar' <=> o \in burningBar
       /\ p \notin burningBar
  BY <1>1, <1>5, <1>6, <1>9 DEF BarsKept, BarFuel, BarBurns
<1>11. fuelBar' = [fuelBar EXCEPT ![p] = fuelBar[o]]
  BY <1>1, <1>10, BarsAre DEF BarsKept
<1>12. burningBar' = IF o \in burningBar THEN burningBar \cup {p} ELSE burningBar
  <2>1. \A q \in Objs : q \in burningBar' <=> q \in burningBar \/ (q = p /\ o \in burningBar)
    BY <1>1, <1>10 DEF BarsKept
  <2> QED
    BY <2>1, BarsAre
<1> QED
  BY <1>10, <1>11, <1>12 DEF Clock!Divide

LEMMA MergeClock ==
  ASSUME IInv, NEW o \in Objs, NEW p \in Objs, Merge(o, p)
  PROVE  Clock!Join(o, p)
<1> DEFINE b == obj[o]
           b1 == obj'[o]
<1>1. BarsKept({o, p}) /\ MemoryKept({o, p}) /\ TypeOK'
  BY MergeStep, BarsStep DEF Merge
<1>2. /\ b \in ObjRec /\ o \notin Stored /\ o # p /\ b.lit = obj[p].lit
  BY ObjType, AtHandFacts DEF Merge, Mergable
<1>3. PICK a, n : obj' = [obj EXCEPT ![p] = Gone, ![o].quan = n, ![o].age = IF obj[p].lit THEN @ ELSE a]
  BY DEF Merge
<1>4. timers' = timers \ TimersOf(timers, p)
  BY DEF Merge
<1>5. obj'[p] = Gone
  BY <1>2, <1>3 DEF IInv, TypeOK
<1>6. b1.kind = b.kind /\ b1.lit = b.lit /\ (b.lit => b1.age = b.age) /\ b1.age \in Int
  <2> DEFINE age == IF obj[p].lit THEN b.age ELSE a
  <2>1. b1 = [b EXCEPT !.quan = n, !.age = age]
    BY <1>2, <1>3 DEF IInv, TypeOK, ObjRec
  <2>2. b.lit => age = b.age
    BY <1>2
  <2> HIDE DEF age
  <2>3. b1.lit = b.lit /\ b1.kind = b.kind /\ b1.age = age
    BY <1>2, <2>1 DEF ObjRec
  <2>4. b1 \in ObjRec
    BY <1>1 DEF TypeOK
  <2>5. b1.age \in Int
    BY <2>4 DEF ObjRec
  <2> QED
    BY <2>2, <2>3, <2>5
<1>7. fuelBar'[p] = 0 /\ p \notin burningBar'
  BY <1>1, <1>5 DEF BarsKept, BarFuel, BarBurns, Gone
<1>8. ASSUME b.lit PROVE fuelBar'[o] = fuelBar[o] /\ (o \in burningBar' <=> o \in burningBar)
  <2>1. TimersOf(AllTimers', o) = TimersOf(AllTimers, o)
    <3>1. TimersOf(timers', o) = TimersOf(timers, o)
      BY <1>2, <1>4 DEF TimersOf
    <3> QED
      BY <1>1, <1>2, <3>1, AllTimersKept, AllTimersOf
  <2>2. PICK t : TimersOf(AllTimers, o) = {t} /\ t.func = "BURN_OBJECT"
    BY <1>8, BurnTimerOf
  <2>3. b1.kind = b.kind /\ b1.lit = b.lit /\ b1.age = b.age
    BY <1>6, <1>8
  <2>4. /\ BarFuel(b1, AllTimers', moves, o) = BarFuel(b, AllTimers, moves, o)
        /\ BarBurns(b1, AllTimers', moves, o) <=> BarBurns(b, AllTimers, moves, o)
    <3>1. b.lit => \E s : TimersOf(AllTimers, o) = {s} /\ TimersOf(AllTimers', o) = {s} /\ s.func = "BURN_OBJECT"
      BY <2>1, <2>2
    <3> HIDE DEF b, b1
    <3> QED
      BY <2>3, <3>1, BarsFrame
  <2> QED
    BY <1>1, <2>4 DEF BarsKept
<1>9. ASSUME ~b.lit PROVE fuelBar'[o] \in Nat /\ o \notin burningBar' /\ o \notin burningBar
  <2>1. ~b1.lit
    BY <1>6, <1>9
  <2>2. Left(b1, AllTimers', moves, o) = b1.age
    BY <2>1, LeftUnlit
  <2> QED
    BY <1>1, <1>6, <1>9, <2>1, <2>2 DEF BarsKept, BarFuel, BarBurns
<1>10. /\ fuelBar'[o] \in Nat
       /\ o \in burningBar' <=> o \in burningBar
       /\ o \in burningBar => fuelBar'[o] = fuelBar[o]
  BY <1>8, <1>9, BarsType
<1>11. fuelBar' \in [Objs -> Nat]
  BY <1>1, <1>7, <1>10, BarsEqual
<1>12. burningBar' = burningBar \ {p}
  <2>1. \A q \in Objs : q \in burningBar' <=> q \in burningBar \ {p}
    BY <1>1, <1>7, <1>10 DEF BarsKept
  <2> QED
    BY <2>1, BarsAre
<1>13. \A q \in Objs \ {o, p} : fuelBar'[q] = fuelBar[q]
  BY <1>1 DEF BarsKept
<1> QED
  BY <1>7, <1>10, <1>11, <1>12, <1>13 DEF Clock!Join, Clock!OnlyOf

LEMMA RelocateClock ==
  ASSUME IInv, NEW o \in Objs, o \notin Stored, obj[o].where # "gone",
         NEW b \in ObjRec, b.where # "gone",
         b.kind = obj[o].kind, b.lit = obj[o].lit, b.timed = obj[o].timed, b.quan = obj[o].quan,
         b.age = obj[o].age, Relocate(o, b), UNCHANGED <<lights, files, moves>>
  PROVE  UNCHANGED <<fuelBar, burningBar>>
<1> DEFINE c == obj[o]
           c1 == obj'[o]
<1>1. BarsKept({o}) /\ MemoryKept({o})
  BY RelocateStep, BarsStep
<1>2. c1.kind = c.kind /\ c1.lit = c.lit /\ c1.age = c.age
  BY RelocateKeeps
<1>3. Sound(c, timers, lights, o)
  BY DEF IInv, MemorySound
<1>4. ASSUME c.lit
      PROVE  \E t : TimersOf(AllTimers, o) = {t} /\ TimersOf(AllTimers', o) = {t} /\ t.func = "BURN_OBJECT"
  <2>1. PICK t \in timers : TimersOf(timers, o) = {t} /\ t.func = "BURN_OBJECT" /\ c.kind \in Lights
    BY <1>3, <1>4 DEF Sound, Idle, Runs
  <2>2. timers' = timers
    BY <2>1 DEF Relocate, Lights, Corpses
  <2> QED
    BY <1>1, <2>1, <2>2, AllTimersOf, AllTimersKept
<1>5. /\ BarFuel(c1, AllTimers', moves, o) = BarFuel(c, AllTimers, moves, o)
      /\ BarBurns(c1, AllTimers', moves, o) <=> BarBurns(c, AllTimers, moves, o)
  <2> HIDE DEF c, c1
  <2> QED
    BY <1>2, <1>4, BarsFrame
<1>6. fuelBar'[o] = fuelBar[o] /\ (o \in burningBar' <=> o \in burningBar)
  BY <1>1, <1>5 DEF BarsKept
<1> QED
  BY <1>1, <1>6, BarsEqual

LEMMA TurnClock ==
  ASSUME IInv, Turn
  PROVE  Clock!Turn
<1>1. /\ obj' = obj /\ timers' = timers /\ files' = files /\ moves' = moves + 1 /\ moves \in Int
  BY DEF Turn, IInv, TypeOK
<1>2. AllTimers' = AllTimers
  BY <1>1 DEF AllTimers
<1>3. ASSUME NEW o \in Objs
      PROVE  Left(obj[o], AllTimers, moves + 1, o) =
               IF obj[o].lit THEN Left(obj[o], AllTimers, moves, o) - 1 ELSE Left(obj[o], AllTimers, moves, o)
  <2>1. CASE obj[o].lit
    <3>1. PICK t : TimersOf(AllTimers, o) = {t} /\ t.func = "BURN_OBJECT" /\ t.timeout \in Int
      BY <2>1, BurnTimerOf
    <3>2. /\ Left(obj[o], AllTimers, moves, o) = obj[o].age + t.timeout - moves
          /\ Left(obj[o], AllTimers, moves + 1, o) = obj[o].age + t.timeout - (moves + 1)
      BY <2>1, <3>1, LeftLit
    <3> QED
      BY <2>1, <3>1, <3>2, <1>1, ObjType
  <2>2. CASE ~obj[o].lit
    BY <2>2, LeftUnlit
  <2> QED
    BY <2>1, <2>2
<1>4. ASSUME NEW o \in Objs
      PROVE  /\ BarFuel(obj[o], AllTimers, moves + 1, o) =
                  IF BarBurns(obj[o], AllTimers, moves, o) THEN BarFuel(obj[o], AllTimers, moves, o) - 1
                                                            ELSE BarFuel(obj[o], AllTimers, moves, o)
             /\ BarBurns(obj[o], AllTimers, moves + 1, o) <=>
                  BarBurns(obj[o], AllTimers, moves, o) /\ BarFuel(obj[o], AllTimers, moves, o) > 1
  BY <1>3, LeftType DEF BarFuel, BarBurns
<1>5. fuelBar' = [o \in Objs |-> IF o \in burningBar THEN fuelBar[o] - 1 ELSE fuelBar[o]]
  BY <1>1, <1>2, <1>4, BarsAre
<1>6. burningBar' = {o \in burningBar : fuelBar[o] > 1}
  BY <1>1, <1>2, <1>4, BarsAre
<1> QED
  BY <1>5, <1>6 DEF Clock!Turn

(* A round of run_timers is no time: what is left to burn when a timer goes off is
   what was left before. *)
LEMMA RunTimerClock ==
  ASSUME IInv, RunTimer
  PROVE  (\E S \in SUBSET Objs : Clock!Vanish(S)) \/ UNCHANGED <<fuelBar, burningBar>>
<1>1. PICK t \in timers : IsFirst(t) /\ (BurnObject(t) \/ RotCorpse(t) \/ ReviveMon(t))
  BY DEF RunTimer
<1> DEFINE o == t.obj
           c == obj[o]
           c1 == obj'[o]
<1>2. files' = files /\ moves' = moves
  BY DEF RunTimer
<1>3. /\ o \in Objs /\ o \notin Stored /\ c \in ObjRec /\ t.timeout \in Int /\ t.timeout <= moves
      /\ moves \in Nat /\ TimersOf(timers, o) = {t}
      /\ t.func = "BURN_OBJECT" <=> c.lit
      /\ c.kind \in IF c.lit THEN Lights ELSE Corpses
  BY <1>1, TimerFacts, ObjType DEF IsFirst, Due, IInv, TypeOK
<1>4. CASE Free({o})
  BY <1>2, <1>3, <1>4, FreeClock
<1>5. CASE BurnObject(t) /\ ~Free({o})
  <2> DEFINE late == moves - t.timeout
             b == Overdue([c EXCEPT !.timed = @ - 1], late)
  <2>1. late \in Nat
    BY <1>3
  <2>2. /\ b \in ObjRec /\ b.kind = c.kind /\ b.age = c.age - late /\ b.lit = c.lit
        /\ b.age \in Int
    <3>1. b = [c EXCEPT !.timed = c.timed - 1, !.age = c.age - late]
      BY <1>3 DEF Overdue, ObjRec
    <3>2. c.age - late \in Int /\ c.timed - 1 \in Int
      BY <1>3, <2>1, ObjType
    <3> HIDE DEF b, late
    <3>3. b \in ObjRec
      BY <1>3, <3>1, <3>2 DEF ObjRec
    <3> QED
      BY <1>3, <3>1, <3>2, <3>3 DEF ObjRec
  <2>3. BarsKept({o}) /\ MemoryKept({o})
    BY <1>2, <1>5, BurnStep, BarsStep
  <2>4. c.lit /\ TimersOf(AllTimers, o) = {t} /\ t.func = "BURN_OBJECT"
    BY <1>3, <1>5, AllTimersOf DEF BurnObject
  <2>5. Left(c, AllTimers, moves, o) = b.age
    <3>1. Left(c, AllTimers, moves, o) = c.age + t.timeout - moves
      BY <2>4, LeftLit
    <3>2. c.age \in Int
      BY <1>3, ObjType
    <3> HIDE DEF b, c
    <3> QED
      BY <3>1, <3>2, <2>2, <1>3
  <2> HIDE DEF b, late
  <2>6. CASE /\ obj' = [obj EXCEPT ![o] = Burning(b)]
             /\ timers' = (timers \ {t}) \cup {Timer(o, "BURN_OBJECT", Turns(b))}
    <3> DEFINE u == Timer(o, "BURN_OBJECT", Turns(b))
    <3>1. /\ u.obj = o /\ u.func = "BURN_OBJECT" /\ u.timeout = moves + Turns(b)
          /\ Turns(b) \in Int
      BY <2>2, TurnsBounds DEF Timer
    <3>2. c1.kind = c.kind /\ c1.lit /\ c1.age = b.age - Turns(b)
      BY <1>3, <2>2, <2>6 DEF Burning, ObjRec, IInv, TypeOK
    <3> HIDE DEF u
    <3>3. TimersOf(AllTimers', o) = {u}
      <4>1. TimersOf(timers', o) = {u}
        BY <1>3, <2>6, <3>1 DEF TimersOf, u
      <4> QED
        BY <1>3, <2>3, <4>1, AllTimersKept
    <3>4. Left(c1, AllTimers', moves, o) = b.age
      <4> HIDE DEF o, c, c1
      <4>1. c1.lit
        BY <3>2
      <4>2. u.func = "BURN_OBJECT"
        BY <3>1
      <4>3. Left(c1, AllTimers', moves, o) = c1.age + u.timeout - moves
        BY <4>1, <4>2, <3>3, LeftLit
      <4> QED
        BY <4>3, <3>1, <3>2, <2>2, <1>3
    <3>5. fuelBar'[o] = fuelBar[o] /\ (o \in burningBar' <=> o \in burningBar)
      BY <2>3, <2>4, <2>5, <3>2, <3>4 DEF BarsKept, BarFuel, BarBurns
    <3> QED
      BY <1>3, <2>3, <3>5, BarsEqual
  <2>7. CASE /\ obj' = [obj EXCEPT ![o] = [b EXCEPT !.lit = FALSE, !.age = 0]]
             /\ ~KeepsBurning(b, late) /\ b.kind = "lamp"
    <3>1. c1.kind = "lamp" /\ ~c1.lit /\ c1.age = 0
      BY <1>3, <2>2, <2>7 DEF ObjRec, IInv, TypeOK
    <3>2. b.age <= 0
      BY <2>1, <2>2, <2>7 DEF KeepsBurning
    <3>3. Left(c1, AllTimers', moves, o) = 0
      BY <3>1, LeftUnlit
    <3>4. fuelBar'[o] = 0 /\ fuelBar[o] = 0 /\ o \notin burningBar' /\ o \notin burningBar
      BY <2>2, <2>3, <2>5, <3>1, <3>2, <3>3 DEF BarsKept, BarFuel, BarBurns
    <3> QED
      BY <1>3, <2>3, <3>4, BarsEqual
  <2> QED
    BY <1>5, <2>6, <2>7 DEF BurnObject, b, late
<1>6. CASE ReviveMon(t) /\ ~Free({o})
  <2>1. obj' = obj
    BY <1>6 DEF ReviveMon
  <2>2. MemoryKept({o}) /\ BarsKept({o})
    BY <1>2, <1>6, ReviveStep, BarsStep
  <2>3. c1 = c /\ c.kind \notin {"lamp", "candle"}
    BY <2>1, <1>3, <1>6 DEF ReviveMon, Corpses
  <2>4. fuelBar'[o] = fuelBar[o] /\ (o \in burningBar' <=> o \in burningBar)
    BY <2>2, <2>3 DEF BarsKept, BarFuel, BarBurns
  <2> QED
    BY <1>3, <2>2, <2>4, BarsEqual
<1> QED
  BY <1>1, <1>4, <1>5, <1>6 DEF RotCorpse

(* The clock stands still while nothing but the place of things changes. *)
LEMMA SameClock ==
  ASSUME obj' = obj, AllTimers' = AllTimers, moves' = moves
  PROVE  UNCHANGED <<fuelBar, burningBar>>
BY BarsAre

LEMMA SaveLevelClock ==
  ASSUME IInv, SaveLevel
  PROVE  (\E S \in SUBSET Objs : Clock!Vanish(S)) \/ UNCHANGED <<fuelBar, burningBar>>
<1> DEFINE here == {o \in Loaded : Local(o)}
<1>1. moves' = moves /\ timers' = {t \in timers : ~Local(t.obj)}
  BY DEF SaveLevel, TimerIsLocal
<1>2. uz \in Levels /\ files[uz].timers = {}
  BY DEF SaveLevel, IInv, TypeOK, HereLoaded, NoFile
<1>3. CASE target \notin EndLevels
  <2>1. obj' = obj /\ \E f : files' = [files EXCEPT ![uz] = f] /\ f.timers = {t \in timers : Local(t.obj)}
    <3> DEFINE f == [made |-> TRUE, objs |-> here, timers |-> {t \in timers : Local(t.obj)},
                     lights |-> {o \in lights : Local(o)}, pet |-> pet = "here"]
    <3>1. obj' = obj /\ files' = [files EXCEPT ![uz] = f]
      BY <1>3 DEF SaveLevel, TimerIsLocal
    <3>2. f.timers = {t \in timers : Local(t.obj)}
      OBVIOUS
    <3> HIDE DEF f
    <3> QED
      BY <3>1, <3>2
  <2>2. AllTimers' = AllTimers
    <3>1. \A l \in Levels : files'[l].timers = IF l = uz THEN {t \in timers : Local(t.obj)} ELSE files[l].timers
      BY <1>2, <2>1 DEF IInv, TypeOK
    <3>2. ASSUME NEW t PROVE t \in AllTimers' <=> t \in AllTimers
      <4>1. t \in AllTimers' <=> t \in timers' \/ \E l \in Levels : t \in files'[l].timers
        BY DEF AllTimers
      <4>2. t \in AllTimers <=> t \in timers \/ \E l \in Levels : t \in files[l].timers
        BY DEF AllTimers
      <4> QED
        BY <4>1, <4>2, <3>1, <1>1, <1>2
    <3> QED
      BY <3>2
  <2> QED
    BY <1>1, <2>1, <2>2, SameClock
<1>4. CASE target \in EndLevels
  <2> DEFINE S == here \cup Stored
  <2>1. /\ obj' = [o \in Objs |-> IF o \in S THEN Gone ELSE obj[o]]
        /\ files' = [l \in Levels |-> NoFile]
    BY <1>4 DEF SaveLevel
  <2>2. AllTimers' = timers'
    BY <2>1 DEF AllTimers, NoFile
  <2>3. S \in SUBSET Objs
    BY DEF Loaded, Used, Stored, IInv, TypeOK, FileRec
  <2>4. ASSUME NEW o \in S
        PROVE  BarFuel(obj'[o], AllTimers', moves, o) = 0 /\ ~BarBurns(obj'[o], AllTimers', moves, o)
    BY <2>1, <2>3 DEF BarFuel, BarBurns, Gone
  <2>5. ASSUME NEW o \in Objs \ S
        PROVE  /\ BarFuel(obj'[o], AllTimers', moves, o) = BarFuel(obj[o], AllTimers, moves, o)
               /\ BarBurns(obj'[o], AllTimers', moves, o) <=> BarBurns(obj[o], AllTimers, moves, o)
    <3> DEFINE c == obj[o]
               c1 == obj'[o]
    <3>1. c1 = c
      BY <2>1
    <3>2. c.lit => \E t : TimersOf(AllTimers, o) = {t} /\ TimersOf(AllTimers', o) = {t} /\ t.func = "BURN_OBJECT"
      <4>1. ASSUME c.lit PROVE TimersOf(AllTimers', o) = TimersOf(AllTimers, o)
        <5>1. o \notin Stored /\ Sound(c, timers, lights, o)
          BY DEF IInv, MemorySound
        <5>2. o \in Loaded
          BY <4>1, <5>1, GoneType DEF IInv, GoneIsGone, Loaded, Used
        <5>3. ~Local(o)
          BY <5>2
        <5>4. TimersOf(timers', o) = TimersOf(timers, o)
          BY <5>3, <1>1 DEF TimersOf
        <5> QED
          BY <5>1, <5>4, <2>2, AllTimersOf
      <4> QED
        BY <4>1, BurnTimerOf
    <3> HIDE DEF c, c1
    <3>3. /\ BarFuel(c1, AllTimers', moves, o) = BarFuel(c, AllTimers, moves, o)
          /\ BarBurns(c1, AllTimers', moves, o) <=> BarBurns(c, AllTimers, moves, o)
      BY <3>1, <3>2, BarsFrame
    <3> QED
      BY <3>3 DEF c, c1
  <2> HIDE DEF S
  <2>6. fuelBar' = [o \in Objs |-> IF o \in S THEN 0 ELSE fuelBar[o]]
    BY <1>1, <2>4, <2>5, BarsAre
  <2>7. burningBar' = burningBar \ S
    BY <1>1, <2>3, <2>4, <2>5, BarsAre
  <2> QED
    BY <2>3, <2>6, <2>7 DEF Clock!Vanish
<1> QED
  BY <1>3, <1>4

LEMMA GetLevelClock ==
  ASSUME IInv, GetLevel
  PROVE  UNCHANGED <<fuelBar, burningBar>>
<1>1. /\ obj' = obj /\ moves' = moves /\ timers' = timers \cup files[uz].timers
      /\ files' = [files EXCEPT ![uz] = [NoFile EXCEPT !.made = TRUE]]
      /\ uz \in Levels
  BY DEF GetLevel, IInv, TypeOK
<1>2. \A l \in Levels : files'[l].timers = IF l = uz THEN {} ELSE files[l].timers
  BY <1>1 DEF NoFile, IInv, TypeOK
<1>3. ASSUME NEW t PROVE t \in AllTimers' <=> t \in AllTimers
  <2>1. t \in AllTimers' <=> t \in timers' \/ \E l \in Levels : t \in files'[l].timers
    BY DEF AllTimers
  <2>2. t \in AllTimers <=> t \in timers \/ \E l \in Levels : t \in files[l].timers
    BY DEF AllTimers
  <2> QED
    BY <2>1, <2>2, <1>1, <1>2
<1>4. AllTimers' = AllTimers
  BY <1>3
<1> QED
  BY <1>1, <1>4, SameClock

(* A lamp or a candle burns exactly one turn of its fuel in every turn of the
   game, wherever it and the hero are: each operation on the queue of timers, the
   objects and the level files is an operation of FuelClock or leaves it alone.
   The step that burns is Turn; that a timer goes off is none. *)
THEOREM TimersImplementFuelClock == Spec => ImplementsFuelClock
<1>1. Init => Clock!Init
  <2> SUFFICES ASSUME Init PROVE Clock!Init
    OBVIOUS
  <2>1. \A o \in Objs : obj[o].kind \notin {"lamp", "candle"}
    BY DEF Init, Gone
  <2> QED
    BY <2>1 DEF Clock!Init, fuelBar, burningBar, Fueled
<1>2. IInv /\ [Next]_vars => [Clock!Next]_(Clock!fvars)
  <2> SUFFICES ASSUME IInv, [Next]_vars, ~UNCHANGED <<fuelBar, burningBar>>
               PROVE  Clock!Next
    BY DEF Clock!fvars
  <2>1. ASSUME obj' = obj, timers' = timers, files' = files, moves' = moves PROVE FALSE
    BY <2>1, SameClock DEF AllTimers
  <2>2. ASSUME NEW o \in Objs, Create(o) PROVE Clock!Next
    BY <2>2, CreateClock DEF Clock!Next
  <2>3. ASSUME NEW o \in Objs, Light(o) PROVE Clock!Next
    BY <2>3, LightClock DEF Clock!Next
  <2>4. ASSUME NEW o \in Objs, Snuff(o) PROVE Clock!Next
    BY <2>4, SnuffClock DEF Clock!Next
  <2>5. ASSUME NEW o \in Objs, Destroy(o) PROVE Clock!Next
    <3>1. {o} \subseteq Objs \ Stored /\ {o} \in SUBSET Objs
      BY <2>5, AtHandFacts DEF Destroy
    <3>2. Clock!Vanish({o})
      BY <2>5, <3>1, FreeClock DEF Destroy
    <3> QED
      BY <3>1, <3>2 DEF Clock!Next
  <2>6. ASSUME NEW o \in Objs, NEW p \in Objs, Merge(o, p) PROVE Clock!Next
    BY <2>6, MergeClock DEF Clock!Next
  <2>7. ASSUME NEW o \in Objs, NEW p \in Objs, NEW n \in 1..MaxQuan, Split(o, p, n) PROVE Clock!Next
    BY <2>7, SplitClock DEF Clock!Next
  <2>8. ASSUME NEW o \in Objs, o \notin Stored, obj[o].where # "gone",
               NEW w \in Floor \cup {"invent", "minvent", "migrating"}, NEW l \in Levels,
               NEW b \in {[obj[o] EXCEPT !.where = w], [obj[o] EXCEPT !.where = w, !.dest = l]},
               Relocate(o, b), UNCHANGED <<lights, files, moves>>
        PROVE  FALSE
    <3>1. /\ b \in ObjRec /\ b.where # "gone" /\ b.kind = obj[o].kind /\ b.lit = obj[o].lit
          /\ b.timed = obj[o].timed /\ b.quan = obj[o].quan
      <4>1. /\ [obj[o] EXCEPT !.where = w] \in ObjRec
            /\ [obj[o] EXCEPT !.where = w, !.dest = l] \in ObjRec
        BY MoveType
      <4>2. b \in ObjRec
        BY <2>8, <4>1
      <4>3. w # "gone" /\ obj[o] \in ObjRec
        BY ObjType DEF Floor
      <4> QED
        BY <4>2, <4>3 DEF ObjRec
    <3>2. b.age = obj[o].age
      BY ObjType DEF ObjRec
    <3> QED
      BY <2>8, <3>1, <3>2, RelocateClock
  <2>9. ASSUME NEW o \in Objs, NEW w, Move(o, w) \/ PetMoves(o, w) PROVE FALSE
    <3>1. o \notin Stored /\ obj[o].where # "gone"
      BY <2>9, AtHandFacts DEF Move, PetMoves
    <3>2. w \in Floor \cup {"invent", "minvent", "migrating"} /\ Relocate(o, [obj[o] EXCEPT !.where = w])
      BY <2>9 DEF Move, PetMoves, FloorFor, Floor
    <3>3. UNCHANGED <<lights, files, moves>>
      BY <2>9 DEF Move, PetMoves
    <3> QED
      BY <2>8, <3>1, <3>2, <3>3, ConstantsOK DEF ConstantsOK
  <2>10. ASSUME NEW o \in Objs, NEW l \in Levels, Ship(o, l) PROVE FALSE
    <3>1. o \notin Stored /\ obj[o].where # "gone"
      BY <2>10, AtHandFacts DEF Ship
    <3>2. "migrating" \in Floor \cup {"invent", "minvent", "migrating"}
      OBVIOUS
    <3> QED
      BY <2>8, <2>10, <3>1, <3>2 DEF Ship
  <2>11. ASSUME NEW o \in Objs, NEW w \in Floor, Deliver(o, w) PROVE FALSE
    <3>1. o \notin Stored /\ obj[o].where # "gone"
      BY <2>11 DEF Deliver, Awaited, Used, IInv, FilesApart, Stored, Floor
    <3>2. w \in Floor \cup {"invent", "minvent", "migrating"} /\ FirstLevel \in Levels
      BY ConstantsOK DEF ConstantsOK
    <3> QED
      BY <2>8, <2>11, <3>1, <3>2 DEF Deliver
  <2>12. CASE Turn
    BY <2>12, TurnClock DEF Clock!Next
  <2>13. CASE RunTimer
    BY <2>13, RunTimerClock DEF Clock!Next
  <2>14. CASE SaveLevel
    BY <2>14, SaveLevelClock DEF Clock!Next
  <2>15. CASE GetLevel
    BY <2>15, GetLevelClock
  <2>16. CASE (\E l \in Levels : PetFalls(l) \/ Leave(l)) \/ Pray \/ EndRun \/ Arrive \/ UNCHANGED vars
    BY <2>1, <2>16 DEF PetFalls, Leave, Pray, EndRun, Arrive, vars
  <2> QED
    BY <2>2, <2>3, <2>4, <2>5, <2>6, <2>7, <2>9, <2>10, <2>11, <2>12, <2>13, <2>14, <2>15, <2>16
       DEF Next
<1> QED
  BY <1>1, <1>2, IInvariant, PTL DEF Spec, ImplementsFuelClock, Clock!Spec
=============================================================================
