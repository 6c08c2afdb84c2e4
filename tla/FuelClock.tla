----------------------------- MODULE FuelClock -----------------------------
(***************************************************************************)
(* What the comment above begin_burn (src/timeout.c of the NetHack under   *)
(* src/server-python/lib/nle) promises of a lamp or of a stack of candles: *)
(* age is the number of turns of fuel left.  A light that burns uses one   *)
(* turn of fuel in every turn of the game, wherever the hero is; one that  *)
(* is put out keeps the rest; one without fuel does not burn.              *)
(* ObjectTimers implements it with a queue of timers that is saved and     *)
(* reloaded together with the levels.                                      *)
(***************************************************************************)
EXTENDS Integers

CONSTANT Objs

VARIABLES fuel,    \* turns of fuel left in each object
          burning  \* the objects that burn

fvars == <<fuel, burning>>

Init == fuel = [o \in Objs |-> 0] /\ burning = {}

(* A turn of the game passes. *)
Turn ==
  /\ fuel' = [o \in Objs |-> IF o \in burning THEN fuel[o] - 1 ELSE fuel[o]]
  /\ burning' = {o \in burning : fuel[o] > 1}

(* Only the fuel of these objects changes. *)
OnlyOf(S) == fuel' \in [Objs -> Nat] /\ \A o \in Objs \ S : fuel'[o] = fuel[o]

(* An object that does not burn is made or filled up. *)
Fill(o) == o \notin burning /\ OnlyOf({o}) /\ UNCHANGED burning

Light(o) ==
  /\ o \notin burning /\ fuel[o] > 0
  /\ burning' = burning \cup {o}
  /\ UNCHANGED fuel

PutOut(o) == burning' = burning \ {o} /\ UNCHANGED fuel

(* Objects are gone for good, with their fuel. *)
Vanish(S) ==
  /\ fuel' = [o \in Objs |-> IF o \in S THEN 0 ELSE fuel[o]]
  /\ burning' = burning \ S

(* Part of a stack becomes a stack of its own. *)
Divide(o, p) ==
  /\ p \notin burning
  /\ fuel' = [fuel EXCEPT ![p] = fuel[o]]
  /\ burning' = IF o \in burning THEN burning \cup {p} ELSE burning

(* Two stacks become one: the fuel of two that do not burn is averaged, of two
   that burn only what is left in the one they merge into counts. *)
Join(o, p) ==
  /\ OnlyOf(IF o \in burning THEN {p} ELSE {o, p})
  /\ fuel'[p] = 0
  /\ burning' = burning \ {p}

Next ==
  \/ Turn
  \/ \E o \in Objs : Fill(o) \/ Light(o) \/ PutOut(o)
  \/ \E S \in SUBSET Objs : Vanish(S)
  \/ \E o, p \in Objs : Divide(o, p) \/ Join(o, p)

Spec == Init /\ [][Next]_fvars
=============================================================================
