----------------------------- MODULE MCHpaMap -----------------------------
(* Small levels for TLC. *)
EXTENDS HpaMap, TLC

\* Open ground with a wall and a door.
Ground == [p \in Pos |-> IF p = <<1, 1>> THEN "blocked"
                         ELSE IF p = <<2, 1>> THEN "straight" ELSE "diagonal"]

\* What is in view: two columns, two rows, or all there is.
Sights == {{p \in Pos : p[1] \in {i, i + 1}} : i \in 0 .. Width - 2}
            \cup {{p \in Pos : p[2] \in {i, i + 1}} : i \in 0 .. Height - 2} \cup {Pos}

\* Boulders, also where entrances are.
Boulders == {{}, {<<2, 0>>, <<1, 2>>}}

Seen(view, boulders) ==
  [p \in Pos |-> IF p \notin view THEN "unseen"
                 ELSE IF p \in boulders THEN "blocked" ELSE Ground[p]]

MCObservations == {Seen(v, b) : v \in Sights, b \in Boulders}
MCPlaces == {<<0, 0>>, <<Width - 1, Height - 1>>, <<2, 0>>}

\* All of a level of two clusters, with and without a boulder in the middle of
\* their border.
OpenGround == [p \in Pos |-> "diagonal"]
BoulderRolls == {OpenGround, [OpenGround EXCEPT ![<<2, 0>>] = "blocked"]}
Ends == {<<0, 0>>, <<Width - 1, Height - 1>>}
=============================================================================
