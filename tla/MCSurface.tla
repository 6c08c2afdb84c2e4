----------------------------- MODULE MCSurface -----------------------------
(* Small levels for TLC. *)
EXTENDS Surface, TLC

\* Two rows of two: a floor and a door above, ice and undug rock below.
Rooms == <<0, 0>> :> "Floor" @@ <<1, 0>> :> "Door" @@ <<0, 1>> :> "Ice" @@ <<1, 1>> :> "None"

\* The same when the rock is dug through and the ice is gone.
DugRooms == [Rooms EXCEPT ![<<1, 1>>] = "Floor", ![<<0, 1>>] = "Wall"]

TwoRooms == {Rooms, DugRooms}

\* From each place, the place itself and its neighbours; or one place alone, as
\* the blind feel it or a lit one shows in the distance.
MCViews == {Neighbours[p] \cup {p} : p \in Pos} \cup {{p} : p \in Pos}

\* Where the shop is, and where the message is read.
Behind == {<<Width - 1, Height - 1>>}
InFront == {<<0, 0>>}
=============================================================================
