--------------------------- MODULE LabyrinthGame ---------------------------
(***************************************************************************)
(* What the labyrinth game (m1) promises to whoever runs it: a board of    *)
(* floor cells on which players stand, one to a cell, and moves that take  *)
(* effect at once and wholly or not at all - as long as they run it one at *)
(* a time and no save of theirs is cut short.                              *)
(***************************************************************************)
EXTENDS Integers

CONSTANT Player

VARIABLES intact,  \* the promise still holds
          floor,   \* the cells <<row, column>> that are no walls
          at       \* player -> the cells with the player: one, or none before the first move

vars == <<intact, floor, at>>

Directions == {"up", "down", "left", "right"}

Target(cell, d) ==
    << cell[1] + (IF d = "up" THEN -1 ELSE IF d = "down" THEN 1 ELSE 0),
       cell[2] + (IF d = "left" THEN -1 ELSE IF d = "right" THEN 1 ELSE 0) >>

Empty == {c \in floor : \A p \in Player : c \notin at[p]}

\* The first empty cell in reading order.
IsFirst(c, S) == /\ c \in S
                 /\ \A e \in S : c[1] < e[1] \/ (c[1] = e[1] /\ c[2] <= e[2])

Init == /\ intact = TRUE
        /\ floor \subseteq Nat \X Nat
        /\ at \in [Player -> SUBSET floor]
        /\ \A p, q \in Player : \A c \in at[p], e \in at[q] : p = q <=> c = e

\* A player who is not on the board starts from the first empty cell, and is
\* seen only where the move ends.
Move(p, d) ==
    /\ intact
    /\ \E c \in floor :
        /\ IF at[p] = {} THEN IsFirst(c, Empty) ELSE c \in at[p]
        /\ Target(c, d) \in Empty
        /\ at' = [at EXCEPT ![p] = {Target(c, d)}]
        /\ UNCHANGED <<intact, floor>>

\* Nothing is promised any more.
Lose == intact' = FALSE

Next == Lose \/ \E p \in Player, d \in Directions : Move(p, d)

Spec == Init /\ [][Next]_vars
=============================================================================
