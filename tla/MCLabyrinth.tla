---------------------------- MODULE MCLabyrinth ----------------------------
(***************************************************************************)
(* Boards of up to two rows and three columns in every arrangement of      *)
(* walls and floor, larger winding ones, and files that loadMap refuses.   *)
(***************************************************************************)
EXTENDS Labyrinth, TLC

\* The players are alike: the second one comes after the first.
Boards(rows, cols) ==
    {m \in [1 .. rows -> [1 .. cols -> Player \cup {"#", "."}]] :
        /\ \A x \in Player : Cardinality(FindPlayer(m, x)) <= 1
        /\ FindPlayer(m, "2") # {} => FindPlayer(m, "1") # {}}

Malformed == { << >>,
               << << >> >>,
               << <<".", ".">>, <<".">> >>,
               << <<".", "x">> >>,
               << <<".">>, <<".">>, <<".">>, <<".">> >>,
               << <<".", ".", ".", ".">> >> }

\* All arrangements of walls, and paths that wind in all four directions.
Walls == [1 .. 2 -> [1 .. 3 -> {"#", "."}]]
Winding == { << <<".", ".", ".">>, <<"#", "#", ".">>, <<".", ".", ".">> >>,
             << <<".", "#", ".">>, <<".", "#", ".">>, <<".", ".", ".">> >>,
             << <<"#", ".", ".">>, <<"#", ".", "#">>, <<".", ".", "#">> >>,
             << <<".", "#", ".">>, <<".", ".", "#">>, <<"#", ".", ".">> >> }

AllBoards == Boards(2, 2) \cup Boards(1, 3) \cup Walls \cup Winding \cup Malformed

Symmetry == Permutations(Proc)
=============================================================================
