------------------------------ MODULE MCTaskTree ------------------------------
(***************************************************************************)
(* Instance for TLC: two teams, one walk direction (the four directions go  *)
(* through the same line of code each), fire and both one-shots, one weapon *)
(* id inside 1..70 and one outside it.  The trees: a whole one; t1's        *)
(* current worm dead; t1 without an active worm; a task of t1 without       *)
(* worms before another one; and no team at all.                            *)
(***************************************************************************)
EXTENDS TaskTree

CONSTANTS t1, t2

MCInputs == {"move_left", "fire", "jump", "select_weapon"}

MCValues == {3, 71}

Worm(number, active) == [number |-> number, active |-> active]
Task(number, current, worms) == [number |-> number, current |-> current, worms |-> worms]

MCTrees ==
  {<<Task(t1, 2, <<Worm(1, TRUE), Worm(2, FALSE)>>), Task(t2, 1, <<Worm(1, TRUE)>>)>>,
   <<Task(t2, 1, <<Worm(1, TRUE)>>), Task(t1, 2, <<Worm(1, FALSE), Worm(3, TRUE)>>)>>,
   <<Task(t1, 2, <<Worm(1, FALSE)>>)>>,
   <<Task(t1, 1, <<>>), Task(t1, 1, <<Worm(1, FALSE)>>)>>,
   <<>>}
=============================================================================
