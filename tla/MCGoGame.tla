------------------------------- MODULE MCGoGame --------------------------------
(* The Go game on 3x3, from the empty board and from forced openings. *)
EXTENDS GoGame

Basic == [situational |-> FALSE, ownTrueEye |-> FALSE, eatKo |-> {},
          force |-> <<>>, asserts |-> FALSE, outOfTurn |-> FALSE, maxMoves |-> 2]

\* Black takes a ko at 1.
KoOpening == <<5, 0, Pass, 2, Pass, 4>>

\* White joins 1, 3 and 5 at 4, with eyes at 0 and 2; 6 and 7 are in atari.
EyesOpening == <<6, 1, 7, 3, Pass, 5, Pass, 4>>

\* Black's row 3, 4, 5 lives with two larger areas.
RowOpening == <<3, 0, 4, 8, 5>>

MCConfigs ==
  {[Basic EXCEPT !.ownTrueEye = TRUE, !.asserts = TRUE, !.outOfTurn = TRUE,
                   !.maxMoves = 2],
   [Basic EXCEPT !.force = KoOpening, !.maxMoves = 3],
   [Basic EXCEPT !.force = KoOpening, !.situational = TRUE, !.eatKo = {"white"}],
   [Basic EXCEPT !.force = EyesOpening, !.situational = TRUE],
   [Basic EXCEPT !.force = RowOpening, !.maxMoves = 3, !.ownTrueEye = TRUE]}

MCHome(key) == Cardinality(key) % TableSize
===============================================================================
