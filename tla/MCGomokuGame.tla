----------------------------- MODULE MCGomokuGame ------------------------------
(* Three in a row on 4x4. *)
EXTENDS GomokuGame

MCMaxMoves == [l \in 0 .. 1 |-> 3 + l]

\* One point of each orbit of the square's symmetries.
MCFirstPos == {0, 1, 5}
===============================================================================
