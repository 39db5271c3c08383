-------------------------------- MODULE GoBoard --------------------------------
(***************************************************************************)
(* The points of a square board and the bit boards of the Go game.  A bit  *)
(* board is a set of points; bitScanForward takes its smallest element.    *)
(***************************************************************************)
EXTENDS Integers, Sequences

CONSTANTS BoardSize   \* BOARD_SIZE, 9 in the code

ASSUME BoardAssumption == BoardSize \in Nat \ {0}

Pos == 0 .. BoardSize * BoardSize - 1
Pass == BoardSize * BoardSize   \* the last of MAX_NUM_MOVES moves

Color == {"black", "white"}
AgainstColor(c) == IF c = "black" THEN "white" ELSE "black"

X(p) == p % BoardSize
Y(p) == p \div BoardSize

\* The points at these offsets that are on the board, in this order.
OnBoard(p, offsets) ==
  LET at(o) == <<X(p) + o[1], Y(p) + o[2]>>
      inside(o) == \A i \in 1 .. 2 : at(o)[i] \in 0 .. BoardSize - 1
      near == SelectSeq(offsets, inside)
  IN  [i \in DOMAIN near |-> at(near[i])[2] * BoardSize + at(near[i])[1]]

Neighbors ==
  [p \in Pos |-> OnBoard(p, <<<<0, 1>>, <<1, 0>>, <<0, -1>>, <<-1, 0>>>>)]

EyeCorners ==
  [p \in Pos |-> LET s == OnBoard(p, <<<<-1, -1>>, <<-1, 1>>, <<1, -1>>, <<1, 1>>>>)
                 IN  {s[i] : i \in DOMAIN s}]

\* S and its neighbours: S without the edge it would leave by, shifted.
Dilation(S) ==
  S \cup {p - BoardSize : p \in {q \in S : Y(q) # 0}}
    \cup {p + BoardSize : p \in {q \in S : Y(q) # BoardSize - 1}}
    \cup {p - 1 : p \in {q \in S : X(q) # 0}}
    \cup {p + 1 : p \in {q \in S : X(q) # BoardSize - 1}}

\* The points of S connected to p.
Floodfill(S, p) ==
  LET fill[B \in SUBSET Pos] == LET grown == Dilation(B) \cap S
                                IN  IF grown = B THEN B ELSE fill[grown]
  IN  fill[{p}]

===============================================================================
