------------------------------ MODULE BensonLife ------------------------------
(***************************************************************************)
(* Benson's algorithm: the blocks of a colour that stay on the board       *)
(* however the opponent plays, and the areas they close.  b is a GoGame's  *)
(* board: b.stones[c], and b.block[i].grids and b.owner of its blocks.     *)
(***************************************************************************)
EXTENDS GoBoard, FiniteSets

CONSTANTS MaxArea   \* MAX_UCT_CLOSEDAREA_SIZE

\* The whole board, closed by no block at all, must not count as an area.
ASSUME AreaAssumption == MaxArea \in 0 .. BoardSize * BoardSize - 1

Area(b, points) ==
  [points |-> points, blocks |-> {b.owner[p] : p \in Dilation(points) \ points}]

\* The connected regions without a stone of c, up to a size.
ClosedAreas(b, c) ==
  LET open == Pos \ b.stones[c]
  IN  {a \in {Area(b, Floodfill(open, p)) : p \in open} :
         Cardinality(a.points) <= MaxArea}

\* Mutant of isCAHealthy: every area counts.
EveryArea(b, a) == a.points # {}

\* The empty points of a larger area are liberties of each of its blocks.
isCAHealthy(b, a) ==
  \/ Cardinality(a.points) = 1
  \/ Cardinality(a.blocks) = 1 /\ Cardinality(a.points) < 3
  \/ \A i \in a.blocks :
       a.points \ Dilation(b.block[i].grids) \subseteq
         b.stones["black"] \cup b.stones["white"]

BensonSet(b, c) ==
  [blocks |-> {b.owner[p] : p \in b.stones[c]},
   areas |-> {a \in ClosedAreas(b, c) : isCAHealthy(b, a)}]

\* A block without two healthy areas left falls, and its areas with it.
Falls(s, i) == Cardinality({a \in s.areas : i \in a.blocks}) < 2

FindLife(s0) ==
  LET life[s \in [blocks : SUBSET Pos, areas : SUBSET s0.areas]] ==
        IF \A i \in s.blocks : ~Falls(s, i) THEN s
        ELSE LET i == CHOOSE j \in s.blocks : Falls(s, j)
             IN  life[[blocks |-> s.blocks \ {i},
                       areas |-> {a \in s.areas : i \notin a.blocks}]]
  IN  life[s0]

BensonLife(b, c) ==
  LET s == FindLife(BensonSet(b, c))
  IN  UNION {b.block[i].grids : i \in s.blocks} \cup UNION {a.points : a \in s.areas}

===============================================================================
