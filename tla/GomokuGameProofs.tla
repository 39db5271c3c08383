--------------------------- MODULE GomokuGameProofs ---------------------------
(***************************************************************************)
(* Boards of every size, rows of every length: play and undo keep board,   *)
(* key and threats, and the lines through the last stone are enough to     *)
(* know every row and every threat of the board.                           *)
(***************************************************************************)
EXTENDS GomokuGame, FiniteSetTheorems, SequenceTheorems, WellFoundedInduction, TLAPS

Line == 0 .. BoardSize - 1
Direction == {Directions[i] : i \in DOMAIN Directions}

\* The k-th point from p in direction d is on the board.
On(p, d, k) == Y(p) + k * d[1] \in Line /\ X(p) + k * d[2] \in Line

-----------------------------------------------------------------------------
(* Coordinates *)

LEMMA DivMod ==
  ASSUME NEW B \in Nat \ {0}, NEW y \in Nat, NEW x \in 0 .. B - 1
  PROVE  (y * B + x) % B = x /\ (y * B + x) \div B = y
<1> DEFINE q == y * B + x
           d == q \div B
           r == q % B
<1>1. q \in Nat
  OBVIOUS
<1>2. d \in Int /\ r \in 0 .. B - 1 /\ q = B * d + r
  BY <1>1
<1> QED OBVIOUS

LEMMA PosIs ==
  ASSUME NEW p \in Pos
  PROVE  X(p) \in Line /\ Y(p) \in Line /\ p = Y(p) * BoardSize + X(p)
BY BoardAssumption DEF Pos, X, Y, Line

LEMMA PointIs ==
  ASSUME NEW x \in Line, NEW y \in Line
  PROVE  /\ y * BoardSize + x \in Pos
         /\ X(y * BoardSize + x) = x /\ Y(y * BoardSize + x) = y
<1>1. BoardSize \in Nat \ {0}
  BY BoardAssumption
<1>2. y * BoardSize + x \in Pos
  BY <1>1 DEF Pos, Line
<1> QED BY <1>1, <1>2, DivMod DEF X, Y, Line

LEMMA DirectionIs ==
  /\ Direction = {<<0, 1>>, <<1, 0>>, <<1, 1>>, <<-1, 1>>}
  /\ ToSet(Directions) = Direction
  /\ \A d \in Direction : d[1] \in {-1, 0, 1} /\ d[2] \in {0, 1}
<1>1. DOMAIN Directions = 1 .. 4
  BY DEF Directions
<1>2. /\ Directions[1] = <<0, 1>> /\ Directions[2] = <<1, 0>>
      /\ Directions[3] = <<1, 1>> /\ Directions[4] = <<-1, 1>>
  BY DEF Directions
<1>3. Direction = {Directions[1], Directions[2], Directions[3], Directions[4]}
  BY <1>1 DEF Direction
<1>4. ToSet(Directions) = Direction
  BY DEF ToSet, Direction
<1> QED BY <1>2, <1>3, <1>4

\* Steps in one direction add up.
LEMMA StepIs ==
  ASSUME NEW p \in Pos, NEW d \in Direction, NEW k \in Int, On(p, d, k)
  PROVE  /\ Step(p, d, k) \in Pos
         /\ \A m \in Int : /\ Step(Step(p, d, k), d, m) = Step(p, d, k + m)
                           /\ On(Step(p, d, k), d, m) <=> On(p, d, k + m)
<1>1. /\ X(p) \in Int /\ Y(p) \in Int /\ d[1] \in {-1, 0, 1} /\ d[2] \in {0, 1}
      /\ BoardSize \in Nat
  BY PosIs, DirectionIs, BoardAssumption DEF Line
<1> DEFINE q == Step(p, d, k)
           x == X(p) + k * d[2]
           y == Y(p) + k * d[1]
<1>2. x \in Line /\ y \in Line /\ q = y * BoardSize + x
  BY <1>1 DEF On, Step
<1> HIDE DEF x, y, q
<1>3. q \in Pos /\ X(q) = x /\ Y(q) = y
  BY <1>2, PointIs
<1>4. ASSUME NEW m \in Int
      PROVE  /\ Step(q, d, m) = Step(p, d, k + m)
             /\ On(q, d, m) <=> On(p, d, k + m)
  <2>1. x + m * d[2] = X(p) + (k + m) * d[2]
    BY <1>1 DEF x
  <2>2. y + m * d[1] = Y(p) + (k + m) * d[1]
    BY <1>1 DEF y
  <2>3. Step(q, d, m) = (Y(p) + (k + m) * d[1]) * BoardSize + X(p) + (k + m) * d[2]
    <3>1. Step(q, d, m) = (y + m * d[1]) * BoardSize + x + m * d[2]
      BY <1>3 DEF Step
    <3> DEFINE a == y + m * d[1]
               u == m * d[2]
               v == (k + m) * d[2]
               ab == a * BoardSize
    <3>2. x \in Int /\ X(p) \in Int /\ u \in Int /\ v \in Int /\ ab \in Int
      BY <1>1, <1>2 DEF Line
    <3>3. x + u = X(p) + v
      BY <2>1
    <3>4. a = Y(p) + (k + m) * d[1]
      BY <2>2
    <3>5. Step(q, d, m) = ab + x + u
      BY <3>1
    <3> HIDE DEF u, v, ab, a
    <3>6. Step(q, d, m) = ab + X(p) + v
      BY <3>2, <3>3, <3>5
    <3> QED BY <3>4, <3>6 DEF ab, v, a
  <2>4. Step(q, d, m) = Step(p, d, k + m)
    BY <2>3 DEF Step
  <2>5. On(q, d, m) <=> On(p, d, k + m)
    BY <1>3, <2>1, <2>2 DEF On
  <2> QED BY <2>4, <2>5
<1> QED BY <1>3, <1>4 DEF q

LEMMA StepZero ==
  ASSUME NEW p \in Pos, NEW d \in Direction
  PROVE  Step(p, d, 0) = p /\ On(p, d, 0)
BY PosIs, DirectionIs, BoardAssumption DEF Step, On, Line

\* Between two points of the board there are only points of the board.
LEMMA Between ==
  ASSUME NEW p \in Pos, NEW d \in Direction, NEW j \in Int, NEW k \in Int,
         NEW m \in j .. k, On(p, d, j), On(p, d, k)
  PROVE  On(p, d, m)
<1>1. /\ X(p) \in Int /\ Y(p) \in Int /\ BoardSize \in Nat
      /\ d[1] \in {-1, 0, 1} /\ d[2] \in {0, 1}
  BY PosIs, DirectionIs, BoardAssumption DEF Line
<1>2. Y(p) + m * d[1] \in Line
  BY <1>1 DEF On, Line
<1>3. X(p) + m * d[2] \in Line
  BY <1>1 DEF On, Line
<1> QED BY <1>2, <1>3 DEF On

\* A line does not come back to a point.
LEMMA StepOnce ==
  ASSUME NEW p \in Pos, NEW d \in Direction, NEW j \in Int, NEW k \in Int,
         On(p, d, j), On(p, d, k), Step(p, d, j) = Step(p, d, k)
  PROVE  j = k
<1>1. X(p) \in Int /\ Y(p) \in Int
  BY PosIs DEF Line
<1>2. /\ X(Step(p, d, j)) = X(p) + j * d[2] /\ Y(Step(p, d, j)) = Y(p) + j * d[1]
      /\ X(Step(p, d, k)) = X(p) + k * d[2] /\ Y(Step(p, d, k)) = Y(p) + k * d[1]
  <2>1. /\ X(p) + j * d[2] \in Line /\ Y(p) + j * d[1] \in Line
        /\ X(p) + k * d[2] \in Line /\ Y(p) + k * d[1] \in Line
    BY DEF On
  <2>2. /\ Step(p, d, j) = (Y(p) + j * d[1]) * BoardSize + (X(p) + j * d[2])
        /\ Step(p, d, k) = (Y(p) + k * d[1]) * BoardSize + (X(p) + k * d[2])
    BY <1>1, DirectionIs, BoardAssumption DEF Step
  <2> DEFINE a1 == X(p) + j * d[2]
             b1 == Y(p) + j * d[1]
             a2 == X(p) + k * d[2]
             b2 == Y(p) + k * d[1]
  <2>3. /\ a1 \in Line /\ b1 \in Line /\ a2 \in Line /\ b2 \in Line
        /\ Step(p, d, j) = b1 * BoardSize + a1 /\ Step(p, d, k) = b2 * BoardSize + a2
    BY <2>1, <2>2
  <2> HIDE DEF a1, b1, a2, b2
  <2>4. /\ X(Step(p, d, j)) = a1 /\ Y(Step(p, d, j)) = b1
        /\ X(Step(p, d, k)) = a2 /\ Y(Step(p, d, k)) = b2
    <3>1. ASSUME NEW q, NEW a \in Line, NEW b \in Line, q = b * BoardSize + a
          PROVE  X(q) = a /\ Y(q) = b
      BY <3>1, PointIs
    <3>2. X(Step(p, d, j)) = a1 /\ Y(Step(p, d, j)) = b1
      BY <2>3, <3>1
    <3>3. X(Step(p, d, k)) = a2 /\ Y(Step(p, d, k)) = b2
      BY <2>3, <3>1
    <3> QED BY <3>2, <3>3
  <2>5. /\ X(Step(p, d, j)) = X(p) + j * d[2] /\ Y(Step(p, d, j)) = Y(p) + j * d[1]
    BY <2>4 DEF a1, b1
  <2>6. /\ X(Step(p, d, k)) = X(p) + k * d[2] /\ Y(Step(p, d, k)) = Y(p) + k * d[1]
    BY <2>4 DEF a2, b2
  <2> QED BY <2>5, <2>6
<1>3. X(p) + j * d[2] = X(p) + k * d[2] /\ Y(p) + j * d[1] = Y(p) + k * d[1]
  BY <1>2
<1>4. CASE d[2] = 1
  BY <1>1, <1>3, <1>4
<1>5. CASE d = <<1, 0>>
  BY <1>1, <1>3, <1>5
<1> QED BY <1>4, <1>5, DirectionIs

Stones == Color \cup {"none"}

LEMMA StoneIs ==
  ASSUME NEW b, NEW p \in Pos, NEW d \in Direction, NEW k \in Int, NEW c \in Stones,
         b \in [Pos -> Stones]
  PROVE  Stone(b, p, d, k) = c <=> On(p, d, k) /\ b[Step(p, d, k)] = c
BY DEF Stone, On, Line, Color, Stones

-----------------------------------------------------------------------------
(* Rows *)

\* p and d begin a row.
Begins(p, d) == p \in Pos /\ d \in Direction /\ On(p, d, WinLength - 1)

LEMMA RowIs ==
  ASSUME NEW S
  PROVE  S \in Row <=> \E p, d : Begins(p, d) /\ S = RowFrom(p, d)
<1>1. ASSUME S \in Row
      PROVE  \E p, d : Begins(p, d) /\ S = RowFrom(p, d)
  BY <1>1, DirectionIs DEF Row, Begins, On, Line
<1>2. ASSUME NEW p, NEW d, Begins(p, d)
      PROVE  RowFrom(p, d) \in Row
  <2>1. p \in {q \in Pos : /\ Y(q) + (WinLength - 1) * d[1] \in 0 .. BoardSize - 1
                          /\ X(q) + (WinLength - 1) * d[2] \in 0 .. BoardSize - 1}
    BY <1>2 DEF Begins, On, Line
  <2>2. d \in ToSet(Directions)
    BY <1>2, DirectionIs DEF Begins
  <2> QED BY <2>1, <2>2 DEF Row
<1> QED BY <1>1, <1>2

LEMMA RowIsOn ==
  ASSUME NEW q, NEW d, Begins(q, d), NEW k \in 0 .. WinLength - 1
  PROVE  On(q, d, k) /\ Step(q, d, k) \in Pos
<1>1. WinLength \in Nat \ {0}
  BY GomokuAssumption
<1>2. q \in Pos /\ d \in Direction /\ On(q, d, 0) /\ On(q, d, WinLength - 1)
  BY StepZero DEF Begins
<1>3. On(q, d, k)
  BY <1>1, <1>2, Between
<1> QED BY <1>1, <1>2, <1>3, StepIs

LEMMA HasRowIs ==
  ASSUME NEW b, NEW c
  PROVE  HasRow(b, c) <=>
           \E p, d : Begins(p, d) /\ \A k \in 0 .. WinLength - 1 : b[Step(p, d, k)] = c
<1>1. ASSUME NEW p, NEW d
      PROVE  (\A q \in RowFrom(p, d) : b[q] = c) <=>
               \A k \in 0 .. WinLength - 1 : b[Step(p, d, k)] = c
  BY DEF RowFrom
<1> QED BY <1>1, RowIs DEF HasRow

\* The row lacks its j-th stone only.
Lacks(b, c, q, d, j) ==
  /\ Begins(q, d) /\ j \in 0 .. WinLength - 1
  /\ \A k \in 0 .. WinLength - 1 : k # j => b[Step(q, d, k)] = c

LEMMA WinningIs ==
  ASSUME NEW b, NEW c, NEW x
  PROVE  x \in WinningPoints(b, c) <=>
           /\ x \in Pos /\ b[x] = "none"
           /\ \E q, d, j : Lacks(b, c, q, d, j) /\ Step(q, d, j) = x
<1>1. ASSUME NEW q, NEW d, NEW j, Begins(q, d), j \in 0 .. WinLength - 1, Step(q, d, j) = x
      PROVE  (\A y \in RowFrom(q, d) \ {x} : b[y] = c) <=> Lacks(b, c, q, d, j)
  <2>1. \A k \in 0 .. WinLength - 1 : k # j => Step(q, d, k) # x
    <3>1. q \in Pos /\ d \in Direction /\ 0 .. WinLength - 1 \subseteq Int
      BY <1>1 DEF Begins
    <3> QED BY <1>1, <3>1, RowIsOn, StepOnce
  <2> QED BY <1>1, <2>1 DEF RowFrom, Lacks
<1>2. ASSUME NEW q, NEW d
      PROVE  x \in RowFrom(q, d) <=> \E j \in 0 .. WinLength - 1 : Step(q, d, j) = x
  BY DEF RowFrom
<1>3. ASSUME x \in WinningPoints(b, c)
      PROVE  /\ x \in Pos /\ b[x] = "none"
             /\ \E q, d, j : Lacks(b, c, q, d, j) /\ Step(q, d, j) = x
  <2>1. PICK S \in Row : x \in S /\ \A y \in S \ {x} : b[y] = c
    BY <1>3 DEF WinningPoints
  <2>2. PICK q, d : Begins(q, d) /\ S = RowFrom(q, d)
    BY <2>1, RowIs
  <2>3. PICK j \in 0 .. WinLength - 1 : Step(q, d, j) = x
    BY <1>2, <2>1, <2>2
  <2>4. Lacks(b, c, q, d, j)
    BY <1>1, <2>1, <2>2, <2>3
  <2> QED BY <1>3, <2>3, <2>4 DEF WinningPoints
<1>4. ASSUME x \in Pos, b[x] = "none",
             NEW q, NEW d, NEW j, Lacks(b, c, q, d, j), Step(q, d, j) = x
      PROVE  x \in WinningPoints(b, c)
  <2>1. Begins(q, d) /\ j \in 0 .. WinLength - 1
    BY <1>4 DEF Lacks
  <2>2. \A y \in RowFrom(q, d) \ {x} : b[y] = c
    BY <1>1, <1>4, <2>1
  <2>3. x \in RowFrom(q, d) /\ RowFrom(q, d) \in Row
    BY <1>2, <1>4, <2>1, RowIs
  <2> QED BY <1>4, <2>2, <2>3 DEF WinningPoints
<1> QED BY <1>3, <1>4

LEMMA LeastIs ==
  ASSUME NEW S, S \subseteq Nat, S # {}
  PROVE  \E x \in S : \A y \in S : x <= y
<1>1. PICK x \in S : \A y \in S : ~(<<y, x>> \in OpToRel(<, Nat))
  BY NatLessThanWellFounded, WFMin
<1>2. \A y \in S : ~(y < x)
  BY <1>1 DEF OpToRel
<1>3. \A y \in S : x <= y
  BY <1>2
<1> QED BY <1>3

\* The counts of a line are of initial segments.
LEMMA InitialSegment ==
  ASSUME NEW a \in {0, 1}, NEW n \in Nat, NEW S \in SUBSET (a .. n),
         \A k \in S : \A m \in a .. k : m \in S
  PROVE  Cardinality(S) \in Nat /\ S = a .. a + Cardinality(S) - 1
<1> DEFINE out == {k \in Nat : k >= a /\ k \notin S}
<1>1. n + 1 \in out
  OBVIOUS
<1>2. PICK f \in out : \A y \in out : f <= y
  BY <1>1, LeastIs
<1>3. f \in Nat /\ f >= a /\ f \notin S /\ \A y \in a .. f - 1 : y \in S
  BY <1>2
<1>4. S = a .. f - 1
  <2>1. ASSUME NEW k \in S  PROVE k \in a .. f - 1
    <3>1. k \in Nat /\ k >= a /\ \A m \in a .. k : m \in S
      OBVIOUS
    <3>2. ~(f <= k)
      BY <1>3, <3>1
    <3> QED BY <1>3, <3>1, <3>2
  <2> QED BY <1>3, <2>1
<1>5. Cardinality(a .. f - 1) = f - a
  <2>1. Cardinality(a .. f - 1) = IF a > f - 1 THEN 0 ELSE f - 1 - a + 1
    BY <1>3, FS_Interval
  <2> QED BY <1>3, <2>1
<1>6. Cardinality(S) = f - a
  BY <1>4, <1>5, Zenon
<1>7. f - a \in Nat /\ a + (f - a) - 1 = f - 1
  BY <1>3
<1> QED BY <1>4, <1>6, <1>7

LEMMA WinningLacks ==
  ASSUME NEW b, NEW c, NEW x \in WinningPoints(b, c)
  PROVE  b[x] = "none" /\ \E q, d, j : Lacks(b, c, q, d, j) /\ Step(q, d, j) = x
BY WinningIs

\* A line through p is long enough exactly if a row of c goes through p in
\* this direction.
LEMMA RowLengthIs ==
  ASSUME NEW b \in [Pos -> Stones], NEW p \in Pos,
         NEW d \in Direction, NEW c \in Color, b[p] = c
  PROVE  RowLength(b, p, d) >= WinLength <=>
           \E j \in 0 .. WinLength - 1 : \A k \in -j .. WinLength - 1 - j :
             On(p, d, k) /\ b[Step(p, d, k)] = c
<1> DEFINE W == WinLength
           F == {k \in 0 .. W - 1 : \A m \in 0 .. k : Stone(b, p, d, m) = b[p]}
           G == {k \in 1 .. W - 1 : \A m \in 1 .. k : Stone(b, p, d, -m) = b[p]}
           f == Cardinality(F)
           g == Cardinality(G)
<1>1. W \in Nat \ {0} /\ W - 1 \in Nat
  BY GomokuAssumption
<1>2. \A k \in Int : Stone(b, p, d, k) = c <=> On(p, d, k) /\ b[Step(p, d, k)] = c
  BY StoneIs DEF Stones
<1>3. f \in Nat /\ F = 0 .. f - 1
  <2>1. F \in SUBSET (0 .. W - 1) /\ \A k \in F : \A m \in 0 .. k : m \in F
    BY <1>1
  <2> HIDE DEF F
  <2>2. Cardinality(F) \in Nat /\ F = 0 .. 0 + Cardinality(F) - 1
    BY <1>1, <2>1, InitialSegment
  <2> QED BY <2>2
<1>4. g \in Nat /\ G = 1 .. g
  <2>1. G \in SUBSET (1 .. W - 1) /\ \A k \in G : \A m \in 1 .. k : m \in G
    BY <1>1
  <2> HIDE DEF G
  <2>2. Cardinality(G) \in Nat /\ G = 1 .. 1 + Cardinality(G) - 1
    BY <1>1, <2>1, InitialSegment
  <2> QED BY <2>2
<1>5. RowLength(b, p, d) = f + g
  BY DEF RowLength
<1>6. \A k \in F : k <= W - 1 /\ Stone(b, p, d, k) = c
  BY <1>1
<1>7. \A k \in G : Stone(b, p, d, -k) = c
  BY <1>1
<1>8. \A k \in 0 .. W - 1 : (\A m \in 0 .. k : Stone(b, p, d, m) = c) => k \in F
  OBVIOUS
<1>9. \A k \in 1 .. W - 1 : (\A m \in 1 .. k : Stone(b, p, d, -m) = c) => k \in G
  OBVIOUS
<1> HIDE DEF F, G, f, g
<1>10. ASSUME f + g >= W
       PROVE  \E j \in 0 .. W - 1 : \A k \in -j .. W - 1 - j : Stone(b, p, d, k) = c
  <2>1. 0 \in F
    <3>1. Stone(b, p, d, 0) = c
      BY <1>2, StepZero
    <3> QED BY <1>1, <1>8, <3>1
  <2>2. f >= 1
    BY <1>3, <2>1
  <2>3. f <= W
    BY <1>1, <1>3, <1>6, <2>2
  <2> DEFINE j == W - f
  <2>4. j \in 0 .. W - 1 /\ j <= g /\ W - 1 - j = f - 1
    BY <1>1, <1>3, <1>4, <1>10, <2>2, <2>3
  <2> HIDE DEF j
  <2>5. ASSUME NEW k \in -j .. W - 1 - j  PROVE Stone(b, p, d, k) = c
    <3>1. CASE k >= 0
      BY <1>3, <1>6, <2>4, <3>1
    <3>2. CASE ~(k >= 0)
      <4>1. -k \in G
        BY <1>4, <2>4, <3>2
      <4>2. -(-k) = k
        BY <2>4
      <4> QED BY <1>7, <4>1, <4>2
    <3> QED BY <3>1, <3>2
  <2> QED BY <2>4, <2>5
<1>11. ASSUME NEW j \in 0 .. W - 1, \A k \in -j .. W - 1 - j : Stone(b, p, d, k) = c
       PROVE  f + g >= W
  <2>1. W - 1 - j \in F
    BY <1>1, <1>8, <1>11
  <2>2. f >= W - j
    BY <1>1, <1>3, <2>1
  <2>3. g >= j
    <3>1. CASE j = 0
      BY <1>4, <3>1
    <3>2. CASE j # 0
      <4>1. \A m \in 1 .. j : -m \in -j .. W - 1 - j
        BY <1>1, <3>2
      <4>2. j \in G
        BY <1>1, <1>9, <1>11, <3>2, <4>1
      <4> QED BY <1>4, <4>2
    <3> QED BY <3>1, <3>2
  <2> QED BY <1>1, <1>3, <1>4, <2>2, <2>3
<1>12. \A j \in 0 .. W - 1 : \A k \in -j .. W - 1 - j : k \in Int
  BY <1>1
<1> QED BY <1>2, <1>5, <1>10, <1>11, <1>12

\* A stone on a board without rows makes a row exactly if one of its lines is
\* long enough, and none of the other colour.
LEMMA LastStone ==
  ASSUME NEW b \in [Pos -> Stones], NEW p \in Pos, NEW c \in Color,
         \A e \in Color : ~HasRow(b, e)
  PROVE  LET b2 == [b EXCEPT ![p] = c]
         IN  /\ HasRow(b2, c) <=>
                  \E i \in DOMAIN Directions : RowLength(b2, p, Directions[i]) >= WinLength
             /\ \A e \in Color \ {c} : ~HasRow(b2, e)
<1> DEFINE b2 == [b EXCEPT ![p] = c]
           W == WinLength
<1>1. /\ b2 \in [Pos -> Stones] /\ b2[p] = c
      /\ \A q \in Pos : q # p => b2[q] = b[q]
  BY DEF Stones
<1>2. W \in Nat \ {0} /\ W - 1 \in Nat
  BY GomokuAssumption
<1> HIDE DEF b2
<1>3. ASSUME NEW q, NEW d, Begins(q, d), NEW k \in 0 .. W - 1
      PROVE  On(q, d, k) /\ Step(q, d, k) \in Pos
  BY <1>3, RowIsOn
<1>4. ASSUME NEW e \in Color, NEW q, NEW d, Begins(q, d),
             \A k \in 0 .. W - 1 : b2[Step(q, d, k)] = e
      PROVE  e = c /\ \E j \in 0 .. W - 1 : Step(q, d, j) = p
  <2>1. \E j \in 0 .. W - 1 : Step(q, d, j) = p
    <3> SUFFICES ASSUME \A j \in 0 .. W - 1 : Step(q, d, j) # p  PROVE FALSE
      OBVIOUS
    <3>1. \A k \in 0 .. W - 1 : b[Step(q, d, k)] = e
      BY <1>1, <1>3, <1>4
    <3> QED BY <1>4, <3>1, HasRowIs
  <2> QED BY <1>1, <1>4, <2>1
<1>5. ASSUME HasRow(b2, c)
      PROVE  \E i \in DOMAIN Directions : RowLength(b2, p, Directions[i]) >= W
  <2>1. PICK q, d : Begins(q, d) /\ \A k \in 0 .. W - 1 : b2[Step(q, d, k)] = c
    BY <1>5, HasRowIs
  <2>2. PICK j \in 0 .. W - 1 : Step(q, d, j) = p
    BY <1>4, <2>1
  <2>3. q \in Pos /\ d \in Direction /\ On(q, d, j)
    BY <1>3, <2>1 DEF Begins
  <2>4. \A m \in Int : /\ Step(p, d, m) = Step(q, d, j + m)
                       /\ On(p, d, m) <=> On(q, d, j + m)
    BY <1>2, <2>2, <2>3, StepIs
  <2>5. ASSUME NEW k \in -j .. W - 1 - j
        PROVE  On(p, d, k) /\ b2[Step(p, d, k)] = c
    <3>1. k \in Int /\ j + k \in 0 .. W - 1
      BY <1>2
    <3> QED BY <1>3, <2>1, <2>4, <3>1
  <2>6. RowLength(b2, p, d) >= W
    BY <1>1, <2>3, <2>5, RowLengthIs
  <2> QED BY <2>3, <2>6 DEF Direction
<1>6. ASSUME NEW i \in DOMAIN Directions, RowLength(b2, p, Directions[i]) >= W
      PROVE  HasRow(b2, c)
  <2> DEFINE d == Directions[i]
  <2>1. d \in Direction
    BY DEF Direction
  <2> HIDE DEF d
  <2>2. RowLength(b2, p, d) >= W
    BY <1>6 DEF d
  <2>3. PICK j \in 0 .. W - 1 : \A k \in -j .. W - 1 - j : On(p, d, k) /\ b2[Step(p, d, k)] = c
    BY <1>1, <2>1, <2>2, RowLengthIs
  <2> DEFINE q == Step(p, d, -j)
  <2>4. -j \in Int /\ On(p, d, -j)
    BY <1>2, <2>3
  <2>5. /\ q \in Pos
        /\ \A m \in Int : /\ Step(q, d, m) = Step(p, d, -j + m)
                          /\ On(q, d, m) <=> On(p, d, -j + m)
    BY <2>1, <2>4, StepIs
  <2> HIDE DEF q
  <2>6. Begins(q, d)
    <3>1. -j + (W - 1) \in -j .. W - 1 - j
      BY <1>2
    <3> QED BY <1>2, <2>1, <2>3, <2>5, <3>1 DEF Begins
  <2>7. ASSUME NEW k \in 0 .. W - 1  PROVE b2[Step(q, d, k)] = c
    <3>1. k \in Int /\ -j + k \in -j .. W - 1 - j
      BY <1>2
    <3> QED BY <2>3, <2>5, <3>1
  <2> QED BY <2>6, <2>7, HasRowIs
<1>7. \A e \in Color \ {c} : ~HasRow(b2, e)
  BY <1>4, HasRowIs
<1> QED BY <1>5, <1>6, <1>7 DEF b2

-----------------------------------------------------------------------------
(* The moves and the board they leave *)

MoveSet == [color : Color, pos : Pos]

\* The board after the first n moves.
Upto(s, n) ==
  [p \in Pos |-> IF \E i \in 1 .. n : s[i].pos = p
                 THEN s[CHOOSE i \in 1 .. n : s[i].pos = p].color ELSE "none"]

\* A game puts no two stones on one point.
Game(s) == /\ s \in Seq(MoveSet)
           /\ \A i, j \in 1 .. Len(s) : s[i].pos = s[j].pos => i = j

LEMMA FrontIs ==
  ASSUME NEW S, NEW s \in Seq(S), s # <<>>
  PROVE  /\ Len(s) \in Nat /\ Len(s) >= 1
         /\ Front(s) \in Seq(S) /\ Len(Front(s)) = Len(s) - 1
         /\ \A k \in 1 .. Len(s) - 1 : Front(s)[k] = s[k]
<1>1. Len(s) \in Nat /\ Len(s) >= 1
  OBVIOUS
<1>2. \A i \in 1 .. Len(s) - 1 : s[i] \in S
  BY <1>1
<1>3. /\ Front(s) \in Seq(S)
      /\ Len(Front(s)) = IF 1 <= Len(s) - 1 THEN Len(s) - 1 - 1 + 1 ELSE 0
      /\ \A k \in 1 .. Len(s) - 1 - 1 + 1 : Front(s)[k] = s[1 + k - 1]
  BY <1>1, <1>2, SubSeqProperties DEF Front
<1>4. Len(Front(s)) = Len(s) - 1
  <2> DEFINE n == Len(s)
  <2>1. n \in Nat /\ n > 0 /\ Len(Front(s)) = IF 1 <= n - 1 THEN n - 1 - 1 + 1 ELSE 0
    BY <1>1, <1>3
  <2> HIDE DEF n
  <2>2. Len(Front(s)) = n - 1
    <3>1. CASE n >= 2
      <4>1. 1 <= n - 1 /\ n - 1 - 1 + 1 = n - 1
        BY <2>1, <3>1
      <4> QED BY <2>1, <4>1
    <3>2. CASE n = 1
      <4>1. ~(1 <= n - 1) /\ 0 = n - 1
        BY <3>2
      <4> QED BY <2>1, <4>1
    <3> QED BY <2>1, <3>1, <3>2
  <2> QED BY <2>2 DEF n
<1>5. \A k \in 1 .. Len(s) - 1 : Front(s)[k] = s[k]
  BY <1>1, <1>3
<1> QED BY <1>1, <1>3, <1>4, <1>5

LEMMA UptoIs ==
  ASSUME NEW s, Game(s), NEW n \in 0 .. Len(s)
  PROVE  /\ Upto(s, n) \in [Pos -> Stones]
         /\ \A i \in 1 .. n : Upto(s, n)[s[i].pos] = s[i].color
         /\ \A p \in Pos : (\A i \in 1 .. n : s[i].pos # p) => Upto(s, n)[p] = "none"
<1>1. /\ Len(s) \in Nat /\ \A i \in 1 .. n : i \in 1 .. Len(s) /\ s[i] \in MoveSet
      /\ \A i, j \in 1 .. n : s[i].pos = s[j].pos => i = j
  BY DEF Game
<1>2. ASSUME NEW i \in 1 .. n  PROVE Upto(s, n)[s[i].pos] = s[i].color
  <2>1. (CHOOSE j \in 1 .. n : s[j].pos = s[i].pos) = i
    BY <1>1
  <2> QED BY <1>1, <2>1 DEF Upto, MoveSet
<1>3. ASSUME NEW p \in Pos, \A i \in 1 .. n : s[i].pos # p
      PROVE  Upto(s, n)[p] = "none"
  BY <1>3 DEF Upto
<1>4. ASSUME NEW p \in Pos  PROVE Upto(s, n)[p] \in Stones
  <2>1. CASE \E i \in 1 .. n : s[i].pos = p
    BY <1>1, <1>2, <2>1 DEF MoveSet, Stones
  <2>2. CASE ~\E i \in 1 .. n : s[i].pos = p
    BY <1>3, <2>2 DEF Stones
  <2> QED BY <2>1, <2>2
<1>5. Upto(s, n) = [p \in Pos |-> Upto(s, n)[p]]
  BY DEF Upto
<1> QED BY <1>2, <1>3, <1>4, <1>5

\* The boards of a game whose first n moves are those of another.
LEMMA SameBoard ==
  ASSUME NEW s, NEW t, NEW n \in Nat, \A i \in 1 .. n : s[i] = t[i]
  PROVE  Upto(s, n) = Upto(t, n)
<1>1. \A p \in Pos : \A i \in 1 .. n : s[i].pos = p <=> t[i].pos = p
  OBVIOUS
<1>2. ASSUME NEW p \in Pos  PROVE Upto(s, n)[p] = Upto(t, n)[p]
  <2>1. (CHOOSE i \in 1 .. n : s[i].pos = p) = (CHOOSE i \in 1 .. n : t[i].pos = p)
    BY <1>1
  <2>2. CASE \E i \in 1 .. n : s[i].pos = p
    <3> DEFINE i == CHOOSE j \in 1 .. n : s[j].pos = p
    <3>1. i \in 1 .. n
      BY <2>2
    <3>2. Upto(s, n)[p] = s[i].color
      BY <2>2 DEF Upto
    <3>3. Upto(t, n)[p] = t[i].color
      BY <1>1, <2>1, <2>2 DEF Upto
    <3> HIDE DEF i
    <3> QED BY <3>1, <3>2, <3>3
  <2>3. CASE ~\E i \in 1 .. n : s[i].pos = p
    BY <1>1, <2>3 DEF Upto
  <2> QED BY <2>2, <2>3
<1> QED BY <1>2 DEF Upto

\* A stone, put on a free point or taken back.
LEMMA OneMore ==
  ASSUME NEW s, Game(s), NEW n \in 1 .. Len(s)
  PROVE  /\ Upto(s, n) = [Upto(s, n - 1) EXCEPT ![s[n].pos] = s[n].color]
         /\ Upto(s, n - 1) = [Upto(s, n) EXCEPT ![s[n].pos] = "none"]
         /\ Upto(s, n - 1)[s[n].pos] = "none"
         /\ s[n].pos \in Pos /\ s[n].color \in Color
<1> DEFINE a == Upto(s, n - 1)
           b == Upto(s, n)
           q == s[n].pos
<1>1. /\ Len(s) \in Nat /\ s[n] \in MoveSet /\ n - 1 \in 0 .. Len(s) /\ n \in 0 .. Len(s)
      /\ \A i \in 1 .. n - 1 : i \in 1 .. n /\ s[i].pos # q /\ s[i].pos \in Pos
      /\ \A i \in 1 .. n : i = n \/ i \in 1 .. n - 1
  <2>1. Len(s) \in Nat /\ \A i \in 1 .. Len(s) : s[i] \in MoveSet
    BY DEF Game
  <2>2. n - 1 \in 0 .. Len(s) /\ n \in 0 .. Len(s)
    BY <2>1
  <2>3. \A i \in 1 .. n - 1 : i \in 1 .. n /\ i \in 1 .. Len(s) /\ i # n
    BY <2>1
  <2>4. \A i \in 1 .. n - 1 : s[i].pos # q /\ s[i].pos \in Pos
    BY <2>1, <2>3 DEF Game, MoveSet
  <2>5. \A i \in 1 .. n : i = n \/ i \in 1 .. n - 1
    BY <2>1
  <2> QED BY <2>1, <2>2, <2>3, <2>4, <2>5
<1>2. /\ a \in [Pos -> Stones] /\ b \in [Pos -> Stones]
      /\ \A i \in 1 .. n - 1 : a[s[i].pos] = s[i].color
      /\ \A i \in 1 .. n : b[s[i].pos] = s[i].color
      /\ \A p \in Pos : (\A i \in 1 .. n - 1 : s[i].pos # p) => a[p] = "none"
      /\ \A p \in Pos : (\A i \in 1 .. n : s[i].pos # p) => b[p] = "none"
  BY <1>1, UptoIs
<1> HIDE DEF a, b
<1>3. q \in Pos /\ s[n].color \in Color /\ a[q] = "none" /\ b[q] = s[n].color
  BY <1>1, <1>2 DEF MoveSet
<1>4. \A p \in Pos : p # q => a[p] = b[p]
  BY <1>1, <1>2
<1>5. b = [a EXCEPT ![q] = s[n].color] /\ a = [b EXCEPT ![q] = "none"]
  BY <1>2, <1>3, <1>4
<1> QED BY <1>3, <1>5 DEF a, b

LEMMA NothingOnEmpty ==
  ASSUME NEW s, NEW c \in Color
  PROVE  ~HasRow(Upto(s, 0), c) /\ WinningPoints(Upto(s, 0), c) = {}
<1>1. 0 \in 0 .. WinLength - 1 /\ 1 \in 0 .. WinLength - 1
  BY GomokuAssumption
<1>2. \A p \in Pos : Upto(s, 0)[p] = "none"
  BY DEF Upto
<1>3. ASSUME NEW p, NEW d, Begins(p, d), NEW k \in 0 .. WinLength - 1
      PROVE  Upto(s, 0)[Step(p, d, k)] # c
  BY <1>2, <1>3, RowIsOn DEF Color
<1>4. ~HasRow(Upto(s, 0), c)
  BY <1>1, <1>3, HasRowIs
<1>5. \A p, d, j : ~Lacks(Upto(s, 0), c, p, d, j)
  BY <1>1, <1>3 DEF Lacks
<1> QED BY <1>4, <1>5, WinningIs

-----------------------------------------------------------------------------
(* Both levels: the board and the key are those of the moves               *)

KeyOf(s) == {<<s[i].pos, s[i].color>> : i \in 1 .. Len(s)}

Played == /\ turn \in Color
          /\ Game(moves)
          /\ board = Upto(moves, Len(moves))
          /\ hashKey = KeyOf(moves)

\* The empty board.
LEMMA FreshBoard ==
  ASSUME NEW b, b = [p \in Pos |-> "none"]
  PROVE  /\ Game(<<>>) /\ b = Upto(<<>>, 0) /\ KeyOf(<<>>) = {}
         /\ \A c \in Color : ~HasRow(b, c)
<1>1. Game(<<>>) /\ Len(<<>>) = 0
  BY EmptySeq DEF Game
<1>2. b = Upto(<<>>, 0)
  BY DEF Upto
<1>3. KeyOf(<<>>) = {}
  BY <1>1 DEF KeyOf
<1> QED BY <1>1, <1>2, <1>3, NothingOnEmpty

LEMMA PlayBoard ==
  ASSUME Played, NEW p \in Pos, Play(p), board[p] = "none"
  PROVE  /\ Played'
         /\ Len(moves) \in Nat /\ Len(moves') = Len(moves) + 1
         /\ moves'[Len(moves) + 1] = [color |-> turn, pos |-> p]
         /\ \A i \in 1 .. Len(moves) : moves'[i] = moves[i]
         /\ \A n \in 0 .. Len(moves) : Upto(moves', n) = Upto(moves, n)
         /\ board \in [Pos -> Stones]
<1> DEFINE m == [color |-> turn, pos |-> p]
           t == Append(moves, m)
           N == Len(moves)
<1>1. /\ Played /\ board[p] = "none"
      /\ moves' = t /\ turn' = AgainstColor(turn)
      /\ board' = [board EXCEPT ![p] = turn]
      /\ hashKey' = hashKey \cup {<<p, turn>>}
  BY DEF Play
<1>2. /\ turn \in Color /\ turn' \in Color /\ m \in MoveSet
      /\ m.pos = p /\ m.color = turn
  BY <1>1 DEF Played, AgainstColor, Color, MoveSet
<1> HIDE DEF m
<1>3. /\ moves \in Seq(MoveSet) /\ N \in Nat
      /\ t \in Seq(MoveSet) /\ Len(t) = N + 1 /\ t[N + 1] = m
      /\ \A i \in 1 .. N : t[i] = moves[i]
  BY <1>1, <1>2 DEF Played, Game
<1> HIDE DEF t
<1>4. \A i \in 1 .. N : moves[i].pos # p /\ moves[i] \in MoveSet
  <2>1. N \in 0 .. Len(moves) /\ Game(moves) /\ board = Upto(moves, N)
    BY <1>1, <1>3 DEF Played
  <2>2. \A i \in 1 .. N : board[moves[i].pos] = moves[i].color
    BY <2>1, UptoIs
  <2>3. \A i \in 1 .. N : moves[i] \in MoveSet /\ moves[i].color # "none"
    <3>1. \A i \in 1 .. N : moves[i] \in MoveSet
      BY <1>3
    <3> QED BY <3>1 DEF MoveSet, Color
  <2>4. board[p] = "none"
    BY <1>1
  <2> QED BY <2>2, <2>3, <2>4
<1>5. Game(t)
  <2>1. ASSUME NEW i \in 1 .. N + 1, NEW j \in 1 .. N + 1, t[i].pos = t[j].pos
        PROVE  i = j
    <3>1. CASE i = N + 1 /\ j = N + 1
      BY <3>1
    <3>2. CASE i = N + 1 /\ j \in 1 .. N
      BY <1>2, <1>3, <1>4, <2>1, <3>2
    <3>3. CASE i \in 1 .. N /\ j = N + 1
      BY <1>2, <1>3, <1>4, <2>1, <3>3
    <3>4. CASE i \in 1 .. N /\ j \in 1 .. N
      BY <1>1, <1>3, <2>1, <3>4 DEF Played, Game
    <3> QED BY <1>3, <3>1, <3>2, <3>3, <3>4
  <2> QED BY <1>3, <2>1 DEF Game
<1>6. \A n \in 0 .. N : Upto(t, n) = Upto(moves, n)
  BY <1>3, SameBoard
<1>7. board' = Upto(t, N + 1)
  <2>1. Upto(t, N + 1) = [Upto(t, N) EXCEPT ![p] = turn]
    <3>1. N + 1 \in 1 .. Len(t) /\ (N + 1) - 1 = N
      BY <1>3
    <3>2. Upto(t, N + 1) = [Upto(t, (N + 1) - 1) EXCEPT ![t[N + 1].pos] = t[N + 1].color]
      BY <1>5, <3>1, OneMore
    <3>3. t[N + 1].pos = p /\ t[N + 1].color = turn
      BY <1>2, <1>3
    <3> QED BY <3>1, <3>2, <3>3
  <2>2. Upto(t, N) = board
    BY <1>1, <1>3, <1>6 DEF Played
  <2> QED BY <1>1, <2>1, <2>2
<1>8. hashKey' = KeyOf(t)
  <2>1. KeyOf(t) = {<<t[i].pos, t[i].color>> : i \in 1 .. N + 1}
    BY <1>3 DEF KeyOf
  <2>2. hashKey = {<<moves[i].pos, moves[i].color>> : i \in 1 .. N}
    BY <1>1 DEF Played, KeyOf
  <2>3. \A i \in 1 .. N + 1 : i \in 1 .. N \/ i = N + 1
    BY <1>3
  <2>4. N + 1 \in 1 .. N + 1 /\ \A i \in 1 .. N : i \in 1 .. N + 1
    BY <1>3
  <2> QED BY <1>1, <1>2, <1>3, <2>1, <2>2, <2>3, <2>4
<1>9. board \in [Pos -> Stones]
  BY <1>1, <1>3, UptoIs DEF Played
<1>10. m = [color |-> turn, pos |-> p]
  BY DEF m
<1>11. turn' \in Color /\ moves' = t /\ Len(moves') = N + 1
  BY <1>1, <1>2, <1>3
<1>12. Played'
  BY <1>5, <1>7, <1>8, <1>11 DEF Played
<1> QED BY <1>3, <1>6, <1>9, <1>10, <1>11, <1>12

LEMMA UndoBoard ==
  ASSUME Played, Undo
  PROVE  /\ Played'
         /\ Len(moves) \in Nat \ {0} /\ Len(moves') = Len(moves) - 1
         /\ \A i \in 1 .. Len(moves) - 1 : moves'[i] = moves[i]
         /\ \A n \in 0 .. Len(moves) - 1 : Upto(moves', n) = Upto(moves, n)
         /\ board' = Upto(moves, Len(moves) - 1)
         /\ turn' = moves[Len(moves)].color
<1> DEFINE N == Len(moves)
           m == moves[N]
           t == Front(moves)
<1>1. /\ Played /\ moves # <<>> /\ moves' = t
      /\ board' = [board EXCEPT ![m.pos] = "none"]
      /\ hashKey' = hashKey \ {<<m.pos, m.color>>}
      /\ turn' = m.color
  BY DEF Undo, Last
<1>2. Game(moves) /\ moves \in Seq(MoveSet) /\ N \in Nat \ {0}
  BY <1>1 DEF Played, Game
<1>3. /\ t \in Seq(MoveSet) /\ Len(t) = N - 1
      /\ \A i \in 1 .. N - 1 : t[i] = moves[i]
  BY <1>1, <1>2, FrontIs
<1> HIDE DEF t, m
<1>4. Game(t)
  <2>1. \A i \in 1 .. N - 1 : i \in 1 .. N
    BY <1>2
  <2> QED BY <1>2, <1>3, <2>1 DEF Game
<1>5. \A n \in 0 .. N - 1 : Upto(t, n) = Upto(moves, n)
  <2>1. \A n \in 0 .. N - 1 : n \in Nat /\ \A i \in 1 .. n : i \in 1 .. N - 1
    BY <1>2
  <2> QED BY <1>3, <2>1, SameBoard
<1>6. board' = Upto(t, N - 1) /\ turn' \in Color
  <2>1. N \in 1 .. Len(moves) /\ N - 1 \in 0 .. N - 1
    BY <1>2
  <2>2. /\ Upto(moves, N - 1) = [Upto(moves, N) EXCEPT ![m.pos] = "none"]
        /\ m.color \in Color
    BY <1>2, <2>1, OneMore DEF m
  <2> QED BY <1>1, <1>5, <2>1, <2>2 DEF Played
<1>7. hashKey' = KeyOf(t)
  <2>1. KeyOf(t) = {<<moves[i].pos, moves[i].color>> : i \in 1 .. N - 1}
    BY <1>3 DEF KeyOf
  <2>2. hashKey = {<<moves[i].pos, moves[i].color>> : i \in 1 .. N}
    BY <1>1 DEF Played, KeyOf
  <2>3. \A i \in 1 .. N : i \in 1 .. N - 1 \/ i = N
    BY <1>2
  <2>4. \A i \in 1 .. N - 1 : i \in 1 .. N /\ moves[i].pos # m.pos
    BY <1>2 DEF Game, m
  <2> QED BY <1>1, <2>1, <2>2, <2>3, <2>4 DEF m
<1>8. moves' = t /\ Len(moves') = N - 1 /\ N - 1 \in 0 .. N - 1
  BY <1>1, <1>2, <1>3
<1>9. Played'
  BY <1>4, <1>6, <1>7, <1>8 DEF Played
<1> QED BY <1>1, <1>2, <1>3, <1>5, <1>6, <1>8, <1>9 DEF m

-----------------------------------------------------------------------------
(* Level 0 *)

\* The winner is who has a row, and before the last move nobody had one.
LevelZero ==
  /\ threatRecord = <<>> /\ threat = NoThreat
  /\ winner \in Stones
  /\ \A n \in 0 .. Len(moves) - 1 : \A c \in Color : ~HasRow(Upto(moves, n), c)
  /\ \A c \in Color : winner = c <=> HasRow(board, c)

\* A stone makes no row but its own.
LEMMA PlayZero ==
  ASSUME Played, level = 0, LevelZero, NEW p \in Pos, Play(p)
  PROVE  Played' /\ LevelZero'
<1> DEFINE N == Len(moves)
<1>1. /\ board[p] = "none" /\ winner = "none" /\ turn \in Color
      /\ board' = [board EXCEPT ![p] = turn]
      /\ updateConnection(board', p)
  BY DEF Play, Played, LevelZero, isLegalMove, isTerminal
<1>2. /\ Played' /\ N \in Nat /\ Len(moves') = N + 1 /\ board \in [Pos -> Stones]
      /\ \A n \in 0 .. N : Upto(moves', n) = Upto(moves, n)
  BY <1>1, PlayBoard
<1>3. \A c \in Color : ~HasRow(board, c)
  BY <1>1 DEF LevelZero, Color
<1>4. \A n \in 0 .. N : \A c \in Color : ~HasRow(Upto(moves', n), c)
  <2>1. \A n \in 0 .. N : n = N \/ n \in 0 .. N - 1
    BY <1>2
  <2> QED BY <1>2, <1>3, <2>1 DEF LevelZero, Played
<1>5. /\ HasRow(board', turn) <=>
            \E i \in DOMAIN Directions : RowLength(board', p, Directions[i]) >= WinLength
      /\ \A e \in Color \ {turn} : ~HasRow(board', e)
  <2> DEFINE b2 == [board EXCEPT ![p] = turn]
  <2>1. /\ HasRow(b2, turn) <=>
             \E i \in DOMAIN Directions : RowLength(b2, p, Directions[i]) >= WinLength
        /\ \A e \in Color \ {turn} : ~HasRow(b2, e)
    BY <1>1, <1>2, <1>3, LastStone
  <2>2. board' = b2
    BY <1>1
  <2> HIDE DEF b2
  <2> QED BY <2>1, <2>2
<1>6. winner' \in Stones /\ \A c \in Color : winner' = c <=> HasRow(board', c)
  <2>1. /\ threat' = threat /\ threatRecord' = threatRecord /\ board'[p] = turn
        /\ winner' = IF \E i \in DOMAIN Directions :
                          RowLength(board', p, Directions[i]) >= WinLength
                     THEN turn ELSE "none"
    BY <1>1, <1>2 DEF updateConnection
  <2>2. "none" \notin Color
    BY DEF Color
  <2> QED BY <1>1, <1>5, <2>1, <2>2 DEF Stones
<1>7. threatRecord' = <<>> /\ threat' = NoThreat
  BY <1>1 DEF LevelZero, updateConnection
<1>8. Len(moves') - 1 = N
  BY <1>2
<1> QED BY <1>2, <1>4, <1>6, <1>7, <1>8 DEF LevelZero

\* Taken back, the last stone leaves the board as it was, without a row.
LEMMA UndoZero ==
  ASSUME Played, level = 0, LevelZero, Undo
  PROVE  Played' /\ LevelZero'
<1> DEFINE N == Len(moves)
<1>1. winner' = "none" /\ UNCHANGED <<threat, threatRecord>>
  BY DEF Undo
<1>2. /\ Played' /\ N \in Nat \ {0} /\ Len(moves') = N - 1
      /\ \A n \in 0 .. N - 1 : Upto(moves', n) = Upto(moves, n)
      /\ board' = Upto(moves, N - 1)
  BY UndoBoard
<1>3. \A c \in Color : ~HasRow(board', c)
  BY <1>2 DEF LevelZero
<1>4. \A n \in 0 .. Len(moves') - 1 : \A c \in Color : ~HasRow(Upto(moves', n), c)
  <2>1. \A n \in 0 .. Len(moves') - 1 : n \in 0 .. N - 1
    BY <1>2
  <2> QED BY <1>2, <2>1 DEF LevelZero
<1>5. winner' \in Stones /\ \A c \in Color : winner' # c
  BY <1>1 DEF Stones, Color
<1> QED BY <1>1, <1>2, <1>3, <1>4, <1>5 DEF LevelZero

-----------------------------------------------------------------------------
(* Level 1 *)

Threats == Pos \cup {NoThreat}
Found(b, p) == UNION {LineThreats(b, p, d) : d \in ToSet(Directions)}

\* The segments begin as far back as the opponent and the edge allow.
LEMMA StartIs ==
  ASSUME NEW b, NEW p, NEW d, NEW c, b[p] = c
  PROVE  \E g \in 0 .. WinLength - 1 :
           /\ Start(b, p, d) = -g
           /\ \A m \in 1 .. g : Stone(b, p, d, -m) \in {c, "none"}
           /\ \A i \in 1 .. WinLength - 1 :
                (\A m \in 1 .. i : Stone(b, p, d, -m) \in {c, "none"}) => i <= g
<1> DEFINE W == WinLength
           G == {k \in 1 .. W - 1 : \A m \in 1 .. k : Stone(b, p, d, -m) \in {b[p], "none"}}
           g == Cardinality(G)
<1>1. W \in Nat \ {0} /\ W - 1 \in Nat
  BY GomokuAssumption
<1>2. g \in Nat /\ G = 1 .. g
  <2>1. G \in SUBSET (1 .. W - 1) /\ \A k \in G : \A m \in 1 .. k : m \in G
    BY <1>1
  <2> HIDE DEF G
  <2>2. Cardinality(G) \in Nat /\ G = 1 .. 1 + Cardinality(G) - 1
    BY <1>1, <2>1, InitialSegment
  <2> QED BY <2>2
<1>3. Start(b, p, d) = -g
  BY DEF Start
<1>4. \A m \in G : m \in 1 .. W - 1 /\ Stone(b, p, d, -m) \in {c, "none"}
  BY <1>1
<1>5. \A i \in 1 .. W - 1 : (\A m \in 1 .. i : Stone(b, p, d, -m) \in {c, "none"}) => i \in G
  OBVIOUS
<1> HIDE DEF G, g
<1>6. g \in 0 .. W - 1
  <2>1. CASE g = 0
    BY <1>1, <2>1
  <2>2. CASE g # 0
    <3>1. g \in G
      BY <1>2, <2>2
    <3> QED BY <1>1, <1>2, <1>4, <3>1
  <2> QED BY <2>1, <2>2
<1>7. \A i \in 1 .. W - 1 : (\A m \in 1 .. i : Stone(b, p, d, -m) \in {c, "none"}) => i <= g
  BY <1>2, <1>5
<1>8. \A m \in 1 .. g : Stone(b, p, d, -m) \in {c, "none"}
  BY <1>2, <1>4
<1> QED BY <1>3, <1>6, <1>7, <1>8

\* A row of c through p that lacks one stone is among the segments.
LEMMA RowIsFound ==
  ASSUME NEW b \in [Pos -> Stones], NEW p \in Pos, NEW c \in Color, b[p] = c,
         NEW q, NEW d, NEW i, NEW j, Lacks(b, c, q, d, j),
         i \in 0 .. WinLength - 1, Step(q, d, i) = p, b[Step(q, d, j)] = "none"
  PROVE  Step(q, d, j) \in LineThreats(b, p, d)
<1> DEFINE W == WinLength
<1>1. W \in Nat \ {0} /\ W - 1 \in Nat
  BY GomokuAssumption
<1>2. /\ Begins(q, d) /\ q \in Pos /\ d \in Direction /\ j \in 0 .. W - 1
      /\ i \in Int /\ j \in Int
  BY DEF Lacks, Begins
<1>3. \A m \in Int : /\ Step(p, d, m) = Step(q, d, i + m)
                     /\ On(p, d, m) <=> On(q, d, i + m)
  BY <1>2, RowIsOn, StepIs
<1>4. ASSUME NEW m \in -i .. -i + W - 1
      PROVE  /\ i + m \in 0 .. W - 1 /\ On(p, d, m)
             /\ m # j - i => Stone(b, p, d, m) = c
             /\ m = j - i => Stone(b, p, d, m) = "none"
  <2>1. m \in Int /\ i + m \in 0 .. W - 1 /\ (i + m = j <=> m = j - i)
    BY <1>1, <1>2
  <2>2. On(p, d, m) /\ Step(p, d, m) = Step(q, d, i + m)
    BY <1>2, <1>3, <2>1, RowIsOn
  <2>3. b[Step(p, d, m)] = IF m = j - i THEN "none" ELSE c
    BY <2>1, <2>2 DEF Lacks
  <2>4. \A e \in Stones : Stone(b, p, d, m) = e <=> On(p, d, m) /\ b[Step(p, d, m)] = e
    BY <1>2, <2>1, StoneIs
  <2> QED BY <2>1, <2>2, <2>3, <2>4 DEF Stones
<1>5. PICK g \in 0 .. W - 1 :
        /\ Start(b, p, d) = -g
        /\ \A m \in 1 .. g : Stone(b, p, d, -m) \in {c, "none"}
        /\ \A k \in 1 .. W - 1 :
             (\A m \in 1 .. k : Stone(b, p, d, -m) \in {c, "none"}) => k <= g
  BY StartIs
<1>6. i <= g
  <2>1. CASE i = 0
    BY <1>5, <2>1
  <2>2. CASE i # 0
    <3>1. \A m \in 1 .. i : -m \in -i .. -i + W - 1
      BY <1>1, <2>2
    <3>2. i \in 1 .. W - 1 /\ \A m \in 1 .. i : Stone(b, p, d, -m) \in {c, "none"}
      BY <1>1, <1>4, <2>2, <3>1
    <3> QED BY <1>5, <3>2
  <2> QED BY <2>1, <2>2
<1>7. -i \in -g .. -g + W - 1
  BY <1>1, <1>2, <1>5, <1>6
<1>8. ASSUME NEW m \in -g .. -i + W - 1
      PROVE  Stone(b, p, d, m) \in {c, "none"}
  <2>1. CASE m \in -i .. -i + W - 1
    BY <1>4, <2>1
  <2>2. CASE ~(m \in -i .. -i + W - 1)
    <3>1. -m \in 1 .. g /\ -(-m) = m
      BY <1>1, <1>2, <1>5, <2>2
    <3> QED BY <1>5, <3>1
  <2> QED BY <2>1, <2>2
<1>9. -i \in Segments(b, p, d)
  BY <1>5, <1>7, <1>8 DEF Segments
<1>10. Gaps(b, p, d, -i) = {j - i} /\ Step(p, d, j - i) = Step(q, d, j)
  <2>1. j - i \in -i .. -i + W - 1 /\ i + (j - i) = j /\ j - i \in Int
    BY <1>1, <1>2
  <2>2. "none" # c
    BY DEF Color
  <2> QED BY <1>3, <1>4, <2>1, <2>2 DEF Gaps
<1>11. Cardinality(Gaps(b, p, d, -i)) = 1
  BY <1>10, FS_Singleton
<1> QED BY <1>9, <1>10, <1>11 DEF LineThreats

\* What is found wins.
LEMMA FoundWins ==
  ASSUME NEW b \in [Pos -> Stones], NEW p \in Pos, NEW c \in Color, b[p] = c,
         NEW d \in Direction, NEW x \in LineThreats(b, p, d)
  PROVE  x \in WinningPoints(b, c)
<1> DEFINE W == WinLength
<1>1. W \in Nat \ {0} /\ W - 1 \in Nat
  BY GomokuAssumption
<1>2. PICK s \in Segments(b, p, d) : /\ Cardinality(Gaps(b, p, d, s)) = 1
                                    /\ \E m \in Gaps(b, p, d, s) : x = Step(p, d, m)
  BY DEF LineThreats
<1>3. PICK m \in Gaps(b, p, d, s) : x = Step(p, d, m)
  BY <1>2
<1>4. PICK a : Gaps(b, p, d, s) = {a}
  <2>1. IsFiniteSet(Gaps(b, p, d, s))
    <3>1. s \in Int
      BY <1>1, StartIs DEF Segments
    <3>2. IsFiniteSet(s .. s + W - 1)
      BY <1>1, <3>1, FS_Interval
    <3> QED BY <3>2, FS_Subset DEF Gaps
  <2> QED BY <1>2, <2>1, FS_Singleton
<1>5. PICK g \in 0 .. W - 1 : Start(b, p, d) = -g
  BY StartIs
<1>6. /\ s \in Int /\ m \in s .. s + W - 1
      /\ \A k \in s .. s + W - 1 : Stone(b, p, d, k) \in {c, "none"}
      /\ \A k \in s .. s + W - 1 : Stone(b, p, d, k) = "none" <=> k = m
  <2>1. s \in -g .. -g + W - 1 /\ \A k \in -g .. s + W - 1 : Stone(b, p, d, k) \in {c, "none"}
    BY <1>5 DEF Segments
  <2>2. s \in Int /\ \A k \in s .. s + W - 1 : k \in -g .. s + W - 1
    BY <1>1, <1>5, <2>1
  <2>3. \A k \in s .. s + W - 1 : Stone(b, p, d, k) = "none" <=> k = m
    BY <1>3, <1>4 DEF Gaps
  <2> QED BY <1>3, <2>1, <2>2, <2>3 DEF Gaps
<1>7. ASSUME NEW k \in s .. s + W - 1
      PROVE  /\ On(p, d, k)
             /\ b[Step(p, d, k)] = IF k = m THEN "none" ELSE c
  <2>1. k \in Int
    BY <1>1, <1>6
  <2>2. \A e \in Stones : Stone(b, p, d, k) = e <=> On(p, d, k) /\ b[Step(p, d, k)] = e
    BY <2>1, StoneIs
  <2> QED BY <1>6, <2>2 DEF Stones
<1> DEFINE q == Step(p, d, s)
<1>8. s \in s .. s + W - 1
  BY <1>1, <1>6
<1>9. /\ q \in Pos
      /\ \A k \in Int : /\ Step(q, d, k) = Step(p, d, s + k)
                        /\ On(q, d, k) <=> On(p, d, s + k)
  BY <1>6, <1>7, <1>8, StepIs
<1> HIDE DEF q
<1>10. \A k \in 0 .. W - 1 : k \in Int /\ s + k \in s .. s + W - 1 /\ (s + k = m <=> k = m - s)
  BY <1>1, <1>6
<1>11. /\ m - s \in 0 .. W - 1 /\ m - s \in Int /\ s + (m - s) = m /\ W - 1 \in 0 .. W - 1
       /\ m \in Int
  BY <1>1, <1>6
<1>12. Begins(q, d)
  BY <1>7, <1>9, <1>10, <1>11 DEF Begins
<1>13. Lacks(b, c, q, d, m - s)
  BY <1>7, <1>9, <1>10, <1>11, <1>12 DEF Lacks
<1>14. Step(q, d, m - s) = x /\ x \in Pos /\ b[x] = "none"
  <2>1. Step(q, d, m - s) = x /\ b[x] = "none"
    BY <1>3, <1>6, <1>7, <1>9, <1>11
  <2>2. Step(q, d, m - s) \in Pos
    BY <1>11, <1>12, RowIsOn
  <2> QED BY <2>1, <2>2
<1> QED BY <1>13, <1>14, WinningIs

\* The last stone: it ends no row where none could be ended, stops the other
\* colour where that had one point at most, and the points where its colour
\* now wins are those on its own lines.
LEMMA LastThreat ==
  ASSUME NEW b \in [Pos -> Stones], NEW p \in Pos, b[p] = "none", NEW c \in Color,
         \A e \in Color : ~HasRow(b, e),
         WinningPoints(b, c) = {},
         WinningPoints(b, AgainstColor(c)) \subseteq {p},
         NEW a \in [Pos -> Stones], a[p] = c, \A q \in Pos : q # p => a[q] = b[q]
  PROVE  /\ \A e \in Color : ~HasRow(a, e)
         /\ WinningPoints(a, AgainstColor(c)) = {}
         /\ WinningPoints(a, c) = Found(a, p)
<1> DEFINE W == WinLength
<1>1. /\ a \in [Pos -> Stones] /\ a[p] = c
      /\ \A q \in Pos : q # p => a[q] = b[q]
      /\ c # "none" /\ AgainstColor(c) # c /\ AgainstColor(c) \in Color
  BY DEF Stones, Color, AgainstColor
<1>2. W \in Nat \ {0, 1} /\ W - 1 \in Nat
  BY GomokuAssumption
<1>3. ASSUME NEW e \in Color, HasRow(a, e)
      PROVE  FALSE
  <2>1. PICK q, d : Begins(q, d) /\ \A k \in 0 .. W - 1 : a[Step(q, d, k)] = e
    BY <1>3, HasRowIs
  <2>2. PICK j \in 0 .. W - 1 : Step(q, d, j) = p
    <3> SUFFICES ASSUME \A j \in 0 .. W - 1 : Step(q, d, j) # p  PROVE FALSE
      OBVIOUS
    <3>1. \A k \in 0 .. W - 1 : b[Step(q, d, k)] = e
      BY <1>1, <2>1, RowIsOn
    <3> QED BY <2>1, <3>1, HasRowIs
  <2>3. e = c
    BY <1>1, <2>1, <2>2
  <2>4. Lacks(b, c, q, d, j)
    <3>1. \A k \in 0 .. W - 1 : k # j => Step(q, d, k) # p
      <4>1. q \in Pos /\ d \in Direction /\ 0 .. W - 1 \subseteq Int
        BY <2>1 DEF Begins
      <4> QED BY <2>1, <2>2, <4>1, RowIsOn, StepOnce
    <3> QED BY <1>1, <2>1, <2>2, <2>3, <3>1, RowIsOn DEF Lacks
  <2> QED BY <2>2, <2>4, WinningIs
<1>4. ASSUME NEW e \in Color, NEW q, NEW d, NEW j, Lacks(a, e, q, d, j),
             a[Step(q, d, j)] = "none",
             \A k \in 0 .. W - 1 : Step(q, d, k) # p
      PROVE  Step(q, d, j) \in WinningPoints(b, e) /\ Step(q, d, j) # p
  <2>1. Begins(q, d) /\ j \in 0 .. W - 1
    BY <1>4 DEF Lacks
  <2>2. \A k \in 0 .. W - 1 : Step(q, d, k) \in Pos /\ a[Step(q, d, k)] = b[Step(q, d, k)]
    BY <1>1, <1>4, <2>1, RowIsOn
  <2>3. Lacks(b, e, q, d, j)
    BY <1>4, <2>1, <2>2 DEF Lacks
  <2> QED BY <1>4, <2>1, <2>2, <2>3, WinningIs
<1>5. WinningPoints(a, AgainstColor(c)) = {}
  <2> SUFFICES ASSUME NEW x \in WinningPoints(a, AgainstColor(c))  PROVE FALSE
    OBVIOUS
  <2> DEFINE e == AgainstColor(c)
  <2>1. x \in WinningPoints(a, e)
    OBVIOUS
  <2> HIDE DEF e
  <2>2. a[x] = "none" /\ \E q, d, j : Lacks(a, e, q, d, j) /\ Step(q, d, j) = x
    BY <2>1, WinningLacks
  <2>3. PICK q, d, j : Lacks(a, e, q, d, j) /\ Step(q, d, j) = x
    BY <2>2
  <2>4. e \in Color /\ e # c
    BY <1>1 DEF e
  <2>5. \A k \in 0 .. W - 1 : Step(q, d, k) # p
    BY <1>1, <2>2, <2>3, <2>4 DEF Lacks
  <2>6. x \in WinningPoints(b, e) /\ x # p
    BY <1>4, <2>2, <2>3, <2>4, <2>5
  <2> QED BY <2>6 DEF e
<1>6. ASSUME NEW x \in WinningPoints(a, c)
      PROVE  x \in Found(a, p)
  <2>1. a[x] = "none" /\ \E q, d, j : Lacks(a, c, q, d, j) /\ Step(q, d, j) = x
    BY <1>6, WinningLacks
  <2>2. PICK q, d, j : Lacks(a, c, q, d, j) /\ Step(q, d, j) = x
    BY <2>1
  <2>3. PICK i \in 0 .. W - 1 : Step(q, d, i) = p
    BY <1>4, <2>1, <2>2
  <2>4. x \in LineThreats(a, p, d)
    BY <1>1, <2>1, <2>2, <2>3, RowIsFound
  <2>5. d \in ToSet(Directions)
    BY <2>2, DirectionIs DEF Lacks, Begins
  <2> QED BY <2>4, <2>5 DEF Found
<1>7. ASSUME NEW x \in Found(a, p)
      PROVE  x \in WinningPoints(a, c)
  <2>1. PICK d \in Direction : x \in LineThreats(a, p, d)
    BY DirectionIs DEF Found
  <2> QED BY <1>1, <2>1, FoundWins
<1> QED BY <1>3, <1>5, <1>6, <1>7

\* Who made c's last move is the only one who can win, and only at t.
Settled(b, c, t) ==
  /\ WinningPoints(b, AgainstColor(c)) = {}
  /\ WinningPoints(b, c) = {t} \ {NoThreat}

LastColor == moves[Len(moves)].color

\* A threat demands a point where a stone can be put.
OnFree(b, t) == t # NoThreat => b[t] = "none"

\* As long as threats were answered, nobody ever has a row, every earlier position
\* was settled by the threat on record, and so is the present one unless it is won.
LevelOne ==
  /\ threat \in Threats /\ OnFree(board, threat)
  /\ threatRecord \in Seq(Threats) /\ Len(threatRecord) = Len(moves)
  /\ IF Len(moves) = 0 THEN threat = NoThreat ELSE threatRecord[1] = NoThreat
  /\ \A n \in 1 .. Len(moves) - 1 : OnFree(Upto(moves, n), threatRecord[n + 1])
  /\ \A n \in 0 .. Len(moves) : TurnsTaken(moves, threatRecord, n) =>
       \A c \in Color : ~HasRow(Upto(moves, n), c)
  /\ \A n \in 1 .. Len(moves) - 1 : TurnsTaken(moves, threatRecord, n) =>
       Settled(Upto(moves, n), moves[n].color, threatRecord[n + 1])
  /\ Len(moves) > 0 /\ TurnsTaken(moves, threatRecord, Len(moves)) =>
       /\ WinningPoints(board, AgainstColor(LastColor)) = {}
       /\ winner = IF Cardinality(WinningPoints(board, LastColor)) > 1
                   THEN LastColor ELSE "none"
       /\ winner = "none" => Settled(board, LastColor, threat)

\* Who answered up to the n-th move had answered up to an earlier one.
LEMMA EarlierTurns ==
  ASSUME NEW m, NEW r, NEW n \in Int, NEW k \in Int, k <= n, TurnsTaken(m, r, n)
  PROVE  TurnsTaken(m, r, k)
BY DEF TurnsTaken

LEMMA ColorIs ==
  ASSUME NEW c \in Color
  PROVE  /\ AgainstColor(c) \in Color /\ AgainstColor(c) # c
         /\ AgainstColor(AgainstColor(c)) = c /\ c # "none"
         /\ \A e \in Color : e = c \/ e = AgainstColor(c)
BY DEF Color, AgainstColor

LEMMA FewPoints ==
  ASSUME NEW S, S \subseteq Pos
  PROVE  /\ Cardinality(S) \in Nat
         /\ ~(Cardinality(S) > 1) <=> \A x, y \in S : x = y
<1>1. IsFiniteSet(S) /\ Cardinality(S) \in Nat
  <2>1. BoardSize * BoardSize - 1 \in Int
    BY BoardAssumption
  <2>2. IsFiniteSet(Pos)
    BY <2>1, FS_Interval DEF Pos
  <2> QED BY <2>2, FS_Subset, FS_CardinalityType
<1>2. CASE S = {}
  BY <1>2, FS_EmptySet
<1>3. ASSUME NEW x \in S, S # {x}
      PROVE  Cardinality(S) > 1 /\ ~\A a, e \in S : a = e
  <2>1. Cardinality(S) # 0
    BY <1>1, FS_EmptySet
  <2>2. Cardinality(S) # 1
    BY <1>1, <1>3, FS_Singleton
  <2> QED BY <1>1, <1>3, <2>1, <2>2
<1>4. ASSUME NEW x \in S, S = {x}
      PROVE  ~(Cardinality(S) > 1) /\ \A a, e \in S : a = e
  <2>1. Cardinality(S) = 1
    BY <1>4, FS_Singleton
  <2> QED BY <1>4, <2>1
<1> QED BY <1>1, <1>2, <1>3, <1>4

LEMMA MoveIsFree ==
  ASSUME LevelOne, NEW p \in Pos, isLegalMove(p)
  PROVE  board[p] = "none"
BY DEF isLegalMove, LevelOne, OnFree

\* The move that answers a threat, if there is one, leaves the other colour no win.
LEMMA MoveIsSafe ==
  ASSUME Played, LevelOne, NEW p \in Pos, isLegalMove(p), ~isTerminal,
         TurnsTaken(moves, threatRecord, Len(moves)),
         Len(moves) > 0 /\ threat # NoThreat => turn # LastColor
  PROVE  /\ board[p] = "none"
         /\ \A c \in Color : ~HasRow(board, c)
         /\ WinningPoints(board, turn) = {}
         /\ WinningPoints(board, AgainstColor(turn)) \subseteq {p}
<1> DEFINE N == Len(moves)
<1>1. N \in Nat /\ turn \in Color /\ board = Upto(moves, N) /\ winner = "none"
      /\ Game(moves)
  BY DEF Played, Game, isTerminal
<1>2. \A c \in Color : ~HasRow(board, c)
  BY <1>1 DEF LevelOne
<1>3. CASE N = 0
  <2>1. threat = NoThreat
    BY <1>3 DEF LevelOne
  <2>2. \A c \in Color : WinningPoints(board, c) = {}
    BY <1>1, <1>3, NothingOnEmpty
  <2> QED BY <1>1, <1>2, <2>1, <2>2, ColorIs DEF isLegalMove
<1>4. CASE N # 0
  <2>1. LastColor \in Color
    <3>1. N \in 1 .. N /\ moves \in Seq(MoveSet)
      BY <1>1, <1>4 DEF Game
    <3>2. moves[N] \in MoveSet
      BY <3>1
    <3> QED BY <3>2 DEF MoveSet, LastColor
  <2>2. /\ WinningPoints(board, AgainstColor(LastColor)) = {}
        /\ WinningPoints(board, LastColor) = {threat} \ {NoThreat}
        /\ threat # NoThreat => turn = AgainstColor(LastColor)
    <3>1. N > 0
      BY <1>1, <1>4
    <3> QED BY <1>1, <2>1, <3>1, ColorIs DEF LevelOne, Settled
  <2>3. CASE threat = NoThreat
    <3>1. \A c \in Color : WinningPoints(board, c) = {}
      BY <2>1, <2>2, <2>3, ColorIs
    <3> QED BY <1>1, <1>2, <2>3, <3>1, ColorIs DEF isLegalMove
  <2>4. CASE threat # NoThreat
    <3>1. p = threat /\ turn = AgainstColor(LastColor)
      BY <2>2, <2>4 DEF isLegalMove
    <3>2. AgainstColor(turn) = LastColor
      BY <2>1, <3>1, ColorIs
    <3>3. p \in WinningPoints(board, LastColor)
      BY <2>2, <2>4, <3>1
    <3>4. board[p] = "none"
      BY <3>3 DEF WinningPoints
    <3> QED BY <1>2, <2>2, <3>1, <3>2, <3>4
  <2> QED BY <2>3, <2>4
<1> QED BY <1>3, <1>4

\* What updateThreat finds are free points.
LEMMA FoundIsFree ==
  ASSUME Played, LevelOne, level = 1, NEW p \in Pos, Play(p)
  PROVE  threat' \in Threats /\ OnFree(board', threat')
<1>1. /\ isLegalMove(p) /\ turn \in Color /\ updateThreat(board', p)
      /\ board' = [board EXCEPT ![p] = turn]
  BY DEF Play, Played
<1>2. board[p] = "none" /\ board \in [Pos -> Stones]
  BY <1>1, MoveIsFree, PlayBoard
<1>3. board' \in [Pos -> Stones] /\ board'[p] = turn
  BY <1>1, <1>2 DEF Stones
<1>4. ASSUME NEW x \in Found(board', p)
      PROVE  x \in Pos /\ board'[x] = "none"
  <2>1. PICK d \in Direction : x \in LineThreats(board', p, d)
    BY DirectionIs DEF Found
  <2>2. x \in WinningPoints(board', turn)
    <3> DEFINE a == board'
    <3>1. a \in [Pos -> Stones] /\ a[p] = turn /\ x \in LineThreats(a, p, d)
      BY <1>3, <2>1
    <3> HIDE DEF a
    <3>2. x \in WinningPoints(a, turn)
      BY <1>1, <3>1, FoundWins
    <3> QED BY <3>2 DEF a
  <2> QED BY <2>2 DEF WinningPoints
<1>5. IF Found(board', p) = {} THEN threat' = NoThreat ELSE threat' \in Found(board', p)
  BY <1>1 DEF updateThreat, Found
<1> QED BY <1>4, <1>5 DEF Threats, OnFree

\* What updateThreat decides is the case on the whole board.
LEMMA ThreatIsExact ==
  ASSUME Played, LevelOne, level = 1, NEW p \in Pos, Play(p),
         TurnsTaken(moves, threatRecord, Len(moves)),
         Len(moves) > 0 /\ threat # NoThreat => turn # LastColor
  PROVE  /\ \A c \in Color : ~HasRow(board', c)
         /\ WinningPoints(board', AgainstColor(turn)) = {}
         /\ winner' = IF Cardinality(WinningPoints(board', turn)) > 1 THEN turn ELSE "none"
         /\ winner' = "none" => Settled(board', turn, threat')
<1>1. /\ isLegalMove(p) /\ ~isTerminal /\ winner = "none" /\ turn \in Color
      /\ board' = [board EXCEPT ![p] = turn] /\ turn' = AgainstColor(turn)
      /\ updateThreat(board', p)
  BY DEF Play, isTerminal, Played
<1>2. /\ board[p] = "none" /\ \A c \in Color : ~HasRow(board, c)
      /\ WinningPoints(board, turn) = {}
      /\ WinningPoints(board, AgainstColor(turn)) \subseteq {p}
  BY <1>1, MoveIsSafe
<1>3. board \in [Pos -> Stones]
  BY <1>2, PlayBoard
<1>4. /\ board' \in [Pos -> Stones] /\ board'[p] = turn
      /\ \A q \in Pos : q # p => board'[q] = board[q]
  BY <1>1, <1>3 DEF Stones
<1>5. /\ \A e \in Color : ~HasRow(board', e)
      /\ WinningPoints(board', AgainstColor(turn)) = {}
      /\ WinningPoints(board', turn) = Found(board', p)
  <2> DEFINE a == board'
  <2>1. /\ a \in [Pos -> Stones] /\ a[p] = turn
        /\ \A q \in Pos : q # p => a[q] = board[q]
    BY <1>4
  <2> HIDE DEF a
  <2>2. /\ \A e \in Color : ~HasRow(a, e)
        /\ WinningPoints(a, AgainstColor(turn)) = {}
        /\ WinningPoints(a, turn) = Found(a, p)
    BY <1>1, <1>2, <1>3, <2>1, LastThreat
  <2> QED BY <2>2 DEF a
<1> DEFINE found == Found(board', p)
<1>6. /\ IF found = {} THEN threat' = NoThreat ELSE threat' \in found
      /\ winner' = IF Cardinality(found) > 1 THEN turn ELSE "none"
  BY <1>1, <1>4 DEF updateThreat, Found
<1>7. found \subseteq Pos /\ NoThreat \notin Pos
  <2>1. NoThreat \notin Pos
    BY BoardAssumption DEF Pos, NoThreat
  <2> QED BY <1>5, <2>1 DEF WinningPoints
<1> HIDE DEF found
<1>9. ASSUME winner' = "none"
      PROVE  found = {threat'} \ {NoThreat}
  <2>1. \A x, y \in found : x = y
    BY <1>1, <1>6, <1>7, <1>9, FewPoints, ColorIs
  <2> QED BY <1>6, <1>7, <2>1
<1> QED BY <1>1, <1>5, <1>6, <1>9 DEF Settled, found

\* Playing on: the record before stays, and this move answers or does not.
LEMMA PlayTurns ==
  ASSUME Played, level = 1, LevelOne, NEW p \in Pos, Play(p)
  PROVE  /\ \A n \in 0 .. Len(moves) :
              TurnsTaken(moves', threatRecord', n) <=> TurnsTaken(moves, threatRecord, n)
         /\ TurnsTaken(moves', threatRecord', Len(moves) + 1) =>
              /\ TurnsTaken(moves, threatRecord, Len(moves))
              /\ Len(moves) > 0 /\ threat # NoThreat => turn # LastColor
<1> DEFINE N == Len(moves)
<1>1. /\ board[p] = "none" /\ threatRecord' = Append(threatRecord, threat)
      /\ threatRecord \in Seq(Threats) /\ Len(threatRecord) = N /\ threat \in Threats
  BY MoveIsFree DEF Play, updateThreat, LevelOne
<1>2. /\ N \in Nat /\ moves'[N + 1].color = turn
      /\ \A i \in 1 .. N : moves'[i] = moves[i]
  <2>1. N \in Nat /\ moves'[N + 1] = [color |-> turn, pos |-> p]
    BY <1>1, PlayBoard
  <2>2. \A i \in 1 .. N : moves'[i] = moves[i]
    BY <1>1, PlayBoard
  <2> QED BY <2>1, <2>2
<1>3. /\ threatRecord'[N + 1] = threat
      /\ \A i \in 1 .. N : threatRecord'[i] = threatRecord[i]
  BY <1>1, <1>2
<1>4. ASSUME NEW n \in 0 .. N
      PROVE  TurnsTaken(moves', threatRecord', n) <=> TurnsTaken(moves, threatRecord, n)
  <2>1. \A i \in 2 .. n : /\ moves'[i] = moves[i] /\ moves'[i - 1] = moves[i - 1]
                          /\ threatRecord'[i] = threatRecord[i]
    <3>1. \A i \in 2 .. n : i \in 1 .. N /\ i - 1 \in 1 .. N
      BY <1>2
    <3> QED BY <1>2, <1>3, <3>1
  <2> QED BY <2>1 DEF TurnsTaken
<1>5. ASSUME TurnsTaken(moves', threatRecord', N + 1)
      PROVE  /\ TurnsTaken(moves, threatRecord, N)
             /\ N > 0 /\ threat # NoThreat => turn # LastColor
  <2>1. \A i \in 2 .. N + 1 : threatRecord'[i] # NoThreat => moves'[i].color # moves'[i - 1].color
    BY <1>5 DEF TurnsTaken
  <2>2. TurnsTaken(moves', threatRecord', N)
    BY <1>2, <1>5, EarlierTurns
  <2>3. ASSUME N > 0, threat # NoThreat
        PROVE  turn # LastColor
    <3>1. N + 1 \in 2 .. N + 1 /\ (N + 1) - 1 = N /\ N \in 1 .. N
      BY <1>2, <2>3
    <3> QED BY <1>2, <1>3, <2>1, <2>3, <3>1 DEF LastColor
  <2> QED BY <1>2, <1>4, <2>2, <2>3
<1> QED BY <1>4, <1>5

LEMMA PlayOne ==
  ASSUME Played, level = 1, LevelOne, NEW p \in Pos, Play(p)
  PROVE  Played' /\ LevelOne'
<1> DEFINE N == Len(moves)
<1>1. /\ winner = "none" /\ turn \in Color /\ threatRecord' = Append(threatRecord, threat)
      /\ board[p] = "none" /\ board = Upto(moves, N)
      /\ threatRecord \in Seq(Threats) /\ Len(threatRecord) = N /\ threat \in Threats
  BY MoveIsFree DEF Play, isTerminal, updateThreat, Played, LevelOne
<1>2. /\ Played' /\ N \in Nat /\ Len(moves') = N + 1
      /\ moves'[N + 1] = [color |-> turn, pos |-> p]
      /\ \A i \in 1 .. N : moves'[i] = moves[i]
      /\ \A n \in 0 .. N : Upto(moves', n) = Upto(moves, n)
  BY <1>1, PlayBoard
<1>3. /\ threatRecord' \in Seq(Threats) /\ Len(threatRecord') = N + 1
      /\ threatRecord'[N + 1] = threat
      /\ \A i \in 1 .. N : threatRecord'[i] = threatRecord[i]
  BY <1>1, <1>2
<1>4. LastColor' = turn /\ board' = Upto(moves', N + 1)
  BY <1>2 DEF LastColor, Played
<1>5. Len(moves') # 0 /\ threatRecord'[1] = NoThreat
  <2>1. CASE N = 0
    BY <1>2, <1>3, <2>1 DEF LevelOne
  <2>2. CASE N # 0
    <3>1. 1 \in 1 .. N
      BY <1>2, <2>2
    <3> QED BY <1>2, <1>3, <2>2, <3>1 DEF LevelOne
  <2> QED BY <2>1, <2>2
<1>t. /\ \A n \in 0 .. N :
           TurnsTaken(moves', threatRecord', n) <=> TurnsTaken(moves, threatRecord, n)
      /\ TurnsTaken(moves', threatRecord', N + 1) =>
           /\ TurnsTaken(moves, threatRecord, N)
           /\ N > 0 /\ threat # NoThreat => turn # LastColor
  BY PlayTurns
<1>6. ASSUME NEW n \in 0 .. N + 1, TurnsTaken(moves', threatRecord', n)
      PROVE  \A c \in Color : ~HasRow(Upto(moves', n), c)
  <2>1. CASE n = N + 1
    BY <1>4, <1>6, <1>t, <2>1, ThreatIsExact
  <2>2. CASE n # N + 1
    <3>1. n \in 0 .. N
      BY <1>2, <2>2
    <3> QED BY <1>2, <1>6, <1>t, <3>1 DEF LevelOne
  <2> QED BY <2>1, <2>2
<1>7. ASSUME NEW n \in 1 .. (N + 1) - 1
      PROVE  /\ OnFree(Upto(moves', n), threatRecord'[n + 1])
             /\ TurnsTaken(moves', threatRecord', n) =>
                  Settled(Upto(moves', n), moves'[n].color, threatRecord'[n + 1])
  <2>1. n \in 1 .. N /\ n \in 0 .. N /\ (n = N \/ (n \in 1 .. N - 1 /\ n + 1 \in 1 .. N))
    BY <1>2
  <2>2. Upto(moves', n) = Upto(moves, n) /\ moves'[n] = moves[n]
        /\ (TurnsTaken(moves', threatRecord', n) <=> TurnsTaken(moves, threatRecord, n))
    BY <1>2, <1>t, <2>1
  <2>3. CASE n \in 1 .. N - 1 /\ n + 1 \in 1 .. N
    <3>1. threatRecord'[n + 1] = threatRecord[n + 1]
      BY <1>2, <1>3, <2>3
    <3> QED BY <2>2, <2>3, <3>1 DEF LevelOne
  <2>4. CASE n = N
    <3>1. threatRecord'[n + 1] = threat /\ OnFree(board, threat)
      BY <1>3, <2>4 DEF LevelOne
    <3>2. TurnsTaken(moves, threatRecord, N) => Settled(board, LastColor, threat)
      BY <1>1, <1>2, <2>1, <2>4 DEF LevelOne
    <3> QED BY <1>1, <2>2, <2>4, <3>1, <3>2 DEF LastColor
  <2> QED BY <2>1, <2>3, <2>4
<1>8. ASSUME TurnsTaken(moves', threatRecord', N + 1)
      PROVE  /\ WinningPoints(board', AgainstColor(LastColor')) = {}
             /\ winner' = IF Cardinality(WinningPoints(board', LastColor')) > 1
                          THEN LastColor' ELSE "none"
             /\ winner' = "none" => Settled(board', LastColor', threat')
  BY <1>4, <1>8, <1>t, ThreatIsExact
<1>9. threat' \in Threats /\ OnFree(board', threat')
  BY FoundIsFree
<1> QED BY <1>2, <1>3, <1>5, <1>6, <1>7, <1>8, <1>9 DEF LevelOne

LEMMA UndoOne ==
  ASSUME Played, level = 1, LevelOne, Undo
  PROVE  Played' /\ LevelOne'
<1> DEFINE N == Len(moves)
<1>1. /\ winner' = "none" /\ moves # <<>>
      /\ threat' = Last(threatRecord) /\ threatRecord' = Front(threatRecord)
      /\ threatRecord \in Seq(Threats) /\ Len(threatRecord) = N
  BY DEF Undo, undoThreat, LevelOne
<1>2. /\ Played' /\ N \in Nat \ {0} /\ Len(moves') = N - 1
      /\ \A i \in 1 .. N - 1 : moves'[i] = moves[i]
      /\ \A n \in 0 .. N - 1 : Upto(moves', n) = Upto(moves, n)
      /\ board' = Upto(moves, N - 1)
      /\ turn' = moves[N].color
  BY UndoBoard
<1>3. /\ threatRecord' \in Seq(Threats) /\ Len(threatRecord') = N - 1
      /\ \A i \in 1 .. N - 1 : threatRecord'[i] = threatRecord[i]
      /\ threat' = threatRecord[N] /\ threat' \in Threats
  <2>1. threatRecord # <<>>
    BY <1>1, <1>2
  <2>2. threatRecord[N] \in Threats
    BY <1>1, <1>2
  <2> QED BY <1>1, <2>1, <2>2, FrontIs DEF Last
<1>4. IF Len(moves') = 0 THEN threat' = NoThreat ELSE threatRecord'[1] = NoThreat
  <2>1. threatRecord[1] = NoThreat
    BY <1>2 DEF LevelOne
  <2>2. CASE N = 1
    BY <1>2, <1>3, <2>1, <2>2
  <2>3. CASE N # 1
    <3>1. 1 \in 1 .. N - 1
      BY <1>2, <2>3
    <3> QED BY <1>2, <1>3, <2>1, <2>3, <3>1
  <2> QED BY <2>2, <2>3
<1>t. \A n \in 0 .. N - 1 : TurnsTaken(moves', threatRecord', n) <=> TurnsTaken(moves, threatRecord, n)
  <2> SUFFICES ASSUME NEW n \in 0 .. N - 1
               PROVE  TurnsTaken(moves', threatRecord', n) <=> TurnsTaken(moves, threatRecord, n)
    OBVIOUS
  <2>1. \A i \in 2 .. n : i \in 1 .. N - 1 /\ i - 1 \in 1 .. N - 1
    BY <1>2
  <2>2. \A i \in 2 .. n : /\ moves'[i] = moves[i] /\ moves'[i - 1] = moves[i - 1]
                          /\ threatRecord'[i] = threatRecord[i]
    BY <1>2, <1>3, <2>1
  <2> QED BY <2>2 DEF TurnsTaken
<1>5. \A n \in 0 .. N - 1 : TurnsTaken(moves', threatRecord', n) =>
        \A c \in Color : ~HasRow(Upto(moves', n), c)
  <2>1. \A n \in 0 .. N - 1 : n \in 0 .. N
    BY <1>2
  <2> QED BY <1>2, <1>t, <2>1 DEF LevelOne
<1>6. ASSUME NEW n \in 1 .. (N - 1) - 1
      PROVE  /\ OnFree(Upto(moves', n), threatRecord'[n + 1])
             /\ TurnsTaken(moves', threatRecord', n) =>
                  Settled(Upto(moves', n), moves'[n].color, threatRecord'[n + 1])
  <2>1. n \in 0 .. N - 1 /\ n \in 1 .. N - 1 /\ n + 1 \in 1 .. N - 1
    BY <1>2
  <2>2. /\ OnFree(Upto(moves, n), threatRecord[n + 1])
        /\ TurnsTaken(moves, threatRecord, n) =>
             Settled(Upto(moves, n), moves[n].color, threatRecord[n + 1])
    BY <2>1 DEF LevelOne
  <2> QED BY <1>2, <1>3, <1>t, <2>1, <2>2
<1>7. ASSUME Len(moves') > 0
      PROVE  /\ OnFree(board', threat')
             /\ TurnsTaken(moves', threatRecord', N - 1) => Settled(board', LastColor', threat')
  <2>1. N - 1 \in 1 .. N - 1 /\ N - 1 \in 0 .. N - 1 /\ (N - 1) + 1 = N
    BY <1>2, <1>7
  <2>2. /\ OnFree(Upto(moves, N - 1), threatRecord[N])
        /\ TurnsTaken(moves, threatRecord, N - 1) =>
             Settled(Upto(moves, N - 1), moves[N - 1].color, threatRecord[N])
    BY <2>1 DEF LevelOne
  <2>3. LastColor' = moves[N - 1].color
    BY <1>2, <2>1 DEF LastColor
  <2> QED BY <1>2, <1>3, <1>t, <2>1, <2>2, <2>3
<1>8. ASSUME Len(moves') > 0, TurnsTaken(moves', threatRecord', N - 1)
      PROVE  ~(Cardinality(WinningPoints(board', LastColor')) > 1)
  <2>1. WinningPoints(board', LastColor') = {threat'} \ {NoThreat}
    BY <1>7, <1>8 DEF Settled
  <2> DEFINE S == WinningPoints(board', LastColor')
  <2>2. S \subseteq Pos
    BY DEF WinningPoints
  <2>3. \A x, y \in S : x = y
    BY <2>1
  <2> HIDE DEF S
  <2>4. ~(Cardinality(S) > 1)
    BY <2>2, <2>3, FewPoints
  <2> QED BY <2>4 DEF S
<1>9. OnFree(board', threat')
  <2>1. CASE Len(moves') > 0
    BY <1>7, <2>1
  <2>2. CASE ~(Len(moves') > 0)
    BY <1>2, <1>4, <2>2 DEF OnFree
  <2> QED BY <2>1, <2>2
<1> QED BY <1>1, <1>2, <1>3, <1>4, <1>5, <1>6, <1>7, <1>8, <1>9 DEF LevelOne, Settled

-----------------------------------------------------------------------------
(* The theorems *)

IInv == /\ level \in {0, 1}
        /\ Played
        /\ IF level = 0 THEN LevelZero ELSE LevelOne

LEMMA FreshInv ==
  ASSUME board = [p \in Pos |-> "none"], turn = "black", moves = <<>>, threatRecord = <<>>,
         hashKey = {}, threat = NoThreat, winner = "none"
  PROVE  Played /\ LevelZero /\ LevelOne
<1>1. Len(moves) = 0 /\ \A n \in 0 .. Len(moves) : n = 0
  BY EmptySeq
<1>2. Played /\ \A c \in Color : ~HasRow(board, c)
  BY <1>1, FreshBoard DEF Played, Color
<1>3. LevelZero
  BY <1>1, <1>2 DEF LevelZero, Stones, Color
<1>4. \A n \in 0 .. Len(moves) : \A c \in Color : ~HasRow(Upto(moves, n), c)
  BY <1>1, NothingOnEmpty
<1>5. threatRecord \in Seq(Threats) /\ threat \in Threats
  BY EmptySeq DEF Threats
<1>6. Len(threatRecord) = 0
  BY EmptySeq
<1>7. LevelOne
  BY <1>1, <1>4, <1>5, <1>6 DEF LevelOne, OnFree
<1> QED BY <1>2, <1>3, <1>7

LEMMA InitInv == Init => IInv
BY FreshInv DEF Init, IInv

LEMMA ResetInv ==
  ASSUME IInv, Reset
  PROVE  IInv'
<1>1. (/\ board = [p \in Pos |-> "none"] /\ turn = "black" /\ moves = <<>>
       /\ threatRecord = <<>> /\ hashKey = {} /\ threat = NoThreat /\ winner = "none")'
  BY DEF Reset
<1>2. (Played /\ LevelZero /\ LevelOne)'
  BY <1>1, FreshInv, PTL
<1> QED BY <1>2 DEF Reset, IInv

LEMMA PassInv ==
  ASSUME IInv, PlayPass
  PROVE  IInv'
<1>1. /\ turn' \in Color
      /\ UNCHANGED <<level, board, moves, hashKey, threat, threatRecord, winner>>
  BY ColorIs DEF PlayPass, IInv, Played
<1>2. Played' /\ LastColor' = LastColor /\ moves' = moves /\ threatRecord' = threatRecord
  BY <1>1 DEF IInv, Played, LastColor
<1>3. LevelZero => LevelZero'
  BY <1>1 DEF LevelZero
<1>4. ASSUME LevelOne  PROVE LevelOne'
  BY <1>1, <1>2, <1>4 DEF LevelOne, Settled
<1> QED BY <1>1, <1>2, <1>3, <1>4 DEF IInv

LEMMA NextInv ==
  ASSUME IInv, [Next]_vars
  PROVE  IInv'
<1>1. ASSUME NEW p \in Pos, Play(p)  PROVE IInv'
  <2>1. level' = level
    BY <1>1 DEF Play
  <2> QED BY <1>1, <2>1, PlayZero, PlayOne DEF IInv
<1>2. CASE Undo
  <2>1. level' = level
    BY <1>2 DEF Undo
  <2> QED BY <1>2, <2>1, UndoZero, UndoOne DEF IInv
<1>3. CASE UNCHANGED vars
  <2>1. Played' /\ LevelZero' = LevelZero /\ LevelOne' = LevelOne /\ level' = level
    BY <1>3 DEF vars, IInv, Played, LevelZero, LevelOne, LastColor
  <2> QED BY <2>1 DEF IInv
<1> QED BY <1>1, <1>2, <1>3, PassInv, ResetInv DEF Next

\* The inductive invariant: board and key are those of the moves, level 0 has
\* a winner only by a row, level 1 is settled at every move as long as threats
\* are answered.
THEOREM Invariance == Spec => []IInv
<1>1. IInv /\ [Next]_vars => IInv'
  BY NextInv
<1> QED BY <1>1, InitInv, PTL DEF Spec

\* Play, pass, undo and reset keep board, key, moves and recorded threats
\* together, at both levels.
THEOREM UndoIsExact == Spec => []Consistent
<1>1. IInv => Consistent
  <2> SUFFICES ASSUME IInv  PROVE Consistent
    OBVIOUS
  <2>1. Played /\ moves \in Seq(MoveSet) /\ Len(moves) \in Nat /\ DOMAIN moves = 1 .. Len(moves)
    BY DEF IInv, Played, Game
  <2>2. board = BoardAfter(moves)
    BY <2>1 DEF Played, Upto, BoardAfter
  <2>3. hashKey = {<<m.pos, m.color>> : m \in ToSet(moves)}
    BY <2>1 DEF Played, KeyOf, ToSet
  <2>4. ASSUME level = 1, NEW i \in 2 .. Len(moves), TurnsTaken(moves, threatRecord, i - 1)
        PROVE  WinningPoints(BoardAfter(SubSeq(moves, 1, i - 1)), moves[i - 1].color)
                 = IF threatRecord[i] = NoThreat THEN {} ELSE {threatRecord[i]}
    <3> DEFINE s == SubSeq(moves, 1, i - 1)
    <3>1. i - 1 \in 1 .. Len(moves) - 1 /\ (i - 1) + 1 = i
      BY <2>1
    <3>2. DOMAIN s = 1 .. i - 1 /\ \A k \in 1 .. i - 1 : s[k] = moves[k]
      BY <2>1, <3>1
    <3> HIDE DEF s
    <3>3. BoardAfter(s) = Upto(s, i - 1)
      BY <3>2 DEF BoardAfter, Upto
    <3>4. Upto(s, i - 1) = Upto(moves, i - 1)
      BY <3>1, <3>2, SameBoard
    <3>5. WinningPoints(Upto(moves, i - 1), moves[i - 1].color) = {threatRecord[i]} \ {NoThreat}
      <4>1. LevelOne
        BY <2>4 DEF IInv
      <4>2. Settled(Upto(moves, i - 1), moves[i - 1].color, threatRecord[(i - 1) + 1])
        BY <2>4, <3>1, <4>1 DEF LevelOne
      <4> QED BY <3>1, <4>2 DEF Settled
    <3> QED BY <3>3, <3>4, <3>5 DEF s
  <2>5. level \in {0, 1} /\ turn \in Color
    BY DEF IInv, Played
  <2>6. CASE level = 0
    BY <2>2, <2>3, <2>5, <2>6 DEF Consistent, IInv, LevelZero
  <2>7. CASE level = 1
    <3>1. Len(threatRecord) = Len(moves)
      BY <2>7 DEF IInv, LevelOne
    <3>2. \A i \in 2 .. Len(moves) : TurnsTaken(moves, threatRecord, i - 1) =>
            LET points == WinningPoints(BoardAfter(SubSeq(moves, 1, i - 1)),
                                        moves[i - 1].color)
            IN  points = IF threatRecord[i] = NoThreat THEN {} ELSE {threatRecord[i]}
      BY <2>4, <2>7, Zenon
    <3>3. level # 0
      BY <2>7
    <3> QED BY <2>2, <2>3, <2>5, <3>1, <3>2, <3>3, Zenon DEF Consistent
  <2> QED BY <2>5, <2>6, <2>7
<1> QED BY <1>1, Invariance, PTL

\* Only lines through the last stone are looked at, and the verdict is that of
\* the whole board: at level 0 the winner is who has a row; at level 1 the
\* demanded answer is the only point that does not lose, and the winner who
\* has two such points while the opponent has none, unless a pass left an earlier
\* threat standing.
THEOREM VerdictsTrue == Spec => []VerdictsAreTrue
<1>1. IInv => VerdictsAreTrue
  <2> SUFFICES ASSUME IInv  PROVE VerdictsAreTrue
    OBVIOUS
  <2>1. CASE level = 0
    BY <2>1 DEF IInv, LevelZero, VerdictsAreTrue
  <2>2. ASSUME level # 0, moves # <<>>, TurnsTaken(moves, threatRecord, Len(moves))
        PROVE  LET c == Last(moves).color
                   points == WinningPoints(board, c)
               IN  /\ WinningPoints(board, AgainstColor(c)) = {}
                   /\ \A d \in Color : ~HasRow(board, d)
                   /\ winner = IF Cardinality(points) > 1 THEN c ELSE "none"
                   /\ winner = "none" => points = {threat} \ {NoThreat}
    <3>1. LevelOne /\ Len(moves) \in Nat /\ Len(moves) > 0 /\ board = Upto(moves, Len(moves))
      BY <2>2 DEF IInv, Played, Game
    <3>2. Last(moves).color = LastColor
      BY DEF Last, LastColor
    <3>3. \A d \in Color : ~HasRow(board, d)
      BY <2>2, <3>1 DEF LevelOne
    <3> QED BY <2>2, <3>1, <3>2, <3>3 DEF LevelOne, Settled
  <2> QED BY <2>1, <2>2 DEF VerdictsAreTrue
<1> QED BY <1>1, Invariance, PTL

=============================================================================
