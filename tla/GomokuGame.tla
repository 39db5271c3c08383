------------------------------ MODULE GomokuGame ------------------------------
(***************************************************************************)
(* The Gomoku game: WinLength stones in a row win.  With knowledge level 1 *)
(* a row that lacks one stone is a threat the other player must answer,    *)
(* and a second threat wins at once.                                       *)
(*                                                                         *)
(* Builds with assertions, the default, stop at a move in an ended game:   *)
(* no move is made there.  The players take turns, with passes.            *)
(***************************************************************************)
EXTENDS GoBoard, SequencesExt, FiniteSetsExt

CONSTANTS WinLength,   \* 5 in the code
          MaxMoves,    \* MaxMoves[level]: bound on the moves of a game
          FirstPos     \* bound: where the first stone goes, up to symmetry

ASSUME GomokuAssumption ==
  /\ WinLength \in Nat \ {0, 1}
  /\ MaxMoves \in [0 .. 1 -> Nat]
  /\ FirstPos \subseteq Pos

VARIABLES level,         \* GOMOKU_KNOWLEDGE_LEVEL
          board,         \* m_vBoard
          turn,          \* m_turnColor
          moves,         \* m_vMoves
          hashKey,       \* m_hashKey: the set of the stones' random numbers
          threat,        \* m_currentThreat
          threatRecord,  \* m_threatRecord
          winner         \* m_winner
vars == <<level, board, turn, moves, hashKey, threat, threatRecord, winner>>

NoThreat == -1
Directions == <<<<0, 1>>, <<1, 0>>, <<1, 1>>, <<-1, 1>>>>

Init ==
  /\ level \in {0, 1}
  /\ board = [p \in Pos |-> "none"]
  /\ turn = "black"
  /\ moves = <<>> /\ threatRecord = <<>>
  /\ hashKey = {}
  /\ threat = NoThreat
  /\ winner = "none"

\* reset()
Reset ==
  /\ board' = [p \in Pos |-> "none"]
  /\ turn' = "black"
  /\ moves' = <<>> /\ threatRecord' = <<>>
  /\ hashKey' = {}
  /\ threat' = NoThreat
  /\ winner' = "none"
  /\ UNCHANGED level

\* The k-th point from p in direction d, and what is there.
Step(p, d, k) == (Y(p) + k * d[1]) * BoardSize + X(p) + k * d[2]
Stone(b, p, d, k) ==
  IF Y(p) + k * d[1] \in 0 .. BoardSize - 1 /\ X(p) + k * d[2] \in 0 .. BoardSize - 1
  THEN b[Step(p, d, k)] ELSE "outside"

-------------------------------------------------------------------------------
(* Level 0: the row through the last stone.                                *)

RowLength(b, p, d) ==
  Cardinality({k \in 0 .. WinLength - 1 : \A m \in 0 .. k : Stone(b, p, d, m) = b[p]})
  + Cardinality({k \in 1 .. WinLength - 1 : \A m \in 1 .. k : Stone(b, p, d, -m) = b[p]})

updateConnection(b, p) ==
  /\ winner' = IF \E i \in DOMAIN Directions : RowLength(b, p, Directions[i]) >= WinLength
               THEN b[p] ELSE winner
  /\ UNCHANGED <<threat, threatRecord>>

-------------------------------------------------------------------------------
(* Level 1: the segments of WinLength points near the last stone.          *)

\* Mutant of Start: only segments that begin with the last stone.
StartHere(b, p, d) == 0

\* Where the opponent's stones and the edge let the segments begin.
Start(b, p, d) ==
  -Cardinality({k \in 1 .. WinLength - 1 :
     \A m \in 1 .. k : Stone(b, p, d, -m) \in {b[p], "none"}})

\* The beginnings of the segments that have no other colour up to their end.
Segments(b, p, d) ==
  {s \in Start(b, p, d) .. Start(b, p, d) + WinLength - 1 :
     \A m \in Start(b, p, d) .. s + WinLength - 1 : Stone(b, p, d, m) \in {b[p], "none"}}

Gaps(b, p, d, s) == {m \in s .. s + WinLength - 1 : Stone(b, p, d, m) = "none"}

\* The missing points of the segments that lack one.
LineThreats(b, p, d) ==
  LET lacking == {s \in Segments(b, p, d) : Cardinality(Gaps(b, p, d, s)) = 1}
  IN  {Step(p, d, m) : m \in UNION {Gaps(b, p, d, s) : s \in lacking}}

\* A threat is the one found first; once there is another it is not read any
\* more, and any of them will do.
updateThreat(b, p) ==
  LET found == UNION {LineThreats(b, p, d) : d \in ToSet(Directions)}
  IN  /\ threatRecord' = Append(threatRecord, threat)
      /\ IF found = {} THEN threat' = NoThreat ELSE threat' \in found
      /\ winner' = IF Cardinality(found) > 1 THEN b[p] ELSE winner

-------------------------------------------------------------------------------
(* The operations.                                                         *)

isLegalMove(p) == IF threat # NoThreat THEN p = threat ELSE board[p] = "none"

isTerminal == winner # "none" \/ \A p \in Pos : board[p] # "none"

Play(p) ==
  /\ isLegalMove(p)
  /\ ~isTerminal
  /\ Len(moves) < MaxMoves[level] /\ (moves = <<>> => p \in FirstPos)
  /\ board' = [board EXCEPT ![p] = turn]
  /\ moves' = Append(moves, [color |-> turn, pos |-> p])
  /\ hashKey' = hashKey \cup {<<p, turn>>}
  /\ turn' = AgainstColor(turn)
  /\ IF level = 0 THEN updateConnection(board', p) ELSE updateThreat(board', p)
  /\ UNCHANGED level

\* A pass is not recorded.  Nothing in play looks at the rules: a pass may leave
\* a threat standing, and the same player moves again.
PlayPass ==
  /\ turn' = AgainstColor(turn)
  /\ UNCHANGED <<level, board, moves, hashKey, threat, threatRecord, winner>>

\* Mutant of Undo's threat: it is forgotten instead of restored.
ForgetThreat == threat' = NoThreat /\ threatRecord' = Front(threatRecord)

undoThreat == threat' = Last(threatRecord) /\ threatRecord' = Front(threatRecord)

Undo ==
  /\ moves # <<>>
  /\ LET m == Last(moves) IN
       /\ board' = [board EXCEPT ![m.pos] = "none"]
       /\ hashKey' = hashKey \ {<<m.pos, m.color>>}
       /\ turn' = m.color
  /\ moves' = Front(moves)
  /\ winner' = "none"
  /\ IF level = 0 THEN UNCHANGED <<threat, threatRecord>> ELSE undoThreat
  /\ UNCHANGED level

Next == (\E p \in Pos : Play(p)) \/ PlayPass \/ Undo \/ Reset

Spec == Init /\ [][Next]_vars

-------------------------------------------------------------------------------
(* Properties, against all rows of the board.                              *)

RowFrom(p, d) == {Step(p, d, k) : k \in 0 .. WinLength - 1}
Row == UNION {{RowFrom(p, d) : p \in {q \in Pos :
                 /\ Y(q) + (WinLength - 1) * d[1] \in 0 .. BoardSize - 1
                 /\ X(q) + (WinLength - 1) * d[2] \in 0 .. BoardSize - 1}} :
                   d \in ToSet(Directions)}

HasRow(b, c) == \E S \in Row : \A p \in S : b[p] = c

\* The points where one more stone of c makes a row.
WinningPoints(b, c) ==
  {p \in Pos : b[p] = "none" /\ \E S \in Row : p \in S /\ \A q \in S \ {p} : b[q] = c}

BoardAfter(line) ==
  [p \in Pos |-> IF \E i \in DOMAIN line : line[i].pos = p
                 THEN line[CHOOSE i \in DOMAIN line : line[i].pos = p].color
                 ELSE "none"]

\* No threat was left standing by a pass: the first n moves of a line answer all
\* threats on record.
TurnsTaken(line, record, n) ==
  \A i \in 2 .. n : record[i] # NoThreat => line[i].color # line[i - 1].color

\* Undo takes back all that play did: stones, key and recorded threats are
\* those of the moves that are left.  A threat is only exact as long as those
\* before it were answered.
Consistent ==
  /\ level \in {0, 1} /\ turn \in Color
  /\ board = BoardAfter(moves)
  /\ hashKey = {<<m.pos, m.color>> : m \in ToSet(moves)}
  /\ level = 0 => threatRecord = <<>> /\ threat = NoThreat
  /\ level = 1 =>
       /\ Len(threatRecord) = Len(moves)
       /\ \A i \in 2 .. Len(moves) : TurnsTaken(moves, threatRecord, i - 1) =>
            LET points == WinningPoints(BoardAfter(SubSeq(moves, 1, i - 1)),
                                        moves[i - 1].color)
            IN  points = IF threatRecord[i] = NoThreat THEN {} ELSE {threatRecord[i]}

\* Verdicts are true on the whole board although only lines through the last
\* stone are looked at: level 0 finds a row exactly when there is one; level 1
\* demands the only answer that does not lose, and calls a winner exactly if
\* two points win and the opponent has none to play first - unless a pass left
\* a threat standing: the row that is then completed is not seen at level 1.
VerdictsAreTrue ==
  IF level = 0
  THEN \A c \in Color : winner = c <=> HasRow(board, c)
  ELSE moves # <<>> /\ TurnsTaken(moves, threatRecord, Len(moves)) =>
         LET c == Last(moves).color
             points == WinningPoints(board, c)
         IN  /\ WinningPoints(board, AgainstColor(c)) = {}
             /\ \A d \in Color : ~HasRow(board, d)
             /\ winner = IF Cardinality(points) > 1 THEN c ELSE "none"
             /\ winner = "none" => points = {threat} \ {NoThreat}

===============================================================================
