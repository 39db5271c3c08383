-------------------------------- MODULE GoGame --------------------------------
(***************************************************************************)
(* The Go game the solvers play and undo on: stones, blocks with their     *)
(* liberties and hash keys, kept up to date move by move.                  *)
(*                                                                         *)
(* A hash key is the set of the random numbers XORed into it: a stone      *)
(* <<p, c>> or the turn.  A free block index holds NoStones.  The tokens   *)
(* of conf are the configuration of one process.                           *)
(***************************************************************************)
EXTENDS BensonLife, SequencesExt, GoHashTable

CONSTANTS Configs   \* the configurations: records, see ConfigAssumption

ASSUME ConfigAssumption ==
  \A c \in Configs :
       /\ c.situational \in BOOLEAN    \* GO_SUPER_KO_RULE
       /\ c.ownTrueEye \in BOOLEAN     \* GO_FORBIDDEN_OWN_TRUE_EYE
       /\ c.eatKo \subseteq Color      \* GO_..._FORBIDDEN_EAT_KO
       /\ c.force \in Seq(Pos \cup {Pass})   \* GO_EXTRA_FORCE_MOVE
       /\ c.asserts \in BOOLEAN        \* a build without NDEBUG
       /\ c.outOfTurn \in BOOLEAN      \* GTP's play may name either colour
       /\ c.maxMoves \in Nat           \* bound: moves after the forced ones

VARIABLES conf,
          board,      \* grids, blocks, m_stoneBitBoard and m_hashKey
          turn,       \* m_turnColor
          moves,      \* m_vMoves
          history,    \* m_vStoneBitBoard
          hashes,     \* m_vHash
          hashTable,  \* m_hashTable
          benson      \* m_bmBenson
vars == <<conf, board, turn, moves, history, hashes, hashTable, benson>>

Move(c, p) == [color |-> c, pos |-> p]
NoBlock == -1
NoStones == [color |-> "none", grids |-> {}, liberties |-> {}, hashKey |-> {}]
NoLife == [c \in Color |-> {}]

Xor(S, T) == (S \ T) \cup (T \ S)
HashOf(c, P) == {<<p, c>> : p \in P}
TurnHashkey == IF conf.situational THEN {<<Pass, "turn">>} ELSE {}

EmptyBoard ==
  [color |-> [p \in Pos |-> "none"], stones |-> [c \in Color |-> {}],
   owner |-> [p \in Pos |-> NoBlock], block |-> [i \in Pos |-> NoStones],
   usage |-> Pos, hashKey |-> {}]

Init ==
  /\ conf \in Configs
  /\ board = EmptyBoard
  /\ turn = "black"
  /\ moves = <<>> /\ history = <<>> /\ hashes = <<>>
  /\ hashTable = Cleared
  /\ benson = NoLife

\* reset(): as constructed.
Reset ==
  /\ board' = EmptyBoard
  /\ turn' = "black"
  /\ moves' = <<>> /\ history' = <<>> /\ hashes' = <<>>
  /\ hashTable' = Cleared
  /\ benson' = NoLife
  /\ UNCHANGED conf

-------------------------------------------------------------------------------
(* The board's helpers: each returns the board it leaves.                  *)

SetColor(b, c, P) ==
  [b EXCEPT !.color = [p \in Pos |-> IF p \in P THEN c ELSE @[p]],
            !.stones = [d \in Color |-> CASE d = c -> @[d] \cup P
                                          [] c = "none" -> @[d] \ P
                                          [] OTHER -> @[d]],
            !.owner = [p \in Pos |-> IF p \in P /\ c = "none" THEN NoBlock ELSE @[p]]]

\* The lowest free index.
NewBlock(b) == Min(b.usage)
Allocate(b, c) == [b EXCEPT !.block[NewBlock(b)].color = c, !.usage = @ \ {NewBlock(b)}]

RemoveBlock(b, i) == [b EXCEPT !.block[i] = NoStones, !.usage = @ \cup {i}]

\* The removed stones become liberties of their neighbours of the other colour.
RemoveBlockAndGrids(b, i) ==
  LET gone == b.block[i].grids
      opp == AgainstColor(b.block[i].color)
      Freed(B) == [B EXCEPT !.liberties = @ \cup (gone \cap Dilation(B.grids))]
  IN  RemoveBlock([SetColor(b, "none", gone) EXCEPT
                     !.block = [j \in Pos |-> IF @[j].color = opp
                                              THEN Freed(@[j]) ELSE @[j]]], i)

AddGridsAndLiberties(b, i, P, L) ==
  LET c == b.block[i].color
  IN  [SetColor(b, c, P) EXCEPT
         !.owner = [p \in Pos |-> IF p \in P THEN i ELSE @[p]],
         !.block[i].grids = @ \cup P,
         !.block[i].liberties = @ \cup L,
         !.block[i].hashKey = Xor(@, HashOf(c, P))]

\* GoBlock's combine, removeGridOnBoundary and removeGrids.
Combined(B, C) ==
  [B EXCEPT !.grids = @ \cup C.grids, !.liberties = @ \cup C.liberties,
            !.hashKey = Xor(@, C.hashKey)]

WithoutGrid(B, p) ==
  LET rest == B.grids \ {p}
  IN  [B EXCEPT !.grids = rest, !.liberties = (@ \cap Dilation(rest)) \cup {p},
                !.hashKey = Xor(@, HashOf(B.color, {p}))]

WithoutGrids(B, P) ==
  [B EXCEPT !.grids = @ \ P, !.hashKey = Xor(@, HashOf(B.color, P))]

\* The larger block takes in the other, the first one if they are equal.
CombineBlocks(b, i, j) ==
  LET larger == Cardinality(b.block[i].grids) >= Cardinality(b.block[j].grids)
      to == IF larger THEN i ELSE j
      from == IF larger THEN j ELSE i
  IN  RemoveBlock(
        [b EXCEPT !.block[to] = Combined(@, b.block[from]),
                  !.owner = [p \in Pos |-> IF @[p] = from THEN to ELSE @[p]]],
        from)

-------------------------------------------------------------------------------
(* play and undo, on the board.                                            *)

Around(p) == ToSet(Neighbors[p])
Owners(b, p, c) == {b.owner[q] : q \in {r \in Around(p) : b.color[r] = c}}

\* A stone joins the blocks of its colour around it, in the neighbours' order.
Join(b, c, p) ==
  LET free == {q \in Around(p) : b.color[q] = "none"}
      own == SelectSeq(Neighbors[p], LAMBDA q : b.color[q] = c)
      Merge(x, q) == IF x.owner[q] = x.owner[p] THEN x
                     ELSE CombineBlocks(x, x.owner[p], x.owner[q])
      joined == FoldLeft(Merge, AddGridsAndLiberties(b, b.owner[own[1]], {p}, free), own)
  IN  IF own = <<>> THEN AddGridsAndLiberties(Allocate(b, c), NewBlock(b), {p}, free)
      ELSE [joined EXCEPT !.block[joined.owner[p]].liberties = @ \ {p}]

\* Mutant of Press: a block without liberties stays.
PressOnly(b, i, p) == [b EXCEPT !.block[i].liberties = @ \ {p}]

\* Block i loses the liberty p, and its life with the last one.
Press(b, i, p) ==
  LET pressed == [b EXCEPT !.block[i].liberties = @ \ {p}]
  IN  IF pressed.block[i].liberties # {} THEN pressed
      ELSE [RemoveBlockAndGrids(pressed, i) EXCEPT
              !.hashKey = Xor(@, b.block[i].hashKey)]

Placed(b, c, p) ==
  LET stone == [SetColor(b, c, {p}) EXCEPT !.hashKey = Xor(@, HashOf(c, {p}))]
  IN  FoldSet(LAMBDA i, x : Press(x, i, p), Join(stone, c, p),
              Owners(b, p, AgainstColor(c)))

\* The eaten stones come back, block by block, and are no liberties any more.
Revived(b, c, p, eaten) ==
  LET Revive(x, q) ==
        LET group == Floodfill(eaten, q)
            i == NewBlock(x)
            y == AddGridsAndLiberties(Allocate(x, AgainstColor(c)), i, group, {p})
        IN  IF x.owner[q] # NoBlock THEN x
            ELSE [y EXCEPT !.hashKey = Xor(@, y.block[i].hashKey)]
      boundary == {b.owner[q] : q \in Dilation(eaten) \ (eaten \cup {p})}
      revived == FoldLeft(Revive, b, SetToSortSeq(eaten, <))
  IN  [revived EXCEPT !.block =
         [i \in Pos |-> IF i \notin boundary THEN @[i]
                        ELSE [@[i] EXCEPT !.liberties = @ \ eaten]]]

\* q's part of its block without p: the rest of the block, or a new block.
Parted(b, c, p, q) ==
  LET i == b.owner[q]
      B == b.block[i]
      part == Floodfill(B.grids \ {p}, q)
      split == AddGridsAndLiberties(Allocate(b, c), NewBlock(b), part,
                                    (Dilation(part) \cap B.liberties) \cup {p})
  IN  IF part = B.grids \ {p} THEN [b EXCEPT !.block[i] = WithoutGrid(@, p)]
      ELSE [split EXCEPT !.block[i] = WithoutGrids(@, part)]

\* The blocks around p lose the stone or win the liberty p; a lone stone's
\* block is removed.
Released(b, c, p) ==
  LET Release(acc, q) ==
        CASE acc.b.color[q] = c /\ q \in acc.seen -> acc
          [] acc.b.color[q] = c /\ q \notin acc.seen ->
               [b |-> Parted(acc.b, c, p, q),
                seen |-> acc.seen \cup
                           Floodfill(acc.b.block[acc.b.owner[q]].grids \ {p}, q)]
          [] acc.b.color[q] = AgainstColor(c) ->
               [acc EXCEPT !.b.block[acc.b.owner[q]].liberties = @ \cup {p}]
          [] OTHER -> acc
      end == FoldLeft(Release, [b |-> b, seen |-> {}], Neighbors[p])
  IN  IF end.seen = {} THEN RemoveBlock(end.b, end.b.owner[p]) ELSE end.b

Unplaced(b, c, p, eaten) ==
  LET lifted == [b EXCEPT !.hashKey = Xor(@, HashOf(c, {p}))]
  IN  SetColor(Released(Revived(lifted, c, p, eaten), c, p), "none", {p})

-------------------------------------------------------------------------------
(* Legal moves.                                                            *)

isOwnTrueEye(c, p) ==
  LET corners == EyeCorners[p]
  IN  /\ Around(p) \subseteq board.stones[c]
      /\ \/ Cardinality(corners) = 4 /\ Cardinality(corners \cap board.stones[c]) >= 3
         \/ corners \subseteq board.stones[c]

\* Takes one stone in atari, and no block, from within the opponent's stones.
isEatKoMove(c, p) ==
  LET inAtari == {q \in Around(p) :
                    Cardinality(board.block[board.owner[q]].liberties) = 1}
  IN  /\ \A q \in Around(p) : board.color[q] = AgainstColor(c)
      /\ Cardinality(inAtari) = 1
      /\ \A q \in inAtari : Cardinality(board.block[board.owner[q]].grids) = 1

Forbidden(c, p) ==
  \/ conf.ownTrueEye /\ isOwnTrueEye(c, p)
  \/ c \in conf.eatKo /\ isEatKoMove(c, p)

LibertyCount(i) == Cardinality(board.block[i].liberties)

\* The opponent's blocks a stone on p would capture.
Captured(c, p) == {i \in Owners(board, p, AgainstColor(c)) : LibertyCount(i) = 1}

\* Mutant of KeyAfter: the captured stones stay in the key.
KeyWithCaptured(c, p) ==
  Xor(HashOf(c, {p}), Xor(board.hashKey, TurnHashkey))

\* The key of the position after the stone, computed beforehand.
KeyAfter(c, p) ==
  Xor(Xor(UNION {board.block[i].hashKey : i \in Captured(c, p)}, HashOf(c, {p})),
      Xor(board.hashKey, TurnHashkey))

isLegalStone(c, p) ==
  /\ board.color[p] = "none"
  /\ \/ \E q \in Around(p) : board.color[q] = "none"
     \/ \E i \in Owners(board, p, c) : LibertyCount(i) > 1
     \/ Captured(c, p) # {}
  /\ ~Forbidden(c, p)
  /\ ~lookup(hashTable, KeyAfter(c, p))

\* A forced move is the only legal one, and legal whatever the board.
Forced == Len(moves) + 1 \in DOMAIN conf.force

isLegalMove(c, p) ==
  IF Forced THEN p = conf.force[Len(moves) + 1]
  ELSE p # Pass => isLegalStone(c, p)

TwoPasses ==
  /\ Len(moves) >= 2
  /\ \A i \in Len(moves) - 1 .. Len(moves) : moves[i].pos = Pass

AllLife == [c \in Color |-> BensonLife(board, c)]

\* isTerminal() once AllLife is computed: white lives, or nobody can or will move.
Ended ==
  \/ AllLife["white"] # {}
  \/ \A c \in Color, p \in Pos \cup {Pass} : ~isLegalMove(c, p)
  \/ TwoPasses

\* eval() with the life isTerminal() found: two passes end a game for black
\* only if black cannot move and white has no stone.
eval(life) ==
  LET white == IF TwoPasses
               THEN \/ \E p \in Pos : isLegalMove("black", p)
                    \/ board.stones["white"] # {}
               ELSE life["white"] # {}
  IN  IF white THEN "white" ELSE "black"

-------------------------------------------------------------------------------
(* The operations.  A build with assertions calls isTerminal() before each *)
(* move and stops if the game has ended.                                   *)

Asserted ==
  IF conf.asserts THEN ~Ended /\ benson' = AllLife ELSE UNCHANGED benson

Recorded(c, p, b) ==
  /\ board' = b
  /\ turn' = AgainstColor(c)
  /\ moves' = Append(moves, Move(c, p))
  /\ history' = Append(history, b.stones)
  /\ hashes' = Append(hashes, b.hashKey)
  /\ UNCHANGED conf

Turned(b) == [b EXCEPT !.hashKey = Xor(@, TurnHashkey)]

PlayPass(c) ==
  /\ isLegalMove(c, Pass)
  /\ Asserted
  /\ Recorded(c, Pass, Turned(board))
  /\ UNCHANGED hashTable

PlayStone(c, p) ==
  /\ isLegalMove(c, p)
  /\ Asserted
  /\ Recorded(c, p, Placed(Turned(board), c, p))
  /\ hashTable' = store(hashTable, board'.hashKey)

\* conf.maxMoves bounds the game.
Play ==
  /\ Len(moves) < Len(conf.force) + conf.maxMoves
  /\ \E c \in IF conf.outOfTurn /\ ~Forced THEN Color ELSE {turn} :
       PlayPass(c) \/ \E p \in Pos : PlayStone(c, p)

\* Mutant of Eaten: the stones of the last board, not of the one before.
EatenByNow(m) == history[Len(moves)][AgainstColor(m.color)]
                   \ board.stones[AgainstColor(m.color)]

Eaten(m) == history[Len(moves) - 1][AgainstColor(m.color)]
              \ board.stones[AgainstColor(m.color)]

\* m_stoneBitBoard is restored from one past the end of history, where it
\* finds what pop_back left: its own value.
TakeBack(m) ==
  /\ IF m.pos = Pass
     THEN board' = Turned(board) /\ UNCHANGED hashTable
     ELSE /\ board' = Turned(Unplaced(board, m.color, m.pos, Eaten(m)))
          /\ hashTable' = erase(hashTable, board.hashKey)
  /\ turn' = m.color
  /\ moves' = Front(moves) /\ history' = Front(history) /\ hashes' = Front(hashes)
  /\ UNCHANGED <<conf, benson>>

Undo == CASE Len(moves) = 1 -> Reset
          [] Len(moves) > 1 -> TakeBack(Last(moves))
          [] OTHER -> FALSE

IsTerminal == benson' = AllLife /\ UNCHANGED <<conf, board, turn, moves, history, hashes, hashTable>>

Next == Play \/ Undo \/ Reset \/ IsTerminal

Spec == Init /\ [][Next]_vars

-------------------------------------------------------------------------------
(* Properties.                                                             *)

\* deepCheck() and more: after any sequence of plays and undos each block is
\* a whole group of its colour with its liberties and its key, free indices
\* are clear, and the key, the histories and the stones say the same.
Consistent ==
  /\ conf \in Configs /\ turn \in Color
  /\ \A p \in Pos : LET i == board.owner[p] IN
       IF \A c \in Color : p \notin board.stones[c]
       THEN board.color[p] = "none" /\ i = NoBlock
       ELSE \E c \in Color :
              LET group == Floodfill(board.stones[c], p) IN
              /\ board.color[p] = c /\ p \in board.stones[c]
              /\ board.block[i] =
                   [color |-> c, grids |-> group, hashKey |-> HashOf(c, group),
                    liberties |-> {q \in Dilation(group) : board.color[q] = "none"}]
  /\ board.usage = Pos \ {board.owner[p] : p \in Pos}
  /\ \A i \in board.usage : board.block[i] = NoStones
  /\ board.hashKey = UNION {HashOf(c, board.stones[c]) : c \in Color} \cup
                       IF Len(moves) % 2 = 1 THEN TurnHashkey ELSE {}
  /\ Len(history) = Len(moves) /\ Len(hashes) = Len(moves)
  /\ IF moves = <<>> THEN board = EmptyBoard
     ELSE Last(history) = board.stones /\ Last(hashes) = board.hashKey

\* The table finds the positions the game's stones led to, and holds them as the
\* stack GoHashTableProofs reasons about: erasing one on undo hides none that was
\* stored before it, and no other position is found.
TableHoldsHistory ==
  LET placed == SelectSeq([i \in DOMAIN moves |-> i], LAMBDA i : moves[i].pos # Pass)
      line   == [i \in DOMAIN placed |-> hashes[placed[i]]]
  IN  /\ Stack(hashTable, line)
      /\ \A i \in DOMAIN line : lookup(hashTable, line[i])

Rules ==
  INSTANCE GoRules WITH
    line <- [i \in DOMAIN moves |->
               [board |-> [p \in Pos |-> CASE p \in history[i]["black"] -> "black"
                                         [] p \in history[i]["white"] -> "white"
                                         [] OTHER -> "none"],
                stone |-> moves[i].pos # Pass]],
    situational <- conf.situational

\* Every play and undo is one of the rules', captures and repetition included,
\* with the liberties and keys kept incrementally.
ImplementsRules == Rules!Spec

\* A move nobody forces is legal exactly if the rules allow it and no option
\* forbids it; the ko option only forbids capturing exactly one stone with one
\* that is left in atari.
LegalIsExact ==
  \A c \in Color, p \in Pos :
    /\ ~Forced => (isLegalMove(c, p) <=> Rules!LegalStone(c, p) /\ ~Forbidden(c, p))
    /\ board.color[p] = "none" /\ isEatKoMove(c, p) =>
         LET b == Placed(board, c, p)
         IN  /\ Cardinality(board.stones[AgainstColor(c)] \ b.stones[AgainstColor(c)]) = 1
             /\ Cardinality(b.block[b.owner[p]].liberties) = 1

\* The boards the opponent of c can make if c only passes.
Attacked(c) ==
  LET d == AgainstColor(c)
      After(b) == {Rules!After(b, d, p) : p \in {q \in Pos :
                     b[q] = "none" /\ Rules!HasLiberty(Rules!After(b, d, q), q)}}
      reach[S \in SUBSET [Pos -> Color \cup {"none"}]] ==
        LET T == S \cup UNION {After(b) : b \in S}
        IN  IF T = S THEN S ELSE reach[T]
  IN  reach[{board.color}]

\* Benson's life is life: a living colour has stones, those on living points
\* outlast every attack without an answer, and white's life wins the game,
\* even if it ended by two passes.
BensonLifeIsLife ==
  /\ AllLife["white"] # {} => eval(AllLife) = "white"
  /\ \A c \in Color :
       LET alive == AllLife[c] \cap board.stones[c]
       IN  AllLife[c] # {} =>
             alive # {} /\ \A b \in Attacked(c) : \A p \in alive : b[p] = c

===============================================================================
