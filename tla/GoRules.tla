-------------------------------- MODULE GoRules --------------------------------
(***************************************************************************)
(* The rules of Go a game follows: stones are captured with their last     *)
(* liberty, suicide and the repetition of a position are illegal, and an   *)
(* undo takes back one move.  Either colour may be asked to move.          *)
(***************************************************************************)
EXTENDS GoBoard, FiniteSets

VARIABLES line,        \* what the moves led to: [board, stone]
          situational  \* repetition counts for the same player to move only

Empty == [p \in Pos |-> "none"]
Board == IF line = <<>> THEN Empty ELSE line[Len(line)].board

Adjacent(p, q) == (X(p) - X(q)) ^ 2 + (Y(p) - Y(q)) ^ 2 = 1
Around == [p \in Pos |-> {q \in Pos : Adjacent(p, q)}]

\* The stones connected to the one on p.
Group(b, p) ==
  LET grow[S \in SUBSET Pos] ==
        LET T == S \cup {q \in UNION {Around[r] : r \in S} : b[q] = b[p]}
        IN  IF T = S THEN S ELSE grow[T]
  IN  grow[{p}]

HasLiberty(b, p) ==
  \E q \in Group(b, p) : \E r \in Around[q] : b[r] = "none"

\* The board after a stone: its neighbours without liberties are taken off.
After(b, c, p) ==
  LET placed == [b EXCEPT ![p] = c]
      dead == {q \in Around[p] : /\ placed[q] = AgainstColor(c)
                                 /\ ~HasLiberty(placed, q)}
      taken == UNION {Group(placed, q) : q \in dead}
  IN  [q \in Pos |-> IF q \in taken THEN "none" ELSE placed[q]]

\* A stone made this board before; if situational, at the same player's turn.
Repeats(b) ==
  \E i \in DOMAIN line :
    /\ line[i].stone
    /\ line[i].board = b
    /\ situational => (Len(line) + 1 - i) % 2 = 0

LegalStone(c, p) ==
  /\ Board[p] = "none"
  /\ HasLiberty(After(Board, c, p), p)
  /\ ~Repeats(After(Board, c, p))

PlayStone(c, p) ==
  /\ LegalStone(c, p)
  /\ line' = Append(line, [board |-> After(Board, c, p), stone |-> TRUE])

PlayPass == line' = Append(line, [board |-> Board, stone |-> FALSE])

TakeBack ==
  /\ line # <<>>
  /\ line' = SubSeq(line, 1, Len(line) - 1)

NewGame == line' = <<>>

Init == line = <<>> /\ situational \in BOOLEAN

Next ==
  /\ \/ \E c \in Color, p \in Pos : PlayStone(c, p)
     \/ PlayPass
     \/ TakeBack
     \/ NewGame
  /\ UNCHANGED situational

Spec == Init /\ [][Next]_<<line, situational>>

===============================================================================
