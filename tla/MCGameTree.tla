------------------------------ MODULE MCGameTree -------------------------------
(***************************************************************************)
(* All small games of one shape: black plays 1 or 2 and white 3 or 4.      *)
(* After 4 the game ends; after 3 black plays the other of 1 and 2, so     *)
(* that two orders lead to one position, and white ends with 5 or 6.       *)
(* After 1, 3 the game may end early.  A problem says with which results.  *)
(***************************************************************************)
EXTENDS Integers, Sequences, FiniteSets

CONSTANTS EarlyResults   \* results after 1, 3; "open" if the game goes on

Lines == {<<>>} \cup {<<i>> : i \in 1 .. 2}
         \cup {<<i, j>> : i \in 1 .. 2, j \in 3 .. 4}
         \cup {<<i, 3, 3 - i>> : i \in 1 .. 2}
         \cup {<<i, 3, 3 - i, k>> : i \in 1 .. 2, k \in 5 .. 6}

\* The stones of the last positions that black wins.
BlackWins == SUBSET {{1, 4}, {2, 4}, {1, 2, 3, 5}, {1, 2, 3, 6}}

Stones(line) == {line[i] : i \in DOMAIN line}

MCPosition == [early : EarlyResults, late : BlackWins, line : Lines]
MCProblem == {p \in MCPosition : p.line = <<>>}

Result(p) ==
  CASE p.line = <<1, 3>> -> p.early
    [] Stones(p.line) \cap 4 .. 6 # {} -> IF Stones(p.line) \in p.late
                                         THEN "black" ELSE "white"
    [] OTHER -> "open"

MCTerminal == {p \in MCPosition : Result(p) # "open"}
MCWinner == [p \in MCTerminal |-> Result(p)]
MCMover == [p \in MCPosition |-> IF Len(p.line) % 2 = 1 THEN "black" ELSE "white"]

\* Moves go on after a terminal position as far as the shape allows; the
\* solvers must not follow them.
MCChildren ==
  [p \in MCPosition |->
     {[p EXCEPT !.line = Append(@, m)] :
        m \in {n \in 1 .. 6 : Append(p.line, n) \in Lines}}]

MCParent ==
  [p \in {q \in MCPosition : q.line # <<>>} |->
     [p EXCEPT !.line = SubSeq(@, 1, Len(@) - 1)]]

\* The stones on the board, whatever the order they were played in.
MCKey ==
  [p \in MCPosition |->
     [early |-> p.early, late |-> p.late, stones |-> Stones(p.line)]]

===============================================================================
