----------------------------- MODULE SearchLoop ------------------------------
(***************************************************************************)
(* What a batch of self-play games promises: every game runs the loop of   *)
(* ZeroMCTS::run by itself - select a leaf, have the network evaluate that *)
(* leaf, expand and update, and after SimCount simulations make a move -   *)
(* and the games of one network are evaluated together, all at once.       *)
(***************************************************************************)
EXTENDS Integers

CONSTANTS Game,        \* the games
          Network,     \* the networks
          NetOf(_),    \* the network of a game
          SimCount, MaxMoves

VARIABLES stage, sim, moves

vars == <<stage, sim, moves>>

Init ==
  /\ stage = [g \in Game |-> "idle"]
  /\ sim = [g \in Game |-> 0]
  /\ moves = [g \in Game |-> 0]

Select(g) ==
  /\ stage[g] = "idle"
  /\ stage' = [stage EXCEPT ![g] = "asked"]
  /\ sim' = [sim EXCEPT ![g] = IF @ = SimCount THEN 0 ELSE @]
  /\ UNCHANGED moves

Forward(n) ==
  LET batch == {g \in Game : NetOf(g) = n}
  IN  /\ \A g \in batch : stage[g] = "asked"
      /\ stage' = [g \in Game |-> IF g \in batch THEN "answered" ELSE stage[g]]
      /\ UNCHANGED <<sim, moves>>

Evaluate(g) ==
  /\ stage[g] = "answered"
  /\ stage' = [stage EXCEPT ![g] = "idle"]
  /\ sim' = [sim EXCEPT ![g] = @ + 1]
  /\ moves' = [moves EXCEPT ![g] = IF sim[g] + 1 = SimCount THEN @ + 1 ELSE @]

EndGame(g) ==
  /\ stage[g] = "idle"
  /\ sim[g] = SimCount
  /\ sim' = [sim EXCEPT ![g] = 0]
  /\ moves' = [moves EXCEPT ![g] = 0]
  /\ UNCHANGED stage

Next ==
  \/ \E g \in Game : Select(g) \/ Evaluate(g) \/ EndGame(g)
  \/ \E n \in Network : Forward(n)

Spec == Init /\ [][Next]_vars

===============================================================================
