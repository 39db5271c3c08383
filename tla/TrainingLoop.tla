----------------------------- MODULE TrainingLoop -----------------------------
(***************************************************************************)
(* What ZeroServer::run promises, without threads, workers or messages: in *)
(* iteration i it collects NumGame games of the model of that iteration    *)
(* and of no other, then one training makes the next model.                *)
(*                                                                         *)
(* A training ordered twice disturbs the loop for good: from then on a     *)
(* report may come at any time and name any model trained so far, or the   *)
(* next one.  The phases, the iterations and the number of games are exact *)
(* all the same.                                                           *)
(***************************************************************************)
EXTENDS Integers

CONSTANTS NumGame, StartIteration, EndIteration, StartModel

VARIABLES iteration, games, model, phase, sgf, disturbed

vars == <<iteration, games, model, phase, sgf, disturbed>>

Iteration == StartIteration .. EndIteration

Init ==
  /\ iteration = StartIteration
  /\ games = 0
  /\ model = StartModel
  /\ phase = "selfplay"
  /\ sgf = [i \in Iteration |-> {}]
  /\ disturbed = FALSE

RecordGame ==
  /\ phase = "selfplay"
  /\ games < NumGame
  /\ games' = games + 1
  /\ sgf' = [sgf EXCEPT ![iteration] = @ \cup {model}]
  /\ UNCHANGED <<iteration, model, phase, disturbed>>

CloseSelfPlay ==
  /\ phase = "selfplay"
  /\ games = NumGame
  /\ phase' = "optimize"
  /\ UNCHANGED <<iteration, games, model, sgf, disturbed>>

Train ==
  /\ ~disturbed
  /\ phase = "optimize"
  /\ model' = model + 1
  /\ phase' = "trained"
  /\ UNCHANGED <<iteration, games, sgf, disturbed>>

\* A second order of the iteration's training.
Disturb ==
  /\ phase \in {"optimize", "trained"}
  /\ disturbed' = TRUE
  /\ UNCHANGED <<iteration, games, model, phase, sgf>>

\* At most one new model per iteration, however many trainings were ordered.
ModelsSoFar == StartModel .. StartModel + (iteration - StartIteration) + 1

\* A report of any of the trainings, handled now or noticed now.
LateReport ==
  /\ disturbed
  /\ model' \in ModelsSoFar
  /\ phase' = phase \/ (phase = "optimize" /\ phase' = "trained")
  /\ UNCHANGED <<iteration, games, sgf, disturbed>>

NextIteration ==
  /\ phase = "trained"
  /\ iteration' = iteration + 1
  /\ IF iteration < EndIteration
     THEN phase' = "selfplay" /\ games' = 0
     ELSE phase' = "done" /\ UNCHANGED games
  /\ UNCHANGED <<model, sgf, disturbed>>

Next ==
  \/ RecordGame \/ CloseSelfPlay \/ Train \/ NextIteration
  \/ Disturb \/ LateReport

Spec == Init /\ [][Next]_vars

===============================================================================
