---------------------------- MODULE TrainingOrders ----------------------------
(***************************************************************************)
(* The training orders of ZeroServer.  The server is ZeroServer, step for  *)
(* step; two history variables record what the code lets happen to an      *)
(* order.  Nothing the server or a machine does depends on them.           *)
(*                                                                         *)
(* An order is a token: the command on its way, the training, the report   *)
(* on its way back.  As long as no order is sent on top of another the     *)
(* server is the plain TrainingLoop; from then on it is the loop whose     *)
(* model any late report may change.                                       *)
(***************************************************************************)
EXTENDS ZeroServer

VARIABLES
  doubled,   \* the iterations in which an order was sent on top of another
  late       \* was an optimizer marked idle while its order was about?

ordersVars == <<vars, doubled, late>>

\* Does a channel carry a message of this kind?
Carries(chan, kind) == \E i \in DOMAIN chan : chan[i].kind = kind

\* A training whose report can still reach the server: a machine comes back only
\* when its training is over.
Training(w) == link[w] /\ running[w] # NoJob

\* The optimizer w has an order, trains, or has reported.
Token(w) ==
  \/ Carries(toWorker[w], "Job_Optimization")
  \/ Training(w)
  \/ Carries(toServer[w], "Optimization_Done")

\* The main thread sends an order although the training is already reported,
\* another order is about, or a second optimizer gets one too.
DoublesOrder ==
  /\ SendOptimization
  /\ \E w \in OpWorker :
       /\ toWorker'[w] # toWorker[w]
       /\ \/ bOptimization
          \/ \E v \in OpWorker : Token(v)
          \/ \E v \in OpWorker \ {w} : toWorker'[v] # toWorker[v]

\* The io thread marks an optimizer idle for its Info after the main thread has
\* sent it its order, or between a report and the end of the loop that waits for it.
MarksBusyIdle ==
  \E w \in OpWorker : /\ HandleInfo(w)
                      /\ Token(w) \/ (pc = "opSend" /\ bOptimization)

OrdersInit == Init /\ doubled = {} /\ late = FALSE

OrdersNext ==
  /\ Next
  /\ doubled' = IF DoublesOrder THEN doubled \cup {iteration} ELSE doubled
  /\ late' = (late \/ MarksBusyIdle)

OrdersSpec == OrdersInit /\ [][OrdersNext]_ordersVars

FairOrdersSpec == OrdersSpec /\ Fairness

-------------------------------------------------------------------------------
(* Properties *)

\* The model iteration i plays with when nothing goes wrong: one training per
\* iteration.
ModelOf(i) == StartModel + (i - StartIteration)

\* The games in sgf/<i>.sgf were played by the one model of iteration i, although
\* games of earlier models are still in flight when the iteration begins; a
\* doubled order only harms the files of later iterations.
OneModelPerFile ==
  \A i \in Iteration :
    (\A d \in doubled : i <= d) => sgf[i] \subseteq {ModelOf(i)}

\* With one optimizer only the late Info answer makes the server send an order on
\* top of another: neither a broken connection nor a report that races with the
\* send loop does.
OnlyLateInfoDoubles == doubled # {} => late

AtMostOne(chan, kind) ==
  \A i, j \in DOMAIN chan : chan[i].kind = kind /\ chan[j].kind = kind => i = j

Only(chan, msg) == \A i \in DOMAIN chan : chan[i].kind = msg.kind => chan[i] = msg

\* The order and the report of the current iteration.
CurrentJob == [model |-> ModelOf(iteration), last |-> iteration]
CurrentOrder == JobOptimization(CurrentJob)
CurrentReport == OptimizationDone(ModelOf(iteration) + 1)

Waiting == pc \in {"opCheck", "opSend"}    \* the loop of Optimization

\* The model and the phase of the main thread agree.
ModelInv ==
  /\ modelIteration = ModelOf(iteration) + IF Waiting /\ bOptimization THEN 1 ELSE 0
  /\ pc = "opConf" => ~bOptimization
  /\ Waiting => conf = CurrentJob

\* A token exists only while the main thread waits for it, in one place, and it is
\* about the current iteration.
OneToken(w) ==
  /\ Token(w) => Waiting /\ ~bOptimization
  /\ Carries(toWorker[w], "Job_Optimization") =>
       ~Training(w) /\ ~Carries(toServer[w], "Optimization_Done")
  /\ Training(w) => ~Carries(toServer[w], "Optimization_Done")
  /\ AtMostOne(toWorker[w], "Job_Optimization")
  /\ AtMostOne(toServer[w], "Optimization_Done")
  /\ Only(toWorker[w], CurrentOrder)
  /\ Training(w) => running[w] = CurrentJob
  /\ Only(toServer[w], CurrentReport)

\* Only optimizers report trainings.
ReportsInv == \A w \in SpWorker : ~Carries(toServer[w], "Optimization_Done")

\* Until an order is doubled, everything the main thread waits for is about the
\* current iteration: no report of an earlier training can end the wrong
\* Optimization or change the model in the middle of SelfPlay, however many
\* optimizers there are and however connections break.
LoopInv ==
  doubled = {} =>
    /\ ModelInv
    /\ \A w \in OpWorker : OneToken(w)
    /\ \A v, w \in OpWorker : Token(v) /\ Token(w) => v = w

\* What the loop promises: collect the games of one model, train once, go on; and
\* what is left of it after a doubled order.
Loop == INSTANCE TrainingLoop WITH
  games <- totalGames,
  model <- modelIteration,
  phase <- IF InSelfPlay THEN "selfplay"
           ELSE IF pc = "join" THEN "done"
           ELSE IF Waiting /\ bOptimization THEN "trained"
           ELSE "optimize",
  disturbed <- doubled # {}
ImplementsLoop == Loop!Spec

\* The whole run ends, unless an order is doubled: every iteration gets its games
\* and its training.
TrainingCompletes == <>(doubled # {} \/ pc = "join")

===============================================================================
