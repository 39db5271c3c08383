------------------------------ MODULE ZeroServer ------------------------------
(***************************************************************************)
(* The AlphaZero-style training loop: the server's main thread             *)
(* (ZeroServer::run, SelfPlay, Optimization), its single io thread (the    *)
(* handlers of ZeroWorkerStatus and BaseWorkerHandler) and the worker      *)
(* machines that run scripts/worker.sh, self-play ("sp") or optimization   *)
(* ("op").                                                                 *)
(*                                                                         *)
(* A model is the number of training rounds behind it: weight_iter_N.pt is *)
(* model N / NUM_TRAIN_STEP.  A self-play record is the model its tag      *)
(* names.  A handler that takes m_workerMutex is one step, possible only   *)
(* when the main thread does not hold that mutex; the one critical section *)
(* in which the main thread reads data the mutex does not guard            *)
(* (getSelfPlayConfigure reads m_modelIteration) is split per worker.      *)
(***************************************************************************)
EXTENDS Integers, Sequences

CONSTANTS SpWorker,         \* machines running "worker.sh HOST PORT sp"
          OpWorker,         \* machines running "worker.sh HOST PORT op"
          NumGame,          \* Configure::ZERO_NUM_GAME
          StartIteration,   \* Configure::ZERO_START_ITERATION
          EndIteration,     \* Configure::ZERO_END_ITERATION
          StartModel,       \* the model Configure::MODEL_FILE names
          MaxInFlight,      \* bound: self-play lines unread on one connection
          MaxQueue,         \* bound: m_selfPlayQueue
          MaxDrops          \* bound: connections lost in a behaviour

Worker == SpWorker \cup OpWorker

ASSUME WorkerAssumption == SpWorker \cap OpWorker = {}
\* With fewer than four games the progress display divides by zero (line 152).
ASSUME NumAssumption == /\ NumGame \in Nat /\ NumGame >= 4
                        /\ StartIteration \in Nat
                        /\ EndIteration \in Nat
                        /\ StartIteration <= EndIteration
                        /\ StartModel \in Nat
                        /\ MaxInFlight \in Nat
                        /\ MaxQueue \in Nat
                        /\ MaxDrops \in Nat

VARIABLES
  pc,              \* where the main thread is
  iteration,       \* m_iteration
  totalGames,      \* ZeroServer::m_total_games
  popped,          \* sSelfPlay, the record just taken from the queue
  conf,            \* sOptimizationConfigure: model to train, last sgf to read
  sgf,             \* the models of the games in sgf/<iteration>.sgf
  bOptimization,   \* m_bOptimization
  modelIteration,  \* m_modelIteration
  selfPlayQueue,   \* m_selfPlayQueue
  status,          \* a worker's ZeroWorkerStatus: not in m_vWorkers, open, ended
  idle,            \* ZeroWorkerStatus::m_bIdle
  toWorker,        \* commands written to a worker and not yet read
  toServer,        \* lines written to the server and not yet read
  link,            \* is the worker's socket up?
  running,         \* the self-play process or the training of a worker
  drops            \* connections lost so far

mainVars == <<pc, iteration, totalGames, popped, conf, sgf>>
sharedVars == <<bOptimization, modelIteration, selfPlayQueue>>
workerVars == <<link, running, drops>>
vars == <<mainVars, sharedVars, status, idle, toWorker, toServer, workerVars>>

None == -1
Iteration == StartIteration .. EndIteration
Job == [model : Int, last : Int]
NoJob == [model |-> None, last |-> None]

\* Lines of the protocol: kind and, where the line names a model, the model
\* (a Job_Optimization also names the last sgf file of its replay window).
Info == [kind |-> "Info", model |-> None, last |-> None]
JobSelfplay(m) == [kind |-> "Job_Selfplay", model |-> m, last |-> None]
JobOptimization(j) == [kind |-> "Job_Optimization", model |-> j.model, last |-> j.last]
JobDone == [kind |-> "Job_Done", model |-> None, last |-> None]
SelfPlayLine(m) == [kind |-> "Self-play", model |-> m, last |-> None]
OptimizationDone(m) == [kind |-> "Optimization_Done", model |-> m, last |-> None]
\* What a self-play process killed in the middle of a line leaves behind.
CutLine == [kind |-> "cut", model |-> None, last |-> None]

Command == [kind : {"Info", "Job_Selfplay", "Job_Optimization", "Job_Done"},
            model : Int, last : Int]
Line == [kind : {"Info", "Self-play", "Optimization_Done", "cut"},
         model : Int, last : Int]

\* The main thread is inside the critical section of SelfPlay's send loop.
WorkerMutexHeld == pc = "spSend"

Known == {w \in Worker : status[w] # "out"}    \* m_vWorkers

\* Mutant of Write: the message queue is served from the wrong end.
WriteFirst(W, msg) ==
  toWorker' = [w \in Worker |-> IF w \in W /\ status[w] = "open" /\ link[w]
                                THEN <<msg>> \o toWorker[w]
                                ELSE toWorker[w]]

\* write(): nothing is sent on an ended connection, and what is written on a
\* broken socket is lost.
Write(W, msg) ==
  toWorker' = [w \in Worker |-> IF w \in W /\ status[w] = "open" /\ link[w]
                                THEN Append(toWorker[w], msg)
                                ELSE toWorker[w]]

\* A line written on the worker's socket; what is written on a socket that is
\* down or closed by the server is lost.
Send(w, line) ==
  toServer' = [toServer EXCEPT ![w] = IF link[w] /\ status[w] = "open"
                                      THEN Append(@, line)
                                      ELSE @]

SetIdle(W, b) == idle' = [w \in Worker |-> IF w \in W THEN b ELSE idle[w]]

-------------------------------------------------------------------------------
Init ==
  /\ pc = "spLock"
  /\ iteration = StartIteration
  /\ totalGames = 0
  /\ popped = None
  /\ conf = NoJob
  /\ sgf = [i \in Iteration |-> {}]
  /\ bOptimization \in BOOLEAN            \* no constructor initializes it
  /\ modelIteration = StartModel
  /\ selfPlayQueue = <<>>
  /\ status = [w \in Worker |-> "out"]
  /\ idle = [w \in Worker |-> FALSE]
  /\ toWorker = [w \in Worker |-> <<>>]
  /\ toServer = [w \in Worker |-> <<>>]
  /\ link = [w \in Worker |-> FALSE]
  /\ running = [w \in Worker |-> NoJob]
  /\ drops = 0

-------------------------------------------------------------------------------
(* The main thread: ZeroServer::SelfPlay *)

\* The head of the loop: take m_workerMutex for the send loop.
LockWorkers ==
  /\ pc = "spLock"
  /\ totalGames < NumGame
  /\ pc' = "spSend"
  /\ UNCHANGED <<iteration, totalGames, popped, conf, sgf, sharedVars, status,
                 idle, toWorker, toServer, workerVars>>

\* One idle worker of the send loop gets the model current at this moment.
SendSelfPlay(w) ==
  /\ pc = "spSend"
  /\ w \in Known
  /\ idle[w]
  /\ SetIdle({w}, FALSE)
  /\ Write({w}, JobSelfplay(modelIteration))
  /\ UNCHANGED <<mainVars, sharedVars, status, toServer, workerVars>>

UnlockWorkers ==
  /\ pc = "spSend"
  /\ \A w \in Known : ~idle[w]
  /\ pc' = "spPop"
  /\ UNCHANGED <<iteration, totalGames, popped, conf, sgf, sharedVars, status,
                 idle, toWorker, toServer, workerVars>>

\* getOneSelfPlay(); on an empty queue the loop sleeps and starts over.
GetOneSelfPlay ==
  /\ pc = "spPop"
  /\ IF selfPlayQueue = <<>>
     THEN /\ pc' = "spLock"
          /\ UNCHANGED <<popped, selfPlayQueue>>
     ELSE /\ pc' = "spCheck"
          /\ popped' = Head(selfPlayQueue)
          /\ selfPlayQueue' = Tail(selfPlayQueue)
  /\ UNCHANGED <<iteration, totalGames, conf, sgf, bOptimization, modelIteration,
                 status, idle, toWorker, toServer, workerVars>>

\* Mutant of RecordSelfPlay: no record is discarded.
RecordAnySelfPlay ==
  /\ pc = "spCheck"
  /\ sgf' = [sgf EXCEPT ![iteration] = @ \cup {popped}]
  /\ totalGames' = totalGames + 1
  /\ pc' = "spLock"
  /\ popped' = None
  /\ UNCHANGED <<iteration, conf, sharedVars, status, idle, toWorker, toServer,
                 workerVars>>

\* The record is compared with the model current now; one of another model is
\* discarded.
RecordSelfPlay ==
  /\ pc = "spCheck"
  /\ IF popped = modelIteration
     THEN /\ sgf' = [sgf EXCEPT ![iteration] = @ \cup {popped}]
          /\ totalGames' = totalGames + 1
     ELSE UNCHANGED <<sgf, totalGames>>
  /\ pc' = "spLock"
  /\ popped' = None
  /\ UNCHANGED <<iteration, conf, sharedVars, status, idle, toWorker, toServer,
                 workerVars>>

\* Mutants of FinishSelfPlay: one game short; the workers are told but not marked
\* idle.
FinishSelfPlayEarly ==
  /\ pc = "spLock"
  /\ totalGames >= NumGame - 1
  /\ SetIdle(Known, TRUE)
  /\ Write(Known, JobDone)
  /\ pc' = "opStart"
  /\ UNCHANGED <<iteration, totalGames, popped, conf, sgf, sharedVars, status,
                 toServer, workerVars>>

FinishSelfPlayBusy ==
  /\ pc = "spLock"
  /\ totalGames >= NumGame
  /\ Write(Known, JobDone)
  /\ pc' = "opStart"
  /\ UNCHANGED <<iteration, totalGames, popped, conf, sgf, sharedVars, status,
                 idle, toServer, workerVars>>

\* Enough games: every worker becomes idle and is told "Job_Done".
FinishSelfPlay ==
  /\ pc = "spLock"
  /\ totalGames >= NumGame
  /\ SetIdle(Known, TRUE)
  /\ Write(Known, JobDone)
  /\ pc' = "opStart"
  /\ UNCHANGED <<iteration, totalGames, popped, conf, sgf, sharedVars, status,
                 toServer, workerVars>>

-------------------------------------------------------------------------------
(* The main thread: ZeroServer::Optimization *)

\* Mutant of StartOptimization: the flag of the last iteration is kept.
StartOptimizationKeepingFlag ==
  /\ pc = "opStart"
  /\ pc' = "opConf"
  /\ UNCHANGED <<iteration, totalGames, popped, conf, sgf, sharedVars, status,
                 idle, toWorker, toServer, workerVars>>

StartOptimization ==
  /\ pc = "opStart"
  /\ bOptimization' = FALSE
  /\ pc' = "opConf"
  /\ UNCHANGED <<iteration, totalGames, popped, conf, sgf, modelIteration,
                 selfPlayQueue, status, idle, toWorker, toServer, workerVars>>

\* getOptimizationConfigure(): built once, from the model current now.
ConfigureOptimization ==
  /\ pc = "opConf"
  /\ conf' = [model |-> modelIteration, last |-> iteration]
  /\ pc' = "opCheck"
  /\ UNCHANGED <<iteration, totalGames, popped, sgf, sharedVars, status, idle,
                 toWorker, toServer, workerVars>>

\* isOptimizationDone() is read, then the idle workers are sent the job.
CheckOptimization ==
  /\ pc = "opCheck"
  /\ ~bOptimization
  /\ pc' = "opSend"
  /\ UNCHANGED <<iteration, totalGames, popped, conf, sgf, sharedVars, status,
                 idle, toWorker, toServer, workerVars>>

\* Mutant of SendOptimization: a worker with an order stays idle.
SendOptimizationAgain ==
  /\ pc = "opSend"
  /\ LET W == {w \in Known : idle[w]} IN
     Write(W, JobOptimization(conf))
  /\ pc' = "opCheck"
  /\ UNCHANGED <<iteration, totalGames, popped, conf, sgf, sharedVars, status,
                 idle, toServer, workerVars>>

SendOptimization ==
  /\ pc = "opSend"
  /\ LET W == {w \in Known : idle[w]} IN
     /\ SetIdle(W, FALSE)
     /\ Write(W, JobOptimization(conf))
  /\ pc' = "opCheck"
  /\ UNCHANGED <<iteration, totalGames, popped, conf, sgf, sharedVars, status,
                 toServer, workerVars>>

\* Mutant of FinishOptimization: one iteration too many.
FinishOptimizationPastEnd ==
  /\ pc = "opCheck"
  /\ bOptimization
  /\ SetIdle(Known, TRUE)
  /\ Write(Known, JobDone)
  /\ iteration' = iteration + 1
  /\ IF iteration <= EndIteration
     THEN pc' = "spLock" /\ totalGames' = 0
     ELSE pc' = "join" /\ UNCHANGED totalGames
  /\ UNCHANGED <<popped, conf, sgf, sharedVars, status, toServer, workerVars>>

\* Optimization returns; run() goes on with the next iteration, or leaves its
\* loop and waits in ~BaseWorkerHandler for the io thread, which never ends.
FinishOptimization ==
  /\ pc = "opCheck"
  /\ bOptimization
  /\ SetIdle(Known, TRUE)
  /\ Write(Known, JobDone)
  /\ iteration' = iteration + 1
  /\ IF iteration < EndIteration
     THEN /\ pc' = "spLock"
          /\ totalGames' = 0
     ELSE /\ pc' = "join"
          /\ UNCHANGED totalGames
  /\ UNCHANGED <<popped, conf, sgf, sharedVars, status, toServer, workerVars>>

Main ==
  \/ LockWorkers \/ \E w \in Worker : SendSelfPlay(w)
  \/ UnlockWorkers \/ GetOneSelfPlay \/ RecordSelfPlay \/ FinishSelfPlay
  \/ StartOptimization \/ ConfigureOptimization
  \/ CheckOptimization \/ SendOptimization \/ FinishOptimization

-------------------------------------------------------------------------------
(* The io thread *)

\* The next line of w's connection.  Lines already in m_buffer are handled even
\* after do_close, as async_read_until completes on a buffered line.
Received(w, kind) ==
  /\ toServer[w] # <<>>
  /\ Head(toServer[w]).kind = kind

Consume(w) == toServer' = [toServer EXCEPT ![w] = Tail(@)]

\* handle_accept: ended workers leave m_vWorkers, the new one enters and is
\* asked for its name.  A worker comes back when the server has closed its
\* former connection and handled what it had buffered of it (the script sleeps
\* 10 s); an op worker only when its training is over, as the script waits for
\* it.
Connect(w) ==
  /\ ~WorkerMutexHeld
  /\ ~link[w]
  /\ status[w] # "open"
  /\ toServer[w] \in {<<>>, <<CutLine>>}
  /\ running[w] = NoJob
  /\ status' = [v \in Worker |-> IF v = w THEN "open"
                                 ELSE IF status[v] = "ended" THEN "out"
                                 ELSE status[v]]
  /\ idle' = [idle EXCEPT ![w] = FALSE]
  /\ link' = [link EXCEPT ![w] = TRUE]
  /\ toWorker' = [toWorker EXCEPT ![w] = <<Info>>]
  /\ toServer' = [toServer EXCEPT ![w] = <<>>]
  /\ UNCHANGED <<mainVars, sharedVars, running, drops>>

\* handle_msg "Info": the worker becomes idle.
HandleInfo(w) ==
  /\ ~WorkerMutexHeld
  /\ Received(w, "Info")
  /\ Consume(w)
  /\ idle' = [idle EXCEPT ![w] = TRUE]
  /\ UNCHANGED <<mainVars, sharedVars, status, toWorker, workerVars>>

\* handle_msg "Self-play": the record is queued for the main thread.
HandleSelfPlay(w) ==
  /\ Received(w, "Self-play")
  /\ Len(selfPlayQueue) < MaxQueue
  /\ Consume(w)
  /\ selfPlayQueue' = Append(selfPlayQueue, Head(toServer[w]).model)
  /\ UNCHANGED <<mainVars, bOptimization, modelIteration, status, idle, toWorker,
                 workerVars>>

\* handle_msg "Optimization_Done N".
HandleOptimizationDone(w) ==
  /\ Received(w, "Optimization_Done")
  /\ Consume(w)
  /\ bOptimization' = TRUE
  /\ modelIteration' = Head(toServer[w]).model
  /\ UNCHANGED <<mainVars, selfPlayQueue, status, idle, toWorker, workerVars>>

\* do_close; of the unread lines those already in m_buffer stay.
DoClose(w, unread) ==
  /\ ~WorkerMutexHeld
  /\ status' = [status EXCEPT ![w] = "ended"]
  /\ \E n \in 0 .. Len(unread) : toServer' = [toServer EXCEPT ![w] = SubSeq(unread, 1, n)]

\* A cut line and the line after it arrive as one: two "Self-play" in a line
\* are dropped; when the cut fell inside the first word, the line has an
\* unknown first word and the worker is rejected.
HandleJoinedLine(w) ==
  /\ Received(w, "cut")
  /\ Len(toServer[w]) > 1
  /\ LET unread == Tail(Tail(toServer[w])) IN
       \/ /\ toServer' = [toServer EXCEPT ![w] = unread]
          /\ UNCHANGED status
       \/ DoClose(w, unread)
  /\ UNCHANGED <<mainVars, sharedVars, idle, toWorker, workerVars>>

\* handle_read or handle_write with an error.
CloseBrokenConnection(w) ==
  /\ status[w] = "open"
  /\ ~link[w]
  /\ DoClose(w, toServer[w])
  /\ UNCHANGED <<mainVars, sharedVars, idle, toWorker, workerVars>>

Io(w) ==
  \/ Connect(w) \/ HandleInfo(w) \/ HandleSelfPlay(w)
  \/ HandleOptimizationDone(w) \/ HandleJoinedLine(w) \/ CloseBrokenConnection(w)

-------------------------------------------------------------------------------
(* The worker machines: scripts/worker.sh, the self-play process, Train.py *)

\* The script reads its next command; an op worker does so only between two
\* trainings.
Reads(w, kind) ==
  /\ link[w]
  /\ toWorker[w] # <<>>
  /\ Head(toWorker[w]).kind = kind
  /\ w \in OpWorker => running[w] = NoJob
  /\ toWorker' = [toWorker EXCEPT ![w] = Tail(@)]
  /\ UNCHANGED <<mainVars, sharedVars, status, idle, link, drops>>

\* Killing a self-play process may leave a cut line on the socket; a second cut
\* only prolongs the first.
MayCut(w) ==
  \/ UNCHANGED toServer
  \/ /\ running[w] # NoJob
     /\ ~(toServer[w] # <<>> /\ toServer[w][Len(toServer[w])] = CutLine)
     /\ Send(w, CutLine)

ReadInfo(w) ==
  /\ Reads(w, "Info")
  /\ Send(w, Info)
  /\ UNCHANGED running

\* The previous self-play process is killed, then one with the new model starts;
\* an op worker skips the command.
ReadJobSelfplay(w) ==
  /\ Reads(w, "Job_Selfplay")
  /\ IF w \in SpWorker
     THEN /\ MayCut(w)
          /\ running' = [running EXCEPT ![w] = [model |-> Head(toWorker[w]).model,
                                                last |-> None]]
     ELSE UNCHANGED <<toServer, running>>

\* py/Train.py runs in the foreground; an sp worker skips the command.
ReadJobOptimization(w) ==
  /\ Reads(w, "Job_Optimization")
  /\ running' = IF w \in OpWorker
                THEN [running EXCEPT ![w] = [model |-> Head(toWorker[w]).model,
                                             last |-> Head(toWorker[w]).last]]
                ELSE running
  /\ UNCHANGED toServer

ReadJobDone(w) ==
  /\ Reads(w, "Job_Done")
  /\ IF w \in SpWorker
     THEN /\ MayCut(w)
          /\ running' = [running EXCEPT ![w] = NoJob]
     ELSE UNCHANGED <<toServer, running>>

\* ZeroMCTS::handleEndGame prints a finished game on the socket.
PlayGame(w) ==
  /\ w \in SpWorker
  /\ link[w]
  /\ running[w] # NoJob
  /\ Len(toServer[w]) < MaxInFlight
  /\ Send(w, SelfPlayLine(running[w].model))
  /\ UNCHANGED <<mainVars, sharedVars, status, idle, toWorker, workerVars>>

\* Train.py saves the next model and reports it, if the socket is still up.
FinishTraining(w) ==
  /\ w \in OpWorker
  /\ running[w] # NoJob
  /\ running' = [running EXCEPT ![w] = NoJob]
  /\ Send(w, OptimizationDone(running[w].model + 1))
  /\ UNCHANGED <<mainVars, sharedVars, status, idle, toWorker, link, drops>>

\* The worker's side of the connection goes down: its unread commands are lost
\* and a self-play process is killed; Train.py runs on, unless the whole
\* machine went down.
Disconnect(w) ==
  /\ link' = [link EXCEPT ![w] = FALSE]
  /\ toWorker' = [toWorker EXCEPT ![w] = <<>>]
  /\ \/ w \in OpWorker /\ UNCHANGED running
     \/ running' = [running EXCEPT ![w] = NoJob]
  /\ UNCHANGED <<mainVars, sharedVars, status, idle>>

\* A connection breaks; what the server had not read yet is lost from some
\* point on.
DropConnection(w) ==
  /\ link[w]
  /\ drops < MaxDrops
  /\ drops' = drops + 1
  /\ Disconnect(w)
  /\ \E n \in 0 .. Len(toServer[w]) :
       toServer' = [toServer EXCEPT ![w] = SubSeq(@, 1, n)]

\* The script finds its socket closed by the server.
ClosedByServer(w) ==
  /\ link[w]
  /\ status[w] # "open"
  /\ Disconnect(w)
  /\ UNCHANGED <<toServer, drops>>

Machine(w) ==
  \/ ReadInfo(w) \/ ReadJobSelfplay(w) \/ ReadJobOptimization(w) \/ ReadJobDone(w)
  \/ PlayGame(w) \/ FinishTraining(w) \/ DropConnection(w) \/ ClosedByServer(w)

-------------------------------------------------------------------------------
Next == Main \/ \E w \in Worker : Io(w) \/ Machine(w)

Spec == Init /\ [][Next]_vars

(***************************************************************************)
(* Fairness.  The main thread and the io thread are always scheduled; a    *)
(* handler that waits for m_workerMutex gets it in the end although the    *)
(* main thread takes it again and again; a machine's script, self-play     *)
(* process and training go on.  No connection has to break.                *)
(***************************************************************************)
Fairness ==
  /\ WF_vars(Main)
  /\ \A w \in Worker :
       /\ SF_vars(Connect(w)) /\ SF_vars(HandleInfo(w))
       /\ SF_vars(CloseBrokenConnection(w))
       /\ WF_vars(HandleSelfPlay(w)) /\ WF_vars(HandleOptimizationDone(w))
       /\ WF_vars(HandleJoinedLine(w))
       /\ WF_vars(ReadInfo(w) \/ ReadJobSelfplay(w) \/ ReadJobOptimization(w)
                  \/ ReadJobDone(w))
       /\ WF_vars(PlayGame(w)) /\ WF_vars(FinishTraining(w))
       /\ WF_vars(ClosedByServer(w))

FairSpec == Spec /\ Fairness

-------------------------------------------------------------------------------
(* Properties *)

MainState == {"spLock", "spSend", "spPop", "spCheck",
              "opStart", "opConf", "opCheck", "opSend", "join"}
InSelfPlay == pc \in {"spLock", "spSend", "spPop", "spCheck"}

\* Every variable keeps its type; no game is recorded beyond the iteration's quota
\* and none after the last iteration.
TypeOK ==
  /\ pc \in MainState
  /\ iteration \in StartIteration .. EndIteration + 1
  /\ pc # "join" => iteration \in Iteration
  /\ totalGames \in 0 .. NumGame
  /\ pc \in {"spSend", "spPop", "spCheck"} => totalGames < NumGame
  /\ popped \in Int
  /\ conf \in Job
  /\ sgf \in [Iteration -> SUBSET Int]
  /\ bOptimization \in BOOLEAN
  /\ modelIteration \in Int
  /\ selfPlayQueue \in Seq(Int)
  /\ status \in [Worker -> {"out", "open", "ended"}]
  /\ idle \in [Worker -> BOOLEAN]
  /\ toWorker \in [Worker -> Seq(Command)]
  /\ toServer \in [Worker -> Seq(Line)]
  /\ link \in [Worker -> BOOLEAN]
  /\ running \in [Worker -> Job]
  /\ drops \in 0 .. MaxDrops

\* A training only reads sgf files that are complete: the last file of its
\* replay window belongs to a past iteration or has all its games.
TrainsOnFinishedFiles ==
  \A w \in OpWorker :
    running[w] # NoJob =>
      \/ running[w].last < iteration
      \/ running[w].last = iteration /\ totalGames = NumGame

\* The server never goes back to an earlier model.
ModelNeverDecreases == [][modelIteration' >= modelIteration]_vars

===============================================================================
