---------------------------- MODULE SelfPlayBatch -----------------------------
(***************************************************************************)
(* A self-play process: the master thread (ZeroSelfPlayMaster::run), one   *)
(* slave thread per GPU, which runs its network on the whole batch, and    *)
(* NumCPU slave threads, which advance the games (ZeroMCTS).  Master and   *)
(* slaves meet at two barriers per slave; the CPU slaves share an index.   *)
(*                                                                         *)
(* A position is the game it belongs to, how far that game is, and the     *)
(* colour to move; trees, policies and values are left out.  A network     *)
(* has one input, and one output, per slot of its batch; a game with       *)
(* rotations uses several slots.                                           *)
(***************************************************************************)
EXTENDS Integers

CONSTANTS NumGPU,      \* length of Configure::GPU_LIST
          NumCPU,      \* Configure::NUM_THREAD
          BatchSize,   \* Configure::NET_BATCH_SIZE, games per network
          NetRotation, \* Configure::NET_ROTATION
          SimCount,    \* Configure::MCTS_SIMULATION_COUNT
          MaxMoves     \* bound: the rules end a game at this length

ASSUME ThreadAssumption == NumGPU \in Nat \ {0} /\ NumCPU \in Nat \ {0}
ASSUME NetAssumption == BatchSize \in Nat \ {0} /\ NetRotation \in Nat
\* One simulation would expand the root and visit no child to play.
ASSUME SimAssumption == SimCount \in Nat /\ SimCount >= 2
ASSUME MoveAssumption == MaxMoves \in Nat \ {0}

VARIABLES
  pc,            \* where the master thread is
  next,          \* i, the slave the master starts or finishes next
  bForwardGPU,   \* m_bForwardGPU
  mctsIndex,     \* m_mctsIndex
  slave,         \* where each slave thread is
  gameIndex,     \* gameIndex, the game a CPU slave has taken
  game,          \* m_vZeroMCTS
  data,          \* m_inputs, m_vColor, m_vLegalMove, m_vSymmetry per network
  output         \* m_vProbability and the values, per network

masterVars == <<pc, next, bForwardGPU>>
slaveVars == <<slave, gameIndex>>
netVars == <<data, output>>
vars == <<masterVars, mctsIndex, slaveVars, game, netVars>>

NumThread == NumGPU + NumCPU          \* m_nThread
GPU == 0 .. NumGPU - 1
CPU == NumGPU .. NumThread - 1
Slave == 0 .. NumThread - 1

NumGame == NumGPU * BatchSize
Game == 0 .. NumGame - 1
NetOf(g) == g \div BatchSize          \* m_network
BatchID(g) == g % BatchSize           \* BATCH_ID

Rotation == IF NetRotation = 0 THEN 1 ELSE NetRotation
Slot == 0 .. BatchSize * Rotation - 1

\* Mutant of Slots: the rotations are not multiplied into startBatchID.
SlotsNextTo(g) == {BatchID(g) + i : i \in 0 .. Rotation - 1}

\* The slots of a game in its network, from startBatchID.
Slots(g) == {BatchID(g) * Rotation + i : i \in 0 .. Rotation - 1}

Color == {"black", "white"}
AgainstColor(c) == IF c = "black" THEN "white" ELSE "black"

None == -1
Position == [game : Game, moves : 0 .. MaxMoves, sim : 0 .. SimCount, turn : Color]
NoPosition == [game |-> None, moves |-> 0, sim |-> 0, turn |-> "black"]

\* A game: its moves, the colour to move, the simulations of the tree, what
\* newTree and backupGame kept for the search, the colour of the root's
\* children, and the leaf at the end of m_vSelectNodePath.
NewGame == [moves |-> 0, turn |-> "black", sim |-> 0,
            root |-> "black", backup |-> None, child |-> "black",
            leaf |-> NoPosition]

Init ==
  /\ pc = "initialize" /\ next = 0
  /\ bForwardGPU = FALSE
  /\ mctsIndex = 0
  /\ slave = [s \in Slave |-> "initialize"]
  /\ gameIndex = [s \in Slave |-> None]
  /\ game = [g \in Game |-> NewGame]
  /\ data = [n \in GPU |-> [k \in Slot |-> NoPosition]]
  /\ output = [n \in GPU |-> [k \in Slot |-> NoPosition]]

-----------------------------------------------------------------------------
(* The master thread. *)

\* The slaves of the phase, from first to last.
FirstSlave == IF bForwardGPU THEN 0 ELSE NumGPU

LastSlave == IF bForwardGPU THEN NumGPU - 1 ELSE NumThread - 1

\* initialize(): wait for the slaves, then allocate the games.
Initialize ==
  /\ pc = "initialize"
  /\ \A s \in Slave : slave[s] # "initialize"
  /\ pc' = "phase"
  /\ UNCHANGED <<next, bForwardGPU, mctsIndex, slaveVars, game, netVars>>

\* Mutant of BeginPhase: the index is not reset.
BeginPhaseKeepingIndex ==
  /\ pc = "phase"
  /\ next' = FirstSlave
  /\ pc' = "start"
  /\ UNCHANGED <<bForwardGPU, mctsIndex, slaveVars, game, netVars>>

\* The head of the loop of run().
BeginPhase ==
  /\ pc = "phase"
  /\ mctsIndex' = 0
  /\ next' = FirstSlave
  /\ pc' = "start"
  /\ UNCHANGED <<bForwardGPU, slaveVars, game, netVars>>

\* startRun(): both sides of m_barStart arrive and leave.
StartRun ==
  /\ pc = "start"
  /\ slave[next] = "start"
  /\ slave' = [slave EXCEPT ![next] = "job"]
  /\ IF next < LastSlave
     THEN next' = next + 1 /\ UNCHANGED pc
     ELSE next' = FirstSlave /\ pc' = "finish"
  /\ UNCHANGED <<bForwardGPU, mctsIndex, gameIndex, game, netVars>>

\* Mutant of FinishRun: the master does not wait for the slave.
FinishRunAtOnce ==
  /\ pc = "finish"
  /\ slave' = [slave EXCEPT ![next] = IF @ = "finish" THEN "start" ELSE @]
  /\ IF next < LastSlave
     THEN next' = next + 1 /\ UNCHANGED <<pc, bForwardGPU>>
     ELSE pc' = "phase" /\ bForwardGPU' = ~bForwardGPU /\ UNCHANGED next
  /\ UNCHANGED <<mctsIndex, gameIndex, game, netVars>>

\* finishRun(): both sides of m_barFinish arrive and leave.
FinishRun ==
  /\ pc = "finish"
  /\ slave[next] = "finish"
  /\ slave' = [slave EXCEPT ![next] = "start"]
  /\ IF next < LastSlave
     THEN next' = next + 1 /\ UNCHANGED <<pc, bForwardGPU>>
     ELSE pc' = "phase" /\ bForwardGPU' = ~bForwardGPU /\ UNCHANGED next
  /\ UNCHANGED <<mctsIndex, gameIndex, game, netVars>>

-----------------------------------------------------------------------------
(* The slave threads. *)

InitializeSlave(s) ==
  /\ slave[s] = "initialize"
  /\ slave' = [slave EXCEPT ![s] = "start"]
  /\ UNCHANGED <<masterVars, mctsIndex, gameIndex, game, netVars>>

\* Network::forward, on the whole batch.
Forward(s) ==
  /\ s \in GPU
  /\ slave[s] = "job"
  /\ output' = [output EXCEPT ![s] = data[s]]
  /\ slave' = [slave EXCEPT ![s] = "finish"]
  /\ UNCHANGED <<masterVars, mctsIndex, gameIndex, game, data>>

\* Mutant of GetNextMCTSIndex: off by one at the end of the games.
GetNextMCTSIndexPastEnd(s) ==
  /\ s \in CPU
  /\ slave[s] = "job"
  /\ IF mctsIndex > NumGame
     THEN /\ slave' = [slave EXCEPT ![s] = "finish"]
          /\ UNCHANGED <<mctsIndex, gameIndex>>
     ELSE /\ gameIndex' = [gameIndex EXCEPT ![s] = mctsIndex]
          /\ mctsIndex' = mctsIndex + 1
          /\ slave' = [slave EXCEPT ![s] = "after"]
  /\ UNCHANGED <<masterVars, game, netVars>>

\* getNextMCTSIndex, under m_mutex.
GetNextMCTSIndex(s) ==
  /\ s \in CPU
  /\ slave[s] = "job"
  /\ IF mctsIndex >= NumGame
     THEN /\ slave' = [slave EXCEPT ![s] = "finish"]
          /\ UNCHANGED <<mctsIndex, gameIndex>>
     ELSE /\ gameIndex' = [gameIndex EXCEPT ![s] = mctsIndex]
          /\ mctsIndex' = mctsIndex + 1
          /\ slave' = [slave EXCEPT ![s] = "after"]
  /\ UNCHANGED <<masterVars, game, netVars>>

\* The game a CPU slave holds goes from one step of its job to the next.
Goto(s, from, to) ==
  /\ slave[s] = from
  /\ slave' = [slave EXCEPT ![s] = to]

\* What a game knows of the network's answer: the colour of the moves of
\* getProbability is read at slot batchID, everything else at its own slots.
PolicyColor(g) == data[NetOf(g)][BatchID(g)].turn

\* The game after evaluation, expansion, update and rollbackGame.
Simulated(g) ==
  [game[g] EXCEPT !.sim = @ + 1,
                  !.moves = game[g].backup,
                  !.child = IF game[g].sim = 0 THEN PolicyColor(g) ELSE @]

\* decideMCTSAction and play, at the end of the simulations.
Played(m) == [m EXCEPT !.moves = @ + 1, !.turn = AgainstColor(m.child)]

\* Nothing is to be evaluated before the first selection of a game.
SkipAfterForward(s) ==
  /\ Goto(s, "after", "before")
  /\ game[gameIndex[s]].leaf = NoPosition
  /\ UNCHANGED <<masterVars, mctsIndex, gameIndex, game, netVars>>

\* runMCTSSimulationAfterForward without a move.
RunAfterForward(s) ==
  LET g == gameIndex[s]
  IN  /\ Goto(s, "after", "before")
      /\ game[g].leaf # NoPosition
      /\ game[g].sim + 1 < SimCount
      /\ game' = [game EXCEPT ![g] = Simulated(g)]
      /\ UNCHANGED <<masterVars, mctsIndex, gameIndex, netVars>>

\* runMCTSSimulationAfterForward with the last simulation and the move; the
\* rules say whether it ends the game.
RunAfterForwardAndPlay(s) ==
  LET g == gameIndex[s]
      m == Played(Simulated(g))
  IN  /\ slave[s] = "after"
      /\ game[g].leaf # NoPosition
      /\ game[g].sim + 1 >= SimCount
      /\ game' = [game EXCEPT ![g] = m]
      /\ \E isEndGame \in BOOLEAN :
           /\ m.moves = MaxMoves => isEndGame
           /\ Goto(s, "after", IF isEndGame THEN "endgame" ELSE "before")
      /\ UNCHANGED <<masterVars, mctsIndex, gameIndex, netVars>>

\* handleEndGame: newTree (with the turn of the old game), then reset.
HandleEndGame(s) ==
  LET g == gameIndex[s]
  IN  /\ Goto(s, "endgame", "before")
      /\ game' = [game EXCEPT ![g] = [NewGame EXCEPT !.root = game[g].turn,
                                                     !.child = game[g].child]]
      /\ UNCHANGED <<masterVars, mctsIndex, gameIndex, netVars>>

\* Mutant of Rooted: the tree newGame made is taken for a fresh one.
RootedAtEnd(m) ==
  IF m.sim >= SimCount
  THEN [m EXCEPT !.sim = 0, !.root = m.turn, !.backup = m.moves]
  ELSE m

\* newTree and backupGame, when the last tree is done or none was begun.
Rooted(m) ==
  IF m.sim >= SimCount \/ m.sim = 0
  THEN [m EXCEPT !.sim = 0, !.root = m.turn, !.backup = m.moves]
  ELSE m

\* The colours a leaf may have: the root, one of its children, any node.
LeafTurns(m) ==
  CASE m.sim = 0 -> {m.turn}
    [] m.sim = 1 -> {AgainstColor(m.child)}
    [] OTHER -> Color

\* runMCTSSimulationBeforeForward: a new tree if one is due, selection, and
\* set_data for every rotation.
RunBeforeForward(s) ==
  LET g == gameIndex[s]
      m == Rooted(game[g])
  IN  /\ Goto(s, "before", "job")
      /\ \E turn \in LeafTurns(m) :
           LET leaf == [game |-> g, moves |-> m.moves, sim |-> m.sim, turn |-> turn]
           IN  /\ game' = [game EXCEPT ![g] = [m EXCEPT !.leaf = leaf]]
               /\ data' = [data EXCEPT ![NetOf(g)] =
                             [k \in Slot |-> IF k \in Slots(g) THEN leaf ELSE @[k]]]
      /\ UNCHANGED <<masterVars, mctsIndex, gameIndex, output>>

MasterStep == Initialize \/ BeginPhase \/ StartRun \/ FinishRun

SlaveStep(s) ==
  \/ InitializeSlave(s) \/ Forward(s) \/ GetNextMCTSIndex(s)
  \/ SkipAfterForward(s) \/ RunAfterForward(s) \/ RunAfterForwardAndPlay(s)
  \/ HandleEndGame(s) \/ RunBeforeForward(s)

Next == MasterStep \/ \E s \in Slave : SlaveStep(s)

Spec == Init /\ [][Next]_vars

\* Every thread runs: the mutex is held within a step only, the barriers
\* release both sides.
FairSpec ==
  /\ Spec
  /\ WF_vars(MasterStep)
  /\ \A s \in Slave : WF_vars(SlaveStep(s))

-----------------------------------------------------------------------------
(* Properties *)

TypeOK ==
  /\ pc \in {"initialize", "phase", "start", "finish"}
  /\ next \in Slave
  /\ bForwardGPU \in BOOLEAN
  /\ mctsIndex \in 0 .. NumGame
  /\ slave \in [Slave -> {"initialize", "start", "job", "finish",
                          "after", "endgame", "before"}]
  /\ gameIndex \in [Slave -> Game \cup {None}]
  /\ game \in [Game -> [moves : 0 .. MaxMoves, turn : Color, sim : 0 .. SimCount,
                        root : Color, backup : None .. MaxMoves, child : Color,
                        leaf : Position \cup {NoPosition}]]
  /\ data \in [GPU -> [Slot -> Position \cup {NoPosition}]]
  /\ output \in [GPU -> [Slot -> Position \cup {NoPosition}]]

\* A slave holds game g between its evaluation and its next selection.
Evaluated(g) ==
  \E s \in CPU : gameIndex[s] = g /\ slave[s] \in {"endgame", "before"}

Answered(g) == \A k \in Slots(g) : output[NetOf(g)][k] = game[g].leaf

\* A game that evaluates its leaf reads, at each of its slots, the network's
\* output for that very leaf: no other game wrote there, no forward was missed
\* and the game was not advanced twice (ZeroMCTS::evaluation, BATCH_ID).
EvaluatesOwnLeaf ==
  \A s \in CPU : LET g == gameIndex[s] IN
    slave[s] = "after" /\ game[g].leaf # NoPosition => Answered(g)

\* The moves the policy gives a game have the colour to move at its leaf:
\* they can be expanded (BaseMCTS::expansion, "Expand illegal move").
PolicyOfOwnColor ==
  \A s \in CPU : LET g == gameIndex[s] IN
    slave[s] = "after" /\ game[g].leaf # NoPosition
      => PolicyColor(g) = game[g].leaf.turn

\* A search in progress is a search of the position the game is in: its root
\* has the game's turn colour and rolling back ends at the game's last move.
SearchesCurrentPosition ==
  \A g \in Game : game[g].leaf # NoPosition /\ ~Evaluated(g)
    => game[g].root = game[g].turn /\ game[g].backup = game[g].moves

\* While a network runs, every game has been advanced equally often: no thread
\* crosses a phase and the shared index gives out each game once per phase.
Lockstep ==
  (\E n \in GPU : slave[n] = "job")
    => /\ \A s \in CPU : slave[s] = "start"
       /\ \A g, h \in Game : game[g].leaf # NoPosition
                             /\ game[g].sim = game[h].sim

\* The batch implements one sequential search per game (ZeroMCTS::run).
Search == INSTANCE SearchLoop
  WITH Network <- GPU,
       stage <- [g \in Game |->
                   IF game[g].leaf = NoPosition \/ Evaluated(g) THEN "idle"
                   ELSE IF Answered(g) THEN "answered" ELSE "asked"],
       sim <- [g \in Game |-> game[g].sim],
       moves <- [g \in Game |-> game[g].moves]

ImplementsSearch == Search!Spec

\* Every game is finished, and begun again, for ever: no barrier, phase or
\* index leaves a game behind.
EveryGameFinishes ==
  \A g \in Game : /\ []<>(game[g].moves = 0)
                  /\ []<>(game[g].moves > 0)

===============================================================================
