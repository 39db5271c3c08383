-------------------------- MODULE SelfPlayBatchProofs --------------------------
(***************************************************************************)
(* What SelfPlayBatch's run shows for two networks and two threads holds   *)
(* for any number of networks, threads, games, rotations and simulations.  *)
(***************************************************************************)
EXTENDS SelfPlayBatch, TLAPS

-----------------------------------------------------------------------------
(* The inductive invariant. *)

Working == {"job", "after", "endgame", "before", "finish"}
Holding == {"after", "endgame", "before"}

\* Where the slaves are around the barriers: those of the phase before next
\* have passed the barrier the master is at, all others wait at the start.
BarrierInv ==
  /\ pc = "initialize" =>
       /\ ~bForwardGPU
       /\ \A s \in Slave : slave[s] \in {"initialize", "start"}
  /\ pc = "phase" => \A s \in Slave : slave[s] = "start"
  /\ pc \in {"start", "finish"} =>
       /\ FirstSlave <= next /\ next <= LastSlave
       /\ \A s \in Slave : s < FirstSlave \/ LastSlave < s => slave[s] = "start"
  /\ pc = "start" =>
       \A s \in Slave : /\ s >= next => slave[s] = "start"
                        /\ FirstSlave <= s /\ s < next => slave[s] \in Working
  /\ pc = "finish" =>
       \A s \in Slave : /\ s < next => slave[s] = "start"
                        /\ next <= s /\ s <= LastSlave => slave[s] \in Working
  /\ \A n \in GPU : slave[n] \notin Holding

\* The shared index gives out each game once: slaves hold different games
\* below it, and a slave finishes when there are no more.
IndexInv ==
  /\ ~bForwardGPU /\ pc \in {"initialize", "phase"} => mctsIndex = 0
  /\ bForwardGPU /\ pc \in {"start", "finish"} => mctsIndex = 0
  /\ bForwardGPU /\ pc = "phase" => mctsIndex = NumGame
  /\ \A s \in CPU : slave[s] = "finish" => mctsIndex = NumGame
  /\ \A s \in CPU : slave[s] \in Holding =>
       gameIndex[s] \in Game /\ gameIndex[s] < mctsIndex
  /\ \A s, t \in CPU :
       slave[s] \in Holding /\ slave[t] \in Holding /\ gameIndex[s] = gameIndex[t]
         => s = t

Held(g, where) == \E s \in CPU : gameIndex[s] = g /\ slave[s] = where

\* g has not been advanced in this phase of the CPU slaves.
Fresh(g) == ~bForwardGPU /\ (g >= mctsIndex \/ Held(g, "after"))

\* The simulation g is in once it has been advanced.
Due(g) ==
  LET m == game[g]
  IN  IF Fresh(g)
      THEN IF m.leaf = NoPosition \/ m.sim + 1 >= SimCount THEN 0 ELSE m.sim + 1
      ELSE IF m.sim >= SimCount THEN 0 ELSE m.sim

\* Network n has run in this phase of the GPU slaves.
Forwarded(n) ==
  /\ bForwardGPU /\ pc \in {"start", "finish"}
  /\ slave[n] = "finish" \/ (pc = "finish" /\ n < next)

\* What a game's record says, by who holds it.
GameInv(g) ==
  LET m == game[g]
      current == m.root = m.turn /\ m.backup = m.moves
  IN  /\ m.leaf = NoPosition => m.sim = 0
      /\ ~Evaluated(g) =>
           /\ m.sim < SimCount /\ m.moves < MaxMoves
           /\ m.leaf # NoPosition => m.leaf.sim = m.sim /\ current
           /\ ~Fresh(g) => m.leaf # NoPosition
      /\ Held(g, "endgame") => m.sim = SimCount
      /\ Held(g, "before") =>
           m.moves < MaxMoves /\ (0 < m.sim /\ m.sim < SimCount => current)

\* What a game's slots hold: its leaf goes in; the output is for it until the
\* game is advanced, and for an earlier simulation until the network has run.
SlotInv(g) ==
  \A k \in Slots(g) :
    LET in == data[NetOf(g)][k]
        out == output[NetOf(g)][k]
    IN  /\ game[g].leaf # NoPosition => in = game[g].leaf
        /\ Fresh(g) => out = game[g].leaf
        /\ ~Fresh(g) /\ ~Forwarded(NetOf(g)) =>
             out = NoPosition \/ out.sim # Due(g)

GamesInv ==
  /\ \A g \in Game : GameInv(g) /\ SlotInv(g)
  /\ \A n \in GPU : Forwarded(n) => output[n] = data[n]
  /\ \A g, h \in Game : Due(g) = Due(h)

IInv == TypeOK /\ BarrierInv /\ IndexInv /\ GamesInv

-----------------------------------------------------------------------------
(* Arithmetic of games, networks and slots. *)

LEMMA Dividing ==
  ASSUME NEW a \in Nat, NEW b \in Nat \ {0}
  PROVE  /\ a \div b \in Nat /\ a % b \in 0 .. b - 1
         /\ a = b * (a \div b) + (a % b)
OBVIOUS

LEMMA DivLess ==
  ASSUME NEW a \in Nat, NEW b \in Nat \ {0}, NEW c \in Nat, a < c * b
  PROVE  a \div b < c
BY SMT

LEMMA SlotBound ==
  ASSUME NEW B \in Nat \ {0}, NEW R \in Nat \ {0},
         NEW b \in 0 .. B - 1, NEW i \in 0 .. R - 1
  PROVE  b * R + i \in 0 .. B * R - 1
<1>1. b * R \in Nat /\ B * R \in Nat /\ (B - 1) * R = B * R - R
  OBVIOUS
<1>2. b * R <= (B - 1) * R
  OBVIOUS
<1> QED BY <1>1, <1>2

LEMMA SlotsApart ==
  ASSUME NEW R \in Nat \ {0}, NEW b \in Nat, NEW c \in Nat, b < c,
         NEW i \in 0 .. R - 1, NEW j \in 0 .. R - 1
  PROVE  b * R + i # c * R + j
<1>1. b * R \in Nat /\ c * R \in Nat /\ (b + 1) * R = b * R + R
  OBVIOUS
<1>2. (b + 1) * R <= c * R
  OBVIOUS
<1> QED BY <1>1, <1>2

LEMMA ThreadFacts ==
  /\ NumGPU \in Nat \ {0} /\ NumCPU \in Nat \ {0} /\ NumThread = NumGPU + NumCPU
  /\ GPU \subseteq Slave /\ CPU \subseteq Slave /\ Slave = GPU \cup CPU
  /\ GPU \cap CPU = {}
BY ThreadAssumption DEF GPU, CPU, Slave, NumThread

LEMMA GameFacts ==
  /\ NumGame \in Nat
  /\ \A g \in Game : NetOf(g) \in GPU /\ BatchID(g) \in 0 .. BatchSize - 1
  /\ \A g, h \in Game : NetOf(g) = NetOf(h) /\ BatchID(g) = BatchID(h) => g = h
<1>1. NumGame \in Nat /\ NumGame = NumGPU * BatchSize
  BY ThreadAssumption, NetAssumption DEF NumGame
<1>2. ASSUME NEW g \in Game
      PROVE  /\ NetOf(g) \in GPU /\ BatchID(g) \in 0 .. BatchSize - 1
             /\ g = BatchSize * NetOf(g) + BatchID(g)
  <2>1. g \in Nat /\ g < NumGPU * BatchSize
    BY <1>1 DEF Game
  <2>2. g \div BatchSize < NumGPU
    BY <2>1, DivLess, ThreadAssumption, NetAssumption
  <2>3. /\ g \div BatchSize \in Nat /\ g % BatchSize \in 0 .. BatchSize - 1
        /\ g = BatchSize * (g \div BatchSize) + (g % BatchSize)
    BY <2>1, Dividing, NetAssumption
  <2> QED BY <2>2, <2>3, ThreadAssumption DEF NetOf, BatchID, GPU
<1> QED BY <1>1, <1>2

LEMMA SlotFacts ==
  /\ \A g \in Game : Slots(g) \subseteq Slot /\ Slots(g) # {}
  /\ \A g, h \in Game : g # h /\ NetOf(g) = NetOf(h) => Slots(g) \cap Slots(h) = {}
<1>1. Rotation \in Nat \ {0}
  BY NetAssumption DEF Rotation
<1>2. ASSUME NEW g \in Game  PROVE Slots(g) \subseteq Slot /\ Slots(g) # {}
  <2>1. BatchID(g) \in 0 .. BatchSize - 1
    BY GameFacts
  <2>2. \A i \in 0 .. Rotation - 1 : BatchID(g) * Rotation + i \in Slot
    BY <1>1, <2>1, SlotBound, NetAssumption DEF Slot
  <2> QED BY <1>1, <2>2 DEF Slots
<1>3. ASSUME NEW g \in Game, NEW h \in Game, g # h, NetOf(g) = NetOf(h)
      PROVE  Slots(g) \cap Slots(h) = {}
  <2>1. BatchID(g) \in Nat /\ BatchID(h) \in Nat /\ BatchID(g) # BatchID(h)
    BY <1>3, GameFacts, NetAssumption
  <2>2. CASE BatchID(g) < BatchID(h)
    <3>1. \A i, j \in 0 .. Rotation - 1 :
            BatchID(g) * Rotation + i # BatchID(h) * Rotation + j
      BY <1>1, <2>1, <2>2, SlotsApart
    <3> QED BY <3>1 DEF Slots
  <2>3. CASE BatchID(h) < BatchID(g)
    <3>1. \A i, j \in 0 .. Rotation - 1 :
            BatchID(h) * Rotation + i # BatchID(g) * Rotation + j
      BY <1>1, <2>1, <2>3, SlotsApart
    <3> QED BY <3>1 DEF Slots
  <2> QED BY <2>1, <2>2, <2>3
<1> QED BY <1>2, <1>3

-----------------------------------------------------------------------------
(* Helper facts on the invariant *)

\* A slave that holds a game does so in a phase of the CPU slaves, alone.
LEMMA HolderFacts ==
  ASSUME IInv, NEW s \in CPU, slave[s] \in Holding
  PROVE  /\ ~bForwardGPU /\ pc \in {"start", "finish"}
         /\ gameIndex[s] \in Game /\ gameIndex[s] < mctsIndex
         /\ \A w \in Holding : Held(gameIndex[s], w) <=> slave[s] = w
         /\ Evaluated(gameIndex[s]) <=> slave[s] # "after"
         /\ Fresh(gameIndex[s]) <=> slave[s] = "after"
<1>1. gameIndex[s] \in Game /\ gameIndex[s] < mctsIndex
  BY DEF IInv, IndexInv
<1>2. s \in Slave /\ s \in Nat /\ s >= NumGPU
  BY ThreadFacts DEF CPU
<1>3. slave[s] \notin {"initialize", "start"}
  BY DEF Holding
<1>4. ~bForwardGPU /\ pc \in {"start", "finish"}
  <2>1. pc \in {"start", "finish"}
    BY <1>2, <1>3 DEF IInv, TypeOK, BarrierInv
  <2>2. ~(LastSlave < s)
    BY <1>2, <1>3, <2>1 DEF IInv, BarrierInv
  <2> QED BY <1>2, <2>1, <2>2, ThreadFacts DEF LastSlave
<1>5. \A w \in Holding : Held(gameIndex[s], w) <=> slave[s] = w
  BY DEF IInv, IndexInv, Held
<1>6. Evaluated(gameIndex[s]) <=> slave[s] # "after"
  BY DEF IInv, IndexInv, Evaluated, Holding
<1>7. mctsIndex \in Nat /\ gameIndex[s] \in Nat
  BY <1>1, GameFacts DEF IInv, TypeOK, Game
<1> QED BY <1>1, <1>4, <1>5, <1>6, <1>7 DEF Fresh, Holding

\* A step that changes neither games nor slots nor who holds what keeps it.
LEMMA GamesKept ==
  ASSUME GamesInv, UNCHANGED <<game, netVars>>,
         \A g \in Game : /\ Fresh(g)' <=> Fresh(g)
                         /\ Evaluated(g)' <=> Evaluated(g)
                         /\ Held(g, "endgame")' <=> Held(g, "endgame")
                         /\ Held(g, "before")' <=> Held(g, "before"),
         \A n \in GPU : Forwarded(n)' <=> Forwarded(n)
  PROVE  GamesInv'
<1>1. \A g \in Game : Due(g)' = Due(g)
  BY DEF Due
<1>2. \A g \in Game : GameInv(g)'
  BY DEF GamesInv, GameInv
<1>3. \A g \in Game : SlotInv(g)'
  BY <1>1, GameFacts DEF GamesInv, SlotInv, netVars
<1> QED BY <1>1, <1>2, <1>3 DEF GamesInv, netVars

\* Who holds a game depends on the CPU slaves that hold one.
LEMMA HoldersKept ==
  ASSUME \A s \in CPU : slave[s] \in Holding \/ slave'[s] \in Holding
           => slave'[s] = slave[s] /\ gameIndex'[s] = gameIndex[s]
  PROVE  /\ \A g, w : w \in Holding => (Held(g, w)' <=> Held(g, w))
         /\ \A g : Evaluated(g)' <=> Evaluated(g)
BY DEF Held, Evaluated, Holding

GameRecord == [moves : 0 .. MaxMoves, turn : Color, sim : 0 .. SimCount,
               root : Color, backup : None .. MaxMoves, child : Color,
               leaf : Position \cup {NoPosition}]

SlaveState == {"initialize", "start", "job", "finish", "after", "endgame", "before"}

LEMMA InitInv == Init => IInv
<1> SUFFICES ASSUME Init PROVE IInv
  OBVIOUS
<1> USE DEF Init
<1>1. NoPosition \in Position \cup {NoPosition}
      /\ NewGame \in GameRecord
  BY SimAssumption, MoveAssumption DEF NewGame, NoPosition, Color, None, GameRecord
<1>2. TypeOK
  <2>1. game \in [Game -> GameRecord] /\ mctsIndex \in 0 .. NumGame /\ next \in Slave
    BY <1>1, GameFacts, ThreadFacts DEF Slave, GameRecord
  <2> HIDE DEF Init
  <2>2. /\ data \in [GPU -> [Slot -> Position \cup {NoPosition}]]
        /\ output \in [GPU -> [Slot -> Position \cup {NoPosition}]]
    BY DEF Init
  <2> QED BY <2>1, <2>2 DEF TypeOK, Init, GameRecord
<1>3. BarrierInv
  BY ThreadFacts DEF BarrierInv, Holding
<1>4. IndexInv
  BY ThreadFacts DEF IndexInv, Holding
<1>5. \A s \in CPU : slave[s] \notin Holding
  BY ThreadFacts DEF Holding
<1>6. \A g \in Game : Fresh(g) /\ ~Evaluated(g)
                      /\ ~Held(g, "endgame") /\ ~Held(g, "before")
  BY <1>5 DEF Fresh, Evaluated, Held, Holding, Game
<1>7. \A g \in Game : GameInv(g) /\ Due(g) = 0
  BY <1>6, SimAssumption, MoveAssumption DEF GameInv, Due, NewGame
<1>8. \A g \in Game : SlotInv(g)
  BY <1>6, GameFacts, SlotFacts DEF SlotInv, NewGame
<1> QED BY <1>2, <1>3, <1>4, <1>7, <1>8 DEF IInv, GamesInv, Forwarded

-----------------------------------------------------------------------------
(* The master thread: one lemma per action. *)

LEMMA InitializeInv == IInv /\ Initialize => IInv'
<1> SUFFICES ASSUME IInv, Initialize  PROVE IInv'
  OBVIOUS
<1> USE DEF Initialize, slaveVars, netVars
<1>1. ~bForwardGPU /\ \A s \in Slave : slave[s] = "start"
  BY DEF IInv, BarrierInv
<1>2. TypeOK'
  BY DEF IInv, TypeOK
<1>3. BarrierInv'
  BY <1>1 DEF IInv, BarrierInv
<1>4. IndexInv'
  BY <1>1 DEF IInv, IndexInv
<1>5. GamesInv'
  <2>1. \A g \in Game : Fresh(g)' <=> Fresh(g)
    BY DEF Fresh, Held
  <2>2. \A n \in GPU : Forwarded(n)' <=> Forwarded(n)
    BY <1>1 DEF Forwarded
  <2> QED BY <2>1, <2>2, HoldersKept, GamesKept DEF IInv, Holding
<1> QED BY <1>2, <1>3, <1>4, <1>5 DEF IInv

LEMMA BeginPhaseInv == IInv /\ BeginPhase => IInv'
<1> SUFFICES ASSUME IInv, BeginPhase  PROVE IInv'
  OBVIOUS
<1> USE DEF BeginPhase, slaveVars, netVars
<1>1. \A s \in Slave : slave[s] = "start"
  BY DEF IInv, BarrierInv
<1>2. TypeOK'
  BY GameFacts, ThreadFacts DEF IInv, TypeOK, FirstSlave, Slave
<1>3. BarrierInv'
  BY <1>1, ThreadFacts
  DEF IInv, BarrierInv, FirstSlave, LastSlave, Slave, GPU, Holding
<1>4. IndexInv'
  BY <1>1, ThreadFacts DEF IInv, IndexInv, Holding
<1>5. GamesInv'
  <2>1. \A g \in Game : Fresh(g)' <=> Fresh(g)
    BY DEF Fresh, Held, IInv, IndexInv
  <2>2. \A n \in GPU : Forwarded(n)' <=> Forwarded(n)
    BY <1>1, ThreadFacts DEF Forwarded
  <2> QED BY <2>1, <2>2, HoldersKept, GamesKept DEF IInv, Holding
<1> QED BY <1>2, <1>3, <1>4, <1>5 DEF IInv

LEMMA StartRunInv == IInv /\ StartRun => IInv'
<1> SUFFICES ASSUME IInv, StartRun  PROVE IInv'
  OBVIOUS
<1> USE DEF StartRun, netVars
<1>1. /\ next \in Slave /\ slave \in [Slave -> SlaveState]
      /\ FirstSlave \in Slave /\ LastSlave \in Slave
      /\ FirstSlave' = FirstSlave /\ LastSlave' = LastSlave
      /\ next <= LastSlave /\ FirstSlave <= next
  BY ThreadFacts DEF IInv, TypeOK, BarrierInv, FirstSlave, LastSlave, Slave, SlaveState
<1>2. TypeOK'
  <2>1. next' \in Slave /\ slave' \in [Slave -> SlaveState]
    BY <1>1, ThreadFacts DEF Slave, SlaveState
  <2> QED BY <2>1 DEF IInv, TypeOK, SlaveState
<1>3. BarrierInv'
  <2>1. CASE next < LastSlave
    BY <1>1, <2>1, ThreadFacts DEF IInv, TypeOK, BarrierInv, Working, Holding, Slave
  <2>2. CASE ~(next < LastSlave)
    BY <1>1, <2>2, ThreadFacts DEF IInv, TypeOK, BarrierInv, Working, Holding, Slave
  <2> QED BY <2>1, <2>2
<1>4. IndexInv'
  BY <1>1, ThreadFacts DEF IInv, TypeOK, IndexInv, Holding
<1>5. GamesInv'
  <2>1. \A g \in Game : Fresh(g)' <=> Fresh(g)
    BY <1>1 DEF Fresh, Held, IInv, TypeOK
  <2>2. \A n \in GPU : Forwarded(n)' <=> Forwarded(n)
    BY <1>1, ThreadFacts DEF Forwarded, IInv, TypeOK, FirstSlave, GPU
  <2> QED BY <1>1, <2>1, <2>2, HoldersKept, GamesKept, ThreadFacts
          DEF IInv, TypeOK, Holding
<1> QED BY <1>2, <1>3, <1>4, <1>5 DEF IInv

\* Where the master and the slaves are when it finishes a slave.
LEMMA FinishFacts ==
  ASSUME IInv, FinishRun
  PROVE  /\ next \in Slave /\ slave \in [Slave -> SlaveState]
         /\ FirstSlave \in Slave /\ LastSlave \in Slave
         /\ next <= LastSlave /\ FirstSlave <= next
         /\ \A s \in Slave : s < next => slave[s] = "start"
         /\ \A s \in Slave : LastSlave < s => slave[s] = "start"
BY ThreadFacts DEF IInv, TypeOK, BarrierInv, FirstSlave, LastSlave, Slave, SlaveState,
                   FinishRun

LEMMA FinishRunTypes == IInv /\ FinishRun => TypeOK' /\ BarrierInv' /\ IndexInv'
<1> SUFFICES ASSUME IInv, FinishRun  PROVE TypeOK' /\ BarrierInv' /\ IndexInv'
  OBVIOUS
<1> USE DEF FinishRun, netVars
<1>1. TypeOK'
  <2>1. next' \in Slave /\ slave' \in [Slave -> SlaveState]
    BY FinishFacts, ThreadFacts DEF Slave, SlaveState
  <2> QED BY <2>1 DEF IInv, TypeOK, SlaveState
<1>2. BarrierInv'
  <2>1. CASE next < LastSlave
    <3>1. FirstSlave' = FirstSlave /\ LastSlave' = LastSlave
      BY <2>1 DEF FirstSlave, LastSlave
    <3> QED BY <2>1, <3>1, FinishFacts, ThreadFacts
            DEF IInv, BarrierInv, Holding, Working, Slave, SlaveState
  <2>2. CASE ~(next < LastSlave)
    <3>1. \A s \in Slave : slave'[s] = "start"
      BY <2>2, FinishFacts DEF Slave
    <3> QED BY <2>2, <3>1, ThreadFacts DEF BarrierInv, Holding
  <2> QED BY <2>1, <2>2
<1>3. IndexInv'
  <2>1. \A s \in CPU : slave'[s] # "start" => slave'[s] = slave[s]
    BY FinishFacts, ThreadFacts
  <2>2. CASE next < LastSlave
    BY <2>1, <2>2 DEF IInv, IndexInv, Holding
  <2>3. CASE ~(next < LastSlave)
    <3>1. ~bForwardGPU => mctsIndex = NumGame
      <4>1. ~bForwardGPU => next \in CPU
        BY <2>3, FinishFacts, ThreadFacts DEF LastSlave, FirstSlave, CPU, Slave
      <4> QED BY <4>1 DEF IInv, IndexInv
    <3> QED BY <2>1, <2>3, <3>1 DEF IInv, TypeOK, IndexInv, Holding
  <2> QED BY <2>2, <2>3
<1> QED BY <1>1, <1>2, <1>3

\* The end of a GPU phase: every game has its answer and is due once more.
LEMMA GPUPhaseEnds ==
  ASSUME IInv, FinishRun, bForwardGPU, ~(next < LastSlave)
  PROVE  GamesInv'
<1> USE DEF FinishRun, netVars
<1>1. /\ mctsIndex = 0 /\ ~bForwardGPU' /\ pc' = "phase"
      /\ UNCHANGED <<mctsIndex, gameIndex, game, data, output>>
  BY DEF IInv, IndexInv, TypeOK
<1>2. \A n \in GPU : Forwarded(n)
  BY FinishFacts, ThreadFacts DEF Forwarded, LastSlave, GPU, Slave
<1>3. \A s \in CPU : slave[s] = "start" /\ slave'[s] = "start"
  BY FinishFacts, ThreadFacts DEF LastSlave, CPU, Slave
<1>4. \A g \in Game : /\ ~Fresh(g) /\ ~Evaluated(g)
                      /\ Fresh(g)' /\ ~Evaluated(g)'
                      /\ ~Held(g, "endgame")' /\ ~Held(g, "before")'
  BY <1>1, <1>3 DEF Fresh, Evaluated, Held, Game
<1>5. \A g \in Game :
        /\ game[g].leaf # NoPosition /\ game[g].sim < SimCount
        /\ Due(g) = game[g].sim
        /\ Due(g)' = IF game[g].sim + 1 >= SimCount THEN 0 ELSE game[g].sim + 1
  <2> SUFFICES ASSUME NEW g \in Game
               PROVE  /\ game[g].leaf # NoPosition /\ game[g].sim < SimCount
                      /\ Due(g) = game[g].sim
                      /\ Due(g)' = IF game[g].sim + 1 >= SimCount
                                   THEN 0 ELSE game[g].sim + 1
    OBVIOUS
  <2>1. game[g].leaf # NoPosition /\ game[g].sim < SimCount
    BY <1>4 DEF IInv, GamesInv, GameInv
  <2>2. game[g].sim \in Nat /\ SimCount \in Nat
    BY SimAssumption DEF IInv, TypeOK
  <2> QED BY <1>1, <1>4, <2>1, <2>2 DEF Due
<1>6. \A g \in Game : GameInv(g)'
  BY <1>1, <1>4 DEF IInv, GamesInv, GameInv
<1>7. \A g \in Game : SlotInv(g)'
  BY <1>1, <1>2, <1>4, <1>5, GameFacts, SlotFacts DEF IInv, GamesInv, SlotInv
<1>8. \A g, h \in Game : Due(g)' = Due(h)'
  BY <1>5 DEF IInv, GamesInv
<1>9. \A n \in GPU : ~Forwarded(n)'
  BY <1>1 DEF Forwarded
<1> QED BY <1>6, <1>7, <1>8, <1>9 DEF GamesInv

LEMMA FinishRunInv == IInv /\ FinishRun => IInv'
<1> SUFFICES ASSUME IInv, FinishRun  PROVE IInv'
  OBVIOUS
<1> USE DEF FinishRun, netVars
<1>1. UNCHANGED <<mctsIndex, gameIndex, game, netVars>>
  OBVIOUS
<1>2. \A s \in CPU : slave[s] \in Holding \/ slave'[s] \in Holding
        => slave'[s] = slave[s] /\ gameIndex'[s] = gameIndex[s]
  BY FinishFacts, ThreadFacts DEF Holding
<1>3. GamesInv'
  <2>1. CASE next < LastSlave
    <3>1. \A g \in Game : Fresh(g)' <=> Fresh(g)
      BY <1>1, <1>2, <2>1, HoldersKept DEF Fresh, Holding
    <3>2. \A n \in GPU : Forwarded(n)' <=> Forwarded(n)
      BY <2>1, FinishFacts, ThreadFacts DEF Forwarded, GPU, Slave
    <3> QED BY <1>1, <1>2, <3>1, <3>2, HoldersKept, GamesKept DEF IInv, Holding
  <2>2. CASE ~(next < LastSlave) /\ ~bForwardGPU
    <3>1. \A s \in CPU : slave[s] \notin Holding
      BY <2>2, FinishFacts, ThreadFacts DEF CPU, Slave, Holding
    <3>2. mctsIndex = NumGame
      <4>1. next \in CPU
        BY <2>2, FinishFacts, ThreadFacts DEF LastSlave, FirstSlave, CPU, Slave
      <4> QED BY <4>1 DEF IInv, IndexInv
    <3>3. \A g \in Game : ~Fresh(g) /\ ~Fresh(g)'
      BY <2>2, <3>1, <3>2, GameFacts DEF Fresh, Held, Holding, Game, IInv, TypeOK
    <3>4. \A n \in GPU : ~Forwarded(n) /\ ~Forwarded(n)'
      BY <2>2 DEF Forwarded
    <3> QED BY <1>1, <1>2, <3>3, <3>4, HoldersKept, GamesKept DEF IInv, Holding
  <2> QED BY <2>1, <2>2, GPUPhaseEnds DEF IInv, TypeOK
<1> QED BY <1>3, FinishRunTypes DEF IInv

-----------------------------------------------------------------------------
(* The slave threads: one lemma per action. *)

\* In a phase every slave works or waits at the start.
LEMMA AtBarrier ==
  ASSUME TypeOK, BarrierInv, pc \in {"start", "finish"}, NEW s \in Slave
  PROVE  slave[s] \in Working \cup {"start"}
<1>1. /\ next \in Int /\ FirstSlave \in Int /\ LastSlave \in Int /\ s \in Int
      /\ FirstSlave <= next /\ next <= LastSlave
  BY ThreadFacts DEF TypeOK, BarrierInv, FirstSlave, LastSlave, Slave
<1>2. CASE s < FirstSlave \/ LastSlave < s
  BY <1>2 DEF BarrierInv
<1>3. CASE FirstSlave <= s /\ s <= LastSlave /\ s < next
  BY <1>1, <1>3 DEF BarrierInv
<1>4. CASE FirstSlave <= s /\ s <= LastSlave /\ next <= s
  BY <1>1, <1>4 DEF BarrierInv
<1> QED BY <1>1, <1>2, <1>3, <1>4

\* The CPU slaves work in their own phases.
LEMMA CPUAtWork ==
  ASSUME TypeOK, BarrierInv, NEW s \in CPU, slave[s] \in Working
  PROVE  ~bForwardGPU /\ pc \in {"start", "finish"}
<1>1. s \in Slave /\ s \in Nat /\ s >= NumGPU
  BY ThreadFacts DEF CPU
<1>2. slave[s] \notin {"initialize", "start"}
  BY DEF Working
<1>3. pc \in {"start", "finish"}
  BY <1>1, <1>2 DEF TypeOK, BarrierInv
<1>4. ~(LastSlave < s)
  BY <1>1, <1>2, <1>3 DEF BarrierInv
<1> QED BY <1>1, <1>3, <1>4, ThreadFacts DEF LastSlave

LEMMA InitializeSlaveInv ==
  ASSUME IInv, NEW s \in Slave, InitializeSlave(s)  PROVE IInv'
<1> USE DEF InitializeSlave, masterVars, netVars
<1>1. /\ pc = "initialize" /\ ~bForwardGPU
      /\ slave \in [Slave -> SlaveState]
  <2>1. pc # "phase"
    BY DEF IInv, BarrierInv
  <2>2. pc \in {"start", "finish"} => slave[s] \in Working \cup {"start"}
    BY AtBarrier DEF IInv
  <2> QED BY <2>1, <2>2 DEF IInv, TypeOK, BarrierInv, SlaveState, Working
<1>2. TypeOK'
  BY <1>1 DEF IInv, TypeOK, SlaveState
<1>3. BarrierInv'
  BY <1>1, ThreadFacts DEF IInv, BarrierInv, Holding
<1>4. IndexInv'
  BY <1>1, ThreadFacts DEF IInv, IndexInv, Holding
<1>5. \A t \in CPU : slave[t] \in Holding \/ slave'[t] \in Holding
        => slave'[t] = slave[t] /\ gameIndex'[t] = gameIndex[t]
  BY <1>1, ThreadFacts DEF Holding
<1>6. GamesInv'
  <2>1. \A g \in Game : Fresh(g)' <=> Fresh(g)
    BY <1>5, HoldersKept DEF Fresh, Holding
  <2>2. \A n \in GPU : Forwarded(n)' <=> Forwarded(n)
    BY <1>1 DEF Forwarded
  <2> QED BY <1>5, <2>1, <2>2, HoldersKept, GamesKept DEF IInv, Holding
<1> QED BY <1>2, <1>3, <1>4, <1>6 DEF IInv

\* A slave at work stays at work until it has finished.
LEMMA WorkingKept ==
  ASSUME IInv, NEW s \in Slave, slave[s] \in Working, NEW to \in Working,
         slave' = [slave EXCEPT ![s] = to], UNCHANGED masterVars,
         s \in GPU => to \notin Holding
  PROVE  BarrierInv' /\ slave' \in [Slave -> SlaveState]
<1>1. slave \in [Slave -> SlaveState]
  BY DEF IInv, TypeOK, SlaveState
<1>2. pc \in {"start", "finish"} /\ pc' = pc /\ next' = next
      /\ bForwardGPU' = bForwardGPU
  BY DEF IInv, TypeOK, BarrierInv, Working, masterVars
<1>3. \A t \in Slave : slave'[t] = IF t = s THEN to ELSE slave[t]
  BY <1>1
<1>4. FirstSlave' = FirstSlave /\ LastSlave' = LastSlave
  BY <1>2 DEF FirstSlave, LastSlave
<1>5. slave[s] # "start" /\ to # "start"
  BY DEF Working
<1>6. BarrierInv'
  BY <1>2, <1>3, <1>4, <1>5, ThreadFacts DEF IInv, BarrierInv
<1> QED BY <1>1, <1>6 DEF Working, SlaveState

LEMMA ForwardInv ==
  ASSUME IInv, NEW s \in Slave, Forward(s)  PROVE IInv'
<1> USE DEF Forward, masterVars
<1>1. s \in GPU /\ s \notin CPU /\ slave[s] = "job"
  BY ThreadFacts
<1>2. BarrierInv' /\ slave' \in [Slave -> SlaveState]
  BY <1>1, WorkingKept DEF Working, Holding
<1>3. /\ pc \in {"start", "finish"} /\ bForwardGPU
      /\ \A t \in CPU : slave[t] = "start" /\ slave'[t] = "start"
  <2>1. pc \in {"start", "finish"}
    BY <1>1 DEF IInv, TypeOK, BarrierInv
  <2>2. ~(s < FirstSlave)
    BY <1>1, <2>1 DEF IInv, BarrierInv
  <2>3. bForwardGPU
    BY <1>1, <2>2, ThreadFacts DEF FirstSlave, GPU
  <2> QED BY <1>1, <2>1, <2>3, ThreadFacts
          DEF IInv, TypeOK, BarrierInv, LastSlave, CPU, Slave
<1>4. TypeOK'
  BY <1>1, <1>2 DEF IInv, TypeOK, SlaveState
<1>5. IndexInv'
  BY <1>3 DEF IInv, IndexInv, Holding
<1>6. \A n \in GPU : Forwarded(n)' <=> Forwarded(n) \/ n = s
  BY <1>1, <1>3 DEF Forwarded, IInv, TypeOK
<1>7. \A n \in GPU : output'[n] = IF n = s THEN data[n] ELSE output[n]
  BY DEF IInv, TypeOK
<1>8. \A g \in Game : /\ ~Fresh(g) /\ ~Fresh(g)' /\ Due(g)' = Due(g)
                      /\ ~Evaluated(g) /\ ~Evaluated(g)'
                      /\ ~Held(g, "endgame")' /\ ~Held(g, "before")'
  BY <1>3 DEF Fresh, Due, Evaluated, Held
<1>9. \A g \in Game : GameInv(g)'
  BY <1>8 DEF IInv, GamesInv, GameInv
<1>10. \A g \in Game : SlotInv(g)'
  BY <1>6, <1>7, <1>8, GameFacts DEF IInv, GamesInv, SlotInv
<1>11. GamesInv'
  BY <1>6, <1>7, <1>8, <1>9, <1>10 DEF IInv, GamesInv
<1> QED BY <1>2, <1>4, <1>5, <1>11 DEF IInv

\* The mutex makes taking an index one step: the game is fresh before, as it
\* is above the index, and after, as the slave holds it.
LEMMA GetNextMCTSIndexInv ==
  ASSUME IInv, NEW s \in Slave, GetNextMCTSIndex(s)  PROVE IInv'
<1> USE DEF GetNextMCTSIndex, netVars
<1>1. s \in CPU /\ slave[s] = "job" /\ slave \in [Slave -> SlaveState]
  BY DEF IInv, TypeOK, SlaveState
<1>2. ~bForwardGPU /\ pc \in {"start", "finish"}
  BY <1>1, CPUAtWork DEF IInv, Working
<1>3. mctsIndex \in Nat /\ mctsIndex <= NumGame /\ NumGame \in Nat
  BY GameFacts DEF IInv, TypeOK
<1>4. UNCHANGED <<pc, next, bForwardGPU, game, netVars>>
  BY DEF masterVars
<1>5. \A n \in GPU : Forwarded(n)' <=> Forwarded(n)
  BY <1>2, <1>4 DEF Forwarded
<1>6. CASE mctsIndex >= NumGame
  <2>1. UNCHANGED <<mctsIndex, gameIndex>> /\ slave' = [slave EXCEPT ![s] = "finish"]
    BY <1>6
  <2>2. BarrierInv' /\ slave' \in [Slave -> SlaveState]
    BY <1>1, <2>1, WorkingKept DEF Working, Holding
  <2>3. TypeOK'
    BY <1>4, <2>1, <2>2 DEF IInv, TypeOK, SlaveState
  <2>4. \A t \in CPU : slave'[t] = IF t = s THEN "finish" ELSE slave[t]
    BY <1>1, <2>1, ThreadFacts
  <2>5. IndexInv'
    BY <1>2, <1>3, <1>4, <1>6, <2>1, <2>4 DEF IInv, IndexInv, Holding
  <2>6. \A t \in CPU : slave[t] \in Holding \/ slave'[t] \in Holding
          => slave'[t] = slave[t] /\ gameIndex'[t] = gameIndex[t]
    BY <1>1, <2>1, <2>4 DEF Holding
  <2>7. GamesInv'
    <3>1. \A g \in Game : Fresh(g)' <=> Fresh(g)
      BY <1>4, <2>1, <2>6, HoldersKept DEF Fresh, Holding
    <3> QED BY <1>4, <1>5, <2>6, <3>1, HoldersKept, GamesKept DEF IInv, Holding
  <2> QED BY <2>2, <2>3, <2>5, <2>7 DEF IInv
<1>7. CASE ~(mctsIndex >= NumGame)
  <2>1. /\ gameIndex' = [gameIndex EXCEPT ![s] = mctsIndex]
        /\ mctsIndex' = mctsIndex + 1
        /\ slave' = [slave EXCEPT ![s] = "after"]
    BY <1>7
  <2>2. BarrierInv' /\ slave' \in [Slave -> SlaveState]
    BY <1>1, <2>1, WorkingKept, ThreadFacts DEF Working
  <2>3. mctsIndex \in Game /\ mctsIndex' \in 0 .. NumGame
    BY <1>3, <1>7, <2>1 DEF Game
  <2>4. TypeOK'
    BY <1>4, <2>1, <2>2, <2>3 DEF IInv, TypeOK, SlaveState
  <2>5. \A t \in CPU : /\ slave'[t] = IF t = s THEN "after" ELSE slave[t]
                       /\ gameIndex'[t] = IF t = s THEN mctsIndex ELSE gameIndex[t]
    BY <1>1, <2>1, ThreadFacts DEF IInv, TypeOK
  <2>6. IndexInv'
    <3>1. \A t \in CPU : slave[t] \in Holding
            => gameIndex[t] \in Game /\ gameIndex[t] \in Nat /\ gameIndex[t] < mctsIndex
      BY DEF IInv, IndexInv, Game
    <3>2. \A t \in CPU : slave'[t] \in Holding /\ t # s => slave[t] \in Holding
      BY <2>5
    <3>3. \A t \in CPU : slave'[t] # "finish"
      BY <1>3, <1>7, <2>5 DEF IInv, IndexInv
    <3>4. \A t \in CPU : slave'[t] \in Holding =>
            gameIndex'[t] \in Game /\ gameIndex'[t] < mctsIndex'
      BY <1>3, <2>1, <2>3, <2>5, <3>1, <3>2
    <3>5. \A t, u \in CPU :
            slave'[t] \in Holding /\ slave'[u] \in Holding
              /\ gameIndex'[t] = gameIndex'[u] => t = u
      BY <1>3, <2>5, <3>1, <3>2 DEF IInv, IndexInv
    <3> QED BY <1>2, <1>4, <3>3, <3>4, <3>5 DEF IndexInv
  <2>7. \A g \in Game :
          /\ Held(g, "after")' <=> Held(g, "after") \/ g = mctsIndex
          /\ Held(g, "endgame")' <=> Held(g, "endgame")
          /\ Held(g, "before")' <=> Held(g, "before")
          /\ Evaluated(g)' <=> Evaluated(g)
    BY <1>1, <2>5 DEF Held, Evaluated
  <2>8. \A g \in Game : Fresh(g)' <=> Fresh(g)
    BY <1>3, <1>4, <2>1, <2>7 DEF Fresh, Game
  <2>9. GamesInv'
    BY <1>4, <1>5, <2>7, <2>8, GamesKept DEF IInv
  <2> QED BY <2>2, <2>4, <2>6, <2>9 DEF IInv
<1> QED BY <1>6, <1>7

-----------------------------------------------------------------------------
(* The steps that advance a game: only its holder takes them. *)

\* What the step does to the barriers, the index and the other games.
LEMMA HolderStep ==
  ASSUME IInv, NEW s \in CPU, slave[s] \in Holding,
         NEW to \in {"endgame", "before", "job"},
         slave' = [slave EXCEPT ![s] = to],
         UNCHANGED <<masterVars, mctsIndex, gameIndex>>
  PROVE  /\ BarrierInv' /\ IndexInv' /\ slave' \in [Slave -> SlaveState]
         /\ ~Fresh(gameIndex[s])'
         /\ Evaluated(gameIndex[s])' <=> to # "job"
         /\ \A w \in Holding : Held(gameIndex[s], w)' <=> to = w
         /\ \A h \in Game : h # gameIndex[s] =>
              /\ Fresh(h)' <=> Fresh(h)
              /\ Evaluated(h)' <=> Evaluated(h)
              /\ \A w \in Holding : Held(h, w)' <=> Held(h, w)
         /\ \A n \in GPU : ~Forwarded(n) /\ ~Forwarded(n)'
<1> DEFINE g == gameIndex[s]
<1>1. /\ ~bForwardGPU /\ pc \in {"start", "finish"}
      /\ g \in Game /\ g < mctsIndex /\ g \in Int /\ mctsIndex \in Int
  BY HolderFacts, GameFacts DEF IInv, TypeOK, Game
<1>2. BarrierInv' /\ slave' \in [Slave -> SlaveState]
  BY ThreadFacts, WorkingKept DEF Holding, Working
<1>3. UNCHANGED <<pc, next, bForwardGPU, mctsIndex, gameIndex>>
  BY DEF masterVars
<1>4. \A t \in CPU : slave'[t] = IF t = s THEN to ELSE slave[t]
  BY ThreadFacts DEF IInv, TypeOK
<1>5. IndexInv'
  BY <1>1, <1>3, <1>4 DEF IInv, IndexInv
<1>6. \A t \in CPU : t # s /\ slave[t] \in Holding => gameIndex[t] # g
  BY DEF IInv, IndexInv
<1>7. \A w \in Holding : Held(g, w)' <=> to = w
  BY <1>3, <1>4, <1>6 DEF Held
<1>8. Evaluated(g)' <=> to # "job"
  BY <1>3, <1>4, <1>6 DEF Evaluated, Holding
<1>9. ~Fresh(g)'
  <2>1. ~Held(g, "after")'
    BY <1>7 DEF Holding
  <2> QED BY <1>1, <1>3, <2>1 DEF Fresh
<1>10. \A h \in Game : h # g =>
         /\ Evaluated(h)' <=> Evaluated(h)
         /\ \A w \in Holding : Held(h, w)' <=> Held(h, w)
  BY <1>3, <1>4 DEF Held, Evaluated
<1>11. \A h \in Game : h # g => (Fresh(h)' <=> Fresh(h))
  BY <1>3, <1>10 DEF Fresh, Holding
<1>12. \A n \in GPU : ~Forwarded(n) /\ ~Forwarded(n)'
  BY <1>1, <1>3 DEF Forwarded
<1> QED BY <1>2, <1>5, <1>7, <1>8, <1>9, <1>10, <1>11, <1>12

\* So it is enough to look at the game that is advanced.
LEMMA OneGameAdvanced ==
  ASSUME IInv, NEW s \in CPU, slave[s] \in Holding,
         NEW to \in {"endgame", "before", "job"},
         slave' = [slave EXCEPT ![s] = to],
         UNCHANGED <<masterVars, mctsIndex, gameIndex, output>>,
         \A h \in Game : h # gameIndex[s] =>
           /\ game'[h] = game[h]
           /\ \A k \in Slots(h) : data'[NetOf(h)][k] = data[NetOf(h)][k],
         GameInv(gameIndex[s])', SlotInv(gameIndex[s])',
         Due(gameIndex[s])' = Due(gameIndex[s])
  PROVE  GamesInv'
<1>1. \A h \in Game : h # gameIndex[s] => Due(h)' = Due(h)
  BY HolderStep DEF Due
<1>2. \A h \in Game : h # gameIndex[s] => GameInv(h)'
  <2> SUFFICES ASSUME NEW h \in Game, h # gameIndex[s]  PROVE GameInv(h)'
    OBVIOUS
  <2>1. /\ Fresh(h)' <=> Fresh(h)
        /\ Evaluated(h)' <=> Evaluated(h)
        /\ \A w \in Holding : Held(h, w)' <=> Held(h, w)
    BY HolderStep
  <2>2. /\ Held(h, "endgame")' <=> Held(h, "endgame")
        /\ Held(h, "before")' <=> Held(h, "before")
    BY <2>1 DEF Holding
  <2>3. GameInv(h)
    BY DEF IInv, GamesInv
  <2> QED BY <2>1, <2>2, <2>3 DEF GameInv
<1>3. \A h \in Game : h # gameIndex[s] => SlotInv(h)'
  <2> SUFFICES ASSUME NEW h \in Game, h # gameIndex[s]  PROVE SlotInv(h)'
    OBVIOUS
  <2>1. /\ Fresh(h)' <=> Fresh(h)
        /\ ~Forwarded(NetOf(h)) /\ ~Forwarded(NetOf(h))'
        /\ Due(h)' = Due(h) /\ game'[h] = game[h]
    BY <1>1, HolderStep, GameFacts
  <2> QED BY <2>1 DEF IInv, GamesInv, SlotInv
<1>4. \A h \in Game : Due(h)' = Due(h)
  BY <1>1
<1>5. \A n \in GPU : ~Forwarded(n)'
  BY HolderStep
<1> QED BY <1>2, <1>3, <1>4, <1>5 DEF IInv, GamesInv

\* A held game, as the step that advances it finds it.
LEMMA HeldGame ==
  ASSUME IInv, NEW s \in CPU, slave[s] \in Holding
  PROVE  /\ gameIndex[s] \in Game
         /\ game \in [Game -> GameRecord]
         /\ GameInv(gameIndex[s]) /\ SlotInv(gameIndex[s])
         /\ ~Forwarded(NetOf(gameIndex[s]))
<1>1. ~bForwardGPU
  BY HolderFacts
<1> QED BY <1>1, HolderFacts DEF IInv, TypeOK, GamesInv, GameRecord, Forwarded

LEMMA SkipAfterForwardInv ==
  ASSUME IInv, NEW s \in CPU, SkipAfterForward(s)  PROVE IInv'
<1> DEFINE g == gameIndex[s]
<1> USE DEF SkipAfterForward, Goto
<1>1. slave[s] = "after" /\ slave[s] \in Holding /\ game[g].leaf = NoPosition
  BY DEF Holding
<1>2. /\ slave' = [slave EXCEPT ![s] = "before"]
      /\ UNCHANGED <<masterVars, mctsIndex, gameIndex, game, data, output>>
  BY DEF netVars
<1>3. /\ BarrierInv' /\ IndexInv' /\ slave' \in [Slave -> SlaveState]
      /\ ~Fresh(g)' /\ Evaluated(g)'
      /\ ~Held(g, "endgame")' /\ Held(g, "before")'
  BY <1>1, <1>2, HolderStep DEF Holding
<1>4. TypeOK'
  BY <1>2, <1>3 DEF IInv, TypeOK, SlaveState, masterVars
<1>5. /\ g \in Game /\ Fresh(g) /\ ~Evaluated(g)
      /\ GameInv(g) /\ SlotInv(g)
  BY <1>1, HolderFacts, HeldGame
<1>6. /\ game[g].sim = 0 /\ game[g].moves < MaxMoves
  BY <1>1, <1>5 DEF GameInv
<1>7. GameInv(g)'
  BY <1>2, <1>3, <1>6 DEF GameInv
<1>8. Due(g)' = 0 /\ Due(g) = 0
  BY <1>1, <1>2, <1>3, <1>5, <1>6, SimAssumption DEF Due
<1>9. SlotInv(g)'
  BY <1>1, <1>2, <1>3, <1>5, <1>8 DEF SlotInv
<1>10. GamesInv'
  BY <1>1, <1>2, <1>7, <1>8, <1>9, OneGameAdvanced
<1> QED BY <1>3, <1>4, <1>10 DEF IInv

\* The policy is read at a slot of the game's network.
LEMMA PolicyFacts ==
  ASSUME TypeOK, NEW g \in Game  PROVE PolicyColor(g) \in Color
<1>1. Rotation \in Nat \ {0} /\ BatchID(g) \in 0 .. BatchSize - 1 /\ NetOf(g) \in GPU
  BY NetAssumption, GameFacts DEF Rotation
<1>2. BatchID(g) \in Slot
  <2>1. BatchSize * Rotation = BatchSize * (Rotation - 1) + BatchSize
        /\ BatchSize * (Rotation - 1) \in Nat
    BY <1>1, NetAssumption
  <2> QED BY <1>1, <2>1, NetAssumption DEF Slot
<1>3. data[NetOf(g)][BatchID(g)] \in Position \cup {NoPosition}
  BY <1>1, <1>2 DEF TypeOK
<1> QED BY <1>3 DEF PolicyColor, Position, NoPosition, Color

\* What both evaluating steps find: a game whose leaf has been answered.
LEMMA EvaluatedGame ==
  ASSUME IInv, NEW s \in CPU, slave[s] = "after",
         game[gameIndex[s]].leaf # NoPosition
  PROVE  LET g == gameIndex[s]
             m == game[g]
         IN  /\ g \in Game /\ m \in GameRecord
             /\ Fresh(g)
             /\ m.sim < SimCount /\ m.moves < MaxMoves
             /\ m.leaf.sim = m.sim /\ m.root = m.turn /\ m.backup = m.moves
             /\ \A k \in Slots(g) : /\ data[NetOf(g)][k] = m.leaf
                                    /\ output[NetOf(g)][k] = m.leaf
             /\ Simulated(g) \in [moves : 0 .. MaxMoves, turn : Color, sim : Nat,
                                  root : Color, backup : None .. MaxMoves,
                                  child : Color, leaf : Position \cup {NoPosition}]
             /\ Simulated(g).sim = m.sim + 1 /\ Simulated(g).moves = m.moves
             /\ Simulated(g).turn = m.turn /\ Simulated(g).root = m.root
             /\ Simulated(g).backup = m.backup /\ Simulated(g).leaf = m.leaf
<1> DEFINE g == gameIndex[s]
           m == game[g]
<1>1. /\ g \in Game /\ m \in GameRecord /\ Fresh(g) /\ ~Evaluated(g)
      /\ GameInv(g) /\ SlotInv(g)
  BY HolderFacts, HeldGame DEF Holding
<1>2. /\ m.sim < SimCount /\ m.moves < MaxMoves
      /\ m.leaf.sim = m.sim /\ m.root = m.turn /\ m.backup = m.moves
  BY <1>1 DEF GameInv
<1>3. \A k \in Slots(g) : /\ data[NetOf(g)][k] = m.leaf
                          /\ output[NetOf(g)][k] = m.leaf
  BY <1>1 DEF SlotInv
<1>4. PolicyColor(g) \in Color
  BY <1>1, PolicyFacts DEF IInv
<1>5. \E c \in Color :
        Simulated(g) = [m EXCEPT !.sim = m.sim + 1, !.moves = m.backup, !.child = c]
  <2> DEFINE c == IF m.sim = 0 THEN PolicyColor(g) ELSE m.child
  <2>1. c \in Color
    BY <1>1, <1>4 DEF GameRecord
  <2> QED BY <2>1 DEF Simulated
<1> DEFINE p == Simulated(g)
<1>6. /\ p.sim = m.sim + 1 /\ p.moves = m.moves /\ p.turn = m.turn
      /\ p.root = m.root /\ p.backup = m.backup /\ p.leaf = m.leaf
  BY <1>1, <1>2, <1>5 DEF GameRecord
<1>7. p \in [moves : 0 .. MaxMoves, turn : Color, sim : Nat,
            root : Color, backup : None .. MaxMoves,
            child : Color, leaf : Position \cup {NoPosition}]
  <2>1. m.backup \in 0 .. MaxMoves /\ m.sim + 1 \in Nat
    BY <1>1, <1>2 DEF GameRecord
  <2> QED BY <1>1, <1>5, <2>1 DEF GameRecord
<1> QED BY <1>1, <1>2, <1>3, <1>6, <1>7

LEMMA RunAfterForwardInv ==
  ASSUME IInv, NEW s \in CPU, RunAfterForward(s)  PROVE IInv'
<1> DEFINE g == gameIndex[s]
           m == game[g]
<1>1. /\ slave[s] = "after" /\ slave[s] \in Holding
      /\ m.leaf # NoPosition /\ m.sim + 1 < SimCount
      /\ slave' = [slave EXCEPT ![s] = "before"]
      /\ game' = [game EXCEPT ![g] = Simulated(g)]
      /\ UNCHANGED <<masterVars, mctsIndex, gameIndex, data, output>>
  BY DEF RunAfterForward, Goto, netVars, Holding
<1>2. /\ BarrierInv' /\ IndexInv' /\ slave' \in [Slave -> SlaveState]
      /\ ~Fresh(g)' /\ Evaluated(g)'
      /\ ~Held(g, "endgame")' /\ Held(g, "before")'
  BY <1>1, HolderStep DEF Holding
<1>3. /\ g \in Game /\ m \in GameRecord /\ Fresh(g)
      /\ m.sim \in Nat /\ m.moves < MaxMoves
      /\ m.leaf.sim = m.sim /\ m.root = m.turn /\ m.backup = m.moves
      /\ \A k \in Slots(g) : /\ data[NetOf(g)][k] = m.leaf
                             /\ output[NetOf(g)][k] = m.leaf
  BY <1>1, EvaluatedGame DEF GameRecord
<1>4. /\ Simulated(g) \in GameRecord
      /\ Simulated(g).sim = m.sim + 1 /\ Simulated(g).moves = m.moves
      /\ Simulated(g).turn = m.turn /\ Simulated(g).root = m.root
      /\ Simulated(g).backup = m.backup /\ Simulated(g).leaf = m.leaf
  BY <1>1, EvaluatedGame, SimAssumption DEF GameRecord
<1>5. game \in [Game -> GameRecord]
  BY <1>1, HeldGame
<1>6. game' \in [Game -> GameRecord] /\ game'[g] = Simulated(g)
      /\ \A h \in Game : h # g => game'[h] = game[h]
  BY <1>1, <1>3, <1>4, <1>5
<1>7. TypeOK'
  BY <1>1, <1>2, <1>6 DEF IInv, TypeOK, SlaveState, GameRecord, masterVars
<1>8. GameInv(g)'
  BY <1>1, <1>2, <1>3, <1>4, <1>6 DEF GameInv
<1>9. Due(g) = m.sim + 1 /\ Due(g)' = m.sim + 1
  BY <1>1, <1>2, <1>3, <1>4, <1>6, SimAssumption DEF Due
<1>10. SlotInv(g)'
  <2>1. m.leaf.sim # Due(g)'
    BY <1>3, <1>9
  <2> QED BY <1>1, <1>2, <1>3, <1>4, <1>6, <2>1 DEF SlotInv
<1>11. GamesInv'
  BY <1>1, <1>6, <1>8, <1>9, <1>10, OneGameAdvanced
<1> QED BY <1>2, <1>7, <1>11 DEF IInv

LEMMA RunAfterForwardAndPlayInv ==
  ASSUME IInv, NEW s \in CPU, RunAfterForwardAndPlay(s)  PROVE IInv'
<1> DEFINE g == gameIndex[s]
           m == game[g]
           p == Played(Simulated(g))
<1>1. /\ slave[s] = "after" /\ slave[s] \in Holding
      /\ m.leaf # NoPosition /\ m.sim + 1 >= SimCount
      /\ game' = [game EXCEPT ![g] = p]
      /\ UNCHANGED <<masterVars, mctsIndex, gameIndex, data, output>>
  BY DEF RunAfterForwardAndPlay, netVars, Holding
<1>2. PICK to \in {"endgame", "before"} :
        /\ p.moves = MaxMoves => to = "endgame"
        /\ slave' = [slave EXCEPT ![s] = to]
  BY DEF RunAfterForwardAndPlay, Goto
<1>3. /\ BarrierInv' /\ IndexInv' /\ slave' \in [Slave -> SlaveState]
      /\ ~Fresh(g)' /\ Evaluated(g)'
      /\ Held(g, "before")' => to = "before"
  BY <1>1, <1>2, HolderStep DEF Holding
<1>4. /\ g \in Game /\ m \in GameRecord /\ Fresh(g)
      /\ m.sim \in Nat /\ m.sim < SimCount
      /\ m.moves < MaxMoves /\ m.leaf.sim = m.sim
      /\ \A k \in Slots(g) : /\ data[NetOf(g)][k] = m.leaf
                             /\ output[NetOf(g)][k] = m.leaf
  BY <1>1, EvaluatedGame DEF GameRecord
<1>5. /\ p \in GameRecord /\ p.sim = SimCount
      /\ p.moves = m.moves + 1 /\ p.leaf = m.leaf
  <2> DEFINE q == Simulated(g)
  <2>1. /\ q \in [moves : 0 .. MaxMoves, turn : Color, sim : Nat,
                  root : Color, backup : None .. MaxMoves,
                  child : Color, leaf : Position \cup {NoPosition}]
        /\ q.sim = m.sim + 1 /\ q.moves = m.moves /\ q.leaf = m.leaf
    BY <1>1, EvaluatedGame
  <2>2. m.sim + 1 = SimCount /\ m.moves + 1 \in 0 .. MaxMoves
    BY <1>1, <1>4, SimAssumption, MoveAssumption DEF GameRecord
  <2>3. AgainstColor(q.child) \in Color
    BY DEF AgainstColor, Color
  <2>4. p = [q EXCEPT !.moves = m.moves + 1, !.turn = AgainstColor(q.child)]
    BY <2>1 DEF Played
  <2> HIDE DEF p, q, m
  <2>5. q.sim \in 0 .. SimCount
    BY <2>1, <2>2, SimAssumption
  <2> QED BY <2>1, <2>2, <2>3, <2>4, <2>5 DEF GameRecord
<1>6. game \in [Game -> GameRecord]
  BY <1>1, HeldGame
<1>7. game' \in [Game -> GameRecord] /\ game'[g] = p
      /\ \A h \in Game : h # g => game'[h] = game[h]
  BY <1>1, <1>4, <1>5, <1>6
<1> HIDE DEF p
<1>8. TypeOK'
  BY <1>1, <1>3, <1>7 DEF IInv, TypeOK, SlaveState, GameRecord, masterVars
<1>9. GameInv(g)'
  <2>1. to = "before" => p.moves < MaxMoves
    BY <1>2, <1>4, <1>5, MoveAssumption DEF GameRecord
  <2> QED BY <1>1, <1>3, <1>5, <1>7, <2>1, SimAssumption DEF GameInv
<1>10. Due(g) = 0 /\ Due(g)' = 0
  BY <1>1, <1>3, <1>4, <1>5, <1>7, SimAssumption DEF Due
<1>11. SlotInv(g)'
  <2>1. m.leaf.sim # 0
    BY <1>1, <1>4, SimAssumption
  <2> QED BY <1>1, <1>3, <1>4, <1>5, <1>7, <1>10, <2>1 DEF SlotInv
<1>12. GamesInv'
  BY <1>1, <1>2, <1>7, <1>9, <1>10, <1>11, OneGameAdvanced
<1> QED BY <1>3, <1>8, <1>12 DEF IInv

LEMMA HandleEndGameInv ==
  ASSUME IInv, NEW s \in CPU, HandleEndGame(s)  PROVE IInv'
<1> DEFINE g == gameIndex[s]
           m == game[g]
           p == [NewGame EXCEPT !.root = m.turn, !.child = m.child]
<1>1. /\ slave[s] = "endgame" /\ slave[s] \in Holding
      /\ slave' = [slave EXCEPT ![s] = "before"]
      /\ game' = [game EXCEPT ![g] = p]
      /\ UNCHANGED <<masterVars, mctsIndex, gameIndex, data, output>>
  BY DEF HandleEndGame, Goto, netVars, Holding
<1>2. /\ BarrierInv' /\ IndexInv' /\ slave' \in [Slave -> SlaveState]
      /\ ~Fresh(g)' /\ Evaluated(g)'
      /\ ~Held(g, "endgame")' /\ Held(g, "before")'
  BY <1>1, HolderStep DEF Holding
<1>3. /\ g \in Game /\ m \in GameRecord /\ ~Fresh(g) /\ m.sim = SimCount
      /\ SlotInv(g) /\ ~Forwarded(NetOf(g)) /\ game \in [Game -> GameRecord]
  <2>1. GameInv(g) /\ Held(g, "endgame")
    BY <1>1, HolderFacts, HeldGame
  <2> QED BY <1>1, <2>1, HolderFacts, HeldGame DEF GameInv
<1>4. /\ p \in GameRecord /\ p.sim = 0 /\ p.moves = 0 /\ p.leaf = NoPosition
  <2>1. m.turn \in Color /\ m.child \in Color
    BY <1>3 DEF GameRecord
  <2>2. /\ NoPosition \in Position \cup {NoPosition} /\ "black" \in Color
        /\ 0 \in 0 .. SimCount /\ 0 \in 0 .. MaxMoves /\ None \in None .. MaxMoves
    BY SimAssumption, MoveAssumption DEF None, Color
  <2>3. NewGame \in GameRecord
    BY <2>2 DEF NewGame, GameRecord
  <2>4. p \in GameRecord
    BY <2>1, <2>3 DEF GameRecord
  <2>5. /\ p.sim = NewGame.sim /\ p.moves = NewGame.moves /\ p.leaf = NewGame.leaf
    BY <2>3 DEF GameRecord
  <2> HIDE DEF p
  <2> QED BY <2>4, <2>5 DEF NewGame
<1>5. game' \in [Game -> GameRecord] /\ game'[g] = p
      /\ \A h \in Game : h # g => game'[h] = game[h]
  BY <1>1, <1>3, <1>4
<1> HIDE DEF p
<1>6. TypeOK'
  BY <1>1, <1>2, <1>5 DEF IInv, TypeOK, SlaveState, GameRecord, masterVars
<1>7. GameInv(g)'
  BY <1>1, <1>2, <1>4, <1>5, MoveAssumption DEF GameInv
<1>8. Due(g) = 0 /\ Due(g)' = 0
  BY <1>1, <1>2, <1>3, <1>4, <1>5, SimAssumption DEF Due
<1>9. SlotInv(g)'
  BY <1>1, <1>2, <1>3, <1>4, <1>5, <1>8 DEF SlotInv
<1>10. GamesInv'
  BY <1>1, <1>5, <1>7, <1>8, <1>9, OneGameAdvanced
<1> QED BY <1>2, <1>6, <1>10 DEF IInv

LEMMA RunBeforeForwardInv ==
  ASSUME IInv, NEW s \in CPU, RunBeforeForward(s)  PROVE IInv'
<1> DEFINE g == gameIndex[s]
           m == Rooted(game[g])
<1>1. /\ slave[s] = "before" /\ slave[s] \in Holding
      /\ slave' = [slave EXCEPT ![s] = "job"]
      /\ UNCHANGED <<masterVars, mctsIndex, gameIndex, output>>
  BY DEF RunBeforeForward, Goto, Holding
<1>2. /\ BarrierInv' /\ IndexInv' /\ slave' \in [Slave -> SlaveState]
      /\ ~Fresh(g)' /\ ~Evaluated(g)'
      /\ ~Held(g, "endgame")' /\ ~Held(g, "before")'
  BY <1>1, HolderStep DEF Holding
<1>3. /\ g \in Game /\ game \in [Game -> GameRecord] /\ ~Fresh(g)
      /\ SlotInv(g) /\ ~Forwarded(NetOf(g)) /\ NetOf(g) \in GPU
      /\ GameInv(g) /\ Held(g, "before")
  BY <1>1, HolderFacts, HeldGame, GameFacts
<1>4. /\ m \in GameRecord /\ m.sim < SimCount /\ m.moves < MaxMoves
      /\ m.root = m.turn /\ m.backup = m.moves /\ m.sim = Due(g)
  <2>1. /\ game[g] \in GameRecord /\ game[g].moves < MaxMoves
        /\ 0 < game[g].sim /\ game[g].sim < SimCount
             => game[g].root = game[g].turn /\ game[g].backup = game[g].moves
    BY <1>3 DEF GameInv
  <2>2. game[g].sim \in 0 .. SimCount
    BY <2>1 DEF GameRecord
  <2>3. CASE game[g].sim >= SimCount \/ game[g].sim = 0
    <3>1. m = [game[g] EXCEPT !.sim = 0, !.root = game[g].turn,
                              !.backup = game[g].moves]
      BY <2>3 DEF Rooted
    <3>2. Due(g) = 0
      BY <1>3, <2>2, <2>3, SimAssumption DEF Due
    <3> HIDE DEF m
    <3>3. /\ m.sim = 0 /\ m.moves = game[g].moves
          /\ m.root = m.turn /\ m.backup = m.moves
      BY <2>1, <3>1 DEF GameRecord
    <3>4. m \in GameRecord
      <4>1. game[g].moves \in None .. MaxMoves /\ 0 \in 0 .. SimCount
            /\ game[g].turn \in Color
        BY <2>1, SimAssumption, MoveAssumption DEF GameRecord, None
      <4> QED BY <2>1, <3>1, <4>1 DEF GameRecord
    <3> QED BY <2>1, <3>2, <3>3, <3>4, SimAssumption
  <2>4. CASE ~(game[g].sim >= SimCount \/ game[g].sim = 0)
    <3>1. m = game[g] /\ 0 < game[g].sim /\ game[g].sim < SimCount
      BY <2>2, <2>4, SimAssumption DEF Rooted
    <3> HIDE DEF m
    <3> QED BY <1>3, <2>1, <2>2, <3>1, SimAssumption DEF Due
  <2> QED BY <2>3, <2>4
<1> HIDE DEF m
<1>5. PICK turn \in LeafTurns(m) :
        LET leaf == [game |-> g, moves |-> m.moves, sim |-> m.sim, turn |-> turn]
        IN  /\ game' = [game EXCEPT ![g] = [m EXCEPT !.leaf = leaf]]
            /\ data' = [data EXCEPT ![NetOf(g)] =
                          [k \in Slot |-> IF k \in Slots(g) THEN leaf ELSE @[k]]]
  BY DEF RunBeforeForward, m
<1> DEFINE leaf == [game |-> g, moves |-> m.moves, sim |-> m.sim, turn |-> turn]
           p == [m EXCEPT !.leaf = leaf]
<1>6. leaf \in Position /\ leaf # NoPosition /\ leaf.sim = m.sim
  <2>1. turn \in Color
    BY <1>4, <1>5 DEF LeafTurns, Color, AgainstColor, GameRecord
  <2>2. leaf.game = g /\ NoPosition.game = None /\ g # None
    BY <1>3, GameFacts DEF NoPosition, None, Game
  <2> QED BY <1>3, <1>4, <2>1, <2>2 DEF Position, GameRecord
<1>7. /\ p \in GameRecord /\ p.leaf = leaf /\ p.sim = m.sim /\ p.moves = m.moves
      /\ p.root = m.root /\ p.turn = m.turn /\ p.backup = m.backup
  <2> HIDE DEF leaf
  <2> QED BY <1>4, <1>6 DEF GameRecord
<1>8. /\ game' = [game EXCEPT ![g] = p]
      /\ data' = [data EXCEPT ![NetOf(g)] =
                    [k \in Slot |-> IF k \in Slots(g) THEN leaf
                                    ELSE data[NetOf(g)][k]]]
  BY <1>5
<1> HIDE DEF p, leaf
<1>9. game' \in [Game -> GameRecord] /\ game'[g] = p
      /\ \A h \in Game : h # g => game'[h] = game[h]
  BY <1>3, <1>7, <1>8
<1>10. /\ data' \in [GPU -> [Slot -> Position \cup {NoPosition}]]
       /\ \A n \in GPU, k \in Slot :
            data'[n][k] = IF n = NetOf(g) /\ k \in Slots(g) THEN leaf ELSE data[n][k]
  BY <1>3, <1>6, <1>8 DEF IInv, TypeOK
<1>11. TypeOK'
  BY <1>1, <1>2, <1>9, <1>10 DEF IInv, TypeOK, SlaveState, GameRecord, masterVars
<1>12. GameInv(g)'
  BY <1>1, <1>2, <1>4, <1>6, <1>7, <1>9 DEF GameInv
<1>13. Due(g)' = Due(g)
  <2>1. p.sim \in 0 .. SimCount /\ p.sim < SimCount /\ SimCount \in Nat
    BY <1>4, <1>7, SimAssumption DEF GameRecord
  <2> QED BY <1>1, <1>2, <1>4, <1>7, <1>9, <2>1 DEF Due
<1>14. SlotInv(g)'
  <2>1. \A k \in Slots(g) : data'[NetOf(g)][k] = leaf /\ k \in Slot
    BY <1>3, <1>10, SlotFacts
  <2>2. game[g].leaf # NoPosition \/ game[g].leaf = NoPosition
    OBVIOUS
  <2> QED BY <1>1, <1>2, <1>3, <1>7, <1>9, <1>13, <2>1 DEF SlotInv
<1>15. \A h \in Game : h # g =>
         /\ game'[h] = game[h]
         /\ \A k \in Slots(h) : data'[NetOf(h)][k] = data[NetOf(h)][k]
  <2>1. \A h \in Game : h # g => \A k \in Slots(h) :
          k \in Slot /\ ~(NetOf(h) = NetOf(g) /\ k \in Slots(g))
    BY <1>3, SlotFacts
  <2> QED BY <1>9, <1>10, <2>1, GameFacts
<1>16. GamesInv'
  BY <1>1, <1>12, <1>13, <1>14, <1>15, OneGameAdvanced
<1> QED BY <1>2, <1>11, <1>16 DEF IInv

-----------------------------------------------------------------------------
(* The invariant. *)

LEMMA UnchangedInv == IInv /\ UNCHANGED vars => IInv'
<1> SUFFICES ASSUME IInv, UNCHANGED vars  PROVE IInv'
  OBVIOUS
<1>1. UNCHANGED <<pc, next, bForwardGPU, mctsIndex, slave, gameIndex, game, netVars>>
  BY DEF vars, masterVars, slaveVars
<1>2. TypeOK' /\ BarrierInv' /\ IndexInv'
  BY <1>1 DEF IInv, TypeOK, BarrierInv, IndexInv, FirstSlave, LastSlave, netVars
<1>3. GamesInv'
  <2>1. \A g \in Game : Fresh(g)' <=> Fresh(g)
    BY <1>1 DEF Fresh, Held
  <2>2. \A n \in GPU : Forwarded(n)' <=> Forwarded(n)
    BY <1>1 DEF Forwarded
  <2> QED BY <1>1, <2>1, <2>2, HoldersKept, GamesKept DEF IInv, Holding
<1> QED BY <1>2, <1>3 DEF IInv

LEMMA HoldersAreCPU ==
  ASSUME IInv, NEW s \in Slave, slave[s] \in Holding  PROVE s \in CPU
BY ThreadFacts DEF IInv, BarrierInv

LEMMA NextInv == IInv /\ [Next]_vars => IInv'
<1> SUFFICES ASSUME IInv, [Next]_vars  PROVE IInv'
  OBVIOUS
<1>1. CASE Initialize
  BY <1>1, InitializeInv
<1>2. CASE BeginPhase
  BY <1>2, BeginPhaseInv
<1>3. CASE StartRun
  BY <1>3, StartRunInv
<1>4. CASE FinishRun
  BY <1>4, FinishRunInv
<1>5. ASSUME NEW s \in Slave, SlaveStep(s)  PROVE IInv'
  <2>1. CASE InitializeSlave(s)
    BY <2>1, InitializeSlaveInv
  <2>2. CASE Forward(s)
    BY <2>2, ForwardInv
  <2>3. CASE GetNextMCTSIndex(s)
    BY <2>3, GetNextMCTSIndexInv
  <2>4. CASE SkipAfterForward(s)
    BY <2>4, HoldersAreCPU, SkipAfterForwardInv DEF SkipAfterForward, Goto, Holding
  <2>5. CASE RunAfterForward(s)
    BY <2>5, HoldersAreCPU, RunAfterForwardInv DEF RunAfterForward, Goto, Holding
  <2>6. CASE RunAfterForwardAndPlay(s)
    BY <2>6, HoldersAreCPU, RunAfterForwardAndPlayInv
    DEF RunAfterForwardAndPlay, Holding
  <2>7. CASE HandleEndGame(s)
    BY <2>7, HoldersAreCPU, HandleEndGameInv DEF HandleEndGame, Goto, Holding
  <2>8. CASE RunBeforeForward(s)
    BY <2>8, HoldersAreCPU, RunBeforeForwardInv DEF RunBeforeForward, Goto, Holding
  <2> QED BY <1>5, <2>1, <2>2, <2>3, <2>4, <2>5, <2>6, <2>7, <2>8 DEF SlaveStep
<1>6. CASE UNCHANGED vars
  BY <1>6, UnchangedInv
<1> QED BY <1>1, <1>2, <1>3, <1>4, <1>5, <1>6 DEF Next, MasterStep

\* Every state of the program satisfies the inductive invariant.
THEOREM Invariance == Spec => []IInv
<1> QED BY InitInv, NextInv, PTL DEF Spec

\* The threads, the shared index, the games and the slots have their types, in
\* particular no game passes MaxMoves or SimCount and no index passes the games.
THEOREM TypeCorrect == Spec => []TypeOK
<1>1. IInv => TypeOK
  BY DEF IInv
<1> QED BY <1>1, Invariance, PTL

\* A game that evaluates its leaf reads the network's output for that leaf at
\* every slot (ZeroMCTS::evaluation), whatever the numbers of threads,
\* networks, games and rotations.
THEOREM OwnLeafEvaluated == Spec => []EvaluatesOwnLeaf
<1>1. ASSUME IInv  PROVE EvaluatesOwnLeaf
  BY <1>1, EvaluatedGame DEF EvaluatesOwnLeaf, Answered
<1> QED BY <1>1, Invariance, PTL

\* A search in progress is rooted at the position its game is in
\* (newTree, backupGame and rollbackGame agree).
THEOREM CurrentPositionSearched == Spec => []SearchesCurrentPosition
<1>1. IInv => SearchesCurrentPosition
  BY DEF IInv, GamesInv, GameInv, SearchesCurrentPosition
<1> QED BY <1>1, Invariance, PTL

\* Without rotations, that is with one slot per game, the policy a game
\* expands is one for the colour to move at its leaf.  With rotations it need
\* not be: that is what the run batch_colors shows.
THEOREM PolicyWithoutRotation ==
  ASSUME NetRotation \in {0, 1}
  PROVE  Spec => []PolicyOfOwnColor
<1>1. ASSUME IInv  PROVE PolicyOfOwnColor
  <2> SUFFICES ASSUME NEW s \in CPU, slave[s] = "after",
                      game[gameIndex[s]].leaf # NoPosition
               PROVE  PolicyColor(gameIndex[s]) = game[gameIndex[s]].leaf.turn
    BY DEF PolicyOfOwnColor
  <2> DEFINE g == gameIndex[s]
  <2>1. /\ g \in Game /\ BatchID(g) \in Nat
        /\ \A k \in Slots(g) : data[NetOf(g)][k] = game[g].leaf
    <3>1. g \in Game /\ \A k \in Slots(g) : data[NetOf(g)][k] = game[g].leaf
      BY <1>1, EvaluatedGame
    <3>2. BatchID(g) \in 0 .. BatchSize - 1
      BY <3>1, GameFacts
    <3>3. BatchID(g) \in Nat
      BY <3>2, NetAssumption
    <3> QED BY <3>1, <3>3
  <2>2. Rotation = 1
    BY DEF Rotation
  <2>3. BatchID(g) \in Slots(g)
    BY <2>1, <2>2 DEF Slots
  <2> QED BY <2>1, <2>3 DEF PolicyColor
<1> QED BY <1>1, Invariance, PTL

-----------------------------------------------------------------------------
(* Phases. *)

\* While a network runs no CPU slave works and every game waits for it.
LEMMA NetworkRuns ==
  ASSUME IInv, NEW n \in GPU, slave[n] = "job"
  PROVE  /\ bForwardGPU /\ pc \in {"start", "finish"} /\ ~Forwarded(n)
         /\ \A s \in CPU : slave[s] = "start"
         /\ \A g \in Game : ~Fresh(g) /\ ~Evaluated(g)
<1>1. n \in Slave /\ n \in Nat /\ n < NumGPU
  BY ThreadFacts DEF GPU
<1>2. pc \in {"start", "finish"}
  BY <1>1 DEF IInv, TypeOK, BarrierInv
<1>3. ~(n < FirstSlave)
  BY <1>1, <1>2 DEF IInv, BarrierInv
<1>4. bForwardGPU
  BY <1>1, <1>3, ThreadFacts DEF FirstSlave
<1>5. \A s \in CPU : slave[s] = "start"
  BY <1>2, <1>4, ThreadFacts DEF IInv, BarrierInv, LastSlave, CPU, Slave
<1>6. ~Forwarded(n)
  BY <1>1, <1>2 DEF Forwarded, IInv, BarrierInv
<1> QED BY <1>2, <1>4, <1>5, <1>6 DEF Fresh, Evaluated

\* While a network runs every game is in the same simulation: no thread
\* crosses a phase and each game is advanced once per phase.
THEOREM PhasesInLockstep == Spec => []Lockstep
<1>1. ASSUME IInv  PROVE Lockstep
  <2> SUFFICES ASSUME NEW n \in GPU, slave[n] = "job"
               PROVE  /\ \A s \in CPU : slave[s] = "start"
                      /\ \A g, h \in Game : game[g].leaf # NoPosition
                                            /\ game[g].sim = game[h].sim
    BY DEF Lockstep
  <2>1. \A g \in Game : game[g].leaf # NoPosition /\ game[g].sim < SimCount
    BY <1>1, NetworkRuns DEF IInv, GamesInv, GameInv
  <2>2. \A g \in Game : Due(g) = game[g].sim
    <3> SUFFICES ASSUME NEW g \in Game  PROVE Due(g) = game[g].sim
      OBVIOUS
    <3>1. game[g].sim \in Nat /\ SimCount \in Nat
      BY <1>1, SimAssumption DEF IInv, TypeOK
    <3> QED BY <1>1, <2>1, <3>1, NetworkRuns DEF Due
  <2> QED BY <1>1, <2>1, <2>2, NetworkRuns DEF IInv, GamesInv
<1> QED BY <1>1, Invariance, PTL

-----------------------------------------------------------------------------
(* The batch implements one sequential search per game. *)

Stage(g) ==
  IF game[g].leaf = NoPosition \/ Evaluated(g) THEN "idle"
  ELSE IF Answered(g) THEN "answered" ELSE "asked"

\* The stage of a game, from where the batch is.
StageInv ==
  \A g \in Game :
    /\ Fresh(g) /\ game[g].leaf # NoPosition => Stage(g) = "answered"
    /\ Evaluated(g) => Stage(g) = "idle"
    /\ ~Fresh(g) /\ ~Evaluated(g) =>
         Stage(g) = IF Forwarded(NetOf(g)) THEN "answered" ELSE "asked"

LEMMA StageIs == IInv => StageInv
<1> SUFFICES ASSUME IInv, NEW g \in Game
             PROVE  /\ Fresh(g) /\ game[g].leaf # NoPosition => Stage(g) = "answered"
                    /\ Evaluated(g) => Stage(g) = "idle"
                    /\ ~Fresh(g) /\ ~Evaluated(g) =>
                         Stage(g) = IF Forwarded(NetOf(g)) THEN "answered" ELSE "asked"
  BY DEF StageInv
<1>1. GameInv(g) /\ SlotInv(g) /\ NetOf(g) \in GPU
  BY GameFacts DEF IInv, GamesInv
<1>2. Evaluated(g) => ~Fresh(g)
  BY HolderFacts DEF Evaluated, Holding
<1>3. CASE Fresh(g) /\ game[g].leaf # NoPosition
  <2>1. Answered(g)
    BY <1>1, <1>3 DEF SlotInv, Answered
  <2> QED BY <1>2, <1>3, <2>1 DEF Stage
<1>4. CASE ~Fresh(g) /\ ~Evaluated(g)
  <2>1. game[g].leaf # NoPosition /\ game[g].leaf.sim = game[g].sim
        /\ game[g].sim < SimCount /\ game[g].sim \in Nat
    BY <1>1, <1>4 DEF GameInv, IInv, TypeOK
  <2>2. CASE Forwarded(NetOf(g))
    <3>1. output[NetOf(g)] = data[NetOf(g)]
      BY <1>1, <2>2 DEF IInv, GamesInv
    <3>2. Answered(g)
      BY <1>1, <2>1, <3>1 DEF SlotInv, Answered
    <3> QED BY <1>4, <2>1, <2>2, <3>2 DEF Stage
  <2>3. CASE ~Forwarded(NetOf(g))
    <3>1. Due(g) = game[g].sim
      BY <1>4, <2>1, SimAssumption DEF Due
    <3>2. \A k \in Slots(g) : output[NetOf(g)][k] # game[g].leaf
      BY <1>1, <1>4, <2>1, <2>3, <3>1 DEF SlotInv
    <3>3. ~Answered(g)
      BY <3>2, SlotFacts DEF Answered
    <3> QED BY <1>4, <2>1, <2>3, <3>3 DEF Stage
  <2> QED BY <1>4, <2>2, <2>3
<1> QED BY <1>2, <1>3, <1>4 DEF Stage

\* A step that changes no game, no output and not who has evaluated stutters.
LEMMA Stutters ==
  ASSUME UNCHANGED <<game, output>>,
         \A s \in CPU : {slave[s], slave'[s]} \cap {"endgame", "before"} # {}
           => slave'[s] = slave[s] /\ gameIndex'[s] = gameIndex[s]
  PROVE  UNCHANGED Search!vars
<1>1. \A g \in Game : Evaluated(g)' <=> Evaluated(g)
  BY DEF Evaluated
<1>2. \A g \in Game : Answered(g)' <=> Answered(g)
  BY DEF Answered
<1> QED BY <1>1, <1>2 DEF Search!vars

LEMMA InitRefines == Init => Search!Init
<1> SUFFICES ASSUME Init  PROVE Search!Init
  OBVIOUS
<1>1. \A g \in Game : game[g] = NewGame
  BY DEF Init
<1> QED BY <1>1 DEF Search!Init, NewGame

\* The network answers every game of its batch at once.
LEMMA ForwardRefines ==
  ASSUME IInv, NEW n \in GPU, Forward(n)  PROVE Search!Forward(n)
<1>1. /\ slave[n] = "job" /\ output' = [output EXCEPT ![n] = data[n]]
      /\ slave' = [slave EXCEPT ![n] = "finish"] /\ n \notin CPU
      /\ UNCHANGED <<game, gameIndex>>
  BY ThreadFacts DEF Forward
<1>2. \A g \in Game : Evaluated(g)' <=> Evaluated(g)
  BY <1>1, ThreadFacts DEF Evaluated, IInv, TypeOK
<1>3. \A g \in Game : ~Evaluated(g) /\ game[g].leaf # NoPosition
  BY <1>1, NetworkRuns DEF IInv, GamesInv, GameInv
<1>4. \A g \in Game : NetOf(g) = n => Stage(g) = "asked"
  BY <1>1, StageIs, NetworkRuns DEF StageInv
<1>5. \A g \in Game : NetOf(g) = n => Stage(g)' = "answered"
  <2> SUFFICES ASSUME NEW g \in Game, NetOf(g) = n  PROVE Stage(g)' = "answered"
    OBVIOUS
  <2>1. output'[n] = data[n]
    BY <1>1 DEF IInv, TypeOK
  <2>2. Answered(g)'
    BY <1>1, <1>3, <2>1 DEF IInv, GamesInv, SlotInv, Answered
  <2> QED BY <1>1, <1>2, <1>3, <2>2 DEF Stage
<1>6. \A g \in Game : NetOf(g) # n => Stage(g)' = Stage(g)
  <2>1. \A m \in GPU : m # n => output'[m] = output[m]
    BY <1>1 DEF IInv, TypeOK
  <2>2. \A g \in Game : NetOf(g) # n => (Answered(g)' <=> Answered(g))
    BY <1>1, <2>1, GameFacts DEF Answered
  <2> QED BY <1>1, <1>2, <2>2 DEF Stage
<1> QED BY <1>1, <1>4, <1>5, <1>6 DEF Search!Forward, Stage

\* What the holder's step does to the stages of the other games.
LEMMA OtherStages ==
  ASSUME IInv, NEW s \in CPU, slave[s] \in Holding,
         NEW to \in {"endgame", "before", "job"},
         slave' = [slave EXCEPT ![s] = to],
         UNCHANGED <<masterVars, mctsIndex, gameIndex, output>>,
         NEW m, game' = [game EXCEPT ![gameIndex[s]] = m]
  PROVE  /\ game'[gameIndex[s]] = m
         /\ \A h \in Game : h # gameIndex[s] =>
              Stage(h)' = Stage(h) /\ game'[h] = game[h]
<1>1. /\ game'[gameIndex[s]] = m
      /\ \A h \in Game : h # gameIndex[s] => game'[h] = game[h]
  BY HeldGame
<1>2. \A h \in Game : h # gameIndex[s] =>
        /\ Evaluated(h)' <=> Evaluated(h)
        /\ Answered(h)' <=> Answered(h)
  BY <1>1, HolderStep DEF Answered
<1> QED BY <1>1, <1>2 DEF Stage

LEMMA EvaluateRefines ==
  ASSUME IInv, NEW s \in CPU, RunAfterForward(s) \/ RunAfterForwardAndPlay(s),
         NEW g \in Game, gameIndex[s] = g
  PROVE  Search!Evaluate(g)
<1>1. /\ slave[s] = "after" /\ slave[s] \in Holding /\ game[g].leaf # NoPosition
      /\ UNCHANGED <<masterVars, mctsIndex, gameIndex, data, output>>
  BY DEF RunAfterForward, RunAfterForwardAndPlay, Goto, Holding, netVars
<1>2. /\ g \in Game /\ Fresh(g) /\ Stage(g) = "answered"
      /\ game[g].sim \in Nat /\ game[g].sim < SimCount /\ game[g].moves \in Nat
      /\ Simulated(g).sim = game[g].sim + 1 /\ Simulated(g).moves = game[g].moves
  BY <1>1, EvaluatedGame, StageIs DEF StageInv, GameRecord
<1>1a. PICK to \in {"endgame", "before", "job"} :
        slave' = [slave EXCEPT ![s] = to] /\ to # "job"
  BY DEF RunAfterForward, RunAfterForwardAndPlay, Goto
<1>1b. PICK m :
        /\ game' = [game EXCEPT ![g] = m]
        /\ m.sim = game[g].sim + 1
        /\ m.moves = IF game[g].sim + 1 = SimCount THEN game[g].moves + 1
                     ELSE game[g].moves
  <2>1. CASE RunAfterForward(s)
    <3>1. game[g].sim + 1 # SimCount
      BY <1>2, <2>1, SimAssumption DEF RunAfterForward
    <3>2. game' = [game EXCEPT ![g] = Simulated(g)]
      BY <2>1 DEF RunAfterForward
    <3> QED BY <1>2, <3>1, <3>2
  <2>2. CASE RunAfterForwardAndPlay(s)
    <3> DEFINE p == Played(Simulated(g))
    <3>1. game[g].sim + 1 = SimCount
      BY <1>2, <2>2, SimAssumption DEF RunAfterForwardAndPlay
    <3>2. p.sim = game[g].sim + 1 /\ p.moves = game[g].moves + 1
      <4>1. Simulated(g) \in [moves : 0 .. MaxMoves, turn : Color, sim : Nat,
                              root : Color, backup : None .. MaxMoves,
                              child : Color, leaf : Position \cup {NoPosition}]
        BY <1>1, EvaluatedGame
      <4> DEFINE q == Simulated(g)
      <4>2. p = [q EXCEPT !.moves = q.moves + 1, !.turn = AgainstColor(q.child)]
        BY <4>1 DEF Played
      <4> HIDE DEF p, q
      <4> QED BY <1>2, <4>1, <4>2 DEF q
    <3>3. game' = [game EXCEPT ![g] = p]
      BY <2>2 DEF RunAfterForwardAndPlay
    <3> HIDE DEF p
    <3> QED BY <3>1, <3>2, <3>3
  <2> QED BY <2>1, <2>2
<1>3. /\ to \in {"endgame", "before", "job"}
      /\ slave' = [slave EXCEPT ![s] = to] /\ to # "job"
      /\ game' = [game EXCEPT ![g] = m]
      /\ m.sim = game[g].sim + 1
      /\ m.moves = IF game[g].sim + 1 = SimCount THEN game[g].moves + 1
                   ELSE game[g].moves
  BY <1>1a, <1>1b
<1>4. /\ game'[g] = m
      /\ \A h \in Game : h # g => Stage(h)' = Stage(h) /\ game'[h] = game[h]
  BY <1>1, <1>3, OtherStages
<1>5. Stage(g)' = "idle"
  <2>1. Evaluated(g)'
    BY <1>1, <1>3, HolderStep
  <2> QED BY <1>1, <2>1 DEF Stage
<1>6. [h \in Game |-> Stage(h)]' = [[h \in Game |-> Stage(h)] EXCEPT ![g] = "idle"]
  BY <1>4, <1>5
<1>7. [h \in Game |-> game[h].sim]' =
        [[h \in Game |-> game[h].sim] EXCEPT ![g] = @ + 1]
  <2>1. /\ game'[g].sim = game[g].sim + 1
        /\ \A h \in Game : h # g => game'[h].sim = game[h].sim
    BY <1>3, <1>4
  <2> QED BY <2>1
<1>8. [h \in Game |-> game[h].moves]' =
        [[h \in Game |-> game[h].moves] EXCEPT
           ![g] = IF game[g].sim + 1 = SimCount THEN @ + 1 ELSE @]
  <2>1. /\ game'[g].moves = IF game[g].sim + 1 = SimCount THEN game[g].moves + 1
                            ELSE game[g].moves
        /\ \A h \in Game : h # g => game'[h].moves = game[h].moves
    BY <1>3, <1>4
  <2> QED BY <2>1
<1> QED BY <1>2, <1>6, <1>7, <1>8 DEF Search!Evaluate, Stage

LEMMA EndGameRefines ==
  ASSUME IInv, NEW s \in CPU, HandleEndGame(s), NEW g \in Game, gameIndex[s] = g
  PROVE  Search!EndGame(g)
<1> DEFINE m == [NewGame EXCEPT !.root = game[g].turn, !.child = game[g].child]
<1>1. /\ slave[s] = "endgame" /\ slave[s] \in Holding
      /\ slave' = [slave EXCEPT ![s] = "before"]
      /\ game' = [game EXCEPT ![g] = m]
      /\ UNCHANGED <<masterVars, mctsIndex, gameIndex, data, output>>
  BY DEF HandleEndGame, Goto, Holding, netVars
<1>2. m.sim = 0 /\ m.moves = 0
  BY DEF NewGame
<1> HIDE DEF m
<1>3. /\ g \in Game /\ game[g].sim = SimCount /\ Stage(g) = "idle"
  <2>1. Held(g, "endgame") /\ Evaluated(g) /\ g \in Game
    BY <1>1, HolderFacts DEF Holding
  <2> QED BY <1>1, <2>1, HeldGame, StageIs DEF StageInv, GameInv
<1>4. /\ game'[g] = m
      /\ \A h \in Game : h # g => Stage(h)' = Stage(h) /\ game'[h] = game[h]
  BY <1>1, OtherStages
<1>5. Stage(g)' = "idle"
  <2>1. Evaluated(g)'
    BY <1>1, HolderStep
  <2> QED BY <1>1, <2>1 DEF Stage
<1>6. [h \in Game |-> Stage(h)]' = [h \in Game |-> Stage(h)]
  BY <1>3, <1>4, <1>5
<1>7. /\ [h \in Game |-> game[h].sim]' = [[h \in Game |-> game[h].sim] EXCEPT ![g] = 0]
      /\ [h \in Game |-> game[h].moves]' =
            [[h \in Game |-> game[h].moves] EXCEPT ![g] = 0]
  BY <1>2, <1>4
<1> QED BY <1>3, <1>6, <1>7 DEF Search!EndGame, Stage

LEMMA SelectRefines ==
  ASSUME IInv, IInv', NEW s \in CPU, RunBeforeForward(s),
         NEW g \in Game, gameIndex[s] = g
  PROVE  Search!Select(g)
<1> DEFINE r == Rooted(game[g])
<1>1. /\ slave[s] = "before" /\ slave[s] \in Holding
      /\ slave' = [slave EXCEPT ![s] = "job"]
      /\ UNCHANGED <<masterVars, mctsIndex, gameIndex, output>>
  BY DEF RunBeforeForward, Goto, Holding
<1>2. /\ g \in Game /\ NetOf(g) \in GPU /\ Stage(g) = "idle"
      /\ game[g] \in GameRecord
  BY <1>1, HolderFacts, HeldGame, StageIs, GameFacts DEF StageInv
<1>3. /\ r \in GameRecord
      /\ r.sim = IF game[g].sim = SimCount THEN 0 ELSE game[g].sim
      /\ r.moves = game[g].moves
  <2>1. game[g].sim \in 0 .. SimCount /\ game[g].moves \in None .. MaxMoves
        /\ 0 \in 0 .. SimCount
    BY <1>2, SimAssumption, MoveAssumption DEF GameRecord, None
  <2>2. CASE game[g].sim >= SimCount \/ game[g].sim = 0
    <3>1. r = [game[g] EXCEPT !.sim = 0, !.root = game[g].turn,
                              !.backup = game[g].moves]
      BY <2>2 DEF Rooted
    <3> HIDE DEF r
    <3>2. r \in GameRecord
      BY <1>2, <2>1, <3>1 DEF GameRecord
    <3>3. r.sim = 0 /\ r.moves = game[g].moves
      BY <1>2, <3>1 DEF GameRecord
    <3> QED BY <2>1, <2>2, <3>2, <3>3, SimAssumption
  <2>3. CASE ~(game[g].sim >= SimCount \/ game[g].sim = 0)
    BY <1>2, <2>1, <2>3, SimAssumption DEF Rooted
  <2> QED BY <2>2, <2>3
<1>4. PICK m : /\ game' = [game EXCEPT ![g] = m]
               /\ m.sim = r.sim /\ m.moves = r.moves
  <2>1. PICK leaf : game' = [game EXCEPT ![g] = [r EXCEPT !.leaf = leaf]]
    BY DEF RunBeforeForward
  <2> DEFINE m == [r EXCEPT !.leaf = leaf]
  <2> HIDE DEF r
  <2>2. m.sim = r.sim /\ m.moves = r.moves
    BY <1>3 DEF GameRecord
  <2> QED BY <2>1, <2>2
<1> HIDE DEF r
<1>5. /\ game'[g] = m
      /\ \A h \in Game : h # g => Stage(h)' = Stage(h) /\ game'[h] = game[h]
  <2>1. gameIndex[s] = g /\ game' = [game EXCEPT ![gameIndex[s]] = m]
    BY <1>4
  <2>2. /\ game'[gameIndex[s]] = m
        /\ \A h \in Game : h # gameIndex[s] =>
             Stage(h)' = Stage(h) /\ game'[h] = game[h]
    BY <1>1, <2>1, OtherStages
  <2> QED BY <2>1, <2>2
<1>6. Stage(g)' = "asked"
  <2>1. ~Fresh(g)' /\ ~Evaluated(g)' /\ ~Forwarded(NetOf(g))'
    BY <1>1, <1>2, HolderStep
  <2>2. IInv' => StageInv'
    BY StageIs, PTL
  <2> QED BY <1>1, <1>2, <2>1, <2>2 DEF StageInv
<1>7. [h \in Game |-> Stage(h)]' = [[h \in Game |-> Stage(h)] EXCEPT ![g] = "asked"]
  BY <1>5, <1>6
<1>8. [h \in Game |-> game[h].sim]' =
        [[h \in Game |-> game[h].sim] EXCEPT ![g] = IF @ = SimCount THEN 0 ELSE @]
  <2>1. /\ game'[g].sim = IF game[g].sim = SimCount THEN 0 ELSE game[g].sim
        /\ \A h \in Game : h # g => game'[h].sim = game[h].sim
    BY <1>3, <1>4, <1>5
  <2> QED BY <2>1
<1>9. [h \in Game |-> game[h].moves]' = [h \in Game |-> game[h].moves]
  BY <1>3, <1>4, <1>5
<1> QED BY <1>2, <1>7, <1>8, <1>9 DEF Search!Select, Stage

\* A batch of games, advanced by threads in two phases, implements one
\* sequential search per game (ZeroMCTS::run): select, have that leaf
\* evaluated, update, move after SimCount simulations, begin anew at the end.
THEOREM Implementation == Spec => ImplementsSearch
<1>1. IInv /\ IInv' /\ [Next]_vars => [Search!Next]_(Search!vars)
  <2> SUFFICES ASSUME IInv, IInv', [Next]_vars
               PROVE  [Search!Next]_(Search!vars)
    OBVIOUS
  <2>1. CASE MasterStep
    <3>1. UNCHANGED <<game, output, gameIndex>>
      BY <2>1 DEF MasterStep, Initialize, BeginPhase, StartRun, FinishRun,
                  slaveVars, netVars
    <3>2. \A s \in CPU : {slave[s], slave'[s]} \cap {"endgame", "before"} # {}
            => slave'[s] = slave[s]
      BY <2>1, ThreadFacts DEF MasterStep, Initialize, BeginPhase, StartRun, FinishRun,
                               slaveVars, IInv, TypeOK
    <3> QED BY <3>1, <3>2, Stutters
  <2>2. ASSUME NEW s \in Slave, SlaveStep(s)
        PROVE  [Search!Next]_(Search!vars)
    <3>1. CASE InitializeSlave(s) \/ GetNextMCTSIndex(s)
      <4>1. UNCHANGED <<game, output>> /\ slave[s] \notin {"endgame", "before"}
        BY <3>1 DEF InitializeSlave, GetNextMCTSIndex, netVars
      <4>2. \A t \in Slave : /\ t # s => slave'[t] = slave[t]
                                       /\ gameIndex'[t] = gameIndex[t]
                             /\ slave'[s] \notin {"endgame", "before"}
        BY <3>1 DEF InitializeSlave, GetNextMCTSIndex, IInv, TypeOK
      <4> QED BY <4>1, <4>2, Stutters, ThreadFacts
    <3>2. CASE Forward(s)
      <4>1. s \in GPU
        BY <3>2 DEF Forward
      <4> QED BY <3>2, <4>1, ForwardRefines DEF Search!Next
    <3>3. CASE slave[s] \in Holding
      <4>1. s \in CPU /\ gameIndex[s] \in Game
        BY <3>3, HoldersAreCPU, HolderFacts
      <4> PICK g \in Game : gameIndex[s] = g
        BY <4>1
      <4>2. CASE SkipAfterForward(s)
        <5>1. /\ slave' = [slave EXCEPT ![s] = "before"]
              /\ UNCHANGED <<masterVars, mctsIndex, gameIndex, output>>
              /\ game' = game /\ game[g].leaf = NoPosition
          BY <4>2 DEF SkipAfterForward, Goto, netVars
        <5>2. \A h \in Game : h # g => (Evaluated(h)' <=> Evaluated(h))
          BY <3>3, <4>1, <5>1, HolderStep
        <5>3. \A h \in Game : Answered(h)' <=> Answered(h)
          BY <5>1 DEF Answered
        <5> QED BY <5>1, <5>2, <5>3 DEF Search!vars
      <4>3. CASE RunAfterForward(s) \/ RunAfterForwardAndPlay(s)
        BY <4>1, <4>3, EvaluateRefines DEF Search!Next
      <4>4. CASE HandleEndGame(s)
        BY <4>1, <4>4, EndGameRefines DEF Search!Next
      <4>5. CASE RunBeforeForward(s)
        BY <4>1, <4>5, SelectRefines DEF Search!Next
      <4> QED BY <2>2, <3>3, <4>2, <4>3, <4>4, <4>5
              DEF SlaveStep, InitializeSlave, Forward, GetNextMCTSIndex, Holding
    <3> QED BY <2>2, <3>1, <3>2, <3>3
            DEF SlaveStep, Holding, Goto, SkipAfterForward, RunAfterForward,
                RunAfterForwardAndPlay, HandleEndGame, RunBeforeForward
  <2>3. CASE UNCHANGED vars
    <3>1. UNCHANGED <<game, output, slave, gameIndex>>
      BY <2>3 DEF vars, slaveVars, netVars
    <3> QED BY <3>1, Stutters
  <2> QED BY <2>1, <2>2, <2>3 DEF Next
<1> QED BY <1>1, InitRefines, Invariance, PTL DEF Spec, ImplementsSearch, Search!Spec

===============================================================================
