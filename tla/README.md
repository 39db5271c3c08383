# Verification of MiniZero / Proof Cost Networks

TLA+ models of the program in this repository: a training system (a server, self-play
machines and an optimizer) that produces proof-cost networks, and the solvers (MCTS, DFPN,
depth and size) that use them on 9x9 killall-Go and Gomoku problems.

Every definition is translated from the code; `PROJECT.json` maps it to its lines.

## 1. Inventory

| component | state | operations | hard behaviour | what makes it correct |
|---|---|---|---|---|
| Training server (`ZeroServer.*`) | iteration, games so far, m_bOptimization, m_modelIteration, queue of games, idle flag per worker | `SelfPlay`, `Optimization` (main thread); `handle_msg`, `do_close` (io thread) | two threads, two mutexes, one critical section that reads data guarded by the other; late reports; stale games | one model per sgf file, one training per iteration, every iteration ends |
| Worker connections (`BaseWorkerHandler.h`) | socket, write queue, end flag per worker; the set of workers | accept, write, read, close | connection loss at any point; lines handled after the close | FIFO, nothing sent twice, a rejected worker leaves |
| Worker machines (`worker.sh`, `Train.py`) | self-play process or training; connection | command loop | killed process leaves half a line; commands skipped or delayed by a running training | only the last ordered job runs |
| Game batch (`ZeroSelfPlay.*`, `BaseMasterSlave.h`, `ZeroMCTS.*`) | one MCTS per game, shared index, barriers | `doSlaveJob`, `run` | threads between two barriers, shared index | each game is advanced exactly once per phase, no thread crosses a phase |
| MCTS tree (`BaseMCTS.*`) | node array, counts and means, value map | selection, expansion, update, rollback | array bound; rollback of children | allocation stays in bounds, value map = values of the tree |
| MCTS solver (`MCTSSolver.*`) | tree with WIN/LOSS marks, transposition table | selection, evaluation, update | marks propagate from children; draws; positions reached in two orders | a mark is the game's true outcome |
| DFPN solver (`DFPNSolver.*`) | stack of `MID`, proof numbers, table | `MID`, expansion, PN/DN update | thresholds, saturation, table entries that change under the search | marks are outcomes, unsolved nodes stay open, the search ends |
| Depth and size solvers (`DepthSolver.h`, `SizeSolver.h`) | recursion over the game, dumped problems | `solveGame`, `solveWinMoves`, `solveLossMoves` | limits shared, narrowed and passed on, one off per level | best play and the least sizes, exactly |
| Solver driver (`BaseSolver.*`, `solve*.sh`) | problem, answer and tree files; a process per window | `loadProblem`, `lockProblem`, `solve`, `saveAnswer`, `saveTree`, going back two moves | several processes, a crash between lock and answer | each file is of the game it is named for, every problem gets its answer |
| Tables (`OpenAddressHashTable.h`, `HashTable.h`) | open-addressing arrays | lookup, store, erase | full table; erase without tombstones | a stored entry is found |
| Go (`Games/Go.*`) | stones, blocks with liberties and keys, history | `play`, `undo`, `isLegalMove`, `isTerminal`, Benson's algorithm | incremental updates and their undo; keys ahead of captures | the rules of Go; undo inverts play; life is life |
| Gomoku (`Games/Gomoku.h`) | stones, threat and winner, their record | `play`, `undo`, `isTerminal` | only lines through the last stone are looked at | verdicts hold for the whole board |
| Points (`Point.h`) | none | rotations and reflections | inverse table | rotate then reverse = identity |

Section 11 lists what is not modelled. The hazards of each component, covered or not, are in
`PROJECT.json`.

The parts interact as follows. `zero-server.sh` starts `ZeroServer` once; its main thread
alternates `SelfPlay` and `Optimization`. Workers connect over TCP and are asked `Info`; the
answer makes a worker idle. The main thread sends every idle worker the job of the current
phase (`Job_Selfplay model`, `Job_Optimization model start end`) and `Job_Done` to all at
the end of a phase; workers skip the jobs that are not theirs. Self-play machines print
`Self-play ...` lines, which the io thread queues for the main thread; the optimizer prints
`Optimization_Done step`, upon which the io thread sets the flag the main thread polls and
the new model number. A self-play machine is itself a `ZeroSelfPlay` master with slave
threads, each advancing `ZeroMCTS` games. The solvers use the same games. `BaseSolver` feeds
the MCTS and DFPN solvers with problem files; `GTPEngine`'s `solve` command runs the depth or
the size solver.

## 2. Plan

| modules | composition | state |
|---|---|---|
| `ZeroServer`, with history in `TrainingOrders` | implements `TrainingLoop` | modelled, checked, proved (`ZeroServerProofs`) |
| `SelfPlayBatch` | implements `SearchLoop` | modelled, checked, safety and refinement proved (`SelfPlayBatchProofs`) |
| `MCTSSolver` over `GameTree` | implements `ProblemSolver` | modelled, checked, proved (`MCTSSolverProofs`) |
| `DFPNSolver` over `GameTree`, with `OpenAddressHashTable` | implements `ProblemSolver` | modelled, checked, marks, table, budget and refinement proved (`DFPNSolverProofs`) |
| `GoGame` over `GoBoard`, with `GoHashTable` and `BensonLife` | implements `GoRules` | modelled, checked; the table's operators proved (`GoHashTableProofs`) |
| `GomokuGame` over `GoBoard` | | modelled, checked, proved (`GomokuGameProofs`) |
| `DepthSolver`, `SizeSolver` over `GameTree`, in `SolveCommand` | against `BestPlay` | modelled, checked, proved (`SolveCommandProofs`) |
| `SolverDriver` | | modelled, checked, safety proved (`SolverDriverProofs`) |

Left to model: the restart of the server from the files it left (`zero-server.sh`), the value
map and the counts of `BaseMCTS`, the symmetries of `Point`.

## 3. The training loop: `ZeroServer`

One process per thread: the main thread (`pc`), the io thread (every handler is one step),
and per worker machine its script, self-play process or training. Two FIFO channels per
worker stand for the write queue with its socket and for the socket's other direction.

| model | code |
|---|---|
| `LockWorkers`, `SendSelfPlay`, `UnlockWorkers` | the send loop of `SelfPlay`, split per worker because it reads `m_modelIteration` outside its mutex |
| `GetOneSelfPlay`, `RecordSelfPlay` | the pop, then the comparison and the record, two steps because the model may change between them |
| `FinishSelfPlay`, `FinishOptimization` | the notification loop (all workers idle, `Job_Done`), with the step of `run()` after it |
| `StartOptimization`, `ConfigureOptimization`, `CheckOptimization`, `SendOptimization` | `Optimization`, one action per access to shared data |
| `Connect`, `HandleInfo`, `HandleSelfPlay`, `HandleOptimizationDone`, `HandleJoinedLine`, `CloseBrokenConnection` | `handle_accept`, the branches of `handle_msg`, `do_close` from an error |
| `ReadInfo`, `ReadJobSelfplay`, `ReadJobOptimization`, `ReadJobDone`, `ClosedByServer` | the branches of the loop of `worker.sh` |
| `PlayGame`, `FinishTraining`, `DropConnection` | `ZeroMCTS::handleEndGame`, the end of `Train.py`, the network |

A game is the model named in its tag; a model is the number of trainings behind it. Files
are the sets of models whose games they hold. Logging, statistics, seeds, `keep_alive` and
SGF text are left out. A worker has one slot: a machine whose connection broke comes back
only when the server has closed the old connection (the script sleeps 10 s). An unfinished
line of a killed self-play process is the message `CutLine`; it joins the line after it.

At the end of a phase the main thread decides that every worker is idle. If the `Info` answer
of an optimizer is in flight at that moment, it later marks a worker idle that already has an
order, and the worker gets a second one. A second optimizer gets a second order, too. Then a
report of an old order can end the next Optimization early, and the real report changes the model
in the middle of `SelfPlay`: the busy machines keep playing the old model, their games are all
discarded and self-play does not end. The code has no guard against this and the model has none
either. `TrainingOrders` adds two history variables to `ZeroServer`, which no step of the server
or of a machine depends on:

- `doubled`, the iterations in which an order was sent on top of another: the training was already
  reported, or an optimizer still had an order, trained or had reported, or a second optimizer got
  the order at the same time (`DoublesOrder`);
- `late`: an optimizer was marked idle while its order was about (`MarksBusyIdle`).

The properties say what holds as long as `doubled` is empty, what makes it otherwise, and what
still holds then. `TrainingLoop` is the abstract loop: games of one model, one training, the next
iteration. `Disturb` is a doubled order; afterwards `LateReport` may set any model made so far,
or the next one, at any time, and end the training. Games, phases and iterations stay exact.

### Runs

| run | instance | shows |
|---|---|---|
| `server_one_op` | 1 sp, 1 op, 4 games, 3 iterations, 1 drop, fairness | `TypeOK`, `OneModelPerFile`, `OnlyLateInfoDoubles`, `ModelNeverDecreases` although orders overlap, `TrainingCompletes` |
| `server_two_op` | 1 sp, 2 op, 4 games, 2 iterations, 1 drop | `LoopInv`, refinement of `TrainingLoop`, `TrainsOnFinishedFiles` |

Bounds: `NumGame` is 4, the least the code supports (line 152 divides by a quarter of it);
`MaxInFlight` lines and `MaxQueue` games bound what a fast self-play process can produce
ahead of the reader (with one optimizer a cut line and a game fit on a connection); `MaxDrops`
broken connections are enough for a loss in every phase, since a run explores them all; three
iterations let a report of the first iteration reach the third, two let a late report end the
wrong Optimization and change the model during `SelfPlay`. `server_two_op` takes the two optimizers
as symmetric: no action, constant or property names one. Deadlock is not checked: when the loop is
over the server waits for its io thread for ever.

With two optimizers `ModelNeverDecreases` fails within two iterations; the README's setup has one.
`TrainingCompletes` claims nothing of a run with a doubled order, for the reason above.

Fairness of `FairOrdersSpec`: strong for the handlers that need `m_workerMutex`, because the
main thread releases and takes that mutex again and again and a blocked thread gets it in the
end; weak for the other handlers, the main thread and the machines, which nothing disables
but their own step. `DropConnection` is not fair.

### Proofs: `ZeroServerProofs`

For all constants that satisfy the ASSUMEs of `ZeroServer`, any number of optimizers and any
timing:

- `TypeCorrect`: `Spec => []TypeOK`.
- `FinishedFiles`: `Spec => []TrainsOnFinishedFiles`, from `FilesInv`: every order under way,
  in a channel or in a training, ends its window at a complete file.
- `LoopNeverDisturbed`: `OrdersSpec => []LoopInv`. Until an order is doubled, the order is a
  token - command, training, report - that exists only while the main thread waits for it, in one
  place, of one optimizer, and is about the current iteration. `SendOptimization` alone makes
  tokens (`TokenStep`), and one that does not double an order makes the only one (`SendTokens`).
- `FilesOfOneModel`: `OrdersSpec => []OneModelPerFile`. The model is that of the iteration as
  long as no order is doubled, and `PastDoubles` says that an order is never doubled in an
  iteration to come, so that the files before and of the doubled one were complete.
- `Implements`: `OrdersSpec => ImplementsLoop`. Until an order is doubled, under `LoopInv`,
  `HandleOptimizationDone` is `Train`; from then on it is `LateReport`, under `BoundsInv`: however
  many trainings were ordered, what is on its way to, at and from an optimizer names models that
  existed, so that an iteration adds at most one (`Top`).

With `OneOptimizer`, the README's setup:

- `LateInfoDoubles`: `OrdersSpec => []OnlyLateInfoDoubles`. `LateInv`: until a late answer, an idle
  optimizer has no token and is not marked idle between a report and the check that notices it.
- `ModelsRise`: `Spec => ModelNeverDecreases`. A late answer puts several orders on
  their way, so the tokens of `LoopInv` do not help. `ModelsInv` is about their order
  instead: along the way reports - training - orders the models rise, the reports not yet handled
  name at least the current model, and no order names a model beyond the one the main thread
  ordered last (`Pipeline`, `Ceiling`).

A step of `OrdersSpec` is a step of `Spec` (`OrdersStep`), so what is proved of `Spec` holds of
both. Channels are handled by lemmas on `Append`, `Tail` and prefixes, and `Quieter`: a channel
that lost messages or gained harmless ones keeps the invariant (`QuietStep`, `QuietBounds`).

Model-checked only: liveness (`TrainingCompletes`).

## 4. A self-play process: `SelfPlayBatch`

Processes: the master thread, one slave per GPU, `NumCPU` slaves that advance games.

| model | code |
|---|---|
| `Initialize`, `InitializeSlave` | `initialize()` on both sides |
| `BeginPhase`, `StartRun`, `FinishRun` | the loop of `ZeroSelfPlayMaster::run`; an action of `StartRun` or `FinishRun` is one barrier, which both sides leave together |
| `GetNextMCTSIndex` | `getNextMCTSIndex` under `m_mutex` |
| `Forward` | `Network::forward` of a GPU slave, over the whole batch |
| `SkipAfterForward`, `RunAfterForward`, `RunAfterForwardAndPlay`, `HandleEndGame` | `runMCTSSimulationAfterForward`, by its branches |
| `RunBeforeForward` | `runMCTSSimulationBeforeForward` and `set_data` |

A position is its game, the length of the game, the simulation and the colour to move. That
is all the properties need to tell one leaf from another: the network's output is the
position it was computed from, so that an answer for a wrong leaf shows. `data` and `output`
have a slot per game and rotation, as the tensors do. Trees, policies, values, resignation
and the printed games are left out; the rules end a game at any move, at `MaxMoves` at the
latest.

`SearchLoop` is `ZeroMCTS::run`, the sequential search the batch replaces, once per game;
its networks evaluate all their games together or none. The refinement mapping calls a game
asked between its `RunBeforeForward` and the evaluation of the leaf, and answered when all
its slots hold the output for that leaf.

| run | instance | shows |
|---|---|---|
| `batch_rounds` | 2 GPUs, 2 CPU threads, 2 games per network, 2 rotations | `EvaluatesOwnLeaf`, `Lockstep`, the refinement, `EveryGameFinishes` |
| `batch_colors` | 1 GPU, 2 games, 2 rotations | `PolicyOfOwnColor` fails (finding) |

Bounds: two networks so that a game could reach another network's slots, two games per
network so that it could reach a neighbour's, two CPU threads so that they race for the
index and one can finish the phase first. `SimCount` is 2, the least that works: with one
simulation the root is expanded but no child is visited, and `decideMCTSAction` has no move
to return (`SimAssumption`). Two moves are enough for a game that ends at once and for one
that goes on. Deadlock is checked.

Fairness: weak, for every thread. The mutex is held within one step only and a barrier, once
everyone has arrived, releases everyone; no thread can lose a race for ever.

Finding: `getProbability` reads the colour of a game at slot `batchID`, while `set_data`
with rotations has stored it at `batchID * NET_ROTATION + i`. All but the first game of a
batch get the moves of another game's colour. With `NET_ROTATION` 0 or 1 the two agree, which is proved (`PolicyWithoutRotation`).

### Proofs: `SelfPlayBatchProofs`

For any numbers of GPUs, CPU threads, games per network, rotations, simulations and moves that
satisfy the ASSUMEs of `SelfPlayBatch`:

- `TypeCorrect`, `OwnLeafEvaluated`, `CurrentPositionSearched`, `PhasesInLockstep`: `Spec => []...`
  of the invariants of `batch_rounds`, and of `SearchesCurrentPosition`: the root of a search in
  progress is the position its game is in.
- `PolicyWithoutRotation`: with `NetRotation` 0 or 1, `Spec => []PolicyOfOwnColor`; the run
  `batch_colors` shows that two rotations are too many.
- `Implementation`: `Spec => ImplementsSearch`. A `Forward` is the `Forward` of its network's
  games, the branches of `RunAfterForward` are `Evaluate` and `EndGame`, `RunBeforeForward` is
  `Select`, every step of a barrier or of the index stutters.

None of them is inductive. `BarrierInv` says where the slaves can be, given the master's place
in its loop: who has been started and not yet finished is in the present phase's range and the
others wait. `IndexInv` says what the shared index has given out: each game below it to one
thread at most, and everything once a thread has found it at the end. From both follows who is
still to be advanced in this phase (`Due`), and `GamesInv` says that a game not yet advanced and
one already advanced are one simulation apart, which slots hold a game's leaf, and that they are
answered exactly when its network has run. The arithmetic of games, networks and slots (one
network's games and slots are disjoint from another's) is in lemmas of its own.

Model-checked only: `EveryGameFinishes` (liveness) and the absence of deadlock.

## 5. The MCTS solver: `GameTree`, `MCTSSolver`, `ProblemSolver`

`GameTree` is what the solvers use of a game: positions with their history, which form a
tree below each problem, legal moves, terminal positions, winners and keys. `Outcome` is the
true outcome, from the point of view of the player who moved to the position, as the node's
marks are. A draw is no win for that player, so it is marked `LOSS` (`MCTSSolver.cpp:124`),
and its parent can become `WIN`: `Outcome` follows the code. Two assumptions are not facts
of the code. `FiniteHeight`: the rules end every game, so that `Height`, the most moves a game
may still have, is a number that falls with every move; `FiniteGame`, that `Outcome` is then a
function, follows from it (`OutcomeDefined` in `SolveCommandProofs`). And `KeyAssumption`:
positions with one key have one outcome. `getTTHashKey` does not hold the whole history that superko depends
on, so for Go the second is an assumption about the problems; the hazard is listed.

| model | code |
|---|---|
| `Solve`, `SaveAnswer` | `runSolver`'s command with `loadProblem`, the head and the end of `solve`, `saveAnswer` with `getSolvedMove` |
| `BeginSelection`, `SelectChild` | `selection`; `selectChild` takes any unsolved child |
| `Expand` | `evaluation`, `expansion` and `allocateNewNodes` for a leaf that is neither terminal nor in the table |
| `MarkLeaf`, `MarkParent`, `EndUpdate` | `update`, one action per round of its loop |
| `StoreTT`, `FoundEntryInTT` | the table, a map with room for `TTSize` keys; a full table never returns, as in the code |
| `Rollback` | `rollbackGame` |

The choice among unsolved children depends on counts, means and policies, which are left
out: the model takes any, so what is checked and proved holds for every network.
`ProblemSolver` is the promise the driver and every solver share: a problem is answered
once, by its outcome or `UNKNOWN`.

| run | instance | shows |
|---|---|---|
| `mcts_table` | the 48 games of `MCGameTree`, table of 6 entries, no limit | marks, entries, answers and moves are right, selection never lacks a child, every problem is solved |
| `mcts_count` | the same games, no table, 3 simulations | `NodesInBounds`, reached with equality |
| `mcts_time` | the same games with the table and `SIM_CONTROL` 1 | `NodesInBounds` fails (finding) |

`MCGameTree` holds all games of a shape with two orders of moves to one position, a line
that ends early with a win or a draw, and moves that go on after it; all combinations of
winners. The solvers of sections 6 and 9 use it, too. Six entries are the most a problem of the
shape stores: with five the solver hangs in `store`, which the run would report as a
deadlock. Fairness: weak, for the one thread between a command and its answer.

Finding: the node array has room for `MCTS_SIMULATION_COUNT` expansions; with
`SIM_CONTROL` 1, as in every `solver_cfg` file, only the clock ends the search, and the
array can be outgrown. `BaseMCTS.h:69` asserts that it is not.

### Proofs: `MCTSSolverProofs`

For every game that satisfies `GameAssumption`, `FiniteGame` and `KeyAssumption`, every
table size and every way to end and to select:

- `TypeCorrect`, `MarksCorrect`, `TableCorrect`, `SelectionSafe`, `AnswersCorrect`:
  `Spec => []...` of the invariants of `mcts_table`.
- `Implementation`: `Spec => ImplementsPromise`; `Solve` is `Ask`, `SaveAnswer` is `Answer`,
  every other step stutters.
- `ArrayHoldsTree`: if simulations are counted, `Spec => []NodesInBounds`. Each simulation
  adds the children of one node at most (`CountInv`).

`MarksAreOutcomes` is not inductive: `AllChildrenLoss` of a parent says something of the
outcome only if all its children are in the tree and it is not terminal (`TreeInv`), and
`storeTT` uses the key of the right position only if `game` has followed the path back
(`PathInv`, which also says that no position is twice on the path). That selection finds a
child needs more: an unsolved node with children has no won child and one unsolved child,
except the parent `update` is about to mark (`PropagationInv`). `WitnessInv` says that a
lost root has a child to answer with. `IInv` is their conjunction; `NextInv` has a lemma per
action.

Model-checked only: `EveryProblemIsSolved` (liveness) and the absence of deadlock.

## 6. The DFPN solver: `DFPNSolver`, `OpenAddressHashTable`

`stack` holds the frames of `MID`'s recursion, the last one running. It solves the games of
`GameTree` and promises the same as the MCTS solver, `ProblemSolver`.

| model | code |
|---|---|
| `Solve` | `solve`, `newTree`, the outermost call of `MID` |
| `MIDTerminal` | `MID` of a terminal position: stored, also beside an entry of its key |
| `Expand` | `expandVanillaNode`, `expandCNNNode` with `getPNDNfromTT` |
| `MIDChild` | a round of the loop: `updatePNDN`, `selectBestChild`, the child's thresholds |
| `MIDReturn` | the round that meets a threshold or `isExpansionEnd`, and the store |
| `UpdatedNode`, `Focus` | `updateSolutionStatus`, `updatePNDN` with the limit of focused children, weak PNS |
| `TimeUp` | the clock passing the limit |
| `store`, `lookup`, `Found`, `Overwrite` | the table with linear probing, never erased |

The network's numbers are any of `conf.numbers`, the order of the children is any, and both
are chosen again at each expansion, more freely than the code does. Numbers are at least 1:
one of 0 with `epsilon` on would give a child thresholds it has met already. `DBL_MAX` is
`Inf`, above all sums of the instances; fractions are quarters, rounded up as the code does.
The clock that has run out stays so. When a full table lacks the key, `lookup` never returns:
the model then has no step.

| run | instance | shows |
|---|---|---|
| `dfpn` | 32 games without draws, tables of 16 slots with shared homes, four configurations: plain; weak and limited by time; focused with epsilon and limited to 3 entries; focused with a widening limit and the network's numbers | marks and answers are outcomes, unsolved nodes stay open, the table keeps its entries and overruns its budget by one call's depth at most, unlimited searches end |

Sixteen slots hold every position of a game, so that the runs without a limit cannot fill the
table; the homes are few, so that probes go round. Fairness: weak for `MID`, one thread.

### Proofs: `DFPNSolverProofs`

The table is a module of its own, and so are its facts, for every size and every choice of homes:
`TableOK` says that `lookup` finds the key of every entry and that the count is that of the
entries. `EmptyTableOK` and `StoreIs` say that clearing makes such a table and storing keeps it,
adds that key alone and hides none; `OverwriteIs` that an update changes one entry's data. An
empty slot for a new key exists as long as the table is not full (`StoreSlot`, by counting).

For every game that satisfies the assumptions of `GameTree`:

- `MarksCorrect`: `Spec => []MarksAreOutcomes`.
- `EntriesKept`: `Spec => EntriesStayFound`, an action property.
- `BudgetKept`: `Spec => []OverrunIsBounded`.
- `Implementation`: `Spec => ImplementsPromise`; `Solve` is `Ask`, the outermost `MIDReturn` or
  `MIDTerminal` is `Answer`, every other step stutters.

A mark is computed from children whose marks came from the table or from a call that has
returned; the table's come from marks. So `StackInv` says of every frame that its children are its
position's children, each unsolved or marked with its outcome, and that each frame was called for
a child of the one below; `TableInv` that an entry is `UNKNOWN` or the outcome of every position
with its key (`KeyAssumption`, as for the MCTS solver). `AnswerInv` is the last return. The budget
needs `BudgetInv`: the frames above the root are as many as moves were made, so the stack is never
higher than the game was long, and each frame stores at most one entry after the budget is spent.

The proofs use of the numbers only what `MIDChild` and `MIDReturn` decide from them: they hold for
any arithmetic. Model-checked only: `TypeOK` and `UnsolvedIsOpen`, which are about sums over the
children (`FoldSeq`, a recursion over data) that stay below `Inf`, a bound of the instances; and
`EveryProblemIsSolved` (liveness).

## 7. Go: `GoBoard`, `GoHashTable`, `BensonLife`, `GoGame`, `GoRules`

| model | code |
|---|---|
| `PlayStone`, `PlayPass` with `Placed`, `Join`, `Press`, `CombineBlocks`, `RemoveBlockAndGrids` | `play` and the helpers it calls |
| `Undo`, `TakeBack` with `Released`, `Parted`, `Revived` | `undo`: blocks split by flood fill, captured stones put back |
| `isLegalMove`, `KeyAfter`, `isOwnTrueEye`, `isEatKoMove`, `Forced` | `isLegalMove` with its options |
| `IsTerminal`, `Ended`, `eval` | `isTerminal`, which keeps Benson's regions, and the winner |
| `BensonLife` with `ClosedAreas`, `isCAHealthy`, `FindLife` | `setFullBoardBensonLife` and what it calls |
| `GoHashTable` | `HashTable.h` as the game uses it: what the entries in use hold; `eraseEntry` is `erase` on the entries themselves, `m_key` and `m_isFree` |

Points are numbers, bit boards sets, hash keys the sets of the random numbers XORed into
them: equal keys mean equal positions, so 64-bit collisions are left out. The table is never
full (4096 slots, a game has fewer moves). `erase` goes by the key alone, although freed and new
entries carry stale or uninitialized keys; that it still frees the entry `GoHashTable` frees is
proved (`StaleKeysHarmless`). A forced move (`GO_EXTRA_FORCE_MOVE`) is stored without a `lookup`:
forced openings are taken to repeat no position. Moves out of turn are those GTP's `play`
can ask for; the superko key then goes by the parity of the moves. A pass stores no key, so
situational superko does not count positions a pass made; `GoRules` says so too. Line 138 of
`undo` reads the entry it has just popped, one past the end of the vector: that is the board
as it was, which the lines after it then take back stone by stone, and the model has them so.
`GO_FORBIDDEN_BENSON_REGION` is left
out: no parameter of the program sets it. `MaxArea` stands for `MAX_UCT_CLOSEDAREA_SIZE`,
30 of 81 points in the code.

`GoRules` is the game as players know it: boards, connected groups, captures, no suicide, no
repetition, undo as the last move taken off. `GoGame` implements it, with blocks and
histories mapped to the line of boards.

| run | instance | shows |
|---|---|---|
| `go` | 3x3, table of 12 slots; two or three free moves with any undos, after five openings | `Consistent`: what is kept move by move is what the stones say; `TableHoldsHistory`; `LegalIsExact`; `BensonLifeIsLife` against every attack; the refinement |

The openings are played as `GO_EXTRA_FORCE_MOVE`, a real option: an empty board; a ko under
both superko rules; a joining move next to a capture of two; a living row. So captures of
one and of two, joins and splits, kos and repetitions, and life are all within three moves,
and the undos go back through the openings. Homes are the size of the key, so that probes
collide all the time. The last two openings reach living groups, and groups that fail
Benson's test.

### Proofs: `GoHashTableProofs`

Theorems about the table's operators, for every table size, any keys and any home slots. Linear
probing that erases without moving entries loses keys in general; it does not here because
`undo` erases the youngest position. `Stack(table, line)` says what a table so used is: each
position has one slot, the probe for it meets only older positions before it gets there
(`ReachedAt`), every slot in use is a position's, and one slot at least is free.

- `ClearedIsStack`, `StoreKeepsStack`, `EraseKeepsStack`: a new or cleared table is a `Stack`; storing
  a position `lookup` does not find, while there is room, and erasing the youngest keep it one.
  The youngest lies on nobody's way, so its hole cuts no probe short.
- `LookupIsExact`: in a `Stack`, `lookup` finds the positions of the line and no other. That a free
  slot ends the probe for an absent one is a count of the slots (`FreeSlot`).
- `EraseUndoesStore`: `undo` leaves the table exactly as `play` found it.
- `StaleKeysHarmless`: no free entry lies on the way to a position in use, so `erase`, which goes by
  the key alone, meets no old copy of it.

The theorems are about the operators, not about `Spec`. What ties them to the game is
`TableHoldsHistory`: the run `go` checks that in every reachable state the table is a `Stack` of
the line's positions. The board itself is model-checked only: `play` and `undo` fold over blocks and
flood fills, recursions over data (section 11).

## 8. Gomoku: `GomokuGame`

| model | code |
|---|---|
| `Play`, `PlayPass` with `updateConnection`, `updateThreat` | `play`: level 0 looks for a row through the stone, level 1 for threats |
| `Undo` with `undoThreat` | `undo` |
| `isLegalMove`, `isTerminal` | the same |

Segments are found by sliding a start along the line as the code does (`Start`). The code notes
the first point it finds as the threat and calls a winner when it finds another; so the winner
depends on whether all lines together have two points, and the threat is one of them, whichever
came first: after a win it is not read any more. The checks compare with all rows of the board
(`Row`, `WinningPoints`).

`play` makes a pass without looking at the rules (`Gomoku.h:58`), and whether one is legal is read
from beyond the board (`Gomoku.h:78`), so `PlayPass` is always possible. A pass is not recorded:
the undo after it takes back the move before it, and `Consistent` says that the board fits the
recorded moves even so. At level 1 a pass may also leave a threat standing. Then the player who
made the threat moves again, on the only point that is legal, and completes a row that level 1
does not see: it looks for threats, not for rows. So what level 1 says of threats and winners
is claimed for lines in which every threat on record was answered by the other player
(`TurnsTaken`); what undo restores, and all of level 0, is claimed for every line.

| run | instance | shows |
|---|---|---|
| `gomoku` | 4x4, three in a row; three moves on level 0 and four on level 1, first stone up to symmetry | `Consistent`, `VerdictsAreTrue` |

Four moves give each colour two stones in all places, open and closed, on every line and at
every edge: the first threats and double threats of a row of three; three moves on level 0
let rows come up with passes between, four on level 1 let a pass leave a threat standing.

### Proofs: `GomokuGameProofs`

For boards of every size and rows of every length from two on, at both levels:

- `UndoIsExact`: `Spec => []Consistent`.
- `VerdictsTrue`: `Spec => []VerdictsAreTrue`.

`Upto(moves, n)` is the board after the first n moves. `Played` says that the board and the key
are those of the moves and that no point was played twice; `PlayBoard` and `UndoBoard` keep it.
Undo makes an earlier position the present one, so the invariant is about all of them.
`LevelZero`: nobody had a row before the last move. `LevelOne`: a threat on record is on a free
point (`OnFree`), and as long as the threats were answered, nobody had a row and every earlier
position was `Settled` - its mover's opponent could win nowhere, the mover could win on the threat
on record and nowhere else; the present position is settled, too, unless it is won.
That is why only lines through the last stone matter, in two lemmas:

- `LastStone`: on a board without rows, a stone makes one exactly if one of its lines is long
  enough.
- `LastThreat`: if the mover could win nowhere and the opponent at most on the point of the
  stone, then after it there is no row, the opponent can win nowhere, and the mover wins exactly
  on the points `updateThreat` finds. One direction needs that the slide reaches every row
  through the stone (`RowIsFound`), the other that a segment it counts is a row of the board
  (`FoundWins`).

Below them are the coordinates: steps along a line add up (`StepIs`), do not repeat (`StepOnce`)
and stay on the board between two of its points (`Between`); the counts of `RowLength` and `Start`
are of initial segments (`InitialSegment`, by a least element). Nothing of this module is
model-checked only.

## 9. Depth and size: `BestPlay`, `DepthSolver`, `SizeSolver`, `SolveCommand`

`BestPlay` is the reference: who wins (`Victor`), in how many plies (`Plies`), with a proof
of how many nodes (`ProofSize`). `SolveCommand` is the engine's `solve`; a typedef (`GTPEngine.cpp:5`)
chooses the solver, so a behaviour has one of the two. It names `DepthSolver` today: the calls of
`SizeSolver` are commented out (`GTPEngine.cpp:132`), and what is said of it is about the class.

| model | code |
|---|---|
| `Deepen`, `DumpAnswer`, `TakeWinMove` | `solveGame` |
| `findWinningPath`, `mustLossWithin` (`WithinDepth`), `findWinMoves`, `nonLossMoves` | the same; the recursion is a table by depth |
| `generateWinSubproblem`, `generateLossSubproblem`, `LineEnds` | the recursion that dumps problems |
| `findWinTreeSize`, `findLossTreeSize`, `share` | the same, by limit, with every narrowing |
| `solveWinMoves`, `solveLossMoves` | the same; one printed move per step |

| run | instance | shows |
|---|---|---|
| `solve` | the 48 games, draws among them, depths 0 to 4, sizes 0 to 9 | the dumped files are exactly best play, the sizes those of the least proofs |

The games are four plies deep and their proofs have at most nine nodes, so the limits range
from none to more than enough. A draw counts as unsolved for both solvers, unlike for the
MCTS solver. `findWinDepth` and `findLossDepth`, which nothing calls, are left out. A problem is
a game still to be played (`ProblemIsOpen`): the code tries the moves of the game it is given
without asking whether it has ended.

### Proofs: `SolveCommandProofs`

For every game that satisfies `GameAssumption` and `FiniteHeight`, and every finite set of
problem sizes (`SizesAssumption`: the code's are the values of an `int`):

- `SolveDumpsBestPlay`: `Spec => []BestPlayDumped`.
- `SolverPrintsMinimalSizes`: `Spec => []SizesAreMinimal`.

Three things lie below the first. `RankRecursion`: a recursion that asks only for values of lower
rank defines a function. The definitions of `Victor`, `Plies`, `ProofSize`, `WithinDepth` and
`Searches` are choices of a function that satisfies an equation; that there is one is an induction
over data, done here for the graph of the recursion up to a rank, by least counterexamples, so
that no induction theorem is instantiated. The ranks are heights of a game (`Recursion`,
`TreeInduction`), depths, and sizes of the parts of a finite set (`SetInduction`, for folds).
`WithinDepthIs`: with limit d, `findWinningPath` and `mustLossWithin` answer yes
exactly for the positions won or lost by best play within d plies (`LevelIs`, one limit from the
one before; the look-ahead for terminal moves changes nothing). So `findWinMoves` and
`nonLossMoves` are the moves of best play when they are asked with the limit that is due
(`WinMovesAre`, `NonLossMovesAre`) - one off, and the loser's would be all its moves.

`BestPlayDumped` is not inductive. `Searching` adds that no pass so far found a win, so the first
one found is the shortest; `CallIs` that the call made next is about a position that follows one
of the files by a move of best play, with the limit that is due, and is for the right player;
`LinesAre` and `LineGoesOn` count the files of the complete lines and of the one under way.

The sizes are sums over moves, which the code adds up in the order of the board and `ProofSize`
in any order. `SumAdd` shows that the order does not matter: a sum can be split at any element.
`FoldLeft` over `Moves(p)` is a fold over the indices, so what a round of the code's loop keeps
holds at its end (`LoopDefined`, `LoopEnds`). The two loop invariants carry the prunings:

- `WinGot`: a win found so far is the smallest of the moves tried, and none of them has a smaller
  one within the narrowed limit (`WinTreeIs`).
- `LossGot`: the size so far is that of the moves counted, which fit the limit; or the search is
  done, and then the position has no proof as a loss within it (`LossTreeIs`). Its start is the
  sum of the moves that fit an even share: `LossStarts` shows that they fit the limit together,
  `NoneFits` that giving up when none does is right - if all moves fit the limit, one fits an even
  share, which needs the `- 1` and the rounding of `share` as they are.

Both are used from below: `SearchesAre` is the induction over the game that both searches of every
position are right for every limit (`RightWin`, `RightLoss`). What is printed is then right by
`SizeIInv`, the inductive invariant: what has been said was searched for the game, the limit and
the kind there are now.

Model-checked only: the absence of deadlock.

## 10. The driver: `SolverDriver`

Windows, as `run_go_parallel.sh` opens them, run `solve.sh` (a process per problem),
`solve_all.sh` (one process for all) or a process given `solve_back`, over the same
directories. A step is what one process does between two looks at the shared files.

| model | code |
|---|---|
| `ReadCommand` | the script's loop, `output_name` and the reading of a command, where `stoi` throws on a `solve_back` name without `_` (`NoNumber`) |
| `loadProblem`, `LookForAnswer`, `lockProblem`, `solve`, `saveAnswer`, `saveTree` | the same of `BaseSolver.cpp`; looking and locking are two steps |
| `GoBack`, `UndoTooFar` | the end of `solve_back`'s loop |
| `Crash`, `Rerun` | a process killed at work; a script started again |

A problem is known by the number in its file's name, and a game by its line of play and how
many moves of it are played. The two are independent, as in the code: `solve_back` takes its
number from the name and counts it down by two (`BaseSolver.cpp:31`, `:65`), and takes two
moves back (`:63`), and never compares them. In `problems/` they are unrelated (`Gomoku/1.sgf`
has 30 moves, `30.sgf` 16), so from `<prefix>_58.sgf` with 30 moves `solve_back` writes the
game of 28 moves, and its answer, under 56; if 56 is a given problem with the same prefix,
`solve.sh` then skips it although nobody solved it. `AnswersMatch` says exactly that much: an
answer is of the given game of its name, or of the game `solve_back` comes to under that name
(`GamesNamed`). It is the strongest statement the code keeps for every directory; where the two
games are the same, as in a series of problems two moves apart whose numbers are their lengths,
it says that an answer is to the problem it is named for (theorem `AnswersInSeries`). The names
shipped in `problems/` have no `_` before the number, so `solve_back` ends in `stoi` there;
`numbered` is whether they have one. `given`, what the directory holds, is chosen from
`Directories`. Of two answers
written to one file the later is the one read. `solve` finds few or many simulations: only
the comparison with 1000000 counts. Below two moves Go's undo stays at the empty board while
the numbers go on falling, and Gomoku's asserts; `LowestName` bounds that by making the
problems below it hard. An interrupted `solve_back` is not resumed: started again it meets its
own answers and stops (`BaseSolver.cpp:48`). At most one window runs `solve_back`: no script
runs it, and two of them race on a problem file that is empty for a moment (a listed hazard).

| run | instance | shows |
|---|---|---|
| `driver` | 2 windows, problems 5, 4 (unplayable), 3 of 5, 3 moves of one line or of 2, 4 moves of two lines, names with and without `_`, all pairs of scripts, Go and Gomoku, 2 crashes, 2 reruns | `AnswersMatch`, `HalfDoneIsExplained`, `Completed` |

Problem 3 is one `solve_back` comes to from 5, so that the windows meet on it: in the first
directory with the game that is there, in the second with the empty board. Two crashes let
both windows die, or one die twice; two reruns start both again. Deadlock is not checked: the
scripts end. Fairness: weak for a window's work, since searches are limited; not for crashes
and reruns. `Completed` excuses the problems a process died over (their empty file is skipped
for ever) and scripts that lost a process.

### Proofs: `SolverDriverProofs`

For any windows, directories, crashes and reruns (`DriverAssumption`: the problem directory is
not empty, its files hold games or nothing playable):

- `TypeCorrect`: `Spec => []IInv`. `AnswersMatch` needs `Sound`: a window at work writes under
  the number of the file it loaded, and has the given game of that number or, in `solve_back`,
  the first problem's game with as many moves taken back as the number went down (`BackTo`);
  which needs `MadeInv`, that the files `solve_back` wrote hold those games. Number and moves go
  down together although nothing ties them (`GoBackInv`, `UndoOfFirstMoves`), past the empty
  board, too.
- `AnswersOfTheirGames`: `Spec => []AnswersMatch`, for games of any lengths.
- `AnswersInSeries`: `Spec => []AnswersGiven`, its consequence for a series.
- `NothingElseHalfDone`: `Spec => []HalfDoneIsExplained`. `WritesNoFile` covers the steps that
  leave the files alone; locking, saving and the tree have a step each in `HalfWork`.

Model-checked only: `Completed` (liveness).

## 11. Not modelled

- The restart of the server (`zero-server.sh`, stage C): planned.
- Numbers of the search: counts, means, PUCT, the value map, policies, resignation. Every
  model takes any choice they could make, so its results hold for all of them.
- LibTorch's tensors (of `Network.*` only the slots of a batch are modelled), feature
  extraction and sampling (`pybind.cpp`), the training's numerics: data without a protocol.
- Go: what nothing calls (`getMoveInfluence`, the `...AfterPlay` variants), `trivialUndo`,
  features, and `deepCheck`, whose assertions are `Consistent`. `getTTHashKey`: positions have
  faithful keys in `GameTree`; that Go's may not be is a listed hazard (`Go.cpp:452`).
- Points and symmetries (`Point.h`): pure and small, a test covers all of it.
- GTP text other than `solve`, configuration, SGF parsing, logging, display scripts, docker.

What is checked by TLC only: liveness; what the flood fills and folds of `GoGame` compute for every
input; the sums of `DFPNSolver`, which stay below a bound of the instances; and the absence of
deadlock.
