------------------------------ MODULE MCTSSolver ------------------------------
(***************************************************************************)
(* The MCTS solver: problem after problem (BaseSolver::runSolver), it      *)
(* grows a tree by simulations (selection, evaluation, expansion, update,  *)
(* rollback) and marks nodes as won or lost until the root is marked or    *)
(* the simulations are used up.                                            *)
(*                                                                         *)
(* The tree's nodes are the positions in DOMAIN status; which of the       *)
(* unsolved children is selected depends on counts, means and policies,    *)
(* which are left out: any of them.                                        *)
(***************************************************************************)
EXTENDS GameTree, Sequences

CONSTANTS UseTT,        \* Configure::USE_TRANSPOSITION_TABLE
          SimControl,   \* Configure::SIM_CONTROL
          SimCount,     \* Configure::MCTS_SIMULATION_COUNT
          MaxActions,   \* Game::getMaxNumLegalAction()
          TTSize        \* m_size of the transposition table

ASSUME SolverAssumption ==
  /\ UseTT \in BOOLEAN
  /\ SimControl \in {"count", "time", "other"}
  /\ SimCount \in Nat /\ TTSize \in Nat /\ MaxActions \in Nat
  /\ \A p \in Position : Cardinality(Children[p]) <= MaxActions

VARIABLES
  pc,          \* where the solver is
  root,        \* the problem loaded last
  status,      \* m_solutionStatus of the nodes of the tree
  game,        \* m_game
  path,        \* m_vSelectNodePath
  index,       \* i, the node update() has reached
  bFoundInTT,  \* m_bFoundInTT
  TT,          \* m_TT: the status stored for some keys
  simulation,  \* m_simulation
  answer       \* what saveAnswer wrote last

searchVars == <<root, status, TT, simulation, answer>>
vars == <<pc, searchVars, game, path, index, bFoundInTT>>

Node == DOMAIN status
HasChildren(p) == Children[p] # {} /\ Children[p] \subseteq Node
Leaf == path[Len(path)]

\* The nodes new TreeNode[] makes room for.
NodeSize == 1 + SimCount * MaxActions

\* The answer file: the status and the move, none for a pass.
NoAnswer == [status |-> "none", move |-> {}]

Init ==
  /\ pc = "ready"
  /\ root \in Problem
  /\ status = [p \in {root} |-> "UNKNOWN"]
  /\ game = root
  /\ path = <<>>
  /\ index = 0
  /\ bFoundInTT = FALSE
  /\ TT = [k \in {} |-> "UNKNOWN"]
  /\ simulation = 0
  /\ answer = [status |-> "UNKNOWN", move |-> {}]

\* loadProblem and the head of solve(): newTree and m_TT.clear().
Solve ==
  /\ pc = "ready"
  /\ \E p \in Problem :
       /\ root' = p
       /\ game' = p
       /\ status' = [q \in {p} |-> "UNKNOWN"]
  /\ path' = <<>>
  /\ TT' = [k \in {} |-> "UNKNOWN"]
  /\ simulation' = 0
  /\ answer' = NoAnswer
  /\ pc' = "loop"
  /\ UNCHANGED <<index, bFoundInTT>>

\* isSimulationEnd(); the clock may say anything.
SimulationMayEnd ==
  CASE SimControl = "count" -> simulation >= SimCount
    [] SimControl = "time" -> TRUE
    [] OTHER -> FALSE

\* Mutant of SimulationMayGoOn: one simulation too many.
SimulationMayGoTooFar ==
  CASE SimControl = "count" -> simulation <= SimCount
    [] OTHER -> TRUE

SimulationMayGoOn ==
  CASE SimControl = "count" -> simulation < SimCount
    [] OTHER -> TRUE

\* Mutant of SaveAnswer: the status is written as the root has it.
SaveRootStatus ==
  /\ pc = "loop"
  /\ status[root] # "UNKNOWN" \/ SimulationMayEnd
  /\ LET wins == {c \in Children[root] \cap Node : status[c] = "WIN"}
     IN  \E move \in IF wins = {} THEN {{}} ELSE {{c} : c \in wins} :
           answer' = [status |-> status[root], move |-> move]
  /\ pc' = "ready"
  /\ UNCHANGED <<root, status, TT, simulation, game, path, index, bFoundInTT>>

\* Mutant of SaveAnswer: getSolvedMove looks for a child marked LOSS.
SaveLostMove ==
  /\ pc = "loop"
  /\ status[root] # "UNKNOWN" \/ SimulationMayEnd
  /\ LET losses == {c \in Children[root] \cap Node : status[c] = "LOSS"}
     IN  \E move \in IF losses = {} THEN {{}} ELSE {{c} : c \in losses} :
           answer' = [status |-> ReverseStatus(status[root]), move |-> move]
  /\ pc' = "ready"
  /\ UNCHANGED <<root, status, TT, simulation, game, path, index, bFoundInTT>>

\* The end of solve() and saveAnswer: the status reversed for the player to
\* move, and getSolvedMove, a child marked WIN or a pass.
SaveAnswer ==
  /\ pc = "loop"
  /\ status[root] # "UNKNOWN" \/ SimulationMayEnd
  /\ LET wins == {c \in Children[root] \cap Node : status[c] = "WIN"}
     IN  \E move \in IF wins = {} THEN {{}} ELSE {{c} : c \in wins} :
           answer' = [status |-> ReverseStatus(status[root]), move |-> move]
  /\ pc' = "ready"
  /\ UNCHANGED <<root, status, TT, simulation, game, path, index, bFoundInTT>>

\* The head of selection().
BeginSelection ==
  /\ pc = "loop"
  /\ status[root] = "UNKNOWN"
  /\ SimulationMayGoOn
  /\ path' = <<root>>
  /\ bFoundInTT' = FALSE
  /\ pc' = "select"
  /\ UNCHANGED <<searchVars, game, index>>

FoundEntryInTT(p) == UseTT /\ Key[p] \in DOMAIN TT

\* One round of selection(): selectChild passes over the solved children.
SelectChild ==
  /\ pc = "select"
  /\ ~bFoundInTT
  /\ HasChildren(Leaf)
  /\ \E c \in Children[Leaf] :
       /\ status[c] = "UNKNOWN"
       /\ game' = c
       /\ path' = Append(path, c)
       /\ bFoundInTT' = FoundEntryInTT(c)
  /\ UNCHANGED <<pc, searchVars, index>>

SelectionEnds == pc = "select" /\ (bFoundInTT \/ ~HasChildren(Leaf))

\* evaluation() and expansion() of a leaf that is neither terminal nor in the
\* table: its children are reset; update() marks nothing.
Expand ==
  /\ SelectionEnds
  /\ ~bFoundInTT
  /\ game \notin Terminal
  /\ status' = [p \in Node \cup Children[Leaf] |->
                  IF p \in Children[Leaf] THEN "UNKNOWN" ELSE status[p]]
  /\ pc' = "rollback"
  /\ UNCHANGED <<root, TT, simulation, answer, game, path, index, bFoundInTT>>

\* update() marks a leaf found in the table, or a terminal one.
MarkLeaf ==
  /\ SelectionEnds
  /\ bFoundInTT \/ game \in Terminal
  /\ status' = [status EXCEPT ![Leaf] = IF bFoundInTT THEN TT[Key[game]]
                                        ELSE TerminalStatus(game)]
  /\ index' = Len(path)
  /\ pc' = "update"
  /\ UNCHANGED <<root, TT, simulation, answer, game, path, bFoundInTT>>

\* Mutant of AllChildrenLoss: one lost child is enough.
AnyChildLoss(p) == \E c \in Children[p] : status[c] = "LOSS"

\* isAllChildrenSolutionLoss
AllChildrenLoss(p) == \A c \in Children[p] : status[c] = "LOSS"

\* Mutant of StoreTT: the last free entry is not used.
StoreTTFullTooSoon(p, s) ==
  IF UseTT /\ Key[p] \notin DOMAIN TT
  THEN /\ Cardinality(DOMAIN TT) + 1 < TTSize
       /\ TT' = [k \in DOMAIN TT \cup {Key[p]} |-> IF k = Key[p] THEN s ELSE TT[k]]
  ELSE UNCHANGED TT

\* storeTT at the position p of m_game: the first status stored for a key
\* stays; a full table never returns.
StoreTT(p, s) ==
  IF UseTT /\ Key[p] \notin DOMAIN TT
  THEN /\ Cardinality(DOMAIN TT) < TTSize
       /\ TT' = [k \in DOMAIN TT \cup {Key[p]} |-> IF k = Key[p] THEN s ELSE TT[k]]
  ELSE UNCHANGED TT

\* Mutant of MarkParent: the table entry is made before the status is set.
MarkParentAfterStore ==
  LET node == path[index]
      parent == path[index - 1]
      s == ReverseStatus(status[node])
  IN  /\ pc = "update"
      /\ index > 1
      /\ \/ status[node] = "WIN"
         \/ status[node] = "LOSS" /\ AllChildrenLoss(parent)
      /\ status' = [status EXCEPT ![parent] = s]
      /\ game' = Parent[game]
      /\ StoreTT(Parent[game], status[parent])
      /\ index' = index - 1
      /\ UNCHANGED <<pc, root, simulation, answer, path, bFoundInTT>>

\* Mutant of MarkParent: the table entry is made before the move is undone.
MarkParentBeforeUndo ==
  LET node == path[index]
      parent == path[index - 1]
      s == ReverseStatus(status[node])
  IN  /\ pc = "update"
      /\ index > 1
      /\ \/ status[node] = "WIN"
         \/ status[node] = "LOSS" /\ AllChildrenLoss(parent)
      /\ status' = [status EXCEPT ![parent] = s]
      /\ game' = Parent[game]
      /\ StoreTT(game, s)
      /\ index' = index - 1
      /\ UNCHANGED <<pc, root, simulation, answer, path, bFoundInTT>>

\* Mutant of MarkParent: the loop is left after one parent.
MarkOneParent ==
  LET node == path[index]
      parent == path[index - 1]
      s == ReverseStatus(status[node])
  IN  /\ pc = "update"
      /\ index > 1
      /\ \/ status[node] = "WIN"
         \/ status[node] = "LOSS" /\ AllChildrenLoss(parent)
      /\ status' = [status EXCEPT ![parent] = s]
      /\ game' = Parent[game]
      /\ StoreTT(Parent[game], s)
      /\ index' = index - 1
      /\ pc' = "rollback"
      /\ UNCHANGED <<root, simulation, answer, path, bFoundInTT>>

\* One round of update()'s loop that marks the parent: a won node makes it
\* lost, a lost one makes it won if its siblings are lost too.
MarkParent ==
  LET node == path[index]
      parent == path[index - 1]
      s == ReverseStatus(status[node])
  IN  /\ pc = "update"
      /\ index > 1
      /\ \/ status[node] = "WIN"
         \/ status[node] = "LOSS" /\ AllChildrenLoss(parent)
      /\ status' = [status EXCEPT ![parent] = s]
      /\ game' = Parent[game]
      /\ StoreTT(Parent[game], s)
      /\ index' = index - 1
      /\ UNCHANGED <<pc, root, simulation, answer, path, bFoundInTT>>

\* The round that leaves the loop, and its end at the root.
EndUpdate ==
  /\ pc = "update"
  /\ \/ index = 1 /\ UNCHANGED game
     \/ /\ index > 1
        /\ status[path[index]] = "LOSS"
        /\ ~AllChildrenLoss(path[index - 1])
        /\ game' = Parent[game]
  /\ pc' = "rollback"
  /\ UNCHANGED <<searchVars, path, index, bFoundInTT>>

\* rollbackGame and the end of solve()'s loop.
Rollback ==
  /\ pc = "rollback"
  /\ game' = root
  /\ simulation' = simulation + 1
  /\ pc' = "loop"
  /\ UNCHANGED <<root, status, TT, answer, path, index, bFoundInTT>>

Next ==
  \/ Solve \/ SaveAnswer \/ BeginSelection \/ SelectChild
  \/ Expand \/ MarkLeaf \/ MarkParent \/ EndUpdate \/ Rollback

Spec == Init /\ [][Next]_vars

\* The solver is one thread that runs until the next command.
FairSpec == Spec /\ WF_vars(Next /\ pc # "ready")

-----------------------------------------------------------------------------
(* Properties *)

TypeOK ==
  /\ pc \in {"ready", "loop", "select", "update", "rollback"}
  /\ root \in Problem
  /\ Node \subseteq Position /\ root \in Node
  /\ status \in [Node -> Status]
  /\ game \in Position
  /\ path \in Seq(Node)
  /\ index \in Nat /\ (pc = "update" => index \in 1 .. Len(path))
  /\ bFoundInTT \in BOOLEAN
  /\ TT \in [DOMAIN TT -> Solved]
  /\ simulation \in Nat
  /\ answer.status \in Status \cup {"none"}

\* A mark is the true outcome of the node, also a mark taken from the table
\* or from a draw (update, isAllChildrenSolutionLoss).
MarksAreOutcomes ==
  \A p \in Node : status[p] # "UNKNOWN" => status[p] = Outcome[p]

\* What the table holds for a key is the true outcome of every position with
\* that key: it was stored at the position that was marked, after undo()
\* (storeTT).
EntriesAreOutcomes ==
  \A p \in Position : Key[p] \in DOMAIN TT => TT[Key[p]] = Outcome[p]

\* selectChild always finds a child: between simulations, and while one
\* selects, an unsolved node with children has an unsolved child.
SelectionFindsChild ==
  pc \in {"loop", "select"} =>
    \A p \in Node : status[p] = "UNKNOWN" /\ HasChildren(p)
       => \E c \in Children[p] : status[c] = "UNKNOWN"

\* A win is answered with a winning move (getSolvedMove).
AnswerMoveWins ==
  answer.status = "WIN" /\ root \notin Terminal
    => \E c \in Children[root] : answer.move = {c} /\ Outcome[c] = "WIN"

\* allocateNewNodes stays within the array ("Use more nodes than declared
\* node size").
NodesInBounds == Cardinality(Node) <= NodeSize

\* The solver implements the promise of solvers.
Promise == INSTANCE ProblemSolver
  WITH problem <- root, answer <- answer.status

ImplementsPromise == Promise!Spec

\* Without a limit every problem is solved: whatever children are selected,
\* each simulation grows the tree or marks a node.
EveryProblemIsSolved ==
  (pc = "loop") ~> (pc = "ready" /\ answer.status \in Solved)

===============================================================================
