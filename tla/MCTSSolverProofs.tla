--------------------------- MODULE MCTSSolverProofs ---------------------------
(***************************************************************************)
(* For every finite game with faithful keys, every choice of the children  *)
(* that are selected and every table: the marks, the table's entries and   *)
(* the answers of the MCTS solver are true outcomes, and selection always  *)
(* finds a child.                                                          *)
(***************************************************************************)
EXTENDS MCTSSolver, FiniteSetTheorems, TLAPS

\* The tree: children are allocated all at once, below no terminal node.
TreeInv ==
  /\ root \in Problem
  /\ Node \subseteq Position /\ root \in Node
  /\ status \in [Node -> Status]
  /\ \A p \in Node : Children[p] \cap Node # {}
                       => Children[p] \subseteq Node /\ p \notin Terminal
  /\ \A p \in Node : p # root => p \in Children[Parent[p]] /\ Parent[p] \in Node

\* The selected path: from the root down; m_game is at its end while it is
\* selected, and at the node update() has reached.
PathInv ==
  /\ pc \in {"ready", "loop", "select", "update", "rollback"}
  /\ index \in Nat
  /\ pc \in {"ready", "loop"} => game = root
  /\ pc \in {"select", "update"} =>
       /\ path \in Seq(Node) /\ path # <<>> /\ path[1] = root
       /\ \A j \in 1 .. Len(path) - 1 : path[j + 1] \in Children[path[j]]
       /\ \A j, k \in 1 .. Len(path) : path[j] = path[k] => j = k
  /\ pc = "select" =>
       /\ game = Leaf
       /\ \A j \in 1 .. Len(path) : status[path[j]] = "UNKNOWN"
       /\ bFoundInTT => Len(path) > 1 /\ Key[game] \in DOMAIN TT
  /\ pc = "update" =>
       /\ index \in 1 .. Len(path)
       /\ game = path[index]
       /\ status[game] \in Solved
       /\ \A j \in 1 .. index - 1 : status[path[j]] = "UNKNOWN"

\* An unsolved node has no won child and an unsolved one, unless update() is
\* about to mark it.
Reached(c) == pc = "update" /\ index > 1 /\ c = path[index]

PropagationInv ==
  \A p \in Node : status[p] = "UNKNOWN" /\ HasChildren(p) =>
    /\ \A c \in Children[p] : status[c] = "WIN" => Reached(c)
    /\ \/ \E c \in Children[p] : status[c] = "UNKNOWN"
       \/ \E c \in Children[p] : Reached(c)

\* A root that is lost for the player before it has a won child to show.
WitnessInv ==
  status[root] = "LOSS" /\ root \notin Terminal
    => \E c \in Children[root] \cap Node : status[c] = "WIN"

AnswerInv ==
  /\ answer = NoAnswer \/ answer.status \in {"UNKNOWN", ReverseStatus(Outcome[root])}
  /\ pc # "ready" => answer = NoAnswer
  /\ pc = "ready" => answer.status # "none"

IInv ==
  /\ TreeInv
  /\ PathInv
  /\ MarksAreOutcomes
  /\ EntriesAreOutcomes
  /\ PropagationInv
  /\ WitnessInv
  /\ AnswerInv
  /\ AnswerMoveWins

-------------------------------------------------------------------------------
(* Facts about the game *)

LEMMA OutcomeIs ==
  ASSUME NEW p \in Position
  PROVE  /\ Outcome[p] \in Solved
         /\ p \in Terminal => Outcome[p] = TerminalStatus(p)
         /\ p \notin Terminal =>
              Outcome[p] = IF \A c \in Children[p] : Outcome[c] = "LOSS"
                           THEN "WIN" ELSE "LOSS"
  <1>1. Outcome[p] = IF p \in Terminal THEN TerminalStatus(p)
                     ELSE IF \A c \in Children[p] : Outcome[c] = "LOSS"
                          THEN "WIN" ELSE "LOSS"
    BY FiniteGame
  <1> QED BY <1>1 DEF TerminalStatus, Solved

LEMMA ChildIs ==
  ASSUME NEW p \in Position, NEW c \in Children[p]
  PROVE  c \in Position /\ Parent[c] = p /\ c \notin Problem
  BY GameAssumption

LEMMA ReverseIs ==
  /\ ReverseStatus("WIN") = "LOSS"
  /\ ReverseStatus("LOSS") = "WIN"
  /\ ReverseStatus("UNKNOWN") = "UNKNOWN"
  BY DEF ReverseStatus

\* A node of the tree has all its children in the tree or none.
LEMMA ChildrenInTree ==
  ASSUME TreeInv, NEW p \in Node, NEW c \in Children[p], c \in Node
  PROVE  HasChildren(p) /\ p \notin Terminal
  BY DEF TreeInv, HasChildren

-------------------------------------------------------------------------------
(* The inductive invariant *)

\* What a step preserves that leaves the tree, the table or the answer alone.
LEMMA TreeFrame ==
  ASSUME IInv, UNCHANGED <<root, status, TT>>
  PROVE  /\ TreeInv' /\ MarksAreOutcomes' /\ EntriesAreOutcomes' /\ WitnessInv'
         /\ pc # "update" => PropagationInv'
  <1>1. Node' = Node
    BY DEF Node
  <1>2. TreeInv'
    BY <1>1 DEF IInv, TreeInv
  <1>3. MarksAreOutcomes' /\ EntriesAreOutcomes' /\ WitnessInv'
    BY <1>1 DEF IInv, MarksAreOutcomes, EntriesAreOutcomes, WitnessInv
  <1>4. pc # "update" => PropagationInv'
    BY <1>1 DEF IInv, PropagationInv, HasChildren, Reached
  <1> QED BY <1>2, <1>3, <1>4

LEMMA AnswerFrame ==
  ASSUME IInv, UNCHANGED <<root, answer>>, pc # "ready", pc' # "ready"
  PROVE  AnswerInv' /\ AnswerMoveWins'
  BY DEF IInv, AnswerInv, AnswerMoveWins, NoAnswer

LEMMA InitInv == Init => IInv
  <1> SUFFICES ASSUME Init
               PROVE  IInv
    OBVIOUS
  <1> USE DEF Init
  <1>0. root \in Problem /\ root \in Position /\ Node = {root} /\ status[root] = "UNKNOWN"
    BY GameAssumption DEF Node
  <1>1. TreeInv
    BY <1>0, ChildIs DEF TreeInv, Status
  <1>2. PathInv
    BY DEF PathInv
  <1>3. MarksAreOutcomes /\ EntriesAreOutcomes /\ WitnessInv
    BY <1>0 DEF MarksAreOutcomes, EntriesAreOutcomes, WitnessInv
  <1>4. PropagationInv
    <2>1. ~HasChildren(root)
      BY <1>0, ChildIs DEF HasChildren
    <2> QED BY <1>0, <2>1 DEF PropagationInv
  <1>5. AnswerInv /\ AnswerMoveWins
    BY DEF AnswerInv, AnswerMoveWins, NoAnswer
  <1> QED BY <1>1, <1>2, <1>3, <1>4, <1>5 DEF IInv

LEMMA SolveInv == IInv /\ Solve => IInv'
  <1> SUFFICES ASSUME IInv, Solve
               PROVE  IInv'
    OBVIOUS
  <1> USE DEF Solve
  <1>0. root' \in Problem /\ root' \in Position /\ Node' = {root'} /\ status'[root'] = "UNKNOWN"
    BY GameAssumption DEF Node
  <1>1. TreeInv'
    BY <1>0, ChildIs DEF TreeInv, Status
  <1>2. PathInv'
    BY DEF PathInv, IInv
  <1>3. MarksAreOutcomes' /\ EntriesAreOutcomes' /\ WitnessInv'
    BY <1>0 DEF MarksAreOutcomes, EntriesAreOutcomes, WitnessInv
  <1>4. PropagationInv'
    <2> SUFFICES ASSUME NEW p \in Node', HasChildren(p)'
                 PROVE  FALSE
      BY DEF PropagationInv
    <2> QED BY <1>0, ChildIs DEF HasChildren
  <1>5. AnswerInv' /\ AnswerMoveWins'
    BY DEF AnswerInv, AnswerMoveWins, NoAnswer
  <1> QED BY <1>1, <1>2, <1>3, <1>4, <1>5 DEF IInv

LEMMA SaveAnswerInv == IInv /\ SaveAnswer => IInv'
  <1> SUFFICES ASSUME IInv, SaveAnswer
               PROVE  IInv'
    OBVIOUS
  <1> USE DEF SaveAnswer
  <1>1. /\ TreeInv' /\ MarksAreOutcomes' /\ EntriesAreOutcomes' /\ WitnessInv'
        /\ PropagationInv'
    BY TreeFrame
  <1>2. PathInv'
    BY DEF PathInv, IInv
  <1>3. status[root] \in {"UNKNOWN", Outcome[root]} /\ status[root] \in Status
    BY DEF IInv, TreeInv, MarksAreOutcomes
  <1>4. AnswerInv'
    BY <1>3, ReverseIs DEF AnswerInv, Status, Solved
  <1>5. AnswerMoveWins'
    <2> SUFFICES ASSUME answer'.status = "WIN", root \notin Terminal
                 PROVE  \E c \in Children[root] : answer'.move = {c} /\ Outcome[c] = "WIN"
      BY DEF AnswerMoveWins
    <2> DEFINE wins == {c \in Children[root] \cap Node : status[c] = "WIN"}
    <2>1. status[root] = "LOSS"
      BY <1>3, ReverseIs DEF Status, Solved
    <2>2. wins # {}
      BY <2>1 DEF IInv, WitnessInv
    <2>3. PICK c \in wins : answer'.move = {c}
      BY <2>2
    <2> QED BY <2>3 DEF IInv, MarksAreOutcomes
  <1> QED BY <1>1, <1>2, <1>4, <1>5 DEF IInv

LEMMA BeginSelectionInv == IInv /\ BeginSelection => IInv'
  <1> SUFFICES ASSUME IInv, BeginSelection
               PROVE  IInv'
    OBVIOUS
  <1> USE DEF BeginSelection, searchVars
  <1>1. /\ TreeInv' /\ MarksAreOutcomes' /\ EntriesAreOutcomes' /\ WitnessInv'
        /\ PropagationInv'
    BY TreeFrame
  <1>2. AnswerInv' /\ AnswerMoveWins'
    BY AnswerFrame
  <1>3. PathInv'
    <2>1. root \in Node /\ Node' = Node
      BY DEF IInv, TreeInv, Node
    <2> QED BY <2>1 DEF IInv, PathInv, Leaf
  <1> QED BY <1>1, <1>2, <1>3 DEF IInv

LEMMA SelectChildInv == IInv /\ SelectChild => IInv'
  <1> SUFFICES ASSUME IInv, SelectChild
               PROVE  IInv'
    OBVIOUS
  <1> USE DEF SelectChild, searchVars
  <1>1. /\ TreeInv' /\ MarksAreOutcomes' /\ EntriesAreOutcomes' /\ WitnessInv'
        /\ PropagationInv'
    BY TreeFrame
  <1>2. AnswerInv' /\ AnswerMoveWins'
    BY AnswerFrame
  <1>3. PathInv'
    <2>1. PICK c \in Children[Leaf] : /\ status[c] = "UNKNOWN"
                                      /\ game' = c
                                      /\ path' = Append(path, c)
                                      /\ bFoundInTT' = FoundEntryInTT(c)
      OBVIOUS
    <2> DEFINE n == Len(path)
    <2>2. /\ path \in Seq(Node) /\ n \in Nat /\ n >= 1 /\ path[1] = root
          /\ \A j \in 1 .. n - 1 : path[j + 1] \in Children[path[j]]
          /\ \A j, k \in 1 .. n : path[j] = path[k] => j = k
          /\ \A j \in 1 .. n : status[path[j]] = "UNKNOWN" /\ path[j] \in Node
      BY DEF IInv, PathInv
    <2>3. /\ Leaf \in Node /\ Leaf \in Position /\ c \in Node /\ Node' = Node
          /\ \A p \in Node : p \in Position
          /\ root \in Problem
      BY <2>2 DEF Leaf, HasChildren, Node, IInv, TreeInv
    <2>4. \A j \in 1 .. n : path[j] # c
      <3> SUFFICES ASSUME NEW j \in 1 .. n, path[j] = c
                   PROVE  FALSE
        OBVIOUS
      <3>1. j # 1
        BY <2>2, <2>3, ChildIs
      <3>2. j - 1 \in 1 .. n - 1 /\ j - 1 \in 1 .. n
        BY <2>2, <3>1
      <3>3. path[(j - 1) + 1] \in Children[path[j - 1]]
        BY <2>2, <3>2
      <3>4. c \in Children[path[j - 1]]
        BY <3>2, <3>3
      <3>5. path[j - 1] = path[n]
        BY <2>2, <2>3, <3>2, <3>4, ChildIs DEF Leaf
      <3> QED BY <2>2, <3>2, <3>5
    <2>5. /\ path' \in Seq(Node') /\ Len(path') = n + 1 /\ path'[n + 1] = c
          /\ \A j \in 1 .. n : path'[j] = path[j]
      BY <2>1, <2>2, <2>3
    <2>6. \A j \in 1 .. n : path'[j + 1] \in Children[path'[j]]
      <3> TAKE j \in 1 .. n
      <3>1. CASE j = n
        BY <2>1, <2>2, <2>5, <3>1 DEF Leaf
      <3>2. CASE j # n
        BY <2>2, <2>5, <3>2
      <3> QED BY <3>1, <3>2
    <2>7. \A j, k \in 1 .. n + 1 : path'[j] = path'[k] => j = k
      <3> HIDE DEF n
      <3> TAKE j, k \in 1 .. n + 1
      <3>1. CASE j \in 1 .. n /\ k \in 1 .. n
        BY <2>2, <2>5, <3>1
      <3>2. CASE j = n + 1 \/ k = n + 1
        BY <2>2, <2>4, <2>5, <3>2
      <3> QED BY <2>2, <3>1, <3>2
    <2>8. \A j \in 1 .. n + 1 : status'[path'[j]] = "UNKNOWN"
      BY <2>1, <2>2, <2>5
    <2>9. bFoundInTT' => Key[game'] \in DOMAIN TT'
      BY <2>1 DEF FoundEntryInTT
    <2>10. path' # <<>> /\ path'[1] = root' /\ game' = Leaf'
      BY <2>1, <2>2, <2>5 DEF Leaf
    <2>11. pc' = "select" /\ index' \in Nat
      BY DEF IInv, PathInv
    <2> HIDE DEF SelectChild, n
    <2> QED BY <2>2, <2>5, <2>6, <2>7, <2>8, <2>9, <2>10, <2>11 DEF PathInv
  <1> QED BY <1>1, <1>2, <1>3 DEF IInv

\* The path of a selection and of an update, without its sequence.
LEMMA PathFacts ==
  ASSUME IInv, pc \in {"select", "update"}
  PROVE  /\ Len(path) \in Nat /\ Len(path) >= 1 /\ path[1] = root /\ Leaf = path[Len(path)]
         /\ \A j \in 1 .. Len(path) : path[j] \in Node /\ path[j] \in Position
         /\ \A j, k \in 1 .. Len(path) : path[j] = path[k] => j = k
         /\ \A j \in 2 .. Len(path) :
              /\ j - 1 \in 1 .. Len(path)
              /\ path[j] \in Children[path[j - 1]] /\ path[j] # root
              /\ Children[path[j - 1]] \subseteq Node /\ path[j - 1] \notin Terminal
              /\ Parent[path[j]] = path[j - 1]
  <1> DEFINE n == Len(path)
  <1>1. /\ path \in Seq(Node) /\ n \in Nat /\ n >= 1 /\ path[1] = root
        /\ \A j \in 1 .. n - 1 : path[j + 1] \in Children[path[j]]
        /\ \A j, k \in 1 .. n : path[j] = path[k] => j = k
        /\ \A j \in 1 .. n : path[j] \in Node
    BY DEF IInv, PathInv
  <1>2. \A j \in 1 .. n : path[j] \in Position
    BY <1>1 DEF IInv, TreeInv
  <1>3. ASSUME NEW j \in 2 .. n
        PROVE  /\ j - 1 \in 1 .. n
               /\ path[j] \in Children[path[j - 1]] /\ path[j] # root
               /\ Children[path[j - 1]] \subseteq Node /\ path[j - 1] \notin Terminal
               /\ Parent[path[j]] = path[j - 1]
    <2>1. j - 1 \in 1 .. n - 1 /\ j - 1 \in 1 .. n /\ (j - 1) + 1 = j /\ j \in 1 .. n
      BY <1>1
    <2>2. path[j] \in Children[path[j - 1]]
      <3>1. path[(j - 1) + 1] \in Children[path[j - 1]]
        BY <1>1, <2>1
      <3> QED BY <2>1, <3>1
    <2>3. path[j - 1] \in Node /\ path[j - 1] \in Position /\ path[j] \in Node
      BY <1>1, <1>2, <2>1
    <2>4. HasChildren(path[j - 1]) /\ path[j - 1] \notin Terminal
      BY <2>2, <2>3, ChildrenInTree DEF IInv
    <2>5. Parent[path[j]] = path[j - 1] /\ path[j] \notin Problem
      BY <2>2, <2>3, ChildIs
    <2> QED BY <2>1, <2>2, <2>4, <2>5 DEF HasChildren, IInv, TreeInv
  <1> QED BY <1>1, <1>2, <1>3 DEF Leaf

LEMMA ExpandInv == IInv /\ Expand => IInv'
  <1> SUFFICES ASSUME IInv, Expand
               PROVE  IInv'
    OBVIOUS
  <1> DEFINE new == Children[Leaf]
  <1>1. /\ Leaf \in Node /\ Leaf \in Position /\ Leaf \notin Terminal /\ ~HasChildren(Leaf)
        /\ status[Leaf] = "UNKNOWN"
    BY PathFacts DEF IInv, PathInv, Expand, SelectionEnds
  <1>2. new # {} /\ new \cap Node = {} /\ new \subseteq Position
    BY <1>1, GameAssumption DEF HasChildren, IInv, TreeInv
  <1>3. /\ Node' = Node \cup new
        /\ \A p \in new : status'[p] = "UNKNOWN"
        /\ \A p \in Node : status'[p] = status[p]
        /\ root \in Node /\ root' = root
        /\ status' \in [Node' -> Status]
    BY <1>2 DEF Expand, Node, Status, IInv, TreeInv
  <1>4. \A p \in new : Children[p] \cap Node' = {}
    <2> SUFFICES ASSUME NEW p \in new, NEW c \in Children[p], c \in Node'
                 PROVE  FALSE
      OBVIOUS
    <2>1. p \in Position /\ p \notin Node /\ Parent[c] = p /\ c \notin Problem
      BY <1>2, ChildIs
    <2>2. CASE c \in Node
      BY <2>1, <2>2 DEF IInv, TreeInv
    <2>3. CASE c \in new
      BY <1>1, <2>1, <2>3, ChildIs
    <2> QED BY <1>3, <2>2, <2>3
  <1>5. \A p \in Node : p # Leaf => Children[p] \cap new = {}
    BY <1>1, ChildIs DEF IInv, TreeInv
  <1>6. TreeInv'
    <2>1. \A p \in Node' : Children[p] \cap Node' # {}
                             => Children[p] \subseteq Node' /\ p \notin Terminal
      BY <1>1, <1>3, <1>4, <1>5 DEF IInv, TreeInv
    <2>2. \A p \in Node' : p # root => p \in Children[Parent[p]] /\ Parent[p] \in Node'
      BY <1>1, <1>3, ChildIs DEF IInv, TreeInv
    <2> QED BY <1>2, <1>3, <2>1, <2>2 DEF IInv, TreeInv
  <1>7. PathInv'
    BY DEF Expand, IInv, PathInv
  <1>8. MarksAreOutcomes' /\ EntriesAreOutcomes'
    BY <1>3 DEF Expand, IInv, MarksAreOutcomes, EntriesAreOutcomes
  <1>9. PropagationInv'
    <2> SUFFICES ASSUME NEW p \in Node', status'[p] = "UNKNOWN", HasChildren(p)'
                 PROVE  /\ \A c \in Children[p] : status'[c] # "WIN"
                        /\ \E c \in Children[p] : status'[c] = "UNKNOWN"
      BY DEF PropagationInv
    <2>1. Children[p] # {} /\ Children[p] \subseteq Node'
      BY DEF HasChildren
    <2>2. CASE p = Leaf
      BY <1>2, <1>3, <2>2
    <2>3. CASE p \in Node /\ p # Leaf
      <3>1. HasChildren(p) /\ Children[p] \subseteq Node
        BY <1>3, <1>5, <2>1, <2>3 DEF HasChildren
      <3> QED BY <1>3, <2>3, <3>1 DEF IInv, PropagationInv, Reached, Expand, SelectionEnds
    <2>4. CASE p \in new
      BY <1>4, <2>1, <2>4
    <2> QED BY <1>3, <2>2, <2>3, <2>4
  <1>10. WitnessInv'
    <2> SUFFICES ASSUME status'[root] = "LOSS", root \notin Terminal
                 PROVE  \E c \in Children[root] \cap Node' : status'[c] = "WIN"
      BY <1>3 DEF WitnessInv
    <2>1. PICK c \in Children[root] \cap Node : status[c] = "WIN"
      BY <1>3 DEF IInv, WitnessInv
    <2> QED BY <1>3, <2>1
  <1>11. AnswerInv' /\ AnswerMoveWins'
    BY AnswerFrame DEF Expand, SelectionEnds
  <1> QED BY <1>6, <1>7, <1>8, <1>9, <1>10, <1>11 DEF IInv

\* What it takes of a step that marks one node q: the other facts of the tree
\* follow.
LEMMA MarkFrame ==
  ASSUME IInv, NEW q \in Node, UNCHANGED root,
         status' = [status EXCEPT ![q] = Outcome[q]]
  PROVE  /\ Node' = Node /\ TreeInv' /\ MarksAreOutcomes'
         /\ status'[q] = Outcome[q] /\ Outcome[q] \in Solved
         /\ \A p \in Node : p # q => status'[p] = status[p]
         /\ \A p : HasChildren(p)' <=> HasChildren(p)
  <1>1. status \in [Node -> Status] /\ q \in Position
    BY DEF IInv, TreeInv
  <1>2. Outcome[q] \in Solved
    BY <1>1, OutcomeIs
  <1>3. /\ Node' = Node /\ status' \in [Node -> Status]
        /\ status'[q] = Outcome[q]
        /\ \A p \in Node : p # q => status'[p] = status[p]
    BY <1>1, <1>2 DEF Node, Status
  <1>4. TreeInv'
    BY <1>3 DEF IInv, TreeInv
  <1>5. MarksAreOutcomes'
    BY <1>3 DEF IInv, MarksAreOutcomes
  <1> QED BY <1>2, <1>3, <1>4, <1>5 DEF HasChildren

LEMMA MarkLeafInv == IInv /\ MarkLeaf => IInv'
  <1> SUFFICES ASSUME IInv, MarkLeaf
               PROVE  IInv'
    OBVIOUS
  <1>0. pc = "select" /\ pc' = "update" /\ UNCHANGED <<root, TT, game, path>>
    BY DEF MarkLeaf, SelectionEnds
  <1>1. Leaf \in Node /\ Leaf \in Position /\ game = Leaf /\ status[Leaf] = "UNKNOWN"
    BY <1>0, PathFacts DEF IInv, PathInv
  <1>2. bFoundInTT => Key[game] \in DOMAIN TT /\ Len(path) > 1
    BY <1>0 DEF IInv, PathInv
  <1>3. status' = [status EXCEPT ![Leaf] = Outcome[Leaf]]
    <2>1. CASE bFoundInTT
      BY <1>1, <1>2, <2>1 DEF MarkLeaf, IInv, EntriesAreOutcomes
    <2>2. CASE ~bFoundInTT
      BY <1>1, <2>2, OutcomeIs DEF MarkLeaf
    <2> QED BY <2>1, <2>2
  <1>4. /\ Node' = Node /\ TreeInv' /\ MarksAreOutcomes'
        /\ status'[Leaf] = Outcome[Leaf] /\ Outcome[Leaf] \in Solved
        /\ \A p \in Node : p # Leaf => status'[p] = status[p]
        /\ \A p : HasChildren(p)' <=> HasChildren(p)
    BY <1>0, <1>1, <1>3, MarkFrame
  <1>5. EntriesAreOutcomes'
    BY <1>0 DEF IInv, EntriesAreOutcomes
  <1>6. PathInv'
    <2>1. index' = Len(path) /\ index' \in 1 .. Len(path) /\ index' \in Nat /\ game' = path[index']
      BY <1>0, <1>1, PathFacts DEF MarkLeaf
    <2>2. /\ path' \in Seq(Node') /\ path' # <<>> /\ path'[1] = root'
          /\ \A j \in 1 .. Len(path') - 1 : path'[j + 1] \in Children[path'[j]]
          /\ \A j, k \in 1 .. Len(path') : path'[j] = path'[k] => j = k
      BY <1>0, <1>4 DEF IInv, PathInv
    <2>3. \A j \in 1 .. index' - 1 : status'[path'[j]] = "UNKNOWN"
      <3> TAKE j \in 1 .. index' - 1
      <3>1. j \in 1 .. Len(path) /\ j # Len(path) /\ Len(path) \in 1 .. Len(path)
        BY <2>1
      <3>2. path[j] # Leaf /\ path[j] \in Node /\ status[path[j]] = "UNKNOWN"
        BY <1>0, <3>1, PathFacts DEF IInv, PathInv
      <3> QED BY <1>0, <1>4, <3>2
    <2>4. status'[game'] \in Solved
      BY <1>0, <1>1, <1>4
    <2> QED BY <1>0, <2>1, <2>2, <2>3, <2>4 DEF PathInv
  <1>7. ASSUME NEW p \in Node, NEW c \in Children[p], c = Leaf
        PROVE  Reached(c)'
    <2>1. Leaf # root
      BY <1>7, ChildIs DEF IInv, TreeInv
    <2>2. Len(path) > 1
      BY <1>0, <2>1, PathFacts
    <2> QED BY <1>0, <1>7, <2>2 DEF Reached, MarkLeaf, Leaf
  <1>8. PropagationInv'
    <2> SUFFICES ASSUME NEW p \in Node, status'[p] = "UNKNOWN", HasChildren(p)
                 PROVE  /\ \A c \in Children[p] : status'[c] = "WIN" => Reached(c)'
                        /\ \/ \E c \in Children[p] : status'[c] = "UNKNOWN"
                           \/ \E c \in Children[p] : Reached(c)'
      BY <1>4 DEF PropagationInv
    <2>1. p # Leaf /\ status[p] = "UNKNOWN" /\ Children[p] \subseteq Node
      BY <1>4 DEF Solved, HasChildren
    <2>2. /\ \A c \in Children[p] : status[c] # "WIN"
          /\ \E c \in Children[p] : status[c] = "UNKNOWN"
      BY <1>0, <2>1 DEF IInv, PropagationInv, Reached
    <2>3. \A c \in Children[p] : status'[c] = status[c] \/ c = Leaf
      BY <1>4, <2>1
    <2> QED BY <1>7, <2>2, <2>3
  <1>9. WitnessInv'
    <2> SUFFICES ASSUME status'[root] = "LOSS"
                 PROVE  root \in Terminal
      BY <1>0 DEF WitnessInv
    <2>1. status[root] = "UNKNOWN" /\ root \in Node
      BY <1>0, PathFacts DEF IInv, PathInv, TreeInv
    <2>2. Leaf = root
      BY <1>4, <2>1
    <2>3. ~bFoundInTT
      BY <1>0, <1>2, <2>2, PathFacts
    <2> QED BY <1>1, <2>2, <2>3 DEF MarkLeaf
  <1>10. AnswerInv' /\ AnswerMoveWins'
    BY <1>0, AnswerFrame DEF MarkLeaf
  <1> QED BY <1>4, <1>5, <1>6, <1>8, <1>9, <1>10 DEF IInv

LEMMA MarkParentInv == IInv /\ MarkParent => IInv'
  <1> SUFFICES ASSUME IInv, MarkParent
               PROVE  IInv'
    OBVIOUS
  <1> DEFINE node == path[index]
             parent == path[index - 1]
             s == ReverseStatus(status[node])
  <1>0. /\ pc = "update" /\ pc' = "update" /\ UNCHANGED <<root, path>> /\ index' = index - 1
        /\ index > 1 /\ index \in 2 .. Len(path) /\ index - 1 \in 1 .. Len(path)
        /\ index \in 1 .. Len(path)
        /\ game = node /\ status[node] \in Solved
    BY PathFacts DEF MarkParent, IInv, PathInv
  <1>1. /\ node \in Node /\ node \in Position /\ parent \in Node /\ parent \in Position
        /\ node \in Children[parent] /\ Children[parent] \subseteq Node
        /\ parent \notin Terminal /\ Parent[node] = parent
        /\ node # parent
    BY <1>0, PathFacts
  <1>2. s = Outcome[parent]
    <2>0. Outcome[parent] = IF \A c \in Children[parent] : Outcome[c] = "LOSS"
                            THEN "WIN" ELSE "LOSS"
      BY <1>1, OutcomeIs
    <2>1. CASE status[node] = "WIN"
      <3>1. Outcome[node] = "WIN"
        BY <1>1, <2>1 DEF IInv, MarksAreOutcomes
      <3> QED BY <1>1, <2>0, <2>1, <3>1, ReverseIs
    <2>2. CASE status[node] = "LOSS" /\ AllChildrenLoss(parent)
      <3>1. \A c \in Children[parent] : Outcome[c] = "LOSS"
        BY <1>1, <2>2 DEF IInv, MarksAreOutcomes, AllChildrenLoss
      <3> QED BY <2>0, <2>2, <3>1, ReverseIs
    <2> QED BY <2>1, <2>2 DEF MarkParent
  <1>3. /\ status' = [status EXCEPT ![parent] = Outcome[parent]]
        /\ game' = parent
        /\ StoreTT(parent, Outcome[parent])
    BY <1>0, <1>1, <1>2 DEF MarkParent
  <1> HIDE DEF s
  <1>4. /\ Node' = Node /\ TreeInv' /\ MarksAreOutcomes'
        /\ status'[parent] = Outcome[parent] /\ Outcome[parent] \in Solved
        /\ \A p \in Node : p # parent => status'[p] = status[p]
        /\ \A p : HasChildren(p)' <=> HasChildren(p)
    BY <1>0, <1>1, <1>3, MarkFrame
  <1>5. EntriesAreOutcomes'
    <2> SUFFICES ASSUME NEW p \in Position, Key[p] \in DOMAIN TT'
                 PROVE  TT'[Key[p]] = Outcome[p]
      BY DEF EntriesAreOutcomes
    <2>1. CASE UNCHANGED TT
      BY <2>1 DEF IInv, EntriesAreOutcomes
    <2>2. CASE /\ Key[parent] \notin DOMAIN TT
               /\ TT' = [k \in DOMAIN TT \cup {Key[parent]} |->
                           IF k = Key[parent] THEN Outcome[parent] ELSE TT[k]]
      BY <1>1, <2>2, KeyAssumption DEF IInv, EntriesAreOutcomes
    <2> QED BY <1>3, <2>1, <2>2 DEF StoreTT
  <1>6. PathInv'
    <2>1. index' \in 1 .. Len(path') /\ index' \in Nat /\ game' = path'[index']
      BY <1>0, <1>3, PathFacts
    <2>2. /\ path' \in Seq(Node') /\ path' # <<>> /\ path'[1] = root'
          /\ \A j \in 1 .. Len(path') - 1 : path'[j + 1] \in Children[path'[j]]
          /\ \A j, k \in 1 .. Len(path') : path'[j] = path'[k] => j = k
      BY <1>0, <1>4 DEF IInv, PathInv
    <2>3. \A j \in 1 .. index' - 1 : status'[path'[j]] = "UNKNOWN"
      <3> TAKE j \in 1 .. index' - 1
      <3>1. j \in 1 .. Len(path) /\ j \in 1 .. index - 1 /\ j # index - 1
        BY <1>0, PathFacts
      <3>2. path[j] # parent /\ path[j] \in Node /\ status[path[j]] = "UNKNOWN"
        BY <1>0, <3>1, PathFacts DEF IInv, PathInv
      <3> QED BY <1>0, <1>4, <3>2
    <2>4. status'[game'] \in Solved
      BY <1>3, <1>4
    <2> QED BY <1>0, <2>1, <2>2, <2>3, <2>4 DEF PathInv
  <1>7. ASSUME NEW p \in Node, NEW c \in Children[p], c = parent
        PROVE  Reached(c)'
    <2>1. parent # root
      BY <1>7, ChildIs DEF IInv, TreeInv
    <2>2. index - 1 > 1
      BY <1>0, <2>1, PathFacts
    <2> QED BY <1>0, <1>7, <2>2 DEF Reached
  <1>8. PropagationInv'
    <2> SUFFICES ASSUME NEW p \in Node, status'[p] = "UNKNOWN", HasChildren(p)
                 PROVE  /\ \A c \in Children[p] : status'[c] = "WIN" => Reached(c)'
                        /\ \/ \E c \in Children[p] : status'[c] = "UNKNOWN"
                           \/ \E c \in Children[p] : Reached(c)'
      BY <1>4 DEF PropagationInv
    <2>1. p # parent /\ status[p] = "UNKNOWN" /\ Children[p] \subseteq Node /\ p \in Position
      BY <1>4 DEF Solved, HasChildren, IInv, TreeInv
    <2>2. \A c \in Children[p] : ~Reached(c)
      BY <1>1, <2>1, ChildIs DEF Reached
    <2>3. /\ \A c \in Children[p] : status[c] # "WIN"
          /\ \E c \in Children[p] : status[c] = "UNKNOWN"
      BY <2>1, <2>2 DEF IInv, PropagationInv
    <2>4. \A c \in Children[p] : status'[c] = status[c] \/ c = parent
      BY <1>4, <2>1
    <2> QED BY <1>7, <2>3, <2>4
  <1>9. WitnessInv'
    <2> SUFFICES ASSUME status'[root] = "LOSS"
                 PROVE  \E c \in Children[root] \cap Node : status'[c] = "WIN"
      BY <1>0, <1>4 DEF WitnessInv
    <2>1. CASE parent = root
      <3>1. Outcome[parent] = "LOSS"
        BY <1>4, <2>1
      <3>2. status[node] = "WIN"
        BY <1>0, <1>2, <3>1, ReverseIs DEF Solved, s
      <3>3. status'[node] = "WIN"
        BY <1>1, <1>4, <3>2
      <3> QED BY <1>1, <2>1, <3>3
    <2>2. CASE parent # root
      <3>1. 1 \in 1 .. index - 1 /\ path[1] = root
        BY <1>0, PathFacts
      <3>2. status[root] = "UNKNOWN" /\ root \in Node
        BY <1>0, <3>1 DEF IInv, PathInv, TreeInv
      <3> QED BY <1>4, <2>2, <3>2
    <2> QED BY <2>1, <2>2
  <1>10. AnswerInv' /\ AnswerMoveWins'
    BY <1>0, AnswerFrame DEF MarkParent
  <1> QED BY <1>4, <1>5, <1>6, <1>8, <1>9, <1>10 DEF IInv

LEMMA EndUpdateInv == IInv /\ EndUpdate => IInv'
  <1> SUFFICES ASSUME IInv, EndUpdate
               PROVE  IInv'
    OBVIOUS
  <1>0. pc = "update" /\ pc' = "rollback" /\ UNCHANGED <<root, status, TT, answer, index>>
    BY DEF EndUpdate, searchVars
  <1>1. TreeInv' /\ MarksAreOutcomes' /\ EntriesAreOutcomes' /\ WitnessInv'
    BY <1>0, TreeFrame
  <1>2. PathInv'
    BY <1>0 DEF IInv, PathInv
  <1>3. PropagationInv'
    <2> SUFFICES ASSUME NEW p \in Node, status[p] = "UNKNOWN", HasChildren(p)
                 PROVE  /\ \A c \in Children[p] : status[c] # "WIN"
                        /\ \E c \in Children[p] : status[c] = "UNKNOWN"
      BY <1>0 DEF PropagationInv, HasChildren, Node
    <2>1. /\ \A c \in Children[p] : status[c] = "WIN" => Reached(c)
          /\ \/ \E c \in Children[p] : status[c] = "UNKNOWN"
             \/ \E c \in Children[p] : Reached(c)
      BY DEF IInv, PropagationInv
    <2>2. CASE \A c \in Children[p] : ~Reached(c)
      BY <2>1, <2>2
    <2>3. ASSUME NEW c \in Children[p], Reached(c)
          PROVE  /\ \A d \in Children[p] : status[d] # "WIN"
                 /\ \E d \in Children[p] : status[d] = "UNKNOWN"
      <3>1. /\ index > 1 /\ c = path[index] /\ index \in 2 .. Len(path)
            /\ status[c] = "LOSS" /\ ~AllChildrenLoss(path[index - 1])
        BY <1>0, <2>3, PathFacts DEF Reached, EndUpdate, IInv, PathInv
      <3>2. path[index - 1] = p /\ Children[p] \subseteq Node
        BY <1>0, <2>3, <3>1, PathFacts, ChildIs DEF IInv, TreeInv
      <3>3. \A d \in Children[p] : status[d] # "WIN"
        BY <2>1, <3>1 DEF Reached
      <3>4. PICK d \in Children[p] : status[d] # "LOSS"
        BY <3>1, <3>2 DEF AllChildrenLoss
      <3>5. status[d] \in Status
        BY <3>2 DEF IInv, TreeInv
      <3> QED BY <3>3, <3>4, <3>5 DEF Status, Solved
    <2> QED BY <2>2, <2>3
  <1>4. AnswerInv' /\ AnswerMoveWins'
    BY <1>0, AnswerFrame
  <1> QED BY <1>1, <1>2, <1>3, <1>4 DEF IInv

LEMMA RollbackInv == IInv /\ Rollback => IInv'
  <1> SUFFICES ASSUME IInv, Rollback
               PROVE  IInv'
    OBVIOUS
  <1> USE DEF Rollback
  <1>1. /\ TreeInv' /\ MarksAreOutcomes' /\ EntriesAreOutcomes' /\ WitnessInv'
        /\ PropagationInv'
    BY TreeFrame
  <1>2. AnswerInv' /\ AnswerMoveWins'
    BY AnswerFrame
  <1>3. PathInv'
    BY DEF IInv, PathInv
  <1> QED BY <1>1, <1>2, <1>3 DEF IInv

LEMMA StutterInv == IInv /\ UNCHANGED vars => IInv'
  <1> SUFFICES ASSUME IInv, UNCHANGED vars
               PROVE  IInv'
    OBVIOUS
  <1> USE DEF vars, searchVars
  <1>1. TreeInv' /\ MarksAreOutcomes' /\ EntriesAreOutcomes' /\ WitnessInv'
    BY TreeFrame
  <1>2. PropagationInv'
    BY DEF IInv, PropagationInv, HasChildren, Reached, Node
  <1>3. AnswerInv' /\ AnswerMoveWins'
    BY DEF IInv, AnswerInv, AnswerMoveWins, NoAnswer
  <1>4. PathInv'
    BY DEF IInv, PathInv, Leaf, Node
  <1> QED BY <1>1, <1>2, <1>3, <1>4 DEF IInv

LEMMA NextInv == IInv /\ [Next]_vars => IInv'
  BY SolveInv, SaveAnswerInv, BeginSelectionInv, SelectChildInv, ExpandInv, MarkLeafInv,
     MarkParentInv, EndUpdateInv, RollbackInv, StutterInv
  DEF Next

LEMMA Invariance == Spec => []IInv
  BY InitInv, NextInv, PTL DEF Spec

-------------------------------------------------------------------------------
(* Type correctness, by the invariant: a mark is an outcome. *)

LEMMA InitType == Init => TypeOK
  <1> SUFFICES ASSUME Init
               PROVE  TypeOK
    OBVIOUS
  <1>1. TreeInv
    BY InitInv DEF IInv
  <1>2. root \in Position
    BY GameAssumption DEF Init
  <1>3. TT \in [DOMAIN TT -> Solved]
    BY DEF Init
  <1>4. path \in Seq(Node) /\ answer.status \in Status
    BY DEF Init, Status
  <1> QED BY <1>1, <1>2, <1>3, <1>4 DEF Init, TypeOK, TreeInv

LEMMA NextType == IInv /\ IInv' /\ TypeOK /\ [Next]_vars => TypeOK'
  <1> SUFFICES ASSUME IInv, IInv', TypeOK, [Next]_vars
               PROVE  TypeOK'
    OBVIOUS
  <1>1. /\ root' \in Problem /\ Node' \subseteq Position /\ root' \in Node'
        /\ status' \in [Node' -> Status]
        /\ pc' \in {"ready", "loop", "select", "update", "rollback"}
        /\ index' \in Nat /\ (pc' = "update" => index' \in 1 .. Len(path'))
    BY DEF IInv, TreeInv, PathInv
  <1>2. \A p \in Position : Outcome[p] \in Solved
    BY OutcomeIs
  <1>3. path \in Seq(Node) /\ root \in Position /\ root' \in Position
    BY <1>1, GameAssumption DEF TypeOK
  <1>4. CASE Solve
    BY <1>1, <1>3, <1>4 DEF Solve, TypeOK, NoAnswer
  <1>5. CASE SaveAnswer
    <2>1. ReverseStatus(status[root]) \in Status
      BY ReverseIs DEF TypeOK, Status, Solved
    <2> QED BY <1>1, <1>5, <2>1 DEF SaveAnswer, TypeOK, Node
  <1>6. CASE BeginSelection
    <2>1. Node' = Node /\ <<root>> \in Seq(Node)
      BY <1>6 DEF BeginSelection, searchVars, TypeOK, Node
    <2> QED BY <1>1, <1>6, <2>1 DEF BeginSelection, searchVars, TypeOK
  <1>7. CASE SelectChild
    <2>1. PICK c \in Children[Leaf] : /\ game' = c
                                      /\ path' = Append(path, c)
                                      /\ bFoundInTT' = FoundEntryInTT(c)
      BY <1>7 DEF SelectChild
    <2>2. c \in Node /\ c \in Position /\ Node' = Node
      BY <1>7 DEF SelectChild, searchVars, HasChildren, TypeOK, Node
    <2>3. path' \in Seq(Node')
      BY <1>3, <2>1, <2>2
    <2> QED BY <1>1, <1>7, <2>1, <2>2, <2>3, SolverAssumption
            DEF SelectChild, searchVars, TypeOK, FoundEntryInTT
  <1>8. CASE Expand
    <2>1. Node \subseteq Node' /\ path' = path
      BY <1>8 DEF Expand, Node
    <2>2. path' \in Seq(Node')
      BY <1>3, <2>1
    <2> QED BY <1>1, <1>8, <2>2 DEF Expand, TypeOK
  <1>9. CASE MarkLeaf
    BY <1>1, <1>9 DEF MarkLeaf, TypeOK, Node
  <1>10. CASE MarkParent
    <2>1. TT' \in [DOMAIN TT' -> Solved]
      <3>1. status[path[index]] \in Solved
        BY <1>10 DEF MarkParent, Solved
      <3>2. ReverseStatus(status[path[index]]) \in Solved
        BY <3>1, ReverseIs DEF Solved
      <3> QED BY <1>10, <3>2 DEF MarkParent, StoreTT, TypeOK
    <2>2. game' \in Position
      <3>1. game' = Parent[game] /\ game = path[index] /\ index \in 2 .. Len(path)
        BY <1>10 DEF MarkParent, IInv, PathInv
      <3>2. Parent[path[index]] \in Position
        BY <1>10, <3>1, PathFacts DEF MarkParent
      <3> QED BY <3>1, <3>2
    <2> QED BY <1>1, <1>10, <2>1, <2>2 DEF MarkParent, TypeOK, Node
  <1>11. CASE EndUpdate
    <2>1. game' \in Position
      <3>1. CASE UNCHANGED game
        BY <3>1 DEF TypeOK
      <3>2. CASE index > 1 /\ game' = Parent[game]
        <4>1. pc = "update" /\ game = path[index] /\ index \in 2 .. Len(path)
          BY <1>11, <3>2 DEF EndUpdate, IInv, PathInv
        <4>2. Parent[path[index]] \in Position
          BY <4>1, PathFacts
        <4> QED BY <3>2, <4>1, <4>2
      <3> QED BY <1>11, <3>1, <3>2 DEF EndUpdate
    <2> QED BY <1>1, <1>11, <2>1 DEF EndUpdate, searchVars, TypeOK, Node
  <1>12. CASE Rollback
    BY <1>1, <1>3, <1>12 DEF Rollback, TypeOK, Node
  <1>13. CASE UNCHANGED vars
    BY <1>1, <1>13 DEF vars, searchVars, TypeOK, Node
  <1> QED BY <1>4, <1>5, <1>6, <1>7, <1>8, <1>9, <1>10, <1>11, <1>12, <1>13 DEF Next

\* The solver's state is of the declared types.
THEOREM TypeCorrect == Spec => []TypeOK
  BY InitType, NextType, Invariance, PTL DEF Spec

-------------------------------------------------------------------------------
(* The theorems *)

\* A node is marked WIN or LOSS only if that is its true outcome (update,
\* isAllChildrenSolutionLoss, the lookup in the table).
THEOREM MarksCorrect == Spec => []MarksAreOutcomes
  <1>1. IInv => MarksAreOutcomes
    BY DEF IInv
  <1> QED BY <1>1, Invariance, PTL

\* The table never holds a wrong status (storeTT after undo).
THEOREM TableCorrect == Spec => []EntriesAreOutcomes
  <1>1. IInv => EntriesAreOutcomes
    BY DEF IInv
  <1> QED BY <1>1, Invariance, PTL

\* selectChild, which passes over the solved children, is never left without
\* one.
THEOREM SelectionSafe == Spec => []SelectionFindsChild
  <1>1. IInv => SelectionFindsChild
    BY DEF IInv, SelectionFindsChild, PropagationInv, Reached
  <1> QED BY <1>1, Invariance, PTL

\* A problem answered as won comes with a move that wins (getSolvedMove).
THEOREM AnswersCorrect == Spec => []AnswerMoveWins
  <1>1. IInv => AnswerMoveWins
    BY DEF IInv
  <1> QED BY <1>1, Invariance, PTL

LEMMA PromiseOutcome ==
  /\ Promise!Outcome = Outcome
  /\ \A s : Promise!ReverseStatus(s) = ReverseStatus(s)
  <1>1. \A p : Promise!TerminalStatus(p) = TerminalStatus(p)
    BY DEF TerminalStatus, Promise!TerminalStatus
  <1>2. \A s : Promise!ReverseStatus(s) = ReverseStatus(s)
    BY DEF ReverseStatus, Promise!ReverseStatus
  <1>3. Promise!Outcome = Outcome
    BY <1>1 DEF Outcome, Promise!Outcome
  <1> QED BY <1>2, <1>3

\* The solver implements the promise of solvers: each problem is answered once,
\* with its outcome or UNKNOWN (solve, saveAnswer).
THEOREM Implementation == Spec => ImplementsPromise
  <1>1. Init => Promise!Init
    BY DEF Init, Promise!Init
  <1>2. IInv /\ IInv' /\ [Next]_vars => [Promise!Next]_(Promise!vars)
    <2> SUFFICES ASSUME IInv, IInv', [Next]_vars
                 PROVE  [Promise!Next]_(Promise!vars)
      OBVIOUS
    <2>1. CASE Solve
      <3>1. answer.status # "none" /\ answer'.status = "none" /\ root' \in Problem
        BY <2>1 DEF Solve, IInv, AnswerInv, NoAnswer
      <3> QED BY <3>1 DEF Promise!Next, Promise!Ask
    <2>2. CASE SaveAnswer
      <3>1. answer.status = "none" /\ root' = root /\ answer'.status # "none"
        BY <2>2 DEF SaveAnswer, IInv, AnswerInv, NoAnswer
      <3>2. answer'.status \in {"UNKNOWN", ReverseStatus(Outcome[root])}
        BY <3>1 DEF IInv, AnswerInv, NoAnswer
      <3> QED BY <3>1, <3>2, PromiseOutcome DEF Promise!Next, Promise!Answer
    <2>3. CASE UNCHANGED <<root, answer>>
      BY <2>3 DEF Promise!vars
    <2> QED BY <2>1, <2>2, <2>3
            DEF Next, vars, searchVars, BeginSelection, SelectChild, Expand, MarkLeaf,
                MarkParent, EndUpdate, Rollback
  <1> QED BY <1>1, <1>2, Invariance, PTL DEF Spec, ImplementsPromise, Promise!Spec

-------------------------------------------------------------------------------
(* The node array *)

\* Each simulation counted allocates the children of one node at most.
Started == IF pc = "rollback" THEN simulation + 1 ELSE simulation

CountInv ==
  /\ pc \in {"ready", "loop", "select", "update", "rollback"}
  /\ simulation \in Nat
  /\ pc \in {"ready", "loop"} => simulation <= SimCount
  /\ pc \in {"select", "update", "rollback"} => simulation < SimCount
  /\ Node \subseteq Position
  /\ IsFiniteSet(Node)
  /\ Cardinality(Node) <= 1 + Started * MaxActions

LEMMA InitCount == Init => CountInv
  <1> SUFFICES ASSUME Init
               PROVE  CountInv
    OBVIOUS
  <1>1. Node = {root} /\ Started = 0 /\ root \in Position
    BY GameAssumption DEF Init, Node, Started
  <1>2. IsFiniteSet(Node) /\ Cardinality(Node) = 1
    BY <1>1, FS_Singleton
  <1>3. 0 * MaxActions = 0
    BY SolverAssumption
  <1> QED BY <1>1, <1>2, <1>3, SolverAssumption DEF Init, CountInv

LEMMA NextCount ==
  ASSUME SimControl = "count", IInv, IInv', CountInv, [Next]_vars
  PROVE  CountInv'
  <1> USE SolverAssumption
  <1>0. pc' \in {"ready", "loop", "select", "update", "rollback"} /\ Node' \subseteq Position
    BY DEF IInv, TreeInv, PathInv
  <1>1. CASE Solve
    <2>1. Node' = {root'} /\ Started' = 0
      BY <1>1 DEF Solve, Node, Started
    <2>2. IsFiniteSet(Node') /\ Cardinality(Node') = 1
      BY <2>1, FS_Singleton
    <2>3. Started' * MaxActions = 0
      BY <2>1
    <2> QED BY <1>0, <1>1, <2>2, <2>3 DEF Solve, CountInv
  <1>2. CASE Expand
    <2>1. /\ pc = "select" /\ pc' = "rollback" /\ UNCHANGED simulation
          /\ Node' = Node \cup Children[Leaf] /\ Leaf \in Position
      BY <1>2, PathFacts DEF Expand, SelectionEnds, Node
    <2>2. IsFiniteSet(Children[Leaf]) /\ Cardinality(Children[Leaf]) <= MaxActions
      BY <2>1, GameAssumption
    <2>3. IsFiniteSet(Node) /\ Cardinality(Node) <= 1 + simulation * MaxActions
      BY <2>1 DEF CountInv, Started
    <2>4. /\ IsFiniteSet(Node')
          /\ Cardinality(Node') = Cardinality(Node) + Cardinality(Children[Leaf])
                                  - Cardinality(Node \cap Children[Leaf])
      BY <2>1, <2>2, <2>3, FS_Union
    <2>5. /\ Cardinality(Node) \in Nat /\ Cardinality(Children[Leaf]) \in Nat
          /\ Cardinality(Node \cap Children[Leaf]) \in Nat
      BY <2>2, <2>3, FS_CardinalityType, FS_Intersection
    <2>6. (simulation + 1) * MaxActions = simulation * MaxActions + MaxActions
      BY DEF CountInv
    <2>7. simulation * MaxActions \in Nat
      BY DEF CountInv
    <2>8. Cardinality(Node') <= 1 + (simulation + 1) * MaxActions
      BY <2>2, <2>3, <2>4, <2>5, <2>6, <2>7
    <2> QED BY <1>0, <2>1, <2>4, <2>8 DEF CountInv, Started
  <1>3. CASE BeginSelection
    <2>1. /\ pc = "loop" /\ pc' = "select" /\ UNCHANGED simulation /\ Node' = Node
          /\ simulation < SimCount
      BY <1>3 DEF BeginSelection, searchVars, SimulationMayGoOn, Node
    <2> QED BY <1>0, <2>1 DEF CountInv, Started
  <1>4. CASE Rollback
    <2>1. pc = "rollback" /\ pc' = "loop" /\ simulation' = simulation + 1 /\ Node' = Node
      BY <1>4 DEF Rollback, Node
    <2> QED BY <1>0, <2>1 DEF CountInv, Started
  <1>5. CASE MarkLeaf \/ EndUpdate
    <2>1. /\ pc \in {"select", "update"} /\ pc' \in {"update", "rollback"}
          /\ UNCHANGED simulation /\ DOMAIN status' = DOMAIN status
      BY <1>5 DEF MarkLeaf, SelectionEnds, EndUpdate, searchVars
    <2>2. /\ Cardinality(Node) <= 1 + simulation * MaxActions
          /\ Cardinality(Node) \in Nat
      BY <2>1, FS_CardinalityType DEF CountInv, Started
    <2>3. /\ simulation * MaxActions \in Nat
          /\ (simulation + 1) * MaxActions = simulation * MaxActions + MaxActions
      BY DEF CountInv
    <2> QED BY <1>0, <2>1, <2>2, <2>3 DEF CountInv, Started, Node
  <1>6. CASE SaveAnswer \/ SelectChild \/ MarkParent \/ UNCHANGED vars
    <2>1. /\ UNCHANGED simulation /\ DOMAIN status' = DOMAIN status
          /\ pc' = pc \/ (pc = "loop" /\ pc' = "ready")
      <3>1. CASE SaveAnswer
        BY <3>1 DEF SaveAnswer
      <3>2. CASE SelectChild
        BY <3>2 DEF SelectChild, searchVars
      <3>3. CASE MarkParent
        BY <3>3 DEF MarkParent
      <3>4. CASE UNCHANGED vars
        BY <3>4 DEF vars, searchVars
      <3> QED BY <1>6, <3>1, <3>2, <3>3, <3>4
    <2> QED BY <1>0, <2>1 DEF CountInv, Started, Node
  <1> QED BY <1>1, <1>2, <1>3, <1>4, <1>5, <1>6 DEF Next

\* When simulations are counted (SIM_CONTROL 0) the array the constructor
\* allocates holds every tree: the assertion of allocateNewNodes does not fail.
THEOREM ArrayHoldsTree ==
  ASSUME SimControl = "count"
  PROVE  Spec => []NodesInBounds
  <1>1. IInv /\ IInv' /\ CountInv /\ [Next]_vars => CountInv'
    BY NextCount
  <1>2. CountInv => NodesInBounds
    <2> SUFFICES ASSUME CountInv
                 PROVE  NodesInBounds
      OBVIOUS
    <2>1. Started \in Nat /\ Started <= SimCount
      BY SolverAssumption DEF CountInv, Started
    <2>2. Started * MaxActions <= SimCount * MaxActions
      <3>1. PICK d \in Nat : SimCount = Started + d
        <4>1. SimCount - Started \in Nat /\ SimCount = Started + (SimCount - Started)
          BY <2>1, SolverAssumption
        <4> QED BY <4>1
      <3>2. (Started + d) * MaxActions = Started * MaxActions + d * MaxActions
        BY <2>1, SolverAssumption
      <3>3. Started * MaxActions \in Nat /\ d * MaxActions \in Nat
        BY <2>1, SolverAssumption
      <3> QED BY <3>1, <3>2, <3>3
    <2>3. /\ Cardinality(Node) \in Nat /\ Started * MaxActions \in Nat
          /\ SimCount * MaxActions \in Nat
      BY <2>1, FS_CardinalityType, SolverAssumption DEF CountInv
    <2> QED BY <2>2, <2>3 DEF NodesInBounds, NodeSize, CountInv
  <1> QED BY <1>1, <1>2, InitCount, Invariance, PTL DEF Spec

===============================================================================
