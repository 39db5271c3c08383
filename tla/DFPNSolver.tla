------------------------------ MODULE DFPNSolver ------------------------------
(***************************************************************************)
(* The depth-first proof-number solver: MID calls itself for the most      *)
(* proving child until the node's proof or disproof number reaches its     *)
(* threshold, and keeps the numbers of left nodes in the table.            *)
(*                                                                         *)
(* stack is the stack of MID's frames, the last one running.  Children are *)
(* expanded in any order: shuffled, or as the policy ranks them.  What the *)
(* value network says is any of conf.numbers and conf.ratios.              *)
(***************************************************************************)
EXTENDS GameTree, SequencesExt, FiniteSetsExt, OpenAddressHashTable

CONSTANTS Configs,   \* the configurations: records, see ConfigAssumption
          SimCount   \* Configure::PNS_NUM_EXPANSION

Inf == 1000          \* DBL_MAX: above every sum of numbers of the instances

ASSUME ConfigAssumption ==
  /\ SimCount \in Nat
  /\ \A c \in Configs :
       /\ c.simControl \in {"nodes", "time", "other"}
       /\ c.focused \in BOOLEAN      \* PNS_MODE = FOCUSED_PNS
       /\ c.base \in Nat             \* PNS_FOCUSED_CHILDREN_BASE
       /\ c.ratios \subseteq 0 .. 4  \* the widening ratio, in quarters
       /\ c.weak \in BOOLEAN         \* PNS_ENABLE_WEAK_PNS
       /\ c.epsilon \in Nat          \* PNS_EPSILON_VALUE in quarters, 0: off
       /\ c.numbers \subseteq [pn : 1 .. 3, dn : 1 .. 3]  \* of new children

ASSUME HomeAssumption == \A p \in Position : Key[p] \in DOMAIN Home

VARIABLES conf, root, game, stack, timeUp, TT, answer
vars == <<conf, root, game, stack, timeUp, TT, answer>>

Top == Last(stack)

\* A node as its parent's vChildren holds it.
Node(p, s, pn, dn) == [pos |-> p, status |-> s, pn |-> pn, dn |-> dn]

Frame(node, pnThreshold, dnThreshold) ==
  [node |-> node, pnThreshold |-> pnThreshold, dnThreshold |-> dnThreshold,
   children |-> <<>>, ratio |-> 0, mpn |-> 0]

Expanded(f) == f.children # <<>>

Init ==
  /\ conf \in Configs
  /\ root \in Problem
  /\ game = root
  /\ stack = <<>>
  /\ timeUp = FALSE
  /\ TT = EmptyTable
  /\ answer = "UNKNOWN"

\* solve() and newTree(): MID(root, DBL_MAX, DBL_MAX).
Solve ==
  /\ answer # "none"
  /\ \E p \in Problem :
       /\ root' = p
       /\ game' = p
       /\ stack' = <<Frame(Node(p, "UNKNOWN", 0, 0), Inf, Inf)>>
  /\ timeUp' = FALSE
  /\ TT' = EmptyTable
  /\ answer' = "none"
  /\ UNCHANGED conf

\* The time of a limited search runs out.
TimeUp ==
  /\ answer = "none"
  /\ conf.simControl = "time"
  /\ ~timeUp
  /\ timeUp' = TRUE
  /\ UNCHANGED <<conf, root, game, stack, TT, answer>>

\* Mutant of isExpansionEnd: only the clock ends a search.
isTimeEnd == conf.simControl = "time" /\ timeUp

isExpansionEnd ==
  CASE conf.simControl = "nodes" -> TT.count >= SimCount
    [] conf.simControl = "time" -> timeUp
    [] OTHER -> FALSE

-----------------------------------------------------------------------------
(* Status and numbers *)

\* Mutant of UpdatedStatus: one lost child is enough.
UpdatedByAnyLoss(f) ==
  LET statuses == {c.status : c \in Range(f.children)}
  IN  IF "LOSS" \in statuses THEN "WIN"
      ELSE IF "WIN" \in statuses THEN "LOSS" ELSE f.node.status

UpdatedStatus(f) ==
  LET statuses == {c.status : c \in Range(f.children)}
  IN  IF statuses = {"LOSS"} THEN "WIN"
      ELSE IF "WIN" \in statuses THEN "LOSS" ELSE f.node.status

CeilDiv(a, b) == (a + b - 1) \div b
Least(S) == Min(S \cup {Inf})

\* The indices of the unsolved children, in their order.
Live(f) == SelectSeq([i \in DOMAIN f.children |-> i],
                     LAMBDA i : f.children[i].status = "UNKNOWN")

getNumLimitSize(f) ==
  IF conf.focused THEN conf.base + CeilDiv(f.ratio * Len(Live(f)), 4)
  ELSE Len(f.children)

\* Mutant of Focus: the solved children count.
FocusOfAll(f) ==
  LET limit == getNumLimitSize(f)
  IN  IF limit = 0 THEN Live(f) ELSE SelectSeq(Live(f), LAMBDA i : i <= limit)

\* The unsolved children the loops look at before they break; a limit of 0 is
\* never reached.
Focus(f) ==
  LET limit == getNumLimitSize(f)
  IN  IF limit = 0 \/ limit > Len(Live(f)) THEN Live(f)
      ELSE SubSeq(Live(f), 1, limit)

LeastDN(f) == Least({f.children[i].dn : i \in Range(Focus(f))})

\* The sum of the children's proof numbers, or their weak sum.
SumOfPN(f) ==
  LET pns == [i \in DOMAIN Focus(f) |-> f.children[Focus(f)[i]].pn]
  IN  IF conf.weak THEN Max(Range(pns)) + Len(pns) - 1 ELSE FoldSeq(+, 0, pns)

\* updateSolutionStatus and updatePNDN
UpdatedNode(f) ==
  LET s == UpdatedStatus(f)
  IN  CASE s = "WIN" -> Node(f.node.pos, s, Inf, 0)
        [] s = "LOSS" -> Node(f.node.pos, s, 0, Inf)
        [] OTHER -> Node(f.node.pos, s, LeastDN(f), SumOfPN(f))

-----------------------------------------------------------------------------
(* MID *)

\* What a return leaves in the table: the entry of the node's key is updated,
\* or made.
Data(n) == [status |-> n.status, pn |-> n.pn, dn |-> n.dn]
Saved(n) == IF Found(TT, Key[n.pos]) THEN Overwrite(TT, Key[n.pos], Data(n))
            ELSE store(TT, Key[n.pos], Data(n))

\* Mutant of SavedAnswer: the status as the root has it.
RootStatus(n) == n.status

\* saveAnswer: the status for the player to move.
SavedAnswer(n) == ReverseStatus(n.status)

\* MID returns with its node as n: the caller's child is that node; at the
\* root solve() plays the last move again and the answer is saved.
Return(n) ==
  IF Len(stack) = 1
  THEN /\ stack' = <<>>
       /\ game' = root
       /\ answer' = SavedAnswer(n)
  ELSE LET caller == stack[Len(stack) - 1]
       IN  /\ stack' = Append(Front(Front(stack)),
                              [caller EXCEPT !.children[caller.mpn] = n])
           /\ game' = Parent[game]
           /\ UNCHANGED answer

\* A terminal position is stored as it is, also next to an entry of its key.
MIDTerminal ==
  LET s == TerminalStatus(game)
      n == IF s = "WIN" THEN Node(game, s, Inf, 0) ELSE Node(game, s, 0, Inf)
  IN  /\ stack # <<>> /\ ~Expanded(Top)
      /\ game \in Terminal
      /\ ~isFull(TT)
      /\ TT' = store(TT, Key[game], Data(n))
      /\ Return(n)
      /\ UNCHANGED <<conf, root, timeUp>>

\* Mutant of ChildNode: a child without an entry keeps the numbers of clear().
ChildNodeUnset(c, new) ==
  IF Found(TT, Key[c])
  THEN LET e == DataAt(TT, Key[c]) IN Node(c, e.status, e.pn, e.dn)
  ELSE Node(c, "UNKNOWN", 0 - 1, 0 - 1)

\* getPNDNfromTT for a child that has an entry, else the initial numbers.
ChildNode(c, new) ==
  IF Found(TT, Key[c])
  THEN LET e == DataAt(TT, Key[c]) IN Node(c, e.status, e.pn, e.dn)
  ELSE Node(c, "UNKNOWN", new.pn, new.dn)

\* expandVanillaNode and expandCNNNode, at every entry of MID.
Expand ==
  /\ stack # <<>> /\ ~Expanded(Top)
  /\ game \notin Terminal
  /\ \A c \in Children[game] : LookupReturns(TT, Key[c])
  /\ \E order \in SetToSeqs(Children[game]), new \in conf.numbers,
        ratio \in conf.ratios :
       stack' = [stack EXCEPT ![Len(stack)].ratio = ratio,
                              ![Len(stack)].children =
                   [i \in DOMAIN order |-> ChildNode(order[i], new)]]
  /\ UNCHANGED <<conf, root, game, timeUp, TT, answer>>

ThresholdReached(f, n) == n.pn >= f.pnThreshold \/ n.dn >= f.dnThreshold

\* The round of MID's loop that returns.
MIDReturn ==
  LET n == UpdatedNode(Top)
  IN  /\ stack # <<>> /\ Expanded(Top)
      /\ ThresholdReached(Top, n) \/ isExpansionEnd
      /\ Found(TT, Key[game]) \/ ~isFull(TT)
      /\ TT' = Saved(n)
      /\ Return(n)
      /\ UNCHANGED <<conf, root, timeUp>>

\* Mutant of NextDNThreshold: a child may grow to the second best only.
ToSecond(f, second) == Min({f.pnThreshold, second})

NextDNThreshold(f, second) ==
  Min({f.pnThreshold,
       IF conf.epsilon > 0 THEN CeilDiv(second * (4 + conf.epsilon), 4)
       ELSE second + 1})

NextPNThreshold(f, n, child) ==
  IF f.dnThreshold = Inf THEN Inf ELSE f.dnThreshold - n.dn + child.pn

\* The child selectBestChild returns: the first one, within the limit, of the
\* least disproof number, if that is below DBL_MAX.
MostProving(f, m) ==
  /\ m \in Range(Focus(f))
  /\ f.children[m].dn < Inf
  /\ \A i \in Range(Focus(f)) :
       \/ f.children[m].dn < f.children[i].dn
       \/ f.children[m].dn = f.children[i].dn /\ m <= i

\* The round that calls MID for that child.  Were there none, the program would
\* use the null pointer it got; here it would be stuck.
MIDChild ==
  LET n == UpdatedNode(Top)
  IN  /\ stack # <<>> /\ Expanded(Top)
      /\ ~ThresholdReached(Top, n) /\ ~isExpansionEnd
      /\ \E m \in DOMAIN Top.children :
           LET child == Top.children[m]
               second == Least({Top.children[i].dn : i \in Range(Focus(Top)) \ {m}})
           IN  /\ MostProving(Top, m)
               /\ game' = child.pos
               /\ stack' = Append(Append(Front(stack), [Top EXCEPT !.node = n, !.mpn = m]),
                                  Frame(child, NextPNThreshold(Top, n, child),
                                               NextDNThreshold(Top, second)))
      /\ UNCHANGED <<conf, root, timeUp, TT, answer>>

MID == MIDTerminal \/ Expand \/ MIDReturn \/ MIDChild

Next == Solve \/ TimeUp \/ MID

Spec == Init /\ [][Next]_vars

\* The solver is one thread that runs until the next command.
FairSpec == Spec /\ WF_vars(MID)

-----------------------------------------------------------------------------
(* Properties *)

Numbers == 0 .. Inf
NodeSet == [pos : Position, status : Status, pn : Numbers, dn : Numbers]

TypeOK ==
  /\ conf \in Configs
  /\ root \in Problem /\ game \in Position
  /\ \A f \in Range(stack) :
       /\ f.node \in NodeSet
       /\ f.pnThreshold \in Numbers /\ f.dnThreshold \in Numbers
       /\ Range(f.children) \subseteq NodeSet
  /\ timeUp \in BOOLEAN
  /\ TT.count \in 0 .. TTSize
  /\ answer \in Status \cup {"none"}

Entries(t) == {t.entry[i] : i \in Slots} \ {Free}

\* A child's mark is the true outcome, whether MID returned it or the table
\* held it, and whatever limit of children its numbers come from
\* (updateSolutionStatus, getPNDNfromTT).
MarksAreOutcomes ==
  \A f \in Range(stack) : \A c \in Range(f.children) :
    c.status \in {"UNKNOWN", Outcome[c.pos]}

\* An unsolved node stays open: numbers of 0 or DBL_MAX would make MID take it
\* for solved, leave it and never come back to it (updatePNDN).
Open(n) == n.status = "UNKNOWN" => {n.pn, n.dn} \subseteq 1 .. Inf - 1
UnsolvedIsOpen ==
  /\ \A f \in Range(stack) : \A c \in Range(f.children) : Open(c)
  /\ \A e \in Entries(TT) : Open(e.data)

\* A search that may store SimCount entries leaves at most one more for each
\* call of MID still running: the table is not overrun (isExpansionEnd).
OverrunIsBounded ==
  conf.simControl = "nodes" => TT.count + Len(stack) <= SimCount + Height[root]

\* Within one search an entry is never lost behind another one: lookup finds
\* every key that was stored (OpenAddressHashTable).
EntriesStayFound ==
  [][answer # "none" \/ \A e \in Entries(TT) : Found(TT', e.key)]_vars

\* The solver implements the promise of solvers.
Promise == INSTANCE ProblemSolver WITH problem <- root
ImplementsPromise == Promise!Spec

\* Without a limit every problem is solved: MID comes back with its thresholds
\* reached, and the thresholds grow.
EveryProblemIsSolved ==
  (answer = "none" /\ conf.simControl = "other") ~> answer \in Solved

===============================================================================
