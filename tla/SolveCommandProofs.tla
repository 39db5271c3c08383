-------------------------- MODULE SolveCommandProofs --------------------------
(***************************************************************************)
(* What the solve command dumps is best play and what it prints are the    *)
(* sizes of the smallest proofs, for every game whose recursions are well  *)
(* founded and every finite set of problem sizes.  Half of this is that    *)
(* the recursions over games and the folds over moves compute what their   *)
(* definitions say: that is an induction over data, made here for the      *)
(* graph of a recursion by least counterexamples.                          *)
(***************************************************************************)
EXTENDS SolveCommand, SequenceTheorems, FiniteSetTheorems, WellFoundedInduction, TLAPS

-----------------------------------------------------------------------------
(* Least and greatest elements *)

LEMMA Least ==
  ASSUME NEW X, X \subseteq Nat, X # {}
  PROVE  \E x \in X : \A y \in X : x <= y
<1>1. PICK x \in X : \A y \in X : ~(<<y, x>> \in OpToRel(<, Nat))
  BY NatLessThanWellFounded, WFMin
<1>2. \A y \in X : ~(y < x)
  BY <1>1 DEF OpToRel
<1> QED BY <1>2

LEMMA MinIs ==
  ASSUME NEW X, X \subseteq Nat, X # {}
  PROVE  D!Min(X) \in X /\ \A y \in X : D!Min(X) <= y
<1>1. PICK x \in X : \A y \in X : x <= y
  BY Least
<1> QED BY <1>1 DEF D!Min

\* A finite set has a greatest element: one that bounds it and is least.
LEMMA Bounded ==
  ASSUME NEW X, IsFiniteSet(X), X \subseteq Nat
  PROVE  \E n \in Nat : \A y \in X : y <= n
<1> DEFINE Bad == {n \in Nat : \E Y \in SUBSET X :
                     Cardinality(Y) = n /\ ~ \E b \in Nat : \A y \in Y : y <= b}
<1>1. ASSUME NEW Y \in SUBSET X, NEW b \in Nat, NEW e \in Y,
             \A y \in Y \ {e} : y <= b
      PROVE  \E m \in Nat : \A y \in Y : y <= m
  <2>1. CASE b <= e
    BY <1>1, <2>1
  <2>2. CASE e <= b
    BY <1>1, <2>2
  <2> QED BY <2>1, <2>2
<1>2. Bad = {}
  <2> SUFFICES ASSUME Bad # {} PROVE FALSE
    OBVIOUS
  <2>1. PICK n \in Bad : \A k \in Bad : n <= k
    BY Least
  <2>2. PICK Y \in SUBSET X :
          Cardinality(Y) = n /\ ~ \E b \in Nat : \A y \in Y : y <= b
    BY <2>1
  <2>3. PICK e \in Y : TRUE
    BY <2>2
  <2>4. IsFiniteSet(Y) /\ IsFiniteSet(Y \ {e}) /\ Cardinality(Y \ {e}) = n - 1
        /\ n \in Nat /\ n - 1 \in Nat
    <3>1. IsFiniteSet(Y)
      BY FS_Subset
    <3>2. Cardinality(Y) # 0
      BY <3>1, <2>3, FS_EmptySet
    <3> QED BY <3>1, <3>2, <2>2, <2>3, FS_RemoveElement, FS_CardinalityType
  <2>5. n - 1 \notin Bad
    <3> HIDE DEF Bad
    <3>1. ~(n <= n - 1)
      BY <2>4
    <3> QED BY <3>1, <2>1
  <2>6. \E b \in Nat : \A y \in Y \ {e} : y <= b
    BY <2>4, <2>5
  <2> QED BY <2>2, <2>6, <1>1
<1>3. Cardinality(X) \notin Bad /\ Cardinality(X) \in Nat
  BY <1>2, FS_CardinalityType
<1> QED BY <1>3

LEMMA MaxIs ==
  ASSUME NEW X, IsFiniteSet(X), X \subseteq Nat, X # {}
  PROVE  D!Max(X) \in X /\ \A y \in X : y <= D!Max(X)
<1> DEFINE B == {n \in Nat : \A y \in X : y <= n}
<1>1. PICK m \in B : \A n \in B : m <= n
  BY Bounded, Least
<1>2. m \in X
  <2> SUFFICES ASSUME m \notin X PROVE FALSE
    OBVIOUS
  <2>1. \A y \in X : y \in Nat /\ y <= m /\ y # m
    BY <1>1
  <2>2. m \in Nat /\ m # 0
    <3>1. PICK y \in X : TRUE
      OBVIOUS
    <3>2. m \in Nat /\ y \in Nat /\ y <= m /\ y # m
      BY <1>1, <2>1, <3>1
    <3> QED BY <3>2
  <2>3. m - 1 \in Nat /\ \A y \in X : y <= m - 1
    BY <2>1, <2>2
  <2>4. m <= m - 1
    BY <2>3, <1>1
  <2> QED BY <2>2, <2>4
<1> QED BY <1>1, <1>2 DEF D!Max

Values(g, K) == {g[c] : c \in K}

LEMMA ValuesIs ==
  ASSUME NEW K, IsFiniteSet(K), K # {}, NEW g, \A c \in K : g[c] \in Nat
  PROVE  /\ Values(g, K) \subseteq Nat /\ Values(g, K) # {}
         /\ IsFiniteSet(Values(g, K))
<1> DEFINE X == Values(g, K)
           h == [c \in K |-> g[c]]
<1>1. h \in Surjection(K, X)
  BY DEF Surjection, Values
<1>2. IsFiniteSet(X)
  BY <1>1, FS_Surjection
<1> QED BY <1>2 DEF Values

\* The least and the greatest of the values of a function.
LEMMA MinOf ==
  ASSUME NEW K, IsFiniteSet(K), K # {}, NEW g, \A c \in K : g[c] \in Nat
  PROVE  LET m == D!Min(Values(g, K))
         IN m \in Nat /\ (\E c \in K : g[c] = m) /\ \A c \in K : m <= g[c]
<1> DEFINE X == Values(g, K)
<1>1. X \subseteq Nat /\ X # {}
  BY ValuesIs
<1>2. D!Min(X) \in X /\ \A y \in X : D!Min(X) <= y
  BY <1>1, MinIs
<1> QED BY <1>1, <1>2 DEF Values

LEMMA MaxOf ==
  ASSUME NEW K, IsFiniteSet(K), K # {}, NEW g, \A c \in K : g[c] \in Nat
  PROVE  LET m == D!Max(Values(g, K))
         IN m \in Nat /\ (\E c \in K : g[c] = m) /\ \A c \in K : g[c] <= m
<1> DEFINE X == Values(g, K)
<1>1. X \subseteq Nat /\ X # {} /\ IsFiniteSet(X)
  BY ValuesIs
<1>2. D!Max(X) \in X /\ \A y \in X : y <= D!Max(X)
  BY <1>1, MaxIs
<1> QED BY <1>1, <1>2 DEF Values

-----------------------------------------------------------------------------
(* Recursion: over a game, over the parts of a set, along a sequence *)

\* f is defined at i from its values at sub[i], whose rank is lower.
Ranked(I, h, sub) ==
  \A i \in I : h[i] \in Nat /\ sub[i] \subseteq I /\ \A j \in sub[i] : h[j] < h[i]

\* What step makes a value at i of: values at sub[i].
Args(i, sub, V) ==
  {g \in [sub[i] -> UNION {V[j] : j \in sub[i]}] : \A j \in sub[i] : g[j] \in V[j]}

Stepwise(I, sub, V, step) == \A i \in I : \A g \in Args(i, sub, V) : step[i][g] \in V[i]

\* f obeys step at i.
Obeys(f, i, sub, V, step) ==
  f[i] \in V[i] /\ f[i] = step[i][[j \in sub[i] |-> f[j]]]

LEMMA ArgsAre ==
  ASSUME NEW i, NEW sub, NEW V, NEW f, \A j \in sub[i] : f[j] \in V[j]
  PROVE  [j \in sub[i] |-> f[j]] \in Args(i, sub, V)
<1> DEFINE g == [j \in sub[i] |-> f[j]]
<1>1. g \in [sub[i] -> UNION {V[j] : j \in sub[i]}]
  OBVIOUS
<1> QED BY <1>1 DEF Args

LEMMA RankInduction ==
  ASSUME NEW I, NEW h, NEW sub, Ranked(I, h, sub),
         NEW T, \A i \in I : sub[i] \subseteq T => i \in T
  PROVE  I \subseteq T
<1> DEFINE Bad == {h[i] : i \in I \ T}
<1> SUFFICES ASSUME Bad # {} PROVE FALSE
  OBVIOUS
<1>1. Bad \subseteq Nat
  BY DEF Ranked
<1>2. PICK n \in Bad : \A k \in Bad : n <= k
  BY <1>1, Least
<1>3. PICK i \in I \ T : h[i] = n
  BY <1>2
<1>4. ASSUME NEW j \in sub[i]
      PROVE  j \in T
  <2>1. j \in I /\ h[j] \in Nat /\ h[i] \in Nat /\ ~(h[i] <= h[j])
    BY <1>3 DEF Ranked
  <2>2. h[j] \notin Bad
    BY <2>1, <1>2, <1>3
  <2> QED BY <2>1, <2>2
<1> QED BY <1>3, <1>4

\* Every such recursion defines a function.
LEMMA RankRecursion ==
  ASSUME NEW I, NEW h, NEW sub, Ranked(I, h, sub),
         NEW V, NEW step, Stepwise(I, sub, V, step)
  PROVE  \E f : f = [i \in I |-> step[i][[j \in sub[i] |-> f[j]]]]
                /\ \A i \in I : f[i] \in V[i]
<1> DEFINE below(f, n) == \A i \in I : h[i] < n => Obeys(f, i, sub, V, step)
           Bad == {n \in Nat : ~ \E f : below(f, n)}
<1>1. ASSUME NEW f, NEW n \in Nat, below(f, n)
      PROVE  \E g : below(g, n + 1)
  <2> DEFINE of(i) == [j \in sub[i] |-> f[j]]
             g == [i \in I |-> step[i][of(i)]]
  <2>1. ASSUME NEW i \in I, h[i] < n + 1
        PROVE  Obeys(g, i, sub, V, step)
    <3>1. ASSUME NEW j \in sub[i]
          PROVE  f[j] \in V[j] /\ g[j] = f[j]
      <4>1. j \in I /\ h[j] < n
        <5>1. j \in I /\ h[j] \in Nat /\ h[i] \in Nat /\ h[j] < h[i]
          BY DEF Ranked
        <5> QED BY <5>1, <2>1
      <4>2. Obeys(f, j, sub, V, step)
        BY <4>1, <1>1
      <4> QED BY <4>1, <4>2 DEF Obeys
    <3>2. of(i) \in Args(i, sub, V)
      BY <3>1, ArgsAre
    <3>3. of(i) = [j \in sub[i] |-> g[j]]
      BY <3>1
    <3>4. g[i] = step[i][of(i)]
      OBVIOUS
    <3> HIDE DEF of, g
    <3> QED BY <3>2, <3>3, <3>4 DEF Stepwise, Obeys
  <2> HIDE DEF g
  <2> QED BY <2>1
<1> HIDE DEF below
<1>2. Bad = {}
  <2> SUFFICES ASSUME Bad # {} PROVE FALSE
    OBVIOUS
  <2>1. PICK n \in Bad : \A k \in Bad : n <= k
    BY Least
  <2>2. n # 0
    <3>1. below({}, 0)
      BY DEF below, Ranked
    <3> QED BY <3>1, <2>1
  <2>3. n - 1 \in Nat /\ n - 1 \notin Bad
    BY <2>1, <2>2
  <2>4. PICK f : below(f, n - 1)
    BY <2>3
  <2>5. \E g : below(g, (n - 1) + 1)
    BY <2>3, <2>4, <1>1
  <2> QED BY <2>5, <2>1
<1> DEFINE G(i) == CHOOSE f : below(f, h[i] + 1)
           f == [i \in I |-> G(i)[i]]
<1>3. ASSUME NEW i \in I, NEW k \in I, h[k] <= h[i]
      PROVE  Obeys(G(i), k, sub, V, step)
  <2>1. h[i] \in Nat /\ h[k] \in Nat /\ h[i] + 1 \in Nat /\ h[k] < h[i] + 1
    BY <1>3 DEF Ranked
  <2>2. \E g : below(g, h[i] + 1)
    BY <2>1, <1>2
  <2>3. below(G(i), h[i] + 1)
    BY <2>2
  <2> HIDE DEF G
  <2> QED BY <2>1, <2>3 DEF below
<1> HIDE DEF G
\* Two functions that obey it up to a rank agree up to that rank.
<1>4. ASSUME NEW i \in I, NEW k \in I, h[k] <= h[i]
      PROVE  G(i)[k] = G(k)[k]
  <2> DEFINE T == {j \in I : h[j] <= h[k] => G(i)[j] = G(k)[j]}
  <2>0. h[i] \in Nat /\ h[k] \in Nat
    BY DEF Ranked
  <2>1. ASSUME NEW j \in I, sub[j] \subseteq T, h[j] <= h[k]
        PROVE  G(i)[j] = G(k)[j]
    <3>1. h[j] \in Nat /\ h[j] <= h[i]
      BY <2>0, <2>1, <1>4 DEF Ranked
    <3>2. Obeys(G(i), j, sub, V, step) /\ Obeys(G(k), j, sub, V, step)
      BY <3>1, <2>1, <1>3
    <3>3. \A l \in sub[j] : G(i)[l] = G(k)[l]
      <4>1. \A l \in sub[j] : l \in T /\ h[l] \in Nat /\ h[l] < h[j]
        BY <2>1 DEF Ranked
      <4> QED BY <4>1, <3>1, <2>0, <2>1
    <3>4. [l \in sub[j] |-> G(i)[l]] = [l \in sub[j] |-> G(k)[l]]
      BY <3>3
    <3> QED BY <3>2, <3>4 DEF Obeys
  <2>2. \A j \in I : sub[j] \subseteq T => j \in T
    BY <2>1
  <2>3. I \subseteq T
    <3> HIDE DEF T
    <3> QED BY <2>2, RankInduction
  <2> QED BY <2>3, <2>0
<1>5. ASSUME NEW i \in I
      PROVE  f[i] \in V[i] /\ f[i] = step[i][[j \in sub[i] |-> f[j]]]
  <2>1. \A j \in sub[i] : j \in I /\ h[j] \in Nat /\ h[i] \in Nat /\ h[j] <= h[i]
    BY DEF Ranked
  <2>2. \A j \in sub[i] : f[j] = G(i)[j]
    BY <2>1, <1>4
  <2>3. [j \in sub[i] |-> f[j]] = [j \in sub[i] |-> G(i)[j]]
    BY <2>2
  <2>4. h[i] <= h[i]
    BY DEF Ranked
  <2>5. Obeys(G(i), i, sub, V, step)
    BY <1>3, <2>4
  <2> QED BY <2>3, <2>5 DEF Obeys
<1>6. f = [i \in I |-> step[i][[j \in sub[i] |-> f[j]]]]
  BY <1>5
<1> HIDE DEF f
<1> QED BY <1>5, <1>6

\* The positions a recursion over a game asks about.
Sub(p) == IF p \in Terminal THEN {} ELSE Children[p]

LEMMA SubIs ==
  ASSUME NEW p \in Position
  PROVE  /\ Sub(p) \subseteq Position /\ IsFiniteSet(Sub(p))
         /\ Height[p] \in Nat
         /\ \A c \in Sub(p) : Height[c] \in Nat /\ Height[c] < Height[p]
<1>1. IsFiniteSet({})
  BY FS_EmptySet
<1> QED BY <1>1, GameAssumption, FiniteHeight DEF Sub

Subs == [p \in Position |-> Sub(p)]

LEMMA GameRanked == Ranked(Position, Height, Subs)
BY SubIs DEF Ranked, Subs

\* Induction over a game: what the answers hand on to a position holds of all.
LEMMA TreeInduction ==
  ASSUME NEW T, \A p \in Position : Sub(p) \subseteq T => p \in T
  PROVE  Position \subseteq T
<1>1. \A p \in Position : Subs[p] \subseteq T => p \in T
  BY DEF Subs
<1> QED BY <1>1, GameRanked, RankInduction

StepsIn(V, step) == \A p \in Position : \A g \in [Sub(p) -> V] : step[p][g] \in V

Follows(f, step) ==
  \A p \in Position : f[p] = step[p][[c \in Sub(p) |-> f[c]]]

LEMMA Recursion ==
  ASSUME NEW V, NEW step, StepsIn(V, step)
  PROVE  \E f \in [Position -> V] : Follows(f, step)
<1> DEFINE W == [p \in Position |-> V]
<1>1. \A p \in Position : W[p] = V /\ Subs[p] = Sub(p)
  BY DEF Subs
<1>2. ASSUME NEW p \in Position, NEW g \in Args(p, Subs, W)
      PROVE  step[p][g] \in W[p]
  <2>1. \A c \in Sub(p) : W[c] = V
    BY SubIs
  <2>2. g \in [Sub(p) -> V]
    BY <1>1, <2>1 DEF Args
  <2> QED BY <1>1, <2>2 DEF StepsIn
<1> HIDE DEF W
<1>3. Stepwise(Position, Subs, W, step)
  BY <1>2 DEF Stepwise
<1>4. PICK f : /\ f = [p \in Position |-> step[p][[c \in Subs[p] |-> f[c]]]]
               /\ \A p \in Position : f[p] \in W[p]
  BY <1>3, GameRanked, RankRecursion
<1>5. f \in [Position -> V]
  BY <1>4, <1>1
<1>6. Follows(f, step)
  BY <1>4, <1>1 DEF Follows
<1> QED BY <1>5, <1>6

\* FiniteGame, which the proofs of the other solvers take from GameTree, is no
\* assumption of its own: it follows from FiniteHeight alone.
OutcomeStep(p, g) ==
  IF p \in Terminal THEN TerminalStatus(p)
  ELSE IF \A c \in Children[p] : g[c] = "LOSS" THEN "WIN" ELSE "LOSS"

LEMMA OutcomeDefined ==
  Outcome = [p \in Position |->
               IF p \in Terminal THEN TerminalStatus(p)
               ELSE IF \A c \in Children[p] : Outcome[c] = "LOSS"
                    THEN "WIN" ELSE "LOSS"]
<1> DEFINE step == [p \in Position |-> [g \in [Sub(p) -> Solved] |-> OutcomeStep(p, g)]]
<1>1. PICK f \in [Position -> Solved] : Follows(f, step)
  <2>1. \A p \in Position : \A g \in [Sub(p) -> Solved] : step[p][g] \in Solved
    BY DEF OutcomeStep, TerminalStatus, Solved
  <2> HIDE DEF step
  <2> QED BY <2>1, Recursion DEF StepsIn
<1>2. ASSUME NEW p \in Position
      PROVE  f[p] = OutcomeStep(p, f)
  <2> DEFINE g == [c \in Sub(p) |-> f[c]]
  <2>1. g \in [Sub(p) -> Solved]
    BY SubIs
  <2>2. f[p] = OutcomeStep(p, g)
    BY <1>1, <2>1 DEF Follows
  <2>3. p \notin Terminal => \A c \in Children[p] : g[c] = f[c]
    BY DEF Sub
  <2> HIDE DEF g
  <2> QED BY <2>2, <2>3 DEF OutcomeStep
<1>3. f = [p \in Position |-> OutcomeStep(p, f)]
  BY <1>2
<1> QED BY <1>3, Zenon DEF Outcome, OutcomeStep

-----------------------------------------------------------------------------
(* Who wins, and in how many plies *)

Result == Color \cup {"none"}

\* What the victors of the moves make of a position's.
VictorStep(p, g) ==
  IF p \in Terminal THEN Winner[p]
  ELSE LET after == {g[c] : c \in Children[p]}
       IN CASE D!Player(p) \in after -> D!Player(p)
            [] after = {Mover[p]} -> Mover[p]
            [] OTHER -> "none"

LEMMA ColorIs ==
  ASSUME NEW p \in Position
  PROVE  /\ {Mover[p], D!Player(p)} = Color /\ Mover[p] # D!Player(p)
         /\ \A c \in Children[p] : /\ c \in Position
                                   /\ D!Player(p) = Mover[c] /\ Mover[p] = D!Player(c)
BY GameAssumption DEF D!Player, D!AgainstColor, AgainstColor, Color

LEMMA VictorDefined ==
  /\ D!Victor \in [Position -> Result]
  /\ \A p \in Position : D!Victor[p] = VictorStep(p, D!Victor)
<1> DEFINE step == [p \in Position |-> [g \in [Sub(p) -> Result] |-> VictorStep(p, g)]]
<1>1. ASSUME NEW p \in Position, NEW g
      PROVE  VictorStep(p, g) \in Result
  <2>1. {Mover[p], D!Player(p), "none"} \subseteq Result
    BY ColorIs DEF Result
  <2>2. p \in Terminal => Winner[p] \in Result
    BY GameAssumption DEF Result
  <2> QED BY <2>1, <2>2 DEF VictorStep
<1>2. PICK f \in [Position -> Result] : Follows(f, step)
  <2>1. \A p \in Position : \A g \in [Sub(p) -> Result] : step[p][g] \in Result
    BY <1>1
  <2> HIDE DEF step
  <2> QED BY <2>1, Recursion DEF StepsIn
<1>3. ASSUME NEW p \in Position
      PROVE  f[p] = VictorStep(p, f)
  <2> DEFINE g == [c \in Sub(p) |-> f[c]]
  <2>1. g \in [Sub(p) -> Result]
    BY SubIs
  <2>2. f[p] = VictorStep(p, g)
    BY <1>2, <2>1 DEF Follows
  <2>3. p \notin Terminal => {g[c] : c \in Children[p]} = {f[c] : c \in Children[p]}
    BY DEF Sub
  <2> HIDE DEF g
  <2> QED BY <2>2, <2>3 DEF VictorStep
<1>4. f = [p \in Position |-> VictorStep(p, f)]
  BY <1>3
<1>5. D!Victor = [p \in Position |-> VictorStep(p, D!Victor)]
  BY <1>4, Zenon DEF D!Victor, VictorStep
<1> QED BY <1>1, <1>5

LEMMA VictorIs ==
  ASSUME NEW p \in Position
  PROVE  /\ D!Victor[p] \in Result
         /\ p \in Terminal => D!Victor[p] = Winner[p]
         /\ p \notin Terminal =>
              /\ Children[p] # {}
              /\ D!Victor[p] = D!Player(p)
                   <=> \E c \in Children[p] : D!Victor[c] = D!Player(p)
              /\ D!Victor[p] = Mover[p]
                   <=> \A c \in Children[p] : D!Victor[c] = Mover[p]
<1> DEFINE after == {D!Victor[c] : c \in Children[p]}
<1>1. D!Victor[p] \in Result /\ D!Victor[p] = VictorStep(p, D!Victor)
  BY VictorDefined
<1>2. {Mover[p], D!Player(p)} = Color /\ Mover[p] # D!Player(p)
  BY ColorIs
<1>3. p \notin Terminal => Children[p] # {}
  BY GameAssumption
<1>4. CASE p \notin Terminal
  <2>1. D!Victor[p] = CASE D!Player(p) \in after -> D!Player(p)
                        [] after = {Mover[p]} -> Mover[p]
                        [] OTHER -> "none"
    BY <1>1, <1>4 DEF VictorStep
  <2>2. D!Player(p) \in after <=> \E c \in Children[p] : D!Victor[c] = D!Player(p)
    OBVIOUS
  <2>3. after = {Mover[p]} <=> \A c \in Children[p] : D!Victor[c] = Mover[p]
    BY <1>3, <1>4
  <2> HIDE DEF after
  <2>4. after = {Mover[p]} => D!Player(p) \notin after
    BY <1>2
  <2>5. D!Victor[p] = D!Player(p) <=> D!Player(p) \in after
    BY <2>1, <2>4, <1>2 DEF Color
  <2>6. D!Victor[p] = Mover[p] <=> after = {Mover[p]}
    BY <2>1, <2>4, <1>2 DEF Color
  <2> QED BY <1>1, <1>3, <1>4, <2>2, <2>3, <2>5, <2>6
<1>5. CASE p \in Terminal
  BY <1>1, <1>5 DEF VictorStep
<1> QED BY <1>4, <1>5

LEMMA KeptIs ==
  ASSUME NEW p \in Position, p \notin Terminal, D!Victor[p] # "none"
  PROVE  /\ D!Victor[p] \in {Mover[p], D!Player(p)}
         /\ D!Kept(p) \subseteq Children[p]
         /\ D!Kept(p) # {} /\ IsFiniteSet(D!Kept(p))
         /\ D!Victor[p] = Mover[p] => D!Kept(p) = Children[p]
<1>1. D!Victor[p] \in {Mover[p], D!Player(p)}
  BY VictorIs, ColorIs DEF Result
<1>2. D!Kept(p) \subseteq Children[p] /\ IsFiniteSet(D!Kept(p))
  <2>1. IsFiniteSet(Children[p])
    BY GameAssumption
  <2>2. D!Kept(p) \subseteq Children[p]
    BY DEF D!Kept
  <2> QED BY <2>1, <2>2, FS_Subset
<1>3. D!Victor[p] = Mover[p] => D!Kept(p) = Children[p] /\ Children[p] # {}
  BY VictorIs DEF D!Kept
<1>4. D!Victor[p] = D!Player(p) => D!Kept(p) # {}
  BY VictorIs DEF D!Kept
<1> QED BY <1>1, <1>2, <1>3, <1>4

\* What the plies of the moves make of a position's.
PliesStep(p, g) ==
  IF p \in Terminal \/ D!Victor[p] = "none" THEN 0
  ELSE 1 + (IF D!Victor[p] = D!Player(p) THEN D!Min(Values(g, D!Kept(p)))
                                         ELSE D!Max(Values(g, D!Kept(p))))

LEMMA PliesStepIs ==
  ASSUME NEW p \in Position, NEW g, \A c \in Sub(p) : g[c] \in Nat
  PROVE  PliesStep(p, g) \in Nat
<1>1. CASE p \in Terminal \/ D!Victor[p] = "none"
  BY <1>1 DEF PliesStep
<1>2. CASE p \notin Terminal /\ D!Victor[p] # "none"
  <2>1. /\ IsFiniteSet(D!Kept(p)) /\ D!Kept(p) # {}
        /\ \A c \in D!Kept(p) : g[c] \in Nat
    BY <1>2, KeptIs DEF Sub
  <2>2. /\ D!Min(Values(g, D!Kept(p))) \in Nat
        /\ D!Max(Values(g, D!Kept(p))) \in Nat
    BY <2>1, MinOf, MaxOf
  <2> QED BY <1>2, <2>2 DEF PliesStep
<1> QED BY <1>1, <1>2

LEMMA PliesDefined ==
  /\ D!Plies \in [Position -> Nat]
  /\ \A p \in Position : D!Plies[p] = PliesStep(p, D!Plies)
<1> DEFINE step == [p \in Position |-> [g \in [Sub(p) -> Nat] |-> PliesStep(p, g)]]
<1>1. PICK f \in [Position -> Nat] : Follows(f, step)
  <2>1. \A p \in Position : \A g \in [Sub(p) -> Nat] : step[p][g] \in Nat
    BY PliesStepIs
  <2> HIDE DEF step
  <2> QED BY <2>1, Recursion DEF StepsIn
<1>2. ASSUME NEW p \in Position
      PROVE  f[p] = PliesStep(p, f)
  <2> DEFINE g == [c \in Sub(p) |-> f[c]]
  <2>1. g \in [Sub(p) -> Nat]
    BY SubIs
  <2>2. f[p] = PliesStep(p, g)
    BY <1>1, <2>1 DEF Follows
  <2>3. CASE p \in Terminal \/ D!Victor[p] = "none"
    BY <2>2, <2>3 DEF PliesStep
  <2>4. CASE p \notin Terminal /\ D!Victor[p] # "none"
    <3>1. \A c \in D!Kept(p) : g[c] = f[c]
      BY <2>4, KeptIs DEF Sub
    <3>2. Values(g, D!Kept(p)) = Values(f, D!Kept(p))
      BY <3>1 DEF Values
    <3> HIDE DEF g
    <3> QED BY <2>2, <3>2 DEF PliesStep
  <2> QED BY <2>3, <2>4
<1>3. f = [p \in Position |-> PliesStep(p, f)]
  BY <1>2
<1>4. D!Plies = [p \in Position |-> PliesStep(p, D!Plies)]
  BY <1>3, Zenon DEF D!Plies, PliesStep, Values
<1> DEFINE T == {p \in Position : D!Plies[p] \in Nat}
<1>5. Position \subseteq T
  <2>1. ASSUME NEW p \in Position, Sub(p) \subseteq T
        PROVE  p \in T
    <3>1. PliesStep(p, D!Plies) \in Nat
      BY <2>1, PliesStepIs
    <3> QED BY <1>4, <3>1
  <2> HIDE DEF T
  <2> QED BY <2>1, TreeInduction
<1> QED BY <1>4, <1>5

LEMMA PliesIs ==
  ASSUME NEW p \in Position
  PROVE  /\ D!Plies[p] \in Nat
         /\ p \in Terminal => D!Plies[p] = 0
         /\ (p \notin Terminal /\ D!Victor[p] # "none") => D!Plies[p] > 0
         /\ (p \notin Terminal /\ D!Victor[p] = D!Player(p)) =>
              \A k \in Int : D!Plies[p] <= k + 1 <=>
                \E c \in Children[p] : D!Victor[c] = D!Player(p) /\ D!Plies[c] <= k
         /\ (p \notin Terminal /\ D!Victor[p] = Mover[p]) =>
              \A k \in Int : D!Plies[p] <= k + 1 <=>
                \A c \in Children[p] : D!Plies[c] <= k
<1> DEFINE min == D!Min(Values(D!Plies, D!Kept(p)))
           max == D!Max(Values(D!Plies, D!Kept(p)))
<1>1. D!Plies[p] \in Nat /\ D!Plies[p] = PliesStep(p, D!Plies)
  BY PliesDefined
<1>2. p \in Terminal => D!Plies[p] = 0
  BY <1>1 DEF PliesStep
<1>3. CASE p \notin Terminal /\ D!Victor[p] # "none"
  <2>1. /\ IsFiniteSet(D!Kept(p)) /\ D!Kept(p) # {} /\ D!Kept(p) \subseteq Children[p]
        /\ D!Victor[p] = Mover[p] => D!Kept(p) = Children[p]
    BY <1>3, KeptIs
  <2>2. \A c \in D!Kept(p) : D!Plies[c] \in Nat
    BY <2>1, ColorIs, PliesDefined
  <2>3. min \in Nat /\ (\E c \in D!Kept(p) : D!Plies[c] = min)
        /\ \A c \in D!Kept(p) : min <= D!Plies[c]
    BY <2>1, <2>2, MinOf
  <2>4. max \in Nat /\ (\E c \in D!Kept(p) : D!Plies[c] = max)
        /\ \A c \in D!Kept(p) : D!Plies[c] <= max
    BY <2>1, <2>2, MaxOf
  <2>5. D!Plies[p] = 1 + (IF D!Victor[p] = D!Player(p) THEN min ELSE max)
    BY <1>1, <1>3 DEF PliesStep
  <2> HIDE DEF min, max
  <2>6. D!Victor[p] = D!Player(p) =>
          \A k \in Int : D!Plies[p] <= k + 1 <=> \E c \in D!Kept(p) : D!Plies[c] <= k
    BY <2>2, <2>3, <2>5
  <2>7. D!Victor[p] = Mover[p] =>
          \A k \in Int : D!Plies[p] <= k + 1 <=> \A c \in D!Kept(p) : D!Plies[c] <= k
    BY <2>2, <2>4, <2>5, ColorIs
  <2>8. D!Plies[p] > 0
    BY <2>3, <2>4, <2>5
  <2>9. \A c : c \in D!Kept(p) <=> c \in Children[p] /\ D!Victor[c] = D!Victor[p]
    BY DEF D!Kept
  <2>10. D!Victor[p] = D!Player(p) => \A k \in Int : D!Plies[p] <= k + 1 <=>
           \E c \in Children[p] : D!Victor[c] = D!Player(p) /\ D!Plies[c] <= k
    BY <2>6, <2>9, Zenon
  <2>11. D!Victor[p] = Mover[p] => \A k \in Int : D!Plies[p] <= k + 1 <=>
           \A c \in Children[p] : D!Plies[c] <= k
    BY <2>1, <2>7
  <2> QED BY <1>1, <1>3, <2>8, <2>10, <2>11
<1>4. Mover[p] # "none" /\ D!Player(p) # "none"
  BY ColorIs DEF Color
<1> QED BY <1>1, <1>2, <1>3, <1>4

-----------------------------------------------------------------------------
(* The searches of a DepthSolver *)

MaxDepth == D!Max(Depths \cup {0})

LEMMA MaxDepthIs == MaxDepth \in Nat /\ \A d \in Depths : d \in 0 .. MaxDepth
<1>1. /\ IsFiniteSet(Depths \cup {0}) /\ Depths \cup {0} \subseteq Nat
      /\ Depths \cup {0} # {}
  BY SizesAssumption, FS_AddElement
<1> QED BY <1>1, MaxIs DEF MaxDepth

\* What the searches with one limit make of those with the limit before.
Level(d, before) ==
  IF d = -1 THEN [wins |-> {}, losses |-> {}]
  ELSE LET ended(p) == p \in Terminal
           now == {p \in Terminal : Winner[p] = Mover[p]}
       IN [wins |->
             {p \in Position :
                IF ended(p) THEN Winner[p] = D!Player(p)
                ELSE \/ d > 1 /\ Children[p] \cap now # {}
                     \/ d > 0 /\ Children[p] \cap before.losses # {}},
           losses |->
             {p \in Position :
                IF ended(p) THEN p \in now
                ELSE d > 0 /\ Children[p] \subseteq before.wins}]

Levels(f, n) == f = [d \in -1 .. n |-> Level(d, f[d - 1])]

LEMMA WithinDepthDefined ==
  \A d \in -1 .. MaxDepth : D!WithinDepth[d] = Level(d, D!WithinDepth[d - 1])
<1> DEFINE Bad == {n \in Nat : ~ \E f : Levels(f, n - 1)}
<1>1. Bad = {}
  <2> SUFFICES ASSUME Bad # {} PROVE FALSE
    OBVIOUS
  <2>1. PICK n \in Bad : \A k \in Bad : n <= k
    BY Least
  <2>2. CASE n = 0
    <3> DEFINE f == [d \in -1 .. -1 |-> Level(-1, {})]
    <3>1. \A d \in -1 .. -1 : Level(d, f[d - 1]) = Level(-1, {})
      BY DEF Level
    <3>2. f = [d \in -1 .. -1 |-> Level(d, f[d - 1])]
      BY <3>1
    <3> QED BY <3>2, <2>1, <2>2 DEF Levels
  <2>3. CASE n # 0
    <3>1. n - 1 \in Nat /\ n - 1 \notin Bad
      BY <2>1, <2>3
    <3>2. PICK f : Levels(f, n - 2)
      BY <3>1
    <3> DEFINE g == [d \in -1 .. n - 1 |-> IF d = n - 1 THEN Level(d, f[d - 1]) ELSE f[d]]
    <3>3. ASSUME NEW d \in -1 .. n - 1
          PROVE  g[d] = Level(d, g[d - 1])
      <4>1. CASE d = -1
        <5>1. g[d] = Level(d, f[d - 1])
          BY <4>1, <3>1, <3>2 DEF Levels
        <5> QED BY <4>1, <5>1 DEF Level
      <4>2. CASE d # -1
        <5>1. d - 1 \in -1 .. n - 2 /\ g[d - 1] = f[d - 1]
          BY <4>2, <3>1
        <5>2. g[d] = Level(d, f[d - 1])
          BY <3>1, <3>2 DEF Levels
        <5> QED BY <5>1, <5>2
      <4> QED BY <4>1, <4>2
    <3>4. g = [d \in -1 .. n - 1 |-> Level(d, g[d - 1])]
      BY <3>3
    <3> HIDE DEF g
    <3> QED BY <3>4, <2>1 DEF Levels
  <2> QED BY <2>2, <2>3
<1>2. MaxDepth + 1 \in Nat /\ (MaxDepth + 1) - 1 = MaxDepth
  BY MaxDepthIs
<1>3. \E f : Levels(f, MaxDepth)
  BY <1>1, <1>2
<1>4. \E f : f = [d \in -1 .. MaxDepth |-> Level(d, f[d - 1])]
  BY <1>3 DEF Levels
<1>5. D!WithinDepth = [d \in -1 .. MaxDepth |-> Level(d, D!WithinDepth[d - 1])]
  BY <1>4, Zenon DEF D!WithinDepth, Level, MaxDepth
<1> QED BY <1>5

\* The player who moved to p, or the one to move there, wins it in d plies.
Won(p, player, d) == D!Victor[p] = player /\ D!Plies[p] <= d

LEMMA LevelIs ==
  ASSUME NEW d \in Nat, NEW before, NEW p \in Position,
         \A q \in Position : /\ q \in before.wins <=> Won(q, D!Player(q), d - 1)
                             /\ q \in before.losses <=> Won(q, Mover[q], d - 1)
  PROVE  /\ p \in Level(d, before).wins <=> Won(p, D!Player(p), d)
         /\ p \in Level(d, before).losses <=> Won(p, Mover[p], d)
<1> DEFINE now == {q \in Terminal : Winner[q] = Mover[q]}
           win == IF p \in Terminal THEN Winner[p] = D!Player(p)
                  ELSE \/ d > 1 /\ Children[p] \cap now # {}
                       \/ d > 0 /\ Children[p] \cap before.losses # {}
           loss == IF p \in Terminal THEN p \in now
                   ELSE d > 0 /\ Children[p] \subseteq before.wins
<1>1. p \in Level(d, before).wins <=> win
  BY DEF Level
<1>2. p \in Level(d, before).losses <=> loss
  BY DEF Level
<1>3. CASE p \in Terminal
  <2>1. D!Victor[p] = Winner[p] /\ D!Plies[p] <= d
    BY <1>3, VictorIs, PliesIs
  <2> QED BY <1>1, <1>2, <1>3, <2>1 DEF Won
<1>4. CASE p \notin Terminal
  <2> HIDE DEF win, loss
  <2>1. {Mover[p], D!Player(p)} = Color /\ D!Plies[p] \in Nat
        /\ \A c \in Children[p] : /\ c \in Position
                                  /\ D!Player(p) = Mover[c] /\ Mover[p] = D!Player(c)
    BY ColorIs, PliesIs
  <2>2. D!Victor[p] \in Color => D!Plies[p] > 0
    BY <1>4, PliesIs DEF Color
  <2>3. CASE d = 0
    <3>1. ~win /\ ~loss
      BY <1>4, <2>3 DEF win, loss
    <3> QED BY <1>1, <1>2, <2>1, <2>2, <2>3, <3>1 DEF Won
  <2>4. CASE d > 0
    <3>1. ASSUME NEW c \in Children[p] \cap now
          PROVE  c \in before.losses
      <4>1. D!Victor[c] = Winner[c] /\ D!Plies[c] = 0 /\ c \in Position
        BY <2>1, VictorIs, PliesIs
      <4>2. Won(c, Mover[c], d - 1)
        BY <4>1, <2>4, <3>1 DEF Won
      <4> QED BY <4>1, <4>2
    <3>2. win <=> \E c \in Children[p] : c \in before.losses
      BY <1>4, <2>4, <3>1 DEF win
    <3>a. ASSUME NEW c \in Children[p]
          PROVE  /\ c \in before.losses <=> Won(c, D!Player(p), d - 1)
                 /\ c \in before.wins <=> Won(c, Mover[p], d - 1)
      <4>1. /\ c \in before.losses <=> Won(c, Mover[c], d - 1)
            /\ c \in before.wins <=> Won(c, D!Player(c), d - 1)
        <5>1. c \in Position
          BY <2>1
        <5> QED BY <5>1
      <4>2. D!Player(p) = Mover[c] /\ Mover[p] = D!Player(c)
        BY <2>1
      <4> QED BY <4>1, <4>2
    <3>3. win <=> \E c \in Children[p] : Won(c, D!Player(p), d - 1)
      BY <3>2, <3>a
    <3>4. loss <=> \A c \in Children[p] : c \in before.wins
      BY <1>4, <2>4 DEF loss
    <3>5. loss <=> \A c \in Children[p] : Won(c, Mover[p], d - 1)
      BY <3>4, <3>a
    <3>6. d - 1 \in Int /\ (d - 1) + 1 = d
      OBVIOUS
    <3>7. Won(p, D!Player(p), d) <=> \E c \in Children[p] : Won(c, D!Player(p), d - 1)
      <4>1. CASE D!Victor[p] = D!Player(p)
        <5>1. D!Plies[p] <= (d - 1) + 1 <=>
                \E c \in Children[p] : D!Victor[c] = D!Player(p) /\ D!Plies[c] <= d - 1
          BY <1>4, <3>6, <4>1, PliesIs
        <5> QED BY <3>6, <4>1, <5>1 DEF Won
      <4>2. CASE D!Victor[p] # D!Player(p)
        BY <1>4, <4>2, VictorIs DEF Won
      <4> QED BY <4>1, <4>2
    <3>8. Won(p, Mover[p], d) <=> \A c \in Children[p] : Won(c, Mover[p], d - 1)
      <4>0. D!Victor[p] = Mover[p] <=> \A c \in Children[p] : D!Victor[c] = Mover[p]
        BY <1>4, VictorIs
      <4>1. CASE D!Victor[p] = Mover[p]
        <5>1. D!Plies[p] <= (d - 1) + 1 <=> \A c \in Children[p] : D!Plies[c] <= d - 1
          BY <1>4, <3>6, <4>1, PliesIs
        <5> QED BY <3>6, <4>0, <4>1, <5>1 DEF Won
      <4>2. CASE D!Victor[p] # Mover[p]
        BY <4>0, <4>2 DEF Won
      <4> QED BY <4>1, <4>2
    <3> QED BY <1>1, <1>2, <3>3, <3>5, <3>7, <3>8
  <2> QED BY <2>3, <2>4
<1> QED BY <1>3, <1>4

LEMMA WithinDepthIs ==
  ASSUME NEW d \in -1 .. MaxDepth, NEW p \in Position
  PROVE  /\ D!findWinningPath(p, d) <=> Won(p, D!Player(p), d)
         /\ D!mustLossWithin(p, d) <=> Won(p, Mover[p], d)
<1> DEFINE Right(n) ==
             \A q \in Position :
                /\ q \in D!WithinDepth[n].wins <=> Won(q, D!Player(q), n)
                /\ q \in D!WithinDepth[n].losses <=> Won(q, Mover[q], n)
           Bad == {n \in Nat : n - 1 <= MaxDepth /\ ~Right(n - 1)}
<1>1. Bad = {}
  <2> SUFFICES ASSUME Bad # {} PROVE FALSE
    OBVIOUS
  <2>1. PICK n \in Bad : \A k \in Bad : n <= k
    BY Least
  <2>2. CASE n = 0
    <3>1. D!WithinDepth[-1] = [wins |-> {}, losses |-> {}]
      <4>1. -1 \in -1 .. MaxDepth
        BY MaxDepthIs
      <4>2. D!WithinDepth[-1] = Level(-1, D!WithinDepth[-1 - 1])
        BY <4>1, WithinDepthDefined
      <4> QED BY <4>2 DEF Level
    <3>2. \A q \in Position : \A player : ~Won(q, player, -1)
      BY PliesDefined DEF Won
    <3>3. Right(-1)
      BY <3>1, <3>2
    <3> QED BY <3>3, <2>1, <2>2
  <2>3. CASE n # 0
    <3>1. n - 1 \in Nat /\ n - 1 \notin Bad /\ n - 2 <= MaxDepth
      BY <2>1, <2>3, MaxDepthIs
    <3>2. Right(n - 2)
      BY <3>1
    <3>3. D!WithinDepth[n - 1] = Level(n - 1, D!WithinDepth[n - 2])
      <4>1. n - 1 \in -1 .. MaxDepth /\ (n - 1) - 1 = n - 2
        BY <2>1, <3>1, MaxDepthIs
      <4> QED BY <4>1, WithinDepthDefined
    <3>4. Right(n - 1)
      <4>1. (n - 1) - 1 = n - 2
        BY <3>1
      <4> QED BY <3>1, <3>2, <3>3, <4>1, LevelIs
    <3> QED BY <3>4, <2>1
  <2> QED BY <2>2, <2>3
<1>2. Right(d)
  <2>1. d + 1 \in Nat /\ (d + 1) - 1 = d /\ d <= MaxDepth
    BY MaxDepthIs
  <2> HIDE DEF Right
  <2> QED BY <2>1, <1>1
<1> QED BY <1>2 DEF D!findWinningPath, D!mustLossWithin

\* The moves that keep to best play when it lasts d plies more.
Best(p, d) == {c \in D!Kept(p) : D!Plies[c] = d}

LEMMA BestIs ==
  ASSUME NEW p \in Position, NEW d, NEW c \in Best(p, d)
  PROVE  /\ c \in Children[p] /\ c \in Position
         /\ D!Victor[c] = D!Victor[p] /\ D!Plies[c] = d
         /\ D!Player(p) = Mover[c] /\ Mover[p] = D!Player(c)
<1>1. c \in Children[p] /\ D!Victor[c] = D!Victor[p] /\ D!Plies[c] = d
  BY DEF Best, D!Kept
<1> QED BY <1>1, ColorIs

LEMMA BestFinite ==
  ASSUME NEW p \in Position, NEW d
  PROVE  IsFiniteSet(Best(p, d)) /\ Best(p, d) \subseteq Position
<1>1. Best(p, d) \subseteq Children[p]
  BY BestIs
<1>2. IsFiniteSet(Children[p]) /\ Children[p] \subseteq Position
  BY GameAssumption
<1> QED BY <1>1, <1>2, FS_Subset

LEMMA WinMovesAre ==
  ASSUME NEW p \in Position, p \notin Terminal, NEW d \in 0 .. MaxDepth
  PROVE  /\ D!findWinMoves(p, d) = {} <=> ~Won(p, D!Player(p), d + 1)
         /\ D!Victor[p] = D!Player(p) /\ D!Plies[p] = d + 1 =>
              D!findWinMoves(p, d) = Best(p, d) /\ Best(p, d) # {}
<1>1. d \in Int /\ d - 1 \in Int /\ (d - 1) + 1 = d /\ d \in -1 .. MaxDepth
  BY MaxDepthIs
<1>2. \A c \in Children[p] : c \in Position /\ D!Player(p) = Mover[c]
  BY ColorIs
<1>3. \A c : c \in D!findWinMoves(p, d) <=>
               c \in Children[p] /\ D!Victor[c] = D!Player(p) /\ D!Plies[c] <= d
  BY <1>1, <1>2, WithinDepthIs DEF D!findWinMoves, Won
<1>4. CASE D!Victor[p] # D!Player(p)
  <2>1. \A c \in Children[p] : D!Victor[c] # D!Player(p)
    BY <1>4, VictorIs
  <2> QED BY <1>3, <1>4, <2>1 DEF Won
<1>5. CASE D!Victor[p] = D!Player(p)
  <2>1. D!Plies[p] <= d + 1 <=>
          \E c \in Children[p] : D!Victor[c] = D!Player(p) /\ D!Plies[c] <= d
    BY <1>1, <1>5, PliesIs
  <2>2. D!findWinMoves(p, d) = {} <=> ~Won(p, D!Player(p), d + 1)
    BY <1>3, <1>5, <2>1 DEF Won
  <2>3. ASSUME D!Plies[p] = d + 1
        PROVE  D!findWinMoves(p, d) = Best(p, d) /\ Best(p, d) # {}
    <3>1. ~(D!Plies[p] <= (d - 1) + 1)
      BY <1>1, <2>3
    <3>2. \A c \in Children[p] : D!Victor[c] = D!Player(p) => ~(D!Plies[c] <= d - 1)
      BY <1>1, <1>5, <3>1, PliesIs
    <3>3. \A c \in Children[p] : D!Plies[c] \in Nat
      BY <1>2, PliesIs
    <3>4. \A c : c \in Best(p, d) <=>
                   c \in Children[p] /\ D!Victor[c] = D!Player(p) /\ D!Plies[c] = d
      BY <1>5 DEF Best, D!Kept
    <3>5. \A c : c \in Best(p, d) <=> c \in D!findWinMoves(p, d)
      BY <1>1, <1>3, <3>2, <3>3, <3>4
    <3>6. D!findWinMoves(p, d) # {}
      BY <1>1, <1>5, <2>2, <2>3 DEF Won
    <3> QED BY <3>5, <3>6
  <2> QED BY <2>2, <2>3
<1> QED BY <1>4, <1>5

LEMMA NonLossMovesAre ==
  ASSUME NEW p \in Position, p \notin Terminal, NEW d \in 0 .. MaxDepth,
         D!Victor[p] = Mover[p], D!Plies[p] = d + 1
  PROVE  D!nonLossMoves(p, d) = Best(p, d) /\ Best(p, d) # {}
<1>1. d \in Int /\ d - 1 \in Int /\ (d - 1) + 1 = d /\ d - 1 \in -1 .. MaxDepth
  BY MaxDepthIs
<1>2. \A c \in Children[p] : /\ c \in Position /\ D!Plies[c] \in Nat
                             /\ D!Victor[c] = Mover[p] /\ Mover[p] = D!Player(c)
  BY ColorIs, VictorIs, PliesIs
<1>3. D!Plies[p] <= d + 1 /\ ~(D!Plies[p] <= (d - 1) + 1)
  BY <1>1
<1>4. \A c \in Children[p] : D!Plies[c] <= d
  BY <1>1, <1>3, PliesIs
<1>5. ~ \A c \in Children[p] : D!Plies[c] <= d - 1
  BY <1>1, <1>3, PliesIs
<1>6. \A c : c \in D!nonLossMoves(p, d) <=> c \in Children[p] /\ ~(D!Plies[c] <= d - 1)
  <2>1. ASSUME NEW c \in Children[p]
        PROVE  D!findWinningPath(c, d - 1) <=> D!Plies[c] <= d - 1
    BY <1>1, <1>2, WithinDepthIs DEF Won
  <2> QED BY <2>1 DEF D!nonLossMoves
<1>7. \A c : c \in Best(p, d) <=> c \in Children[p] /\ D!Plies[c] = d
  BY <1>2 DEF Best, D!Kept
<1>8. \A c \in Children[p] : D!Plies[c] = d <=> ~(D!Plies[c] <= d - 1)
  BY <1>1, <1>2, <1>4
<1> QED BY <1>5, <1>6, <1>7, <1>8

-----------------------------------------------------------------------------
(* The inductive invariant of a DepthSolver *)

File == [pos : Position, depth : Int, moves : SUBSET Position]

\* A file says how long best play lasts for r's player and how to keep to it.
Answers(r, f) ==
  /\ f.depth \in Nat
  /\ D!Victor[f.pos] = D!Player(r) /\ D!Plies[f.pos] = f.depth + 1
  /\ f.moves = Best(f.pos, f.depth) /\ f.moves # {}

\* A position that follows one of the files, in a move of best play.
Continues(files, pos, d) ==
  \E j \in 1 .. Len(files) : pos \in files[j].moves /\ d = files[j].depth - 1

Chained(files) ==
  \A i \in 2 .. Len(files) :
    \E j \in 1 .. i - 1 : /\ files[i].pos \in files[j].moves
                          /\ files[i].depth = files[j].depth - 1

\* The next call of a line for a game r that lasts dp plies more.
CallIs(r, dp, files, c) ==
  /\ c.pos \in Position /\ c.toWin \in BOOLEAN /\ c.depth \in -1 .. dp - 1
  /\ D!Victor[c.pos] = D!Player(r) /\ D!Plies[c.pos] = c.depth + 1
  /\ c.toWin <=> D!Player(c.pos) = D!Player(r)
  /\ Continues(files, c.pos, c.depth)
  /\ c.depth < dp - 1 => files[Len(files)].depth = c.depth + 1

\* n lines are complete, or all but the one that c goes on with.
LinesAre(n, dp, files) ==
  Len(files) = 1 + n * dp /\ (n > 0 => files[Len(files)].depth = 0)

LineGoesOn(n, dp, files, c) ==
  n > 0 /\ Len(files) = 1 + (n - 1) * dp + (dp - 1 - c.depth)

Searching(r, size, dp) ==
  dp \in 0 .. size /\ ~Won(r, D!Player(r), dp)

NoAnswer(r, size, dp, files) ==
  /\ dp = -1 /\ files = <<[pos |-> r, depth |-> -1, moves |-> {}]>>
  /\ ~Won(r, D!Player(r), size + 1)

Dumping(r, dp, files, rest, calls) ==
  /\ dp \in 0 .. MaxDepth
  /\ files \in Seq(File) /\ files # <<>>
  /\ \A i \in 1 .. Len(files) : Answers(r, files[i])
  /\ Chained(files)
  /\ files[1] = [pos |-> r, depth |-> dp, moves |-> Best(r, dp)]
  /\ rest \subseteq Best(r, dp)
  /\ LET n == Cardinality(Best(r, dp)) - Cardinality(rest)
     IN \/ calls = <<>> /\ LinesAre(n, dp, files)
        \/ \E c : /\ calls = <<c>> /\ CallIs(r, dp, files, c)
                  /\ LineGoesOn(n, dp, files, c)

DepthIs(r, size, dp, files, rest, calls) ==
  /\ r \in Problem /\ size \in Depths
  /\ \/ files = <<>> /\ rest = {} /\ calls = <<>> /\ Searching(r, size, dp)
     \/ rest = {} /\ calls = <<>> /\ NoAnswer(r, size, dp, files)
     \/ Dumping(r, dp, files, rest, calls)

IInv ==
  \/ Solver = "DepthSolver" /\ DepthIs(root, problemSize, depth, dumped, left, call)
  \/ Solver = "SizeSolver" /\ dumped = <<>>

LEMMA AppendIs ==
  ASSUME NEW X, NEW s \in Seq(X), NEW e \in X
  PROVE  /\ Append(s, e) \in Seq(X) /\ Append(s, e) # <<>>
         /\ Len(s) \in Nat /\ Len(Append(s, e)) = Len(s) + 1
         /\ \A i \in 1 .. Len(s) : Append(s, e)[i] = s[i]
         /\ Append(s, e)[Len(s) + 1] = e
OBVIOUS

LEMMA ChainGrows ==
  ASSUME NEW files \in Seq(File), Chained(files), NEW f \in File,
         Continues(files, f.pos, f.depth)
  PROVE  Chained(Append(files, f))
<1> DEFINE g == Append(files, f)
<1>1. /\ Len(files) \in Nat /\ Len(g) = Len(files) + 1
      /\ \A i \in 1 .. Len(files) : g[i] = files[i]
      /\ g[Len(files) + 1] = f
  BY AppendIs
<1> HIDE DEF g
<1>2. ASSUME NEW i \in 2 .. Len(g)
      PROVE  \E j \in 1 .. i - 1 : /\ g[i].pos \in g[j].moves
                                   /\ g[i].depth = g[j].depth - 1
  <2>1. CASE i = Len(files) + 1
    <3>1. PICK j \in 1 .. Len(files) : f.pos \in files[j].moves /\ f.depth = files[j].depth - 1
      BY DEF Continues
    <3>2. j \in 1 .. i - 1 /\ g[j] = files[j] /\ g[i] = f
      BY <1>1, <2>1
    <3> QED BY <3>1, <3>2
  <2>2. CASE i # Len(files) + 1
    <3>1. i \in 2 .. Len(files) /\ i \in 1 .. Len(files)
      BY <1>1, <2>2
    <3>2. PICK j \in 1 .. i - 1 : /\ files[i].pos \in files[j].moves
                                  /\ files[i].depth = files[j].depth - 1
      BY <3>1 DEF Chained
    <3>3. g[j] = files[j] /\ g[i] = files[i]
      BY <1>1, <3>1
    <3> QED BY <3>2, <3>3
  <2> QED BY <2>1, <2>2
<1> QED BY <1>2 DEF Chained, g

\* The victor of the game gets its best moves, the other player those that
\* are not lost sooner: both are best play.
LEMMA CallDumps ==
  ASSUME NEW r \in Problem, NEW dp \in 0 .. MaxDepth, NEW files, NEW c,
         CallIs(r, dp, files, c), c.depth >= 0
  PROVE  /\ c.toWin => D!findWinMoves(c.pos, c.depth) = Best(c.pos, c.depth)
         /\ ~c.toWin => D!nonLossMoves(c.pos, c.depth) = Best(c.pos, c.depth)
         /\ Best(c.pos, c.depth) # {}
<1> DEFINE p == c.pos
           d == c.depth
<1>1. /\ p \in Position /\ d \in 0 .. MaxDepth
      /\ D!Victor[p] = D!Player(r) /\ D!Plies[p] = d + 1
      /\ c.toWin \in BOOLEAN /\ (c.toWin <=> D!Player(p) = D!Player(r))
  BY MaxDepthIs DEF CallIs
<1> HIDE DEF p, d
<1>2. p \notin Terminal
  BY <1>1, PliesIs
<1>3. r \in Position
  BY GameAssumption
<1>4. D!Player(p) \in Color /\ D!Player(r) \in Color /\ {Mover[p], D!Player(p)} = Color
  BY <1>1, <1>3, ColorIs
<1>5. CASE c.toWin
  BY <1>1, <1>2, <1>5, WinMovesAre DEF p, d
<1>6. CASE ~c.toWin
  <2>1. D!Victor[p] = Mover[p]
    BY <1>1, <1>4, <1>6 DEF Color
  <2> QED BY <1>1, <1>2, <1>6, <2>1, NonLossMovesAre DEF p, d
<1> QED BY <1>1, <1>5, <1>6

LEMMA LineGrows ==
  ASSUME NEW r \in Problem, NEW dp, NEW files, NEW rest, NEW c,
         Dumping(r, dp, files, rest, <<c>>), c.depth >= 0,
         NEW m \in Best(c.pos, c.depth)
  PROVE  Dumping(r, dp,
           Append(files, [pos |-> c.pos, depth |-> c.depth,
                          moves |-> Best(c.pos, c.depth)]),
           rest, <<[pos |-> m, toWin |-> ~c.toWin, depth |-> c.depth - 1]>>)
<1> DEFINE f == [pos |-> c.pos, depth |-> c.depth, moves |-> Best(c.pos, c.depth)]
           g == Append(files, f)
           e == [pos |-> m, toWin |-> ~c.toWin, depth |-> c.depth - 1]
           n == Cardinality(Best(r, dp)) - Cardinality(rest)
<1>1. /\ dp \in 0 .. MaxDepth
      /\ files \in Seq(File) /\ files # <<>>
      /\ \A i \in 1 .. Len(files) : Answers(r, files[i])
      /\ Chained(files)
      /\ files[1] = [pos |-> r, depth |-> dp, moves |-> Best(r, dp)]
      /\ rest \subseteq Best(r, dp)
  BY DEF Dumping
<1>2. CallIs(r, dp, files, c) /\ LineGoesOn(n, dp, files, c)
  <2>1. \A x : <<x>> = <<c>> => x = c
    OBVIOUS
  <2> HIDE DEF n
  <2>2. \E x : <<x>> = <<c>> /\ CallIs(r, dp, files, x) /\ LineGoesOn(n, dp, files, x)
    BY DEF Dumping, n
  <2> QED BY <2>1, <2>2
<1>3. /\ c.pos \in Position /\ c.depth \in 0 .. dp - 1 /\ c.depth \in Nat
      /\ c.toWin \in BOOLEAN
      /\ D!Victor[c.pos] = D!Player(r) /\ D!Plies[c.pos] = c.depth + 1
      /\ (c.toWin <=> D!Player(c.pos) = D!Player(r))
      /\ Continues(files, c.pos, c.depth)
  BY <1>1, <1>2, MaxDepthIs DEF CallIs
<1>4. f \in File /\ Answers(r, f)
  <2>1. Best(c.pos, c.depth) \subseteq Position
    BY <1>3, BestFinite
  <2>2. f \in File
    BY <1>3, <2>1 DEF File
  <2> QED BY <1>3, <2>2 DEF Answers
<1>5. /\ g \in Seq(File) /\ g # <<>>
      /\ Len(files) \in Nat /\ Len(g) = Len(files) + 1
      /\ \A i \in 1 .. Len(files) : g[i] = files[i]
      /\ g[Len(g)] = f
  BY <1>1, <1>4, AppendIs
<1>6. Chained(g)
  BY <1>1, <1>3, <1>4, ChainGrows
<1>7. \A i \in 1 .. Len(g) : Answers(r, g[i])
  <2> HIDE DEF f, g
  <2> QED BY <1>1, <1>4, <1>5
<1>8. g[1] = [pos |-> r, depth |-> dp, moves |-> Best(r, dp)]
  <2>1. 1 \in 1 .. Len(files)
    BY <1>1
  <2> QED BY <1>1, <1>5, <2>1
<1>9. CallIs(r, dp, g, e)
  <2>1. /\ m \in Position /\ D!Victor[m] = D!Victor[c.pos] /\ D!Plies[m] = c.depth
        /\ D!Player(m) = Mover[c.pos]
    BY <1>3, BestIs
  <2>2. r \in Position
    BY GameAssumption
  <2>3. ~c.toWin <=> D!Player(m) = D!Player(r)
    <3>1. {Mover[c.pos], D!Player(c.pos)} = Color /\ Mover[c.pos] # D!Player(c.pos)
          /\ D!Player(r) \in Color
      BY <1>3, <2>2, ColorIs
    <3> QED BY <1>3, <2>1, <3>1
  <2>4. Continues(g, m, c.depth - 1)
    <3>1. Len(g) \in 1 .. Len(g) /\ m \in g[Len(g)].moves /\ c.depth = g[Len(g)].depth
      BY <1>5
    <3> HIDE DEF g, f
    <3> QED BY <3>1 DEF Continues
  <2>5. g[Len(g)].depth = (c.depth - 1) + 1
    BY <1>3, <1>5
  <2>6. /\ e.pos = m /\ e.toWin = ~c.toWin /\ e.depth = c.depth - 1
        /\ c.depth - 1 \in -1 .. dp - 1
    BY <1>1, <1>3
  <2> HIDE DEF e, g, f
  <2>7. e.toWin \in BOOLEAN /\ (e.toWin <=> D!Player(e.pos) = D!Player(r))
    <3>1. (~c.toWin) \in BOOLEAN
      OBVIOUS
    <3> QED BY <3>1, <2>3, <2>6, Zenon
  <2>8. /\ e.pos \in Position /\ e.depth \in -1 .. dp - 1
        /\ D!Victor[e.pos] = D!Player(r) /\ Continues(g, e.pos, e.depth)
    BY <1>3, <2>1, <2>4, <2>6
  <2>9. D!Plies[e.pos] = e.depth + 1 /\ g[Len(g)].depth = e.depth + 1
    BY <1>3, <2>1, <2>5, <2>6
  <2> QED BY <2>7, <2>8, <2>9 DEF CallIs
<1>10. LineGoesOn(n, dp, g, e)
  <2>1. e.depth = c.depth - 1
    OBVIOUS
  <2>2. n > 0 /\ Len(files) = 1 + (n - 1) * dp + (dp - 1 - c.depth)
    BY <1>2 DEF LineGoesOn
  <2>3. n \in Int
    <3>1. r \in Position
      BY GameAssumption
    <3>2. IsFiniteSet(Best(r, dp))
      BY <3>1, BestFinite
    <3>3. IsFiniteSet(rest)
      BY <1>1, <3>2, FS_Subset
    <3> QED BY <3>2, <3>3, FS_CardinalityType
  <2> HIDE DEF n, e, g, f
  <2>4. (n - 1) * dp \in Int
    BY <1>1, <2>3
  <2>5. Len(g) = 1 + (n - 1) * dp + (dp - 1 - (c.depth - 1))
    <3> DEFINE lines == (n - 1) * dp
    <3>1. /\ Len(g) = Len(files) + 1 /\ Len(files) = 1 + lines + (dp - 1 - c.depth)
          /\ lines \in Int /\ dp \in Int /\ c.depth \in Int
      BY <1>1, <1>3, <1>5, <2>2, <2>4
    <3> HIDE DEF lines
    <3>2. Len(g) = 1 + lines + (dp - 1 - (c.depth - 1))
      BY <3>1
    <3> QED BY <3>2 DEF lines
  <2> QED BY <2>1, <2>2, <2>5 DEF LineGoesOn
<1> HIDE DEF e, g, n, f
<1>11. \E x : <<e>> = <<x>> /\ CallIs(r, dp, g, x) /\ LineGoesOn(n, dp, g, x)
  BY <1>9, <1>10
<1>12. Dumping(r, dp, g, rest, <<e>>)
  BY <1>1, <1>5, <1>6, <1>7, <1>8, <1>11 DEF Dumping, n
<1> QED BY <1>12 DEF e, g, f

-----------------------------------------------------------------------------
(* The steps of a DepthSolver *)

DepthNow == DepthIs(root, problemSize, depth, dumped, left, call)

LEMMA ProblemIs ==
  ASSUME NEW r \in Problem
  PROVE  r \in Position /\ r \notin Terminal /\ ~Won(r, D!Player(r), 0)
<1>1. r \in Position /\ r \notin Terminal
  BY GameAssumption, ProblemIsOpen
<1>2. D!Player(r) # "none"
  BY <1>1, ColorIs DEF Color
<1> QED BY <1>1, <1>2, PliesIs DEF Won

LEMMA SolveGameKeeps ==
  ASSUME DepthNow, D!SolveGame
  PROVE  DepthNow'
<1>1. /\ root' \in Problem /\ problemSize' \in Depths /\ depth' = 0
      /\ dumped' = <<>> /\ left' = {} /\ call' = <<>>
  BY DEF D!SolveGame
<1>2. Searching(root', problemSize', depth')
  BY <1>1, ProblemIs, SizesAssumption DEF Searching
<1> QED BY <1>1, <1>2 DEF DepthNow, DepthIs

LEMMA SearchingNow ==
  ASSUME DepthNow, dumped = <<>>
  PROVE  /\ root \in Problem /\ problemSize \in Depths /\ left = {} /\ call = <<>>
         /\ depth \in 0 .. problemSize /\ depth \in 0 .. MaxDepth
         /\ ~Won(root, D!Player(root), depth)
<1>1. root \in Problem /\ problemSize \in Depths
  BY DEF DepthNow, DepthIs
<1>2. ~NoAnswer(root, problemSize, depth, dumped) /\ ~Dumping(root, depth, dumped, left, call)
  BY DEF NoAnswer, Dumping
<1>3. left = {} /\ call = <<>> /\ Searching(root, problemSize, depth)
  BY <1>2 DEF DepthNow, DepthIs
<1>4. problemSize \in 0 .. MaxDepth
  BY <1>1, MaxDepthIs
<1> QED BY <1>1, <1>3, <1>4, MaxDepthIs DEF Searching

LEMMA DeepenKeeps ==
  ASSUME DepthNow, D!Deepen
  PROVE  DepthNow'
<1>1. /\ dumped = <<>> /\ D!findWinMoves(root, depth) = {} /\ depth < problemSize
      /\ depth' = depth + 1
      /\ root' = root /\ problemSize' = problemSize /\ dumped' = dumped
      /\ left' = left /\ call' = call
  BY DEF D!Deepen
<1>2. /\ root \in Problem /\ problemSize \in Depths /\ left = {} /\ call = <<>>
      /\ depth \in 0 .. problemSize /\ depth \in 0 .. MaxDepth
  BY <1>1, SearchingNow
<1>3. ~Won(root, D!Player(root), depth + 1)
  BY <1>1, <1>2, ProblemIs, WinMovesAre
<1>4. depth + 1 \in 0 .. problemSize
  BY <1>1, <1>2, SizesAssumption
<1> QED BY <1>1, <1>2, <1>3, <1>4 DEF DepthNow, DepthIs, Searching

\* The first file: no pass before found a win, so this is the shortest.
LEMMA AnswerIs ==
  ASSUME NEW r \in Problem, NEW d \in 0 .. MaxDepth,
         ~Won(r, D!Player(r), d), D!findWinMoves(r, d) # {}
  PROVE  LET moves == D!findWinMoves(r, d)
         IN Dumping(r, d, <<[pos |-> r, depth |-> d, moves |-> moves]>>, moves, <<>>)
<1> DEFINE f == [pos |-> r, depth |-> d, moves |-> Best(r, d)]
<1>1. r \in Position /\ r \notin Terminal /\ d \in Nat /\ D!Plies[r] \in Nat
  BY ProblemIs, PliesIs
<1>2. Won(r, D!Player(r), d + 1)
  BY <1>1, WinMovesAre
<1>3. D!Victor[r] = D!Player(r) /\ D!Plies[r] = d + 1
  BY <1>1, <1>2 DEF Won
<1>4. D!findWinMoves(r, d) = Best(r, d) /\ Best(r, d) # {}
  BY <1>1, <1>3, WinMovesAre
<1>5. f \in File /\ Answers(r, f)
  <2>1. Best(r, d) \subseteq Position
    BY <1>1, BestFinite
  <2> QED BY <1>1, <1>3, <1>4, <2>1 DEF File, Answers
<1>6. Cardinality(Best(r, d)) - Cardinality(Best(r, d)) = 0
  BY <1>1, BestFinite, FS_CardinalityType
<1>7. LinesAre(0, d, <<f>>)
  BY <1>1 DEF LinesAre
<1> HIDE DEF f
<1>8. /\ <<f>> \in Seq(File) /\ <<f>> # <<>> /\ Chained(<<f>>)
      /\ \A i \in 1 .. Len(<<f>>) : Answers(r, <<f>>[i])
      /\ <<f>>[1] = f
  BY <1>5 DEF Chained
<1>9. Dumping(r, d, <<f>>, Best(r, d), <<>>)
  BY <1>6, <1>7, <1>8 DEF Dumping, f
<1> QED BY <1>4, <1>9 DEF f

LEMMA DumpAnswerKeeps ==
  ASSUME DepthNow, D!DumpAnswer
  PROVE  DepthNow'
<1> DEFINE moves == D!findWinMoves(root, depth)
<1>1. /\ dumped = <<>> /\ root' = root /\ problemSize' = problemSize /\ call' = call
      /\ \/ /\ moves # {} /\ left' = moves /\ depth' = depth
            /\ dumped' = Append(dumped, [pos |-> root, depth |-> depth, moves |-> moves])
         \/ /\ moves = {} /\ depth = problemSize /\ depth' = -1 /\ left' = left
            /\ dumped' = Append(dumped, [pos |-> root, depth |-> -1, moves |-> {}])
  BY DEF D!DumpAnswer, D!dumpProblem
<1>2. /\ root \in Problem /\ problemSize \in Depths /\ left = {} /\ call = <<>>
      /\ depth \in 0 .. MaxDepth /\ ~Won(root, D!Player(root), depth)
  BY <1>1, SearchingNow
<1>3. \A f : Append(<<>>, f) = <<f>>
  OBVIOUS
<1>4. CASE moves # {}
  <2> DEFINE f == [pos |-> root, depth |-> depth, moves |-> moves]
  <2>1. Dumping(root, depth, <<f>>, moves, <<>>)
    BY <1>2, <1>4, AnswerIs
  <2>2. dumped' = <<f>> /\ left' = moves /\ depth' = depth
    BY <1>1, <1>3, <1>4
  <2> HIDE DEF moves, f
  <2>3. Dumping(root', depth', dumped', left', call')
    BY <1>1, <1>2, <2>1, <2>2
  <2> QED BY <1>1, <1>2, <2>3 DEF DepthNow, DepthIs
<1>5. CASE moves = {}
  <2>1. ~Won(root, D!Player(root), depth + 1)
    BY <1>2, <1>5, ProblemIs, WinMovesAre
  <2>2. /\ depth = problemSize /\ depth' = -1 /\ left' = {} /\ call' = <<>>
        /\ dumped' = <<[pos |-> root, depth |-> -1, moves |-> {}]>>
    BY <1>1, <1>2, <1>3, <1>5
  <2>3. NoAnswer(root', problemSize', depth', dumped')
    BY <1>1, <2>1, <2>2 DEF NoAnswer
  <2> QED BY <1>1, <1>2, <2>2, <2>3 DEF DepthNow, DepthIs
<1> QED BY <1>4, <1>5

LEMMA DumpingNow ==
  ASSUME DepthNow, left # {} \/ call # <<>>
  PROVE  /\ root \in Problem /\ problemSize \in Depths
         /\ Dumping(root, depth, dumped, left, call)
BY DEF DepthNow, DepthIs

\* The lines begun when the moves of rest are still to be made.
LEMMA BegunIs ==
  ASSUME NEW r \in Problem, NEW dp, NEW rest, rest \subseteq Best(r, dp)
  PROVE  /\ Cardinality(Best(r, dp)) - Cardinality(rest) \in Nat
         /\ \A m \in rest : Cardinality(Best(r, dp)) - Cardinality(rest \ {m})
                            = (Cardinality(Best(r, dp)) - Cardinality(rest)) + 1
<1>1. IsFiniteSet(Best(r, dp))
  BY ProblemIs, BestFinite
<1>2. /\ IsFiniteSet(rest) /\ Cardinality(rest) <= Cardinality(Best(r, dp))
      /\ Cardinality(rest) \in Nat /\ Cardinality(Best(r, dp)) \in Nat
  BY <1>1, FS_Subset, FS_CardinalityType
<1>3. \A m \in rest : Cardinality(rest \ {m}) = Cardinality(rest) - 1
  BY <1>2, FS_RemoveElement
<1> QED BY <1>2, <1>3

LEMMA LineStarts ==
  ASSUME NEW r \in Problem, NEW dp, NEW files, NEW rest,
         Dumping(r, dp, files, rest, <<>>), NEW m \in rest
  PROVE  Dumping(r, dp, files, rest \ {m},
           <<[pos |-> m, toWin |-> FALSE, depth |-> dp - 1]>>)
<1> DEFINE e == [pos |-> m, toWin |-> FALSE, depth |-> dp - 1]
           n == Cardinality(Best(r, dp)) - Cardinality(rest)
<1>1. /\ dp \in 0 .. MaxDepth /\ files \in Seq(File) /\ files # <<>>
      /\ \A i \in 1 .. Len(files) : Answers(r, files[i])
      /\ files[1] = [pos |-> r, depth |-> dp, moves |-> Best(r, dp)]
      /\ rest \subseteq Best(r, dp) /\ LinesAre(n, dp, files)
  <2> HIDE DEF n
  <2> QED BY DEF Dumping, n
<1>2. Chained(files)
  BY DEF Dumping
<1>3. n \in Nat /\ Cardinality(Best(r, dp)) - Cardinality(rest \ {m}) = n + 1
  BY <1>1, BegunIs
<1> HIDE DEF n
<1>4. LineGoesOn(n + 1, dp, files, e)
  <2>1. e.depth = dp - 1 /\ (n + 1) - 1 = n /\ n + 1 > 0 /\ dp \in Nat
    BY <1>1, <1>3
  <2>2. Len(files) = 1 + n * dp /\ n * dp \in Nat
    BY <1>1, <1>3 DEF LinesAre
  <2> HIDE DEF e
  <2>3. Len(files) = 1 + n * dp + (dp - 1 - e.depth)
    BY <2>1, <2>2
  <2> QED BY <2>1, <2>3 DEF LineGoesOn
<1>5. CallIs(r, dp, files, e)
  <2>1. r \in Position /\ m \in Best(r, dp) /\ dp \in Nat
    BY <1>1, ProblemIs
  <2>2. /\ m \in Position /\ D!Victor[m] = D!Victor[r] /\ D!Plies[m] = dp
        /\ D!Player(m) = Mover[r] /\ Mover[r] # D!Player(r)
    BY <2>1, BestIs, ColorIs
  <2>3. 1 \in 1 .. Len(files)
    BY <1>1
  <2>4. D!Victor[r] = D!Player(r)
    BY <1>1, <2>3 DEF Answers
  <2>5. Continues(files, m, dp - 1)
    BY <1>1, <2>1, <2>3 DEF Continues
  <2>6. e.pos = m /\ e.toWin = FALSE /\ e.depth = dp - 1 /\ dp - 1 \in -1 .. dp - 1
        /\ ~(dp - 1 < dp - 1) /\ (dp - 1) + 1 = dp
    BY <2>1
  <2> HIDE DEF e
  <2> QED BY <2>2, <2>4, <2>5, <2>6 DEF CallIs
<1> HIDE DEF e
<1>6. \E x : <<e>> = <<x>> /\ CallIs(r, dp, files, x) /\ LineGoesOn(n + 1, dp, files, x)
  BY <1>4, <1>5
<1>7. rest \ {m} \subseteq Best(r, dp)
  BY <1>1
<1> QED BY <1>1, <1>2, <1>3, <1>6, <1>7 DEF Dumping, e

\* What Dumping says while a line is being made.
LEMMA CallNow ==
  ASSUME NEW r, NEW dp, NEW files, NEW rest, NEW c, Dumping(r, dp, files, rest, <<c>>)
  PROVE  /\ CallIs(r, dp, files, c)
         /\ LineGoesOn(Cardinality(Best(r, dp)) - Cardinality(rest), dp, files, c)
<1> DEFINE n == Cardinality(Best(r, dp)) - Cardinality(rest)
<1>1. \A x : <<x>> = <<c>> => x = c
  OBVIOUS
<1> HIDE DEF n
<1>2. \E x : <<x>> = <<c>> /\ CallIs(r, dp, files, x) /\ LineGoesOn(n, dp, files, x)
  BY DEF Dumping, n
<1> QED BY <1>1, <1>2 DEF n

LEMMA LineStops ==
  ASSUME NEW r \in Problem, NEW dp, NEW files, NEW rest, NEW c,
         Dumping(r, dp, files, rest, <<c>>), c.depth < 0
  PROVE  Dumping(r, dp, files, rest, <<>>)
<1> DEFINE n == Cardinality(Best(r, dp)) - Cardinality(rest)
<1>1. /\ dp \in 0 .. MaxDepth /\ files \in Seq(File) /\ files # <<>>
      /\ files[1] = [pos |-> r, depth |-> dp, moves |-> Best(r, dp)]
      /\ rest \subseteq Best(r, dp)
  BY DEF Dumping
<1>2. CallIs(r, dp, files, c) /\ LineGoesOn(n, dp, files, c)
  BY CallNow
<1>3. n \in Nat
  BY <1>1, BegunIs
<1> HIDE DEF n
<1>4. c.depth = -1 /\ dp \in Nat
  BY <1>1, <1>2 DEF CallIs
<1>5. n > 0 /\ Len(files) = 1 + (n - 1) * dp + dp
  <2>1. n > 0 /\ Len(files) = 1 + (n - 1) * dp + (dp - 1 - c.depth)
    BY <1>2 DEF LineGoesOn
  <2>2. dp - 1 - c.depth = dp
    BY <1>4
  <2> QED BY <2>1, <2>2
<1>6. Len(files) = 1 + n * dp
  <2>1. (n - 1) * dp + dp = n * dp /\ (n - 1) * dp \in Int
    BY <1>3, <1>4
  <2> QED BY <1>4, <1>5, <2>1
<1>7. files[Len(files)].depth = 0
  <2>1. CASE dp = 0
    <3>1. n * 0 = 0
      BY <1>3
    <3>2. Len(files) = 1
      BY <1>6, <2>1, <3>1
    <3> QED BY <1>1, <2>1, <3>2
  <2>2. CASE dp > 0
    <3>1. c.depth < dp - 1 /\ c.depth + 1 = 0
      BY <1>4, <2>2
    <3> QED BY <1>2, <3>1 DEF CallIs
  <2> QED BY <1>4, <2>1, <2>2
<1>8. LinesAre(n, dp, files)
  BY <1>6, <1>7 DEF LinesAre
<1> QED BY <1>8 DEF Dumping, n

LEMMA TakeWinMoveKeeps ==
  ASSUME DepthNow, D!TakeWinMove
  PROVE  DepthNow'
<1>1. PICK c \in left : /\ left' = left \ {c}
                        /\ call' = <<[pos |-> c, toWin |-> FALSE, depth |-> depth - 1]>>
  BY DEF D!TakeWinMove
<1>2. /\ root' = root /\ problemSize' = problemSize /\ depth' = depth
      /\ dumped' = dumped /\ call = <<>>
  BY DEF D!TakeWinMove
<1>3. /\ root \in Problem /\ problemSize \in Depths
      /\ Dumping(root, depth, dumped, left, <<>>)
  BY <1>1, <1>2, DumpingNow
<1>4. Dumping(root, depth, dumped, left \ {c},
        <<[pos |-> c, toWin |-> FALSE, depth |-> depth - 1]>>)
  BY <1>3, LineStarts
<1>5. Dumping(root', depth', dumped', left', call')
  BY <1>1, <1>2, <1>4
<1> QED BY <1>2, <1>3, <1>5 DEF DepthNow, DepthIs

\* The call there is, whether for the victor of the game or for the loser.
LEMMA CallThereIs ==
  ASSUME DepthNow, call # <<>>
  PROVE  \E c : call = <<c>> /\ Dumping(root, depth, dumped, left, <<c>>)
<1>1. Dumping(root, depth, dumped, left, call)
  BY DumpingNow
<1>2. \E c : call = <<c>>
  BY <1>1 DEF Dumping
<1> QED BY <1>1, <1>2

LEMMA LineEndsKeeps ==
  ASSUME DepthNow, D!LineEnds
  PROVE  DepthNow'
<1>1. /\ call # <<>> /\ call[1].depth < 0 /\ call' = <<>>
      /\ root' = root /\ problemSize' = problemSize /\ depth' = depth
      /\ dumped' = dumped /\ left' = left
  BY DEF D!LineEnds
<1>2. PICK c : call = <<c>> /\ Dumping(root, depth, dumped, left, <<c>>)
  BY <1>1, CallThereIs
<1>3. root \in Problem /\ problemSize \in Depths /\ c.depth < 0
  BY <1>1, <1>2, DumpingNow
<1>4. Dumping(root, depth, dumped, left, <<>>)
  BY <1>2, <1>3, LineStops
<1> QED BY <1>1, <1>3, <1>4 DEF DepthNow, DepthIs

LEMMA GenerateKeeps ==
  ASSUME DepthNow, D!generateWinSubproblem \/ D!generateLossSubproblem
  PROVE  DepthNow'
<1>1. /\ call # <<>> /\ root' = root /\ problemSize' = problemSize
      /\ depth' = depth /\ left' = left
  BY DEF D!generateWinSubproblem, D!generateLossSubproblem
<1>2. PICK c : call = <<c>> /\ Dumping(root, depth, dumped, left, <<c>>)
  BY <1>1, CallThereIs
<1>3. root \in Problem /\ problemSize \in Depths /\ depth \in 0 .. MaxDepth
  BY <1>1, <1>2, DumpingNow DEF Dumping
<1>4. CallIs(root, depth, dumped, c)
  BY <1>2, CallNow
<1> DEFINE moves == Best(c.pos, c.depth)
           f == [pos |-> c.pos, depth |-> c.depth, moves |-> moves]
<1>5. c.depth >= 0 /\ moves # {} /\ dumped' = Append(dumped, f)
      /\ \E m \in moves : call' = <<[pos |-> m, toWin |-> ~c.toWin, depth |-> c.depth - 1]>>
  <2>1. CASE D!generateWinSubproblem
    <3>1. /\ c.toWin /\ c.depth >= 0
          /\ D!dumpProblem(c.pos, c.depth, D!findWinMoves(c.pos, c.depth))
          /\ D!Follow(D!findWinMoves(c.pos, c.depth), FALSE)
      BY <1>2, <2>1 DEF D!generateWinSubproblem
    <3>2. D!findWinMoves(c.pos, c.depth) = moves /\ moves # {}
      BY <1>3, <1>4, <3>1, CallDumps
    <3> HIDE DEF moves
    <3>3. dumped' = Append(dumped, f)
      BY <3>1, <3>2 DEF D!dumpProblem
    <3>4. \E m \in moves : call' = <<[pos |-> m, toWin |-> FALSE, depth |-> c.depth - 1]>>
      BY <1>2, <3>1, <3>2 DEF D!Follow
    <3>5. FALSE = ~c.toWin
      BY <3>1
    <3> QED BY <3>1, <3>2, <3>3, <3>4, <3>5
  <2>2. CASE D!generateLossSubproblem
    <3>1. /\ ~c.toWin /\ c.depth >= 0
          /\ D!dumpProblem(c.pos, c.depth, D!nonLossMoves(c.pos, c.depth))
          /\ D!Follow(D!nonLossMoves(c.pos, c.depth), TRUE)
      BY <1>2, <2>2 DEF D!generateLossSubproblem
    <3>2. D!nonLossMoves(c.pos, c.depth) = moves /\ moves # {}
      BY <1>3, <1>4, <3>1, CallDumps
    <3> HIDE DEF moves
    <3>3. dumped' = Append(dumped, f)
      BY <3>1, <3>2 DEF D!dumpProblem
    <3>4. \E m \in moves : call' = <<[pos |-> m, toWin |-> TRUE, depth |-> c.depth - 1]>>
      BY <1>2, <3>1, <3>2 DEF D!Follow
    <3>5. TRUE = ~c.toWin
      BY <3>1
    <3> QED BY <3>1, <3>2, <3>3, <3>4, <3>5
  <2> QED BY <2>1, <2>2
<1>6. PICK m \in moves : call' = <<[pos |-> m, toWin |-> ~c.toWin, depth |-> c.depth - 1]>>
  BY <1>5
<1>7. Dumping(root, depth, Append(dumped, f), left,
        <<[pos |-> m, toWin |-> ~c.toWin, depth |-> c.depth - 1]>>)
  BY <1>2, <1>3, <1>5, LineGrows
<1> HIDE DEF f
<1>8. Dumping(root', depth', dumped', left', call')
  BY <1>1, <1>5, <1>6, <1>7
<1> QED BY <1>1, <1>3, <1>8 DEF DepthNow, DepthIs

-----------------------------------------------------------------------------
(* Best play is what is dumped *)

\* A game that needs no more than its problem size ends with an answer.
LEMMA DumpedIsExact ==
  ASSUME DepthNow
  PROVE  (\A i \in DOMAIN dumped : D!Exact(dumped[i])) /\ D!LinesComplete
<1>1. CASE dumped = <<>>
  BY <1>1 DEF D!LinesComplete
<1>2. CASE NoAnswer(root, problemSize, depth, dumped)
  <2>1. /\ depth = -1 /\ dumped = <<[pos |-> root, depth |-> -1, moves |-> {}]>>
        /\ ~Won(root, D!Player(root), problemSize + 1)
    BY <1>2 DEF NoAnswer
  <2>2. D!Exact([pos |-> root, depth |-> -1, moves |-> {}])
    BY <2>1 DEF D!Exact, Won
  <2>3. DOMAIN dumped = {1} /\ Len(dumped) = 1
    BY <2>1
  <2>4. \A i \in DOMAIN dumped : D!Exact(dumped[i])
    BY <2>1, <2>2, <2>3
  <2>5. D!LinesComplete
    BY <2>1, <2>3 DEF D!LinesComplete
  <2> QED BY <2>4, <2>5
<1>3. CASE Dumping(root, depth, dumped, left, call)
  <2>1. /\ root \in Problem /\ depth \in 0 .. MaxDepth
        /\ dumped \in Seq(File) /\ dumped # <<>> /\ Chained(dumped)
        /\ \A i \in 1 .. Len(dumped) : Answers(root, dumped[i])
        /\ dumped[1] = [pos |-> root, depth |-> depth, moves |-> Best(root, depth)]
        /\ left \subseteq Best(root, depth)
    BY <1>3 DEF Dumping, DepthNow, DepthIs
  <2>2. ASSUME NEW i \in DOMAIN dumped
        PROVE  D!Exact(dumped[i])
    <3>1. Answers(root, dumped[i])
      BY <2>1
    <3>2. dumped[i].depth # -1
      BY <3>1 DEF Answers
    <3> QED BY <3>1, <3>2 DEF D!Exact, Answers, Best
  <2>3. ASSUME left = {}, call = <<>>
        PROVE  /\ Len(dumped) = 1 + Cardinality(dumped[1].moves) * depth
               /\ dumped[Len(dumped)].depth = 0
    <3> DEFINE n == Cardinality(Best(root, depth)) - Cardinality(left)
               best == Cardinality(dumped[1].moves)
    <3>1. LinesAre(n, depth, dumped)
      <4> HIDE DEF n
      <4>1. \A c : call # <<c>>
        BY <2>3
      <4> QED BY <1>3, <4>1 DEF Dumping, n
    <3>2. dumped[1].moves = Best(root, depth)
      BY <2>1
    <3>3. /\ IsFiniteSet(Best(root, depth)) /\ Best(root, depth) # {}
      <4>1. 1 \in 1 .. Len(dumped)
        BY <2>1
      <4> QED BY <2>1, <4>1, <3>2, ProblemIs, BestFinite DEF Answers
    <3>4. n = best /\ best > 0
      <4>1. Cardinality(left) = 0
        BY <2>3, FS_EmptySet
      <4>2. best \in Nat /\ best # 0
        BY <3>2, <3>3, FS_EmptySet, FS_CardinalityType
      <4> QED BY <3>2, <4>1, <4>2
    <3> HIDE DEF n, best
    <3>5. Len(dumped) = 1 + best * depth /\ dumped[Len(dumped)].depth = 0
      BY <3>1, <3>4 DEF LinesAre
    <3> QED BY <3>5 DEF best
  <2>4. D!LinesComplete
    <3>1. \A i \in 2 .. Len(dumped) :
            \E j \in 1 .. i - 1 : /\ dumped[i].pos \in dumped[j].moves
                                  /\ dumped[i].depth = dumped[j].depth - 1
      BY <2>1 DEF Chained
    <3>2. (dumped # <<>> /\ left = {} /\ call = <<>> /\ depth >= 0) =>
            /\ Len(dumped) = 1 + Cardinality(dumped[1].moves) * depth
            /\ dumped[Len(dumped)].depth = 0
      BY <2>3
    <3>3. D!Cardinality(dumped[1].moves) = Cardinality(dumped[1].moves)
      BY DEF D!Cardinality, Cardinality
    <3> QED BY <3>1, <3>2, <3>3 DEF D!LinesComplete
  <2> QED BY <2>2, <2>4
<1> QED BY <1>1, <1>2, <1>3 DEF DepthNow, DepthIs

LEMMA InitIInv == Init => IInv
<1>1. ASSUME Solver = "DepthSolver", D!DepthInit
      PROVE  IInv
  <2>1. /\ root \in Problem /\ problemSize \in Depths /\ depth = 0
        /\ dumped = <<>> /\ left = {} /\ call = <<>>
    BY <1>1 DEF D!DepthInit
  <2>2. Searching(root, problemSize, depth)
    BY <2>1, ProblemIs, SizesAssumption DEF Searching
  <2> QED BY <1>1, <2>1, <2>2 DEF IInv, DepthIs
<1> QED BY <1>1 DEF Init, IInv

LEMMA NextIInv ==
  IInv /\ [Next]_<<Solver, root, problemSize, depthOnly, sizeOnly>> => IInv'
<1> SUFFICES ASSUME IInv, [Next]_<<Solver, root, problemSize, depthOnly, sizeOnly>>
             PROVE  IInv'
  OBVIOUS
<1>1. CASE DepthSolves /\ UNCHANGED Solver
  <2>1. Solver = "DepthSolver" /\ D!DepthNext /\ Solver' = Solver
    BY <1>1 DEF DepthSolves
  <2>2. DepthNow
    BY <2>1 DEF IInv, DepthNow
  <2>3. DepthNow'
    <3>1. CASE D!SolveGame
      BY <2>2, <3>1, SolveGameKeeps
    <3>2. CASE D!Deepen
      BY <2>2, <3>2, DeepenKeeps
    <3>3. CASE D!DumpAnswer
      BY <2>2, <3>3, DumpAnswerKeeps
    <3>4. CASE D!TakeWinMove
      BY <2>2, <3>4, TakeWinMoveKeeps
    <3>5. CASE D!generateWinSubproblem \/ D!generateLossSubproblem
      BY <2>2, <3>5, GenerateKeeps
    <3>6. CASE D!LineEnds
      BY <2>2, <3>6, LineEndsKeeps
    <3> QED BY <2>1, <3>1, <3>2, <3>3, <3>4, <3>5, <3>6 DEF D!DepthNext
  <2> QED BY <2>1, <2>3 DEF IInv, DepthNow
<1>2. CASE SizeSolves /\ UNCHANGED Solver
  BY <1>2 DEF IInv, SizeSolves, depthOnly
<1>3. CASE UNCHANGED <<Solver, root, problemSize, depthOnly, sizeOnly>>
  BY <1>3 DEF IInv, depthOnly
<1> QED BY <1>1, <1>2, <1>3 DEF Next

LEMMA IInvIsExact == IInv => BestPlayDumped
<1>1. CASE Solver = "DepthSolver"
  BY <1>1, DumpedIsExact DEF IInv, DepthNow, BestPlayDumped, D!BestPlayDumped
<1>2. CASE dumped = <<>>
  BY <1>2 DEF BestPlayDumped, D!BestPlayDumped, D!LinesComplete
<1> QED BY <1>1, <1>2 DEF IInv

\* The problem files of solveGame are best play: the first answers with the
\* length of the shortest win and all moves that keep to it, or there is none
\* within the problem size; every other file continues one before it with the
\* next ply of best play, the loser resisting as long as it can; and every
\* winning move gets a line of files down to depth 0.
THEOREM SolveDumpsBestPlay == Spec => []BestPlayDumped
<1>1. Spec => []IInv
  BY InitIInv, NextIInv, PTL DEF Spec
<1> QED BY <1>1, IInvIsExact, PTL

-----------------------------------------------------------------------------
(* The parts of a finite set *)

LEMMA PartIs ==
  ASSUME NEW X, IsFiniteSet(X), NEW K \in SUBSET X
  PROVE  /\ IsFiniteSet(K) /\ Cardinality(K) \in Nat /\ Cardinality(X) \in Nat
         /\ Cardinality(K) <= Cardinality(X)
         /\ K # X => Cardinality(K) < Cardinality(X)
<1>1. /\ IsFiniteSet(K) /\ Cardinality(K) <= Cardinality(X)
      /\ Cardinality(X) = Cardinality(K) => X = K
  BY FS_Subset
<1>2. Cardinality(K) \in Nat /\ Cardinality(X) \in Nat
  BY <1>1, FS_CardinalityType
<1> QED BY <1>1, <1>2

\* Induction over the parts of a finite set.
LEMMA PartsRanked ==
  ASSUME NEW X, IsFiniteSet(X)
  PROVE  /\ Ranked(SUBSET X, [K \in SUBSET X |-> Cardinality(K)],
                   [K \in SUBSET X |-> (SUBSET K) \ {K}])
         /\ \A K \in SUBSET X : \A x \in K : Cardinality(K \ {x}) < Cardinality(K)
<1>1. ASSUME NEW K \in SUBSET X
      PROVE  IsFiniteSet(K) /\ Cardinality(K) \in Nat
  BY PartIs
<1>2. ASSUME NEW K \in SUBSET X, NEW L \in (SUBSET K) \ {K}
      PROVE  L \in SUBSET X /\ Cardinality(L) < Cardinality(K)
  <2>1. IsFiniteSet(K) /\ L \in SUBSET K /\ L # K
    BY <1>1
  <2> QED BY <2>1, PartIs
<1>3. ASSUME NEW K \in SUBSET X, NEW x \in K
      PROVE  Cardinality(K \ {x}) < Cardinality(K)
  <2>1. K \ {x} \in (SUBSET K) \ {K}
    OBVIOUS
  <2> QED BY <2>1, <1>2
<1>4. Ranked(SUBSET X, [K \in SUBSET X |-> Cardinality(K)],
             [K \in SUBSET X |-> (SUBSET K) \ {K}])
  <2>1. ASSUME NEW K \in SUBSET X
        PROVE  /\ Cardinality(K) \in Nat /\ (SUBSET K) \ {K} \subseteq SUBSET X
               /\ \A L \in (SUBSET K) \ {K} : Cardinality(L) < Cardinality(K)
    BY <1>1, <1>2
  <2>2. \A K \in SUBSET X : (SUBSET K) \ {K} \subseteq SUBSET X
    BY <2>1
  <2> QED BY <2>1, <2>2 DEF Ranked
<1> QED BY <1>3, <1>4

LEMMA SetInduction ==
  ASSUME NEW X, IsFiniteSet(X), NEW T,
         \A K \in SUBSET X : (SUBSET K) \ {K} \subseteq T => K \in T
  PROVE  SUBSET X \subseteq T
<1> DEFINE sub == [K \in SUBSET X |-> (SUBSET K) \ {K}]
<1>1. \A K \in SUBSET X : sub[K] \subseteq T => K \in T
  OBVIOUS
<1>2. Ranked(SUBSET X, [K \in SUBSET X |-> Cardinality(K)], sub)
  BY PartsRanked
<1> HIDE DEF sub
<1> QED BY <1>1, <1>2, RankInduction

\* A fold adds one element after another, pick[t] last of those in t.
Picks(X, pick) == \A t \in SUBSET X : t # {} => pick[t] \in t
Grows(X, pick, T) ==
  {} \in T /\ \A t \in SUBSET X : (t # {} /\ t \ {pick[t]} \in T) => t \in T

LEMMA FoldInduction ==
  ASSUME NEW X, IsFiniteSet(X), NEW pick, Picks(X, pick), NEW T, Grows(X, pick, T)
  PROVE  SUBSET X \subseteq T
<1>1. ASSUME NEW t \in SUBSET X, (SUBSET t) \ {t} \subseteq T
      PROVE  t \in T
  <2>1. t # {} => t \ {pick[t]} \in (SUBSET t) \ {t}
    BY DEF Picks
  <2> QED BY <2>1, <1>1 DEF Grows
<1> QED BY <1>1, SetInduction

\* try leads from what V says of a part to what it says of one with pick more.
Folds(X, pick, V, base, try) ==
  /\ \A t \in SUBSET X : t # {} => pick[t] \in t
  /\ base \in V[{}]
  /\ \A t \in SUBSET X : t # {} => \A r \in V[t \ {pick[t]}] : try[t][r] \in V[t]

Folded(it, X, pick, V, base, try) ==
  /\ it = [t \in SUBSET X |-> IF t = {} THEN base ELSE try[t][it[t \ {pick[t]}]]]
  /\ \A t \in SUBSET X : it[t] \in V[t]

\* Such a fold defines a function.
LEMMA FoldDefined ==
  ASSUME NEW X, IsFiniteSet(X), NEW pick, NEW V, NEW base, NEW try,
         Folds(X, pick, V, base, try)
  PROVE  \E it : Folded(it, X, pick, V, base, try)
<1> DEFINE h == [t \in SUBSET X |-> Cardinality(t)]
           sub == [t \in SUBSET X |-> IF t = {} THEN {} ELSE {t \ {pick[t]}}]
           Step(t, g) == IF t = {} THEN base ELSE try[t][g[t \ {pick[t]}]]
           step == [t \in SUBSET X |-> [g \in Args(t, sub, V) |-> Step(t, g)]]
<1>0. /\ \A t \in SUBSET X : t # {} => pick[t] \in t
      /\ base \in V[{}]
      /\ \A t \in SUBSET X : t # {} => \A r \in V[t \ {pick[t]}] : try[t][r] \in V[t]
  BY DEF Folds
<1>1. Ranked(SUBSET X, h, sub)
  <2>1. ASSUME NEW t \in SUBSET X
        PROVE  h[t] \in Nat /\ sub[t] \subseteq SUBSET X /\ \A u \in sub[t] : h[u] < h[t]
    <3>1. Cardinality(t) \in Nat
      BY PartIs
    <3>2. t # {} => Cardinality(t \ {pick[t]}) < Cardinality(t)
      BY <1>0, PartsRanked
    <3> QED BY <3>1, <3>2
  <2> HIDE DEF h, sub
  <2> QED BY <2>1 DEF Ranked
<1>2. ASSUME NEW t \in SUBSET X, NEW g \in Args(t, sub, V)
      PROVE  step[t][g] \in V[t]
  <2>1. t # {} => g[t \ {pick[t]}] \in V[t \ {pick[t]}]
    BY DEF Args
  <2>2. Step(t, g) \in V[t]
    BY <1>0, <2>1
  <2> HIDE DEF sub, Step
  <2> QED BY <2>2
<1>3. Stepwise(SUBSET X, sub, V, step)
  <2> HIDE DEF sub, step
  <2> QED BY <1>2 DEF Stepwise
<1>4. PICK it : /\ it = [t \in SUBSET X |-> step[t][[u \in sub[t] |-> it[u]]]]
                /\ \A t \in SUBSET X : it[t] \in V[t]
  <2> HIDE DEF sub, step, h
  <2> QED BY <1>1, <1>3, RankRecursion
<1>5. ASSUME NEW t \in SUBSET X
      PROVE  it[t] = Step(t, it)
  <2> DEFINE g == [u \in sub[t] |-> it[u]]
  <2>1. g \in Args(t, sub, V)
    <3> HIDE DEF sub, h, step
    <3>1. sub[t] \subseteq SUBSET X
      BY <1>1 DEF Ranked
    <3>2. \A u \in sub[t] : it[u] \in V[u]
      BY <3>1, <1>4
    <3> QED BY <3>2, ArgsAre
  <2>2. it[t] = Step(t, g)
    <3>1. it[t] = step[t][g]
      <4> HIDE DEF sub, step
      <4> QED BY <1>4
    <3> HIDE DEF g, sub, Step
    <3> QED BY <3>1, <2>1
  <2>3. t # {} => g[t \ {pick[t]}] = it[t \ {pick[t]}]
    OBVIOUS
  <2> HIDE DEF g, sub, h, step
  <2>4. CASE t = {}
    BY <2>2, <2>4
  <2>5. CASE t # {}
    BY <2>2, <2>3, <2>5
  <2> QED BY <2>4, <2>5
<1>6. it = [t \in SUBSET X |-> Step(t, it)]
  <2>1. it = [t \in SUBSET X |-> it[t]]
    BY <1>4
  <2> QED BY <2>1, <1>5
<1>7. Folded(it, X, pick, V, base, try)
  BY <1>4, <1>6, Zenon DEF Folded
<1> QED BY <1>7

-----------------------------------------------------------------------------
(* Sums over finite sets *)

Some(K) == CHOOSE x \in K : TRUE

\* The sum as MapThenSumSet folds it: over the parts of K.
Iter(f, K) ==
  CHOOSE iter : iter = [s \in SUBSET K |->
                          IF s = {} THEN 0
                          ELSE f[CHOOSE x \in s : TRUE]
                               + iter[s \ {CHOOSE x \in s : TRUE}]]

Sum(f, K) == Iter(f, K)[K]

\* Each step of the fold adds the value of one element.
LEMMA IterIs ==
  ASSUME NEW K, IsFiniteSet(K), NEW f, \A c \in K : f[c] \in Nat,
         NEW s \in SUBSET K
  PROVE  /\ Iter(f, K)[s] \in Nat
         /\ Iter(f, K)[s] = IF s = {} THEN 0
                            ELSE f[Some(s)] + Iter(f, K)[s \ {Some(s)}]
<1> DEFINE pick == [t \in SUBSET K |-> Some(t)]
           V == [t \in SUBSET K |-> Nat]
           add == [t \in SUBSET K |-> [r \in Nat |-> f[Some(t)] + r]]
           Step(t, g) == IF t = {} THEN 0 ELSE f[Some(t)] + g[t \ {Some(t)}]
<1>1. \A t \in SUBSET K : t # {} => Some(t) \in t /\ f[Some(t)] \in Nat
  BY DEF Some
<1>2. Folds(K, pick, V, 0, add)
  <2>1. ASSUME NEW t \in SUBSET K, t # {}
        PROVE  pick[t] \in t /\ \A r \in V[t \ {pick[t]}] : add[t][r] \in V[t]
    <3>1. pick[t] = Some(t) /\ t \ {Some(t)} \in SUBSET K
      OBVIOUS
    <3>2. \A r \in Nat : add[t][r] \in Nat
      BY <1>1, <2>1
    <3> QED BY <3>1, <3>2, <1>1, <2>1
  <2>2. 0 \in V[{}]
    OBVIOUS
  <2> HIDE DEF pick, V, add
  <2> QED BY <2>1, <2>2 DEF Folds
<1>3. PICK it : Folded(it, K, pick, V, 0, add)
  <2> HIDE DEF pick, V, add
  <2> QED BY <1>2, FoldDefined
<1>4. \A v \in SUBSET K : it[v] \in Nat
  BY <1>3 DEF Folded
<1>5. it = [t \in SUBSET K |-> Step(t, it)]
  <2>1. ASSUME NEW t \in SUBSET K
        PROVE  add[t][it[t \ {pick[t]}]] = f[Some(t)] + it[t \ {Some(t)}]
    <3>1. \A r \in Nat : add[t][r] = f[Some(t)] + r
      OBVIOUS
    <3> HIDE DEF add
    <3>2. pick[t] = Some(t)
      BY Zenon
    <3> HIDE DEF pick
    <3> DEFINE u == t \ {Some(t)}
    <3>3. u \in SUBSET K
      BY Zenon
    <3> HIDE DEF u, V, Step
    <3>4. it[u] \in Nat
      BY <3>3, <1>4
    <3> QED BY <3>1, <3>2, <3>4 DEF u
  <2> HIDE DEF pick, V, add
  <2>2. it = [t \in SUBSET K |-> IF t = {} THEN 0 ELSE add[t][it[t \ {pick[t]}]]]
    BY <1>3 DEF Folded
  <2>3. ASSUME NEW t \in SUBSET K
        PROVE  it[t] = Step(t, it)
    <3>1. it[t] = IF t = {} THEN 0 ELSE add[t][it[t \ {pick[t]}]]
      BY <2>2
    <3> QED BY <2>1, <3>1
  <2>4. it = [t \in SUBSET K |-> it[t]]
    BY <2>2
  <2> HIDE DEF Step
  <2> QED BY <2>3, <2>4
<1>6. Iter(f, K) = [t \in SUBSET K |-> Step(t, Iter(f, K))]
  BY <1>5, Zenon DEF Iter, Some
<1>7. \A t \in SUBSET K : Iter(f, K)[t] = Step(t, Iter(f, K))
  BY <1>6, Zenon
<1> DEFINE T == {t \in SUBSET K : Iter(f, K)[t] \in Nat}
<1>8. {} \in T
  <2>1. {} \in SUBSET K /\ Iter(f, K)[{}] = Step({}, Iter(f, K))
    BY <1>7
  <2>2. Iter(f, K)[{}] = 0
    BY <2>1
  <2> QED BY <2>1, <2>2
<1>9. ASSUME NEW t \in SUBSET K, t # {}, t \ {pick[t]} \in T
      PROVE  t \in T
  <2>1. Iter(f, K)[t] = f[Some(t)] + Iter(f, K)[t \ {Some(t)}]
    BY <1>7, <1>9
  <2>2. Iter(f, K)[t \ {Some(t)}] \in Nat
    BY <1>9
  <2> QED BY <1>1, <1>9, <2>1, <2>2
<1>10. SUBSET K \subseteq T
  <2>1. \A t \in SUBSET K : t # {} => pick[t] \in t
    BY <1>1
  <2>2. \A t \in SUBSET K : (t # {} /\ t \ {pick[t]} \in T) => t \in T
    BY <1>9
  <2> HIDE DEF T, pick
  <2>3. Picks(K, pick) /\ Grows(K, pick, T)
    BY <1>8, <2>1, <2>2 DEF Picks, Grows
  <2> QED BY <2>3, FoldInduction
<1> QED BY <1>7, <1>10

\* A part has one sum, whichever set it is seen as a part of.
LEMMA IterAgrees ==
  ASSUME NEW K, IsFiniteSet(K), NEW f, \A c \in K : f[c] \in Nat, NEW L \in SUBSET K
  PROVE  Iter(f, K)[L] = Sum(f, L)
<1> DEFINE T == {s \in SUBSET L : Iter(f, K)[s] = Iter(f, L)[s]}
<1>1. IsFiniteSet(L) /\ \A c \in L : f[c] \in Nat
  BY PartIs
<1>2. ASSUME NEW s \in SUBSET L, (SUBSET s) \ {s} \subseteq T
      PROVE  s \in T
  <2>1. /\ Iter(f, K)[s] = IF s = {} THEN 0 ELSE f[Some(s)] + Iter(f, K)[s \ {Some(s)}]
        /\ Iter(f, L)[s] = IF s = {} THEN 0 ELSE f[Some(s)] + Iter(f, L)[s \ {Some(s)}]
    <3>1. s \in SUBSET K
      OBVIOUS
    <3> QED BY <1>1, <3>1, IterIs
  <2>2. s # {} => s \ {Some(s)} \in (SUBSET s) \ {s}
    BY DEF Some
  <2> QED BY <2>1, <2>2, <1>2
<1>3. SUBSET L \subseteq T
  <2> HIDE DEF T
  <2> QED BY <1>1, <1>2, SetInduction
<1>4. L \in T
  BY <1>3
<1> QED BY <1>4 DEF Sum

\* The fold of a set itself, by the element it adds last.
LEMMA SumIs ==
  ASSUME NEW K, IsFiniteSet(K), NEW f, \A c \in K : f[c] \in Nat
  PROVE  /\ Sum(f, K) \in Nat
         /\ K = {} => Sum(f, K) = 0
         /\ K # {} => /\ Some(K) \in K
                      /\ Sum(f, K) = f[Some(K)] + Sum(f, K \ {Some(K)})
<1>1. K \in SUBSET K /\ K \ {Some(K)} \in SUBSET K
  OBVIOUS
<1>2. /\ Iter(f, K)[K] \in Nat
      /\ Iter(f, K)[K] = IF K = {} THEN 0 ELSE f[Some(K)] + Iter(f, K)[K \ {Some(K)}]
  BY <1>1, IterIs
<1>3. Iter(f, K)[K] = Sum(f, K) /\ Iter(f, K)[K \ {Some(K)}] = Sum(f, K \ {Some(K)})
  BY <1>1, IterAgrees
<1>4. K # {} => Some(K) \in K
  BY DEF Some
<1> QED BY <1>2, <1>3, <1>4

\* The order in which the values are added does not matter.
LEMMA SumAdd ==
  ASSUME NEW X, IsFiniteSet(X), NEW f, \A c \in X : f[c] \in Nat, NEW y \in X
  PROVE  Sum(f, X) = f[y] + Sum(f, X \ {y})
<1> DEFINE T == {K \in SUBSET X : \A x \in K : Sum(f, K) = f[x] + Sum(f, K \ {x})}
<1>1. ASSUME NEW K \in SUBSET X
      PROVE  /\ IsFiniteSet(K) /\ \A c \in K : f[c] \in Nat
             /\ Sum(f, K) \in Nat
             /\ K # {} => /\ Some(K) \in K
                          /\ Sum(f, K) = f[Some(K)] + Sum(f, K \ {Some(K)})
  <2>1. IsFiniteSet(K) /\ \A c \in K : f[c] \in Nat
    BY PartIs
  <2> QED BY <2>1, SumIs
<1>2. ASSUME NEW K \in SUBSET X, (SUBSET K) \ {K} \subseteq T, NEW x \in K
      PROVE  Sum(f, K) = f[x] + Sum(f, K \ {x})
  <2> DEFINE e == Some(K)
  <2>1. e \in K /\ Sum(f, K) = f[e] + Sum(f, K \ {e})
    BY <1>1
  <2>2. CASE x # e
    <3>1. K \ {e} \in T /\ K \ {x} \in T /\ x \in K \ {e} /\ e \in K \ {x}
      BY <2>1, <2>2, <1>2
    <3>2. /\ Sum(f, K \ {e}) = f[x] + Sum(f, (K \ {e}) \ {x})
          /\ Sum(f, K \ {x}) = f[e] + Sum(f, (K \ {x}) \ {e})
      BY <3>1
    <3>3. (K \ {e}) \ {x} = (K \ {x}) \ {e} /\ (K \ {x}) \ {e} \in SUBSET X
      OBVIOUS
    <3>4. f[e] \in Nat /\ f[x] \in Nat /\ Sum(f, (K \ {x}) \ {e}) \in Nat
      BY <1>1, <2>1, <3>3
    <3> DEFINE a == Sum(f, K)
               b == Sum(f, K \ {e})
               d == Sum(f, K \ {x})
               r == Sum(f, (K \ {x}) \ {e})
    <3>5. a = f[e] + b /\ b = f[x] + r /\ d = f[e] + r /\ r \in Nat
      BY <2>1, <3>2, <3>3, <3>4
    <3> HIDE DEF T, e, a, b, d, r
    <3>6. a = f[x] + d
      BY <3>4, <3>5
    <3> QED BY <3>6 DEF a, d
  <2> QED BY <2>1, <2>2
<1>3. SUBSET X \subseteq T
  <2>1. \A K \in SUBSET X : (SUBSET K) \ {K} \subseteq T => K \in T
    BY <1>2
  <2> HIDE DEF T
  <2> QED BY <2>1, SetInduction
<1>4. X \in T
  BY <1>3
<1> QED BY <1>4

\* Adding one element at a time.
LEMMA SumInduction ==
  ASSUME NEW X, IsFiniteSet(X), NEW T, {} \in T,
         \A K \in SUBSET X : \A x \in K : K \ {x} \in T => K \in T
  PROVE  X \in T
<1>1. ASSUME NEW K \in SUBSET X, (SUBSET K) \ {K} \subseteq T
      PROVE  K \in T
  <2>1. CASE K # {}
    <3>1. PICK x \in K : TRUE
      BY <2>1
    <3>2. K \ {x} \in (SUBSET K) \ {K}
      OBVIOUS
    <3> QED BY <3>2, <1>1
  <2> QED BY <2>1
<1>2. SUBSET X \subseteq T
  BY <1>1, SetInduction
<1> QED BY <1>2

LEMMA SumSame ==
  ASSUME NEW X, IsFiniteSet(X), NEW f, NEW g, \A c \in X : f[c] \in Nat /\ g[c] = f[c]
  PROVE  Sum(f, X) = Sum(g, X)
<1> DEFINE T == {K \in SUBSET X : Sum(f, K) = Sum(g, K)}
<1>1. ASSUME NEW K \in SUBSET X
      PROVE  /\ IsFiniteSet(K) /\ \A c \in K : f[c] \in Nat /\ g[c] \in Nat
  BY PartIs
<1>2. {} \in T
  <2>1. Sum(f, {}) = 0 /\ Sum(g, {}) = 0
    BY FS_EmptySet, SumIs
  <2> QED BY <2>1
<1>3. ASSUME NEW K \in SUBSET X, NEW x \in K, K \ {x} \in T
      PROVE  K \in T
  <2>1. Sum(f, K) = f[x] + Sum(f, K \ {x}) /\ Sum(g, K) = g[x] + Sum(g, K \ {x})
    BY <1>1, SumAdd
  <2> QED BY <2>1, <1>3
<1>4. X \in T
  <2> HIDE DEF T
  <2> QED BY <1>2, <1>3, SumInduction
<1> QED BY <1>4

LEMMA SumOfPart ==
  ASSUME NEW X, IsFiniteSet(X), NEW f, \A c \in X : f[c] \in Nat, NEW L \in SUBSET X
  PROVE  Sum(f, L) <= Sum(f, X)
<1> DEFINE T == {K \in SUBSET X : Sum(f, K \cap L) <= Sum(f, K)}
<1>1. ASSUME NEW K \in SUBSET X
      PROVE  IsFiniteSet(K) /\ (\A c \in K : f[c] \in Nat) /\ Sum(f, K) \in Nat
  BY PartIs, SumIs
<1>2. {} \in T
  <2>1. {} \cap L = {} /\ Sum(f, {}) \in Nat
    BY <1>1
  <2>2. Sum(f, {}) <= Sum(f, {})
    BY <2>1
  <2> QED BY <2>1, <2>2
<1>3. ASSUME NEW K \in SUBSET X, NEW x \in K, K \ {x} \in T
      PROVE  K \in T
  <2>1. Sum(f, K) = f[x] + Sum(f, K \ {x})
    BY <1>1, SumAdd
  <2>2. Sum(f, (K \ {x}) \cap L) <= Sum(f, K \ {x})
    BY <1>3
  <2>3. f[x] \in Nat /\ Sum(f, K \ {x}) \in Nat /\ Sum(f, (K \ {x}) \cap L) \in Nat
    <3>1. K \ {x} \in SUBSET X /\ (K \ {x}) \cap L \in SUBSET X
      OBVIOUS
    <3> QED BY <1>1, <3>1
  <2>4. Sum(f, K \cap L) \in {Sum(f, (K \ {x}) \cap L), f[x] + Sum(f, (K \ {x}) \cap L)}
    <3>1. CASE x \in L
      <4>1. K \cap L \in SUBSET X /\ x \in K \cap L /\ (K \cap L) \ {x} = (K \ {x}) \cap L
        BY <3>1
      <4> QED BY <4>1, <1>1, SumAdd
    <3>2. CASE x \notin L
      <4>1. K \cap L = (K \ {x}) \cap L
        BY <3>2
      <4> QED BY <4>1
    <3> QED BY <3>1, <3>2
  <2> DEFINE a == Sum(f, K)
             b == Sum(f, K \ {x})
             d == Sum(f, K \cap L)
             r == Sum(f, (K \ {x}) \cap L)
  <2>5. /\ a = f[x] + b /\ r <= b /\ d \in {r, f[x] + r}
        /\ f[x] \in Nat /\ b \in Nat /\ r \in Nat
    BY <2>1, <2>2, <2>3, <2>4
  <2> HIDE DEF a, b, d, r
  <2>6. d <= a
    BY <2>5
  <2> QED BY <2>6 DEF a, d
<1>4. X \in T
  <2> HIDE DEF T
  <2> QED BY <1>2, <1>3, SumInduction
<1>5. X \cap L = L
  OBVIOUS
<1> QED BY <1>4, <1>5

\* n values that are at most k, or at least k.
LEMMA Times ==
  ASSUME NEW n \in Int, NEW k \in Int
  PROVE  n * k \in Int /\ n * k = k + (n - 1) * k
OBVIOUS

LEMMA SumAtMost ==
  ASSUME NEW X, IsFiniteSet(X), NEW f, NEW k \in Nat, \A c \in X : f[c] \in 0 .. k
  PROVE  Sum(f, X) <= Cardinality(X) * k
<1> DEFINE T == {K \in SUBSET X : Sum(f, K) <= Cardinality(K) * k}
<1>1. ASSUME NEW K \in SUBSET X
      PROVE  /\ IsFiniteSet(K) /\ (\A c \in K : f[c] \in Nat) /\ Sum(f, K) \in Nat
             /\ Cardinality(K) \in Nat
  <2>1. IsFiniteSet(K) /\ Cardinality(K) \in Nat
    BY PartIs
  <2>2. \A c \in K : f[c] \in Nat
    OBVIOUS
  <2> QED BY <2>1, <2>2, SumIs
<1>2. {} \in T
  <2>1. Sum(f, {}) = 0 /\ Cardinality({}) = 0
    BY FS_EmptySet, SumIs
  <2>2. 0 <= 0 * k
    OBVIOUS
  <2> QED BY <2>1, <2>2
<1>3. ASSUME NEW K \in SUBSET X, NEW x \in K, K \ {x} \in T
      PROVE  K \in T
  <2>1. Sum(f, K) = f[x] + Sum(f, K \ {x})
    BY <1>1, SumAdd
  <2>2. Cardinality(K \ {x}) = Cardinality(K) - 1
    BY <1>1, FS_RemoveElement
  <2>3. Sum(f, K \ {x}) <= Cardinality(K \ {x}) * k
    BY <1>3
  <2>4. /\ Cardinality(K) \in Nat /\ Sum(f, K \ {x}) \in Nat
        /\ f[x] \in Nat /\ f[x] <= k
    BY <1>1
  <2>5. /\ Cardinality(K) * k = k + (Cardinality(K) - 1) * k
        /\ Cardinality(K) * k \in Int /\ (Cardinality(K) - 1) * k \in Int
    BY <2>4, Times
  <2>6. Sum(f, K) <= Cardinality(K) * k
    <3> HIDE DEF T
    <3> QED BY <2>1, <2>2, <2>3, <2>4, <2>5
  <2> QED BY <2>6
<1>4. X \in T
  <2> HIDE DEF T
  <2> QED BY <1>2, <1>3, SumInduction
<1> QED BY <1>4

LEMMA SumAtLeast ==
  ASSUME NEW X, IsFiniteSet(X), NEW f, NEW k \in Nat,
         \A c \in X : f[c] \in Nat /\ f[c] >= k
  PROVE  Sum(f, X) >= Cardinality(X) * k
<1> DEFINE T == {K \in SUBSET X : Sum(f, K) >= Cardinality(K) * k}
<1>1. ASSUME NEW K \in SUBSET X
      PROVE  /\ IsFiniteSet(K) /\ (\A c \in K : f[c] \in Nat) /\ Sum(f, K) \in Nat
             /\ Cardinality(K) \in Nat
  <2>1. IsFiniteSet(K) /\ Cardinality(K) \in Nat
    BY PartIs
  <2>2. \A c \in K : f[c] \in Nat
    OBVIOUS
  <2> QED BY <2>1, <2>2, SumIs
<1>2. {} \in T
  <2>1. Sum(f, {}) = 0 /\ Cardinality({}) = 0
    BY FS_EmptySet, SumIs
  <2>2. 0 >= 0 * k
    OBVIOUS
  <2> QED BY <2>1, <2>2
<1>3. ASSUME NEW K \in SUBSET X, NEW x \in K, K \ {x} \in T
      PROVE  K \in T
  <2>1. Sum(f, K) = f[x] + Sum(f, K \ {x})
    BY <1>1, SumAdd
  <2>2. Cardinality(K \ {x}) = Cardinality(K) - 1
    BY <1>1, FS_RemoveElement
  <2>3. Sum(f, K \ {x}) >= Cardinality(K \ {x}) * k
    BY <1>3
  <2>4. /\ Cardinality(K) \in Nat /\ Sum(f, K \ {x}) \in Nat
        /\ f[x] \in Nat /\ f[x] >= k
    BY <1>1
  <2>5. /\ Cardinality(K) * k = k + (Cardinality(K) - 1) * k
        /\ Cardinality(K) * k \in Int /\ (Cardinality(K) - 1) * k \in Int
    BY <2>4, Times
  <2>6. Sum(f, K) >= Cardinality(K) * k
    <3> HIDE DEF T
    <3> QED BY <2>1, <2>2, <2>3, <2>4, <2>5
  <2> QED BY <2>6
<1>4. X \in T
  <2> HIDE DEF T
  <2> QED BY <1>2, <1>3, SumInduction
<1> QED BY <1>4

-----------------------------------------------------------------------------
(* The smallest proofs *)

\* The definitions the two solvers share are written once for each of them.
LEMMA Shared ==
  /\ S!Victor = D!Victor
  /\ \A p : S!Player(p) = D!Player(p) /\ S!Kept(p) = D!Kept(p)
  /\ \A X : S!Min(X) = D!Min(X) /\ S!Max(X) = D!Max(X)
<1>1. \A p : S!Player(p) = D!Player(p)
  BY DEF S!Player, D!Player, S!AgainstColor, D!AgainstColor
<1>2. S!Victor = D!Victor
  BY Zenon DEF S!Victor, D!Victor, S!Player, D!Player, S!AgainstColor, D!AgainstColor
<1>3. \A X : S!Min(X) = D!Min(X) /\ S!Max(X) = D!Max(X)
  BY DEF S!Min, D!Min, S!Max, D!Max
<1> QED BY <1>1, <1>2, <1>3 DEF S!Kept, D!Kept

\* What the smallest proofs of the moves make of a position's.
ProofSizeStep(p, g) ==
  IF p \in Terminal THEN 1
  ELSE IF D!Victor[p] = D!Player(p) THEN 1 + D!Min(Values(g, D!Kept(p)))
  ELSE 1 + Sum(g, D!Kept(p))

\* A move kept by nobody's victory counts for nothing.
LEMMA ProofSizeStepIs ==
  ASSUME NEW p \in Position, NEW g, \A c \in Sub(p) : g[c] \in Nat \ {0}
  PROVE  ProofSizeStep(p, g) \in Nat \ {0}
<1>1. CASE p \in Terminal
  BY <1>1 DEF ProofSizeStep
<1>2. CASE p \notin Terminal /\ D!Victor[p] = D!Player(p)
  <2>1. D!Victor[p] # "none"
    BY <1>2, ColorIs DEF Color
  <2>2. /\ IsFiniteSet(D!Kept(p)) /\ D!Kept(p) # {}
        /\ \A c \in D!Kept(p) : g[c] \in Nat
    BY <1>2, <2>1, KeptIs DEF Sub
  <2>3. D!Min(Values(g, D!Kept(p))) \in Nat
    BY <2>2, MinOf
  <2> QED BY <1>2, <2>3 DEF ProofSizeStep
<1>3. CASE p \notin Terminal /\ D!Victor[p] # D!Player(p)
  <2>1. IsFiniteSet(D!Kept(p)) /\ \A c \in D!Kept(p) : g[c] \in Nat
    <3>1. D!Kept(p) \in SUBSET Children[p] /\ IsFiniteSet(Children[p])
      BY GameAssumption DEF D!Kept
    <3>2. IsFiniteSet(D!Kept(p))
      BY <3>1, FS_Subset
    <3> QED BY <3>1, <3>2, <1>3 DEF Sub
  <2>2. Sum(g, D!Kept(p)) \in Nat
    BY <2>1, SumIs
  <2> QED BY <1>3, <2>2 DEF ProofSizeStep
<1> QED BY <1>1, <1>2, <1>3

LEMMA KeptFinite ==
  ASSUME NEW p \in Position
  PROVE  IsFiniteSet(D!Kept(p)) /\ (p \notin Terminal => D!Kept(p) \subseteq Sub(p))
<1>1. D!Kept(p) \in SUBSET Children[p] /\ IsFiniteSet(Children[p])
  BY GameAssumption DEF D!Kept
<1>2. IsFiniteSet(D!Kept(p))
  BY <1>1, FS_Subset
<1> QED BY <1>1, <1>2 DEF Sub

\* ProofSize, a choice in BestPlay, satisfies the equation it is chosen by.
LEMMA ProofSizeDefined ==
  /\ S!ProofSize \in [Position -> Nat \ {0}]
  /\ \A p \in Position : S!ProofSize[p] = ProofSizeStep(p, S!ProofSize)
<1> DEFINE N == Nat \ {0}
           step == [p \in Position |-> [g \in [Sub(p) -> N] |-> ProofSizeStep(p, g)]]
<1>1. PICK f \in [Position -> N] : Follows(f, step)
  <2>1. \A p \in Position : \A g \in [Sub(p) -> N] : step[p][g] \in N
    BY ProofSizeStepIs
  <2> HIDE DEF step, N
  <2> QED BY <2>1, Recursion DEF StepsIn
<1>2. ASSUME NEW p \in Position
      PROVE  f[p] = ProofSizeStep(p, f)
  <2> DEFINE g == [c \in Sub(p) |-> f[c]]
  <2>1. g \in [Sub(p) -> N]
    BY SubIs
  <2>2. f[p] = ProofSizeStep(p, g)
    BY <1>1, <2>1 DEF Follows
  <2>3. CASE p \in Terminal
    BY <2>2, <2>3 DEF ProofSizeStep
  <2>4. CASE p \notin Terminal
    <3>1. \A c \in D!Kept(p) : g[c] = f[c] /\ f[c] \in Nat /\ g[c] \in Nat
      <4>1. \A c \in D!Kept(p) : c \in Sub(p) /\ c \in Position
        BY <2>4, KeptFinite, SubIs
      <4> QED BY <4>1
    <3>2. Values(g, D!Kept(p)) = Values(f, D!Kept(p))
      BY <3>1 DEF Values
    <3>3. Sum(g, D!Kept(p)) = Sum(f, D!Kept(p))
      <4> HIDE DEF g
      <4> QED BY <3>1, KeptFinite, SumSame
    <3> HIDE DEF g
    <3> QED BY <2>2, <3>2, <3>3 DEF ProofSizeStep
  <2> QED BY <2>3, <2>4
<1>3. f = [p \in Position |-> ProofSizeStep(p, f)]
  BY <1>2
<1>4. S!ProofSize = [p \in Position |-> ProofSizeStep(p, S!ProofSize)]
  <2> DEFINE Body(g) == [p \in Position |->
                IF p \in Terminal THEN 1
                ELSE IF S!Victor[p] = S!Player(p) THEN 1 + S!Min({g[c] : c \in S!Kept(p)})
                ELSE 1 + S!MapThenSumSet(LAMBDA c : g[c], S!Kept(p))]
  <2>1. S!ProofSize = CHOOSE g : g = Body(g)
    BY Zenon DEF S!ProofSize
  <2>2. \A g, K : S!MapThenSumSet(LAMBDA c : g[c], K) = Sum(g, K)
    BY Zenon DEF S!MapThenSumSet, S!MapThenFoldSet, Sum, Iter
  <2>3. \A g : Body(g) = [p \in Position |-> ProofSizeStep(p, g)]
    <3> TAKE g
    <3>1. ASSUME NEW p \in Position
          PROVE  Body(g)[p] = ProofSizeStep(p, g)
      <4>1. S!MapThenSumSet(LAMBDA c : g[c], S!Kept(p)) = Sum(g, S!Kept(p))
        BY <2>2
      <4> QED BY <4>1, Shared DEF ProofSizeStep, Values
    <3> QED BY <3>1
  <2> HIDE DEF Body
  <2>4. f = Body(f)
    BY <1>3, <2>3
  <2>5. S!ProofSize = Body(S!ProofSize)
    BY <2>1, <2>4
  <2> QED BY <2>5, <2>3
<1> DEFINE T == {p \in Position : S!ProofSize[p] \in Nat \ {0}}
<1>5. Position \subseteq T
  <2>1. ASSUME NEW p \in Position, Sub(p) \subseteq T
        PROVE  p \in T
    <3>1. ProofSizeStep(p, S!ProofSize) \in Nat \ {0}
      BY <2>1, ProofSizeStepIs
    <3> QED BY <1>4, <3>1
  <2> HIDE DEF T
  <2> QED BY <2>1, TreeInduction
<1> QED BY <1>4, <1>5

\* The smallest proof of a win has the best move's below it, that of a loss
\* those of all moves.
LEMMA ProofSizeIs ==
  ASSUME NEW p \in Position
  PROVE  /\ S!ProofSize[p] \in Nat /\ S!ProofSize[p] > 0
         /\ p \in Terminal => S!ProofSize[p] = 1
         /\ (p \notin Terminal /\ D!Victor[p] = D!Player(p)) =>
              /\ \E c \in Children[p] : /\ D!Victor[c] = D!Player(p)
                                        /\ S!ProofSize[p] = 1 + S!ProofSize[c]
              /\ \A c \in Children[p] : D!Victor[c] = D!Player(p)
                                          => S!ProofSize[p] <= 1 + S!ProofSize[c]
         /\ (p \notin Terminal /\ D!Victor[p] = Mover[p]) =>
              S!ProofSize[p] = 1 + Sum(S!ProofSize, Children[p])
<1>1. /\ S!ProofSize[p] \in Nat /\ S!ProofSize[p] > 0
      /\ S!ProofSize[p] = ProofSizeStep(p, S!ProofSize)
  <2>1. S!ProofSize[p] \in Nat \ {0} /\ S!ProofSize[p] = ProofSizeStep(p, S!ProofSize)
    BY ProofSizeDefined
  <2> QED BY <2>1
<1>2. p \in Terminal => S!ProofSize[p] = 1
  BY <1>1 DEF ProofSizeStep
<1>3. Mover[p] # D!Player(p) /\ D!Player(p) # "none" /\ Mover[p] # "none"
  BY ColorIs DEF Color
<1>4. ASSUME p \notin Terminal, D!Victor[p] = D!Player(p)
      PROVE  /\ \E c \in Children[p] : /\ D!Victor[c] = D!Player(p)
                                       /\ S!ProofSize[p] = 1 + S!ProofSize[c]
             /\ \A c \in Children[p] : D!Victor[c] = D!Player(p)
                                         => S!ProofSize[p] <= 1 + S!ProofSize[c]
  <2> DEFINE min == D!Min(Values(S!ProofSize, D!Kept(p)))
  <2>1. /\ IsFiniteSet(D!Kept(p)) /\ D!Kept(p) # {} /\ D!Kept(p) \subseteq Children[p]
    BY <1>3, <1>4, KeptIs
  <2>2. \A c \in D!Kept(p) : S!ProofSize[c] \in Nat
    BY <2>1, ColorIs, ProofSizeDefined
  <2>3. min \in Nat /\ (\E c \in D!Kept(p) : S!ProofSize[c] = min)
        /\ \A c \in D!Kept(p) : min <= S!ProofSize[c]
    BY <2>1, <2>2, MinOf
  <2>4. S!ProofSize[p] = 1 + min
    BY <1>1, <1>4 DEF ProofSizeStep
  <2>5. \A c : c \in D!Kept(p) <=> c \in Children[p] /\ D!Victor[c] = D!Player(p)
    BY <1>4 DEF D!Kept
  <2> HIDE DEF min
  <2> QED BY <2>2, <2>3, <2>4, <2>5
<1>5. ASSUME p \notin Terminal, D!Victor[p] = Mover[p]
      PROVE  S!ProofSize[p] = 1 + Sum(S!ProofSize, Children[p])
  <2>1. D!Kept(p) = Children[p]
    BY <1>3, <1>5, KeptIs
  <2> QED BY <1>1, <1>3, <1>5, <2>1 DEF ProofSizeStep
<1> QED BY <1>1, <1>2, <1>4, <1>5

-----------------------------------------------------------------------------
(* What a search must return *)

Info == [outcome : {-1, 0, 1}, size : Nat]

\* The player to move at p, or the other one, has a proof within s.
ProvedToMove(p, s) == D!Victor[p] = D!Player(p) /\ S!ProofSize[p] <= s
ProvedMoved(p, s) == D!Victor[p] = Mover[p] /\ S!ProofSize[p] <= s

\* What a search with limit s owes: its sign for a proof within the limit,
\* then the smallest size, and the other sign only when it is true.
RightWin(p, s, r) ==
  /\ r \in Info
  /\ r.outcome = 1 <=> ProvedToMove(p, s)
  /\ r.outcome = 1 => r.size = S!ProofSize[p]
  /\ r.outcome = -1 => D!Victor[p] = Mover[p]

RightLoss(p, s, r) ==
  /\ r \in Info
  /\ r.outcome = -1 <=> ProvedMoved(p, s)
  /\ r.outcome = -1 => r.size = S!ProofSize[p]
  /\ r.outcome = 1 => D!Victor[p] = D!Player(p)

MaxLimit == D!Max(Limits \cup {0})

LEMMA MaxLimitIs == MaxLimit \in Nat /\ \A s \in Limits : s \in 0 .. MaxLimit
<1>1. /\ IsFiniteSet(Limits \cup {0}) /\ Limits \cup {0} \subseteq Nat
      /\ Limits \cup {0} # {}
  BY SizesAssumption, FS_AddElement
<1> QED BY <1>1, MaxIs DEF MaxLimit

\* All searches of one position, by their limits.
Found(p) ==
  {r \in [win : [0 .. MaxLimit -> Info], loss : [0 .. MaxLimit -> Info]] :
     \A s \in 0 .. MaxLimit : RightWin(p, s, r.win[s]) /\ RightLoss(p, s, r.loss[s])}

\* The searches of the moves of p, from which a search of p is made.
Below(p, below) == \A c \in Children[p] : below[c] \in Found(c)

\* A child's result, as the search of its parent reads it: with the sign turned.
LEMMA LossRead ==
  ASSUME NEW p \in Position, NEW c \in Children[p], NEW below, below[c] \in Found(c),
         NEW s \in 0 .. MaxLimit, NEW b, b = S!Opposite(below[c].loss[s])
  PROVE  /\ b \in Info
         /\ b.outcome = 1 <=> D!Victor[c] = D!Player(p) /\ S!ProofSize[c] <= s
         /\ b.outcome = 1 => b.size = S!ProofSize[c]
         /\ b.outcome = -1 => D!Victor[c] = Mover[p]
<1> DEFINE r == below[c].loss[s]
<1>1. RightLoss(c, s, r)
  BY DEF Found
<1> HIDE DEF r
<1>2. r \in Info
  BY <1>1 DEF RightLoss
<1>3. b \in Info /\ b.outcome = -r.outcome /\ b.size = r.size /\ r.outcome \in {-1, 0, 1}
  BY <1>2 DEF S!Opposite, Info, r
<1>4. D!Player(p) = Mover[c] /\ Mover[p] = D!Player(c)
  BY ColorIs
<1>5. b.outcome = 1 <=> r.outcome = -1
  BY <1>3
<1>6. b.outcome = -1 <=> r.outcome = 1
  BY <1>3
<1> QED BY <1>1, <1>3, <1>4, <1>5, <1>6 DEF RightLoss, ProvedMoved

LEMMA WinRead ==
  ASSUME NEW p \in Position, NEW c \in Children[p], NEW below, below[c] \in Found(c),
         NEW s \in 0 .. MaxLimit, NEW b, b = S!Opposite(below[c].win[s])
  PROVE  /\ b \in Info
         /\ b.outcome = -1 <=> D!Victor[c] = Mover[p] /\ S!ProofSize[c] <= s
         /\ b.outcome = -1 => b.size = S!ProofSize[c]
         /\ b.outcome = 1 => D!Victor[c] = D!Player(p)
<1> DEFINE r == below[c].win[s]
<1>1. RightWin(c, s, r)
  BY DEF Found
<1> HIDE DEF r
<1>2. r \in Info
  BY <1>1 DEF RightWin
<1>3. b \in Info /\ b.outcome = -r.outcome /\ b.size = r.size /\ r.outcome \in {-1, 0, 1}
  BY <1>2 DEF S!Opposite, Info, r
<1>4. D!Player(p) = Mover[c] /\ Mover[p] = D!Player(c)
  BY ColorIs
<1>5. b.outcome = -1 <=> r.outcome = 1
  BY <1>3
<1>6. b.outcome = 1 <=> r.outcome = -1
  BY <1>3
<1> QED BY <1>1, <1>3, <1>4, <1>5, <1>6 DEF RightWin, ProvedToMove

\* The moves of a position in the order of the board.
LEMMA MovesAre ==
  ASSUME NEW p \in Position
  PROVE  LET n == Cardinality(Children[p])
             m == S!Moves(p)
         IN /\ n \in Nat /\ m \in [1 .. n -> Children[p]] /\ DOMAIN m = 1 .. n
            /\ \A i, j \in 1 .. n : m[i] = m[j] => i = j
            /\ \A c \in Children[p] : \E i \in 1 .. n : m[i] = c
<1> DEFINE n == Cardinality(Children[p])
           m == S!Moves(p)
<1>1. IsFiniteSet(Children[p]) /\ n \in Nat
  BY GameAssumption, FS_CardinalityType
<1>2. IsFiniteSet(1 .. n) /\ Cardinality(1 .. n) = n
  BY <1>1, FS_Interval
<1>3. ExistsBijection(1 .. n, Children[p])
  BY <1>1, <1>2, FS_SameCardinalityBij
<1>4. \E f \in [1 .. n -> Children[p]] : \A i, j \in 1 .. n : f[i] = f[j] => i = j
  BY <1>3 DEF ExistsBijection, Bijection, Injection, IsInjective
<1>5. S!Moves(p) = CHOOSE f \in [1 .. n -> Children[p]] :
                     \A i, j \in DOMAIN f : f[i] = f[j] => i = j
  BY DEF S!Moves, S!SetToSeq, S!Cardinality, Cardinality, S!IsInjective
<1>6. m \in [1 .. n -> Children[p]] /\ \A i, j \in 1 .. n : m[i] = m[j] => i = j
  BY <1>4, <1>5
<1>7. m \in Injection(1 .. n, Children[p])
  BY <1>6 DEF Injection, IsInjective
<1>8. m \in Surjection(1 .. n, Children[p])
  BY <1>1, <1>2, <1>7, FS_Injection
<1>9. \A c \in Children[p] : \E i \in 1 .. n : m[i] = c
  BY <1>8 DEF Surjection
<1> QED BY <1>1, <1>6, <1>9

-----------------------------------------------------------------------------
(* A loop over the moves of a position *)

\* FoldLeft folds over the parts of 1 .. n and takes the last index first.
Last(t) == D!Max(t)

LEMMA UpTo ==
  ASSUME NEW n \in Nat
  PROVE  IsFiniteSet(1 .. n)
<1>1. 1 \in Int /\ n \in Int
  OBVIOUS
<1> QED BY <1>1, FS_Interval

LEMMA LastIs ==
  ASSUME NEW n \in Nat, NEW t \in SUBSET (1 .. n), t # {}
  PROVE  Last(t) \in t
<1>1. IsFiniteSet(1 .. n)
  BY UpTo
<1>2. IsFiniteSet(t)
  BY <1>1, FS_Subset
<1>3. t \subseteq Nat
  OBVIOUS
<1> QED BY <1>2, <1>3, MaxIs DEF Last

Degree(p) == Cardinality(Children[p])
Tried(p, t) == {S!Moves(p)[i] : i \in t}
MoveAt(p, t) == S!Moves(p)[Last(t)]

LEMMA TriedIs ==
  ASSUME NEW p \in Position
  PROVE  /\ Degree(p) \in Nat /\ IsFiniteSet(1 .. Degree(p))
         /\ DOMAIN S!Moves(p) = 1 .. Degree(p)
         /\ Tried(p, {}) = {} /\ Tried(p, 1 .. Degree(p)) = Children[p]
         /\ \A t \in SUBSET (1 .. Degree(p)) : t # {} =>
              /\ Last(t) \in t
              /\ t \ {Last(t)} \in SUBSET (1 .. Degree(p))
              /\ Tried(p, t \ {Last(t)}) \in SUBSET Children[p]
              /\ MoveAt(p, t) \in Children[p] \ Tried(p, t \ {Last(t)})
              /\ Tried(p, t) = Tried(p, t \ {Last(t)}) \cup {MoveAt(p, t)}
<1> DEFINE m == S!Moves(p)
           n == Degree(p)
<1>1. /\ n \in Nat /\ m \in [1 .. n -> Children[p]] /\ DOMAIN m = 1 .. n
      /\ \A i, j \in 1 .. n : m[i] = m[j] => i = j
      /\ \A c \in Children[p] : \E i \in 1 .. n : m[i] = c
  BY MovesAre DEF Degree
<1>2. IsFiniteSet(1 .. n)
  BY <1>1, UpTo
<1> HIDE DEF n
<1>3. ASSUME NEW t \in SUBSET (1 .. n), t # {}
      PROVE  /\ Last(t) \in t
             /\ t \ {Last(t)} \in SUBSET (1 .. n)
             /\ Tried(p, t \ {Last(t)}) \in SUBSET Children[p]
             /\ MoveAt(p, t) \in Children[p] \ Tried(p, t \ {Last(t)})
             /\ Tried(p, t) = Tried(p, t \ {Last(t)}) \cup {MoveAt(p, t)}
  <2>1. Last(t) \in t
    BY <1>1, <1>3, LastIs
  <2> DEFINE l == Last(t)
  <2> HIDE DEF l
  <2>2. l \in t
    BY <2>1 DEF l
  <2>3. /\ {m[i] : i \in t \ {l}} \in SUBSET Children[p]
        /\ m[l] \in Children[p] \ {m[i] : i \in t \ {l}}
    BY <1>1, <2>2
  <2>4. {m[i] : i \in t} = {m[i] : i \in t \ {l}} \cup {m[l]}
    BY <2>2
  <2> QED BY <2>1, <2>3, <2>4 DEF Tried, MoveAt, l
<1>4. Tried(p, {}) = {} /\ Tried(p, 1 .. n) = Children[p]
  BY <1>1 DEF Tried
<1> QED BY <1>1, <1>2, <1>3, <1>4 DEF n

\* try leads from what V says of the moves tried to what it says of one more.
Tries(p, V, base, try) ==
  /\ base \in V[{}]
  /\ \A A \in SUBSET Children[p] : \A c \in Children[p] \ A : \A r \in V[A] :
       try[<<c, r>>] \in V[A \cup {c}]

Looped(it, p, base, try) ==
  it = [t \in SUBSET (1 .. Degree(p)) |->
          IF t = {} THEN base ELSE try[<<MoveAt(p, t), it[t \ {Last(t)}]>>]]

\* Such a loop defines a function.
LEMMA LoopDefined ==
  ASSUME NEW p \in Position, NEW V, NEW base, NEW try, Tries(p, V, base, try)
  PROVE  \E it : /\ Looped(it, p, base, try)
                 /\ \A t \in SUBSET (1 .. Degree(p)) : it[t] \in V[Tried(p, t)]
<1> DEFINE X == 1 .. Degree(p)
           W == [t \in SUBSET X |-> V[Tried(p, t)]]
           pick == [t \in SUBSET X |-> Last(t)]
           go == [t \in SUBSET X |-> [r \in W[t \ {Last(t)}] |-> try[<<MoveAt(p, t), r>>]]]
<1>1. IsFiniteSet(X) /\ \A t \in SUBSET X : t # {} => pick[t] \in t
  BY TriedIs
<1>2. base \in W[{}]
  BY TriedIs DEF Tries
<1>3. ASSUME NEW t \in SUBSET X, t # {}, NEW r \in W[t \ {Last(t)}]
      PROVE  go[t][r] = try[<<MoveAt(p, t), r>>] /\ go[t][r] \in W[t]
  <2>1. go[t][r] = try[<<MoveAt(p, t), r>>]
    OBVIOUS
  <2>2. r \in V[Tried(p, t \ {Last(t)})]
    BY <1>3, TriedIs
  <2>3. try[<<MoveAt(p, t), r>>] \in V[Tried(p, t)]
    <3>1. /\ Tried(p, t \ {Last(t)}) \in SUBSET Children[p]
          /\ MoveAt(p, t) \in Children[p] \ Tried(p, t \ {Last(t)})
          /\ Tried(p, t) = Tried(p, t \ {Last(t)}) \cup {MoveAt(p, t)}
      BY <1>3, TriedIs
    <3>2. try[<<MoveAt(p, t), r>>] \in V[Tried(p, t \ {Last(t)}) \cup {MoveAt(p, t)}]
      BY <2>2, <3>1 DEF Tries
    <3> QED BY <3>1, <3>2
  <2> QED BY <2>1, <2>3
<1>4. \A t \in SUBSET X : pick[t] = Last(t)
  OBVIOUS
<1> HIDE DEF X, W, pick, go
<1>5. PICK it : Folded(it, X, pick, W, base, go)
  <2>1. \A t \in SUBSET X : t # {} => \A r \in W[t \ {pick[t]}] : go[t][r] \in W[t]
    BY <1>3, <1>4
  <2>2. Folds(X, pick, W, base, go)
    BY <1>1, <1>2, <2>1 DEF Folds
  <2> QED BY <1>1, <2>2, FoldDefined
<1>6. ASSUME NEW t \in SUBSET X, t # {}
      PROVE  go[t][it[t \ {pick[t]}]] = try[<<MoveAt(p, t), it[t \ {Last(t)}]>>]
  <2>1. t \ {Last(t)} \in SUBSET X
    OBVIOUS
  <2>2. pick[t] = Last(t) /\ it[t \ {Last(t)}] \in W[t \ {Last(t)}]
    BY <1>4, <1>5, <2>1 DEF Folded
  <2> DEFINE r == it[t \ {Last(t)}]
  <2>3. go[t][r] = try[<<MoveAt(p, t), r>>]
    BY <1>3, <1>6, <2>2
  <2> QED BY <2>2, <2>3
<1>7. it = [t \in SUBSET X |-> IF t = {} THEN base
                              ELSE try[<<MoveAt(p, t), it[t \ {Last(t)}]>>]]
  BY <1>5, <1>6 DEF Folded
<1>8. Looped(it, p, base, try)
  BY <1>7 DEF Looped, X
<1>9. \A t \in SUBSET (1 .. Degree(p)) : it[t] \in V[Tried(p, t)]
  BY <1>5 DEF X, W, Folded
<1> QED BY <1>8, <1>9

\* What each round keeps holds when all moves have been tried.
LEMMA LoopEnds ==
  ASSUME NEW p \in Position, NEW V, NEW loop, loop[{}] \in V[{}],
         \A t \in SUBSET (1 .. Degree(p)) :
           (t # {} /\ loop[t \ {Last(t)}] \in V[Tried(p, t \ {Last(t)})])
             => loop[t] \in V[Tried(p, t)]
  PROVE  loop[1 .. Degree(p)] \in V[Children[p]]
<1> DEFINE X == 1 .. Degree(p)
           T == {t \in SUBSET X : loop[t] \in V[Tried(p, t)]}
           pick == [t \in SUBSET X |-> Last(t)]
<1>1. IsFiniteSet(X) /\ \A t \in SUBSET X : t # {} => pick[t] \in t
  BY TriedIs
<1>2. {} \in T
  BY TriedIs
<1>3. \A t \in SUBSET X : (t # {} /\ t \ {pick[t]} \in T) => t \in T
  OBVIOUS
<1>4. SUBSET X \subseteq T
  <2> HIDE DEF X, T, pick
  <2>1. Picks(X, pick) /\ Grows(X, pick, T)
    BY <1>1, <1>2, <1>3 DEF Picks, Grows
  <2> QED BY <1>1, <2>1, FoldInduction
<1>5. X \in T
  BY <1>4
<1> QED BY <1>5, TriedIs

-----------------------------------------------------------------------------
(* findWinTreeSize *)

WinStart(s) == [outcome |-> -1, tree |-> 1, win |-> -1, limit |-> s - 1]

WinTry(below, r, c) ==
  LET b == S!Opposite(below[c].loss[r.limit])
  IN IF b.outcome = 1
     THEN LET best == IF r.outcome = 1 /\ r.win < b.size THEN r.win ELSE b.size
          IN [outcome |-> 1, tree |-> r.tree + b.size,
              win |-> best, limit |-> best - 1]
     ELSE [r EXCEPT !.outcome = IF @ > b.outcome THEN @ ELSE b.outcome,
                    !.tree = @ + b.size]

\* What is known when the moves in A have been tried: the win is the smallest
\* of theirs, and none of them has one within the limit that is left.
WinGot(p, s, A) ==
  {r \in [outcome : {-1, 0, 1}, tree : Nat, win : Int, limit : 0 .. s - 1] :
     /\ r.outcome = 1 =>
          /\ r.limit = r.win - 1 /\ r.win <= s - 1
          /\ \E c \in A : D!Victor[c] = D!Player(p) /\ S!ProofSize[c] = r.win
     /\ r.outcome # 1 => r.limit = s - 1
     /\ \A c \in A : D!Victor[c] = D!Player(p) => S!ProofSize[c] > r.limit
     /\ r.outcome = -1 => \A c \in A : D!Victor[c] = Mover[p]}

LEMMA WinTryKeeps ==
  ASSUME NEW p \in Position, NEW s \in 1 .. MaxLimit, NEW below, Below(p, below),
         NEW A \in SUBSET Children[p], NEW c \in Children[p], NEW r \in WinGot(p, s, A)
  PROVE  WinTry(below, r, c) \in WinGot(p, s, A \cup {c})
<1> DEFINE b == S!Opposite(below[c].loss[r.limit])
<1>1. /\ r \in [outcome : {-1, 0, 1}, tree : Nat, win : Int, limit : 0 .. s - 1]
      /\ r.outcome = 1 =>
           /\ r.limit = r.win - 1 /\ r.win <= s - 1
           /\ \E d \in A : D!Victor[d] = D!Player(p) /\ S!ProofSize[d] = r.win
      /\ r.outcome # 1 => r.limit = s - 1
      /\ \A d \in A : D!Victor[d] = D!Player(p) => S!ProofSize[d] > r.limit
      /\ r.outcome = -1 => \A d \in A : D!Victor[d] = Mover[p]
  BY DEF WinGot
<1>2. r.limit \in 0 .. MaxLimit /\ r.limit \in 0 .. s - 1 /\ MaxLimit \in Nat
  BY <1>1, MaxLimitIs
<1>3. /\ b \in Info
      /\ b.outcome = 1 <=> D!Victor[c] = D!Player(p) /\ S!ProofSize[c] <= r.limit
      /\ b.outcome = 1 => b.size = S!ProofSize[c]
      /\ b.outcome = -1 => D!Victor[c] = Mover[p]
  BY <1>2, LossRead DEF Below
<1>4. \A d \in A \cup {c} : S!ProofSize[d] \in Nat /\ S!ProofSize[d] > 0
  BY ColorIs, ProofSizeIs
<1>5. b.outcome \in {-1, 0, 1} /\ b.size \in Nat
  BY <1>3 DEF Info
<1> HIDE DEF b
<1>6. ASSUME b.outcome = 1
      PROVE  WinTry(below, r, c) \in WinGot(p, s, A \cup {c})
  <2>1. b.size = S!ProofSize[c] /\ b.size <= r.limit /\ b.size > 0
    BY <1>3, <1>4, <1>6
  <2>2. r.outcome = 1 => ~(r.win < b.size)
    BY <1>1, <1>5, <2>1
  <2> DEFINE n == [outcome |-> 1, tree |-> r.tree + b.size,
                   win |-> b.size, limit |-> b.size - 1]
  <2>3. WinTry(below, r, c) = n
    BY <1>6, <2>2 DEF WinTry, b
  <2>4. n \in [outcome : {-1, 0, 1}, tree : Nat, win : Int, limit : 0 .. s - 1]
    BY <1>1, <1>2, <1>5, <2>1
  <2>5. /\ n.limit = n.win - 1 /\ n.win <= s - 1 /\ n.outcome = 1
        /\ D!Victor[c] = D!Player(p) /\ S!ProofSize[c] = n.win
    BY <1>2, <1>3, <1>5, <1>6, <2>1
  <2>6. \A d \in A \cup {c} : D!Victor[d] = D!Player(p) => S!ProofSize[d] > n.limit
    BY <1>1, <1>2, <1>4, <1>5, <2>1
  <2> HIDE DEF n
  <2>7. n \in WinGot(p, s, A \cup {c})
    BY <2>4, <2>5, <2>6 DEF WinGot
  <2> QED BY <2>3, <2>7
<1>7. ASSUME b.outcome # 1
      PROVE  WinTry(below, r, c) \in WinGot(p, s, A \cup {c})
  <2> DEFINE o == IF r.outcome > b.outcome THEN r.outcome ELSE b.outcome
             n == [r EXCEPT !.outcome = o, !.tree = r.tree + b.size]
  <2>1. WinTry(below, r, c) = n
    BY <1>7 DEF WinTry, b
  <2>2. r.outcome \in {-1, 0, 1} /\ r.tree \in Nat
    BY <1>1
  <2>3. /\ o \in {-1, 0, 1} /\ (o = 1 <=> r.outcome = 1)
        /\ o = -1 => r.outcome = -1 /\ b.outcome = -1
    BY <2>2, <1>5, <1>7
  <2>4. /\ n \in [outcome : {-1, 0, 1}, tree : Nat, win : Int, limit : 0 .. s - 1]
        /\ n.outcome = o /\ n.win = r.win /\ n.limit = r.limit
    <3>1. r.tree + b.size \in Nat
      BY <1>5, <2>2
    <3> DEFINE k == r.tree + b.size
    <3> HIDE DEF o, k
    <3>2. n = [r EXCEPT !.outcome = o, !.tree = k]
      BY DEF k
    <3> QED BY <1>1, <2>3, <3>1, <3>2 DEF k
  <2>5. D!Victor[c] = D!Player(p) => S!ProofSize[c] > r.limit
    BY <1>2, <1>3, <1>4, <1>7
  <2> HIDE DEF n, o
  <2>6. /\ n.outcome = 1 =>
             \E d \in A \cup {c} : D!Victor[d] = D!Player(p) /\ S!ProofSize[d] = n.win
        /\ n.outcome = 1 => n.limit = n.win - 1 /\ n.win <= s - 1
        /\ n.outcome # 1 => n.limit = s - 1
    BY <1>1, <2>3, <2>4
  <2>7. \A d \in A \cup {c} : D!Victor[d] = D!Player(p) => S!ProofSize[d] > n.limit
    BY <1>1, <2>4, <2>5
  <2>8. n.outcome = -1 => \A d \in A \cup {c} : D!Victor[d] = Mover[p]
    BY <1>1, <1>3, <2>3, <2>4
  <2>9. n \in WinGot(p, s, A \cup {c})
    BY <2>4, <2>6, <2>7, <2>8 DEF WinGot
  <2> QED BY <2>1, <2>9
<1> QED BY <1>6, <1>7

\* When all moves have been tried, the search returns what it should.
LEMMA WinEnds ==
  ASSUME NEW p \in Position, p \notin Terminal, NEW s \in 1 .. MaxLimit,
         NEW r \in WinGot(p, s, Children[p])
  PROVE  RightWin(p, s, [outcome |-> r.outcome,
                         size |-> IF r.outcome = 1 THEN 1 + r.win ELSE r.tree])
<1> DEFINE i == [outcome |-> r.outcome,
                 size |-> IF r.outcome = 1 THEN 1 + r.win ELSE r.tree]
<1>1. /\ r \in [outcome : {-1, 0, 1}, tree : Nat, win : Int, limit : 0 .. s - 1]
      /\ r.outcome = 1 =>
           /\ r.limit = r.win - 1 /\ r.win <= s - 1
           /\ \E d \in Children[p] : D!Victor[d] = D!Player(p) /\ S!ProofSize[d] = r.win
      /\ r.outcome # 1 => r.limit = s - 1
      /\ \A d \in Children[p] : D!Victor[d] = D!Player(p) => S!ProofSize[d] > r.limit
      /\ r.outcome = -1 => \A d \in Children[p] : D!Victor[d] = Mover[p]
  BY DEF WinGot
<1>2. \A d \in Children[p] : S!ProofSize[d] \in Nat /\ S!ProofSize[d] > 0
  BY ColorIs, ProofSizeIs
<1>3. /\ S!ProofSize[p] \in Nat /\ s \in Nat /\ r.limit \in Nat
      /\ D!Victor[p] = D!Player(p) =>
           /\ \E c \in Children[p] : /\ D!Victor[c] = D!Player(p)
                                     /\ S!ProofSize[p] = 1 + S!ProofSize[c]
           /\ \A c \in Children[p] : D!Victor[c] = D!Player(p)
                                       => S!ProofSize[p] <= 1 + S!ProofSize[c]
  BY <1>1, ProofSizeIs, MaxLimitIs
<1>4. ASSUME r.outcome = 1
      PROVE  D!Victor[p] = D!Player(p) /\ S!ProofSize[p] = 1 + r.win /\ r.win \in Nat
             /\ S!ProofSize[p] <= s
  <2>1. PICK d \in Children[p] : D!Victor[d] = D!Player(p) /\ S!ProofSize[d] = r.win
    BY <1>1, <1>4
  <2>2. D!Victor[p] = D!Player(p)
    BY <2>1, VictorIs
  <2>3. r.limit = r.win - 1 /\ r.win <= s - 1 /\ r.win \in Nat
    BY <1>1, <1>2, <1>4, <2>1
  <2>4. S!ProofSize[p] <= 1 + r.win
    BY <1>3, <2>1, <2>2
  <2>5. PICK c \in Children[p] : /\ D!Victor[c] = D!Player(p)
                                 /\ S!ProofSize[p] = 1 + S!ProofSize[c]
    BY <1>3, <2>2
  <2>6. S!ProofSize[c] > r.win - 1 /\ S!ProofSize[c] \in Nat
    BY <1>1, <1>2, <2>3, <2>5
  <2> QED BY <1>3, <2>2, <2>3, <2>4, <2>5, <2>6
<1>5. ASSUME r.outcome # 1
      PROVE  ~ProvedToMove(p, s)
  <2> SUFFICES ASSUME D!Victor[p] = D!Player(p), S!ProofSize[p] <= s PROVE FALSE
    BY DEF ProvedToMove
  <2>1. PICK c \in Children[p] : /\ D!Victor[c] = D!Player(p)
                                 /\ S!ProofSize[p] = 1 + S!ProofSize[c]
    BY <1>3
  <2>2. S!ProofSize[c] > s - 1 /\ S!ProofSize[c] \in Nat
    BY <1>1, <1>2, <1>5, <2>1
  <2> QED BY <1>3, <2>1, <2>2
<1>6. r.outcome = -1 => D!Victor[p] = Mover[p]
  BY <1>1, VictorIs
<1>7. i \in Info
  BY <1>1, <1>4 DEF Info
<1>8. i.outcome = r.outcome /\ (r.outcome = 1 => i.size = 1 + r.win)
  OBVIOUS
<1> HIDE DEF i
<1>9. RightWin(p, s, i)
  <2>1. i.outcome = 1 <=> ProvedToMove(p, s)
    BY <1>4, <1>5, <1>8 DEF ProvedToMove
  <2> QED BY <1>4, <1>6, <1>7, <1>8, <2>1 DEF RightWin
<1> QED BY <1>9 DEF i

\* Narrowing the limit to one below the best win so far loses no smaller one.
LEMMA WinTreeIs ==
  ASSUME NEW p \in Position, p \notin Terminal, NEW s \in 1 .. MaxLimit,
         NEW below, Below(p, below)
  PROVE  RightWin(p, s, S!WinTree(p, s, below))
<1> DEFINE X == 1 .. Degree(p)
           V == [A \in SUBSET Children[p] |-> WinGot(p, s, A)]
           try == [a \in Children[p] \X UNION {V[A] : A \in SUBSET Children[p]} |->
                     WinTry(below, a[2], a[1])]
           base == WinStart(s)
           Body(it) == [t \in SUBSET X |->
                          IF t = {} THEN base
                          ELSE WinTry(below, it[t \ {Last(t)}], MoveAt(p, t))]
<1>1. \A A \in SUBSET Children[p] : V[A] = WinGot(p, s, A)
  OBVIOUS
<1>2. base \in V[{}]
  <2>1. base \in WinGot(p, s, {})
    BY MaxLimitIs DEF WinGot, WinStart
  <2> QED BY <2>1
<1>3. ASSUME NEW A \in SUBSET Children[p], NEW c \in Children[p], NEW r \in V[A]
      PROVE  /\ WinTry(below, r, c) \in V[A \cup {c}]
             /\ try[<<c, r>>] = WinTry(below, r, c)
  <2>1. WinTry(below, r, c) \in WinGot(p, s, A \cup {c})
    BY <1>1, WinTryKeeps
  <2>2. A \cup {c} \in SUBSET Children[p]
    OBVIOUS
  <2>3. <<c, r>> \in Children[p] \X UNION {V[B] : B \in SUBSET Children[p]}
    <3> HIDE DEF V
    <3> QED OBVIOUS
  <2>4. try[<<c, r>>] = WinTry(below, r, c)
    <3> HIDE DEF V
    <3> QED BY <2>3
  <2> QED BY <1>1, <2>1, <2>2, <2>4
<1> HIDE DEF V, try, base
<1>4. PICK it : /\ Looped(it, p, base, try)
                /\ \A t \in SUBSET X : it[t] \in V[Tried(p, t)]
  <2>1. ASSUME NEW A \in SUBSET Children[p], NEW c \in Children[p] \ A, NEW r \in V[A]
        PROVE  try[<<c, r>>] \in V[A \cup {c}]
    BY <1>3
  <2>2. Tries(p, V, base, try)
    BY <1>2, <2>1 DEF Tries
  <2> QED BY <2>2, LoopDefined
<1>5. it = Body(it)
  <2>1. ASSUME NEW t \in SUBSET X, t # {}
        PROVE  try[<<MoveAt(p, t), it[t \ {Last(t)}]>>]
                 = WinTry(below, it[t \ {Last(t)}], MoveAt(p, t))
    <3>1. /\ Tried(p, t \ {Last(t)}) \in SUBSET Children[p]
          /\ MoveAt(p, t) \in Children[p] /\ t \ {Last(t)} \in SUBSET X
      BY <2>1, TriedIs
    <3>2. it[t \ {Last(t)}] \in V[Tried(p, t \ {Last(t)})]
      BY <1>4, <3>1
    <3> QED BY <3>1, <3>2, <1>3
  <2> QED BY <1>4, <2>1 DEF Looped
<1> DEFINE loop == CHOOSE g : g = Body(g)
<1>6. loop = Body(loop)
  <2> HIDE DEF Body
  <2> QED BY <1>5
<1> HIDE DEF loop
<1>7. loop[1 .. Degree(p)] \in WinGot(p, s, Children[p])
  <2>1. \A t \in SUBSET X : loop[t] = IF t = {} THEN base
                               ELSE WinTry(below, loop[t \ {Last(t)}], MoveAt(p, t))
    BY <1>6, Zenon
  <2>2. loop[{}] \in V[{}]
    BY <2>1, <1>2
  <2>3. ASSUME NEW t \in SUBSET X, t # {},
               loop[t \ {Last(t)}] \in V[Tried(p, t \ {Last(t)})]
        PROVE  loop[t] \in V[Tried(p, t)]
    <3>1. loop[t] = WinTry(below, loop[t \ {Last(t)}], MoveAt(p, t))
      BY <2>1, <2>3
    <3>2. /\ Tried(p, t \ {Last(t)}) \in SUBSET Children[p] /\ MoveAt(p, t) \in Children[p]
          /\ Tried(p, t) = Tried(p, t \ {Last(t)}) \cup {MoveAt(p, t)}
      BY <2>3, TriedIs
    <3>3. WinTry(below, loop[t \ {Last(t)}], MoveAt(p, t))
            \in V[Tried(p, t \ {Last(t)}) \cup {MoveAt(p, t)}]
      BY <2>3, <3>2, <1>3
    <3> QED BY <3>1, <3>2, <3>3
  <2>4. loop[1 .. Degree(p)] \in V[Children[p]]
    BY <2>2, <2>3, LoopEnds
  <2> QED BY <2>4, <1>1
<1>8. S!WinTree(p, s, below) =
         LET r == loop[1 .. Degree(p)]
         IN [outcome |-> r.outcome,
             size |-> IF r.outcome = 1 THEN 1 + r.win ELSE r.tree]
  <2> DEFINE Over(D0) == CHOOSE g : g = [t \in SUBSET D0 |->
                       IF t = {} THEN WinStart(s)
                       ELSE WinTry(below, g[t \ {S!Max(t)}], S!Moves(p)[S!Max(t)])]
  <2>1. S!WinTree(p, s, below) =
          LET r == Over(DOMAIN S!Moves(p))[DOMAIN S!Moves(p)]
          IN [outcome |-> r.outcome,
              size |-> IF r.outcome = 1 THEN 1 + r.win ELSE r.tree]
    BY Zenon DEF S!WinTree, S!FoldLeft, S!MapThenFoldSet, WinStart, WinTry
  <2>2. DOMAIN S!Moves(p) = X
    BY TriedIs
  <2>3. Over(X) = loop
    <3>1. \A t : S!Max(t) = Last(t)
      BY Shared DEF Last
    <3>2. \A g : [t \in SUBSET X |->
                       IF t = {} THEN WinStart(s)
                       ELSE WinTry(below, g[t \ {S!Max(t)}], S!Moves(p)[S!Max(t)])]
                  = Body(g)
      BY <3>1 DEF base, MoveAt
    <3> HIDE DEF Body, X
    <3> QED BY <3>2 DEF loop
  <2> HIDE DEF Over, X
  <2>4. S!WinTree(p, s, below) =
          LET r == Over(X)[X]
          IN [outcome |-> r.outcome,
              size |-> IF r.outcome = 1 THEN 1 + r.win ELSE r.tree]
    BY <2>1, <2>2
  <2> QED BY <2>3, <2>4 DEF X
<1> QED BY <1>7, <1>8, WinEnds

-----------------------------------------------------------------------------
(* findLossTreeSize *)

EvenSize(p, s, below, P) ==
  [c \in P |-> S!Opposite(below[c].win[S!share(p, s)]).size]

LossStart(p, s, below, P) ==
  [done |-> FALSE, outcome |-> -1, size |-> 1 + Sum(EvenSize(p, s, below, P), P)]

LossTry(s, below, P, r, c) ==
  LET b == S!Opposite(below[c].win[s - r.size])
  IN IF r.done \/ c \in P THEN r
     ELSE CASE b.outcome = -1 -> [r EXCEPT !.size = @ + b.size]
            [] b.outcome = 1 -> [done |-> TRUE, outcome |-> 1, size |-> 1 + b.size]
            [] OTHER -> [done |-> TRUE, outcome |-> 0, size |-> 0]

\* The moves that are lost within the even share.
Passed(p, s, below) ==
  {c \in Children[p] : S!Opposite(below[c].win[S!share(p, s)]).outcome = -1}

LEMMA Quotient ==
  ASSUME NEW n \in Nat \ {0}, NEW a \in Nat
  PROVE  /\ a \div n \in 0 .. a
         /\ n * (a \div n) \in Nat /\ n * (a \div n) <= a
         /\ n * (a \div n + 1) \in Nat /\ a < n * (a \div n + 1)
<1>1. a \div n \in Nat
  OBVIOUS
<1>2. n * (a \div n) <= a /\ a < n * (a \div n + 1)
  OBVIOUS
<1>3. n * (a \div n) \in Nat /\ n * (a \div n + 1) \in Nat
  BY <1>1
<1>4. a \div n <= a
  OBVIOUS
<1> QED BY <1>1, <1>2, <1>3, <1>4

\* The even share is the greatest that all moves could have within the limit.
LEMMA ShareIs ==
  ASSUME NEW p \in Position, p \notin Terminal, NEW s \in 1 .. MaxLimit
  PROVE  LET n == Cardinality(Children[p])
             k == S!share(p, s)
         IN /\ n \in Nat \ {0} /\ k \in 0 .. s - 1 /\ k \in 0 .. MaxLimit
            /\ n * k \in Nat /\ n * k <= s - 1
            /\ n * (k + 1) \in Nat /\ s - 1 < n * (k + 1)
<1> DEFINE n == Cardinality(Children[p])
           k == S!share(p, s)
<1>1. n \in Nat \ {0}
  <2>1. IsFiniteSet(Children[p]) /\ Children[p] # {}
    BY GameAssumption
  <2> QED BY <2>1, FS_EmptySet, FS_CardinalityType
<1>2. k = (s - 1) \div n
  BY DEF S!share, S!Cardinality, Cardinality
<1>3. s - 1 \in Nat /\ MaxLimit \in Nat
  BY MaxLimitIs
<1> HIDE DEF n, k
<1>4. /\ k \in 0 .. s - 1
      /\ n * k \in Nat /\ n * k <= s - 1
      /\ n * (k + 1) \in Nat /\ s - 1 < n * (k + 1)
  BY <1>1, <1>2, <1>3, Quotient
<1>5. k \in 0 .. MaxLimit
  BY <1>3, <1>4
<1> QED BY <1>1, <1>4, <1>5 DEF n, k

LEMMA SizesOfMoves ==
  ASSUME NEW p \in Position
  PROVE  /\ IsFiniteSet(Children[p])
         /\ \A c \in Children[p] : S!ProofSize[c] \in Nat /\ S!ProofSize[c] > 0
         /\ \A K \in SUBSET Children[p] :
              /\ IsFiniteSet(K) /\ Sum(S!ProofSize, K) \in Nat
              /\ Sum(S!ProofSize, K) <= Sum(S!ProofSize, Children[p])
<1>1. IsFiniteSet(Children[p])
  BY GameAssumption
<1>2. \A c \in Children[p] : S!ProofSize[c] \in Nat /\ S!ProofSize[c] > 0
  BY ColorIs, ProofSizeIs
<1>3. ASSUME NEW K \in SUBSET Children[p]
      PROVE  /\ IsFiniteSet(K) /\ Sum(S!ProofSize, K) \in Nat
             /\ Sum(S!ProofSize, K) <= Sum(S!ProofSize, Children[p])
  <2>1. IsFiniteSet(K) /\ \A c \in K : S!ProofSize[c] \in Nat
    BY <1>1, <1>2, FS_Subset
  <2>2. Sum(S!ProofSize, K) \in Nat
    BY <2>1, SumIs
  <2>3. Sum(S!ProofSize, K) <= Sum(S!ProofSize, Children[p])
    BY <1>1, <1>2, SumOfPart
  <2> QED BY <2>1, <2>2, <2>3
<1> QED BY <1>1, <1>2, <1>3

\* If all branches fit the limit, one of them fits an even share.
LEMMA NoneFits ==
  ASSUME NEW p \in Position, p \notin Terminal, NEW s \in 1 .. MaxLimit,
         \A c \in Children[p] : D!Victor[c] = Mover[p] => S!ProofSize[c] > S!share(p, s)
  PROVE  ~ProvedMoved(p, s)
<1> SUFFICES ASSUME D!Victor[p] = Mover[p], S!ProofSize[p] <= s PROVE FALSE
  BY DEF ProvedMoved
<1> DEFINE n == Cardinality(Children[p])
           k == S!share(p, s)
           total == Sum(S!ProofSize, Children[p])
<1>1. k \in Nat /\ n * (k + 1) \in Nat /\ s - 1 < n * (k + 1) /\ s \in Nat
  <2>1. k \in 0 .. s - 1 /\ n * (k + 1) \in Nat /\ s - 1 < n * (k + 1)
    BY ShareIs
  <2>2. s \in Nat
    BY MaxLimitIs
  <2> HIDE DEF n, k
  <2> QED BY <2>1, <2>2
<1>2. \A c \in Children[p] : D!Victor[c] = Mover[p]
  BY VictorIs
<1>3. IsFiniteSet(Children[p]) /\ total \in Nat
  BY SizesOfMoves
<1>4. \A c \in Children[p] : S!ProofSize[c] \in Nat /\ S!ProofSize[c] >= k + 1
  BY <1>1, <1>2, SizesOfMoves
<1>5. total >= n * (k + 1)
  <2>1. k + 1 \in Nat
    BY <1>1
  <2> HIDE DEF k
  <2> QED BY <1>3, <1>4, <2>1, SumAtLeast
<1>6. S!ProofSize[p] = 1 + total
  BY ProofSizeIs
<1> HIDE DEF n, k, total
<1>7. 1 + total > s
  <2> DEFINE b == n * (k + 1)
  <2>1. b \in Nat /\ s - 1 < b /\ total >= b
    BY <1>1, <1>5
  <2> HIDE DEF b
  <2> QED BY <2>1, <1>1, <1>3
<1> QED BY <1>1, <1>3, <1>6, <1>7

\* What is known when the moves in A have been tried, after those in P.
LossGot(p, s, P, A) ==
  {r \in [done : BOOLEAN, outcome : {-1, 0, 1}, size : Nat] :
     /\ ~r.done => /\ r.outcome = -1 /\ r.size <= s
                   /\ r.size = 1 + Sum(S!ProofSize, P \cup A)
                   /\ \A c \in A : D!Victor[c] = Mover[p]
     /\ r.done => /\ r.outcome # -1 /\ ~ProvedMoved(p, s)
                  /\ r.outcome = 1 => D!Victor[p] = D!Player(p)}

LEMMA LossTryKeeps ==
  ASSUME NEW p \in Position, p \notin Terminal, NEW s \in 1 .. MaxLimit,
         NEW below, Below(p, below),
         NEW P \in SUBSET Children[p], \A c \in P : D!Victor[c] = Mover[p],
         NEW A \in SUBSET Children[p], NEW c \in Children[p] \ A,
         NEW r \in LossGot(p, s, P, A)
  PROVE  LossTry(s, below, P, r, c) \in LossGot(p, s, P, A \cup {c})
<1>1. /\ r \in [done : BOOLEAN, outcome : {-1, 0, 1}, size : Nat]
      /\ ~r.done => /\ r.outcome = -1 /\ r.size <= s
                    /\ r.size = 1 + Sum(S!ProofSize, P \cup A)
                    /\ \A d \in A : D!Victor[d] = Mover[p]
      /\ r.done => /\ r.outcome # -1 /\ ~ProvedMoved(p, s)
                   /\ r.outcome = 1 => D!Victor[p] = D!Player(p)
  BY DEF LossGot
<1>2. CASE r.done
  <2>1. LossTry(s, below, P, r, c) = r
    BY <1>2 DEF LossTry
  <2> QED BY <1>1, <1>2, <2>1 DEF LossGot
<1>3. CASE ~r.done /\ c \in P
  <2>1. LossTry(s, below, P, r, c) = r
    BY <1>3 DEF LossTry
  <2>2. P \cup (A \cup {c}) = P \cup A
    BY <1>3
  <2>3. r.size = 1 + Sum(S!ProofSize, P \cup (A \cup {c}))
    BY <1>1, <1>3, <2>2
  <2>4. \A d \in A \cup {c} : D!Victor[d] = Mover[p]
    BY <1>1, <1>3
  <2>5. r \in LossGot(p, s, P, A \cup {c})
    BY <1>1, <1>3, <2>3, <2>4 DEF LossGot
  <2> QED BY <2>1, <2>5
<1>4. CASE ~r.done /\ c \notin P
  <2> DEFINE b == S!Opposite(below[c].win[s - r.size])
             K == P \cup (A \cup {c})
  <2>1. r.size \in Nat /\ r.size <= s /\ r.size > 0 /\ s - r.size \in 0 .. MaxLimit /\ s \in Nat
    <3>1. Sum(S!ProofSize, P \cup A) \in Nat
      BY SizesOfMoves
    <3> QED BY <1>1, <1>4, <3>1, MaxLimitIs
  <2>2. /\ b \in Info
        /\ b.outcome = -1 <=> D!Victor[c] = Mover[p] /\ S!ProofSize[c] <= s - r.size
        /\ b.outcome = -1 => b.size = S!ProofSize[c]
        /\ b.outcome = 1 => D!Victor[c] = D!Player(p)
    BY <2>1, WinRead DEF Below
  <2>3. b.outcome \in {-1, 0, 1} /\ b.size \in Nat
    BY <2>2 DEF Info
  <2>4. /\ S!ProofSize[c] \in Nat /\ Sum(S!ProofSize, K) \in Nat
        /\ Sum(S!ProofSize, K) <= Sum(S!ProofSize, Children[p])
    BY SizesOfMoves
  <2>5. Sum(S!ProofSize, K) = S!ProofSize[c] + (r.size - 1)
    <3>1. c \in K /\ K \ {c} = P \cup A
      BY <1>4
    <3>2. IsFiniteSet(K) /\ \A d \in K : S!ProofSize[d] \in Nat
      BY SizesOfMoves
    <3> HIDE DEF K
    <3>3. Sum(S!ProofSize, K) = S!ProofSize[c] + Sum(S!ProofSize, K \ {c})
      BY <3>1, <3>2, SumAdd
    <3>4. Sum(S!ProofSize, P \cup A) = r.size - 1
      <4>1. Sum(S!ProofSize, P \cup A) \in Nat
        BY SizesOfMoves
      <4> QED BY <1>1, <1>4, <4>1
    <3> QED BY <3>1, <3>3, <3>4
  <2> HIDE DEF b
  <2>6. CASE b.outcome = -1
    <3> DEFINE n == [r EXCEPT !.size = r.size + b.size]
    <3>1. LossTry(s, below, P, r, c) = n
      BY <1>4, <2>6 DEF LossTry, b
    <3>2. /\ n \in [done : BOOLEAN, outcome : {-1, 0, 1}, size : Nat]
          /\ n.done = r.done /\ n.outcome = r.outcome /\ n.size = r.size + b.size
      <4>1. r.size + b.size \in Nat
        BY <2>1, <2>3
      <4> QED BY <1>1, <4>1
    <3> HIDE DEF n
    <3>3. n.size = 1 + Sum(S!ProofSize, K) /\ n.size <= s
      <4> HIDE DEF K
      <4>1. b.size = S!ProofSize[c] /\ S!ProofSize[c] <= s - r.size
        BY <2>2, <2>6
      <4> QED BY <2>1, <2>4, <2>5, <3>2, <4>1
    <3>4. \A d \in A \cup {c} : D!Victor[d] = Mover[p]
      BY <1>1, <1>4, <2>2, <2>6
    <3>5. n \in LossGot(p, s, P, A \cup {c})
      BY <1>1, <1>4, <3>2, <3>3, <3>4 DEF LossGot
    <3> QED BY <3>1, <3>5
  <2>7. CASE b.outcome # -1
    <3> DEFINE o == IF b.outcome = 1 THEN 1 ELSE 0
               z == IF b.outcome = 1 THEN 1 + b.size ELSE 0
               n == [done |-> TRUE, outcome |-> o, size |-> z]
    <3>1. LossTry(s, below, P, r, c) = n
      BY <1>4, <2>7 DEF LossTry, b
    <3>2. n \in [done : BOOLEAN, outcome : {-1, 0, 1}, size : Nat]
      BY <2>3
    <3>3. b.outcome = 1 => D!Victor[p] = D!Player(p)
      BY <2>2, VictorIs
    <3>4. ~ProvedMoved(p, s)
      <4> SUFFICES ASSUME D!Victor[p] = Mover[p], S!ProofSize[p] <= s PROVE FALSE
        BY DEF ProvedMoved
      <4>1. D!Victor[c] = Mover[p]
        BY VictorIs
      <4>2. S!ProofSize[c] > s - r.size
        BY <2>1, <2>2, <2>4, <2>7, <4>1
      <4>3. S!ProofSize[p] = 1 + Sum(S!ProofSize, Children[p])
        BY ProofSizeIs
      <4>4. Sum(S!ProofSize, Children[p]) \in Nat
        BY SizesOfMoves
      <4> HIDE DEF K
      <4> QED BY <2>1, <2>4, <2>5, <4>2, <4>3, <4>4
    <3>5. n.done = TRUE /\ n.outcome # -1 /\ (n.outcome = 1 => b.outcome = 1)
      OBVIOUS
    <3> HIDE DEF n
    <3>6. n \in LossGot(p, s, P, A \cup {c})
      BY <3>2, <3>3, <3>4, <3>5 DEF LossGot
    <3> QED BY <3>1, <3>6
  <2> QED BY <2>6, <2>7
<1> QED BY <1>1, <1>2, <1>3, <1>4

\* When all moves have been tried, the search returns what it should.
LEMMA LossEnds ==
  ASSUME NEW p \in Position, p \notin Terminal, NEW s \in 1 .. MaxLimit,
         NEW P \in SUBSET Children[p], NEW r \in LossGot(p, s, P, Children[p])
  PROVE  RightLoss(p, s, [outcome |-> r.outcome, size |-> r.size])
<1> DEFINE i == [outcome |-> r.outcome, size |-> r.size]
<1>1. /\ r \in [done : BOOLEAN, outcome : {-1, 0, 1}, size : Nat]
      /\ ~r.done => /\ r.outcome = -1 /\ r.size <= s
                    /\ r.size = 1 + Sum(S!ProofSize, P \cup Children[p])
                    /\ \A d \in Children[p] : D!Victor[d] = Mover[p]
      /\ r.done => /\ r.outcome # -1 /\ ~ProvedMoved(p, s)
                   /\ r.outcome = 1 => D!Victor[p] = D!Player(p)
  BY DEF LossGot
<1>2. i \in Info /\ i.outcome = r.outcome /\ i.size = r.size
  BY <1>1 DEF Info
<1>3. ASSUME ~r.done
      PROVE  ProvedMoved(p, s) /\ r.size = S!ProofSize[p]
  <2>1. D!Victor[p] = Mover[p]
    BY <1>1, <1>3, VictorIs
  <2>2. P \cup Children[p] = Children[p]
    OBVIOUS
  <2>3. S!ProofSize[p] = 1 + Sum(S!ProofSize, Children[p])
    BY <2>1, ProofSizeIs
  <2> QED BY <1>1, <1>3, <2>1, <2>2, <2>3 DEF ProvedMoved
<1> HIDE DEF i
<1>4. RightLoss(p, s, i)
  <2>1. CASE r.done
    BY <1>1, <1>2, <2>1 DEF RightLoss
  <2>2. CASE ~r.done
    BY <1>1, <1>2, <1>3, <2>2 DEF RightLoss
  <2> QED BY <1>1, <2>1, <2>2
<1> QED BY <1>4 DEF i

LEMMA PassedIs ==
  ASSUME NEW p \in Position, p \notin Terminal, NEW s \in 1 .. MaxLimit,
         NEW below, Below(p, below)
  PROVE  LET P == Passed(p, s, below)
         IN /\ P \in SUBSET Children[p]
            /\ \A c \in P : /\ D!Victor[c] = Mover[p] /\ S!ProofSize[c] <= S!share(p, s)
                            /\ S!Opposite(below[c].win[S!share(p, s)]).size = S!ProofSize[c]
            /\ P = {} => ~ProvedMoved(p, s)
<1> DEFINE P == Passed(p, s, below)
           k == S!share(p, s)
           even(c) == S!Opposite(below[c].win[k])
<1>1. k \in 0 .. MaxLimit /\ k \in Nat
  <2>1. k \in 0 .. MaxLimit
    BY ShareIs
  <2> HIDE DEF k
  <2> QED BY <2>1, MaxLimitIs
<1>2. ASSUME NEW c \in Children[p]
      PROVE  /\ even(c).outcome = -1 <=> D!Victor[c] = Mover[p] /\ S!ProofSize[c] <= k
             /\ even(c).outcome = -1 => even(c).size = S!ProofSize[c]
  BY <1>1, WinRead DEF Below
<1>3. P \in SUBSET Children[p] /\ \A c \in Children[p] : c \in P <=> even(c).outcome = -1
  BY DEF Passed
<1>4. \A c \in P : D!Victor[c] = Mover[p] /\ S!ProofSize[c] <= k /\ even(c).size = S!ProofSize[c]
  BY <1>2, <1>3
<1>5. P = {} => ~ProvedMoved(p, s)
  <2>1. ASSUME P = {}, NEW c \in Children[p], D!Victor[c] = Mover[p]
        PROVE  S!ProofSize[c] > k
    <3>1. ~(S!ProofSize[c] <= k) /\ S!ProofSize[c] \in Nat
      BY <2>1, <1>2, <1>3, SizesOfMoves
    <3> HIDE DEF k
    <3> QED BY <3>1, <1>1
  <2> QED BY <2>1, NoneFits
<1> QED BY <1>3, <1>4, <1>5

LEMMA Scale ==
  ASSUME NEW m \in Nat, NEW n \in Nat, m <= n, NEW k \in Nat
  PROVE  m * k \in Nat /\ n * k \in Nat /\ m * k <= n * k
<1>1. m * k \in Nat /\ n * k \in Nat /\ n - m \in Nat
  OBVIOUS
<1>2. n * k = m * k + (n - m) * k
  OBVIOUS
<1>3. (n - m) * k >= 0
  BY <1>1
<1> QED BY <1>1, <1>2, <1>3

\* The moves that fit an even share fit the limit together.
LEMMA LossStarts ==
  ASSUME NEW p \in Position, p \notin Terminal, NEW s \in 1 .. MaxLimit,
         NEW below, Below(p, below)
  PROVE  LET P == Passed(p, s, below)
         IN LossStart(p, s, below, P) \in LossGot(p, s, P, {})
<1> DEFINE P == Passed(p, s, below)
           k == S!share(p, s)
           f == EvenSize(p, s, below, P)
           n == Cardinality(Children[p])
           m == Cardinality(P)
<1>1. P \in SUBSET Children[p] /\ \A c \in P : f[c] = S!ProofSize[c] /\ S!ProofSize[c] <= k
  BY PassedIs DEF EvenSize
<1>2. k \in Nat /\ n \in Nat /\ n * k \in Nat /\ n * k <= s - 1 /\ s \in Nat
  <2>1. k \in 0 .. s - 1 /\ n \in Nat /\ n * k \in Nat /\ n * k <= s - 1
    BY ShareIs
  <2>2. s \in Nat
    BY MaxLimitIs
  <2> HIDE DEF n, k
  <2> QED BY <2>1, <2>2
<1> HIDE DEF P, f
<1>3. IsFiniteSet(P) /\ \A c \in P : S!ProofSize[c] \in Nat
  BY <1>1, SizesOfMoves
<1>4. Sum(S!ProofSize, P) \in Nat /\ Sum(f, P) = Sum(S!ProofSize, P)
  <2>1. Sum(S!ProofSize, P) \in Nat
    BY <1>3, SumIs
  <2>2. Sum(S!ProofSize, P) = Sum(f, P)
    BY <1>1, <1>3, SumSame
  <2> QED BY <2>1, <2>2
<1>5. Sum(S!ProofSize, P) <= m * k
  <2>1. \A c \in P : S!ProofSize[c] \in 0 .. k
    BY <1>1, <1>2, <1>3
  <2> HIDE DEF k
  <2> QED BY <1>2, <1>3, <2>1, SumAtMost
<1>6. m * k \in Nat /\ m * k <= n * k
  <2>1. m \in Nat /\ m <= n
    BY <1>1, SizesOfMoves, PartIs
  <2> HIDE DEF m, n, k
  <2> QED BY <1>2, <2>1, Scale
<1>7. 1 + Sum(S!ProofSize, P) <= s /\ 1 + Sum(S!ProofSize, P) \in Nat
  <2> DEFINE a == m * k
             b == n * k
             d == Sum(S!ProofSize, P)
  <2>1. d \in Nat /\ a \in Nat /\ b \in Nat /\ d <= a /\ a <= b /\ b <= s - 1 /\ s \in Nat
    BY <1>2, <1>4, <1>5, <1>6
  <2> HIDE DEF a, b, d
  <2>2. 1 + d <= s /\ 1 + d \in Nat
    BY <2>1
  <2> QED BY <2>2 DEF d
<1> DEFINE r == [done |-> FALSE, outcome |-> -1, size |-> 1 + Sum(S!ProofSize, P)]
<1>8. LossStart(p, s, below, P) = r
  BY <1>4 DEF LossStart, f
<1>9. /\ r \in [done : BOOLEAN, outcome : {-1, 0, 1}, size : Nat]
      /\ r.done = FALSE /\ r.outcome = -1 /\ r.size = 1 + Sum(S!ProofSize, P) /\ r.size <= s
  BY <1>7
<1>10. P \cup {} = P
  OBVIOUS
<1> HIDE DEF r
<1>11. r \in LossGot(p, s, P, {})
  BY <1>9, <1>10 DEF LossGot
<1> QED BY <1>8, <1>11 DEF P

\* The sum over the moves that passed, as LossTree writes it.
EvenIter(p, s, below, P) ==
  CHOOSE iter : iter = [t \in SUBSET P |->
    IF t = {} THEN 0
    ELSE S!Opposite(below[CHOOSE x \in t : TRUE].win[S!share(p, s)]).size
         + iter[t \ {CHOOSE x \in t : TRUE}]]

LEMMA EvenIterIs ==
  ASSUME NEW p, NEW s, NEW below, NEW P
  PROVE  EvenIter(p, s, below, P)[P] = Sum(EvenSize(p, s, below, P), P)
<1> DEFINE f == EvenSize(p, s, below, P)
           Even(g) == [t \in SUBSET P |->
              IF t = {} THEN 0
              ELSE S!Opposite(below[CHOOSE x \in t : TRUE].win[S!share(p, s)]).size
                   + g[t \ {CHOOSE x \in t : TRUE}]]
           Body(g) == [t \in SUBSET P |->
              IF t = {} THEN 0
              ELSE f[CHOOSE x \in t : TRUE] + g[t \ {CHOOSE x \in t : TRUE}]]
<1>1. \A g : Even(g) = Body(g)
  <2> TAKE g
  <2>1. ASSUME NEW t \in SUBSET P, t # {}
        PROVE  S!Opposite(below[CHOOSE x \in t : TRUE].win[S!share(p, s)]).size
                 = f[CHOOSE x \in t : TRUE]
    <3>1. (CHOOSE x \in t : TRUE) \in P
      BY <2>1
    <3> QED BY <3>1 DEF EvenSize
  <2> HIDE DEF f
  <2> QED BY <2>1
<1>2. EvenIter(p, s, below, P) = CHOOSE g : g = Even(g)
  BY Zenon DEF EvenIter
<1>3. Iter(f, P) = CHOOSE g : g = Body(g)
  BY Zenon DEF Iter
<1> HIDE DEF Even, Body
<1>4. EvenIter(p, s, below, P) = Iter(f, P)
  BY <1>1, <1>2, <1>3
<1> QED BY <1>4 DEF Sum

\* Counting the moves that fit an even share first loses no proof within the
\* limit, and no move is counted twice.
LEMMA LossTreeIs ==
  ASSUME NEW p \in Position, p \notin Terminal, NEW s \in 1 .. MaxLimit,
         NEW below, Below(p, below)
  PROVE  RightLoss(p, s, S!LossTree(p, s, below))
<1> DEFINE X == 1 .. Degree(p)
           P == Passed(p, s, below)
           V == [A \in SUBSET Children[p] |-> LossGot(p, s, P, A)]
           try == [a \in Children[p] \X UNION {V[A] : A \in SUBSET Children[p]} |->
                     LossTry(s, below, P, a[2], a[1])]
           base == LossStart(p, s, below, P)
           Body(it) == [t \in SUBSET X |->
                          IF t = {} THEN base
                          ELSE LossTry(s, below, P, it[t \ {Last(t)}], MoveAt(p, t))]
<1>0. P \in SUBSET Children[p] /\ \A c \in P : D!Victor[c] = Mover[p]
  BY PassedIs
<1>1. \A A \in SUBSET Children[p] : V[A] = LossGot(p, s, P, A)
  OBVIOUS
<1>2. base \in V[{}]
  <2>1. base \in LossGot(p, s, P, {})
    BY LossStarts
  <2> QED BY <2>1
<1> HIDE DEF P
<1>3. ASSUME NEW A \in SUBSET Children[p], NEW c \in Children[p] \ A, NEW r \in V[A]
      PROVE  /\ LossTry(s, below, P, r, c) \in V[A \cup {c}]
             /\ try[<<c, r>>] = LossTry(s, below, P, r, c)
  <2>1. LossTry(s, below, P, r, c) \in LossGot(p, s, P, A \cup {c})
    BY <1>0, <1>1, LossTryKeeps
  <2>2. A \cup {c} \in SUBSET Children[p]
    OBVIOUS
  <2>3. <<c, r>> \in Children[p] \X UNION {V[B] : B \in SUBSET Children[p]}
    <3> HIDE DEF V
    <3> QED OBVIOUS
  <2>4. try[<<c, r>>] = LossTry(s, below, P, r, c)
    <3> HIDE DEF V
    <3> QED BY <2>3
  <2> QED BY <1>1, <2>1, <2>2, <2>4
<1> HIDE DEF V, try, base
<1>4. PICK it : /\ Looped(it, p, base, try)
                /\ \A t \in SUBSET X : it[t] \in V[Tried(p, t)]
  <2>1. ASSUME NEW A \in SUBSET Children[p], NEW c \in Children[p] \ A, NEW r \in V[A]
        PROVE  try[<<c, r>>] \in V[A \cup {c}]
    BY <1>3
  <2>2. Tries(p, V, base, try)
    BY <1>2, <2>1 DEF Tries
  <2> QED BY <2>2, LoopDefined
<1>5. it = Body(it)
  <2>1. ASSUME NEW t \in SUBSET X, t # {}
        PROVE  try[<<MoveAt(p, t), it[t \ {Last(t)}]>>]
                 = LossTry(s, below, P, it[t \ {Last(t)}], MoveAt(p, t))
    <3>1. /\ Tried(p, t \ {Last(t)}) \in SUBSET Children[p]
          /\ MoveAt(p, t) \in Children[p] \ Tried(p, t \ {Last(t)})
          /\ t \ {Last(t)} \in SUBSET X
      BY <2>1, TriedIs
    <3>2. it[t \ {Last(t)}] \in V[Tried(p, t \ {Last(t)})]
      BY <1>4, <3>1
    <3> QED BY <3>1, <3>2, <1>3
  <2> QED BY <1>4, <2>1 DEF Looped
<1> DEFINE loop == CHOOSE g : g = Body(g)
<1>6. loop = Body(loop)
  <2> HIDE DEF Body
  <2> QED BY <1>5
<1> HIDE DEF loop
<1>7. loop[1 .. Degree(p)] \in LossGot(p, s, P, Children[p])
  <2>1. \A t \in SUBSET X : loop[t] = IF t = {} THEN base
                ELSE LossTry(s, below, P, loop[t \ {Last(t)}], MoveAt(p, t))
    BY <1>6, Zenon
  <2>2. loop[{}] \in V[{}]
    BY <2>1, <1>2
  <2>3. ASSUME NEW t \in SUBSET X, t # {},
               loop[t \ {Last(t)}] \in V[Tried(p, t \ {Last(t)})]
        PROVE  loop[t] \in V[Tried(p, t)]
    <3>1. loop[t] = LossTry(s, below, P, loop[t \ {Last(t)}], MoveAt(p, t))
      BY <2>1, <2>3
    <3>2. /\ Tried(p, t \ {Last(t)}) \in SUBSET Children[p]
          /\ MoveAt(p, t) \in Children[p] \ Tried(p, t \ {Last(t)})
          /\ Tried(p, t) = Tried(p, t \ {Last(t)}) \cup {MoveAt(p, t)}
      BY <2>3, TriedIs
    <3>3. LossTry(s, below, P, loop[t \ {Last(t)}], MoveAt(p, t))
            \in V[Tried(p, t \ {Last(t)}) \cup {MoveAt(p, t)}]
      BY <2>3, <3>2, <1>3
    <3> QED BY <3>1, <3>2, <3>3
  <2>4. loop[1 .. Degree(p)] \in V[Children[p]]
    BY <2>2, <2>3, LoopEnds
  <2> QED BY <2>4, <1>1
<1>8. S!LossTree(p, s, below) =
         IF P = {} THEN S!Unsolved
         ELSE LET r == loop[1 .. Degree(p)]
              IN [outcome |-> r.outcome, size |-> r.size]
  <2> DEFINE first == [done |-> FALSE, outcome |-> -1,
                       size |-> 1 + EvenIter(p, s, below, P)[P]]
             Over(D0) == CHOOSE g : g = [t \in SUBSET D0 |->
                 IF t = {} THEN first
                 ELSE LossTry(s, below, P, g[t \ {S!Max(t)}], S!Moves(p)[S!Max(t)])]
  <2>1. S!LossTree(p, s, below) =
          IF P = {} THEN S!Unsolved
          ELSE LET r == Over(DOMAIN S!Moves(p))[DOMAIN S!Moves(p)]
               IN [outcome |-> r.outcome, size |-> r.size]
    BY Zenon DEF S!LossTree, S!FoldLeft, S!MapThenFoldSet, S!MapThenSumSet, P, Passed,
                 EvenIter, LossTry
  <2>2. DOMAIN S!Moves(p) = X
    BY TriedIs
  <2>3. first = base
    BY EvenIterIs DEF base, LossStart
  <2>4. Over(X) = loop
    <3>1. \A t : S!Max(t) = Last(t)
      BY Shared DEF Last
    <3> HIDE DEF first
    <3>2. \A g : [t \in SUBSET X |->
                 IF t = {} THEN first
                 ELSE LossTry(s, below, P, g[t \ {S!Max(t)}], S!Moves(p)[S!Max(t)])]
                   = Body(g)
      BY <2>3, <3>1 DEF MoveAt
    <3> HIDE DEF Body, X
    <3> QED BY <3>2 DEF loop
  <2> HIDE DEF Over, X
  <2>5. S!LossTree(p, s, below) =
          IF P = {} THEN S!Unsolved
          ELSE LET r == Over(X)[X]
               IN [outcome |-> r.outcome, size |-> r.size]
    BY <2>1, <2>2
  <2> QED BY <2>4, <2>5 DEF X
<1>9. CASE P = {}
  <2>1. ~ProvedMoved(p, s)
    BY <1>9, PassedIs DEF P
  <2>2. RightLoss(p, s, S!Unsolved)
    BY <2>1 DEF RightLoss, S!Unsolved, Info
  <2> QED BY <1>8, <1>9, <2>2
<1>10. CASE P # {}
  BY <1>0, <1>7, <1>8, <1>10, LossEnds
<1> QED BY <1>9, <1>10

-----------------------------------------------------------------------------
(* The searches of a SizeSolver *)

\* A search of a terminal position, or with no limit, asks for no move.
LEMMA LeafIs ==
  ASSUME NEW p \in Position, NEW s \in 0 .. MaxLimit, s = 0 \/ p \in Terminal, NEW below
  PROVE  /\ RightWin(p, s, S!findWinTreeSize(p, s, below))
         /\ RightLoss(p, s, S!findLossTreeSize(p, s, below))
         /\ \A g : /\ S!findWinTreeSize(p, s, g) = S!findWinTreeSize(p, s, below)
                   /\ S!findLossTreeSize(p, s, g) = S!findLossTreeSize(p, s, below)
<1> DEFINE i == IF s = 0 THEN S!Unsolved ELSE S!AtTerminal(p)
<1>1. s \in Nat /\ (s <= 0 <=> s = 0) /\ (s > 0 <=> s # 0)
  BY MaxLimitIs
<1>2. \A g : S!findWinTreeSize(p, s, g) = i /\ S!findLossTreeSize(p, s, g) = i
  <2> TAKE g
  <2>1. CASE s = 0
    BY <1>1, <2>1 DEF S!findWinTreeSize, S!findLossTreeSize
  <2>2. CASE s # 0 /\ p \in Terminal
    BY <1>1, <2>2 DEF S!findWinTreeSize, S!findLossTreeSize
  <2> QED BY <2>1, <2>2
<1>3. S!ProofSize[p] \in Nat /\ S!ProofSize[p] > 0
  BY ProofSizeIs
<1>4. RightWin(p, s, i) /\ RightLoss(p, s, i)
  <2>1. CASE s = 0
    <3>1. i \in Info /\ i.outcome = 0
      BY <2>1 DEF S!Unsolved, Info
    <3>2. ~ProvedToMove(p, s) /\ ~ProvedMoved(p, s)
      BY <1>3, <2>1 DEF ProvedToMove, ProvedMoved
    <3> HIDE DEF i
    <3> QED BY <3>1, <3>2 DEF RightWin, RightLoss
  <2>2. CASE s # 0 /\ p \in Terminal
    <3>1. D!Victor[p] = Winner[p] /\ D!Victor[p] \in {Mover[p], D!Player(p), "none"}
      BY <2>2, VictorIs, ColorIs DEF Result
    <3>2. /\ Mover[p] # D!Player(p) /\ Mover[p] # "none" /\ D!Player(p) # "none"
          /\ S!Player(p) = D!Player(p)
      BY ColorIs, Shared DEF Color
    <3>3. S!ProofSize[p] = 1 /\ S!ProofSize[p] <= s
      <4>1. S!ProofSize[p] = 1
        BY <2>2, ProofSizeIs
      <4> QED BY <4>1, <1>1, <2>2
    <3>4. i = [outcome |-> CASE Winner[p] = D!Player(p) -> 1
                             [] Winner[p] = "none" -> 0
                             [] OTHER -> -1,
               size |-> 1]
      BY <2>2, <3>2 DEF S!AtTerminal
    <3>5. /\ i \in Info /\ i.size = 1
          /\ i.outcome = 1 <=> Winner[p] = D!Player(p)
          /\ i.outcome = -1 <=> Winner[p] = Mover[p]
      <4>1. CASE Winner[p] = D!Player(p)
        BY <3>2, <3>4, <4>1 DEF Info
      <4>2. CASE Winner[p] = "none"
        BY <3>2, <3>4, <4>2 DEF Info
      <4>3. CASE Winner[p] = Mover[p]
        BY <3>2, <3>4, <4>3 DEF Info
      <4> QED BY <3>1, <4>1, <4>2, <4>3
    <3> HIDE DEF i
    <3> QED BY <3>1, <3>3, <3>5 DEF RightWin, RightLoss, ProvedToMove, ProvedMoved
  <2> QED BY <2>1, <2>2
<1> HIDE DEF i
<1> QED BY <1>2, <1>4

LEMMA InnerIs ==
  ASSUME NEW p \in Position, p \notin Terminal, NEW s \in 1 .. MaxLimit,
         NEW below, Below(p, below)
  PROVE  /\ RightWin(p, s, S!findWinTreeSize(p, s, below))
         /\ RightLoss(p, s, S!findLossTreeSize(p, s, below))
<1>1. s \in Nat /\ ~(s <= 0) /\ s > 0
  BY MaxLimitIs
<1>2. S!findWinTreeSize(p, s, below) = S!WinTree(p, s, below)
  BY <1>1 DEF S!findWinTreeSize
<1>3. CASE S!share(p, s) = 0
  <2>1. S!findLossTreeSize(p, s, below) = S!Unsolved
    BY <1>1, <1>3 DEF S!findLossTreeSize
  <2>2. \A c \in Children[p] : S!ProofSize[c] > S!share(p, s)
    BY <1>3, SizesOfMoves
  <2>3. ~ProvedMoved(p, s)
    BY <2>2, NoneFits
  <2>4. RightLoss(p, s, S!Unsolved)
    BY <2>3 DEF RightLoss, S!Unsolved, Info
  <2> QED BY <1>2, <2>1, <2>4, WinTreeIs
<1>4. CASE S!share(p, s) # 0
  <2>1. S!findLossTreeSize(p, s, below) = S!LossTree(p, s, below)
    BY <1>1, <1>4 DEF S!findLossTreeSize
  <2> QED BY <1>2, <2>1, WinTreeIs, LossTreeIs
<1> QED BY <1>3, <1>4

\* What the searches of the moves make of a position's.
SearchStep(p, below) ==
  [win |-> [s \in 0 .. MaxLimit |-> S!findWinTreeSize(p, s, below)],
   loss |-> [s \in 0 .. MaxLimit |-> S!findLossTreeSize(p, s, below)]]

LEMMA SearchStepIs ==
  ASSUME NEW p \in Position, NEW g, \A c \in Sub(p) : g[c] \in Found(c)
  PROVE  SearchStep(p, g) \in Found(p)
<1>1. ASSUME NEW s \in 0 .. MaxLimit
      PROVE  /\ RightWin(p, s, S!findWinTreeSize(p, s, g))
             /\ RightLoss(p, s, S!findLossTreeSize(p, s, g))
  <2>1. CASE s = 0 \/ p \in Terminal
    BY <2>1, LeafIs
  <2>2. CASE s # 0 /\ p \notin Terminal
    <3>1. s \in 1 .. MaxLimit
      BY <2>2, MaxLimitIs
    <3>2. Below(p, g)
      BY <2>2 DEF Below, Sub
    <3> QED BY <2>2, <3>1, <3>2, InnerIs
  <2> QED BY <2>1, <2>2
<1>2. \A s \in 0 .. MaxLimit : /\ S!findWinTreeSize(p, s, g) \in Info
                               /\ S!findLossTreeSize(p, s, g) \in Info
  BY <1>1 DEF RightWin, RightLoss
<1>3. SearchStep(p, g) \in [win : [0 .. MaxLimit -> Info], loss : [0 .. MaxLimit -> Info]]
  BY <1>2 DEF SearchStep
<1>4. \A s \in 0 .. MaxLimit :
        /\ SearchStep(p, g).win[s] = S!findWinTreeSize(p, s, g)
        /\ SearchStep(p, g).loss[s] = S!findLossTreeSize(p, s, g)
  BY DEF SearchStep
<1> QED BY <1>1, <1>3, <1>4 DEF Found

LEMMA SearchStepSame ==
  ASSUME NEW p \in Position, p \in Terminal, NEW f, NEW g
  PROVE  SearchStep(p, f) = SearchStep(p, g)
<1>1. \A s \in 0 .. MaxLimit :
        /\ S!findWinTreeSize(p, s, f) = S!findWinTreeSize(p, s, g)
        /\ S!findLossTreeSize(p, s, f) = S!findLossTreeSize(p, s, g)
  BY LeafIs
<1> QED BY <1>1 DEF SearchStep

\* By induction over the game, both searches of every position are right for
\* every limit.
LEMMA SearchesAre == \A p \in Position : S!Searches[p] \in Found(p)
<1> DEFINE V == [p \in Position |-> Found(p)]
           step == [p \in Position |-> [g \in Args(p, Subs, V) |-> SearchStep(p, g)]]
           Of(p, f) == [c \in Children[p] |-> f[c]]
           Body(f) == [p \in Position |-> SearchStep(p, Of(p, f))]
<1>1. ASSUME NEW p \in Position, NEW g \in Args(p, Subs, V)
      PROVE  /\ step[p][g] = SearchStep(p, g) /\ V[p] = Found(p)
             /\ SearchStep(p, g) \in Found(p)
  <2>1. \A c \in Sub(p) : g[c] \in Found(c)
    <3>1. \A c \in Subs[p] : g[c] \in V[c]
      BY DEF Args
    <3>2. Subs[p] = Sub(p) /\ \A c \in Sub(p) : c \in Position
      BY SubIs DEF Subs
    <3>3. \A c \in Position : V[c] = Found(c)
      OBVIOUS
    <3> HIDE DEF V
    <3> QED BY <3>1, <3>2, <3>3
  <2>2. SearchStep(p, g) \in Found(p)
    BY <2>1, SearchStepIs
  <2>3. step[p][g] = SearchStep(p, g) /\ V[p] = Found(p)
    OBVIOUS
  <2> QED BY <2>2, <2>3
<1> HIDE DEF V, step
<1>2. PICK f : /\ f = [p \in Position |-> step[p][[c \in Subs[p] |-> f[c]]]]
               /\ \A p \in Position : f[p] \in V[p]
  <2>1. Stepwise(Position, Subs, V, step)
    BY <1>1 DEF Stepwise
  <2> QED BY <2>1, GameRanked, RankRecursion
<1>3. ASSUME NEW p \in Position
      PROVE  f[p] = SearchStep(p, Of(p, f))
  <2> DEFINE g == [c \in Subs[p] |-> f[c]]
  <2>1. g \in Args(p, Subs, V)
    <3>1. \A c \in Subs[p] : f[c] \in V[c]
      BY <1>2, GameRanked DEF Ranked
    <3> QED BY <3>1, ArgsAre
  <2>2. f[p] = step[p][g]
    BY <1>2
  <2>3. f[p] = SearchStep(p, g)
    <3> HIDE DEF g
    <3> QED BY <1>1, <2>1, <2>2
  <2>4. CASE p \in Terminal
    <3> HIDE DEF g, Of
    <3> QED BY <2>3, <2>4, SearchStepSame
  <2>5. CASE p \notin Terminal
    <3>1. Subs[p] = Children[p]
      BY <2>5 DEF Subs, Sub
    <3>2. g = Of(p, f)
      BY <3>1
    <3> HIDE DEF g, Of
    <3> QED BY <2>3, <3>2
  <2> QED BY <2>4, <2>5
<1>4. f = Body(f)
  <2> HIDE DEF Of
  <2> QED BY <1>2, <1>3
<1>5. S!Searches = Body(S!Searches)
  <2>1. S!Searches = CHOOSE g : g =
          [p \in Position |->
             [win |-> [s \in 0 .. S!Max(Limits \cup {0}) |->
                         S!findWinTreeSize(p, s, [c \in Children[p] |-> g[c]])],
              loss |-> [s \in 0 .. S!Max(Limits \cup {0}) |->
                         S!findLossTreeSize(p, s, [c \in Children[p] |-> g[c]])]]]
    BY Zenon DEF S!Searches
  <2>2. S!Max(Limits \cup {0}) = MaxLimit
    BY Shared DEF MaxLimit
  <2>3. S!Searches = CHOOSE g : g = Body(g)
    BY <2>1, <2>2, Zenon DEF SearchStep
  <2> HIDE DEF Body
  <2> QED BY <1>4, <2>3
<1>6. \A p \in Position : S!Searches[p] = SearchStep(p, Of(p, S!Searches))
  BY <1>5, Zenon
<1> DEFINE T == {p \in Position : S!Searches[p] \in Found(p)}
<1>7. ASSUME NEW p \in Position, Sub(p) \subseteq T
      PROVE  p \in T
  <2> DEFINE g == Of(p, S!Searches)
  <2>1. \A c \in Sub(p) : g[c] \in Found(c)
    <3>1. \A c \in Sub(p) : c \in Children[p]
      BY DEF Sub
    <3> QED BY <3>1, <1>7
  <2> HIDE DEF g
  <2>2. SearchStep(p, g) \in Found(p)
    BY <2>1, SearchStepIs
  <2>3. S!Searches[p] = SearchStep(p, g)
    BY <1>6 DEF g
  <2> QED BY <2>2, <2>3
<1>8. Position \subseteq T
  <2> HIDE DEF T
  <2> QED BY <1>7, TreeInduction
<1> QED BY <1>8

-----------------------------------------------------------------------------
(* What a SizeSolver prints *)

\* What is printed of a move of g, with the problem size s.
Printed(g, s, k, c) ==
  S!Opposite(IF k = "win" THEN S!Searches[c].loss[s] ELSE S!Searches[c].win[s])

\* What has been said was searched for the game and the limit there are now.
SizeIInv ==
  /\ Solver \in {"DepthSolver", "SizeSolver"}
  /\ Solver = "DepthSolver" => said = {}
  /\ Solver = "SizeSolver" =>
       /\ root \in Problem /\ problemSize \in Limits /\ kind \in {"win", "loss"}
       /\ unsaid \subseteq Children[root]
       /\ \A m \in said : /\ m.move \in Children[root]
                          /\ m.info = Printed(root, problemSize, kind, m.move)

LEMMA InitSizeIInv == Init => SizeIInv
BY DEF Init, S!SizeInit, SizeIInv

LEMMA SayKeeps ==
  ASSUME SizeIInv, Solver = "SizeSolver", Solver' = Solver, NEW result, S!Say(result),
         \A c \in unsaid : S!Opposite(result[c]) = Printed(root, problemSize, kind, c)
  PROVE  SizeIInv'
<1>1. PICK c \in unsaid :
        /\ unsaid' = unsaid \ {c}
        /\ said' = said \cup {[move |-> c, info |-> S!Opposite(result[c])]}
        /\ root' = root /\ problemSize' = problemSize /\ kind' = kind
  BY DEF S!Say
<1>2. ASSUME NEW m \in said'
      PROVE  /\ m.move \in Children[root]
             /\ m.info = Printed(root, problemSize, kind, m.move)
  <2>1. CASE m \in said
    BY <2>1 DEF SizeIInv
  <2>2. CASE m = [move |-> c, info |-> S!Opposite(result[c])]
    BY <1>1, <2>2 DEF SizeIInv
  <2> QED BY <1>1, <2>1, <2>2
<1> QED BY <1>1, <1>2 DEF SizeIInv

LEMMA NextSizeIInv ==
  SizeIInv /\ [Next]_<<Solver, root, problemSize, depthOnly, sizeOnly>> => SizeIInv'
<1> SUFFICES ASSUME SizeIInv, [Next]_<<Solver, root, problemSize, depthOnly, sizeOnly>>
             PROVE  SizeIInv'
  OBVIOUS
<1>1. CASE DepthSolves /\ UNCHANGED Solver
  BY <1>1 DEF SizeIInv, DepthSolves, sizeOnly
<1>2. CASE SizeSolves /\ UNCHANGED Solver
  <2>1. Solver = "SizeSolver" /\ S!SizeNext /\ Solver' = Solver
    BY <1>2 DEF SizeSolves
  <2>2. CASE S!SolveMoves
    BY <2>1, <2>2 DEF S!SolveMoves, S!Ask, SizeIInv
  <2>3. CASE S!solveWinMoves
    <3> DEFINE result == [c \in unsaid |-> S!Searches[c].loss[problemSize]]
    <3>1. kind = "win" /\ S!Say(result)
      BY <2>3 DEF S!solveWinMoves
    <3>2. \A c \in unsaid : S!Opposite(result[c]) = Printed(root, problemSize, kind, c)
      BY <3>1 DEF Printed
    <3> HIDE DEF result
    <3> QED BY <2>1, <3>1, <3>2, SayKeeps
  <2>4. CASE S!solveLossMoves
    <3> DEFINE result == [c \in unsaid |-> S!Searches[c].win[problemSize]]
    <3>1. kind = "loss" /\ S!Say(result)
      BY <2>4 DEF S!solveLossMoves
    <3>2. \A c \in unsaid : S!Opposite(result[c]) = Printed(root, problemSize, kind, c)
      BY <3>1 DEF Printed
    <3> HIDE DEF result
    <3> QED BY <2>1, <3>1, <3>2, SayKeeps
  <2> QED BY <2>1, <2>2, <2>3, <2>4 DEF S!SizeNext
<1>3. CASE UNCHANGED <<Solver, root, problemSize, depthOnly, sizeOnly>>
  BY <1>3 DEF SizeIInv, sizeOnly
<1> QED BY <1>1, <1>2, <1>3 DEF Next

LEMMA PrintedIs ==
  ASSUME NEW p \in Position, NEW c \in Children[p], NEW s \in Limits, NEW k \in {"win", "loss"}
  PROVE  LET i == Printed(p, s, k, c)
             by == IF k = "win" THEN D!Player(p) ELSE Mover[p]
             other == IF k = "win" THEN Mover[p] ELSE D!Player(p)
             sign == IF k = "win" THEN 1 ELSE -1
         IN /\ i.outcome = sign <=> D!Victor[c] = by /\ S!ProofSize[c] <= s
            /\ i.outcome = sign => i.size = S!ProofSize[c]
            /\ i.outcome = -sign => D!Victor[c] = other
<1>1. c \in Position /\ S!Searches[c] \in Found(c) /\ s \in 0 .. MaxLimit
  BY ColorIs, SearchesAre, MaxLimitIs
<1>2. CASE k = "win"
  <2> DEFINE b == S!Opposite(S!Searches[c].loss[s])
  <2>1. /\ b.outcome = 1 <=> D!Victor[c] = D!Player(p) /\ S!ProofSize[c] <= s
        /\ b.outcome = 1 => b.size = S!ProofSize[c]
        /\ b.outcome = -1 => D!Victor[c] = Mover[p]
    BY <1>1, LossRead
  <2>2. Printed(p, s, k, c) = b
    BY <1>2 DEF Printed
  <2> HIDE DEF b
  <2> QED BY <1>2, <2>1, <2>2
<1>3. CASE k = "loss"
  <2> DEFINE b == S!Opposite(S!Searches[c].win[s])
  <2>1. /\ b.outcome = -1 <=> D!Victor[c] = Mover[p] /\ S!ProofSize[c] <= s
        /\ b.outcome = -1 => b.size = S!ProofSize[c]
        /\ b.outcome = 1 => D!Victor[c] = D!Player(p)
    BY <1>1, WinRead
  <2>2. Printed(p, s, k, c) = b
    BY <1>3 DEF Printed
  <2> HIDE DEF b
  <2> QED BY <1>3, <2>1, <2>2
<1> QED BY <1>2, <1>3

LEMMA SizeIInvIsExact == SizeIInv => SizesAreMinimal
<1> SUFFICES ASSUME SizeIInv, Solver = "SizeSolver" PROVE SizesAreMinimal
  BY DEF SizeIInv, SizesAreMinimal, S!SizesAreMinimal
<1>1. /\ root \in Position /\ problemSize \in Limits /\ kind \in {"win", "loss"}
      /\ \A m \in said : /\ m.move \in Children[root]
                         /\ m.info = Printed(root, problemSize, kind, m.move)
  BY GameAssumption DEF SizeIInv
<1>2. /\ S!AgainstColor(D!Player(root)) = Mover[root]
      /\ S!AgainstColor(Mover[root]) = D!Player(root)
      /\ S!Player(root) = D!Player(root) /\ S!Victor = D!Victor
  <2>1. Mover[root] \in Color
    BY <1>1, GameAssumption
  <2> QED BY <2>1, Shared DEF D!Player, D!AgainstColor, S!AgainstColor, Color
<1>3. ASSUME NEW m \in said
      PROVE  LET by == IF kind = "win" THEN S!Player(root) ELSE Mover[root]
                 sign == IF kind = "win" THEN 1 ELSE -1
                 c == m.move
             IN /\ m.info.outcome = sign
                     <=> S!Victor[c] = by /\ S!ProofSize[c] <= problemSize
                /\ m.info.outcome = sign => m.info.size = S!ProofSize[c]
                /\ m.info.outcome = -sign => S!Victor[c] = S!AgainstColor(by)
  <2> DEFINE c == m.move
             i == Printed(root, problemSize, kind, c)
  <2>1. c \in Children[root] /\ m.info = i
    BY <1>1
  <2>2. LET by == IF kind = "win" THEN D!Player(root) ELSE Mover[root]
            other == IF kind = "win" THEN Mover[root] ELSE D!Player(root)
            sign == IF kind = "win" THEN 1 ELSE -1
        IN /\ i.outcome = sign <=> D!Victor[c] = by /\ S!ProofSize[c] <= problemSize
           /\ i.outcome = sign => i.size = S!ProofSize[c]
           /\ i.outcome = -sign => D!Victor[c] = other
    BY <1>1, <2>1, PrintedIs
  <2> HIDE DEF i
  <2>3. CASE kind = "win"
    BY <1>2, <2>1, <2>2, <2>3
  <2>4. CASE kind = "loss"
    BY <1>2, <2>1, <2>2, <2>4
  <2> QED BY <1>1, <2>3, <2>4
<1> QED BY <1>3 DEF SizesAreMinimal, S!SizesAreMinimal

\* What a SizeSolver prints of the moves of a game is right for its limit:
\* solveWinMoves prints 1 for exactly the moves that have a proof as a win with
\* no more nodes than the limit, with the size of the smallest, solveLossMoves
\* -1 likewise for the losing ones; the other sign is printed of no move it is
\* not true of.  The prunings of findWinTreeSize and findLossTreeSize, the
\* narrowed limit and the even share, cost neither a proof nor a node.
THEOREM SolverPrintsMinimalSizes == Spec => []SizesAreMinimal
<1>1. Spec => []SizeIInv
  BY InitSizeIInv, NextSizeIInv, PTL DEF Spec
<1> QED BY <1>1, SizeIInvIsExact, PTL

===============================================================================
