-------------------------- MODULE SolverDriverProofs --------------------------
(***************************************************************************)
(* What SolverDriver's runs show for two windows holds for any windows,    *)
(* directories of problems, crashes and reruns.                            *)
(***************************************************************************)
EXTENDS SolverDriver, TLAPS

Numbers == ToSet(Given)
Working == {"load", "look", "lock", "solve", "save", "tree", "back"}
Contents == Games \cup {NoGame}

InWindows ==
  [pc : Working \cup {"shell"}, todo : Seq(Numbers), out : Names, file : Names,
   board : Contents, sims : {"few", "many"}]

Answers == [file : {"absent", "empty", "answer"}, of : Contents]

TypeOK ==
  /\ given \in [Numbers -> Contents]
  /\ script \in [Windows -> Scripts]
  /\ win \in [Windows -> InWindows]
  /\ made \in [Names -> Contents]
  /\ ans \in [Names -> Answers]
  /\ tree \in [Names -> Contents]

\* The numbers solve_back comes to.
OnTheWay(n) == n <= Given[1] /\ (Given[1] - n) % 2 = 0

Todo(w) == IF script[w] = "solve_back" THEN {<<>>, <<Given[1]>>} ELSE Seq(Numbers)

\* A process has a command, and writes under the number of the file it loads,
\* which is the command's or one solve_back came to.
AtWork(w, x) ==
  /\ x.todo # <<>> /\ x.out = x.file /\ ~NoNumber(w)
  /\ IF script[w] = "solve_back" THEN OnTheWay(x.file)
     ELSE x.file = Head(x.todo)

\* What it loaded is a game that the file's name stands for.
Loaded(w, x) ==
  IF script[w] = "solve_back"
  THEN x.board = BackTo(x.file) /\ given[Given[1]] # NoGame
  ELSE x.board = given[x.file] /\ x.board # NoGame

\* Window w may be in state x.  It goes back only while there are names.
Sound(w, x) ==
  /\ x.todo \in Todo(w)
  /\ x.pc # "shell" => AtWork(w, x)
  /\ x.pc \notin {"shell", "load"} => Loaded(w, x)
  /\ x.pc \in {"save", "tree"} /\ x.sims = "few" => x.file >= LowestName + 2
  /\ x.pc = "back" => script[w] = "solve_back" /\ x.file >= LowestName + 2

WindowsInv == \A w \in Windows : Sound(w, win[w])

\* solve_back writes the games it comes to, under the names it comes to.
MadeInv ==
  \A n \in Names :
    made[n] # NoGame => Back /\ OnTheWay(n) /\ n < Given[1]
                        /\ made[n] = BackTo(n) /\ given[Given[1]] # NoGame

IInv == TypeOK /\ WindowsInv /\ MadeInv

-----------------------------------------------------------------------------
LEMMA FirstFact == Given[1] \in Numbers
BY DriverAssumption DEF Numbers, ToSet

LEMMA NamesFacts ==
  /\ Numbers \subseteq Names /\ Numbers \subseteq Int /\ 0 \in Names
  /\ Given[1] \in Numbers /\ Given \in Seq(Numbers)
<1>1. Given \in Seq(0 .. HighestName) /\ HighestName \in Nat
      /\ LowestName \in Int /\ LowestName <= 0
  BY DriverAssumption
<1>2. Numbers \subseteq 0 .. HighestName
  BY <1>1 DEF Numbers, ToSet
<1>3. Given \in Seq(Numbers)
  BY <1>1 DEF Numbers, ToSet
<1>4. 0 .. HighestName \subseteq Names
  BY <1>1 DEF Names
<1> QED BY <1>1, <1>2, <1>3, <1>4, FirstFact

LEMMA GivenFact == \A d \in Directories : d \in [Numbers -> Contents]
BY DriverAssumption DEF Numbers, Contents

LEMMA GamesFact ==
  /\ NoGame \notin Games /\ EmptyBoard \in Games
  /\ \A g \in Games : g.moves \in Nat
  /\ NoGame.moves = -1
BY DEF Games, NoGame, EmptyBoard, NoLine

\* The first moves of a game are a game, and of all its moves the game itself.
LEMMA FirstMovesFacts ==
  ASSUME NEW g \in Games, NEW k \in Int, k <= g.moves
  PROVE  FirstMoves(g.line, k) \in Games
         /\ (k = g.moves => FirstMoves(g.line, k) = g)
BY DEF FirstMoves, Games, EmptyBoard

\* Taking two moves back twice, or any number of times, ends where taking back
\* their sum does: at the empty board or before.
LEMMA UndoOfFirstMoves ==
  ASSUME NEW g \in Games, NEW k \in Int
  PROVE  getUndoSgf(FirstMoves(g.line, k)) = FirstMoves(g.line, k - 2)
BY DEF getUndoSgf, FirstMoves, EmptyBoard

LEMMA BackToFacts ==
  ASSUME TypeOK, given[Given[1]] # NoGame, NEW n \in Int, n <= Given[1]
  PROVE  /\ BackTo(n) \in Games /\ BackTo(n) # NoGame
         /\ n = Given[1] => BackTo(n) = given[n]
         /\ getUndoSgf(BackTo(n)) = BackTo(n - 2)
<1> DEFINE g == given[Given[1]]
<1>1. g \in Games
  BY NamesFacts DEF TypeOK, Contents
<1>2. g.moves \in Nat /\ Given[1] \in Int
  BY <1>1, GamesFact, NamesFacts
<1> DEFINE k == g.moves - (Given[1] - n)
<1>3. /\ k \in Int /\ k <= g.moves /\ (n = Given[1] => k = g.moves)
      /\ k - 2 = g.moves - (Given[1] - (n - 2))
  BY <1>2
<1>4. BackTo(n) = FirstMoves(g.line, k) /\ BackTo(n - 2) = FirstMoves(g.line, k - 2)
  BY <1>3 DEF BackTo
<1> HIDE DEF g, k
<1>5. BackTo(n) \in Games
  BY <1>1, <1>3, <1>4, FirstMovesFacts
<1>6. n = Given[1] => BackTo(n) = g
  BY <1>1, <1>3, <1>4, FirstMovesFacts
<1>7. getUndoSgf(BackTo(n)) = BackTo(n - 2)
  BY <1>1, <1>3, <1>4, UndoOfFirstMoves
<1> QED BY <1>5, <1>6, <1>7, GamesFact DEF g

\* A window's commands are its script's.
LEMMA TodoFacts ==
  ASSUME TypeOK, NEW w \in Windows
  PROVE  /\ <<>> \in Todo(w) /\ Todo(w) \subseteq Seq(Numbers)
         /\ Commands(script[w]) \in Todo(w)
         /\ \A t \in Todo(w) : t # <<>> => Tail(t) \in Todo(w) /\ Head(t) \in Numbers
         /\ script[w] = "solve_back" =>
              \A t \in Todo(w) : t # <<>> => Head(t) = Given[1]
<1> DEFINE one == <<Given[1]>>
<1>1. one \in Seq(Numbers) /\ Tail(one) = <<>> /\ Head(one) = Given[1]
      /\ one # <<>> /\ <<>> \in Seq(Numbers)
  BY NamesFacts
<1>2. \A t \in Seq(Numbers) : t # <<>> => Tail(t) \in Seq(Numbers)
                                         /\ Head(t) \in Numbers
  OBVIOUS
<1>3. script[w] \in Scripts
  BY DEF TypeOK
<1>4. Todo(w) = IF script[w] = "solve_back" THEN {<<>>, one} ELSE Seq(Numbers)
  BY DEF Todo
<1>5. Commands(script[w]) = IF script[w] = "solve_back" THEN one ELSE Given
  BY DEF Commands
<1>6. Given[1] \in Numbers /\ Given \in Seq(Numbers)
  BY NamesFacts
<1> HIDE DEF one
<1>7. CASE script[w] = "solve_back"
  <2>1. Todo(w) = {<<>>, one} /\ Commands(script[w]) = one
    BY <1>4, <1>5, <1>7
  <2> QED BY <1>1, <1>6, <2>1
<1>8. CASE script[w] # "solve_back"
  <2>1. Todo(w) = Seq(Numbers) /\ Commands(script[w]) = Given
    BY <1>4, <1>5, <1>8
  <2> QED BY <1>1, <1>2, <1>6, <1>8, <2>1
<1> QED BY <1>7, <1>8

\* A window that has no process.
LEMMA FreshWindow ==
  ASSUME TypeOK, NEW w \in Windows, NEW todo \in Todo(w)
  PROVE  InWindow(todo) \in InWindows /\ Sound(w, InWindow(todo))
<1>1. todo \in Seq(Numbers)
  BY TodoFacts
<1> QED BY <1>1, NamesFacts DEF InWindow, InWindows, Sound, Contents

LEMMA InitInv == Init => IInv
<1> SUFFICES ASSUME Init PROVE IInv
  OBVIOUS
<1> USE DEF Init
<1>1. script \in [Windows -> Scripts] /\ given \in [Numbers -> Contents]
  BY GivenFact
<1>2. \A w \in Windows : Commands(script[w]) \in Todo(w)
                         /\ Commands(script[w]) \in Seq(Numbers)
  BY <1>1, NamesFacts DEF Scripts, Todo, Commands
<1>3. \A w \in Windows : win[w] \in InWindows /\ Sound(w, win[w])
  BY <1>2, NamesFacts DEF InWindow, InWindows, Sound, Contents
<1>4. TypeOK
  BY <1>1, <1>3 DEF TypeOK, Answers, Contents
<1>5. WindowsInv /\ MadeInv
  BY <1>3 DEF WindowsInv, MadeInv
<1> QED BY <1>4, <1>5 DEF IInv

\* One window changes, to a state it may be in.
LEMMA OneWindow ==
  ASSUME IInv, NEW w \in Windows, NEW x \in InWindows, Sound(w, x),
         win' = [win EXCEPT ![w] = x],
         UNCHANGED constants,
         made' \in [Names -> Contents], MadeInv',
         ans' \in [Names -> Answers], tree' \in [Names -> Contents]
  PROVE  IInv'
<1>1. win' \in [Windows -> InWindows]
  BY DEF IInv, TypeOK
<1>2. TypeOK'
  BY <1>1 DEF IInv, TypeOK, constants
<1>3. \A v \in Windows : win'[v] = IF v = w THEN x ELSE win[v]
  BY DEF IInv, TypeOK
<1>4. \A v \in Windows, y \in InWindows : Sound(v, y) => Sound(v, y)'
  BY DEF Sound, Todo, AtWork, Loaded, NoNumber, BackTo, OnTheWay, constants
<1>5. \A v \in Windows : win[v] \in InWindows /\ Sound(v, win[v])
  BY DEF IInv, TypeOK, WindowsInv
<1>6. ASSUME NEW v \in Windows  PROVE Sound(v, win[v])'
  <2>1. CASE v = w
    <3>1. Sound(v, x)'
      BY <1>4, <2>1
    <3>2. win'[v] = x
      BY <1>3, <2>1
    <3> QED BY <3>1, <3>2 DEF Sound, Todo, AtWork, Loaded, NoNumber, BackTo, OnTheWay
  <2>2. CASE v # w
    <3>2. win'[v] = win[v]
      BY <1>3, <2>2
    <3> QED BY <3>2, <1>5
         DEF Sound, Todo, AtWork, Loaded, NoNumber, BackTo, OnTheWay, constants
  <2> QED BY <2>1, <2>2
<1>7. WindowsInv'
  BY <1>6 DEF WindowsInv
<1> QED BY <1>2, <1>7 DEF IInv

\* A window that reads the next command, or whose process ended.
LEMMA RestShell ==
  ASSUME IInv, NEW w \in Windows, NEW todo \in Todo(w),
         win' = [win EXCEPT ![w] = InWindow(todo)],
         UNCHANGED constants, UNCHANGED made,
         ans' \in [Names -> Answers], tree' \in [Names -> Contents]
  PROVE  IInv'
<1>1. InWindow(todo) \in InWindows /\ Sound(w, InWindow(todo))
  BY FreshWindow DEF IInv
<1>2. made' \in [Names -> Contents] /\ MadeInv'
  BY DEF IInv, TypeOK, MadeInv, Back, BackTo, OnTheWay, constants
<1> QED BY <1>1, <1>2, OneWindow

\* What is known of a window, and of the files when a step leaves them alone.
LEMMA WindowFacts ==
  ASSUME IInv, NEW w \in Windows
  PROVE  /\ win[w] \in InWindows /\ Sound(w, win[w])
         /\ win[w].todo # <<>> => Tail(win[w].todo) \in Todo(w)
         /\ <<>> \in Todo(w)
<1>1. win[w] \in InWindows /\ Sound(w, win[w])
  BY DEF IInv, TypeOK, WindowsInv
<1> QED BY <1>1, TodoFacts DEF IInv, Sound

LEMMA FilesKept ==
  ASSUME IInv, UNCHANGED constants
  PROVE  /\ UNCHANGED made => made' \in [Names -> Contents] /\ MadeInv'
         /\ UNCHANGED ans => ans' \in [Names -> Answers]
         /\ UNCHANGED tree => tree' \in [Names -> Contents]
BY DEF IInv, TypeOK, MadeInv, Back, BackTo, OnTheWay, constants

-----------------------------------------------------------------------------
(* The types, the windows and the files: one lemma per action.             *)

LEMMA DieInv ==
  ASSUME IInv, NEW w \in Windows, win[w].todo # <<>>, Die(w),
         UNCHANGED <<constants, files>>
  PROVE  IInv'
<1> DEFINE todo == IF script[w] = "solve.sh" THEN Tail(win[w].todo) ELSE <<>>
<1>1. todo \in Todo(w)
  BY WindowFacts
<1>2. win' = [win EXCEPT ![w] = InWindow(todo)]
  BY DEF Die
<1>3. UNCHANGED constants /\ UNCHANGED <<made, ans, tree>>
  BY DEF files
<1> QED BY <1>1, <1>2, <1>3, FilesKept, RestShell

LEMMA NextCommandInv ==
  ASSUME IInv, NEW w \in Windows, win[w].todo # <<>>, NextCommand(w),
         UNCHANGED <<constants, made>>,
         ans' \in [Names -> Answers], tree' \in [Names -> Contents]
  PROVE  IInv'
<1>1. Tail(win[w].todo) \in Todo(w)
  BY WindowFacts
<1>2. win' = [win EXCEPT ![w] = InWindow(Tail(win[w].todo))]
  BY DEF NextCommand
<1> QED BY <1>1, <1>2, RestShell

LEMMA ReadCommandInv ==
  ASSUME IInv, NEW w \in Windows, ReadCommand(w)  PROVE IInv'
<1> DEFINE n == Head(win[w].todo)
<1>1. win[w] \in InWindows /\ Sound(w, win[w]) /\ win[w].todo # <<>>
  BY WindowFacts DEF ReadCommand
<1>2. UNCHANGED constants /\ UNCHANGED <<made, ans, tree>>
  BY DEF ReadCommand, files
<1>3. CASE NoNumber(w)
  BY <1>1, <1>2, <1>3, DieInv DEF ReadCommand, files
<1>4. CASE ~NoNumber(w) /\ script[w] = "solve.sh" /\ Exists(n)
  BY <1>1, <1>2, <1>4, NextCommandInv, FilesKept DEF ReadCommand
<1>5. CASE ~NoNumber(w) /\ ~(script[w] = "solve.sh" /\ Exists(n))
  <2> DEFINE x == [win[w] EXCEPT !.pc = "load", !.out = n, !.file = n]
  <2>1. win' = [win EXCEPT ![w] = x]
    BY <1>5 DEF ReadCommand
  <2>2. n \in Numbers /\ n \in Names /\ n \in Int
        /\ (script[w] = "solve_back" => n = Given[1])
    BY <1>1, TodoFacts, NamesFacts DEF Sound, IInv
  <2>3. x \in InWindows
    BY <1>1, <2>2 DEF InWindows, Working
  <2>4. x.pc = "load" /\ x.out = n /\ x.file = n /\ x.todo = win[w].todo
    BY <1>1 DEF InWindows
  <2>5. script[w] = "solve_back" => OnTheWay(n)
    BY <2>2 DEF OnTheWay
  <2> HIDE DEF x
  <2>6. AtWork(w, x)
    BY <1>1, <1>5, <2>4, <2>5 DEF AtWork
  <2>7. Sound(w, x)
    BY <1>1, <2>4, <2>6 DEF Sound
  <2> HIDE DEF n
  <2> QED BY <1>2, <2>1, <2>3, <2>7, FilesKept, OneWindow
<1> QED BY <1>3, <1>4, <1>5

\* What loadProblem finds is a game the file's name stands for.
LEMMA LoadedGame ==
  ASSUME IInv, NEW w \in Windows, At(w, "load")
  PROVE  /\ Game(w) \in Contents
         /\ Game(w) # NoGame => Loaded(w, [win[w] EXCEPT !.board = Game(w)])
<1> DEFINE n == win[w].file
           x == [win[w] EXCEPT !.board = Game(w)]
<1>1. win[w] \in InWindows /\ Sound(w, win[w]) /\ AtWork(w, win[w])
  BY WindowFacts DEF At, Sound
<1>2. n \in Names /\ n \in Int /\ win[w].todo # <<>> /\ TypeOK
  BY <1>1, DriverAssumption DEF InWindows, AtWork, Names, IInv
<1>3. Head(win[w].todo) \in Numbers
      /\ (script[w] = "solve_back" => Head(win[w].todo) = Given[1])
  BY <1>1, <1>2, TodoFacts DEF Sound
<1>4. Game(w) = IF n = Head(win[w].todo) THEN given[n] ELSE made[n]
  BY DEF Game
<1>5. x.board = Game(w) /\ x.file = n
  BY <1>1 DEF InWindows
<1> HIDE DEF n, x
<1>6. Game(w) \in Contents
  BY <1>2, <1>3, <1>4 DEF TypeOK
<1>7. ASSUME Game(w) # NoGame  PROVE Loaded(w, x)
  <2>1. CASE script[w] # "solve_back"
    <3>1. n = Head(win[w].todo)
      BY <1>1, <2>1 DEF AtWork, n
    <3> QED BY <1>4, <1>5, <1>7, <2>1, <3>1 DEF Loaded
  <2>2. CASE script[w] = "solve_back" /\ n = Given[1]
    <3>1. Game(w) = given[n]
      BY <1>3, <1>4, <2>2
    <3>2. BackTo(n) = given[n]
      BY <1>2, <1>7, <2>2, <3>1, BackToFacts
    <3> QED BY <1>5, <1>7, <2>2, <3>1, <3>2 DEF Loaded
  <2>3. CASE script[w] = "solve_back" /\ n # Given[1]
    <3>1. Game(w) = made[n]
      BY <1>3, <1>4, <2>3
    <3> QED BY <1>2, <1>5, <1>7, <2>3, <3>1 DEF Loaded, IInv, MadeInv
  <2> QED BY <2>1, <2>2, <2>3
<1> QED BY <1>6, <1>7 DEF x

LEMMA LoadProblemInv ==
  ASSUME IInv, NEW w \in Windows, loadProblem(w)  PROVE IInv'
<1>1. win[w] \in InWindows /\ Sound(w, win[w]) /\ win[w].pc = "load"
      /\ win[w].todo # <<>>
  BY WindowFacts DEF loadProblem, At, Sound, AtWork
<1>2. UNCHANGED constants /\ UNCHANGED <<made, ans, tree>>
  BY DEF loadProblem, files
<1>3. CASE Game(w) = NoGame
  BY <1>1, <1>2, <1>3, FilesKept, NextCommandInv DEF loadProblem
<1>4. CASE Game(w) # NoGame
  <2> DEFINE y == [win[w] EXCEPT !.board = Game(w)]
             x == [win[w] EXCEPT !.pc = "look", !.board = Game(w)]
  <2>1. win' = [win EXCEPT ![w] = x]
    BY <1>4 DEF loadProblem
  <2>2. Game(w) \in Contents /\ Loaded(w, y)
    BY <1>4, LoadedGame DEF loadProblem
  <2>3. x \in InWindows /\ x.pc = "look" /\ x.board = y.board /\ x.file = y.file
        /\ x.todo = win[w].todo /\ x.out = win[w].out /\ x.file = win[w].file
    BY <1>1, <2>2 DEF InWindows, Working
  <2> HIDE DEF x, y
  <2>4. Loaded(w, x)
    BY <2>2, <2>3 DEF Loaded
  <2>5. Sound(w, x)
    BY <1>1, <2>3, <2>4 DEF Sound, AtWork
  <2> QED BY <1>2, <2>1, <2>3, <2>5, FilesKept, OneWindow
<1> QED BY <1>3, <1>4

\* A window that goes on from one point of its work to another.
LEMMA GotoSound ==
  ASSUME IInv, NEW w \in Windows, NEW pc \in Working, Goto(w, pc),
         win[w].pc \notin {"shell", "load"},
         pc \in {"save", "tree"} => win[w].pc \in {"save", "tree"},
         pc = "back" => script[w] = "solve_back" /\ win[w].pc = "tree"
                        /\ win[w].sims = "few",
         UNCHANGED constants, UNCHANGED made,
         ans' \in [Names -> Answers], tree' \in [Names -> Contents]
  PROVE  IInv'
<1> DEFINE x == [win[w] EXCEPT !.pc = pc]
<1>1. win[w] \in InWindows /\ Sound(w, win[w])
  BY WindowFacts
<1>2. win' = [win EXCEPT ![w] = x]
  BY DEF Goto
<1>3. x \in InWindows /\ x.pc = pc /\ x.board = win[w].board
      /\ x.file = win[w].file /\ x.todo = win[w].todo /\ x.out = win[w].out
      /\ x.sims = win[w].sims
  BY <1>1 DEF InWindows
<1> HIDE DEF x
<1>4. AtWork(w, x) /\ Loaded(w, x)
  BY <1>1, <1>3 DEF Sound, AtWork, Loaded
<1>5. Sound(w, x)
  BY <1>1, <1>3, <1>4 DEF Sound
<1> QED BY <1>2, <1>3, <1>5, FilesKept, OneWindow

LEMMA LookForAnswerInv ==
  ASSUME IInv, NEW w \in Windows, LookForAnswer(w)  PROVE IInv'
<1>1. Sound(w, win[w]) /\ win[w].pc = "look" /\ win[w].todo # <<>>
  BY WindowFacts DEF LookForAnswer, At, Sound, AtWork
<1>2. UNCHANGED constants /\ UNCHANGED <<made, ans, tree>>
  BY DEF LookForAnswer, files
<1>3. CASE Exists(win[w].out)
  BY <1>1, <1>2, <1>3, FilesKept, NextCommandInv DEF LookForAnswer
<1>4. CASE ~Exists(win[w].out)
  BY <1>1, <1>2, <1>4, FilesKept, GotoSound DEF LookForAnswer, Working
<1> QED BY <1>3, <1>4

LEMMA LockProblemInv ==
  ASSUME IInv, NEW w \in Windows, lockProblem(w)  PROVE IInv'
<1>1. win[w] \in InWindows /\ win[w].pc = "lock"
  BY WindowFacts DEF lockProblem, At
<1>2. UNCHANGED constants /\ UNCHANGED <<made, tree>> /\ Goto(w, "solve")
  BY DEF lockProblem
<1>3. ans' \in [Names -> Answers]
  BY <1>1 DEF lockProblem, IInv, TypeOK, InWindows, Answers, Contents
<1> QED BY <1>1, <1>2, <1>3, FilesKept, GotoSound DEF Working

LEMMA SolveInv ==
  ASSUME IInv, NEW w \in Windows, solve(w)  PROVE IInv'
<1>1. win[w] \in InWindows /\ Sound(w, win[w]) /\ win[w].pc = "solve"
  BY WindowFacts DEF solve, At
<1>2. PICK sims \in {"few", "many"} :
        /\ win[w].file < LowestName + 2 => sims = "many"
        /\ win' = [win EXCEPT ![w].pc = "save", ![w].sims = sims]
  BY DEF solve
<1> DEFINE x == [win[w] EXCEPT !.pc = "save", !.sims = sims]
<1>3. win' = [win EXCEPT ![w] = x]
  BY <1>2
<1>4. x \in InWindows /\ x.pc = "save" /\ x.board = win[w].board
      /\ x.file = win[w].file /\ x.todo = win[w].todo /\ x.out = win[w].out
      /\ x.sims = sims
  BY <1>1 DEF InWindows, Working
<1> HIDE DEF x
<1>5. sims = "few" => win[w].file >= LowestName + 2
  BY <1>1, <1>2, DriverAssumption DEF InWindows, Names
<1>6. AtWork(w, x) /\ Loaded(w, x)
  BY <1>1, <1>4 DEF Sound, AtWork, Loaded
<1>7. Sound(w, x)
  BY <1>1, <1>4, <1>5, <1>6 DEF Sound
<1>8. UNCHANGED constants /\ UNCHANGED <<made, ans, tree>>
  BY DEF solve, files
<1> QED BY <1>3, <1>4, <1>7, <1>8, FilesKept, OneWindow

LEMMA SaveAnswerInv ==
  ASSUME IInv, NEW w \in Windows, saveAnswer(w)  PROVE IInv'
<1>1. win[w] \in InWindows /\ win[w].pc = "save"
  BY WindowFacts DEF saveAnswer, At
<1>2. UNCHANGED constants /\ UNCHANGED <<made, tree>> /\ Goto(w, "tree")
  BY DEF saveAnswer
<1>3. ans' \in [Names -> Answers]
  BY <1>1 DEF saveAnswer, IInv, TypeOK, InWindows, Answers
<1> QED BY <1>1, <1>2, <1>3, FilesKept, GotoSound DEF Working

LEMMA SaveTreeInv ==
  ASSUME IInv, NEW w \in Windows, saveTree(w)  PROVE IInv'
<1>1. win[w] \in InWindows /\ Sound(w, win[w]) /\ win[w].pc = "tree"
      /\ win[w].todo # <<>>
  BY WindowFacts DEF saveTree, At, Sound, AtWork
<1>2. UNCHANGED constants /\ UNCHANGED <<made, ans>>
  BY DEF saveTree
<1>3. tree' \in [Names -> Contents]
  BY <1>1 DEF saveTree, IInv, TypeOK, InWindows
<1>4. CASE script[w] = "solve_back" /\ win[w].sims = "few"
  <2>1. Goto(w, "back")
    BY <1>4 DEF saveTree
  <2> QED BY <1>1, <1>2, <1>3, <1>4, <2>1, FilesKept, GotoSound DEF Working
<1>5. CASE ~(script[w] = "solve_back" /\ win[w].sims = "few")
  <2>1. NextCommand(w)
    BY <1>5 DEF saveTree
  <2> QED BY <1>1, <1>2, <1>3, <2>1, FilesKept, NextCommandInv
<1> QED BY <1>4, <1>5

\* Two moves back from the game of a name solve_back came to is the game of the
\* name two lower.
LEMMA GoBackInv ==
  ASSUME IInv, NEW w \in Windows, GoBack(w)  PROVE IInv'
<1> DEFINE d == win[w].file
           n == d - 2
           x == [win[w] EXCEPT !.pc = "load", !.out = n, !.file = n]
<1>1. win[w] \in InWindows /\ Sound(w, win[w]) /\ win[w].pc = "back"
  BY WindowFacts DEF GoBack, At
<1>2. /\ script[w] = "solve_back" /\ d >= LowestName + 2 /\ OnTheWay(d)
      /\ win[w].board = BackTo(d) /\ given[Given[1]] # NoGame
      /\ ~NoNumber(w) /\ win[w].todo # <<>> /\ win[w].todo \in Todo(w)
  BY <1>1 DEF Sound, AtWork, Loaded
<1>3. d \in Int /\ d <= HighestName /\ Given[1] \in Int /\ d <= Given[1] /\ TypeOK
  BY <1>1, <1>2, NamesFacts, DriverAssumption DEF InWindows, Names, OnTheWay, IInv
<1>4. win' = [win EXCEPT ![w] = x]
  BY DEF GoBack
<1>5. getUndoSgf(win[w].board) = BackTo(n) /\ BackTo(n) \in Contents
  <2>1. getUndoSgf(BackTo(d)) = BackTo(d - 2)
    BY <1>2, <1>3, BackToFacts
  <2>2. d - 2 \in Int /\ d - 2 <= Given[1]
    BY <1>3
  <2>3. BackTo(d - 2) \in Games
    BY <1>2, <1>3, <2>2, BackToFacts
  <2> QED BY <1>2, <2>1, <2>3 DEF Contents
<1>6. UNCHANGED constants /\ UNCHANGED <<ans, tree>>
  BY DEF GoBack
<1>7. made' = IF ~Exists(n) THEN [made EXCEPT ![n] = getUndoSgf(win[w].board)]
              ELSE made
  BY DEF GoBack
<1> HIDE DEF d
<1>8. n \in Names /\ n \in Int /\ OnTheWay(n) /\ n < Given[1]
  <2>1. LowestName \in Int /\ HighestName \in Int
    BY DriverAssumption
  <2>2. d - 2 \in Int /\ LowestName <= d - 2 /\ d - 2 <= HighestName
        /\ d - 2 < Given[1]
    BY <1>2, <1>3, <2>1
  <2>3. (Given[1] - (d - 2)) % 2 = 0
    BY <1>2, <1>3 DEF OnTheWay
  <2>4. n \in Int /\ LowestName <= n /\ n <= HighestName /\ n < Given[1]
        /\ (Given[1] - n) % 2 = 0
    BY <2>2, <2>3
  <2> HIDE DEF n
  <2>5. n \in Names
    BY <2>1, <2>4 DEF Names
  <2>6. n <= Given[1]
    BY <1>3, <2>4
  <2> QED BY <2>4, <2>5, <2>6 DEF OnTheWay
<1> HIDE DEF n
<1>9. x \in InWindows /\ x.pc = "load" /\ x.out = n /\ x.file = n
      /\ x.todo = win[w].todo
  BY <1>1, <1>8 DEF InWindows, Working
<1> HIDE DEF x
<1>10. Sound(w, x)
  BY <1>2, <1>8, <1>9 DEF Sound, AtWork
<1>11. Back
  BY <1>2 DEF Back, NoNumber
<1>12. made' \in [Names -> Contents] /\ MadeInv'
  <2>1. made' \in [Names -> Contents] /\ \A m \in Names \ {n} : made'[m] = made[m]
    BY <1>3, <1>5, <1>7, <1>8 DEF TypeOK
  <2>2. made'[n] = BackTo(n) \/ made'[n] = made[n]
    BY <1>3, <1>5, <1>7, <1>8 DEF TypeOK
  <2>3. MadeInv'
    BY <1>2, <1>6, <1>8, <1>11, <2>1, <2>2
       DEF IInv, MadeInv, Back, BackTo, OnTheWay, constants
  <2> QED BY <2>1, <2>3
<1> QED BY <1>4, <1>6, <1>9, <1>10, <1>12, FilesKept, OneWindow

LEMMA RerunInv ==
  ASSUME IInv, NEW w \in Windows, Rerun(w)  PROVE IInv'
<1>1. Commands(script[w]) \in Todo(w)
  BY TodoFacts DEF IInv
<1>2. UNCHANGED constants /\ UNCHANGED <<made, ans, tree>>
      /\ win' = [win EXCEPT ![w] = InWindow(Commands(script[w]))]
  BY DEF Rerun, files
<1> QED BY <1>1, <1>2, FilesKept, RestShell

LEMMA NextInv == IInv /\ [Next]_vars => IInv'
<1> SUFFICES ASSUME IInv, [Next]_vars  PROVE IInv'
  OBVIOUS
<1>1. CASE UNCHANGED vars
  BY <1>1 DEF vars, IInv, TypeOK, WindowsInv, Sound, Todo, AtWork, Loaded,
              NoNumber, MadeInv, Back, BackTo, OnTheWay
<1>2. ASSUME NEW w \in Windows, UndoTooFar(w)  PROVE IInv'
  <2>1. win[w].todo # <<>>
    BY <1>2, WindowFacts DEF UndoTooFar, At, Sound, AtWork
  <2> QED BY <1>2, <2>1, DieInv DEF UndoTooFar
<1>3. ASSUME NEW w \in Windows, Crash(w)  PROVE IInv'
  <2>1. win[w].todo # <<>>
    BY <1>3, WindowFacts DEF Crash, At, Sound, AtWork
  <2> QED BY <1>3, <2>1, DieInv DEF Crash
<1>4. ASSUME NEW w \in Windows, Work(w)  PROVE IInv'
  BY <1>2, <1>4, ReadCommandInv, LoadProblemInv, LookForAnswerInv,
     LockProblemInv, SolveInv, SaveAnswerInv, SaveTreeInv, GoBackInv DEF Work
<1> QED BY <1>1, <1>3, <1>4, RerunInv DEF Next

-----------------------------------------------------------------------------
\* The types of the windows and the files hold whatever the processes do.  A
\* process at work writes under the number of the file it loaded, and what it
\* loaded is a given game, or the solve_back problem's game with as many moves
\* taken back as the number went down: whatever the games' lengths are.
THEOREM TypeCorrect == Spec => []IInv
<1> QED BY InitInv, NextInv, PTL DEF Spec

-----------------------------------------------------------------------------
(* Answers are of games their names stand for.                             *)

LEMMA MatchInit == Init => AnswersMatch
<1> SUFFICES ASSUME Init, NEW n \in Names
             PROVE  ~Answered(n) /\ tree[n] = NoGame
  BY DEF AnswersMatch
<1>0. /\ ans = [m \in Names |-> [file |-> "absent", of |-> NoGame]]
      /\ tree = [m \in Names |-> NoGame]
  BY Zenon DEF Init
<1>1. ans[n] = [file |-> "absent", of |-> NoGame] /\ tree[n] = NoGame
  BY <1>0, Zenon
<1> QED BY <1>1 DEF Answered

\* What a process writes to a file is a game the file's name stands for.
LEMMA WritesNamedGame ==
  ASSUME IInv, NEW w \in Windows, win[w].pc \notin {"shell", "load"}
  PROVE  win[w].out \in Names /\ win[w].board \in GamesNamed(win[w].out)
         /\ win[w].board # NoGame
<1> DEFINE n == win[w].file
<1>1. win[w] \in InWindows /\ Sound(w, win[w])
  BY WindowFacts
<1>2. /\ AtWork(w, win[w]) /\ Loaded(w, win[w]) /\ win[w].out = n
      /\ n \in Names /\ n \in Int /\ win[w].todo # <<>>
  BY <1>1, DriverAssumption DEF Sound, AtWork, InWindows, Names
<1>3. TypeOK /\ Head(win[w].todo) \in Numbers
  BY <1>1, <1>2, TodoFacts DEF IInv, Sound
<1> HIDE DEF n
<1>4. CASE script[w] # "solve_back"
  <2>1. n \in Numbers /\ win[w].board = given[n] /\ given[n] # NoGame
    BY <1>2, <1>3, <1>4 DEF AtWork, Loaded, n
  <2> QED BY <1>2, <2>1 DEF GamesNamed, Numbers
<1>5. CASE script[w] = "solve_back"
  <2>1. OnTheWay(n) /\ win[w].board = BackTo(n) /\ given[Given[1]] # NoGame
    BY <1>2, <1>5 DEF AtWork, Loaded, n
  <2>2. n <= Given[1] /\ Given[1] \in Int
    BY <2>1, NamesFacts DEF OnTheWay
  <2>3. BackTo(n) # NoGame /\ (n = Given[1] => BackTo(n) = given[n])
    BY <1>2, <1>3, <2>1, <2>2, BackToFacts
  <2>4. Back
    BY <1>2, <1>5 DEF AtWork, NoNumber, Back
  <2>5. CASE n = Given[1]
    <3>1. n \in Numbers /\ given[n] = BackTo(n)
      BY <2>3, <2>5, FirstFact
    <3> QED BY <1>2, <2>1, <2>3, <3>1 DEF GamesNamed, Numbers
  <2>6. CASE n # Given[1]
    <3>1. n < Given[1] /\ (Given[1] - n) % 2 = 0
      BY <1>2, <2>1, <2>2, <2>6 DEF OnTheWay
    <3> QED BY <1>2, <2>1, <2>3, <2>4, <3>1 DEF GamesNamed
  <2> QED BY <2>5, <2>6
<1> QED BY <1>4, <1>5

LEMMA MatchNext == IInv /\ AnswersMatch /\ [Next]_vars => AnswersMatch'
<1> SUFFICES ASSUME IInv, AnswersMatch, [Next]_vars  PROVE AnswersMatch'
  OBVIOUS
<1>0. UNCHANGED <<given, numbered, script>>
  BY DEF Next, Work, ReadCommand, loadProblem, LookForAnswer, lockProblem,
         solve, saveAnswer, saveTree, GoBack, UndoTooFar, Crash, Rerun, vars,
         constants
<1>1. \A n \in Names : GamesNamed(n)' = GamesNamed(n)
  BY <1>0 DEF GamesNamed, Back, BackTo
<1>2. ASSUME NEW w \in Windows, lockProblem(w)  PROVE AnswersMatch'
  BY <1>1, <1>2 DEF lockProblem, AnswersMatch, Answered, IInv, TypeOK
<1>3. ASSUME NEW w \in Windows, saveAnswer(w)  PROVE AnswersMatch'
  <2>1. win[w].out \in Names /\ win[w].board \in GamesNamed(win[w].out)
    BY <1>3, WritesNamedGame DEF saveAnswer, At
  <2>2. UNCHANGED tree /\ ans' = [ans EXCEPT ![win[w].out] =
                                    [file |-> "answer", of |-> win[w].board]]
    BY <1>3 DEF saveAnswer
  <2> HIDE DEF GamesNamed
  <2> QED BY <1>1, <2>1, <2>2 DEF AnswersMatch, Answered, IInv, TypeOK
<1>4. ASSUME NEW w \in Windows, saveTree(w)  PROVE AnswersMatch'
  <2>1. win[w].out \in Names /\ win[w].board \in GamesNamed(win[w].out)
    BY <1>4, WritesNamedGame DEF saveTree, At
  <2>2. UNCHANGED ans /\ tree' = [tree EXCEPT ![win[w].out] = win[w].board]
    BY <1>4 DEF saveTree
  <2> QED BY <1>1, <2>1, <2>2 DEF AnswersMatch, Answered, IInv, TypeOK
<1>5. CASE UNCHANGED <<ans, tree>>
  BY <1>1, <1>5 DEF AnswersMatch, Answered
<1> QED
  <2>1. CASE UNCHANGED <<ans, tree>>
    BY <1>5, <2>1
  <2> QED BY <1>2, <1>3, <1>4, <2>1, Zenon
       DEF Next, Work, ReadCommand, loadProblem, LookForAnswer, solve, GoBack,
           UndoTooFar, Crash, Rerun, vars, files

\* Whatever the directory holds, and whatever windows, crashes and reruns there
\* are, every answer and tree file is of a game its name stands for.
THEOREM AnswersOfTheirGames == Spec => []AnswersMatch
<1> QED BY InitInv, NextInv, MatchInit, MatchNext, PTL DEF Spec

\* Where solve_back comes to no game but the one the directory has under the
\* name, as in a series of problems two moves apart whose numbers are their
\* lengths, an answer under a given problem's name is an answer to that problem.
InSeries == \A n \in ToSet(Given) : GamesNamed(n) \subseteq {given[n]}
AnswersGiven ==
  InSeries => \A n \in ToSet(Given) : /\ Answered(n) => ans[n].of = given[n]
                                      /\ tree[n] \in {NoGame, given[n]}

THEOREM AnswersInSeries == Spec => []AnswersGiven
<1>1. AnswersMatch => AnswersGiven
  BY NamesFacts DEF AnswersMatch, AnswersGiven, InSeries, Numbers
<1> QED BY <1>1, AnswersOfTheirGames, PTL

-----------------------------------------------------------------------------
(* What is half done is being done, or its process died.                   *)

LEMMA HalfInit == Init => HalfDoneIsExplained
BY DEF Init, HalfDoneIsExplained, Answered

\* A step that writes no file, of a window that owes none, that goes on to
\* the writing, or whose number is listed among the orphans.
LEMMA WritesNoFile ==
  ASSUME HalfDoneIsExplained, NEW w \in Windows,
         UNCHANGED <<ans, tree>>, orphans \subseteq orphans',
         \A v \in Windows \ {w} : win'[v] = win[v],
         \/ win[w].pc \notin {"solve", "save", "tree"}
         \/ At(w, "solve") /\ At(w, "save")' /\ win'[w].out = win[w].out
         \/ win[w].out \in orphans'
  PROVE  HalfDoneIsExplained'
<1> SUFFICES ASSUME NEW n \in Names
             PROVE  /\ ans[n].file = "empty" => Busy(n)' \/ n \in orphans'
                    /\ (Answered(n) /\ tree[n] = NoGame)
                         => ToWriteTree(n)' \/ n \in orphans'
  BY DEF HalfDoneIsExplained, Answered
<1>1. Busy(n) => Busy(n)' \/ n \in orphans'
  BY DEF Busy, At
<1>2. ToWriteTree(n) => ToWriteTree(n)' \/ n \in orphans'
  BY DEF ToWriteTree, At
<1> QED BY <1>1, <1>2 DEF HalfDoneIsExplained

LEMMA HalfWork ==
  ASSUME IInv, HalfDoneIsExplained, NEW w \in Windows, Work(w)
  PROVE  HalfDoneIsExplained'
<1> USE DEF At
<1>1. win[w] \in InWindows
  BY DEF IInv, TypeOK
<1>2. \A v \in Windows \ {w} : win'[v] = win[v]
  BY DEF IInv, TypeOK, Work, ReadCommand, loadProblem, LookForAnswer,
         lockProblem, solve, saveAnswer, saveTree, GoBack, UndoTooFar, Die,
         NextCommand, Goto
<1>3. CASE ReadCommand(w) \/ loadProblem(w) \/ LookForAnswer(w) \/ GoBack(w)
           \/ UndoTooFar(w)
  <2>1. /\ UNCHANGED <<ans, tree, orphans>>
        /\ win[w].pc \notin {"solve", "save", "tree"}
    BY <1>3 DEF ReadCommand, loadProblem, LookForAnswer, GoBack, UndoTooFar,
                files, faults
  <2> QED BY <1>2, <2>1, WritesNoFile
<1>4. CASE solve(w)
  <2>1. UNCHANGED <<ans, tree, orphans>> /\ At(w, "solve")
    BY <1>4 DEF solve, files, faults
  <2>2. At(w, "save")' /\ win'[w].out = win[w].out
    BY <1>1, <1>4 DEF solve, IInv, TypeOK, InWindows
  <2> QED BY <1>2, <2>1, <2>2, WritesNoFile
<1>5. CASE lockProblem(w)
  <2>1. win'[w].out = win[w].out /\ win'[w].pc = "solve"
    BY <1>1, <1>5 DEF lockProblem, Goto, IInv, TypeOK, InWindows
  <2>2. UNCHANGED <<tree, orphans>> /\ win[w].pc = "lock"
    BY <1>5 DEF lockProblem, faults
  <2>3. ASSUME NEW n \in Names, n # win[w].out  PROVE ans'[n] = ans[n]
    BY <1>5, <2>3 DEF lockProblem, IInv, TypeOK
  <2>4. win[w].out \in Names => ans'[win[w].out].file = "empty"
    BY <1>5 DEF lockProblem, IInv, TypeOK
  <2>5. ASSUME NEW n \in Names
        PROVE  /\ Busy(n) => Busy(n)'
               /\ ToWriteTree(n) => ToWriteTree(n)'
               /\ n = win[w].out => Busy(n)'
    BY <1>2, <2>1, <2>2 DEF Busy, ToWriteTree
  <2> QED BY <2>2, <2>3, <2>4, <2>5 DEF HalfDoneIsExplained, Answered
<1>6. CASE saveAnswer(w)
  <2>1. win'[w].out = win[w].out /\ win'[w].pc = "tree"
    BY <1>1, <1>6 DEF saveAnswer, Goto, IInv, TypeOK, InWindows
  <2>2. UNCHANGED <<tree, orphans>> /\ win[w].pc = "save"
    BY <1>6 DEF saveAnswer, faults
  <2>3. ASSUME NEW n \in Names, n # win[w].out  PROVE ans'[n] = ans[n]
    BY <1>6, <2>3 DEF saveAnswer, IInv, TypeOK
  <2>4. win[w].out \in Names => ans'[win[w].out].file = "answer"
    BY <1>6 DEF saveAnswer, IInv, TypeOK
  <2>5. ASSUME NEW n \in Names
        PROVE  /\ Busy(n) /\ n # win[w].out => Busy(n)'
               /\ ToWriteTree(n) => ToWriteTree(n)'
               /\ n = win[w].out => ToWriteTree(n)'
    BY <1>2, <2>1, <2>2 DEF Busy, ToWriteTree
  <2> QED BY <2>2, <2>3, <2>4, <2>5 DEF HalfDoneIsExplained, Answered
<1>7. CASE saveTree(w)
  <2>1. UNCHANGED <<ans, orphans>> /\ win[w].pc = "tree"
    BY <1>7 DEF saveTree, faults
  <2>2. ASSUME NEW n \in Names, n # win[w].out  PROVE tree'[n] = tree[n]
    BY <1>7, <2>2 DEF saveTree, IInv, TypeOK
  <2>3. win[w].out \in Names /\ win[w].board # NoGame
    BY <2>1, WritesNamedGame
  <2>4. tree'[win[w].out] # NoGame
    BY <1>7, <2>3 DEF saveTree, IInv, TypeOK
  <2>5. ASSUME NEW n \in Names
        PROVE  /\ Busy(n) => Busy(n)'
               /\ ToWriteTree(n) /\ n # win[w].out => ToWriteTree(n)'
    BY <1>2, <2>1 DEF Busy, ToWriteTree
  <2> QED BY <2>1, <2>2, <2>4, <2>5 DEF HalfDoneIsExplained, Answered
<1> QED BY <1>3, <1>4, <1>5, <1>6, <1>7 DEF Work

LEMMA HalfNext ==
  IInv /\ HalfDoneIsExplained /\ [Next]_vars => HalfDoneIsExplained'
<1> SUFFICES ASSUME IInv, HalfDoneIsExplained, [Next]_vars
             PROVE  HalfDoneIsExplained'
  OBVIOUS
<1>1. CASE UNCHANGED vars
  BY <1>1 DEF vars, HalfDoneIsExplained, Answered, Busy, ToWriteTree, At
<1>2. ASSUME NEW w \in Windows, Crash(w)  PROVE HalfDoneIsExplained'
  <2>1. UNCHANGED <<ans, tree>> /\ orphans \subseteq orphans'
        /\ \A v \in Windows \ {w} : win'[v] = win[v]
    BY <1>2 DEF Crash, Die, files, IInv, TypeOK
  <2>2. win[w].pc \in {"solve", "save", "tree"} => win[w].out \in orphans'
    BY <1>2 DEF Crash
  <2> QED BY <2>1, <2>2, WritesNoFile
<1>3. ASSUME NEW w \in Windows, Rerun(w)  PROVE HalfDoneIsExplained'
  <2>1. UNCHANGED <<ans, tree, orphans>> /\ win[w].pc = "shell"
        /\ \A v \in Windows \ {w} : win'[v] = win[v]
    BY <1>3 DEF Rerun, files, At, IInv, TypeOK
  <2> QED BY <2>1, WritesNoFile
<1> QED BY <1>1, <1>2, <1>3, HalfWork DEF Next

\* However the windows race, crash and start again, an empty answer file or
\* an answer without a tree is one somebody works on or died over.
THEOREM NothingElseHalfDone == Spec => []HalfDoneIsExplained
<1> QED BY InitInv, NextInv, HalfInit, HalfNext, PTL DEF Spec

===============================================================================
