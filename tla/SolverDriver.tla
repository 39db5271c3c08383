----------------------------- MODULE SolverDriver -----------------------------
(***************************************************************************)
(* Solver processes that share a directory of problems and one of answers, *)
(* as the windows of run_go_parallel.sh do: each runs solve.sh (a process  *)
(* per problem), solve_all.sh (one process for all) or a process given a   *)
(* solve_back command, which goes back two moves after each easy problem.  *)
(*                                                                         *)
(* A problem file is known by the number in its name, which says nothing   *)
(* of the game in it.  A game is known by its line of play and how many    *)
(* moves of that line are played.  Of two answers written to one file the  *)
(* later is the one read: both start at the beginning.                     *)
(***************************************************************************)
EXTENDS Integers, Sequences, SequencesExt

CONSTANTS Windows,
          Given,        \* the numbers of the problem directory, in ls order
          HighestName,  \* the highest of them
          Lines,        \* the lines of play
          Directories,  \* the games the files may hold
          LowestName,   \* bound: solve_back finds the problems below too hard
          MaxCrashes,   \* bound: processes that die while they run
          MaxReruns     \* bound: scripts started again after their end

\* Games that part at the first move share the empty board only.  NoGame
\* stands for a missing file and for one with an illegal move.
NoLine == "none"
EmptyBoard == [line |-> NoLine, moves |-> 0]
NoGame == [line |-> NoLine, moves |-> -1]
FirstMoves(line, k) ==
  IF k <= 0 THEN EmptyBoard ELSE [line |-> line, moves |-> k]
Games == {EmptyBoard} \cup [line : Lines, moves : Nat \ {0}]

ASSUME DriverAssumption ==
  /\ HighestName \in Nat
  /\ LowestName \in Int /\ LowestName <= 0
  /\ Given \in Seq(0 .. HighestName) /\ Given # <<>>
  /\ NoLine \notin Lines
  /\ Directories \subseteq [ToSet(Given) -> Games \cup {NoGame}]
  /\ MaxCrashes \in Nat
  /\ MaxReruns \in Nat

Names == LowestName .. HighestName
Scripts == {"solve.sh", "solve_all.sh", "solve_back"}

\* The commands a script sends.
Commands(s) == IF s = "solve_back" THEN <<Given[1]>> ELSE Given

VARIABLES rules,    \* the game the program is built for
          given,    \* given[n]: the game in file n of the problem directory
          numbered, \* is there a "_" before the numbers in the files' names?
          script,   \* what runs in each window
          win,      \* the state of each window, see InWindow
          made,     \* made[n]: the game solve_back wrote to file n
          ans,      \* ans[n]: n's answer file and the game it is about
          tree,     \* tree[n]: the game of n's tree file
          crashes, reruns,
          orphans,  \* numbers whose process died with its work half done
          cut       \* windows whose script, as last started, lost a process

vars == <<rules, given, numbered, script, win, made, ans, tree, crashes, reruns, orphans, cut>>

\* A window between two commands.  Then out is m_sOutputFileName's number,
\* file the loaded file's, board the loaded game, sims the search's count.
InWindow(todo) ==
  [pc |-> "shell", todo |-> todo, out |-> 0, file |-> 0, board |-> NoGame,
   sims |-> "many"]

Init ==
  /\ rules \in {"Go", "Gomoku"}
  /\ given \in Directories
  /\ numbered \in BOOLEAN
  /\ script \in {s \in [Windows -> Scripts] :
                   \A v, w \in Windows :
                     s[v] = "solve_back" /\ s[w] = "solve_back" => v = w}
  /\ win = [w \in Windows |-> InWindow(Commands(script[w]))]
  /\ made = [n \in Names |-> NoGame]
  /\ ans = [n \in Names |-> [file |-> "absent", of |-> NoGame]]
  /\ tree = [n \in Names |-> NoGame]
  /\ crashes = 0
  /\ reruns = 0
  /\ orphans = {}
  /\ cut = {}

files == <<made, ans, tree>>
constants == <<rules, given, numbered, script>>
faults == <<crashes, reruns, orphans, cut>>

Exists(n) == ans[n].file # "absent"       \* f.good(), or -f
Answered(n) == ans[n].file = "answer"
At(w, pc) == win[w].pc = pc

-----------------------------------------------------------------------------
Goto(w, pc) == win' = [win EXCEPT ![w].pc = pc]
NextCommand(w) == win' = [win EXCEPT ![w] = InWindow(Tail(@.todo))]

\* A process ends before its time.  solve.sh goes on with the next one.
Die(w) ==
  win' = [win EXCEPT ![w] =
            InWindow(IF script[w] = "solve.sh" THEN Tail(@.todo) ELSE <<>>)]

\* solve_back reads its number behind the last "_" of the path: stoi throws.
NoNumber(w) == script[w] = "solve_back" /\ ~numbered

\* output_name and the command that follows it; solve.sh starts a process
\* for them only if it sees no answer file.
ReadCommand(w) ==
  /\ At(w, "shell") /\ win[w].todo # <<>>
  /\ LET n == Head(win[w].todo)
     IN IF NoNumber(w) THEN Die(w)
        ELSE IF script[w] = "solve.sh" /\ Exists(n) THEN NextCommand(w)
        ELSE win' = [win EXCEPT ![w].pc = "load", ![w].out = n, ![w].file = n]
  /\ UNCHANGED <<constants, files, faults>>

\* The first file is in the problem directory, those solve_back made are in
\* the output directory.
Game(w) ==
  LET n == win[w].file
  IN IF n = Head(win[w].todo) THEN given[n] ELSE made[n]

loadProblem(w) ==
  /\ At(w, "load")
  /\ IF Game(w) = NoGame THEN NextCommand(w)
     ELSE win' = [win EXCEPT ![w].pc = "look", ![w].board = Game(w)]
  /\ UNCHANGED <<constants, files, faults>>

\* Mutant of LookForAnswer: the break of solve_back in place of continue.
LookOrStop(w) ==
  /\ At(w, "look")
  /\ IF Exists(win[w].out) THEN win' = [win EXCEPT ![w] = InWindow(<<>>)]
     ELSE Goto(w, "lock")
  /\ UNCHANGED <<constants, files, faults>>

LookForAnswer(w) ==
  /\ At(w, "look")
  /\ IF Exists(win[w].out) THEN NextCommand(w)
     ELSE Goto(w, "lock")
  /\ UNCHANGED <<constants, files, faults>>

lockProblem(w) ==
  /\ At(w, "lock")
  /\ ans' = [ans EXCEPT ![win[w].out] = [file |-> "empty", of |-> NoGame]]
  /\ Goto(w, "solve")
  /\ UNCHANGED <<constants, made, tree, faults>>

solve(w) ==
  /\ At(w, "solve")
  /\ \E sims \in {"few", "many"} :
       /\ win[w].file < LowestName + 2 => sims = "many"
       /\ win' = [win EXCEPT ![w].pc = "save", ![w].sims = sims]
  /\ UNCHANGED <<constants, files, faults>>

\* Mutant of saveAnswer: a search that reached its limit saves nothing.
SaveIfFew(w) ==
  /\ At(w, "save")
  /\ ans' = IF win[w].sims = "many" THEN ans
            ELSE [ans EXCEPT ![win[w].out] =
                    [file |-> "answer", of |-> win[w].board]]
  /\ Goto(w, "tree")
  /\ UNCHANGED <<constants, made, tree, faults>>

saveAnswer(w) ==
  /\ At(w, "save")
  /\ ans' = [ans EXCEPT ![win[w].out] =
               [file |-> "answer", of |-> win[w].board]]
  /\ Goto(w, "tree")
  /\ UNCHANGED <<constants, made, tree, faults>>

saveTree(w) ==
  /\ At(w, "tree")
  /\ tree' = [tree EXCEPT ![win[w].out] = win[w].board]
  /\ IF script[w] = "solve_back" /\ win[w].sims = "few"
     THEN Goto(w, "back") ELSE NextCommand(w)
  /\ UNCHANGED <<constants, made, ans, faults>>

\* Two undo().  On the empty board Go's returns and Gomoku's asserts.  The
\* process ends without the assertion, too: the size of m_vMoves wraps round
\* and resizing the comments to it throws.
UndoAsserts(game) == rules = "Gomoku" /\ game.moves < 2

\* Mutant of getUndoSgf: one move is taken back.
UndoOnce(game) == FirstMoves(game.line, game.moves - 1)

getUndoSgf(game) == FirstMoves(game.line, game.moves - 2)

\* The number goes down by two whatever the game's length.
GoBack(w) ==
  LET n == win[w].file - 2
  IN /\ At(w, "back") /\ ~UndoAsserts(win[w].board)
     /\ made' = IF ~Exists(n)
                THEN [made EXCEPT ![n] = getUndoSgf(win[w].board)] ELSE made
     /\ win' = [win EXCEPT ![w].pc = "load", ![w].out = n, ![w].file = n]
     /\ UNCHANGED <<constants, ans, tree, faults>>

UndoTooFar(w) ==
  /\ At(w, "back") /\ UndoAsserts(win[w].board)
  /\ Die(w)
  /\ UNCHANGED <<constants, files, faults>>

Crash(w) ==
  /\ crashes < MaxCrashes
  /\ ~At(w, "shell")
  /\ crashes' = crashes + 1
  /\ orphans' = IF win[w].pc \in {"solve", "save", "tree"}
                THEN orphans \cup {win[w].out} ELSE orphans
  /\ cut' = cut \cup {w}
  /\ Die(w)
  /\ UNCHANGED <<constants, files, reruns>>

\* The operator starts a window's script again.
Rerun(w) ==
  /\ reruns < MaxReruns
  /\ At(w, "shell") /\ win[w].todo = <<>>
  /\ reruns' = reruns + 1
  /\ win' = [win EXCEPT ![w] = InWindow(Commands(script[w]))]
  /\ cut' = cut \ {w}
  /\ UNCHANGED <<constants, files, crashes, orphans>>

Work(w) ==
  \/ ReadCommand(w) \/ loadProblem(w) \/ LookForAnswer(w) \/ lockProblem(w)
  \/ solve(w) \/ saveAnswer(w) \/ saveTree(w) \/ GoBack(w) \/ UndoTooFar(w)

Next == \E w \in Windows : Work(w) \/ Crash(w) \/ Rerun(w)

\* The searches are limited, so a process that does not crash gets on.
Spec == Init /\ [][Next]_vars /\ \A w \in Windows : WF_vars(Work(w))

-----------------------------------------------------------------------------
Back == numbered /\ \E w \in Windows : script[w] = "solve_back"

\* The game of the first problem without as many of its last moves as n is
\* lower than its number.
BackTo(n) ==
  FirstMoves(given[Given[1]].line, given[Given[1]].moves - (Given[1] - n))

\* The games a problem named n may be: the given one, and the one solve_back
\* comes to.  They differ where the numbers are not the games' lengths.
GamesNamed(n) ==
  (IF n \in ToSet(Given) THEN {given[n]} \ {NoGame} ELSE {})
    \cup (IF Back /\ n < Given[1] /\ (Given[1] - n) % 2 = 0
          THEN {BackTo(n)} ELSE {})

\* Every answer file and tree file is of a game its name stands for, whichever
\* processes wrote them and however far solve_back went back.
AnswersMatch ==
  \A n \in Names : /\ Answered(n) => ans[n].of \in GamesNamed(n)
                   /\ tree[n] \in {NoGame} \cup GamesNamed(n)

Busy(n) == \E w \in Windows : win[w].out = n /\ win[w].pc \in {"solve", "save"}
ToWriteTree(n) == \E w \in Windows : win[w].out = n /\ At(w, "tree")

\* Only a process at work on a problem, or one that died over it, leaves an
\* empty answer file, or an answer without a tree.  Later processes skip
\* both for ever.
HalfDoneIsExplained ==
  \A n \in Names :
    /\ ans[n].file = "empty" => Busy(n) \/ n \in orphans
    /\ (Answered(n) /\ tree[n] = NoGame) => ToWriteTree(n) \/ n \in orphans

\* The problems a window's script can answer.
Solvable(w) == IF NoNumber(w) THEN {}
               ELSE {n \in ToSet(Commands(script[w])) : given[n] # NoGame}

\* In the end every problem of a script that lost no process has an answer,
\* or a process died over it: whatever the windows race for, and whatever
\* crashed before the script was last started.
AllAnswered ==
  \A w \in Windows : \A n \in Solvable(w) :
    Answered(n) \/ n \in orphans \/ w \in cut

Completed == <>[]AllAnswered

===============================================================================
