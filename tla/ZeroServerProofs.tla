-------------------------- MODULE ZeroServerProofs --------------------------
(***************************************************************************)
(* Theorems about the training loop, for every number of workers, games    *)
(* and iterations.                                                         *)
(***************************************************************************)
EXTENDS TrainingOrders, TLAPS

(* Facts about channels. *)

LEMMA HeadTail ==
  ASSUME NEW S, NEW s \in Seq(S), s # <<>>
  PROVE  /\ Head(s) \in S
         /\ Tail(s) \in Seq(S)
         /\ 1 \in DOMAIN s
         /\ Head(s) = s[1]
         /\ \A i \in DOMAIN Tail(s) : i \in Nat /\ i + 1 \in DOMAIN s /\ Tail(s)[i] = s[i + 1]
  OBVIOUS

LEMMA AppendFacts ==
  ASSUME NEW S, NEW s \in Seq(S), NEW e \in S
  PROVE  /\ Append(s, e) \in Seq(S)
         /\ DOMAIN s \subseteq DOMAIN Append(s, e)
         /\ Len(s) + 1 \in DOMAIN Append(s, e)
         /\ Append(s, e)[Len(s) + 1] = e
         /\ \A i \in DOMAIN s : Append(s, e)[i] = s[i]
         /\ \A i \in DOMAIN Append(s, e) : i \in DOMAIN s \/ i = Len(s) + 1
  OBVIOUS

LEMMA PrefixFacts ==
  ASSUME NEW S, NEW s \in Seq(S), NEW n \in 0 .. Len(s)
  PROVE  /\ SubSeq(s, 1, n) \in Seq(S)
         /\ \A i \in DOMAIN SubSeq(s, 1, n) : i \in DOMAIN s /\ SubSeq(s, 1, n)[i] = s[i]
  OBVIOUS

(* What appending, reading and losing messages does to Carries, AtMostOne and
   Only. *)

LEMMA CarriesAppend ==
  ASSUME NEW S, NEW s \in Seq(S), NEW e \in S, NEW k
  PROVE  Carries(Append(s, e), k) <=> Carries(s, k) \/ e.kind = k
  BY AppendFacts DEF Carries

LEMMA CarriesTail ==
  ASSUME NEW S, NEW s \in Seq(S), s # <<>>, NEW k
  PROVE  Carries(Tail(s), k) => Carries(s, k)
  BY HeadTail DEF Carries

LEMMA CarriesHead ==
  ASSUME NEW S, NEW s \in Seq(S), s # <<>>
  PROVE  Carries(s, Head(s).kind)
  BY HeadTail DEF Carries

LEMMA CarriesPrefix ==
  ASSUME NEW S, NEW s \in Seq(S), NEW n \in 0 .. Len(s), NEW k
  PROVE  Carries(SubSeq(s, 1, n), k) => Carries(s, k)
  BY PrefixFacts DEF Carries

LEMMA CarriesEmpty == \A k : ~Carries(<<>>, k)
  BY DEF Carries

LEMMA AtMostOneAppend ==
  ASSUME NEW S, NEW s \in Seq(S), NEW e \in S, NEW k, AtMostOne(s, k),
         e.kind = k => ~Carries(s, k)
  PROVE  AtMostOne(Append(s, e), k)
  BY AppendFacts DEF AtMostOne, Carries

LEMMA AtMostOneTail ==
  ASSUME NEW S, NEW s \in Seq(S), s # <<>>, NEW k, AtMostOne(s, k)
  PROVE  /\ AtMostOne(Tail(s), k)
         /\ Head(s).kind = k => ~Carries(Tail(s), k)
  <1>1. AtMostOne(Tail(s), k)
    <2> SUFFICES ASSUME NEW i \in DOMAIN Tail(s), NEW j \in DOMAIN Tail(s),
                        Tail(s)[i].kind = k, Tail(s)[j].kind = k
                 PROVE  i = j
      BY DEF AtMostOne
    <2>1. /\ i + 1 \in DOMAIN s /\ j + 1 \in DOMAIN s /\ i \in Nat /\ j \in Nat
          /\ s[i + 1].kind = k /\ s[j + 1].kind = k
      BY HeadTail
    <2> QED BY <2>1 DEF AtMostOne
  <1>2. Head(s).kind = k => ~Carries(Tail(s), k)
    <2> SUFFICES ASSUME Head(s).kind = k, NEW i \in DOMAIN Tail(s), Tail(s)[i].kind = k
                 PROVE  FALSE
      BY DEF Carries
    <2>1. /\ 1 \in DOMAIN s /\ i + 1 \in DOMAIN s /\ i \in Nat
          /\ s[1].kind = k /\ s[i + 1].kind = k
      BY HeadTail
    <2>2. i >= 1
      BY HeadTail
    <2> QED BY <2>1, <2>2 DEF AtMostOne
  <1> QED BY <1>1, <1>2

LEMMA AtMostOnePrefix ==
  ASSUME NEW S, NEW s \in Seq(S), NEW n \in 0 .. Len(s), NEW k, AtMostOne(s, k)
  PROVE  AtMostOne(SubSeq(s, 1, n), k)
  BY PrefixFacts DEF AtMostOne

LEMMA AtMostOneEmpty == \A k : AtMostOne(<<>>, k)
  BY DEF AtMostOne

LEMMA OnlyAppend ==
  ASSUME NEW S, NEW s \in Seq(S), NEW e \in S, NEW m, Only(s, m),
         e.kind = m.kind => e = m
  PROVE  Only(Append(s, e), m)
  BY AppendFacts DEF Only

LEMMA OnlyTail ==
  ASSUME NEW S, NEW s \in Seq(S), s # <<>>, NEW m, Only(s, m)
  PROVE  /\ Only(Tail(s), m)
         /\ Head(s).kind = m.kind => Head(s) = m
  BY HeadTail DEF Only

LEMMA OnlyPrefix ==
  ASSUME NEW S, NEW s \in Seq(S), NEW n \in 0 .. Len(s), NEW m, Only(s, m)
  PROVE  Only(SubSeq(s, 1, n), m)
  BY PrefixFacts DEF Only

LEMMA OnlyAbsent ==
  ASSUME NEW s, NEW m, ~Carries(s, m.kind)
  PROVE  Only(s, m)
  BY DEF Only, Carries

\* The messages of one kind on a channel name rising models between lo and hi.
Rising(chan, kind, lo, hi) ==
  \A i, j \in DOMAIN chan :
    i <= j /\ chan[i].kind = kind /\ chan[j].kind = kind =>
      lo <= chan[i].model /\ chan[i].model <= chan[j].model /\ chan[j].model <= hi

LEMMA RisingEmpty == \A k, lo, hi : Rising(<<>>, k, lo, hi)
  BY DEF Rising

LEMMA RisingTail ==
  ASSUME NEW S, NEW s \in Seq(S), s # <<>>, NEW k, NEW lo, NEW hi, Rising(s, k, lo, hi)
  PROVE  /\ Rising(Tail(s), k, lo, hi)
         /\ Head(s).kind = k =>
              /\ lo <= Head(s).model /\ Head(s).model <= hi
              /\ Rising(Tail(s), k, Head(s).model, hi)
  <1>1. ASSUME NEW i \in DOMAIN Tail(s), NEW j \in DOMAIN Tail(s), i <= j
        PROVE  /\ i + 1 \in DOMAIN s /\ j + 1 \in DOMAIN s /\ i + 1 <= j + 1
               /\ Tail(s)[i] = s[i + 1] /\ Tail(s)[j] = s[j + 1]
               /\ 1 \in DOMAIN s /\ Head(s) = s[1] /\ 1 <= i + 1
    BY <1>1
  <1>2. Rising(Tail(s), k, lo, hi)
    BY <1>1 DEF Rising
  <1>3. ASSUME Head(s).kind = k
        PROVE  /\ lo <= Head(s).model /\ Head(s).model <= hi
               /\ Rising(Tail(s), k, Head(s).model, hi)
    <2>1. 1 \in DOMAIN s /\ Head(s) = s[1] /\ 1 <= 1
      BY HeadTail
    <2>2. lo <= Head(s).model /\ Head(s).model <= hi
      BY <1>3, <2>1 DEF Rising
    <2>3. Rising(Tail(s), k, Head(s).model, hi)
      BY <1>1, <1>3 DEF Rising
    <2> QED BY <2>2, <2>3
  <1> QED BY <1>2, <1>3

LEMMA RisingPrefix ==
  ASSUME NEW S, NEW s \in Seq(S), NEW n \in 0 .. Len(s), NEW k, NEW lo, NEW hi,
         Rising(s, k, lo, hi)
  PROVE  Rising(SubSeq(s, 1, n), k, lo, hi)
  BY PrefixFacts DEF Rising

LEMMA RisingAppend ==
  ASSUME NEW S, NEW s \in Seq(S), NEW e \in S, NEW k, NEW lo, NEW hi, Rising(s, k, lo, hi)
  PROVE  e.kind # k => Rising(Append(s, e), k, lo, hi)
  BY AppendFacts DEF Rising

\* The bounds may be widened, and the last message may name the upper one.
LEMMA RisingWider ==
  ASSUME NEW S, NEW s \in Seq(S), \A m \in S : m.model \in Int,
         NEW k, NEW lo \in Int, NEW hi \in Int, Rising(s, k, lo, hi),
         NEW l \in Int, NEW h \in Int, l <= lo, hi <= h
  PROVE  /\ Rising(s, k, l, h)
         /\ \A e \in S : l <= e.model /\ h <= e.model => Rising(Append(s, e), k, l, e.model)
  <1>1. \A i \in DOMAIN s : s[i].model \in Int
    OBVIOUS
  <1>2. Rising(s, k, l, h)
    BY <1>1 DEF Rising
  <1>3. ASSUME NEW e \in S, l <= e.model, h <= e.model
        PROVE  Rising(Append(s, e), k, l, e.model)
    <2> SUFFICES ASSUME NEW i \in DOMAIN Append(s, e), NEW j \in DOMAIN Append(s, e), i <= j,
                        Append(s, e)[i].kind = k, Append(s, e)[j].kind = k
                 PROVE  /\ l <= Append(s, e)[i].model
                        /\ Append(s, e)[i].model <= Append(s, e)[j].model
                        /\ Append(s, e)[j].model <= e.model
      BY DEF Rising
    <2>1. \/ i \in DOMAIN s /\ Append(s, e)[i] = s[i]
          \/ i = Len(s) + 1 /\ Append(s, e)[i] = e
      BY AppendFacts
    <2>2. \/ j \in DOMAIN s /\ Append(s, e)[j] = s[j]
          \/ j = Len(s) + 1 /\ Append(s, e)[j] = e
      BY AppendFacts
    <2>3. e.model \in Int /\ DOMAIN s = 1 .. Len(s) /\ Len(s) \in Nat
      OBVIOUS
    <2>4. CASE i \in DOMAIN s /\ Append(s, e)[i] = s[i]
      <3>1. l <= s[i].model /\ s[i].model <= h /\ s[i].model \in Int
        BY <1>1, <1>2, <2>3, <2>4 DEF Rising
      <3>2. CASE j \in DOMAIN s /\ Append(s, e)[j] = s[j]
        <4>1. s[i].model <= s[j].model /\ s[j].model <= h /\ s[j].model \in Int
          BY <1>1, <1>2, <2>4, <3>2 DEF Rising
        <4> QED BY <1>3, <2>3, <2>4, <3>1, <3>2, <4>1
      <3>3. CASE Append(s, e)[j] = e
        BY <1>3, <2>3, <2>4, <3>1, <3>3
      <3> QED BY <2>2, <3>2, <3>3
    <2>5. CASE i = Len(s) + 1 /\ Append(s, e)[i] = e
      <3>1. Append(s, e)[j] = e
        BY <2>2, <2>3, <2>5
      <3> QED BY <1>3, <2>3, <2>5, <3>1
    <2> QED BY <2>1, <2>4, <2>5
  <1> QED BY <1>2, <1>3

\* The messages of one kind on a channel name models between lo and hi.
Named(chan, kind, lo, hi) ==
  \A i \in DOMAIN chan : chan[i].kind = kind => chan[i].model \in lo .. hi

LEMMA NamedEmpty == \A k, lo, hi : Named(<<>>, k, lo, hi)
  BY DEF Named

LEMMA NamedTail ==
  ASSUME NEW S, NEW s \in Seq(S), s # <<>>, NEW k, NEW lo, NEW hi, Named(s, k, lo, hi)
  PROVE  /\ Named(Tail(s), k, lo, hi)
         /\ Head(s).kind = k => Head(s).model \in lo .. hi
  BY HeadTail DEF Named

LEMMA NamedPrefix ==
  ASSUME NEW S, NEW s \in Seq(S), NEW n \in 0 .. Len(s), NEW k, NEW lo, NEW hi,
         Named(s, k, lo, hi)
  PROVE  Named(SubSeq(s, 1, n), k, lo, hi)
  BY PrefixFacts DEF Named

LEMMA NamedAppend ==
  ASSUME NEW S, NEW s \in Seq(S), NEW e \in S, NEW k, NEW lo, NEW hi, Named(s, k, lo, hi),
         e.kind = k => e.model \in lo .. hi
  PROVE  Named(Append(s, e), k, lo, hi)
  BY AppendFacts DEF Named

LEMMA NamedWider ==
  ASSUME NEW s, NEW k, NEW lo \in Int, NEW hi \in Int, NEW h \in Int, hi <= h,
         Named(s, k, lo, hi)
  PROVE  Named(s, k, lo, h)
  BY DEF Named

-------------------------------------------------------------------------------
(* Type correctness *)

LEMMA MessageTypes ==
  ASSUME NEW m \in Int, NEW j \in Job
  PROVE  /\ None \in Int /\ NoJob \in Job
         /\ Info \in Command /\ JobSelfplay(m) \in Command
         /\ JobOptimization(j) \in Command /\ JobDone \in Command
         /\ Info \in Line /\ SelfPlayLine(m) \in Line
         /\ OptimizationDone(m) \in Line /\ CutLine \in Line
  BY DEF None, NoJob, Job, Info, JobSelfplay, JobOptimization, JobDone, SelfPlayLine,
         OptimizationDone, CutLine, Command, Line

LEMMA WriteType ==
  ASSUME TypeOK, NEW W, NEW msg \in Command, Write(W, msg)
  PROVE  toWorker' \in [Worker -> Seq(Command)]
  BY DEF TypeOK, Write

LEMMA SendType ==
  ASSUME TypeOK, NEW w \in Worker, NEW line \in Line, Send(w, line)
  PROVE  toServer' \in [Worker -> Seq(Line)]
  BY DEF TypeOK, Send

LEMMA SetIdleType ==
  ASSUME TypeOK, NEW W, NEW b \in BOOLEAN, SetIdle(W, b)
  PROVE  idle' \in [Worker -> BOOLEAN]
  BY DEF TypeOK, SetIdle

LEMMA ConsumeType ==
  ASSUME TypeOK, NEW w \in Worker, toServer[w] # <<>>
  PROVE  /\ Head(toServer[w]) \in Line
         /\ Tail(toServer[w]) \in Seq(Line)
         /\ Head(toServer[w]).model \in Int
         /\ Consume(w) => toServer' \in [Worker -> Seq(Line)]
  <1>1. toServer[w] \in Seq(Line)
    BY DEF TypeOK
  <1>2. Head(toServer[w]) \in Line /\ Tail(toServer[w]) \in Seq(Line)
    BY <1>1, HeadTail
  <1>3. Head(toServer[w]).model \in Int
    BY <1>2 DEF Line
  <1>4. Consume(w) => toServer' \in [Worker -> Seq(Line)]
    BY <1>2 DEF TypeOK, Consume
  <1> QED BY <1>2, <1>3, <1>4

LEMMA ReadsType ==
  ASSUME TypeOK, NEW w \in Worker, NEW kind, Reads(w, kind)
  PROVE  /\ Head(toWorker[w]) \in Command
         /\ [model |-> Head(toWorker[w]).model, last |-> None] \in Job
         /\ [model |-> Head(toWorker[w]).model, last |-> Head(toWorker[w]).last] \in Job
         /\ toWorker' \in [Worker -> Seq(Command)]
  <1>1. toWorker[w] \in Seq(Command) /\ toWorker[w] # <<>>
    BY DEF TypeOK, Reads
  <1>2. Head(toWorker[w]) \in Command /\ Tail(toWorker[w]) \in Seq(Command)
    BY <1>1, HeadTail
  <1>3. Head(toWorker[w]).model \in Int /\ Head(toWorker[w]).last \in Int
    BY <1>2 DEF Command
  <1>4. toWorker' \in [Worker -> Seq(Command)]
    BY <1>2 DEF TypeOK, Reads
  <1> QED BY <1>2, <1>3, <1>4 DEF Job, None

LEMMA MayCutType ==
  ASSUME TypeOK, NEW w \in Worker, MayCut(w)
  PROVE  toServer' \in [Worker -> Seq(Line)]
  <1>1. CutLine \in Line
    BY DEF CutLine, Line, None
  <1>2. CASE UNCHANGED toServer
    BY <1>2 DEF TypeOK
  <1>3. CASE Send(w, CutLine)
    BY <1>1, <1>3, SendType
  <1> QED BY <1>2, <1>3 DEF MayCut

LEMMA DoCloseType ==
  ASSUME TypeOK, NEW w \in Worker, NEW unread \in Seq(Line), DoClose(w, unread)
  PROVE  /\ toServer' \in [Worker -> Seq(Line)]
         /\ status' \in [Worker -> {"out", "open", "ended"}]
  <1>1. PICK n \in 0 .. Len(unread) : toServer' = [toServer EXCEPT ![w] = SubSeq(unread, 1, n)]
    BY DEF DoClose
  <1>2. SubSeq(unread, 1, n) \in Seq(Line)
    BY PrefixFacts
  <1> QED BY <1>1, <1>2 DEF DoClose, TypeOK

LEMMA DisconnectType ==
  ASSUME TypeOK, NEW w \in Worker, Disconnect(w)
  PROVE  running' \in [Worker -> Job] /\ toWorker' \in [Worker -> Seq(Command)]
  <1>1. NoJob \in Job
    BY DEF NoJob, Job, None
  <1>2. toWorker' \in [Worker -> Seq(Command)]
    BY DEF Disconnect, TypeOK
  <1>3. CASE UNCHANGED running
    BY <1>2, <1>3 DEF TypeOK
  <1>4. CASE running' = [running EXCEPT ![w] = NoJob]
    BY <1>1, <1>2, <1>4 DEF TypeOK
  <1> QED BY <1>3, <1>4 DEF Disconnect

\* The initial state is of the declared types.
LEMMA InitType == Init => TypeOK
  BY NumAssumption DEF Init, TypeOK, MainState, Iteration, None, NoJob, Job, Worker

\* Every step of the server and of the machines keeps them.
LEMMA NextType == TypeOK /\ [Next]_vars => TypeOK'
  <1> SUFFICES ASSUME TypeOK, [Next]_vars
               PROVE  TypeOK'
    OBVIOUS
  <1> USE DEF mainVars, sharedVars, workerVars
  <1>1. CASE LockWorkers
    BY <1>1 DEF LockWorkers, TypeOK, MainState
  <1>2. ASSUME NEW w \in Worker, SendSelfPlay(w)
        PROVE  TypeOK'
    <2>1. JobSelfplay(modelIteration) \in Command
      BY DEF TypeOK, JobSelfplay, Command, None
    <2> QED BY <1>2, <2>1, WriteType, SetIdleType DEF SendSelfPlay, TypeOK
  <1>3. CASE UnlockWorkers
    BY <1>3 DEF UnlockWorkers, TypeOK, MainState
  <1>4. CASE GetOneSelfPlay
    <2>1. CASE selfPlayQueue = <<>>
      BY <1>4, <2>1 DEF GetOneSelfPlay, TypeOK, MainState
    <2>2. CASE selfPlayQueue # <<>>
      <3>1. Head(selfPlayQueue) \in Int /\ Tail(selfPlayQueue) \in Seq(Int)
        BY <2>2, HeadTail DEF TypeOK
      <3> QED BY <1>4, <2>2, <3>1 DEF GetOneSelfPlay, TypeOK, MainState
    <2> QED BY <2>1, <2>2
  <1>5. CASE RecordSelfPlay
    <2>1. CASE popped = modelIteration
      <3>1. totalGames' \in 0 .. NumGame
        BY <1>5, <2>1, NumAssumption DEF RecordSelfPlay, TypeOK
      <3>2. sgf[iteration] \cup {popped} \in SUBSET Int
        BY <1>5 DEF RecordSelfPlay, TypeOK
      <3>3. sgf' \in [Iteration -> SUBSET Int]
        BY <1>5, <2>1, <3>2 DEF RecordSelfPlay, TypeOK
      <3> QED BY <1>5, <3>1, <3>3 DEF RecordSelfPlay, TypeOK, MainState, None
    <2>2. CASE popped # modelIteration
      BY <1>5, <2>2 DEF RecordSelfPlay, TypeOK, MainState, None
    <2> QED BY <2>1, <2>2
  <1>6. CASE FinishSelfPlay
    <2>1. JobDone \in Command
      BY DEF JobDone, Command, None
    <2> QED BY <1>6, <2>1, WriteType, SetIdleType DEF FinishSelfPlay, TypeOK, MainState
  <1>7. CASE StartOptimization
    BY <1>7 DEF StartOptimization, TypeOK, MainState
  <1>8. CASE ConfigureOptimization
    BY <1>8, NumAssumption DEF ConfigureOptimization, TypeOK, MainState, Job
  <1>9. CASE CheckOptimization
    BY <1>9 DEF CheckOptimization, TypeOK, MainState
  <1>10. CASE SendOptimization
    <2>1. JobOptimization(conf) \in Command
      BY DEF TypeOK, JobOptimization, Command, Job
    <2> QED BY <1>10, <2>1, WriteType, SetIdleType DEF SendOptimization, TypeOK, MainState
  <1>11. CASE FinishOptimization
    <2>1. JobDone \in Command
      BY DEF JobDone, Command, None
    <2>2. /\ iteration' \in StartIteration .. EndIteration + 1
          /\ pc' # "join" => iteration' \in Iteration
          /\ pc' \in MainState
          /\ totalGames' \in 0 .. NumGame
      BY <1>11, NumAssumption DEF FinishOptimization, TypeOK, Iteration, MainState
    <2> QED BY <1>11, <2>1, <2>2, WriteType, SetIdleType DEF FinishOptimization, TypeOK
  <1>12. ASSUME NEW w \in Worker, Connect(w)
         PROVE  TypeOK'
    <2>1. <<Info>> \in Seq(Command)
      BY DEF Info, Command, None
    <2> QED BY <1>12, <2>1 DEF Connect, TypeOK
  <1>13. ASSUME NEW w \in Worker, HandleInfo(w)
         PROVE  TypeOK'
    BY <1>13, ConsumeType DEF HandleInfo, Received, TypeOK
  <1>14. ASSUME NEW w \in Worker, HandleSelfPlay(w)
         PROVE  TypeOK'
    <2>1. selfPlayQueue' \in Seq(Int)
      BY <1>14, ConsumeType DEF HandleSelfPlay, Received, TypeOK
    <2> QED BY <1>14, <2>1, ConsumeType DEF HandleSelfPlay, Received, TypeOK
  <1>15. ASSUME NEW w \in Worker, HandleOptimizationDone(w)
         PROVE  TypeOK'
    BY <1>15, ConsumeType DEF HandleOptimizationDone, Received, TypeOK
  <1>16. ASSUME NEW w \in Worker, HandleJoinedLine(w)
         PROVE  TypeOK'
    <2>1. toServer[w] \in Seq(Line) /\ Len(toServer[w]) > 1
      BY <1>16 DEF HandleJoinedLine, TypeOK
    <2>2. Tail(Tail(toServer[w])) \in Seq(Line)
      <3> DEFINE t == Tail(toServer[w])
      <3>1. t \in Seq(Line) /\ Len(t) = Len(toServer[w]) - 1
        BY <2>1
      <3> HIDE DEF t
      <3>2. t # <<>>
        BY <2>1, <3>1
      <3>3. Tail(t) \in Seq(Line)
        BY <3>1, <3>2, HeadTail
      <3> QED BY <3>3 DEF t
    <2>3. /\ toServer' \in [Worker -> Seq(Line)]
          /\ status' \in [Worker -> {"out", "open", "ended"}]
      <3>1. CASE /\ toServer' = [toServer EXCEPT ![w] = Tail(Tail(toServer[w]))]
                 /\ UNCHANGED status
        BY <2>2, <3>1 DEF TypeOK
      <3>2. CASE DoClose(w, Tail(Tail(toServer[w])))
        BY <2>2, <3>2, DoCloseType
      <3> QED BY <1>16, <3>1, <3>2 DEF HandleJoinedLine
    <2> QED BY <1>16, <2>3 DEF HandleJoinedLine, TypeOK
  <1>17. ASSUME NEW w \in Worker, CloseBrokenConnection(w)
         PROVE  TypeOK'
    <2>1. toServer[w] \in Seq(Line) /\ DoClose(w, toServer[w])
      BY <1>17 DEF CloseBrokenConnection, TypeOK
    <2> QED BY <1>17, <2>1, DoCloseType DEF CloseBrokenConnection, TypeOK
  <1>18. ASSUME NEW w \in Worker, ReadInfo(w)
         PROVE  TypeOK'
    <2>1. Info \in Line
      BY DEF Info, Line, None
    <2> QED BY <1>18, <2>1, ReadsType, SendType DEF ReadInfo, Reads, TypeOK
  <1>19. ASSUME NEW w \in Worker, ReadJobSelfplay(w)
         PROVE  TypeOK'
    <2>1. toServer' \in [Worker -> Seq(Line)]
      BY <1>19, MayCutType DEF ReadJobSelfplay, TypeOK
    <2>2. running' \in [Worker -> Job]
      BY <1>19, ReadsType DEF ReadJobSelfplay, TypeOK
    <2> QED BY <1>19, <2>1, <2>2, ReadsType DEF ReadJobSelfplay, Reads, TypeOK
  <1>20. ASSUME NEW w \in Worker, ReadJobOptimization(w)
         PROVE  TypeOK'
    <2>2. running' \in [Worker -> Job]
      BY <1>20, ReadsType DEF ReadJobOptimization, TypeOK
    <2> QED BY <1>20, <2>2, ReadsType DEF ReadJobOptimization, Reads, TypeOK
  <1>21. ASSUME NEW w \in Worker, ReadJobDone(w)
         PROVE  TypeOK'
    <2>1. toServer' \in [Worker -> Seq(Line)]
      BY <1>21, MayCutType DEF ReadJobDone, TypeOK
    <2>2. running' \in [Worker -> Job]
      <3>1. NoJob \in Job
        BY DEF NoJob, Job, None
      <3> QED BY <1>21, <3>1 DEF ReadJobDone, TypeOK
    <2> QED BY <1>21, <2>1, <2>2, ReadsType DEF ReadJobDone, Reads, TypeOK
  <1>22. ASSUME NEW w \in Worker, PlayGame(w)
         PROVE  TypeOK'
    <2>1. SelfPlayLine(running[w].model) \in Line
      BY DEF SelfPlayLine, Line, None, TypeOK, Job
    <2> QED BY <1>22, <2>1, SendType DEF PlayGame, TypeOK
  <1>23. ASSUME NEW w \in Worker, FinishTraining(w)
         PROVE  TypeOK'
    <2>1. OptimizationDone(running[w].model + 1) \in Line
      BY DEF OptimizationDone, Line, None, TypeOK, Job
    <2>2. NoJob \in Job
      BY DEF NoJob, Job, None
    <2> QED BY <1>23, <2>1, <2>2, SendType DEF FinishTraining, TypeOK
  <1>24. ASSUME NEW w \in Worker, DropConnection(w)
         PROVE  TypeOK'
    <2>1. toServer' \in [Worker -> Seq(Line)]
      <3>1. PICK n \in 0 .. Len(toServer[w]) :
              toServer' = [toServer EXCEPT ![w] = SubSeq(@, 1, n)]
        BY <1>24 DEF DropConnection
      <3>2. SubSeq(toServer[w], 1, n) \in Seq(Line)
        BY PrefixFacts DEF TypeOK
      <3> QED BY <3>1, <3>2 DEF TypeOK
    <2>2. running' \in [Worker -> Job] /\ toWorker' \in [Worker -> Seq(Command)]
      BY <1>24, DisconnectType DEF DropConnection
    <2>3. drops' \in 0 .. MaxDrops
      BY <1>24, NumAssumption DEF DropConnection, TypeOK
    <2> QED BY <1>24, <2>1, <2>2, <2>3 DEF DropConnection, Disconnect, TypeOK
  <1>25. ASSUME NEW w \in Worker, ClosedByServer(w)
         PROVE  TypeOK'
    <2>1. running' \in [Worker -> Job] /\ toWorker' \in [Worker -> Seq(Command)]
      BY <1>25, DisconnectType DEF ClosedByServer
    <2> QED BY <1>25, <2>1 DEF ClosedByServer, Disconnect, TypeOK
  <1>26. CASE UNCHANGED vars
    BY <1>26 DEF vars, TypeOK
  <1> QED
    BY <1>1, <1>2, <1>3, <1>4, <1>5, <1>6, <1>7, <1>8, <1>9, <1>10, <1>11, <1>12,
       <1>13, <1>14, <1>15, <1>16, <1>17, <1>18, <1>19, <1>20, <1>21, <1>22, <1>23,
       <1>24, <1>25, <1>26
    DEF Next, Main, Io, Machine

\* The variables of the server and of the machines keep their types, whatever the
\* number of workers and however their connections break (ZeroServer, worker.sh).
THEOREM TypeCorrect == Spec => []TypeOK
  BY InitType, NextType, PTL DEF Spec

-------------------------------------------------------------------------------
(* Trainings read complete files *)

\* The window that ends with sgf/<last>.sgf is complete.
Ready(last) == last < iteration \/ (last = iteration /\ totalGames = NumGame)

ReadyOrders(chan) ==
  \A i \in DOMAIN chan : chan[i].kind = "Job_Optimization" => Ready(chan[i].last)

FilesInv ==
  /\ pc \in {"opStart", "opConf", "opCheck", "opSend"} => totalGames = NumGame
  /\ pc \in {"opCheck", "opSend"} => conf.last = iteration
  /\ \A w \in Worker : ReadyOrders(toWorker[w])
  /\ \A w \in OpWorker : running[w] # NoJob => Ready(running[w].last)

LEMMA InitFiles == Init => FilesInv
  BY DEF Init, FilesInv, ReadyOrders, Worker

\* Writing a message that is no training order, or a ready one.
LEMMA WriteReady ==
  ASSUME TypeOK, FilesInv, NEW W, NEW msg \in Command, Write(W, msg),
         msg.kind = "Job_Optimization" => Ready(msg.last),
         UNCHANGED <<iteration, totalGames>>
  PROVE  \A w \in Worker : ReadyOrders(toWorker[w])'
  <1> SUFFICES ASSUME NEW w \in Worker
               PROVE  ReadyOrders(toWorker[w])'
    OBVIOUS
  <1>1. toWorker[w] \in Seq(Command) /\ ReadyOrders(toWorker[w])
    BY DEF TypeOK, FilesInv
  <1>2. ReadyOrders(Append(toWorker[w], msg))
    BY <1>1, AppendFacts DEF ReadyOrders
  <1>3. toWorker'[w] \in {toWorker[w], Append(toWorker[w], msg)}
    BY DEF Write
  <1> QED BY <1>1, <1>2, <1>3 DEF ReadyOrders, Ready

\* Reading a command keeps the invariant's facts about channels.
LEMMA ReadsReady ==
  ASSUME TypeOK, FilesInv, NEW w \in Worker, NEW kind, Reads(w, kind)
  PROVE  /\ \A v \in Worker : ReadyOrders(toWorker[v])'
         /\ kind = "Job_Optimization" => Ready(Head(toWorker[w]).last)
         /\ UNCHANGED <<pc, iteration, totalGames, conf>>
  <1>1. /\ toWorker[w] \in Seq(Command) /\ toWorker[w] # <<>>
        /\ Head(toWorker[w]).kind = kind
        /\ toWorker' = [toWorker EXCEPT ![w] = Tail(@)]
        /\ UNCHANGED <<pc, iteration, totalGames, conf>>
    BY DEF TypeOK, Reads, mainVars
  <1>2. \A v \in Worker : ReadyOrders(toWorker[v])
    BY DEF FilesInv
  <1>3. ReadyOrders(Tail(toWorker[w]))
    BY <1>1, <1>2, HeadTail DEF ReadyOrders
  <1>4. kind = "Job_Optimization" => Ready(Head(toWorker[w]).last)
    BY <1>1, <1>2, HeadTail DEF ReadyOrders
  <1>5. \A v \in Worker : toWorker'[v] \in {toWorker[v], Tail(toWorker[w])}
                           /\ (v # w => toWorker'[v] = toWorker[v])
    BY <1>1 DEF TypeOK
  <1> QED BY <1>1, <1>2, <1>3, <1>4, <1>5 DEF ReadyOrders, Ready

\* A step of one machine that drops its commands or kills its process.
LEMMA DisconnectReady ==
  ASSUME TypeOK, FilesInv, NEW w \in Worker, Disconnect(w)
  PROVE  FilesInv'
  <1>1. UNCHANGED <<pc, iteration, totalGames, conf>>
    BY DEF Disconnect, mainVars
  <1>2. \A v \in Worker : toWorker'[v] \in {toWorker[v], <<>>}
    BY DEF Disconnect, TypeOK
  <1>3. \A v \in OpWorker : running'[v] = running[v] \/ running'[v] = NoJob
    BY DEF Disconnect, TypeOK, Worker
  <1> QED BY <1>1, <1>2, <1>3 DEF FilesInv, ReadyOrders, Ready

LEMMA NextFiles == TypeOK /\ FilesInv /\ [Next]_vars => FilesInv'
  <1> SUFFICES ASSUME TypeOK, FilesInv, [Next]_vars
               PROVE  FilesInv'
    OBVIOUS
  <1> USE DEF mainVars, sharedVars, workerVars
  <1>1. CASE LockWorkers \/ UnlockWorkers \/ GetOneSelfPlay \/ StartOptimization
             \/ ConfigureOptimization \/ CheckOptimization
    BY <1>1 DEF LockWorkers, UnlockWorkers, GetOneSelfPlay, StartOptimization,
       ConfigureOptimization, CheckOptimization, FilesInv, ReadyOrders, Ready
  <1>2. ASSUME NEW w \in Worker, SendSelfPlay(w)
        PROVE  FilesInv'
    <2>1. /\ JobSelfplay(modelIteration) \in Command
          /\ JobSelfplay(modelIteration).kind # "Job_Optimization"
      BY DEF TypeOK, JobSelfplay, Command, None
    <2>2. \A v \in Worker : ReadyOrders(toWorker[v])'
      BY <1>2, <2>1, WriteReady DEF SendSelfPlay
    <2> QED BY <1>2, <2>2 DEF SendSelfPlay, FilesInv, Ready
  <1>3. CASE RecordSelfPlay
    <2>1. iteration' = iteration /\ totalGames # NumGame /\ pc' = "spLock"
          /\ UNCHANGED <<toWorker, running, conf>>
      BY <1>3, NumAssumption DEF RecordSelfPlay, TypeOK
    <2> QED BY <2>1 DEF FilesInv, ReadyOrders, Ready
  <1>4. CASE FinishSelfPlay
    <2>1. JobDone \in Command /\ JobDone.kind # "Job_Optimization"
      BY DEF JobDone, Command, None
    <2>2. \A v \in Worker : ReadyOrders(toWorker[v])'
      BY <1>4, <2>1, WriteReady DEF FinishSelfPlay
    <2>3. totalGames = NumGame
      BY <1>4, NumAssumption DEF FinishSelfPlay, TypeOK
    <2> QED BY <1>4, <2>2, <2>3 DEF FinishSelfPlay, FilesInv, Ready
  <1>5. CASE SendOptimization
    <2>1. /\ JobOptimization(conf) \in Command
          /\ JobOptimization(conf).last = conf.last
      BY DEF TypeOK, JobOptimization, Command, Job
    <2>2. Ready(conf.last)
      BY <1>5 DEF SendOptimization, FilesInv, Ready
    <2>3. \A v \in Worker : ReadyOrders(toWorker[v])'
      BY <1>5, <2>1, <2>2, WriteReady DEF SendOptimization
    <2> QED BY <1>5, <2>3 DEF SendOptimization, FilesInv, Ready
  <1>6. CASE FinishOptimization
    <2>1. JobDone \in Command /\ JobDone.kind # "Job_Optimization"
      BY DEF JobDone, Command, None
    <2>2. iteration \in Int /\ iteration' = iteration + 1
      BY <1>6, NumAssumption DEF FinishOptimization, TypeOK
    <2>3. \A w \in Worker : /\ toWorker[w] \in Seq(Command)
                            /\ toWorker'[w] \in {toWorker[w], Append(toWorker[w], JobDone)}
      BY <1>6 DEF FinishOptimization, Write, TypeOK
    <2>4. \A last \in Int : Ready(last) => last < iteration'
      BY <2>2 DEF Ready
    <2>5. \A w \in Worker : \A i \in DOMAIN toWorker'[w] :
            toWorker'[w][i].kind = "Job_Optimization" => toWorker'[w][i].last < iteration'
      <3> SUFFICES ASSUME NEW w \in Worker, NEW i \in DOMAIN toWorker'[w],
                          toWorker'[w][i].kind = "Job_Optimization"
                   PROVE  toWorker'[w][i].last < iteration'
        OBVIOUS
      <3>1. i \in DOMAIN toWorker[w] /\ toWorker'[w][i] = toWorker[w][i]
        BY <2>1, <2>3, AppendFacts
      <3>2. toWorker[w][i] \in Command
        BY <2>3, <3>1
      <3>3. toWorker[w][i].last \in Int
        BY <3>2 DEF Command
      <3> QED BY <2>4, <3>1, <3>3 DEF FilesInv, ReadyOrders
    <2>6. \A w \in OpWorker : running[w].last \in Int
      BY DEF TypeOK, Job, Worker
    <2>7. pc' \in {"spLock", "join"} /\ UNCHANGED running
      BY <1>6 DEF FinishOptimization
    <2> QED BY <2>4, <2>5, <2>6, <2>7 DEF FilesInv, ReadyOrders, Ready
  <1>7. ASSUME NEW w \in Worker, Connect(w)
        PROVE  FilesInv'
    <2>1. \A v \in Worker : toWorker'[v] \in {toWorker[v], <<Info>>}
      BY <1>7 DEF Connect, TypeOK
    <2>2. ReadyOrders(<<Info>>)'
      BY DEF ReadyOrders, Info
    <2>3. \A v \in Worker : ReadyOrders(toWorker[v])'
      BY <1>7, <2>1, <2>2 DEF Connect, FilesInv, ReadyOrders, Ready
    <2> QED BY <1>7, <2>3 DEF Connect, FilesInv, Ready
  <1>8. ASSUME NEW w \in Worker,
               HandleInfo(w) \/ HandleSelfPlay(w) \/ HandleOptimizationDone(w)
               \/ HandleJoinedLine(w) \/ CloseBrokenConnection(w) \/ PlayGame(w)
        PROVE  FilesInv'
    BY <1>8 DEF HandleInfo, HandleSelfPlay, HandleOptimizationDone, HandleJoinedLine,
       CloseBrokenConnection, PlayGame, FilesInv, ReadyOrders, Ready
  <1>9. ASSUME NEW w \in Worker,
               ReadInfo(w) \/ ReadJobSelfplay(w) \/ ReadJobDone(w)
        PROVE  FilesInv'
    <2>1. /\ \A v \in Worker : ReadyOrders(toWorker[v])'
          /\ UNCHANGED <<pc, iteration, totalGames, conf>>
      BY <1>9, ReadsReady DEF ReadInfo, ReadJobSelfplay, ReadJobDone
    <2>2. \A v \in OpWorker : running'[v] = running[v]
      BY <1>9, WorkerAssumption DEF ReadInfo, ReadJobSelfplay, ReadJobDone, TypeOK, Worker
    <2> QED BY <2>1, <2>2 DEF FilesInv, Ready
  <1>10. ASSUME NEW w \in Worker, ReadJobOptimization(w)
         PROVE  FilesInv'
    <2>1. /\ \A v \in Worker : ReadyOrders(toWorker[v])'
          /\ Ready(Head(toWorker[w]).last)
          /\ UNCHANGED <<pc, iteration, totalGames, conf>>
      BY <1>10, ReadsReady DEF ReadJobOptimization
    <2>2. \A v \in OpWorker : \/ running'[v] = running[v]
                              \/ running'[v].last = Head(toWorker[w]).last
      BY <1>10 DEF ReadJobOptimization, TypeOK, Worker
    <2> QED BY <2>1, <2>2 DEF FilesInv, Ready
  <1>11. ASSUME NEW w \in Worker, FinishTraining(w)
         PROVE  FilesInv'
    BY <1>11 DEF FinishTraining, FilesInv, ReadyOrders, Ready, TypeOK, Worker
  <1>12. ASSUME NEW w \in Worker, DropConnection(w) \/ ClosedByServer(w)
         PROVE  FilesInv'
    BY <1>12, DisconnectReady DEF DropConnection, ClosedByServer
  <1>13. CASE UNCHANGED vars
    BY <1>13 DEF vars, FilesInv, ReadyOrders, Ready
  <1> QED
    BY <1>1, <1>2, <1>3, <1>4, <1>5, <1>6, <1>7, <1>8, <1>9, <1>10, <1>11, <1>12, <1>13
    DEF Next, Main, Io, Machine

\* However many optimizers there are and however slow they answer, no training
\* reads the sgf file of an iteration that still collects games (SelfPlay and
\* Optimization of ZeroServer.cpp, Train.py's replay window).
THEOREM FinishedFiles == Spec => []TrainsOnFinishedFiles
  <1>1. FilesInv => TrainsOnFinishedFiles
    BY DEF FilesInv, TrainsOnFinishedFiles, Ready
  <1> QED BY <1>1, InitFiles, NextFiles, TypeCorrect, PTL DEF Spec

-------------------------------------------------------------------------------
(* What a step does to the channels *)

\* The channel new carries no more Info lines, orders and reports than old, in the
\* same order.
Quieter(new, old) ==
  \A kind \in {"Info", "Job_Optimization", "Optimization_Done"} :
    /\ Carries(new, kind) => Carries(old, kind)
    /\ AtMostOne(old, kind) => AtMostOne(new, kind)
    /\ \A m : m.kind = kind /\ Only(old, m) => Only(new, m)
    /\ \A lo, hi : Rising(old, kind, lo, hi) => Rising(new, kind, lo, hi)
    /\ \A lo, hi : Named(old, kind, lo, hi) => Named(new, kind, lo, hi)

LEMMA QuieterSame == \A s : Quieter(s, s)
  BY DEF Quieter

LEMMA QuieterEmpty == \A s : Quieter(<<>>, s)
  BY CarriesEmpty, AtMostOneEmpty, RisingEmpty, NamedEmpty DEF Quieter, Only

LEMMA QuieterTail ==
  ASSUME NEW S, NEW s \in Seq(S), s # <<>>
  PROVE  Quieter(Tail(s), s)
  BY CarriesTail, AtMostOneTail, OnlyTail, RisingTail, NamedTail DEF Quieter

LEMMA QuieterPrefix ==
  ASSUME NEW S, NEW s \in Seq(S), NEW n \in 0 .. Len(s)
  PROVE  Quieter(SubSeq(s, 1, n), s)
  BY CarriesPrefix, AtMostOnePrefix, OnlyPrefix, RisingPrefix, NamedPrefix DEF Quieter

LEMMA QuieterAppend ==
  ASSUME NEW S, NEW s \in Seq(S), NEW e \in S,
         e.kind \notin {"Info", "Job_Optimization", "Optimization_Done"}
  PROVE  Quieter(Append(s, e), s)
  BY CarriesAppend, AtMostOneAppend, OnlyAppend, RisingAppend, NamedAppend DEF Quieter

LEMMA QuieterTwice ==
  ASSUME NEW r, NEW s, NEW t, Quieter(r, s), Quieter(s, t)
  PROVE  Quieter(r, t)
  BY DEF Quieter

\* The kinds of the messages.
LEMMA Kinds ==
  /\ CurrentOrder.kind = "Job_Optimization" /\ CurrentReport.kind = "Optimization_Done"
  /\ Info.kind = "Info" /\ CutLine.kind = "cut" /\ JobDone.kind = "Job_Done"
  /\ \A m : JobSelfplay(m).kind = "Job_Selfplay" /\ SelfPlayLine(m).kind = "Self-play"
  BY DEF CurrentOrder, JobOptimization, CurrentReport, OptimizationDone, Info, CutLine,
     JobDone, JobSelfplay, SelfPlayLine

\* What a worker's line does to its channel.
LEMMA SendEffect ==
  ASSUME TypeOK, NEW w \in Worker, NEW line \in Line, Send(w, line), NEW v \in Worker
  PROVE  /\ v # w => toServer'[v] = toServer[v]
         /\ toServer'[v] \in {toServer[v], Append(toServer[v], line)}
  BY DEF Send, TypeOK

LEMMA CutEffect ==
  ASSUME TypeOK, NEW w \in Worker, MayCut(w), NEW v \in Worker
  PROVE  /\ v # w => toServer'[v] = toServer[v]
         /\ Quieter(toServer'[v], toServer[v])
  <1>1. CutLine \in Line /\ toServer[v] \in Seq(Line)
    BY DEF CutLine, Line, None, TypeOK
  <1>2. CASE UNCHANGED toServer
    BY <1>2, QuieterSame
  <1>3. CASE Send(w, CutLine)
    BY <1>1, <1>3, SendEffect, QuieterSame, QuieterAppend, Kinds
  <1> QED BY <1>2, <1>3 DEF MayCut

LEMMA ConsumeEffect ==
  ASSUME TypeOK, NEW w \in Worker, toServer[w] # <<>>, Consume(w), NEW v \in Worker
  PROVE  /\ v # w => toServer'[v] = toServer[v]
         /\ v = w => toServer'[v] = Tail(toServer[v])
         /\ Quieter(toServer'[v], toServer[v])
  <1>1. toServer[w] \in Seq(Line)
    BY DEF TypeOK
  <1> QED BY <1>1, QuieterSame, QuieterTail DEF Consume, TypeOK

LEMMA DoCloseEffect ==
  ASSUME TypeOK, NEW w \in Worker, NEW unread \in Seq(Line),
         Quieter(unread, toServer[w]), DoClose(w, unread), NEW v \in Worker
  PROVE  Quieter(toServer'[v], toServer[v])
  <1>1. PICK n \in 0 .. Len(unread) : toServer' = [toServer EXCEPT ![w] = SubSeq(unread, 1, n)]
    BY DEF DoClose
  <1>2. Quieter(SubSeq(unread, 1, n), toServer[w])
    BY QuieterPrefix, QuieterTwice
  <1>3. /\ v # w => toServer'[v] = toServer[v]
        /\ v = w => toServer'[v] = SubSeq(unread, 1, n)
    BY <1>1 DEF TypeOK
  <1> QED BY <1>2, <1>3, QuieterSame

LEMMA BrokenEffect ==
  ASSUME TypeOK, NEW w \in Worker, CloseBrokenConnection(w), NEW v \in Worker
  PROVE  Quieter(toServer'[v], toServer[v])
  BY QuieterSame, DoCloseEffect DEF CloseBrokenConnection, TypeOK

LEMMA JoinedEffect ==
  ASSUME TypeOK, NEW w \in Worker, HandleJoinedLine(w), NEW v \in Worker
  PROVE  Quieter(toServer'[v], toServer[v])
  <1>1. toServer[w] \in Seq(Line) /\ Len(toServer[w]) > 1
    BY DEF HandleJoinedLine, TypeOK
  <1> DEFINE t == Tail(toServer[w])
  <1>2. t \in Seq(Line) /\ Len(t) = Len(toServer[w]) - 1 /\ toServer[w] # <<>>
    BY <1>1
  <1> HIDE DEF t
  <1>3. t # <<>>
    BY <1>1, <1>2
  <1>4. Quieter(t, toServer[w])
    BY <1>1, <1>2, QuieterTail DEF t
  <1>5. Quieter(Tail(t), t)
    BY <1>2, <1>3, QuieterTail
  <1>6. Quieter(Tail(Tail(toServer[w])), toServer[w])
    BY <1>4, <1>5, QuieterTwice DEF t
  <1>7. Tail(Tail(toServer[w])) \in Seq(Line)
    BY <1>2, <1>3, HeadTail DEF t
  <1>8. CASE toServer' = [toServer EXCEPT ![w] = Tail(Tail(toServer[w]))]
    <2>1. /\ v # w => toServer'[v] = toServer[v]
          /\ v = w => toServer'[v] = Tail(Tail(toServer[w]))
      BY <1>8 DEF TypeOK
    <2> QED BY <1>6, <2>1, QuieterSame
  <1>9. CASE DoClose(w, Tail(Tail(toServer[w])))
    BY <1>6, <1>7, <1>9, DoCloseEffect
  <1> QED BY <1>8, <1>9 DEF HandleJoinedLine

LEMMA LostEffect ==
  ASSUME TypeOK, NEW w \in Worker, DropConnection(w) \/ ClosedByServer(w), NEW v \in Worker
  PROVE  /\ Quieter(toServer'[v], toServer[v])
         /\ Quieter(toWorker'[v], toWorker[v])
  <1>1. toWorker'[v] \in {toWorker[v], <<>>}
    BY DEF DropConnection, ClosedByServer, Disconnect, TypeOK
  <1>2. Quieter(toServer'[v], toServer[v])
    <2>1. CASE ClosedByServer(w)
      BY <2>1, QuieterSame DEF ClosedByServer
    <2>2. CASE DropConnection(w)
      <3>1. PICK n \in 0 .. Len(toServer[w]) :
              toServer' = [toServer EXCEPT ![w] = SubSeq(@, 1, n)]
        BY <2>2 DEF DropConnection
      <3>2. Quieter(SubSeq(toServer[w], 1, n), toServer[w])
        BY QuieterPrefix DEF TypeOK
      <3>3. toServer'[v] \in {toServer[v], SubSeq(toServer[w], 1, n)}
            /\ (v # w => toServer'[v] = toServer[v])
        BY <3>1 DEF TypeOK
      <3> QED BY <3>2, <3>3, QuieterSame
    <2> QED BY <2>1, <2>2
  <1> QED BY <1>1, <1>2, QuieterSame, QuieterEmpty

LEMMA ReadsEffect ==
  ASSUME TypeOK, NEW w \in Worker, NEW kind, Reads(w, kind), NEW v \in Worker
  PROVE  /\ v # w => toWorker'[v] = toWorker[v]
         /\ v = w => toWorker'[v] = Tail(toWorker[v])
         /\ Quieter(toWorker'[v], toWorker[v])
         /\ toWorker[w] \in Seq(Command) /\ toWorker[w] # <<>>
         /\ Carries(toWorker[w], kind)
  <1>1. /\ toWorker[w] \in Seq(Command) /\ toWorker[w] # <<>>
        /\ Head(toWorker[w]).kind = kind
        /\ toWorker' = [toWorker EXCEPT ![w] = Tail(@)]
    BY DEF TypeOK, Reads
  <1>2. Quieter(Tail(toWorker[w]), toWorker[w]) /\ Carries(toWorker[w], kind)
    BY <1>1, QuieterTail, CarriesHead
  <1> QED BY <1>1, <1>2, QuieterSame DEF TypeOK

LEMMA WriteEffect ==
  ASSUME TypeOK, NEW W, NEW msg \in Command, Write(W, msg), NEW v \in Worker
  PROVE  /\ toWorker'[v] \in {toWorker[v], Append(toWorker[v], msg)}
         /\ v \notin W => toWorker'[v] = toWorker[v]
         /\ msg.kind \notin {"Info", "Job_Optimization", "Optimization_Done"} =>
              Quieter(toWorker'[v], toWorker[v])
  <1>1. /\ toWorker'[v] \in {toWorker[v], Append(toWorker[v], msg)}
        /\ v \notin W => toWorker'[v] = toWorker[v]
    BY DEF Write
  <1>2. toWorker[v] \in Seq(Command)
    BY DEF TypeOK
  <1> QED BY <1>1, <1>2, QuieterSame, QuieterAppend

\* An optimizer's report is an optimizer's.
LEMMA NextReports == TypeOK /\ ReportsInv /\ [Next]_vars => ReportsInv'
  <1> SUFFICES ASSUME TypeOK, ReportsInv, [Next]_vars, NEW v \in SpWorker,
                      Carries(toServer'[v], "Optimization_Done")
               PROVE  FALSE
    BY DEF ReportsInv
  <1> USE DEF mainVars, sharedVars, workerVars
  <1>1. v \in Worker /\ v \notin OpWorker /\ ~Carries(toServer[v], "Optimization_Done")
        /\ toServer[v] \in Seq(Line)
    BY WorkerAssumption DEF Worker, ReportsInv, TypeOK
  <1>2. ~Quieter(toServer'[v], toServer[v])
    BY <1>1 DEF Quieter
  <1>3. toServer' # toServer
    BY <1>1
  <1>4. ASSUME NEW w \in Worker, Io(w)
        PROVE  FALSE
    <2>1. CASE Connect(w)
      <3>1. toServer'[v] \in {toServer[v], <<>>}
        BY <2>1, <1>1 DEF Connect, TypeOK
      <3> QED BY <1>2, <3>1, QuieterSame, QuieterEmpty
    <2>2. CASE HandleInfo(w) \/ HandleSelfPlay(w) \/ HandleOptimizationDone(w)
      BY <1>1, <1>2, <2>2, ConsumeEffect DEF HandleInfo, HandleSelfPlay,
         HandleOptimizationDone, Received
    <2>3. CASE HandleJoinedLine(w)
      BY <1>1, <1>2, <2>3, JoinedEffect
    <2>4. CASE CloseBrokenConnection(w)
      BY <1>1, <1>2, <2>4, BrokenEffect
    <2> QED BY <1>4, <2>1, <2>2, <2>3, <2>4 DEF Io
  <1>5. ASSUME NEW w \in Worker, Machine(w)
        PROVE  FALSE
    <2>1. CASE ReadInfo(w)
      <3>1. Info \in Line /\ Info.kind # "Optimization_Done"
        BY DEF Info, Line, None
      <3>2. toServer'[v] \in {toServer[v], Append(toServer[v], Info)}
        BY <1>1, <2>1, <3>1, SendEffect DEF ReadInfo
      <3>3. ~Carries(Append(toServer[v], Info), "Optimization_Done")
        BY <1>1, <3>1, CarriesAppend
      <3> QED BY <1>1, <3>2, <3>3
    <2>2. CASE ReadJobSelfplay(w) \/ ReadJobDone(w)
      BY <1>1, <1>2, <1>3, <2>2, CutEffect DEF ReadJobSelfplay, ReadJobDone
    <2>3. CASE ReadJobOptimization(w)
      BY <1>3, <2>3 DEF ReadJobOptimization
    <2>4. CASE PlayGame(w)
      <3>1. SelfPlayLine(running[w].model) \in Line
        BY DEF SelfPlayLine, Line, None, TypeOK, Job
      <3> QED BY <1>1, <1>2, <2>4, <3>1, SendEffect, QuieterSame, QuieterAppend, Kinds
              DEF PlayGame
    <2>5. CASE FinishTraining(w)
      <3>1. OptimizationDone(running[w].model + 1) \in Line
        BY DEF OptimizationDone, Line, None, TypeOK, Job
      <3> QED BY <1>1, <2>5, <3>1, SendEffect DEF FinishTraining
    <2>6. CASE DropConnection(w) \/ ClosedByServer(w)
      BY <1>1, <1>2, <2>6, LostEffect
    <2> QED BY <1>5, <2>1, <2>2, <2>3, <2>4, <2>5, <2>6 DEF Machine
  <1>6. CASE Main \/ UNCHANGED vars
    BY <1>3, <1>6 DEF Main, vars, LockWorkers, SendSelfPlay, UnlockWorkers, GetOneSelfPlay,
       RecordSelfPlay, FinishSelfPlay, StartOptimization, ConfigureOptimization,
       CheckOptimization, SendOptimization, FinishOptimization
  <1> QED BY <1>4, <1>5, <1>6 DEF Next

-------------------------------------------------------------------------------
(* Until an order is doubled the loop is exact *)

\* The history variables record, they do not restrict: what holds of ZeroServer
\* holds of its orders.
LEMMA OrdersStep == [OrdersNext]_ordersVars => [Next]_vars
  BY DEF OrdersNext, ordersVars

LEMMA OrdersType == OrdersSpec => []TypeOK
  <1>1. OrdersInit => Init
    BY DEF OrdersInit
  <1> QED BY <1>1, OrdersStep, InitType, NextType, PTL DEF OrdersSpec

\* LoopInv says this while no order has been doubled.
Calm ==
  /\ ModelInv
  /\ \A w \in OpWorker : OneToken(w)
  /\ \A v, w \in OpWorker : Token(v) /\ Token(w) => v = w

\* A step that brings an optimizer nothing new.
LEMMA QuietStep ==
  ASSUME NEW w \in OpWorker,
         Quieter(toWorker'[w], toWorker[w]), Quieter(toServer'[w], toServer[w]),
         Training(w)' => Training(w) /\ running'[w] = running[w]
  PROVE  /\ Token(w)' => Token(w)
         /\ OneToken(w) /\ UNCHANGED <<Waiting, iteration, bOptimization>> => OneToken(w)'
  <1>1. Token(w)' => Token(w)
    BY DEF Token, Quieter
  <1>2. ASSUME OneToken(w), UNCHANGED <<Waiting, iteration, bOptimization>>
        PROVE  OneToken(w)'
    <2>1. /\ CurrentOrder' = CurrentOrder /\ CurrentReport' = CurrentReport
          /\ CurrentJob' = CurrentJob
      BY <1>2 DEF CurrentOrder, CurrentReport, CurrentJob, JobOptimization,
         OptimizationDone, ModelOf
    <2>2. /\ AtMostOne(toWorker'[w], "Job_Optimization")
          /\ AtMostOne(toServer'[w], "Optimization_Done")
          /\ Only(toWorker'[w], CurrentOrder)
          /\ Only(toServer'[w], CurrentReport)
      BY <1>2, Kinds DEF OneToken, Quieter
    <2>3. /\ Carries(toWorker'[w], "Job_Optimization") => Carries(toWorker[w], "Job_Optimization")
          /\ Carries(toServer'[w], "Optimization_Done") => Carries(toServer[w], "Optimization_Done")
      BY DEF Quieter
    <2> QED BY <1>1, <1>2, <2>1, <2>2, <2>3 DEF OneToken
  <1> QED BY <1>1, <1>2

\* Nothing is said of an optimizer without a token but that it has none.
LEMMA NoToken ==
  ASSUME NEW w \in OpWorker, OneToken(w), ~Token(w)',
         Quieter(toWorker'[w], toWorker[w]), Quieter(toServer'[w], toServer[w])
  PROVE  OneToken(w)'
  <1>1. Only(toWorker'[w], CurrentOrder') /\ Only(toServer'[w], CurrentReport')
    BY OnlyAbsent DEF Token, CurrentOrder, CurrentReport, JobOptimization, OptimizationDone
  <1>2. /\ AtMostOne(toWorker'[w], "Job_Optimization")
        /\ AtMostOne(toServer'[w], "Optimization_Done")
    BY DEF OneToken, Quieter
  <1> QED BY <1>1, <1>2 DEF OneToken, Token

LEMMA InitCalm == Init => Calm /\ ReportsInv
  <1> SUFFICES ASSUME Init
               PROVE  Calm /\ ReportsInv
    OBVIOUS
  <1>1. ModelInv
    BY NumAssumption DEF Init, ModelInv, Waiting, ModelOf
  <1>2. ASSUME NEW w \in OpWorker
        PROVE  OneToken(w) /\ ~Token(w)
    <2>1. toWorker[w] = <<>> /\ toServer[w] = <<>> /\ link[w] = FALSE
      BY DEF Init, Worker
    <2>2. ~Token(w)
      BY <2>1, CarriesEmpty DEF Token, Training
    <2> QED BY <2>1, <2>2, CarriesEmpty, AtMostOneEmpty DEF OneToken, Only, Training
  <1>3. ReportsInv
    BY CarriesEmpty DEF Init, ReportsInv, Worker
  <1> QED BY <1>1, <1>2, <1>3 DEF Calm

\* The report the server reads is the one it waits for.
LEMMA ReportRead ==
  ASSUME TypeOK, ReportsInv, Calm, NEW w \in Worker, Received(w, "Optimization_Done")
  PROVE  /\ w \in OpWorker /\ Token(w)
         /\ Waiting /\ ~bOptimization
         /\ Head(toServer[w]) = CurrentReport
         /\ ~Carries(toWorker[w], "Job_Optimization") /\ ~Training(w)
         /\ ~Carries(Tail(toServer[w]), "Optimization_Done")
  <1>1. toServer[w] \in Seq(Line) /\ toServer[w] # <<>>
        /\ Head(toServer[w]).kind = "Optimization_Done"
    BY DEF Received, TypeOK
  <1>2. Carries(toServer[w], "Optimization_Done")
    BY <1>1, CarriesHead
  <1>3. w \in OpWorker
    BY <1>2 DEF ReportsInv, Worker
  <1>4. OneToken(w) /\ Token(w)
    BY <1>2, <1>3 DEF Calm, Token
  <1>5. Head(toServer[w]) = CurrentReport
    BY <1>1, <1>4, OnlyTail, Kinds DEF OneToken
  <1>6. ~Carries(Tail(toServer[w]), "Optimization_Done")
    BY <1>1, <1>4, AtMostOneTail DEF OneToken
  <1> QED BY <1>2, <1>3, <1>4, <1>5, <1>6 DEF OneToken

LEMMA NextModel == TypeOK /\ ReportsInv /\ Calm /\ [Next]_vars => ModelInv'
  <1> SUFFICES ASSUME TypeOK, ReportsInv, Calm, [Next]_vars
               PROVE  ModelInv'
    OBVIOUS
  <1> USE DEF mainVars, sharedVars, workerVars
  <1>t. /\ iteration \in Int /\ StartModel \in Int /\ StartIteration \in Int
        /\ modelIteration \in Int
    BY NumAssumption DEF TypeOK
  <1>i. ModelInv
    BY DEF Calm
  <1>1. CASE LockWorkers \/ UnlockWorkers \/ GetOneSelfPlay \/ RecordSelfPlay
             \/ FinishSelfPlay \/ \E w \in Worker : SendSelfPlay(w)
    BY <1>1, <1>i DEF LockWorkers, UnlockWorkers, GetOneSelfPlay, RecordSelfPlay,
       FinishSelfPlay, SendSelfPlay, ModelInv, Waiting, ModelOf
  <1>2. CASE StartOptimization \/ CheckOptimization \/ SendOptimization
    <2>1. /\ CurrentJob' = CurrentJob /\ ModelOf(iteration)' = ModelOf(iteration)
          /\ UNCHANGED <<conf, modelIteration>>
      BY <1>2 DEF StartOptimization, CheckOptimization, SendOptimization, CurrentJob, ModelOf
    <2>2. CASE StartOptimization
      BY <1>i, <2>1, <2>2 DEF StartOptimization, ModelInv, Waiting
    <2>3. CASE CheckOptimization
      BY <1>i, <2>1, <2>3 DEF CheckOptimization, ModelInv, Waiting
    <2>4. CASE SendOptimization
      BY <1>i, <2>1, <2>4 DEF SendOptimization, ModelInv, Waiting
    <2> QED BY <1>2, <2>2, <2>3, <2>4
  <1>3. CASE ConfigureOptimization
    <2>1. modelIteration = ModelOf(iteration) /\ ~bOptimization
      BY <1>3, <1>i, <1>t DEF ConfigureOptimization, ModelInv, Waiting, ModelOf
    <2>2. conf' = CurrentJob /\ pc' = "opCheck"
          /\ UNCHANGED <<iteration, bOptimization, modelIteration>>
      BY <1>3, <2>1 DEF ConfigureOptimization, CurrentJob
    <2>3. CurrentJob' = CurrentJob /\ ModelOf(iteration)' = ModelOf(iteration)
      BY <2>2 DEF CurrentJob, ModelOf
    <2> QED BY <1>t, <2>1, <2>2, <2>3 DEF ModelInv, Waiting, ModelOf
  <1>4. CASE FinishOptimization
    BY <1>4, <1>i, <1>t DEF FinishOptimization, ModelInv, Waiting, ModelOf
  <1>5. ASSUME NEW w \in Worker, HandleOptimizationDone(w)
        PROVE  ModelInv'
    <2>1. /\ Waiting /\ ~bOptimization
          /\ Head(toServer[w]) = CurrentReport
      BY <1>5, ReportRead DEF HandleOptimizationDone
    <2>2. modelIteration' = ModelOf(iteration) + 1 /\ bOptimization' = TRUE
          /\ UNCHANGED <<pc, iteration, conf>>
      BY <1>5, <2>1 DEF HandleOptimizationDone, CurrentReport, OptimizationDone
    <2> QED BY <1>i, <2>1, <2>2 DEF ModelInv, Waiting, ModelOf, CurrentJob
  <1>6. ASSUME NEW w \in Worker,
               \/ Connect(w) \/ HandleInfo(w) \/ HandleSelfPlay(w)
               \/ HandleJoinedLine(w) \/ CloseBrokenConnection(w) \/ Machine(w)
        PROVE  ModelInv'
    <2>1. UNCHANGED <<pc, iteration, conf, bOptimization, modelIteration>>
      BY <1>6 DEF Connect, HandleInfo, HandleSelfPlay, HandleJoinedLine,
         CloseBrokenConnection, Machine, ReadInfo, ReadJobSelfplay, ReadJobOptimization,
         ReadJobDone, Reads, PlayGame, FinishTraining, DropConnection, ClosedByServer,
         Disconnect
    <2> QED BY <1>i, <2>1 DEF ModelInv, Waiting, ModelOf, CurrentJob
  <1>7. CASE UNCHANGED vars
    BY <1>7, <1>i DEF vars, ModelInv, Waiting, ModelOf, CurrentJob
  <1> QED BY <1>1, <1>2, <1>3, <1>4, <1>5, <1>6, <1>7 DEF Next, Main, Io

\* Of the main thread's steps only SendOptimization says anything to an optimizer
\* that its orders depend on.
LEMMA MainQuiet ==
  ASSUME TypeOK, Main, ~SendOptimization, NEW w \in Worker
  PROVE  Quieter(toWorker'[w], toWorker[w]) /\ UNCHANGED <<toServer, running, link>>
  <1> USE DEF mainVars, sharedVars, workerVars
  <1>1. UNCHANGED <<toServer, running, link>>
    BY DEF Main, LockWorkers, SendSelfPlay, UnlockWorkers, GetOneSelfPlay, RecordSelfPlay,
       FinishSelfPlay, StartOptimization, ConfigureOptimization, CheckOptimization,
       FinishOptimization
  <1>2. ASSUME NEW W, NEW msg \in Command, Write(W, msg),
               msg.kind \in {"Job_Done", "Job_Selfplay"}
        PROVE  Quieter(toWorker'[w], toWorker[w])
    BY <1>2, WriteEffect
  <1>3. /\ JobDone \in Command /\ JobSelfplay(modelIteration) \in Command
        /\ JobDone.kind = "Job_Done" /\ JobSelfplay(modelIteration).kind = "Job_Selfplay"
    BY DEF JobDone, JobSelfplay, Command, None, TypeOK
  <1>4. CASE FinishSelfPlay \/ FinishOptimization
    BY <1>1, <1>2, <1>3, <1>4 DEF FinishSelfPlay, FinishOptimization
  <1>5. ASSUME NEW v \in Worker, SendSelfPlay(v)
        PROVE  Quieter(toWorker'[w], toWorker[w])
    BY <1>2, <1>3, <1>5 DEF SendSelfPlay
  <1>6. CASE UNCHANGED toWorker
    BY <1>1, <1>6, QuieterSame
  <1> QED BY <1>1, <1>4, <1>5, <1>6 DEF Main, LockWorkers, UnlockWorkers, GetOneSelfPlay,
          RecordSelfPlay, StartOptimization, ConfigureOptimization, CheckOptimization

\* The main thread's other steps and an optimizer's token.
LEMMA MainTokens ==
  ASSUME TypeOK, Calm, NEW w \in OpWorker, Main, ~SendOptimization
  PROVE  OneToken(w)' /\ (Token(w)' => Token(w))
  <1> USE DEF mainVars, sharedVars, workerVars
  <1>1. w \in Worker /\ OneToken(w)
    BY DEF Calm, Worker
  <1>2. /\ Quieter(toWorker'[w], toWorker[w]) /\ Quieter(toServer'[w], toServer[w])
        /\ Training(w)' => Training(w) /\ running'[w] = running[w]
    BY <1>1, MainQuiet, QuieterSame DEF Training
  <1>3. Token(w)' => Token(w)
    BY <1>2, QuietStep
  <1>4. CASE CheckOptimization
    <2>1. UNCHANGED <<Waiting, iteration, bOptimization>>
      BY <1>4 DEF CheckOptimization, Waiting
    <2> QED BY <1>1, <1>2, <1>3, <2>1, QuietStep
  <1>5. CASE ~CheckOptimization
    <2>1. ~Waiting \/ bOptimization
      BY <1>5 DEF Main, LockWorkers, SendSelfPlay, UnlockWorkers, GetOneSelfPlay,
         RecordSelfPlay, FinishSelfPlay, StartOptimization, ConfigureOptimization,
         FinishOptimization, Waiting
    <2>2. ~Token(w)
      BY <1>1, <2>1 DEF OneToken
    <2> QED BY <1>1, <1>2, <1>3, <2>2, NoToken
  <1> QED BY <1>4, <1>5

\* An order that doubles nothing: it goes to one optimizer, and nobody has a token.
LEMMA SendTokens ==
  ASSUME TypeOK, Calm, SendOptimization, ~DoublesOrder
  PROVE  /\ \A w \in OpWorker : OneToken(w)'
         /\ \A v, w \in OpWorker : Token(v)' /\ Token(w)' => v = w
  <1> USE DEF mainVars, sharedVars, workerVars
  <1> DEFINE Ordered(w) == toWorker'[w] # toWorker[w]
  <1>1. ASSUME NEW w \in OpWorker, Ordered(w)
        PROVE  /\ ~bOptimization
               /\ \A v \in OpWorker : ~Token(v) /\ (v # w => ~Ordered(v))
    BY <1>1 DEF DoublesOrder
  <1>2. /\ pc = "opSend" /\ pc' = "opCheck" /\ Waiting /\ Waiting'
        /\ UNCHANGED <<iteration, bOptimization, toServer, running, link>>
        /\ conf = CurrentJob
    BY DEF SendOptimization, Waiting, Calm, ModelInv
  <1>3. /\ CurrentOrder' = CurrentOrder /\ CurrentReport' = CurrentReport
        /\ CurrentJob' = CurrentJob
    BY <1>2 DEF CurrentOrder, CurrentReport, CurrentJob, JobOptimization, OptimizationDone,
       ModelOf
  <1>4. ASSUME NEW w \in OpWorker, ~Ordered(w)
        PROVE  OneToken(w)' /\ (Token(w)' => Token(w))
    <2>1. OneToken(w) /\ Quieter(toWorker'[w], toWorker[w]) /\ Quieter(toServer'[w], toServer[w])
      BY <1>2, <1>4, QuieterSame DEF Calm
    <2> QED BY <1>2, <2>1, QuietStep DEF Training
  <1>5. ASSUME NEW w \in OpWorker, Ordered(w)
        PROVE  OneToken(w)'
    <2>1. /\ ~bOptimization /\ OneToken(w)
          /\ ~Carries(toWorker[w], "Job_Optimization") /\ ~Training(w)
          /\ ~Carries(toServer[w], "Optimization_Done")
      BY <1>1, <1>5 DEF Calm, Token
    <2>2. CurrentOrder \in Command /\ JobOptimization(conf) = CurrentOrder
      BY <1>2 DEF TypeOK, JobOptimization, Command, Job, CurrentOrder
    <2>3. w \in Worker /\ toWorker[w] \in Seq(Command)
      BY DEF Worker, TypeOK
    <2>4. toWorker'[w] = Append(toWorker[w], CurrentOrder)
      BY <1>5, <2>2, <2>3, WriteEffect DEF SendOptimization
    <2>5. AtMostOne(toWorker'[w], "Job_Optimization") /\ Only(toWorker'[w], CurrentOrder)
      BY <2>1, <2>2, <2>3, <2>4, AtMostOneAppend, OnlyAppend DEF OneToken
    <2>6. ~Training(w)' /\ ~Carries(toServer'[w], "Optimization_Done")
      BY <1>2, <2>1 DEF Training
    <2>7. AtMostOne(toServer'[w], "Optimization_Done") /\ Only(toServer'[w], CurrentReport)
      BY <1>2, <2>1 DEF OneToken
    <2> QED BY <1>2, <1>3, <2>1, <2>5, <2>6, <2>7 DEF OneToken
  <1>6. ASSUME NEW v \in OpWorker, NEW w \in OpWorker, Token(v)', Token(w)'
        PROVE  v = w
    <2>1. CASE Ordered(v)
      BY <1>1, <1>4, <1>6, <2>1
    <2>2. CASE Ordered(w)
      BY <1>1, <1>4, <1>6, <2>2
    <2>3. CASE ~Ordered(v) /\ ~Ordered(w)
      BY <1>4, <1>6, <2>3 DEF Calm
    <2> QED BY <2>1, <2>2, <2>3
  <1> QED BY <1>4, <1>5, <1>6

\* The io thread's steps and an optimizer's token.
LEMMA IoTokens ==
  ASSUME TypeOK, ReportsInv, Calm, NEW w \in OpWorker, NEW v \in Worker, Io(v)
  PROVE  OneToken(w)' /\ (Token(w)' => Token(w))
  <1> USE DEF mainVars, sharedVars, workerVars
  <1>1. /\ w \in Worker /\ OneToken(w)
        /\ toWorker[w] \in Seq(Command) /\ toServer[w] \in Seq(Line)
        /\ Quieter(toWorker[w], toWorker[w]) /\ Quieter(toServer[w], toServer[w])
    BY QuieterSame DEF Calm, Worker, TypeOK
  <1>2. CASE Connect(v)
    <2>1. CASE v = w
      <3>1. toWorker'[w] = <<Info>> /\ toServer'[w] = <<>> /\ running'[w] = NoJob
        BY <1>1, <1>2, <2>1 DEF Connect, TypeOK
      <3>2. ~Carries(<<Info>>, "Job_Optimization") /\ AtMostOne(<<Info>>, "Job_Optimization")
        BY Kinds DEF Carries, AtMostOne
      <3>3. ~Token(w)'
        BY <3>1, <3>2, CarriesEmpty DEF Token, Training
      <3>4. Only(toWorker'[w], CurrentOrder') /\ Only(toServer'[w], CurrentReport')
        BY <3>3, OnlyAbsent DEF Token, CurrentOrder, CurrentReport, JobOptimization,
           OptimizationDone
      <3> QED BY <3>1, <3>2, <3>3, <3>4, AtMostOneEmpty DEF OneToken, Token
    <2>2. CASE v # w
      <3>1. /\ toWorker'[w] = toWorker[w] /\ toServer'[w] = toServer[w]
            /\ running'[w] = running[w] /\ link'[w] = link[w]
            /\ UNCHANGED <<Waiting, iteration, bOptimization>>
        BY <1>1, <1>2, <2>2 DEF Connect, TypeOK, Waiting
      <3> QED BY <1>1, <3>1, QuietStep DEF Training
    <2> QED BY <2>1, <2>2
  <1>3. CASE \/ HandleInfo(v) \/ HandleSelfPlay(v) \/ HandleJoinedLine(v)
             \/ CloseBrokenConnection(v)
    <2>1. UNCHANGED <<pc, iteration, bOptimization, toWorker, running, link>>
      BY <1>3 DEF HandleInfo, HandleSelfPlay, HandleJoinedLine, CloseBrokenConnection
    <2>2. Quieter(toServer'[w], toServer[w])
      <3>1. CASE HandleInfo(v) \/ HandleSelfPlay(v)
        BY <1>1, <3>1, ConsumeEffect DEF HandleInfo, HandleSelfPlay, Received
      <3>2. CASE HandleJoinedLine(v) \/ CloseBrokenConnection(v)
        BY <1>1, <3>2, JoinedEffect, BrokenEffect
      <3> QED BY <1>3, <3>1, <3>2
    <2> QED BY <1>1, <2>1, <2>2, QuietStep DEF Training, Waiting
  <1>4. CASE HandleOptimizationDone(v)
    <2>1. /\ Received(v, "Optimization_Done") /\ toServer[v] # <<>>
          /\ Consume(v) /\ UNCHANGED <<toWorker, running, link>>
      BY <1>4 DEF HandleOptimizationDone, Received
    <2>2. /\ Quieter(toServer'[w], toServer[w]) /\ Quieter(toWorker'[w], toWorker[w])
          /\ v = w => toServer'[w] = Tail(toServer[w])
      BY <1>1, <2>1, ConsumeEffect
    <2>3. Token(w)' => Token(w)
      BY <2>1, <2>2, QuietStep DEF Training
    <2>4. CASE v = w
      <3>1. ~Carries(toWorker[w], "Job_Optimization") /\ ~Training(w)
            /\ ~Carries(Tail(toServer[w]), "Optimization_Done")
        BY <2>1, <2>4, ReportRead
      <3>2. ~Token(w)'
        BY <2>1, <2>2, <2>4, <3>1 DEF Token, Training
      <3> QED BY <1>1, <2>2, <3>2, NoToken
    <2>5. CASE v # w
      <3>1. v \in OpWorker /\ Token(v)
        BY <2>1, ReportRead
      <3>2. ~Token(w)
        BY <2>5, <3>1 DEF Calm
      <3> QED BY <1>1, <2>2, <2>3, <3>2, NoToken
    <2> QED BY <2>4, <2>5
  <1> QED BY <1>2, <1>3, <1>4 DEF Io

\* The machines' steps and an optimizer's token.
LEMMA MachineTokens ==
  ASSUME TypeOK, Calm, NEW w \in OpWorker, NEW v \in Worker, Machine(v)
  PROVE  OneToken(w)' /\ (Token(w)' => Token(w))
  <1> USE DEF mainVars, sharedVars, workerVars
  <1>1. /\ w \in Worker /\ w \notin SpWorker /\ OneToken(w)
        /\ toWorker[w] \in Seq(Command) /\ toServer[w] \in Seq(Line)
        /\ Quieter(toWorker[w], toWorker[w]) /\ Quieter(toServer[w], toServer[w])
    BY QuieterSame, WorkerAssumption DEF Calm, Worker, TypeOK
  <1>2. UNCHANGED <<Waiting, iteration, bOptimization>>
    BY DEF Machine, ReadInfo, ReadJobSelfplay, ReadJobOptimization, ReadJobDone, Reads,
       PlayGame, FinishTraining, DropConnection, ClosedByServer, Disconnect, Waiting
  <1>3. CurrentOrder' = CurrentOrder /\ CurrentReport' = CurrentReport /\ CurrentJob' = CurrentJob
    BY <1>2 DEF CurrentOrder, CurrentReport, CurrentJob, JobOptimization, OptimizationDone, ModelOf
  <1>4. ASSUME Quieter(toWorker'[w], toWorker[w]), Quieter(toServer'[w], toServer[w]),
               Training(w)' => Training(w) /\ running'[w] = running[w]
        PROVE  OneToken(w)' /\ (Token(w)' => Token(w))
    BY <1>1, <1>2, <1>4, QuietStep
  <1>5. CASE ReadInfo(v)
    <2>1. /\ Reads(v, "Info") /\ Send(v, Info) /\ UNCHANGED <<running, link>> /\ Info \in Line
      BY <1>5 DEF ReadInfo, Reads, Info, Line, None
    <2>2. Quieter(toWorker'[w], toWorker[w])
      BY <1>1, <2>1, ReadsEffect
    <2>3. toServer'[w] \in {toServer[w], Append(toServer[w], Info)}
      BY <1>1, <2>1, SendEffect
    <2>4. CASE toServer'[w] = toServer[w]
      BY <1>1, <1>4, <2>1, <2>2, <2>4 DEF Training
    <2>5. CASE toServer'[w] = Append(toServer[w], Info)
      <3>1. /\ Carries(toServer'[w], "Optimization_Done") => Carries(toServer[w], "Optimization_Done")
            /\ AtMostOne(toServer'[w], "Optimization_Done")
            /\ Only(toServer'[w], CurrentReport)
        BY <1>1, <2>1, <2>5, CarriesAppend, AtMostOneAppend, OnlyAppend, Kinds DEF OneToken
      <3>2. /\ Carries(toWorker'[w], "Job_Optimization") => Carries(toWorker[w], "Job_Optimization")
            /\ AtMostOne(toWorker'[w], "Job_Optimization")
            /\ Only(toWorker'[w], CurrentOrder)
        BY <1>1, <2>2, Kinds DEF OneToken, Quieter
      <3>3. Training(w)' = Training(w) /\ running'[w] = running[w]
        BY <2>1 DEF Training
      <3> QED BY <1>1, <1>2, <1>3, <3>1, <3>2, <3>3 DEF OneToken, Token
    <2> QED BY <2>3, <2>4, <2>5
  <1>6. CASE ReadJobSelfplay(v) \/ ReadJobDone(v)
    <2>1. Quieter(toWorker'[w], toWorker[w]) /\ link' = link
      BY <1>1, <1>6, ReadsEffect DEF ReadJobSelfplay, ReadJobDone, Reads
    <2>2. toServer'[w] = toServer[w] /\ running'[w] = running[w]
      BY <1>1, <1>6, CutEffect DEF ReadJobSelfplay, ReadJobDone, TypeOK
    <2> QED BY <1>1, <1>4, <2>1, <2>2 DEF Training
  <1>7. CASE ReadJobOptimization(v)
    <2>1. Reads(v, "Job_Optimization") /\ UNCHANGED <<toServer, link>>
      BY <1>7 DEF ReadJobOptimization, Reads
    <2>2. CASE v = w
      <3>1. /\ toWorker[w] # <<>> /\ Head(toWorker[w]).kind = "Job_Optimization"
            /\ toWorker'[w] = Tail(toWorker[w])
            /\ Quieter(toWorker'[w], toWorker[w]) /\ Carries(toWorker[w], "Job_Optimization")
        BY <1>1, <2>1, <2>2, ReadsEffect DEF Reads
      <3>2. /\ Token(w) /\ ~Carries(toServer[w], "Optimization_Done")
            /\ Waiting /\ ~bOptimization
        BY <1>1, <3>1 DEF OneToken, Token
      <3>3. ~Carries(toWorker'[w], "Job_Optimization")
        BY <1>1, <3>1, AtMostOneTail DEF OneToken
      <3>4. Head(toWorker[w]) = CurrentOrder
        BY <1>1, <3>1, OnlyTail, Kinds DEF OneToken
      <3>5. running'[w] = CurrentJob
        BY <1>1, <1>7, <2>2, <3>4 DEF ReadJobOptimization, TypeOK, CurrentOrder,
           JobOptimization, CurrentJob
      <3>6. AtMostOne(toWorker'[w], "Job_Optimization") /\ Only(toWorker'[w], CurrentOrder)
        BY <1>1, <3>1, Kinds DEF OneToken, Quieter
      <3>7. AtMostOne(toServer[w], "Optimization_Done") /\ Only(toServer[w], CurrentReport)
        BY <1>1 DEF OneToken
      <3> QED BY <1>2, <1>3, <2>1, <3>2, <3>3, <3>5, <3>6, <3>7 DEF OneToken
    <2>3. CASE v # w
      <3>1. toWorker'[w] = toWorker[w] /\ running'[w] = running[w]
        BY <1>1, <1>7, <2>1, <2>3, ReadsEffect DEF ReadJobOptimization, TypeOK
      <3> QED BY <1>1, <1>4, <2>1, <3>1 DEF Training
    <2> QED BY <2>2, <2>3
  <1>8. CASE PlayGame(v)
    <2>1. SelfPlayLine(running[v].model) \in Line /\ v # w
      <3>1. v # w
        BY <1>1, <1>8 DEF PlayGame
      <3>2. running[v].model \in Int
        BY <1>1 DEF TypeOK, Job
      <3> QED BY <3>1, <3>2 DEF SelfPlayLine, Line, None
    <2>2. toServer'[w] = toServer[w] /\ UNCHANGED <<toWorker, running, link>>
      BY <1>1, <1>8, <2>1, SendEffect DEF PlayGame
    <2> QED BY <1>1, <1>4, <2>2 DEF Training
  <1>9. CASE FinishTraining(v)
    <2>1. /\ OptimizationDone(running[v].model + 1) \in Line
          /\ UNCHANGED <<toWorker, link>>
          /\ Send(v, OptimizationDone(running[v].model + 1))
          /\ running' = [running EXCEPT ![v] = NoJob]
      BY <1>9 DEF OptimizationDone, Line, None, TypeOK, Job, FinishTraining
    <2>2. CASE v # w \/ ~link[w]
      <3>1. toServer'[w] = toServer[w] /\ (v # w => running'[w] = running[w])
        BY <1>1, <2>1, <2>2, SendEffect DEF Send, TypeOK
      <3>2. Training(w)' => Training(w) /\ running'[w] = running[w]
        BY <2>1, <2>2, <3>1 DEF Training
      <3> QED BY <1>1, <1>4, <2>1, <3>1, <3>2
    <2>3. CASE v = w /\ link[w]
      <3>1. running[w] = CurrentJob /\ Training(w) /\ ~Training(w)'
        BY <1>1, <1>9, <2>1, <2>3 DEF FinishTraining, OneToken, TypeOK, Training
      <3>2. /\ Token(w) /\ ~Carries(toServer[w], "Optimization_Done")
            /\ ~Carries(toWorker[w], "Job_Optimization")
            /\ Waiting /\ ~bOptimization
        BY <1>1, <3>1 DEF OneToken, Token
      <3>3. /\ CurrentReport \in Line
            /\ toServer'[w] \in {toServer[w], Append(toServer[w], CurrentReport)}
        <4>1. OptimizationDone(running[w].model + 1) = CurrentReport
          BY <3>1 DEF CurrentReport, CurrentJob
        <4> QED BY <1>1, <2>1, <2>3, <4>1, SendEffect
      <3>4. /\ AtMostOne(Append(toServer[w], CurrentReport), "Optimization_Done")
            /\ Only(Append(toServer[w], CurrentReport), CurrentReport)
        BY <1>1, <3>2, <3>3, AtMostOneAppend, OnlyAppend DEF OneToken
      <3>5. /\ AtMostOne(toServer'[w], "Optimization_Done")
            /\ Only(toServer'[w], CurrentReport)
        BY <1>1, <3>3, <3>4 DEF OneToken
      <3>6. AtMostOne(toWorker[w], "Job_Optimization") /\ Only(toWorker[w], CurrentOrder)
        BY <1>1 DEF OneToken
      <3> QED BY <1>2, <1>3, <2>1, <3>1, <3>2, <3>5, <3>6 DEF OneToken
    <2> QED BY <2>2, <2>3
  <1>10. CASE DropConnection(v) \/ ClosedByServer(v)
    <2>1. running'[w] \in {running[w], NoJob} /\ (link'[w] => link[w])
      BY <1>1, <1>10 DEF DropConnection, ClosedByServer, Disconnect, TypeOK
    <2> QED BY <1>1, <1>4, <1>10, <2>1, LostEffect DEF Training
  <1> QED BY <1>5, <1>6, <1>7, <1>8, <1>9, <1>10 DEF Machine

\* Of all steps only SendOptimization gives an optimizer a token it did not have.
LEMMA TokenStep ==
  ASSUME TypeOK, ReportsInv, Calm, [Next]_vars, ~SendOptimization, NEW w \in OpWorker
  PROVE  OneToken(w)' /\ (Token(w)' => Token(w))
  <1>1. CASE UNCHANGED vars
    <2>1. UNCHANGED <<toWorker, toServer, running, link, Waiting, iteration, bOptimization>>
      BY <1>1 DEF vars, mainVars, sharedVars, workerVars, Waiting
    <2> QED BY <2>1, QuieterSame, QuietStep DEF Calm, Training
  <1> QED BY <1>1, MainTokens, IoTokens, MachineTokens DEF Next

LEMMA NextCalm ==
  ASSUME TypeOK, ReportsInv, Calm, [Next]_vars, ~DoublesOrder
  PROVE  Calm'
  <1>1. ModelInv'
    BY NextModel
  <1>2. CASE SendOptimization
    BY <1>1, <1>2, SendTokens DEF Calm
  <1>3. CASE ~SendOptimization
    <2>1. \A w \in OpWorker : OneToken(w)' /\ (Token(w)' => Token(w))
      BY <1>3, TokenStep
    <2> QED BY <1>1, <2>1 DEF Calm
  <1> QED BY <1>2, <1>3

LEMMA LoopIsCalm == LoopInv <=> (doubled = {} => Calm)
  BY DEF LoopInv, Calm

LEMMA NextLoop ==
  TypeOK /\ ReportsInv /\ LoopInv /\ [OrdersNext]_ordersVars => ReportsInv' /\ LoopInv'
  <1> SUFFICES ASSUME TypeOK, ReportsInv, LoopInv, [OrdersNext]_ordersVars
               PROVE  ReportsInv' /\ LoopInv'
    OBVIOUS
  <1>1. [Next]_vars /\ ReportsInv'
    BY OrdersStep, NextReports
  <1>2. ASSUME doubled' = {}
        PROVE  doubled = {} /\ (DoublesOrder => UNCHANGED vars)
    BY <1>2 DEF OrdersNext, ordersVars
  <1>3. ASSUME UNCHANGED vars, Calm
        PROVE  Calm'
    <2>1. ~SendOptimization
      BY <1>3 DEF SendOptimization, vars, mainVars
    <2> QED BY <1>1, <1>3, <2>1, NextCalm DEF DoublesOrder
  <1>4. ASSUME doubled' = {}
        PROVE  Calm'
    <2>1. Calm
      BY <1>2, <1>4, LoopIsCalm
    <2> QED BY <1>1, <1>2, <1>3, <1>4, <2>1, NextCalm
  <1>5. LoopInv'
    BY <1>4 DEF LoopInv, Calm
  <1> QED BY <1>1, <1>5

LEMMA OrdersLoop == OrdersSpec => [](ReportsInv /\ LoopInv)
  <1>1. OrdersInit => ReportsInv /\ LoopInv
    BY InitCalm, LoopIsCalm DEF OrdersInit
  <1> QED BY <1>1, NextLoop, OrdersType, PTL DEF OrdersSpec

\* Whatever the number of optimizers, however slow they answer and however
\* connections break: until an order is doubled, what the main thread waits for is
\* about the current iteration, and no report ends the wrong Optimization
\* (handle_msg, Optimization).
THEOREM LoopNeverDisturbed == OrdersSpec => []LoopInv
  BY OrdersLoop, PTL

-------------------------------------------------------------------------------
(* With one optimizer only a late Info answer doubles an order *)

OneOptimizer == \A v, w \in OpWorker : v = w

\* Until then no optimizer is idle that has a token, or whose report the main
\* thread has not noticed yet.
LateInv ==
  ~late =>
    /\ doubled = {}
    /\ \A w \in OpWorker : idle[w] => ~Token(w) /\ ~(pc = "opSend" /\ bOptimization)

\* What SendOptimization does to an optimizer: an order ends its idleness.
LEMMA SendEnds ==
  ASSUME TypeOK, SendOptimization, NEW w \in OpWorker
  PROVE  /\ idle'[w] => idle[w]
         /\ toWorker'[w] # toWorker[w] => idle[w] /\ ~idle'[w]
         /\ pc = "opSend" /\ pc' = "opCheck"
         /\ UNCHANGED <<toServer, running, link, bOptimization>>
  <1>1. /\ SetIdle({u \in Known : idle[u]}, FALSE)
        /\ Write({u \in Known : idle[u]}, JobOptimization(conf))
        /\ pc = "opSend" /\ pc' = "opCheck"
        /\ UNCHANGED <<toServer, running, link, bOptimization>>
    BY DEF SendOptimization, sharedVars, workerVars
  <1>2. w \in Worker
    BY DEF Worker
  <1>3. w \in Known /\ idle[w] => idle'[w] = FALSE
    BY <1>1, <1>2 DEF SetIdle
  <1>4. ~(w \in Known /\ idle[w]) => idle'[w] = idle[w] /\ toWorker'[w] = toWorker[w]
    BY <1>1, <1>2 DEF SetIdle, Write, TypeOK
  <1> QED BY <1>1, <1>3, <1>4

LEMMA NextLate ==
  ASSUME OneOptimizer
  PROVE  TypeOK /\ ReportsInv /\ LoopInv /\ LateInv /\ [OrdersNext]_ordersVars => LateInv'
  <1> SUFFICES ASSUME TypeOK, ReportsInv, LoopInv, LateInv, [OrdersNext]_ordersVars, ~late'
               PROVE  /\ doubled' = {}
                      /\ \A w \in OpWorker :
                           idle'[w] => ~Token(w)' /\ ~(pc' = "opSend" /\ bOptimization')
    BY DEF LateInv
  <1> USE DEF mainVars, sharedVars, workerVars
  <1>1. [Next]_vars /\ ~late /\ (MarksBusyIdle => UNCHANGED vars)
    <2>1. CASE OrdersNext
      BY <2>1, OrdersStep DEF OrdersNext
    <2>2. CASE UNCHANGED ordersVars
      BY <2>2 DEF ordersVars
    <2> QED BY <2>1, <2>2
  <1>2. /\ doubled = {} /\ Calm
        /\ \A w \in OpWorker : idle[w] => ~Token(w) /\ ~(pc = "opSend" /\ bOptimization)
    BY <1>1, LoopIsCalm DEF LateInv
  <1>3. ~DoublesOrder
    <2> SUFFICES ASSUME SendOptimization, NEW w \in OpWorker, toWorker'[w] # toWorker[w],
                        \/ bOptimization
                        \/ \E v \in OpWorker : Token(v)
                        \/ \E v \in OpWorker \ {w} : toWorker'[v] # toWorker[v]
                 PROVE  FALSE
      BY DEF DoublesOrder
    <2>1. idle[w] /\ pc = "opSend"
      BY SendEnds
    <2> QED BY <1>2, <2>1 DEF OneOptimizer
  <1>4. doubled' = {}
    BY <1>2, <1>3 DEF OrdersNext, ordersVars
  <1>5. ASSUME NEW w \in OpWorker, idle'[w]
        PROVE  ~Token(w)' /\ ~(pc' = "opSend" /\ bOptimization')
    <2>1. CASE SendOptimization
      <3>1. /\ idle[w] /\ toWorker'[w] = toWorker[w] /\ pc' # "opSend"
            /\ UNCHANGED <<toServer, running, link>>
        BY <1>5, <2>1, SendEnds
      <3> QED BY <1>2, <3>1 DEF Token, Training
    <2>2. CASE ~SendOptimization
      <3>1. Token(w)' => Token(w)
        BY <1>1, <1>2, <2>2, TokenStep
      <3>w. w \in Worker
        BY DEF Worker
      <3>2. CASE FinishSelfPlay \/ FinishOptimization
        <4>1. (~Waiting \/ bOptimization) /\ pc' # "opSend"
          BY <3>2 DEF FinishSelfPlay, FinishOptimization, Waiting
        <4> QED BY <1>2, <3>1, <4>1 DEF Calm, OneToken
      <3>3. ASSUME NEW v \in Worker, HandleInfo(v)
            PROVE  ~Token(w)' /\ ~(pc' = "opSend" /\ bOptimization')
        <4>1. UNCHANGED <<pc, bOptimization>> /\ idle' = [idle EXCEPT ![v] = TRUE]
          BY <3>3 DEF HandleInfo
        <4>2. CASE v # w
          BY <1>2, <1>5, <3>1, <3>w, <4>1, <4>2 DEF TypeOK
        <4>3. CASE v = w
          <5>1. ~UNCHANGED vars
            <6>1. toServer'[v] = Tail(toServer[v]) /\ toServer[v] # <<>>
                  /\ toServer[v] \in Seq(Line)
              BY <3>3 DEF HandleInfo, Received, Consume, TypeOK
            <6>2. Len(Tail(toServer[v])) = Len(toServer[v]) - 1 /\ Len(toServer[v]) \in Nat
              BY <6>1
            <6>3. toServer' # toServer
              <7> DEFINE t == Tail(toServer[v])
              <7>1. Len(t) # Len(toServer[v])
                BY <6>2
              <7> HIDE DEF t
              <7> QED BY <6>1, <7>1 DEF t
            <6> QED BY <6>3 DEF vars
          <5>2. ~Token(w) /\ ~(pc = "opSend" /\ bOptimization)
            BY <1>1, <3>3, <4>3, <5>1 DEF MarksBusyIdle
          <5> QED BY <3>1, <4>1, <5>2
        <4> QED BY <4>2, <4>3
      <3>4. ASSUME NEW v \in Worker, HandleOptimizationDone(v)
            PROVE  ~Token(w)' /\ ~(pc' = "opSend" /\ bOptimization')
        <4>1. v \in OpWorker /\ Token(v) /\ idle' = idle
          BY <1>2, <3>4, ReportRead DEF HandleOptimizationDone
        <4> QED BY <1>2, <1>5, <4>1 DEF OneOptimizer
      <3>5. CASE /\ ~(FinishSelfPlay \/ FinishOptimization)
                 /\ \A v \in Worker : ~HandleInfo(v) /\ ~HandleOptimizationDone(v)
        <4>1. idle'[w] => idle[w]
          BY <1>1, <2>2, <3>5, <3>w DEF Next, Main, Io, Machine, vars, LockWorkers, SendSelfPlay,
             UnlockWorkers, GetOneSelfPlay, RecordSelfPlay, StartOptimization,
             ConfigureOptimization, CheckOptimization, Connect, HandleSelfPlay,
             HandleJoinedLine, CloseBrokenConnection, ReadInfo, ReadJobSelfplay,
             ReadJobOptimization, ReadJobDone, Reads, PlayGame, FinishTraining,
             DropConnection, ClosedByServer, Disconnect, SetIdle, TypeOK
        <4>2. pc' = "opSend" /\ bOptimization' => pc = "opSend" /\ bOptimization
          BY <1>1, <2>2, <3>5 DEF Next, Main, Io, Machine, vars, LockWorkers, SendSelfPlay,
             UnlockWorkers, GetOneSelfPlay, RecordSelfPlay, StartOptimization,
             ConfigureOptimization, CheckOptimization, Connect, HandleSelfPlay,
             HandleJoinedLine, CloseBrokenConnection, ReadInfo, ReadJobSelfplay,
             ReadJobOptimization, ReadJobDone, Reads, PlayGame, FinishTraining,
             DropConnection, ClosedByServer, Disconnect
        <4> QED BY <1>2, <1>5, <3>1, <4>1, <4>2
      <3> QED BY <3>2, <3>3, <3>4, <3>5
    <2> QED BY <2>1, <2>2
  <1> QED BY <1>4, <1>5

\* With one optimizer the late Info answer is the only way to a doubled order: not
\* a broken connection, a reconnection or a report that races with the send loop of
\* Optimization.
THEOREM LateInfoDoubles ==
  ASSUME OneOptimizer
  PROVE  OrdersSpec => []OnlyLateInfoDoubles
  <1>1. OrdersInit => LateInv
    BY DEF OrdersInit, Init, LateInv, Worker
  <1>2. LateInv => OnlyLateInfoDoubles
    BY DEF LateInv, OnlyLateInfoDoubles
  <1> QED BY <1>1, <1>2, NextLate, OrdersLoop, OrdersType, PTL DEF OrdersSpec

-------------------------------------------------------------------------------
(* One model per file *)

\* An order is doubled in the iteration whose training it orders.
PastDoubles ==
  \A d \in doubled : d \in Int /\ (d < iteration \/ (d = iteration /\ Waiting))

LEMMA NextPast == TypeOK /\ PastDoubles /\ [OrdersNext]_ordersVars => PastDoubles'
  <1> SUFFICES ASSUME TypeOK, PastDoubles, [OrdersNext]_ordersVars, NEW d \in doubled'
               PROVE  d \in Int /\ (d < iteration' \/ (d = iteration' /\ Waiting'))
    BY DEF PastDoubles
  <1> USE DEF mainVars, sharedVars, workerVars
  <1>1. [Next]_vars /\ iteration \in Int
    BY OrdersStep, NumAssumption DEF TypeOK
  <1>2. CASE SendOptimization
    <2>1. Waiting' /\ iteration' = iteration
      BY <1>2 DEF SendOptimization, Waiting
    <2>2. d \in doubled \/ d = iteration
      BY DEF OrdersNext, ordersVars
    <2> QED BY <1>1, <2>1, <2>2 DEF PastDoubles
  <1>3. CASE ~SendOptimization
    <2>1. d \in Int /\ (d < iteration \/ (d = iteration /\ Waiting))
      BY <1>3 DEF OrdersNext, ordersVars, DoublesOrder, PastDoubles
    <2>2. CASE FinishOptimization
      BY <1>1, <2>1, <2>2 DEF FinishOptimization
    <2>3. CASE ~FinishOptimization
      <3>1. iteration' = iteration /\ (Waiting => Waiting')
        BY <1>1, <1>3, <2>3 DEF Next, Main, Io, Machine, vars, LockWorkers, SendSelfPlay,
           UnlockWorkers, GetOneSelfPlay, RecordSelfPlay, FinishSelfPlay, StartOptimization,
           ConfigureOptimization, CheckOptimization, Connect, HandleInfo, HandleSelfPlay,
           HandleOptimizationDone, HandleJoinedLine, CloseBrokenConnection, ReadInfo,
           ReadJobSelfplay, ReadJobOptimization, ReadJobDone, Reads, PlayGame,
           FinishTraining, DropConnection, ClosedByServer, Disconnect, Waiting
      <3> QED BY <2>1, <3>1
    <2> QED BY <2>2, <2>3
  <1> QED BY <1>2, <1>3

LEMMA NextOneModel ==
  TypeOK /\ LoopInv /\ PastDoubles /\ OneModelPerFile /\ [OrdersNext]_ordersVars => OneModelPerFile'
  <1> SUFFICES ASSUME TypeOK, LoopInv, PastDoubles, OneModelPerFile, [OrdersNext]_ordersVars,
                      NEW i \in Iteration, \A d \in doubled' : i <= d
               PROVE  sgf'[i] \subseteq {ModelOf(i)}
    BY DEF OneModelPerFile, ModelOf
  <1> USE DEF mainVars, sharedVars, workerVars
  <1>1. [Next]_vars
    BY OrdersStep
  <1>2. \A d \in doubled : i <= d
    BY DEF OrdersNext, ordersVars
  <1>3. sgf[i] \subseteq {ModelOf(i)}
    BY <1>2 DEF OneModelPerFile
  <1>4. CASE RecordSelfPlay /\ popped = modelIteration /\ i = iteration
    <2>1. i \in Int /\ ~Waiting
      BY <1>4, NumAssumption DEF RecordSelfPlay, Waiting, Iteration
    <2>2. doubled = {}
      BY <1>2, <1>4, <2>1 DEF PastDoubles
    <2>3. popped = ModelOf(i)
      BY <1>4, <2>1, <2>2, NumAssumption DEF LoopInv, ModelInv, TypeOK, ModelOf
    <2> QED BY <1>3, <1>4, <2>3 DEF RecordSelfPlay, TypeOK
  <1>5. CASE RecordSelfPlay /\ ~(popped = modelIteration /\ i = iteration)
    <2>1. sgf'[i] = sgf[i]
      BY <1>5 DEF RecordSelfPlay, TypeOK
    <2> QED BY <1>3, <2>1
  <1>6. CASE ~RecordSelfPlay
    <2>1. sgf' = sgf
      BY <1>1, <1>6 DEF Next, Main, Io, Machine, vars, LockWorkers, SendSelfPlay, UnlockWorkers,
         GetOneSelfPlay, FinishSelfPlay, StartOptimization, ConfigureOptimization,
         CheckOptimization, SendOptimization, FinishOptimization, Connect, HandleInfo,
         HandleSelfPlay, HandleOptimizationDone, HandleJoinedLine, CloseBrokenConnection,
         ReadInfo, ReadJobSelfplay, ReadJobOptimization, ReadJobDone, Reads, PlayGame,
         FinishTraining, DropConnection, ClosedByServer, Disconnect
    <2> QED BY <1>3, <2>1
  <1> QED BY <1>4, <1>5, <1>6

\* Every sgf file holds the games of the one model of its iteration, although
\* self-play machines send games of older models at any time (SelfPlay's discard);
\* only files of iterations after a doubled order may not.
THEOREM FilesOfOneModel == OrdersSpec => []OneModelPerFile
  <1>1. OrdersInit => PastDoubles /\ OneModelPerFile
    BY DEF OrdersInit, Init, PastDoubles, OneModelPerFile
  <1>2. OrdersSpec => []PastDoubles
    BY <1>1, NextPast, OrdersType, PTL DEF OrdersSpec
  <1> QED BY <1>1, <1>2, NextOneModel, OrdersLoop, OrdersType, PTL DEF OrdersSpec

-------------------------------------------------------------------------------
(* However many trainings are ordered, an iteration adds at most one model *)

\* The last model the current iteration can have made.
Top == ModelOf(iteration) + IF Waiting THEN 1 ELSE 0

\* What is on its way to, at and from an optimizer names models of the past, or the
\* next one.
Bounded(w) ==
  /\ Named(toWorker[w], "Job_Optimization", StartModel, Top - 1)
  /\ running[w] # NoJob => running[w].model \in StartModel .. Top - 1
  /\ Named(toServer[w], "Optimization_Done", StartModel, Top)

BoundsInv ==
  /\ modelIteration \in StartModel .. Top
  /\ Waiting => conf.model \in StartModel .. Top - 1
  /\ \A w \in OpWorker : Bounded(w)

LEMMA InitBounds == Init => BoundsInv
  <1> SUFFICES ASSUME Init
               PROVE  BoundsInv
    OBVIOUS
  <1>1. ~Waiting /\ Top = StartModel /\ StartModel \in Int
    BY NumAssumption DEF Init, Waiting, Top, ModelOf
  <1>2. ASSUME NEW w \in OpWorker
        PROVE  Bounded(w)
    <2>1. toWorker[w] = <<>> /\ toServer[w] = <<>> /\ running[w] = NoJob
      BY DEF Init, Worker
    <2> QED BY <2>1, NamedEmpty DEF Bounded
  <1> QED BY <1>1, <1>2 DEF Init, BoundsInv

\* The bound is a number and never falls.
LEMMA TopRises ==
  ASSUME TypeOK, TypeOK', [Next]_vars
  PROVE  /\ Top \in Int /\ Top' \in Int /\ Top' >= Top
         /\ StartModel \in Int
         /\ ~ConfigureOptimization => Top' = Top
         /\ ConfigureOptimization => Top' = Top + 1
  <1> USE DEF mainVars, sharedVars, workerVars
  <1>1. /\ iteration \in Int /\ iteration' \in Int /\ StartModel \in Int
        /\ StartIteration \in Int
    BY NumAssumption DEF TypeOK
  <1>2. CASE ConfigureOptimization
    <2>1. iteration' = iteration /\ ~Waiting /\ Waiting'
      BY <1>2 DEF ConfigureOptimization, Waiting
    <2> QED BY <1>1, <1>2, <2>1 DEF Top, ModelOf
  <1>3. CASE FinishOptimization
    <2>1. iteration' = iteration + 1 /\ Waiting /\ ~Waiting' /\ ~ConfigureOptimization
      BY <1>3 DEF FinishOptimization, ConfigureOptimization, Waiting
    <2> QED BY <1>1, <2>1 DEF Top, ModelOf
  <1>4. CASE ~ConfigureOptimization /\ ~FinishOptimization
    <2>1. iteration' = iteration /\ (Waiting' <=> Waiting)
      <3>1. CASE Main
        BY <1>4, <3>1 DEF Main, LockWorkers, SendSelfPlay, UnlockWorkers, GetOneSelfPlay,
           RecordSelfPlay, FinishSelfPlay, StartOptimization, CheckOptimization,
           SendOptimization, Waiting
      <3>2. CASE ~Main
        <4>1. UNCHANGED <<iteration, pc>>
          BY <3>2 DEF Next, Io, Machine, vars, Connect, HandleInfo, HandleSelfPlay,
             HandleOptimizationDone, HandleJoinedLine, CloseBrokenConnection, ReadInfo,
             ReadJobSelfplay, ReadJobOptimization, ReadJobDone, Reads, PlayGame,
             FinishTraining, DropConnection, ClosedByServer, Disconnect
        <4> QED BY <4>1 DEF Waiting
      <3> QED BY <3>1, <3>2
    <2> QED BY <1>1, <1>4, <2>1 DEF Top, ModelOf
  <1> QED BY <1>2, <1>3, <1>4

\* A step that brings an optimizer nothing new.
LEMMA QuietBounds ==
  ASSUME TypeOK, TypeOK', [Next]_vars, NEW w \in OpWorker, Bounded(w),
         Quieter(toWorker'[w], toWorker[w]), Quieter(toServer'[w], toServer[w]),
         running'[w] \in {running[w], NoJob}
  PROVE  Bounded(w)'
  <1>1. Top \in Int /\ Top' \in Int /\ Top' >= Top /\ StartModel \in Int
    BY TopRises
  <1>2. /\ Named(toWorker'[w], "Job_Optimization", StartModel, Top - 1)
        /\ Named(toServer'[w], "Optimization_Done", StartModel, Top)
    BY DEF Bounded, Quieter
  <1>3. Top - 1 \in Int /\ Top' - 1 \in Int /\ Top - 1 <= Top' - 1
    <2> DEFINE t == Top
               u == Top'
    <2>1. t \in Int /\ u \in Int /\ u >= t
      BY <1>1
    <2> HIDE DEF t, u
    <2>2. t - 1 \in Int /\ u - 1 \in Int /\ t - 1 <= u - 1
      BY <2>1
    <2> QED BY <2>2 DEF t, u
  <1>4. /\ Named(toWorker'[w], "Job_Optimization", StartModel, Top' - 1)
        /\ Named(toServer'[w], "Optimization_Done", StartModel, Top')
    BY <1>1, <1>2, <1>3, NamedWider
  <1>5. running'[w] # NoJob => running'[w].model \in StartModel .. Top' - 1
    BY <1>1, <1>3 DEF Bounded
  <1> QED BY <1>4, <1>5 DEF Bounded

\* What the server does.
LEMMA ServerBounds ==
  ASSUME TypeOK, TypeOK', ReportsInv, BoundsInv, [Next]_vars, NEW w \in OpWorker,
         Main \/ \E v \in Worker : Io(v)
  PROVE  Bounded(w)'
  <1> USE DEF mainVars, sharedVars, workerVars
  <1>1. /\ w \in Worker /\ Bounded(w)
        /\ toWorker[w] \in Seq(Command) /\ toServer[w] \in Seq(Line)
        /\ Quieter(toWorker[w], toWorker[w]) /\ Quieter(toServer[w], toServer[w])
    BY QuieterSame DEF BoundsInv, Worker, TypeOK
  <1>2. CASE SendOptimization
    <2>1. /\ Waiting /\ conf.model \in StartModel .. Top - 1 /\ conf \in Job
          /\ Top' = Top /\ UNCHANGED <<toServer, running>>
      BY <1>2, TopRises DEF SendOptimization, Waiting, BoundsInv, TypeOK, ConfigureOptimization
    <2>2. /\ JobOptimization(conf) \in Command
          /\ JobOptimization(conf).model = conf.model
      BY <2>1, MessageTypes DEF JobOptimization, None
    <2>3. toWorker'[w] \in {toWorker[w], Append(toWorker[w], JobOptimization(conf))}
      BY <1>1, <1>2, <2>2, WriteEffect DEF SendOptimization
    <2>4. Named(Append(toWorker[w], JobOptimization(conf)), "Job_Optimization", StartModel, Top - 1)
      BY <1>1, <2>1, <2>2, NamedAppend DEF Bounded
    <2> QED BY <1>1, <2>1, <2>3, <2>4 DEF Bounded
  <1>3. CASE Main /\ ~SendOptimization
    BY <1>1, <1>3, MainQuiet, QuietBounds
  <1>4. ASSUME NEW v \in Worker, Connect(v)
        PROVE  Bounded(w)'
    <2>1. \/ toServer'[w] = toServer[w] /\ toWorker'[w] = toWorker[w]
          \/ toServer'[w] = <<>> /\ toWorker'[w] = <<Info>>
      BY <1>1, <1>4 DEF Connect, TypeOK
    <2>2. running'[w] = running[w] /\ Top' = Top
      BY <1>4, TopRises DEF Connect, ConfigureOptimization
    <2>3. Named(<<Info>>, "Job_Optimization", StartModel, Top - 1)
      BY Kinds DEF Named
    <2> QED BY <1>1, <2>1, <2>2, <2>3, NamedEmpty DEF Bounded
  <1>5. ASSUME NEW v \in Worker,
               \/ HandleInfo(v) \/ HandleSelfPlay(v) \/ HandleOptimizationDone(v)
               \/ HandleJoinedLine(v) \/ CloseBrokenConnection(v)
        PROVE  Bounded(w)'
    <2>1. UNCHANGED <<toWorker, running>>
      BY <1>5 DEF HandleInfo, HandleSelfPlay, HandleOptimizationDone, HandleJoinedLine,
         CloseBrokenConnection
    <2>2. Quieter(toServer'[w], toServer[w])
      <3>1. CASE HandleInfo(v) \/ HandleSelfPlay(v) \/ HandleOptimizationDone(v)
        BY <1>1, <3>1, ConsumeEffect DEF HandleInfo, HandleSelfPlay,
           HandleOptimizationDone, Received
      <3>2. CASE HandleJoinedLine(v) \/ CloseBrokenConnection(v)
        BY <1>1, <3>2, JoinedEffect, BrokenEffect
      <3> QED BY <1>5, <3>1, <3>2
    <2> QED BY <1>1, <2>1, <2>2, QuietBounds
  <1> QED BY <1>2, <1>3, <1>4, <1>5 DEF Io

\* What the machines do.
LEMMA MachineBounds ==
  ASSUME TypeOK, TypeOK', BoundsInv, [Next]_vars, NEW w \in OpWorker, NEW v \in Worker,
         Machine(v)
  PROVE  Bounded(w)'
  <1> USE DEF mainVars, sharedVars, workerVars
  <1>1. /\ w \in Worker /\ w \notin SpWorker /\ Bounded(w)
        /\ toWorker[w] \in Seq(Command) /\ toServer[w] \in Seq(Line)
        /\ Quieter(toWorker[w], toWorker[w]) /\ Quieter(toServer[w], toServer[w])
        /\ running[w].model \in Int
    BY QuieterSame, WorkerAssumption DEF BoundsInv, Worker, TypeOK, Job
  <1>2. Top \in Int /\ Top' = Top /\ StartModel \in Int
    <2>1. pc' = pc
      BY DEF Machine, ReadInfo, ReadJobSelfplay, ReadJobOptimization, ReadJobDone, Reads,
         PlayGame, FinishTraining, DropConnection, ClosedByServer, Disconnect
    <2> QED BY <2>1, TopRises DEF ConfigureOptimization
  <1>3. CASE ReadInfo(v)
    <2>1. /\ Reads(v, "Info") /\ Send(v, Info) /\ UNCHANGED running /\ Info \in Line
      BY <1>3 DEF ReadInfo, Info, Line, None
    <2>2. Quieter(toWorker'[w], toWorker[w])
      BY <1>1, <2>1, ReadsEffect
    <2>3. toServer'[w] \in {toServer[w], Append(toServer[w], Info)}
      BY <1>1, <2>1, SendEffect
    <2>4. Named(Append(toServer[w], Info), "Optimization_Done", StartModel, Top)
      BY <1>1, <2>1, NamedAppend, Kinds DEF Bounded
    <2>5. Named(toWorker'[w], "Job_Optimization", StartModel, Top - 1)
      BY <1>1, <2>2 DEF Bounded, Quieter
    <2> QED BY <1>1, <1>2, <2>1, <2>3, <2>4, <2>5 DEF Bounded
  <1>4. CASE ReadJobSelfplay(v) \/ ReadJobDone(v)
    <2>1. Quieter(toWorker'[w], toWorker[w])
      BY <1>1, <1>4, ReadsEffect DEF ReadJobSelfplay, ReadJobDone
    <2>2. toServer'[w] = toServer[w] /\ running'[w] = running[w]
      BY <1>1, <1>4, CutEffect DEF ReadJobSelfplay, ReadJobDone, TypeOK
    <2> QED BY <1>1, <2>1, <2>2, QuietBounds
  <1>5. CASE ReadJobOptimization(v)
    <2>1. Reads(v, "Job_Optimization") /\ UNCHANGED toServer
      BY <1>5 DEF ReadJobOptimization
    <2>2. Quieter(toWorker'[w], toWorker[w])
      BY <1>1, <2>1, ReadsEffect
    <2>3. CASE v = w
      <3>1. toWorker[w] # <<>> /\ Head(toWorker[w]).kind = "Job_Optimization"
        BY <2>1, <2>3 DEF Reads
      <3>2. Head(toWorker[w]).model \in StartModel .. Top - 1
        BY <1>1, <3>1, NamedTail DEF Bounded
      <3>3. running'[w].model = Head(toWorker[w]).model
        BY <1>1, <1>5, <2>3 DEF ReadJobOptimization, TypeOK
      <3>4. Named(toWorker'[w], "Job_Optimization", StartModel, Top - 1)
        BY <1>1, <2>2 DEF Bounded, Quieter
      <3> QED BY <1>1, <1>2, <2>1, <3>2, <3>3, <3>4 DEF Bounded
    <2>4. CASE v # w
      <3>1. running'[w] = running[w]
        BY <1>1, <1>5, <2>4 DEF ReadJobOptimization, TypeOK
      <3> QED BY <1>1, <2>1, <2>2, <3>1, QuietBounds
    <2> QED BY <2>3, <2>4
  <1>6. CASE PlayGame(v)
    <2>1. SelfPlayLine(running[v].model) \in Line /\ v # w
      <3>1. v # w
        BY <1>1, <1>6 DEF PlayGame
      <3>2. running[v].model \in Int
        BY <1>1 DEF TypeOK, Job
      <3> QED BY <3>1, <3>2 DEF SelfPlayLine, Line, None
    <2>2. toServer'[w] = toServer[w] /\ UNCHANGED <<toWorker, running>>
      BY <1>1, <1>6, <2>1, SendEffect DEF PlayGame
    <2> QED BY <1>1, <2>2, QuietBounds
  <1>7. CASE FinishTraining(v)
    <2>1. /\ OptimizationDone(running[v].model + 1) \in Line
          /\ UNCHANGED toWorker /\ running[v] # NoJob
          /\ Send(v, OptimizationDone(running[v].model + 1))
          /\ running' = [running EXCEPT ![v] = NoJob]
      BY <1>7 DEF OptimizationDone, Line, None, TypeOK, Job, FinishTraining
    <2>2. running'[w] \in {running[w], NoJob}
      BY <1>1, <2>1 DEF TypeOK
    <2>3. CASE toServer'[w] = toServer[w]
      BY <1>1, <2>1, <2>2, <2>3, QuietBounds
    <2>4. CASE toServer'[w] # toServer[w]
      <3>1. v = w /\ toServer'[w] = Append(toServer[w], OptimizationDone(running[w].model + 1))
        BY <1>1, <2>1, <2>4, SendEffect
      <3> DEFINE e == OptimizationDone(running[w].model + 1)
      <3>2. e \in Line /\ e.model = running[w].model + 1
        BY <2>1, <3>1 DEF OptimizationDone
      <3> HIDE DEF e
      <3>3. running[w].model \in StartModel .. Top - 1
        BY <1>1, <2>1, <3>1 DEF Bounded
      <3>4. e.model \in StartModel .. Top
        BY <1>1, <1>2, <3>2, <3>3
      <3>5. Named(Append(toServer[w], e), "Optimization_Done", StartModel, Top)
        BY <1>1, <3>2, <3>4, NamedAppend DEF Bounded
      <3>6. toServer'[w] = Append(toServer[w], e)
        BY <3>1 DEF e
      <3> QED BY <1>1, <1>2, <2>1, <2>2, <3>5, <3>6 DEF Bounded
    <2> QED BY <2>3, <2>4
  <1>8. CASE DropConnection(v) \/ ClosedByServer(v)
    <2>1. running'[w] \in {running[w], NoJob}
      BY <1>1, <1>8 DEF DropConnection, ClosedByServer, Disconnect, TypeOK
    <2> QED BY <1>1, <1>8, <2>1, LostEffect, QuietBounds
  <1> QED BY <1>3, <1>4, <1>5, <1>6, <1>7, <1>8 DEF Machine

\* A report names a model of the past, or the next one.
LEMMA ReportBound ==
  ASSUME TypeOK, ReportsInv, BoundsInv, NEW v \in Worker, HandleOptimizationDone(v)
  PROVE  modelIteration' \in StartModel .. Top
  <1>1. /\ toServer[v] \in Seq(Line) /\ toServer[v] # <<>>
        /\ Head(toServer[v]).kind = "Optimization_Done"
        /\ modelIteration' = Head(toServer[v]).model
    BY DEF HandleOptimizationDone, Received, TypeOK
  <1>2. v \in OpWorker
    BY <1>1, CarriesHead DEF ReportsInv, Worker
  <1> QED BY <1>1, <1>2, NamedTail DEF BoundsInv, Bounded

LEMMA NextBounds ==
  TypeOK /\ TypeOK' /\ ReportsInv /\ BoundsInv /\ [Next]_vars => BoundsInv'
  <1> SUFFICES ASSUME TypeOK, TypeOK', ReportsInv, BoundsInv, [Next]_vars
               PROVE  BoundsInv'
    OBVIOUS
  <1> USE DEF mainVars, sharedVars, workerVars
  <1>1. /\ Top \in Int /\ Top' \in Int /\ Top' >= Top /\ StartModel \in Int
        /\ ~ConfigureOptimization => Top' = Top
        /\ ConfigureOptimization => Top' = Top + 1
    BY TopRises
  <1>2. ASSUME NEW w \in OpWorker
        PROVE  Bounded(w)'
    <2>1. CASE UNCHANGED vars
      BY <1>1, <2>1, QuieterSame, QuietBounds DEF vars, BoundsInv
    <2> QED BY <2>1, ServerBounds, MachineBounds DEF Next
  <1>3. modelIteration' \in StartModel .. Top'
    <2>1. CASE \E v \in Worker : HandleOptimizationDone(v)
      BY <1>1, <2>1, ReportBound
    <2>2. CASE \A v \in Worker : ~HandleOptimizationDone(v)
      <3>1. modelIteration' = modelIteration
        BY <2>2 DEF Next, Main, Io, Machine, vars, LockWorkers, SendSelfPlay, UnlockWorkers,
           GetOneSelfPlay, RecordSelfPlay, FinishSelfPlay, StartOptimization,
           ConfigureOptimization, CheckOptimization, SendOptimization, FinishOptimization,
           Connect, HandleInfo, HandleSelfPlay, HandleJoinedLine, CloseBrokenConnection,
           ReadInfo, ReadJobSelfplay, ReadJobOptimization, ReadJobDone, Reads, PlayGame,
           FinishTraining, DropConnection, ClosedByServer, Disconnect
      <3> QED BY <1>1, <3>1 DEF BoundsInv
    <2> QED BY <2>1, <2>2
  <1>4. Waiting' => conf'.model \in StartModel .. Top' - 1
    <2>1. CASE ConfigureOptimization
      <3>1. conf'.model = modelIteration
        BY <2>1 DEF ConfigureOptimization
      <3> QED BY <1>1, <2>1, <3>1 DEF BoundsInv
    <2>2. CASE ~ConfigureOptimization
      <3>1. conf' = conf /\ (Waiting' => Waiting)
        BY <2>2 DEF Next, Main, Io, Machine, vars, LockWorkers, SendSelfPlay, UnlockWorkers,
           GetOneSelfPlay, RecordSelfPlay, FinishSelfPlay, StartOptimization,
           CheckOptimization, SendOptimization, FinishOptimization, Connect, HandleInfo,
           HandleSelfPlay, HandleOptimizationDone, HandleJoinedLine, CloseBrokenConnection,
           ReadInfo, ReadJobSelfplay, ReadJobOptimization, ReadJobDone, Reads, PlayGame,
           FinishTraining, DropConnection, ClosedByServer, Disconnect, Waiting
      <3> QED BY <1>1, <2>2, <3>1 DEF BoundsInv
    <2> QED BY <2>1, <2>2
  <1> QED BY <1>2, <1>3, <1>4 DEF BoundsInv

LEMMA OrdersBounds == OrdersSpec => []BoundsInv
  <1>1. OrdersInit => BoundsInv
    BY InitBounds DEF OrdersInit
  <1> QED BY <1>1, NextBounds, OrdersStep, OrdersType, OrdersLoop, PTL DEF OrdersSpec

-------------------------------------------------------------------------------
(* The server implements TrainingLoop *)

LEMMA InitImplements == OrdersInit => Loop!Init
  BY DEF OrdersInit, Init, Loop!Init, InSelfPlay, Iteration, Loop!Iteration

\* A report of the plain loop's training, or a late one.
LEMMA ReportImplements ==
  ASSUME TypeOK, ReportsInv, LoopInv, BoundsInv, NEW w \in Worker,
         HandleOptimizationDone(w), doubled' = doubled
  PROVE  Loop!Next
  <1> USE DEF mainVars, sharedVars, workerVars
  <1>1. /\ bOptimization' = TRUE /\ UNCHANGED <<pc, iteration, totalGames, sgf>>
        /\ modelIteration' = Head(toServer[w]).model
    BY DEF HandleOptimizationDone
  <1>2. /\ iteration \in Int /\ StartIteration \in Int /\ StartModel \in Int
        /\ pc \in MainState
    BY NumAssumption DEF TypeOK
  <1>3. CASE doubled = {}
    <2>1. /\ ModelInv /\ Waiting /\ ~bOptimization /\ Head(toServer[w]) = CurrentReport
      BY <1>3, LoopIsCalm, ReportRead DEF HandleOptimizationDone, Calm
    <2>2. modelIteration' = modelIteration + 1
      BY <1>1, <1>2, <2>1 DEF CurrentReport, OptimizationDone, ModelInv, ModelOf
    <2> QED BY <1>1, <1>3, <2>1, <2>2 DEF Loop!Next, Loop!Train, Waiting, InSelfPlay
  <1>4. CASE doubled # {}
    <2>1. modelIteration' \in Loop!ModelsSoFar
      <3>1. modelIteration' \in StartModel .. Top
        BY ReportBound
      <3>2. Top \in Int /\ Top <= StartModel + (iteration - StartIteration) + 1
        BY <1>2 DEF Top, ModelOf
      <3> QED BY <1>2, <3>1, <3>2 DEF Loop!ModelsSoFar
    <2> QED BY <1>1, <1>4, <2>1 DEF Loop!Next, Loop!LateReport, Waiting, InSelfPlay
  <1> QED BY <1>3, <1>4

LEMMA NextImplements ==
  TypeOK /\ ReportsInv /\ LoopInv /\ BoundsInv /\ [OrdersNext]_ordersVars
    => [Loop!Next]_(Loop!vars)
  <1> SUFFICES ASSUME TypeOK, ReportsInv, LoopInv, BoundsInv, [OrdersNext]_ordersVars
               PROVE  [Loop!Next]_(Loop!vars)
    OBVIOUS
  <1> USE DEF mainVars, sharedVars, workerVars
  <1>n. [Next]_vars
    BY OrdersStep
  <1>t. /\ iteration \in Int /\ totalGames \in 0 .. NumGame /\ NumGame \in Nat
        /\ pc \in MainState /\ modelIteration \in Int
        /\ StartIteration \in Int /\ StartModel \in Int
    BY NumAssumption DEF TypeOK
  <1>d. ~SendOptimization => doubled' = doubled
    BY DEF OrdersNext, ordersVars, DoublesOrder
  <1>1. CASE LockWorkers \/ UnlockWorkers \/ GetOneSelfPlay
             \/ \E w \in Worker : SendSelfPlay(w)
    <2>1. doubled' = doubled
      BY <1>1, <1>d DEF LockWorkers, UnlockWorkers, GetOneSelfPlay, SendSelfPlay,
         SendOptimization
    <2> QED BY <1>1, <2>1 DEF LockWorkers, UnlockWorkers, GetOneSelfPlay, SendSelfPlay,
               InSelfPlay, Waiting, Loop!vars
  <1>2. CASE RecordSelfPlay
    <2>1. /\ InSelfPlay /\ InSelfPlay' /\ totalGames < NumGame /\ doubled' = doubled
      BY <1>2, <1>d DEF RecordSelfPlay, InSelfPlay, TypeOK, SendOptimization
    <2>2. CASE popped = modelIteration
      BY <1>2, <2>1, <2>2 DEF RecordSelfPlay, Loop!Next, Loop!RecordGame, InSelfPlay
    <2>3. CASE popped # modelIteration
      BY <1>2, <2>1, <2>3 DEF RecordSelfPlay, Loop!vars, InSelfPlay
    <2> QED BY <2>2, <2>3
  <1>3. CASE FinishSelfPlay
    <2>1. totalGames = NumGame /\ doubled' = doubled
      BY <1>3, <1>t, <1>d DEF FinishSelfPlay, SendOptimization
    <2> QED BY <1>3, <2>1 DEF FinishSelfPlay, Loop!Next, Loop!CloseSelfPlay, InSelfPlay,
               Waiting
  <1>4. CASE StartOptimization
    <2>1. doubled' = doubled
      BY <1>4, <1>d DEF StartOptimization, SendOptimization
    <2> QED BY <1>4, <2>1 DEF StartOptimization, InSelfPlay, Waiting, Loop!vars
  <1>5. CASE ConfigureOptimization
    <2>1. /\ UNCHANGED <<iteration, totalGames, modelIteration, sgf, bOptimization, doubled>>
          /\ pc = "opConf" /\ pc' = "opCheck"
      BY <1>5, <1>d DEF ConfigureOptimization, SendOptimization
    <2>2. CASE ~bOptimization
      BY <2>1, <2>2 DEF InSelfPlay, Waiting, Loop!vars
    <2>3. CASE bOptimization
      <3>1. doubled # {}
        BY <2>1, <2>3 DEF LoopInv, ModelInv
      <3>2. modelIteration \in Loop!ModelsSoFar
        <4>1. modelIteration \in StartModel .. Top
          BY DEF BoundsInv
        <4>2. Top \in Int /\ Top <= StartModel + (iteration - StartIteration) + 1
          BY <1>t DEF Top, ModelOf
        <4> QED BY <1>t, <4>1, <4>2 DEF Loop!ModelsSoFar
      <3> QED BY <2>1, <2>3, <3>1, <3>2 DEF Loop!Next, Loop!LateReport, Waiting, InSelfPlay
    <2> QED BY <2>2, <2>3
  <1>6. CASE CheckOptimization
    <2>1. /\ UNCHANGED <<iteration, totalGames, modelIteration, sgf, bOptimization, doubled>>
          /\ pc = "opCheck" /\ pc' = "opSend"
      BY <1>6, <1>d DEF CheckOptimization, SendOptimization
    <2> QED BY <2>1 DEF InSelfPlay, Waiting, Loop!vars
  <1>7. CASE SendOptimization
    <2>1. /\ UNCHANGED <<iteration, totalGames, modelIteration, sgf, bOptimization>>
          /\ pc = "opSend" /\ pc' = "opCheck"
      BY <1>7 DEF SendOptimization
    <2>2. CASE doubled' = doubled
      BY <2>1, <2>2 DEF InSelfPlay, Waiting, Loop!vars
    <2>3. CASE doubled' # doubled
      <3>1. (doubled' # {}) = TRUE
        BY <2>3 DEF OrdersNext, ordersVars
      <3> QED BY <2>1, <3>1 DEF Loop!Next, Loop!Disturb, Waiting, InSelfPlay
    <2> QED BY <2>2, <2>3
  <1>8. CASE FinishOptimization
    <2>1. doubled' = doubled
      BY <1>8, <1>d DEF FinishOptimization, SendOptimization
    <2> QED BY <1>8, <2>1 DEF FinishOptimization, InSelfPlay, Waiting, Loop!Next,
               Loop!NextIteration
  <1>9. ASSUME NEW w \in Worker, HandleOptimizationDone(w)
        PROVE  Loop!Next
    <2>1. ~SendOptimization
      BY <1>9 DEF HandleOptimizationDone, SendOptimization
    <2> QED BY <1>9, <1>d, <2>1, ReportImplements
  <1>10. ASSUME NEW w \in Worker,
                \/ Connect(w) \/ HandleInfo(w) \/ HandleSelfPlay(w)
                \/ HandleJoinedLine(w) \/ CloseBrokenConnection(w) \/ Machine(w)
         PROVE  UNCHANGED Loop!vars
    <2>1. UNCHANGED <<pc, iteration, totalGames, modelIteration, sgf, bOptimization>>
      BY <1>10 DEF Connect, HandleInfo, HandleSelfPlay, HandleJoinedLine,
         CloseBrokenConnection, Machine, ReadInfo, ReadJobSelfplay, ReadJobOptimization,
         ReadJobDone, Reads, PlayGame, FinishTraining, DropConnection, ClosedByServer,
         Disconnect
    <2>2. ~SendOptimization
      BY <2>1 DEF SendOptimization
    <2> QED BY <1>d, <2>1, <2>2 DEF Loop!vars, InSelfPlay, Waiting
  <1>11. CASE UNCHANGED vars
    <2>1. ~SendOptimization
      BY <1>11 DEF SendOptimization, vars
    <2> QED BY <1>11, <1>d, <2>1 DEF vars, Loop!vars, InSelfPlay, Waiting
  <1> QED BY <1>n, <1>1, <1>2, <1>3, <1>4, <1>5, <1>6, <1>7, <1>8, <1>9, <1>10, <1>11
          DEF Next, Main, Io

\* The server with its threads, machines and broken connections implements the
\* training loop (ZeroServer::run): games of one model, one training, the next
\* iteration; and after a doubled order the loop a late report may disturb, with
\* the same phases, iterations and numbers of games.
THEOREM Implements == OrdersSpec => ImplementsLoop
  BY InitImplements, NextImplements, OrdersLoop, OrdersType, OrdersBounds, PTL
     DEF ImplementsLoop, OrdersSpec, Loop!Spec

-------------------------------------------------------------------------------
(* One optimizer, however slow: the model never decreases *)

\* The last model an order can name.
Ceiling == IF Waiting THEN conf.model ELSE modelIteration

\* Along the way of the optimizer's orders - reports not yet handled, the training,
\* orders not yet read - the models rise: reports name at most model a + 1, the
\* training is of a model between a and b, the orders name b or more.
Pipeline(w, a, b) ==
  /\ modelIteration <= a + 1 /\ a <= b /\ b <= Ceiling
  /\ Rising(toServer[w], "Optimization_Done", modelIteration, a + 1)
  /\ running[w] # NoJob => a <= running[w].model /\ running[w].model <= b
  /\ Rising(toWorker[w], "Job_Optimization", b, Ceiling)

ModelsInv ==
  /\ ReportsInv
  /\ Waiting => conf.model <= modelIteration
  /\ \A w \in OpWorker : \E a, b \in Int : Pipeline(w, a, b)

\* The types the steps below need.
LEMMA PipelineTypes ==
  ASSUME TypeOK, NEW w \in OpWorker
  PROVE  /\ w \in Worker
         /\ modelIteration \in Int /\ conf \in Job /\ conf.model \in Int /\ Ceiling \in Int
         /\ running[w] \in Job /\ running[w].model \in Int
         /\ toServer[w] \in Seq(Line) /\ toWorker[w] \in Seq(Command)
         /\ \A m \in Line : m.model \in Int
         /\ \A m \in Command : m.model \in Int
  <1>1. w \in Worker
    BY DEF Worker
  <1>2. modelIteration \in Int /\ conf \in Job /\ running[w] \in Job
        /\ toServer[w] \in Seq(Line) /\ toWorker[w] \in Seq(Command)
    BY <1>1 DEF TypeOK
  <1> QED BY <1>1, <1>2 DEF Ceiling, Job, Line, Command

\* A step that brings the optimizer nothing new and lowers no bound.
LEMMA QuietPipeline ==
  ASSUME TypeOK, TypeOK', NEW w \in OpWorker, NEW a \in Int, NEW b \in Int, Pipeline(w, a, b),
         Quieter(toServer'[w], toServer[w]), Quieter(toWorker'[w], toWorker[w]),
         running'[w] \in {running[w], NoJob},
         modelIteration' = modelIteration, Ceiling' >= Ceiling
  PROVE  Pipeline(w, a, b)'
  <1>1. /\ Rising(toServer'[w], "Optimization_Done", modelIteration, a + 1)
        /\ Rising(toWorker'[w], "Job_Optimization", b, Ceiling)
    BY DEF Pipeline, Quieter
  <1>2. Ceiling \in Int /\ Ceiling' \in Int /\ \A m \in Command : m.model \in Int
    BY PipelineTypes DEF Ceiling, TypeOK, Job
  <1>3. toWorker'[w] \in Seq(Command)
    BY DEF TypeOK, Worker
  <1>4. Rising(toWorker'[w], "Job_Optimization", b, Ceiling')
    <2>1. b <= b /\ Ceiling <= Ceiling'
      BY <1>2
    <2> QED BY <1>1, <1>2, <1>3, <2>1, RisingWider
  <1>5. modelIteration <= a + 1 /\ a <= b /\ b <= Ceiling'
    BY <1>2 DEF Pipeline
  <1>6. running'[w] # NoJob => a <= running'[w].model /\ running'[w].model <= b
    BY DEF Pipeline
  <1> QED BY <1>1, <1>4, <1>5, <1>6 DEF Pipeline

LEMMA InitModels == Init => ModelsInv
  <1> SUFFICES ASSUME Init
               PROVE  ModelsInv
    OBVIOUS
  <1>1. ReportsInv /\ ~Waiting
    BY CarriesEmpty DEF Init, ReportsInv, Worker, Waiting
  <1>2. ASSUME NEW w \in OpWorker
        PROVE  Pipeline(w, StartModel, StartModel)
    <2>1. /\ toServer[w] = <<>> /\ toWorker[w] = <<>> /\ running[w] = NoJob
          /\ modelIteration = StartModel /\ Ceiling = StartModel
      BY <1>1 DEF Init, Worker, Ceiling
    <2> QED BY <2>1, RisingEmpty, NumAssumption DEF Pipeline
  <1> QED BY <1>1, <1>2, NumAssumption DEF ModelsInv

\* What the main thread does to the bounds and to the optimizer.
LEMMA MainPipeline ==
  ASSUME TypeOK, TypeOK', ModelsInv, Main
  PROVE  /\ Waiting' => conf'.model <= modelIteration'
         /\ modelIteration' = modelIteration
         /\ \A w \in OpWorker : \E a, b \in Int : Pipeline(w, a, b)'
  <1> USE DEF mainVars, sharedVars, workerVars
  <1>1. /\ modelIteration' = modelIteration /\ UNCHANGED <<toServer, running>>
        /\ modelIteration \in Int /\ conf.model \in Int
    BY DEF Main, LockWorkers, SendSelfPlay, UnlockWorkers, GetOneSelfPlay, RecordSelfPlay,
       FinishSelfPlay, StartOptimization, ConfigureOptimization, CheckOptimization,
       SendOptimization, FinishOptimization, TypeOK, Job
  <1>2. /\ Waiting' => conf'.model <= modelIteration'
        /\ Ceiling' >= Ceiling
    <2>0. Waiting => conf.model <= modelIteration
      BY DEF ModelsInv
    <2>1. CASE ConfigureOptimization
      BY <1>1, <2>1 DEF ConfigureOptimization, Waiting, Ceiling
    <2>2. CASE FinishOptimization
      BY <1>1, <2>0, <2>2 DEF FinishOptimization, Waiting, Ceiling
    <2>3. CASE SendOptimization \/ CheckOptimization
      <3>1. Waiting /\ Waiting' /\ conf' = conf
        BY <2>3 DEF SendOptimization, CheckOptimization, Waiting
      <3> QED BY <1>1, <2>0, <3>1 DEF Ceiling
    <2>4. CASE \/ LockWorkers \/ \E w \in Worker : SendSelfPlay(w)
               \/ UnlockWorkers \/ GetOneSelfPlay \/ RecordSelfPlay
               \/ FinishSelfPlay \/ StartOptimization
      <3>1. ~Waiting /\ ~Waiting'
        BY <2>4 DEF LockWorkers, SendSelfPlay, UnlockWorkers, GetOneSelfPlay,
           RecordSelfPlay, FinishSelfPlay, StartOptimization, Waiting
      <3> QED BY <1>1, <3>1 DEF Ceiling
    <2> QED BY <2>1, <2>2, <2>3, <2>4 DEF Main
  <1>s. SendOptimization => Ceiling' = Ceiling /\ Ceiling = conf.model
    BY DEF SendOptimization, Ceiling, Waiting
  <1>3. ASSUME NEW w \in OpWorker
        PROVE  \E a, b \in Int : Pipeline(w, a, b)'
    <2>1. PICK a \in Int, b \in Int : Pipeline(w, a, b)
      BY DEF ModelsInv
    <2>2. /\ w \in Worker /\ toWorker[w] \in Seq(Command) /\ Ceiling \in Int
          /\ conf \in Job /\ \A m \in Command : m.model \in Int
      BY PipelineTypes
    <2>3. Quieter(toServer'[w], toServer[w]) /\ running'[w] = running[w]
      BY <1>1, QuieterSame
    <2>4. CASE SendOptimization
      <3>1. JobOptimization(conf) \in Command
        BY <2>2, MessageTypes DEF None
      <3>2. toWorker'[w] \in {toWorker[w], Append(toWorker[w], JobOptimization(conf))}
        BY <2>2, <2>4, <3>1, WriteEffect DEF SendOptimization
      <3>3. JobOptimization(conf).model = Ceiling
        BY <1>s, <2>4 DEF JobOptimization
      <3>4. Rising(toWorker[w], "Job_Optimization", b, Ceiling) /\ b <= Ceiling
        BY <2>1 DEF Pipeline
      <3>5. Rising(Append(toWorker[w], JobOptimization(conf)), "Job_Optimization", b, Ceiling)
        <4>1. b <= b /\ Ceiling <= Ceiling
          BY <2>2
        <4>2. \A e \in Command : b <= e.model /\ Ceiling <= e.model =>
                Rising(Append(toWorker[w], e), "Job_Optimization", b, e.model)
          BY <2>2, <3>4, <4>1, RisingWider
        <4> QED BY <3>1, <3>3, <3>4, <4>1, <4>2
      <3> QED BY <1>1, <1>s, <2>1, <2>4, <3>2, <3>4, <3>5 DEF Pipeline
    <2>5. CASE ~SendOptimization
      <3>1. Quieter(toWorker'[w], toWorker[w])
        <4>1. ASSUME NEW W, NEW msg \in Command, Write(W, msg),
                     msg.kind \in {"Job_Done", "Job_Selfplay"}
              PROVE  Quieter(toWorker'[w], toWorker[w])
          BY <2>2, <4>1, WriteEffect
        <4>2. /\ JobDone \in Command /\ JobSelfplay(modelIteration) \in Command
              /\ JobDone.kind = "Job_Done" /\ JobSelfplay(modelIteration).kind = "Job_Selfplay"
          BY <1>1 DEF JobDone, JobSelfplay, Command, None
        <4>3. CASE FinishSelfPlay \/ FinishOptimization
          BY <4>1, <4>2, <4>3 DEF FinishSelfPlay, FinishOptimization
        <4>4. ASSUME NEW v \in Worker, SendSelfPlay(v)
              PROVE  Quieter(toWorker'[w], toWorker[w])
          BY <4>1, <4>2, <4>4 DEF SendSelfPlay
        <4>5. CASE UNCHANGED toWorker
          BY <4>5, QuieterSame
        <4> QED BY <2>5, <4>3, <4>4, <4>5 DEF Main, LockWorkers, UnlockWorkers,
                GetOneSelfPlay, RecordSelfPlay, StartOptimization, ConfigureOptimization,
                CheckOptimization
      <3> QED BY <1>1, <1>2, <2>1, <2>3, <3>1, QuietPipeline
    <2> QED BY <2>4, <2>5
  <1> QED BY <1>1, <1>2, <1>3

\* What the io thread does: a report lifts the model, never beyond the next one.
LEMMA IoPipeline ==
  ASSUME TypeOK, TypeOK', ModelsInv, OneOptimizer, NEW v \in Worker, Io(v)
  PROVE  /\ Waiting' => conf'.model <= modelIteration'
         /\ modelIteration' >= modelIteration
         /\ \A w \in OpWorker : \E a, b \in Int : Pipeline(w, a, b)'
  <1> USE DEF mainVars, sharedVars, workerVars
  <1>1. UNCHANGED <<pc, conf>> /\ modelIteration \in Int /\ modelIteration' \in Int
        /\ conf.model \in Int
    BY DEF Io, Connect, HandleInfo, HandleSelfPlay, HandleOptimizationDone,
       HandleJoinedLine, CloseBrokenConnection, TypeOK, Job
  <1>2. CASE HandleOptimizationDone(v)
    <2>1. /\ toServer[v] # <<>> /\ Head(toServer[v]).kind = "Optimization_Done" /\ Consume(v)
          /\ modelIteration' = Head(toServer[v]).model /\ UNCHANGED <<toWorker, running>>
          /\ toServer[v] \in Seq(Line)
      BY <1>2 DEF HandleOptimizationDone, Received, TypeOK
    <2>2. v \in OpWorker
      BY <2>1, CarriesHead DEF ModelsInv, ReportsInv, Worker
    <2>3. PICK a \in Int, b \in Int : Pipeline(v, a, b)
      BY <2>2 DEF ModelsInv
    <2>4. /\ modelIteration <= modelIteration' /\ modelIteration' <= a + 1
          /\ Rising(Tail(toServer[v]), "Optimization_Done", modelIteration', a + 1)
      BY <2>1, <2>3, RisingTail DEF Pipeline
    <2>5. toServer'[v] = Tail(toServer[v])
      BY <2>1, ConsumeEffect
    <2>6. Ceiling \in Int /\ Ceiling' \in Int /\ Ceiling <= Ceiling'
      BY <1>1, <2>4 DEF Ceiling, Waiting
    <2>7. Rising(toWorker[v], "Job_Optimization", b, Ceiling')
      <3>1. /\ Rising(toWorker[v], "Job_Optimization", b, Ceiling) /\ b <= b
            /\ toWorker[v] \in Seq(Command) /\ \A m \in Command : m.model \in Int
        BY <2>2, <2>3, PipelineTypes DEF Pipeline
      <3> QED BY <2>6, <3>1, RisingWider
    <2>8. a <= b /\ b <= Ceiling'
      BY <2>3, <2>6 DEF Pipeline
    <2>9. Pipeline(v, a, b)'
      BY <2>1, <2>3, <2>4, <2>5, <2>7, <2>8 DEF Pipeline
    <2>10. \A w \in OpWorker : w = v
      BY <2>2 DEF OneOptimizer
    <2>11. Waiting' => conf'.model <= modelIteration'
      BY <1>1, <2>4 DEF Waiting, ModelsInv
    <2> QED BY <2>4, <2>9, <2>10, <2>11
  <1>3. CASE ~HandleOptimizationDone(v)
    <2>1. modelIteration' = modelIteration /\ Ceiling' = Ceiling
      BY <1>1, <1>3 DEF Io, Connect, HandleInfo, HandleSelfPlay, HandleJoinedLine,
         CloseBrokenConnection, Ceiling, Waiting
    <2>2. ASSUME NEW w \in OpWorker
          PROVE  \E a, b \in Int : Pipeline(w, a, b)'
      <3>1. PICK a \in Int, b \in Int : Pipeline(w, a, b)
        BY DEF ModelsInv
      <3>2. w \in Worker /\ Ceiling \in Int /\ Ceiling' >= Ceiling
        BY <2>1, PipelineTypes
      <3>3. running'[w] = running[w]
        BY <1>3 DEF Io, Connect, HandleInfo, HandleSelfPlay, HandleJoinedLine,
           CloseBrokenConnection
      <3>4. CASE Connect(v)
        <4>1. \/ toServer'[w] = toServer[w] /\ toWorker'[w] = toWorker[w]
              \/ toServer'[w] = <<>> /\ toWorker'[w] = <<Info>>
          BY <3>2, <3>4 DEF Connect, TypeOK
        <4>2. CASE toServer'[w] = toServer[w] /\ toWorker'[w] = toWorker[w]
          BY <2>1, <3>1, <3>2, <3>3, <4>2, QuieterSame, QuietPipeline
        <4>3. CASE toServer'[w] = <<>> /\ toWorker'[w] = <<Info>>
          <5>1. Rising(<<Info>>, "Job_Optimization", b, Ceiling)
            BY Kinds DEF Rising
          <5> QED BY <2>1, <3>1, <3>3, <4>3, <5>1, RisingEmpty DEF Pipeline
        <4> QED BY <4>1, <4>2, <4>3
      <3>5. CASE ~Connect(v)
        <4>1. UNCHANGED toWorker /\ Quieter(toWorker'[w], toWorker[w])
          BY <1>3, <3>5, QuieterSame DEF Io, HandleInfo, HandleSelfPlay, HandleJoinedLine,
             CloseBrokenConnection
        <4>2. Quieter(toServer'[w], toServer[w])
          <5>1. CASE HandleInfo(v) \/ HandleSelfPlay(v)
            BY <3>2, <5>1, ConsumeEffect DEF HandleInfo, HandleSelfPlay, Received
          <5>2. CASE HandleJoinedLine(v) \/ CloseBrokenConnection(v)
            BY <3>2, <5>2, JoinedEffect, BrokenEffect
          <5> QED BY <1>3, <3>5, <5>1, <5>2 DEF Io
        <4> QED BY <2>1, <3>1, <3>2, <3>3, <4>1, <4>2, QuietPipeline
      <3> QED BY <3>4, <3>5
    <2>3. Waiting' => conf'.model <= modelIteration'
      BY <1>1, <2>1 DEF Waiting, ModelsInv
    <2> QED BY <1>1, <2>1, <2>2, <2>3
  <1> QED BY <1>2, <1>3

\* What the machines do: an order, the training and its report name one model.
LEMMA MachinePipeline ==
  ASSUME TypeOK, TypeOK', ModelsInv, NEW v \in Worker, Machine(v)
  PROVE  /\ Waiting' => conf'.model <= modelIteration'
         /\ modelIteration' = modelIteration
         /\ \A w \in OpWorker : \E a, b \in Int : Pipeline(w, a, b)'
  <1> USE DEF mainVars, sharedVars, workerVars
  <1>1. UNCHANGED <<pc, conf, modelIteration>>
    BY DEF Machine, ReadInfo, ReadJobSelfplay, ReadJobOptimization, ReadJobDone, Reads,
       PlayGame, FinishTraining, DropConnection, ClosedByServer, Disconnect
  <1>2. Ceiling' = Ceiling /\ (Waiting' => conf'.model <= modelIteration')
    BY <1>1 DEF Ceiling, Waiting, ModelsInv
  <1>3. ASSUME NEW w \in OpWorker
        PROVE  \E a, b \in Int : Pipeline(w, a, b)'
    <2>1. PICK a \in Int, b \in Int : Pipeline(w, a, b)
      BY DEF ModelsInv
    <2>2. /\ w \in Worker /\ w \notin SpWorker /\ Ceiling \in Int /\ Ceiling' >= Ceiling
          /\ modelIteration \in Int /\ running[w].model \in Int
          /\ toServer[w] \in Seq(Line) /\ toWorker[w] \in Seq(Command)
          /\ \A m \in Line : m.model \in Int
          /\ \A m \in Command : m.model \in Int
      BY <1>2, PipelineTypes, WorkerAssumption
    <2>3. ASSUME Quieter(toServer'[w], toServer[w]), Quieter(toWorker'[w], toWorker[w]),
                 running'[w] \in {running[w], NoJob}
          PROVE  \E x, y \in Int : Pipeline(w, x, y)'
      BY <1>1, <2>1, <2>2, <2>3, QuietPipeline
    <2>p. /\ modelIteration <= a + 1 /\ a <= b /\ b <= Ceiling
          /\ Rising(toServer[w], "Optimization_Done", modelIteration, a + 1)
          /\ Rising(toWorker[w], "Job_Optimization", b, Ceiling)
          /\ running[w] # NoJob => a <= running[w].model /\ running[w].model <= b
      BY <2>1 DEF Pipeline
    <2>4. CASE ReadInfo(v)
      <3>1. Reads(v, "Info") /\ Send(v, Info) /\ UNCHANGED running /\ Info \in Line
        BY <2>4 DEF ReadInfo, Info, Line, None
      <3>2. Quieter(toWorker'[w], toWorker[w])
        BY <2>2, <3>1, ReadsEffect
      <3>3. Rising(toWorker'[w], "Job_Optimization", b, Ceiling)
        BY <2>p, <3>2 DEF Quieter
      <3>4. Rising(toServer'[w], "Optimization_Done", modelIteration, a + 1)
        <4>1. toServer'[w] \in {toServer[w], Append(toServer[w], Info)}
          BY <2>2, <3>1, SendEffect
        <4>2. Rising(Append(toServer[w], Info), "Optimization_Done", modelIteration, a + 1)
          BY <2>2, <2>p, <3>1, RisingAppend, Kinds
        <4> QED BY <2>p, <4>1, <4>2
      <3> QED BY <1>1, <1>2, <2>p, <3>1, <3>3, <3>4 DEF Pipeline
    <2>5. CASE ReadJobSelfplay(v) \/ ReadJobDone(v)
      <3>1. Quieter(toWorker'[w], toWorker[w])
        BY <2>2, <2>5, ReadsEffect DEF ReadJobSelfplay, ReadJobDone
      <3>2. toServer'[w] = toServer[w] /\ running'[w] = running[w]
        BY <2>2, <2>5, CutEffect DEF ReadJobSelfplay, ReadJobDone, TypeOK
      <3> QED BY <2>3, <3>1, <3>2, QuieterSame
    <2>6. CASE ReadJobOptimization(v)
      <3>1. Reads(v, "Job_Optimization") /\ UNCHANGED toServer
        BY <2>6 DEF ReadJobOptimization
      <3>2. CASE v = w
        <4>1. /\ toWorker[w] # <<>> /\ Head(toWorker[w]).kind = "Job_Optimization"
              /\ toWorker'[w] = Tail(toWorker[w])
          BY <2>2, <3>1, <3>2, ReadsEffect DEF Reads
        <4>m. PICK m \in Int : m = Head(toWorker[w]).model
          BY <2>2, <4>1, HeadTail
        <4>2. b <= m /\ m <= Ceiling
              /\ Rising(toWorker'[w], "Job_Optimization", m, Ceiling)
          BY <2>2, <2>p, <4>m, <4>1, RisingTail
        <4>3. running'[w].model = m
          BY <2>2, <2>6, <3>2, <4>m DEF ReadJobOptimization, TypeOK
        <4>4. Rising(toServer'[w], "Optimization_Done", modelIteration, m + 1)
          BY <2>2, <2>p, <3>1, <4>2, RisingWider
        <4>5. Pipeline(w, m, m)'
          BY <1>1, <1>2, <2>2, <2>p, <4>2, <4>3, <4>4 DEF Pipeline
        <4> QED BY <4>2, <4>5
      <3>3. CASE v # w
        <4>1. toWorker'[w] = toWorker[w] /\ running'[w] = running[w]
          BY <2>2, <2>6, <3>1, <3>3, ReadsEffect DEF ReadJobOptimization, TypeOK
        <4> QED BY <2>3, <3>1, <4>1, QuieterSame
      <3> QED BY <3>2, <3>3
    <2>7. CASE PlayGame(v)
      <3>1. SelfPlayLine(running[v].model) \in Line /\ v # w
        <4>1. v # w
          BY <2>2, <2>7 DEF PlayGame
        <4>2. running[v].model \in Int
          BY <2>2 DEF TypeOK, Job
        <4> QED BY <4>1, <4>2 DEF SelfPlayLine, Line, None
      <3>2. toServer'[w] = toServer[w] /\ UNCHANGED <<toWorker, running>>
        BY <2>2, <2>7, <3>1, SendEffect DEF PlayGame
      <3> QED BY <2>3, <3>2, QuieterSame
    <2>8. CASE FinishTraining(v)
      <3>1. OptimizationDone(running[v].model + 1) \in Line /\ UNCHANGED toWorker
        <4>1. running[v].model \in Int /\ UNCHANGED toWorker
          BY <2>2, <2>8 DEF TypeOK, Job, FinishTraining
        <4> QED BY <4>1 DEF OptimizationDone, Line, None
      <3>2. CASE v = w
        <4>m. PICK m \in Int : m = running[w].model
          BY <2>2
        <4> DEFINE e == OptimizationDone(m + 1)
        <4>1. /\ running[w] # NoJob /\ running'[w] = NoJob
              /\ toServer'[w] \in {toServer[w], Append(toServer[w], e)}
          BY <2>2, <2>8, <3>1, <3>2, <4>m, SendEffect DEF FinishTraining, TypeOK
        <4>2. a <= m /\ m <= b
          BY <2>p, <4>m, <4>1
        <4>3. e.model = m + 1 /\ e \in Line
          BY <3>1, <3>2, <4>m DEF OptimizationDone
        <4> HIDE DEF e
        <4>4. Rising(toServer'[w], "Optimization_Done", modelIteration, m + 1)
          <5>1. /\ modelIteration <= modelIteration /\ a + 1 <= m + 1 /\ m + 1 \in Int
                /\ a + 1 \in Int /\ modelIteration <= m + 1
            BY <2>2, <2>p, <4>2
          <5>2. /\ Rising(toServer[w], "Optimization_Done", modelIteration, m + 1)
                /\ \A x \in Line : modelIteration <= x.model /\ m + 1 <= x.model =>
                     Rising(Append(toServer[w], x), "Optimization_Done", modelIteration, x.model)
            BY <2>2, <2>p, <5>1, RisingWider
          <5>3. Rising(Append(toServer[w], e), "Optimization_Done", modelIteration, m + 1)
            BY <4>3, <5>1, <5>2
          <5> QED BY <4>1, <5>2, <5>3
        <4>5. Rising(toWorker'[w], "Job_Optimization", m, Ceiling)
          BY <2>2, <2>p, <3>1, <4>2, RisingWider
        <4>6. Pipeline(w, m, m)'
          BY <1>1, <1>2, <2>2, <2>p, <4>1, <4>2, <4>4, <4>5 DEF Pipeline
        <4> QED BY <4>2, <4>6
      <3>3. CASE v # w
        <4>1. toServer'[w] = toServer[w] /\ running'[w] = running[w]
          BY <2>2, <2>8, <3>1, <3>3, SendEffect DEF FinishTraining, TypeOK
        <4> QED BY <2>3, <3>1, <4>1, QuieterSame
      <3> QED BY <3>2, <3>3
    <2>9. CASE DropConnection(v) \/ ClosedByServer(v)
      <3>1. running'[w] \in {running[w], NoJob}
        BY <2>2, <2>9 DEF DropConnection, ClosedByServer, Disconnect, TypeOK
      <3> QED BY <2>2, <2>3, <2>9, <3>1, LostEffect
    <2> QED BY <2>4, <2>5, <2>6, <2>7, <2>8, <2>9 DEF Machine
  <1> QED BY <1>1, <1>2, <1>3

LEMMA NextModels ==
  ASSUME OneOptimizer
  PROVE  TypeOK /\ TypeOK' /\ ModelsInv /\ [Next]_vars =>
           ModelsInv' /\ modelIteration' >= modelIteration
  <1> SUFFICES ASSUME TypeOK, TypeOK', ModelsInv, [Next]_vars
               PROVE  ModelsInv' /\ modelIteration' >= modelIteration
    OBVIOUS
  <1>1. ReportsInv' /\ modelIteration \in Int
    BY NextReports DEF ModelsInv, TypeOK
  <1>2. CASE Main
    BY <1>1, <1>2, MainPipeline DEF ModelsInv
  <1>3. ASSUME NEW w \in Worker, Io(w)
        PROVE  ModelsInv' /\ modelIteration' >= modelIteration
    BY <1>1, <1>3, IoPipeline DEF ModelsInv
  <1>4. ASSUME NEW w \in Worker, Machine(w)
        PROVE  ModelsInv' /\ modelIteration' >= modelIteration
    BY <1>1, <1>4, MachinePipeline DEF ModelsInv
  <1>5. CASE UNCHANGED vars
    BY <1>1, <1>5 DEF vars, mainVars, sharedVars, workerVars, ModelsInv, Pipeline, Waiting, Ceiling
  <1> QED BY <1>2, <1>3, <1>4, <1>5 DEF Next

\* With one optimizer the server never goes back to an earlier model: m_modelIteration,
\* which handle_msg sets to whatever an Optimization_Done names, only rises, although a
\* late Info answer may put two orders of one iteration on their way and a report may come
\* after the iteration it belongs to.
THEOREM ModelsRise ==
  ASSUME OneOptimizer
  PROVE  Spec => ModelNeverDecreases
  <1>1. TypeOK /\ TypeOK' /\ ModelsInv /\ [Next]_vars => ModelsInv'
    BY NextModels
  <1>2. TypeOK /\ TypeOK' /\ ModelsInv /\ [Next]_vars => [modelIteration' >= modelIteration]_vars
    BY NextModels
  <1>3. Spec => []ModelsInv
    BY <1>1, InitModels, TypeCorrect, PTL DEF Spec
  <1> QED BY <1>2, <1>3, TypeCorrect, PTL DEF Spec, ModelNeverDecreases

===============================================================================
