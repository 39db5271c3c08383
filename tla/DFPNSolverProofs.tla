--------------------------- MODULE DFPNSolverProofs ---------------------------
(***************************************************************************)
(* For every finite game with faithful keys, every table, configuration    *)
(* and order of the children: the marks, the table's entries and the       *)
(* answers of the df-pn solver are true outcomes, the table loses none of  *)
(* its entries within a search and a search keeps its budget of entries.   *)
(***************************************************************************)
EXTENDS DFPNSolver, SequenceTheorems, FiniteSetTheorems, WellFoundedInduction, TLAPS

-----------------------------------------------------------------------------
(* The table.  Linear probing loses nothing: in a table of any size, with  *)
(* any home slots, storing an entry or writing through the index of one    *)
(* leaves every key that was found where lookup finds it.                  *)

Keys == DOMAIN Home
Used(t) == {i \in Slots : t.entry[i] # Free}

\* A table store and Overwrite have made: its count is that of its entries,
\* and lookup finds the key of each.
TableOK(t) ==
  /\ t = [entry |-> t.entry, count |-> t.count]
  /\ t.entry = [i \in Slots |-> t.entry[i]]
  /\ \A i \in Used(t) : /\ t.entry[i] = [key |-> t.entry[i].key, data |-> t.entry[i].data]
                        /\ t.entry[i].key \in Keys
                        /\ Found(t, t.entry[i].key)
  /\ t.count = Cardinality(Used(t))

\* The probe for the key meets other keys only before it meets the key.
FoundAt(t, key, d) ==
  /\ d \in Slots
  /\ t.entry[Probe(key, d)] # Free /\ t.entry[Probe(key, d)].key = key
  /\ \A e \in Slots : e < d => /\ t.entry[Probe(key, e)] # Free
                               /\ t.entry[Probe(key, e)].key # key

-----------------------------------------------------------------------------
(* Arithmetic *)

LEMMA MinIs ==
  ASSUME NEW S, S \subseteq Nat, S # {}
  PROVE  Min(S) \in S /\ \A y \in S : Min(S) <= y
<1>1. PICK x \in S : \A y \in S : ~(<<y, x>> \in OpToRel(<, Nat))
  BY NatLessThanWellFounded, WFMin
<1>2. \A y \in S : ~(y < x)
  BY <1>1 DEF OpToRel
<1>3. \A y \in S : x <= y
  BY <1>2
<1> QED BY <1>3 DEF Min

LEMMA ModIs ==
  ASSUME NEW T \in Nat \ {0}, NEW a \in 0 .. T - 1
  PROVE  a % T = a /\ (a + T) % T = a
OBVIOUS

LEMMA ProbeIs ==
  ASSUME NEW key \in Keys
  PROVE  /\ \A d \in Slots : Probe(key, d) \in Slots
         /\ \A i \in Slots : \E d \in Slots : Probe(key, d) = i
         /\ \A d, e \in Slots : Probe(key, d) = Probe(key, e) => d = e
<1>1. TTSize \in Nat \ {0} /\ Home[key] \in 0 .. TTSize - 1
  BY TableAssumption DEF Keys, Slots
<1>2. \A d \in Slots :
        Probe(key, d) = IF Home[key] + d < TTSize THEN Home[key] + d
                        ELSE Home[key] + d - TTSize
  <2> SUFFICES ASSUME NEW d \in Slots
               PROVE  Probe(key, d) = IF Home[key] + d < TTSize THEN Home[key] + d
                                      ELSE Home[key] + d - TTSize
    OBVIOUS
  <2>1. CASE Home[key] + d < TTSize
    BY <1>1, <2>1, ModIs DEF Probe, Slots
  <2>2. CASE ~(Home[key] + d < TTSize)
    <3> DEFINE a == Home[key] + d - TTSize
    <3>1. a \in 0 .. TTSize - 1 /\ a + TTSize = Home[key] + d
      BY <1>1, <2>2 DEF Slots
    <3>2. (a + TTSize) % TTSize = a
      BY <1>1, <3>1, ModIs
    <3> QED BY <2>2, <3>1, <3>2 DEF Probe
  <2> QED BY <2>1, <2>2
<1>3. \A d \in Slots : Probe(key, d) \in Slots
  BY <1>1, <1>2 DEF Slots
<1>4. ASSUME NEW i \in Slots  PROVE \E d \in Slots : Probe(key, d) = i
  <2>1. CASE i >= Home[key]
    <3>1. i - Home[key] \in Slots /\ Home[key] + (i - Home[key]) = i /\ i < TTSize
      BY <1>1, <2>1 DEF Slots
    <3> QED BY <1>2, <3>1
  <2>2. CASE ~(i >= Home[key])
    <3> DEFINE d == i - Home[key] + TTSize
    <3>1. d \in Slots /\ Home[key] + d - TTSize = i /\ ~(Home[key] + d < TTSize)
      BY <1>1, <2>2 DEF Slots
    <3> HIDE DEF d
    <3> QED BY <1>2, <3>1
  <2> QED BY <2>1, <2>2
<1>5. \A d, e \in Slots : Probe(key, d) = Probe(key, e) => d = e
  BY <1>1, <1>2 DEF Slots
<1> QED BY <1>3, <1>4, <1>5

LEMMA SlotNumbers == Slots \subseteq Nat /\ IsFiniteSet(Slots)
                     /\ Cardinality(Slots) = TTSize
<1>1. IsFiniteSet(0 .. TTSize - 1)
      /\ Cardinality(0 .. TTSize - 1) = IF 0 > TTSize - 1 THEN 0 ELSE TTSize - 1 - 0 + 1
  BY TableAssumption, FS_Interval
<1> QED BY <1>1, TableAssumption DEF Slots

-----------------------------------------------------------------------------
(* lookup *)

\* A key is found where the probe for it first meets it.
LEMMA FoundIs ==
  ASSUME NEW t, NEW key
  PROVE  /\ Found(t, key) => \E d \in Slots : FoundAt(t, key, d)
         /\ \A d \in Slots : FoundAt(t, key, d) => /\ Found(t, key)
                                                  /\ lookup(t, key) = Probe(key, d)
<1>1. Stops(t, key) \subseteq Nat /\ Stops(t, key) \subseteq Slots
  BY SlotNumbers DEF Stops
<1>2. ASSUME Found(t, key)  PROVE \E d \in Slots : FoundAt(t, key, d)
  <2> DEFINE d == Min(Stops(t, key))
  <2>1. d \in Stops(t, key) /\ \A e \in Stops(t, key) : d <= e
    BY <1>1, <1>2, MinIs DEF Found, LookupReturns
  <2>2. t.entry[Probe(key, d)] # Free
    BY <1>2 DEF Found, lookup
  <2> HIDE DEF d
  <2>3. d \in Slots /\ t.entry[Probe(key, d)].key = key
    BY <2>1, <2>2 DEF Stops
  <2>4. \A e \in Slots : e < d => e \notin Stops(t, key)
    BY <2>1, <2>3, SlotNumbers
  <2> QED BY <2>2, <2>3, <2>4 DEF FoundAt, Stops
<1>3. ASSUME NEW d \in Slots, FoundAt(t, key, d)
      PROVE  Found(t, key) /\ lookup(t, key) = Probe(key, d)
  <2>1. d \in Stops(t, key)
    BY <1>3 DEF FoundAt, Stops
  <2>2. \A e \in Stops(t, key) : ~(e < d)
    BY <1>3 DEF FoundAt, Stops
  <2>3. Min(Stops(t, key)) = d
    <3>1. Min(Stops(t, key)) \in Stops(t, key) /\ Min(Stops(t, key)) <= d
      BY <1>1, <2>1, MinIs
    <3> QED BY <1>1, <2>1, <2>2, <3>1
  <2> QED BY <1>3, <2>1, <2>3 DEF Found, FoundAt, LookupReturns, lookup
<1> QED BY <1>2, <1>3

\* What is written in a slot that was free, or over an entry of the same key,
\* hides no key.
LEMMA FoundKept ==
  ASSUME NEW t, NEW u, NEW key \in Keys, Found(t, key),
         \A i \in Slots : t.entry[i] # Free =>
           u.entry[i] # Free /\ u.entry[i].key = t.entry[i].key
  PROVE  Found(u, key)
<1>1. PICK d \in Slots : FoundAt(t, key, d)
  BY FoundIs
<1>2. FoundAt(u, key, d)
  BY <1>1, ProbeIs DEF FoundAt
<1> QED BY <1>2, FoundIs

-----------------------------------------------------------------------------
(* The operations *)

LEMMA EmptyTableOK == TableOK(EmptyTable) /\ Used(EmptyTable) = {}
<1>1. Used(EmptyTable) = {}
  BY DEF Used, EmptyTable
<1> QED BY <1>1, FS_EmptySet DEF TableOK, EmptyTable

\* store takes a free slot, of which there is one while the count allows it,
\* the first one the probe for the key meets.
LEMMA StoreSlot ==
  ASSUME NEW t, TableOK(t), ~isFull(t), NEW key \in Keys
  PROVE  LET d == Min({e \in Slots : t.entry[Probe(key, e)] = Free})
         IN  /\ d \in Slots /\ t.entry[Probe(key, d)] = Free
             /\ \A e \in Slots : e < d => t.entry[Probe(key, e)] # Free
<1> DEFINE S == {e \in Slots : t.entry[Probe(key, e)] = Free}
<1>1. S \subseteq Nat
  BY SlotNumbers
<1>2. Used(t) # Slots
  BY SlotNumbers, TableAssumption DEF TableOK, isFull
<1>3. PICK i \in Slots : t.entry[i] = Free
  BY <1>2 DEF Used
<1>4. S # {}
  BY <1>3, ProbeIs
<1>5. Min(S) \in S /\ \A y \in S : Min(S) <= y
  BY <1>1, <1>4, MinIs
<1> QED BY <1>1, <1>5, SlotNumbers

\* A new entry has the key and the data, is found, and hides no other.
LEMMA StoreIs ==
  ASSUME NEW t, TableOK(t), ~isFull(t), NEW key \in Keys, NEW data
  PROVE  LET u == store(t, key, data)
         IN  /\ TableOK(u) /\ u.count = t.count + 1
             /\ Found(u, key)
             /\ \A k \in Keys : Found(t, k) => Found(u, k)
             /\ \A i \in Used(u) : \/ i \in Used(t) /\ u.entry[i] = t.entry[i]
                                   \/ u.entry[i] = [key |-> key, data |-> data]
             /\ Used(t) \subseteq Used(u)
             /\ \A i \in Used(t) : u.entry[i] = t.entry[i]
<1> DEFINE d == Min({e \in Slots : t.entry[Probe(key, e)] = Free})
           new == [key |-> key, data |-> data]
           u == store(t, key, data)
           i == Probe(key, d)
<1>0. /\ d \in Slots /\ t.entry[i] = Free
      /\ \A e \in Slots : e < d => t.entry[Probe(key, e)] # Free
  BY StoreSlot
<1>2. u = [entry |-> [t.entry EXCEPT ![i] = new], count |-> t.count + 1]
  BY DEF store
<1> HIDE DEF d, u
<1>1. i \in Slots /\ d \in Slots /\ t.entry[i] = Free
      /\ \A e \in Slots : e < d => t.entry[Probe(key, e)] # Free
  BY <1>0, ProbeIs
<1>3. t.entry = [j \in Slots |-> t.entry[j]]
  BY DEF TableOK
<1>4. /\ u.count = t.count + 1
      /\ u.entry = [j \in Slots |-> IF j = i THEN new ELSE t.entry[j]]
  BY <1>1, <1>2, <1>3
<1>5. new # Free /\ new.key = key
  <2>1. "key" \in DOMAIN new /\ "key" \notin DOMAIN Free
    BY DEF Free
  <2> QED BY <2>1
<1> HIDE DEF new
<1>6. Used(u) = Used(t) \cup {i} /\ i \notin Used(t)
  BY <1>1, <1>4, <1>5 DEF Used
<1>7. IsFiniteSet(Used(t)) /\ Cardinality(Used(u)) = Cardinality(Used(t)) + 1
  <2>1. Used(t) \subseteq Slots
    BY DEF Used
  <2>2. IsFiniteSet(Used(t))
    BY <2>1, SlotNumbers, FS_Subset
  <2> QED BY <1>6, <2>2, FS_AddElement
<1>8. \A k \in Keys : Found(t, k) => Found(u, k)
  BY <1>1, <1>4, FoundKept
<1>9. Found(u, key)
  <2>1. CASE \E e \in Slots : e < d /\ t.entry[Probe(key, e)].key = key
    <3>1. PICK e \in Slots : e < d /\ t.entry[Probe(key, e)].key = key
      BY <2>1
    <3>2. Probe(key, e) \in Used(t)
      BY <1>1, <3>1, ProbeIs DEF Used
    <3>3. Found(t, key)
      BY <3>1, <3>2 DEF TableOK
    <3> QED BY <1>8, <3>3
  <2>2. CASE ~(\E e \in Slots : e < d /\ t.entry[Probe(key, e)].key = key)
    <3>1. \A e \in Slots : e < d => Probe(key, e) # i /\ Probe(key, e) \in Slots
      BY <1>1, ProbeIs, SlotNumbers
    <3>2. FoundAt(u, key, d)
      BY <1>1, <1>4, <1>5, <2>2, <3>1 DEF FoundAt
    <3> QED BY <1>1, <3>2, FoundIs
  <2> QED BY <2>1, <2>2
<1>10. \A j \in Used(u) : \/ j \in Used(t) /\ u.entry[j] = t.entry[j]
                         \/ u.entry[j] = new
  BY <1>4, <1>6 DEF Used
<1>11. TableOK(u)
  <2>1. u = [entry |-> u.entry, count |-> u.count]
    BY <1>2
  <2>2. u.entry = [j \in Slots |-> u.entry[j]]
    BY <1>4
  <2>3. \A j \in Used(u) :
          /\ u.entry[j] = [key |-> u.entry[j].key, data |-> u.entry[j].data]
          /\ u.entry[j].key \in Keys
    <3>1. new = [key |-> new.key, data |-> new.data] /\ new.key \in Keys
      BY DEF new
    <3> QED BY <1>10, <3>1 DEF TableOK
  <2>4. \A j \in Used(u) : Found(u, u.entry[j].key)
    BY <1>5, <1>8, <1>9, <1>10 DEF TableOK
  <2>5. u.count = Cardinality(Used(u))
    BY <1>4, <1>7 DEF TableOK
  <2> QED BY <2>1, <2>2, <2>3, <2>4, <2>5 DEF TableOK
<1>12. \A j \in Used(t) : u.entry[j] = t.entry[j]
  BY <1>4, <1>6 DEF Used
<1> QED BY <1>4, <1>6, <1>8, <1>9, <1>10, <1>11, <1>12 DEF u, new

\* An entry that is found is the key's own.
LEMMA FoundEntry ==
  ASSUME NEW t, TableOK(t), NEW key \in Keys, Found(t, key)
  PROVE  /\ lookup(t, key) \in Used(t)
         /\ t.entry[lookup(t, key)].key = key
         /\ DataAt(t, key) = t.entry[lookup(t, key)].data
<1>1. PICK d \in Slots : FoundAt(t, key, d)
  BY FoundIs
<1> QED BY <1>1, FoundIs, ProbeIs DEF FoundAt, Used, DataAt

\* Writing through the index changes the data of that entry only.
LEMMA OverwriteIs ==
  ASSUME NEW t, TableOK(t), NEW key \in Keys, Found(t, key), NEW data
  PROVE  LET u == Overwrite(t, key, data)
         IN  /\ TableOK(u) /\ u.count = t.count
             /\ \A k \in Keys : Found(t, k) => Found(u, k)
             /\ Used(u) = Used(t)
             /\ \A i \in Used(u) : \/ u.entry[i] = t.entry[i]
                                   \/ u.entry[i] = [key |-> key, data |-> data]
<1> DEFINE i == lookup(t, key)
           u == Overwrite(t, key, data)
           new == [key |-> key, data |-> data]
<1>1. i \in Slots /\ i \in Used(t) /\ t.entry[i].key = key
  BY FoundEntry DEF Used
<1>2. /\ t = [entry |-> t.entry, count |-> t.count]
      /\ t.entry = [j \in Slots |-> t.entry[j]]
      /\ t.entry[i] = [key |-> key, data |-> t.entry[i].data]
  BY <1>1 DEF TableOK
<1>3. u = [t EXCEPT !.entry[i].data = data]
  BY DEF Overwrite
<1> HIDE DEF i, u
<1>4. u = [entry |-> [t.entry EXCEPT ![i] = [t.entry[i] EXCEPT !.data = data]],
           count |-> t.count]
  BY <1>2, <1>3
<1>5. [t.entry[i] EXCEPT !.data = data] = new
  BY <1>2
<1>6. /\ u.count = t.count
      /\ u.entry = [j \in Slots |-> IF j = i THEN new ELSE t.entry[j]]
  BY <1>1, <1>2, <1>4, <1>5
<1>7. new # Free /\ new.key = key
  <2>1. "key" \in DOMAIN new /\ "key" \notin DOMAIN Free
    BY DEF Free
  <2> QED BY <2>1
<1>8. new = [key |-> new.key, data |-> new.data] /\ new.key \in Keys
  OBVIOUS
<1> HIDE DEF new
<1>9. Used(u) = Used(t)
  BY <1>1, <1>6, <1>7 DEF Used
<1>10. \A j \in Used(u) : u.entry[j] = t.entry[j] \/ u.entry[j] = new
  BY <1>6, <1>9 DEF Used
<1>11. \A k \in Keys : Found(t, k) => Found(u, k)
  BY <1>1, <1>6, <1>7, FoundKept DEF Used
<1>12. TableOK(u)
  <2>1. u = [entry |-> u.entry, count |-> u.count]
    BY <1>4
  <2>2. u.entry = [j \in Slots |-> u.entry[j]]
    BY <1>6
  <2>3. \A j \in Used(u) :
          /\ u.entry[j] = [key |-> u.entry[j].key, data |-> u.entry[j].data]
          /\ u.entry[j].key \in Keys
    BY <1>8, <1>9, <1>10 DEF TableOK
  <2>4. \A j \in Used(u) : Found(u, u.entry[j].key)
    BY <1>7, <1>9, <1>10, <1>11 DEF TableOK
  <2> QED BY <1>6, <1>9, <2>1, <2>2, <2>3, <2>4 DEF TableOK
<1> QED BY <1>6, <1>9, <1>10, <1>11, <1>12 DEF u, new

-----------------------------------------------------------------------------
(* The inductive invariant. *)

Marked(n) == n.status \in {"UNKNOWN", Outcome[n.pos]}

\* A frame of MID: expanded, it has every child, and no mark is wrong.
FrameInv(f) ==
  /\ f = [node |-> f.node, pnThreshold |-> f.pnThreshold,
          dnThreshold |-> f.dnThreshold, children |-> f.children,
          ratio |-> f.ratio, mpn |-> f.mpn]
  /\ f.children = [i \in DOMAIN f.children |-> f.children[i]]
  /\ f.node.pos \in Position /\ Marked(f.node)
  /\ \A i \in DOMAIN f.children : Marked(f.children[i])
  /\ Expanded(f) =>
       /\ f.node.pos \notin Terminal
       /\ {f.children[i].pos : i \in DOMAIN f.children} = Children[f.node.pos]

\* A frame has called MID for the child the next frame is about.
Calls(f, g) ==
  /\ f.mpn \in DOMAIN f.children
  /\ f.children[f.mpn].pos = g.node.pos

\* The stack: from the root to the position m_game is at.
StackInv ==
  /\ stack \in Seq(Range(stack))
  /\ stack # <<>> <=> answer = "none"
  /\ stack # <<>> => stack[1].node.pos = root /\ Top.node.pos = game
  /\ \A k \in 1 .. Len(stack) : FrameInv(stack[k])
  /\ \A k \in 1 .. Len(stack) - 1 : Calls(stack[k], stack[k + 1])

\* What the table says of a key holds for every position of that key.
TableInv ==
  /\ TableOK(TT)
  /\ \A i \in Used(TT) : \A p \in Position :
       Key[p] = TT.entry[i].key => TT.entry[i].data.status \in {"UNKNOWN", Outcome[p]}

AnswerInv == /\ root \in Problem
             /\ answer \in {"none", "UNKNOWN", ReverseStatus(Outcome[root])}

\* The deeper the search, the less is left to search.
BudgetInv ==
  /\ conf \in Configs
  /\ OverrunIsBounded
  /\ \A k \in 1 .. Len(stack) : k + Height[stack[k].node.pos] <= Height[root] + 1

IInv == StackInv /\ TableInv /\ AnswerInv /\ BudgetInv

-----------------------------------------------------------------------------
(* The game *)

LEMMA OutcomeIs ==
  ASSUME NEW p \in Position
  PROVE  /\ Outcome[p] \in Solved
         /\ p \in Terminal => Outcome[p] = TerminalStatus(p)
         /\ p \notin Terminal =>
              Outcome[p] = IF \A c \in Children[p] : Outcome[c] = "LOSS"
                           THEN "WIN" ELSE "LOSS"
<1>1. Outcome[p] = IF p \in Terminal THEN TerminalStatus(p)
                   ELSE IF \A c \in Children[p] : Outcome[c] = "LOSS"
                        THEN "WIN" ELSE "LOSS"
  BY FiniteGame
<1> QED BY <1>1 DEF TerminalStatus, Solved

LEMMA GameIs ==
  /\ Problem \subseteq Position
  /\ \A p \in Position : /\ Key[p] \in Keys
                         /\ Height[p] \in Nat \ {0}
                         /\ \A c \in Children[p] : c \in Position /\ Parent[c] = p
BY GameAssumption, HomeAssumption, FiniteHeight DEF Keys

\* The children, in any order, are all there.
LEMMA OrderIs ==
  ASSUME NEW p \in Position, NEW order \in SetToSeqs(Children[p])
  PROVE  /\ DOMAIN order = 1 .. Cardinality(Children[p])
         /\ {order[i] : i \in DOMAIN order} = Children[p]
<1> DEFINE S == Children[p]
           D == 1 .. Cardinality(S)
<1>1. IsFiniteSet(S)
  BY GameAssumption
<1>2. Cardinality(S) \in Nat
  BY <1>1, FS_CardinalityType
<1>3. order \in [D -> S] /\ \A i, j \in D : i # j => order[i] # order[j]
  BY DEF SetToSeqs
<1>4. order \in Injection(D, S)
  BY <1>3 DEF Injection, IsInjective
<1>5. Cardinality(D) = Cardinality(S)
  BY <1>2, FS_Interval
<1>6. order \in Surjection(D, S)
  BY <1>1, <1>4, <1>5, FS_Injection
<1> QED BY <1>3, <1>6 DEF Surjection

-----------------------------------------------------------------------------
(* Sequences of frames *)

LEMMA OwnRange ==
  ASSUME NEW S, NEW s \in Seq(S)
  PROVE  s \in Seq(Range(s))
<1>1. DOMAIN s = 1 .. Len(s) /\ Len(s) \in Nat
  OBVIOUS
<1>2. s \in [1 .. Len(s) -> Range(s)]
  BY <1>1 DEF Range
<1>3. [1 .. Len(s) -> Range(s)] \in {[1 .. n -> Range(s)] : n \in Nat}
  BY <1>1
<1>4. s \in UNION {[1 .. n -> Range(s)] : n \in Nat}
  BY <1>2, <1>3, Zenon
<1>5. Seq(Range(s)) = UNION {[1 .. n -> Range(s)] : n \in Nat}
  BY SeqDef
<1> QED BY <1>4, <1>5

LEMMA FrontIs ==
  ASSUME NEW S, NEW s \in Seq(S), s # <<>>
  PROVE  /\ Len(s) \in Nat /\ Len(s) >= 1
         /\ Front(s) \in Seq(S) /\ Len(Front(s)) = Len(s) - 1
         /\ \A k \in 1 .. Len(s) - 1 : Front(s)[k] = s[k]
<1>1. Len(s) \in Nat /\ Len(s) >= 1
  OBVIOUS
<1>2. \A i \in 1 .. Len(s) - 1 : s[i] \in S
  BY <1>1
<1>3. /\ Front(s) \in Seq(S)
      /\ Len(Front(s)) = IF 1 <= Len(s) - 1 THEN Len(s) - 1 - 1 + 1 ELSE 0
      /\ \A k \in 1 .. Len(s) - 1 - 1 + 1 : Front(s)[k] = s[1 + k - 1]
  BY <1>1, <1>2, SubSeqProperties DEF Front
<1>4. Len(Front(s)) = Len(s) - 1
  <2> DEFINE n == Len(s)
  <2>1. n \in Nat /\ n > 0 /\ Len(Front(s)) = IF 1 <= n - 1 THEN n - 1 - 1 + 1 ELSE 0
    BY <1>1, <1>3
  <2> HIDE DEF n
  <2>2. Len(Front(s)) = n - 1
    <3>1. CASE n >= 2
      <4>1. 1 <= n - 1 /\ n - 1 - 1 + 1 = n - 1
        BY <2>1, <3>1
      <4> QED BY <2>1, <4>1
    <3>2. CASE n = 1
      <4>1. ~(1 <= n - 1) /\ 0 = n - 1
        BY <3>2
      <4> QED BY <2>1, <4>1
    <3> QED BY <2>1, <3>1, <3>2
  <2> QED BY <2>2 DEF n
<1>5. \A k \in 1 .. Len(s) - 1 : Front(s)[k] = s[k]
  BY <1>1, <1>3
<1> QED BY <1>1, <1>3, <1>4, <1>5

\* A call pushes a frame; the caller's frame is updated.
PushedStack(s, f, g) == Append(Append(Front(s), f), g)

LEMMA Pushed ==
  ASSUME NEW s, s \in Seq(Range(s)), s # <<>>, NEW f, NEW g
  PROVE  LET t == PushedStack(s, f, g)
         IN  /\ t \in Seq(Range(t)) /\ t # <<>>
             /\ Len(s) \in Nat \ {0} /\ Len(t) = Len(s) + 1
             /\ t[Len(s)] = f /\ t[Len(s) + 1] = g /\ Last(t) = g
             /\ \A k \in 1 .. Len(s) - 1 : t[k] = s[k]
<1> DEFINE S == Range(s) \cup {f, g}
           u == Append(Front(s), f)
           t == Append(u, g)
           n == Len(s)
<1>1. s \in Seq(S) /\ n \in Nat /\ n > 0
  OBVIOUS
<1>2. /\ Front(s) \in Seq(S) /\ Len(Front(s)) = n - 1
      /\ \A k \in 1 .. n - 1 : Front(s)[k] = s[k]
  BY <1>1, FrontIs
<1>3. /\ u \in Seq(S) /\ Len(u) = n /\ u[n] = f
      /\ \A k \in 1 .. n - 1 : u[k] = s[k]
  BY <1>1, <1>2
<1> HIDE DEF u
<1>4. /\ t \in Seq(S) /\ Len(t) = n + 1 /\ t[n + 1] = g
      /\ \A k \in 1 .. n : t[k] = u[k]
  BY <1>1, <1>3
<1> HIDE DEF t, S
<1>5. t \in Seq(Range(t))
  BY <1>4, OwnRange
<1>6. t # <<>>
  BY <1>1, <1>4
<1>7. Last(t) = g
  BY <1>1, <1>4 DEF Last
<1>8. t = PushedStack(s, f, g)
  BY DEF t, u, PushedStack
<1>9. \A k \in 1 .. n - 1 : t[k] = s[k]
  BY <1>1, <1>3, <1>4
<1>10. t[n] = f
  BY <1>1, <1>3, <1>4
<1> QED BY <1>1, <1>4, <1>5, <1>6, <1>7, <1>8, <1>9, <1>10

\* A return pops one, and the caller's frame is updated.
PoppedStack(s, f) == Append(Front(Front(s)), f)

LEMMA Popped ==
  ASSUME NEW s, s \in Seq(Range(s)), s # <<>>, Len(s) # 1, NEW f
  PROVE  LET t == PoppedStack(s, f)
         IN  /\ t \in Seq(Range(t)) /\ t # <<>>
             /\ Len(s) \in Nat /\ Len(s) >= 2 /\ Len(t) = Len(s) - 1
             /\ t[Len(s) - 1] = f /\ Last(t) = f
             /\ \A k \in 1 .. Len(s) - 2 : t[k] = s[k]
<1> DEFINE S == Range(s) \cup {f}
           u == Front(s)
           v == Front(u)
           t == Append(v, f)
           n == Len(s)
<1>1. s \in Seq(S) /\ n \in Nat /\ n >= 2
  <2>1. s \in Seq(S) /\ n \in Nat /\ n > 0
    OBVIOUS
  <2>2. n # 1
    OBVIOUS
  <2> HIDE DEF n
  <2>3. n >= 2
    BY <2>1, <2>2
  <2> QED BY <2>1, <2>3
<1>2. u \in Seq(S) /\ Len(u) = n - 1 /\ \A k \in 1 .. n - 1 : u[k] = s[k]
  BY <1>1, FrontIs
<1> HIDE DEF u
<1>3. v \in Seq(S) /\ Len(v) = n - 2 /\ \A k \in 1 .. n - 2 : v[k] = u[k]
  <2>1. u # <<>>
    BY <1>1, <1>2
  <2>2. v \in Seq(S) /\ Len(v) = (n - 1) - 1 /\ \A k \in 1 .. (n - 1) - 1 : v[k] = u[k]
    BY <1>2, <2>1, FrontIs
  <2> QED BY <1>1, <2>2
<1> HIDE DEF v
<1>4. /\ t \in Seq(S) /\ Len(t) = n - 1 /\ t[n - 1] = f
      /\ \A k \in 1 .. n - 2 : t[k] = v[k]
  BY <1>1, <1>3
<1> HIDE DEF t, S
<1>5. t \in Seq(Range(t))
  BY <1>4, OwnRange
<1>6. t # <<>>
  BY <1>1, <1>4
<1>7. Last(t) = f
  BY <1>4 DEF Last
<1>8. t = PoppedStack(s, f)
  BY DEF t, v, u, PoppedStack
<1>9. \A k \in 1 .. n - 2 : t[k] = s[k]
  BY <1>1, <1>2, <1>3, <1>4
<1> QED BY <1>1, <1>4, <1>5, <1>6, <1>7, <1>8, <1>9

\* A record with the fields of a frame, which Expand and MIDChild write two of.
IsFrame(f) == f = [node |-> f.node, pnThreshold |-> f.pnThreshold,
                   dnThreshold |-> f.dnThreshold, children |-> f.children,
                   ratio |-> f.ratio, mpn |-> f.mpn]

Calling(f, node, mpn) == [f EXCEPT !.node = node, !.mpn = mpn]
Grown(f, ratio, children) == [f EXCEPT !.ratio = ratio, !.children = children]

LEMMA FrameUpdates ==
  ASSUME NEW f, IsFrame(f), NEW a, NEW b
  PROVE  /\ Calling(f, a, b) =
              [node |-> a, pnThreshold |-> f.pnThreshold,
               dnThreshold |-> f.dnThreshold, children |-> f.children,
               ratio |-> f.ratio, mpn |-> b]
         /\ Grown(f, a, b) =
              [node |-> f.node, pnThreshold |-> f.pnThreshold,
               dnThreshold |-> f.dnThreshold, children |-> b,
               ratio |-> a, mpn |-> f.mpn]
<1> DEFINE g == [f EXCEPT !.node = a]
           h == [f EXCEPT !.ratio = a]
<1>1. /\ g = [node |-> a, pnThreshold |-> f.pnThreshold,
              dnThreshold |-> f.dnThreshold, children |-> f.children,
              ratio |-> f.ratio, mpn |-> f.mpn]
      /\ h = [node |-> f.node, pnThreshold |-> f.pnThreshold,
              dnThreshold |-> f.dnThreshold, children |-> f.children,
              ratio |-> a, mpn |-> f.mpn]
  BY DEF IsFrame
<1>2. Calling(f, a, b) = [g EXCEPT !.mpn = b]
  BY DEF Calling
<1>3. Grown(f, a, b) = [h EXCEPT !.children = b]
  BY DEF Grown
<1> HIDE DEF g, h
<1>4. [g EXCEPT !.mpn = b] =
        [node |-> a, pnThreshold |-> f.pnThreshold,
         dnThreshold |-> f.dnThreshold, children |-> f.children,
         ratio |-> f.ratio, mpn |-> b]
  BY <1>1
<1>5. [h EXCEPT !.children = b] =
        [node |-> f.node, pnThreshold |-> f.pnThreshold,
         dnThreshold |-> f.dnThreshold, children |-> b,
         ratio |-> a, mpn |-> f.mpn]
  BY <1>1
<1>6. Calling(f, a, b) =
        [node |-> a, pnThreshold |-> f.pnThreshold,
         dnThreshold |-> f.dnThreshold, children |-> f.children,
         ratio |-> f.ratio, mpn |-> b]
  BY <1>2, <1>4
<1>7. Grown(f, a, b) =
        [node |-> f.node, pnThreshold |-> f.pnThreshold,
         dnThreshold |-> f.dnThreshold, children |-> b,
         ratio |-> a, mpn |-> f.mpn]
  BY <1>3, <1>5
<1> QED BY <1>6, <1>7

-----------------------------------------------------------------------------
(* Marks *)

\* The status a frame computes for its node from the marks of all its children.
LEMMA UpdatedIsMarked ==
  ASSUME NEW f, FrameInv(f), Expanded(f)
  PROVE  Marked(UpdatedNode(f)) /\ UpdatedNode(f).pos = f.node.pos
<1> DEFINE p == f.node.pos
           statuses == {c.status : c \in Range(f.children)}
<1>1. /\ p \in Position /\ p \notin Terminal
      /\ {f.children[i].pos : i \in DOMAIN f.children} = Children[p]
      /\ \A i \in DOMAIN f.children :
           f.children[i].status \in {"UNKNOWN", Outcome[f.children[i].pos]}
      /\ f.node.status \in {"UNKNOWN", Outcome[p]}
  BY DEF FrameInv, Marked
<1>2. statuses = {f.children[i].status : i \in DOMAIN f.children}
  BY DEF Range
<1>3. UpdatedStatus(f) \in {"UNKNOWN", Outcome[p]}
  <2>1. CASE statuses = {"LOSS"}
    <3>1. ASSUME NEW c \in Children[p]  PROVE Outcome[c] = "LOSS"
      <4>1. PICK i \in DOMAIN f.children : f.children[i].pos = c
        BY <1>1
      <4>2. f.children[i].status = "LOSS"
        BY <1>2, <2>1
      <4> QED BY <1>1, <4>1, <4>2
    <3>2. Outcome[p] = "WIN"
      BY <1>1, <3>1, OutcomeIs
    <3> QED BY <2>1, <3>2 DEF UpdatedStatus
  <2>2. CASE statuses # {"LOSS"} /\ "WIN" \in statuses
    <3>1. PICK i \in DOMAIN f.children : f.children[i].status = "WIN"
      BY <1>2, <2>2
    <3>2. f.children[i].pos \in Children[p] /\ Outcome[f.children[i].pos] = "WIN"
      BY <1>1, <3>1
    <3>3. Outcome[p] = "LOSS"
      BY <1>1, <3>2, OutcomeIs
    <3> QED BY <2>2, <3>3 DEF UpdatedStatus
  <2>3. CASE statuses # {"LOSS"} /\ "WIN" \notin statuses
    BY <1>1, <2>3 DEF UpdatedStatus
  <2> QED BY <2>1, <2>2, <2>3
<1>4. UpdatedNode(f).status = UpdatedStatus(f) /\ UpdatedNode(f).pos = p
  BY DEF UpdatedNode, Node
<1> QED BY <1>3, <1>4 DEF Marked

\* What holds of a stack that is not empty.
LEMMA TopIs ==
  ASSUME IInv, stack # <<>>
  PROVE  /\ stack \in Seq(Range(stack)) /\ Len(stack) \in Nat \ {0}
         /\ Top = stack[Len(stack)] /\ FrameInv(Top)
         /\ Top.node.pos = game /\ game \in Position
         /\ answer = "none"
<1>1. stack \in Seq(Range(stack)) /\ Len(stack) \in Nat \ {0}
  BY DEF IInv, StackInv
<1>2. Top = stack[Len(stack)]
  BY DEF Top, Last
<1>3. FrameInv(stack[Len(stack)]) /\ Top.node.pos = game /\ answer = "none"
  BY <1>1 DEF IInv, StackInv
<1> QED BY <1>1, <1>2, <1>3 DEF FrameInv

\* An entry of the table marks a child as the entry's position was marked.
LEMMA ChildIsMarked ==
  ASSUME IInv, NEW c \in Position, NEW new
  PROVE  Marked(ChildNode(c, new)) /\ ChildNode(c, new).pos = c
<1>1. CASE Found(TT, Key[c])
  <2>1. DataAt(TT, Key[c]).status \in {"UNKNOWN", Outcome[c]}
    BY <1>1, GameIs, FoundEntry DEF IInv, TableInv
  <2> QED BY <1>1, <2>1 DEF ChildNode, Node, Marked
<1>2. CASE ~Found(TT, Key[c])
  BY <1>2 DEF ChildNode, Node, Marked
<1> QED BY <1>1, <1>2

LEMMA CountIsNat ==
  ASSUME IInv
  PROVE  TT.count \in Nat
<1>1. Used(TT) \subseteq Slots
  BY DEF Used
<1> QED BY <1>1, SlotNumbers, FS_Subset, FS_CardinalityType DEF IInv, TableInv, TableOK

\* What a return writes is true of every position of the key.
LEMMA WrittenTable ==
  ASSUME IInv, NEW n, n.pos \in Position, Marked(n),
         \/ ~isFull(TT) /\ TT' = store(TT, Key[n.pos], Data(n))
         \/ Found(TT, Key[n.pos]) /\ TT' = Overwrite(TT, Key[n.pos], Data(n))
  PROVE  /\ TableInv' /\ TT.count \in Nat
         /\ TT'.count \in {TT.count, TT.count + 1}
         /\ \A i \in Used(TT) : Found(TT', TT.entry[i].key)
<1> DEFINE key == Key[n.pos]
           new == [key |-> key, data |-> Data(n)]
<1>1. TableOK(TT) /\ key \in Keys
  BY GameIs DEF IInv, TableInv
<1>2. /\ TableOK(TT') /\ TT'.count \in {TT.count, TT.count + 1}
      /\ \A k \in Keys : Found(TT, k) => Found(TT', k)
      /\ \A i \in Used(TT') : \/ i \in Used(TT) /\ TT'.entry[i] = TT.entry[i]
                              \/ TT'.entry[i] = new
  <2>1. CASE ~isFull(TT) /\ TT' = store(TT, key, Data(n))
    BY <1>1, <2>1, StoreIs
  <2>2. CASE Found(TT, key) /\ TT' = Overwrite(TT, key, Data(n))
    BY <1>1, <2>2, OverwriteIs
  <2> QED BY <2>1, <2>2
<1>3. \A p \in Position : Key[p] = key => Data(n).status \in {"UNKNOWN", Outcome[p]}
  BY KeyAssumption DEF Data, Marked
<1>4. TableInv'
  <2>1. \A i \in Used(TT') : \A p \in Position :
          Key[p] = TT'.entry[i].key
            => TT'.entry[i].data.status \in {"UNKNOWN", Outcome[p]}
    BY <1>2, <1>3 DEF IInv, TableInv
  <2>2. Used(TT)' = Used(TT')
    BY DEF Used
  <2>3. TableOK(TT)' <=> TableOK(TT')
    OBVIOUS
  <2> QED BY <1>2, <2>1 DEF TableInv, TableOK, Used
<1>5. \A i \in Used(TT) : Found(TT', TT.entry[i].key)
  BY <1>1, <1>2 DEF TableOK
<1>6. TT.count \in Nat
  BY CountIsNat
<1> QED BY <1>2, <1>4, <1>5, <1>6

\* MID returns: the caller's child is the node, or the answer is saved.
LEMMA ReturnInv ==
  ASSUME IInv, stack # <<>>, NEW n, n.pos = game, Marked(n), Return(n),
         TT.count \in Nat, TT'.count \in {TT.count, TT.count + 1},
         UNCHANGED <<conf, root>>
  PROVE  StackInv' /\ AnswerInv' /\ BudgetInv'
<1>1. /\ stack \in Seq(Range(stack)) /\ Len(stack) \in Nat \ {0}
      /\ Top = stack[Len(stack)] /\ FrameInv(Top)
      /\ Top.node.pos = game /\ game \in Position /\ answer = "none"
  BY TopIs
<1>2. /\ conf.simControl = "nodes" =>
           TT.count + Len(stack) <= SimCount + Height[root]
      /\ \A k \in 1 .. Len(stack) : k + Height[stack[k].node.pos] <= Height[root] + 1
      /\ root \in Position /\ root \in Problem /\ conf \in Configs
      /\ Height[root] \in Nat /\ Height[game] \in Nat /\ SimCount \in Nat
  BY <1>1, GameIs, ConfigAssumption DEF IInv, BudgetInv, AnswerInv, OverrunIsBounded
<1>3. CASE Len(stack) = 1
  <2>1. stack' = <<>> /\ game' = root /\ answer' = ReverseStatus(n.status)
    BY <1>3 DEF Return, SavedAnswer
  <2>2. game = root
    BY <1>1, <1>3 DEF IInv, StackInv
  <2>3. answer' \in {"UNKNOWN", ReverseStatus(Outcome[root])} /\ answer' # "none"
    BY <1>2, <2>1, <2>2, OutcomeIs DEF Marked, ReverseStatus, Solved
  <2>4. StackInv'
    BY <2>1, <2>3 DEF StackInv
  <2>5. BudgetInv'
    BY <1>2, <1>3, <2>1 DEF BudgetInv, OverrunIsBounded
  <2> QED BY <1>2, <2>3, <2>4, <2>5 DEF AnswerInv
<1>4. CASE Len(stack) # 1
  <2> DEFINE N == Len(stack)
             caller == stack[N - 1]
             f == [caller EXCEPT !.children[caller.mpn] = n]
  <2>1. /\ stack' = PoppedStack(stack, f) /\ game' = Parent[game]
        /\ answer' = answer
    BY <1>4 DEF Return, PoppedStack
  <2>2. N \in Nat /\ N >= 2 /\ N - 1 \in 1 .. N /\ N - 1 \in 1 .. N - 1
    <3>1. N \in Nat /\ N >= 1 /\ N # 1
      BY <1>1, <1>4
    <3> HIDE DEF N
    <3> QED BY <3>1
  <2>3. FrameInv(caller) /\ Calls(caller, Top)
    <3>1. (N - 1) + 1 = N
      BY <2>2
    <3> QED BY <1>1, <2>2, <3>1 DEF IInv, StackInv
  <2>4. /\ game \in Children[caller.node.pos] /\ caller.node.pos \in Position
        /\ caller.node.pos \notin Terminal
        /\ caller.children[caller.mpn].pos = game
    BY <1>1, <2>3 DEF Calls, FrameInv, Expanded
  <2>5. /\ f.node = caller.node /\ FrameInv(f) /\ Expanded(f)
        /\ Calls(f, Top) /\ f.mpn = caller.mpn
    <3> DEFINE ch == caller.children
               m == caller.mpn
               new == [ch EXCEPT ![m] = n]
    <3>1. /\ caller = [node |-> caller.node, pnThreshold |-> caller.pnThreshold,
                       dnThreshold |-> caller.dnThreshold, children |-> ch,
                       ratio |-> caller.ratio, mpn |-> m]
          /\ ch = [i \in DOMAIN ch |-> ch[i]]
          /\ m \in DOMAIN ch
      BY <2>3 DEF FrameInv, Calls
    <3> HIDE DEF caller
    <3>2. f = [node |-> caller.node, pnThreshold |-> caller.pnThreshold,
               dnThreshold |-> caller.dnThreshold, children |-> new,
               ratio |-> caller.ratio, mpn |-> m]
      BY <3>1
    <3>3. /\ f.node = caller.node /\ f.children = new /\ f.mpn = m
          /\ f = [node |-> f.node, pnThreshold |-> f.pnThreshold,
                  dnThreshold |-> f.dnThreshold, children |-> f.children,
                  ratio |-> f.ratio, mpn |-> f.mpn]
      BY <3>2
    <3>4. DOMAIN new = DOMAIN ch /\ new = [i \in DOMAIN ch |-> IF i = m THEN n ELSE ch[i]]
      BY <3>1
    <3> HIDE DEF f, new
    <3>5. new # <<>>
      BY <3>1, <3>4
    <3>6. \A i \in DOMAIN ch : new[i].pos = ch[i].pos
      BY <2>4, <3>4
    <3>7. {new[i].pos : i \in DOMAIN new} = {ch[i].pos : i \in DOMAIN ch}
      <4>1. DOMAIN new = DOMAIN ch
        BY <3>4
      <4> HIDE DEF ch
      <4> QED BY <3>6, <4>1
    <3>8. /\ \A i \in DOMAIN new : Marked(new[i])
          /\ new = [i \in DOMAIN new |-> new[i]]
      BY <2>3, <3>4 DEF FrameInv
    <3>9. Expanded(caller)
      BY <3>1 DEF Expanded
    <3>10. FrameInv(f)
      <4>1. f.node.pos \in Position /\ Marked(f.node)
        BY <2>3, <3>3 DEF FrameInv
      <4>2. \A i \in DOMAIN f.children : Marked(f.children[i])
        BY <3>3, <3>8
      <4>3. f.children = [i \in DOMAIN f.children |-> f.children[i]]
        BY <3>3, <3>8
      <4>4. /\ f.node.pos \notin Terminal
            /\ {f.children[i].pos : i \in DOMAIN f.children} = Children[f.node.pos]
        <5>1. /\ caller.node.pos \notin Terminal
              /\ {ch[i].pos : i \in DOMAIN ch} = Children[caller.node.pos]
          BY <2>3, <3>9 DEF FrameInv
        <5>2. {f.children[i].pos : i \in DOMAIN f.children}
                = {new[i].pos : i \in DOMAIN new}
          BY <3>3
        <5> HIDE DEF ch
        <5> QED BY <3>3, <3>7, <5>1, <5>2
      <4> QED BY <3>3, <4>1, <4>2, <4>3, <4>4 DEF FrameInv
    <3>11. Calls(f, Top)
      BY <1>1, <2>4, <3>1, <3>3, <3>4, <3>6 DEF Calls
    <3> QED BY <3>3, <3>5, <3>10, <3>11 DEF Expanded
  <2> HIDE DEF f
  <2>6. /\ stack' \in Seq(Range(stack')) /\ stack' # <<>> /\ Len(stack') = N - 1
        /\ stack'[N - 1] = f /\ Last(stack') = f
        /\ \A k \in 1 .. N - 2 : stack'[k] = stack[k]
    <3> DEFINE t == PoppedStack(stack, f)
    <3>1. /\ t \in Seq(Range(t)) /\ t # <<>> /\ Len(t) = N - 1
          /\ t[N - 1] = f /\ Last(t) = f
          /\ \A k \in 1 .. N - 2 : t[k] = stack[k]
      BY <1>1, <1>4, Popped
    <3> QED BY <2>1, <3>1
  <2>7. game' = caller.node.pos
    BY <2>1, <2>4, GameIs
  <2>8. stack'[1].node = stack[1].node
    BY <2>2, <2>5, <2>6
  <2>9. \A k \in 1 .. N - 1 : FrameInv(stack'[k])
    <3> SUFFICES ASSUME NEW k \in 1 .. N - 1  PROVE FrameInv(stack'[k])
      OBVIOUS
    <3>1. CASE k = N - 1
      BY <2>5, <2>6, <3>1
    <3>2. CASE k # N - 1
      <4>1. k \in 1 .. N - 2 /\ k \in 1 .. N
        BY <2>2, <3>2
      <4>2. stack'[k] = stack[k]
        BY <2>6, <4>1
      <4>3. FrameInv(stack[k])
        BY <4>1 DEF IInv, StackInv
      <4> QED BY <4>2, <4>3
    <3> QED BY <3>1, <3>2
  <2>10. \A k \in 1 .. N - 2 : Calls(stack'[k], stack'[k + 1])
    <3> SUFFICES ASSUME NEW k \in 1 .. N - 2  PROVE Calls(stack'[k], stack'[k + 1])
      OBVIOUS
    <3>1. k \in 1 .. N - 1 /\ stack'[k] = stack[k] /\ k + 1 \in 1 .. N - 1
      BY <2>2, <2>6
    <3>2. Calls(stack[k], stack[k + 1])
      BY <3>1 DEF IInv, StackInv
    <3>3. stack'[k + 1].node = stack[k + 1].node
      <4> DEFINE j == k + 1
      <4>1. j \in 1 .. N - 2 \/ j = N - 1
        BY <2>2
      <4> HIDE DEF j
      <4>2. stack'[j].node = stack[j].node
        BY <2>5, <2>6, <4>1
      <4> QED BY <4>2 DEF j
    <3> QED BY <3>1, <3>2, <3>3 DEF Calls
  <2>11. StackInv'
    <3>1. stack'[1].node.pos = root' /\ Last(stack').node.pos = game'
      BY <1>1, <2>5, <2>6, <2>7, <2>8 DEF IInv, StackInv
    <3>2. Top' = Last(stack')
      BY DEF Top
    <3>3. answer' = "none" /\ Len(stack') - 1 = N - 2
      BY <1>1, <2>1, <2>2, <2>6
    <3> QED BY <2>6, <2>9, <2>10, <3>1, <3>2, <3>3 DEF StackInv
  <2>12. BudgetInv'
    <3>1. \A k \in 1 .. N - 1 : stack'[k].node = stack[k].node
      <4>1. \A k \in 1 .. N - 1 : k \in 1 .. N - 2 \/ k = N - 1
        BY <2>2
      <4> HIDE DEF N, caller
      <4> QED BY <2>5, <2>6, <4>1 DEF caller
    <3>2. ASSUME NEW k \in 1 .. N - 1
          PROVE  k + Height[stack'[k].node.pos] <= Height[root] + 1
      <4>1. k \in 1 .. N
        BY <2>2
      <4>2. k + Height[stack[k].node.pos] <= Height[root] + 1
        BY <1>2, <4>1
      <4> QED BY <3>1, <4>2
    <3>3. ASSUME conf.simControl = "nodes"
          PROVE  TT'.count + (N - 1) <= SimCount + Height[root]
      <4>1. TT.count + N <= SimCount + Height[root]
        BY <1>2, <3>3
      <4>2. TT'.count <= TT.count + 1 /\ TT'.count \in Nat /\ SimCount + Height[root] \in Nat
        BY <1>2
      <4> HIDE DEF N
      <4> QED BY <2>2, <4>1, <4>2
    <3>4. conf' = conf /\ root' = root /\ Len(stack') = N - 1
      BY <2>6
    <3> QED BY <1>2, <3>2, <3>3, <3>4 DEF BudgetInv, OverrunIsBounded
  <2> QED BY <1>1, <1>2, <2>1, <2>11, <2>12 DEF AnswerInv
<1> QED BY <1>3, <1>4

-----------------------------------------------------------------------------
(* The steps *)

LEMMA InitInv == Init => IInv
<1> SUFFICES ASSUME Init PROVE IInv
  OBVIOUS
<1>1. root \in Position /\ Height[root] \in Nat \ {0} /\ SimCount \in Nat
  BY GameIs, ConfigAssumption DEF Init
<1>2. /\ Len(stack) = 0 /\ stack \in Seq(Range(stack)) /\ stack = <<>>
      /\ answer = "UNKNOWN"
  BY EmptySeq DEF Init
<1>3. StackInv
  BY <1>2 DEF StackInv
<1>4. TableInv
  BY EmptyTableOK DEF Init, TableInv
<1>5. BudgetInv
  <2>1. TT.count = 0 /\ conf \in Configs
    BY DEF Init, EmptyTable
  <2> QED BY <1>1, <1>2, <2>1 DEF BudgetInv, OverrunIsBounded
<1> QED BY <1>2, <1>3, <1>4, <1>5 DEF IInv, AnswerInv, Init

LEMMA SolveInv ==
  ASSUME IInv, Solve
  PROVE  IInv'
<1>1. PICK p \in Problem :
        /\ root' = p /\ game' = p
        /\ stack' = <<Frame(Node(p, "UNKNOWN", 0, 0), Inf, Inf)>>
  BY DEF Solve
<1> DEFINE f == Frame(Node(p, "UNKNOWN", 0, 0), Inf, Inf)
<1>2. p \in Position /\ Height[p] \in Nat \ {0} /\ SimCount \in Nat
  BY GameIs, ConfigAssumption
<1>3. f.node.pos = p /\ FrameInv(f)
  BY <1>2 DEF Frame, Node, FrameInv, Marked, Expanded
<1> HIDE DEF f
<1>4. /\ stack' \in Seq(Range(stack')) /\ stack' # <<>> /\ Len(stack') = 1
      /\ stack'[1] = f /\ Last(stack') = f
  <2>1. stack' = <<f>>
    BY <1>1 DEF f
  <2>2. <<f>> \in Seq({f})
    OBVIOUS
  <2>3. <<f>> \in Seq(Range(<<f>>))
    BY <2>2, OwnRange
  <2> QED BY <2>1, <2>3 DEF Last
<1>5. answer' = "none" /\ TT' = EmptyTable /\ conf' = conf
  BY DEF Solve
<1>6. StackInv'
  <2>1. Top' = f
    BY <1>4 DEF Top
  <2> QED BY <1>1, <1>3, <1>4, <1>5, <2>1 DEF StackInv
<1>7. TableInv'
  BY <1>5, EmptyTableOK DEF TableInv, TableOK, Used
<1>8. BudgetInv'
  <2>1. TT'.count = 0 /\ conf' \in Configs
    BY <1>5 DEF EmptyTable, IInv, BudgetInv
  <2>2. \A k \in 1 .. Len(stack') : k + Height[stack'[k].node.pos] <= Height[root'] + 1
    BY <1>1, <1>2, <1>3, <1>4
  <2>3. TT'.count + Len(stack') <= SimCount + Height[root']
    BY <1>1, <1>2, <1>4, <2>1
  <2> QED BY <2>1, <2>2, <2>3 DEF BudgetInv, OverrunIsBounded
<1> QED BY <1>1, <1>5, <1>6, <1>7, <1>8 DEF IInv, AnswerInv

\* A terminal position is marked as the rules say.
LEMMA MIDTerminalInv ==
  ASSUME IInv, MIDTerminal
  PROVE  IInv' /\ \A i \in Used(TT) : Found(TT', TT.entry[i].key)
<1> DEFINE s == TerminalStatus(game)
           n == IF s = "WIN" THEN Node(game, s, Inf, 0) ELSE Node(game, s, 0, Inf)
<1>1. /\ stack # <<>> /\ game \in Terminal /\ ~isFull(TT)
      /\ TT' = store(TT, Key[game], Data(n))
      /\ Return(n) /\ UNCHANGED <<conf, root>>
  BY DEF MIDTerminal
<1>2. game \in Position
  BY <1>1, TopIs
<1>3. n.pos = game /\ Marked(n)
  <2>1. s = Outcome[game]
    BY <1>1, <1>2, OutcomeIs
  <2>2. n.pos = game /\ n.status = s
    BY DEF Node
  <2> QED BY <2>1, <2>2 DEF Marked
<1> HIDE DEF n
<1>4. /\ TableInv' /\ TT.count \in Nat
      /\ TT'.count \in {TT.count, TT.count + 1}
      /\ \A i \in Used(TT) : Found(TT', TT.entry[i].key)
  BY <1>1, <1>2, <1>3, WrittenTable
<1>5. StackInv' /\ AnswerInv' /\ BudgetInv'
  BY <1>1, <1>3, <1>4, ReturnInv
<1> QED BY <1>4, <1>5 DEF IInv

LEMMA MIDReturnInv ==
  ASSUME IInv, MIDReturn
  PROVE  IInv' /\ \A i \in Used(TT) : Found(TT', TT.entry[i].key)
<1> DEFINE n == UpdatedNode(Top)
<1>1. /\ stack # <<>> /\ Expanded(Top)
      /\ Found(TT, Key[game]) \/ ~isFull(TT)
      /\ TT' = Saved(n)
      /\ Return(n) /\ UNCHANGED <<conf, root>>
  BY DEF MIDReturn
<1>2. game \in Position /\ FrameInv(Top) /\ Top.node.pos = game
  BY <1>1, TopIs
<1>3. n.pos = game /\ Marked(n)
  BY <1>1, <1>2, UpdatedIsMarked
<1> HIDE DEF n
<1>4. \/ ~isFull(TT) /\ TT' = store(TT, Key[n.pos], Data(n))
      \/ Found(TT, Key[n.pos]) /\ TT' = Overwrite(TT, Key[n.pos], Data(n))
  BY <1>1, <1>3 DEF Saved
<1>5. /\ TableInv' /\ TT.count \in Nat
      /\ TT'.count \in {TT.count, TT.count + 1}
      /\ \A i \in Used(TT) : Found(TT', TT.entry[i].key)
  BY <1>2, <1>3, <1>4, WrittenTable
<1>6. StackInv' /\ AnswerInv' /\ BudgetInv'
  BY <1>1, <1>3, <1>5, ReturnInv
<1> QED BY <1>5, <1>6 DEF IInv

\* Every child gets its mark from the table, or none.
LEMMA ExpandInv ==
  ASSUME IInv, Expand
  PROVE  IInv'
<1>1. /\ stack # <<>> /\ game \notin Terminal
      /\ UNCHANGED <<conf, root, game, TT, answer>>
  BY DEF Expand
<1>2. PICK order \in SetToSeqs(Children[game]), new \in conf.numbers,
           ratio \in conf.ratios :
        stack' = [stack EXCEPT ![Len(stack)].ratio = ratio,
                               ![Len(stack)].children =
                    [i \in DOMAIN order |-> ChildNode(order[i], new)]]
  BY DEF Expand
<1> DEFINE N == Len(stack)
           ch == [i \in DOMAIN order |-> ChildNode(order[i], new)]
           f == [node |-> Top.node, pnThreshold |-> Top.pnThreshold,
                 dnThreshold |-> Top.dnThreshold, children |-> ch,
                 ratio |-> ratio, mpn |-> Top.mpn]
<1>3. /\ stack \in Seq(Range(stack)) /\ N \in Nat \ {0}
      /\ Top = stack[N] /\ FrameInv(Top)
      /\ Top.node.pos = game /\ game \in Position /\ answer = "none"
  BY <1>1, TopIs
<1>4. DOMAIN ch = DOMAIN order /\ {ch[i].pos : i \in DOMAIN ch} = Children[game]
      /\ (\A i \in DOMAIN ch : Marked(ch[i])) /\ ch # <<>>
  <2>1. /\ DOMAIN order = 1 .. Cardinality(Children[game])
        /\ {order[i] : i \in DOMAIN order} = Children[game]
    BY <1>3, OrderIs
  <2>2. \A i \in DOMAIN order : order[i] \in Position
    BY <1>3, <2>1, GameIs
  <2>3. \A i \in DOMAIN order : Marked(ch[i]) /\ ch[i].pos = order[i]
    BY <2>2, ChildIsMarked
  <2>4. Children[game] # {}
    BY <1>1, <1>3, GameAssumption
  <2> HIDE DEF ch
  <2>5. DOMAIN ch = DOMAIN order
    BY DEF ch
  <2>6. {ch[i].pos : i \in DOMAIN ch} = {order[i] : i \in DOMAIN order}
    BY <2>3, <2>5
  <2>7. ch # <<>>
    <3>1. PICK i \in DOMAIN order : order[i] \in Children[game]
      BY <2>1, <2>4
    <3> QED BY <2>5, <3>1
  <2> QED BY <2>1, <2>3, <2>5, <2>6, <2>7
<1>5. ch = [i \in DOMAIN ch |-> ch[i]]
  OBVIOUS
<1>6. stack' = [stack EXCEPT ![N] = f]
  <2>1. IsFrame(Top)
    BY <1>3 DEF FrameInv, IsFrame
  <2> HIDE DEF ch
  <2>2. stack' = [stack EXCEPT ![N] = Grown(Top, ratio, ch)]
    BY <1>2, <1>3 DEF ch, Grown
  <2>3. Grown(Top, ratio, ch) = f
    BY <2>1, FrameUpdates
  <2> QED BY <2>2, <2>3
<1> HIDE DEF ch
<1>7. f.node = Top.node /\ f.children = ch /\ FrameInv(f)
  <2>1. /\ f = [node |-> f.node, pnThreshold |-> f.pnThreshold,
                dnThreshold |-> f.dnThreshold, children |-> f.children,
                ratio |-> f.ratio, mpn |-> f.mpn]
        /\ f.node = Top.node /\ f.children = ch
    OBVIOUS
  <2> HIDE DEF f
  <2>2. f.node.pos = game /\ Marked(f.node)
    BY <1>3, <2>1 DEF FrameInv
  <2> QED BY <1>1, <1>3, <1>4, <1>5, <2>1, <2>2 DEF FrameInv
<1> HIDE DEF f
<1>8. /\ stack' \in Seq(Range(stack')) /\ Len(stack') = N /\ stack' # <<>>
      /\ stack'[N] = f /\ Last(stack') = f
      /\ \A k \in 1 .. N - 1 : stack'[k] = stack[k]
      /\ \A k \in 1 .. N : stack'[k].node = stack[k].node
  <2> DEFINE S == Range(stack) \cup {f}
  <2>1. stack \in Seq(S)
    BY <1>3, SeqMonotonic
  <2>2. /\ stack' \in Seq(S) /\ Len(stack') = N
        /\ \A j \in 1 .. N : stack'[j] = IF j = N THEN f ELSE stack[j]
    BY <1>3, <1>6, <2>1, ExceptSeq
  <2>3. stack' \in Seq(Range(stack'))
    BY <2>2, OwnRange
  <2> QED BY <1>3, <1>7, <2>2, <2>3 DEF Last
<1>9. StackInv'
  <2>1. /\ stack'[1].node.pos = root' /\ Last(stack').node.pos = game'
        /\ answer' = "none"
    BY <1>1, <1>3, <1>7, <1>8 DEF IInv, StackInv
  <2>2. Top' = Last(stack')
    BY DEF Top
  <2>3. \A k \in 1 .. N : FrameInv(stack'[k])
    BY <1>3, <1>7, <1>8 DEF IInv, StackInv
  <2>4. ASSUME NEW k \in 1 .. N - 1  PROVE Calls(stack'[k], stack'[k + 1])
    <3>1. stack'[k] = stack[k] /\ stack'[k + 1].node = stack[k + 1].node
      BY <1>3, <1>8
    <3>2. Calls(stack[k], stack[k + 1])
      BY DEF IInv, StackInv
    <3> QED BY <3>1, <3>2 DEF Calls
  <2> QED BY <1>8, <2>1, <2>2, <2>3, <2>4 DEF StackInv
<1>10. TableInv' /\ AnswerInv'
  BY <1>1 DEF IInv, TableInv, AnswerInv, TableOK, Used
<1>11. BudgetInv'
  BY <1>1, <1>8 DEF IInv, BudgetInv, OverrunIsBounded
<1> QED BY <1>9, <1>10, <1>11 DEF IInv

\* A call goes one move on; in a search of SimCount entries it is made while
\* there is room.
LEMMA MIDChildInv ==
  ASSUME IInv, MIDChild
  PROVE  IInv'
<1> DEFINE n == UpdatedNode(Top)
           N == Len(stack)
<1>1. /\ stack # <<>> /\ Expanded(Top) /\ ~isExpansionEnd
      /\ UNCHANGED <<conf, root, TT, answer>>
  BY DEF MIDChild
<1>2. PICK m \in DOMAIN Top.children :
        LET child == Top.children[m]
            second == Least({Top.children[i].dn : i \in Range(Focus(Top)) \ {m}})
        IN  /\ game' = child.pos
            /\ stack' = Append(Append(Front(stack), [Top EXCEPT !.node = n, !.mpn = m]),
                               Frame(child, NextPNThreshold(Top, n, child),
                                            NextDNThreshold(Top, second)))
  BY DEF MIDChild
<1> DEFINE child == Top.children[m]
           second == Least({Top.children[i].dn : i \in Range(Focus(Top)) \ {m}})
           f == Calling(Top, n, m)
           pt == NextPNThreshold(Top, n, child)
           dt == NextDNThreshold(Top, second)
           g == Frame(child, pt, dt)
<1>3. /\ stack \in Seq(Range(stack)) /\ N \in Nat \ {0}
      /\ Top = stack[N] /\ FrameInv(Top)
      /\ Top.node.pos = game /\ game \in Position /\ answer = "none"
  BY <1>1, TopIs
<1>4. n.pos = game /\ Marked(n)
  BY <1>1, <1>3, UpdatedIsMarked
<1>5. /\ game \notin Terminal /\ child.pos \in Children[game] /\ Marked(child)
      /\ child.pos \in Position /\ Height[child.pos] < Height[game]
      /\ Height[child.pos] \in Nat \ {0} /\ Height[game] \in Nat \ {0}
  <2>1. game \notin Terminal /\ child.pos \in Children[game] /\ Marked(child)
    BY <1>1, <1>3 DEF FrameInv
  <2> QED BY <1>3, <2>1, GameIs, FiniteHeight
<1>6. stack' = PushedStack(stack, f, g) /\ game' = child.pos
  BY <1>2 DEF PushedStack, Calling
<1> HIDE DEF n, second, pt, dt
<1>7. f.node = n /\ f.children = Top.children /\ f.mpn = m /\ FrameInv(f)
  <2>1. IsFrame(Top)
    BY <1>3 DEF FrameInv, IsFrame
  <2>2. f = [node |-> n, pnThreshold |-> Top.pnThreshold,
             dnThreshold |-> Top.dnThreshold, children |-> Top.children,
             ratio |-> Top.ratio, mpn |-> m]
    BY <2>1, FrameUpdates
  <2>3. /\ f.node = n /\ f.children = Top.children /\ f.mpn = m
        /\ f = [node |-> f.node, pnThreshold |-> f.pnThreshold,
                dnThreshold |-> f.dnThreshold, children |-> f.children,
                ratio |-> f.ratio, mpn |-> f.mpn]
    BY <2>2
  <2> HIDE DEF f
  <2>4. f.node.pos = Top.node.pos /\ Marked(f.node)
    BY <1>3, <1>4, <2>3
  <2>5. f.children # <<>> => Expanded(Top)
    BY <2>3 DEF Expanded
  <2>6. /\ f.children = [i \in DOMAIN f.children |-> f.children[i]]
        /\ \A i \in DOMAIN f.children : Marked(f.children[i])
        /\ f.node.pos \in Position
    BY <1>3, <2>3, <2>4 DEF FrameInv
  <2>7. Expanded(f) => /\ f.node.pos \notin Terminal
                       /\ {f.children[i].pos : i \in DOMAIN f.children} = Children[f.node.pos]
    BY <1>3, <2>3, <2>4, <2>5 DEF FrameInv, Expanded
  <2> QED BY <2>3, <2>4, <2>6, <2>7 DEF FrameInv
<1>8. g.node = child /\ FrameInv(g)
  <2> HIDE DEF child
  <2> QED BY <1>5 DEF Frame, FrameInv, Expanded
<1>9. Calls(f, g)
  BY <1>7, <1>8 DEF Calls
<1> HIDE DEF f, g
<1>10. /\ stack' \in Seq(Range(stack')) /\ stack' # <<>> /\ Len(stack') = N + 1
       /\ stack'[N] = f /\ stack'[N + 1] = g /\ Last(stack') = g
       /\ \A k \in 1 .. N - 1 : stack'[k] = stack[k]
  <2> DEFINE t == PushedStack(stack, f, g)
  <2>1. /\ t \in Seq(Range(t)) /\ t # <<>> /\ Len(t) = N + 1
        /\ t[N] = f /\ t[N + 1] = g /\ Last(t) = g
        /\ \A k \in 1 .. N - 1 : t[k] = stack[k]
    BY <1>1, <1>3, Pushed
  <2> QED BY <1>6, <2>1
<1>11. \A k \in 1 .. N : stack'[k].node.pos = stack[k].node.pos
  BY <1>3, <1>4, <1>7, <1>10
<1>12. StackInv'
  <2>1. /\ stack'[1].node.pos = root' /\ Last(stack').node.pos = game'
        /\ answer' = "none"
    BY <1>1, <1>3, <1>6, <1>8, <1>10, <1>11 DEF IInv, StackInv
  <2>2. Top' = Last(stack')
    BY DEF Top
  <2>3. \A k \in 1 .. N + 1 : FrameInv(stack'[k])
    <3> SUFFICES ASSUME NEW k \in 1 .. N + 1  PROVE FrameInv(stack'[k])
      OBVIOUS
    <3>1. k = N + 1 \/ k = N \/ (k \in 1 .. N - 1 /\ k \in 1 .. N)
      BY <1>3
    <3>2. CASE k \in 1 .. N - 1 /\ k \in 1 .. N
      <4>1. stack'[k] = stack[k]
        BY <1>10, <3>2
      <4>2. FrameInv(stack[k])
        BY <3>2 DEF IInv, StackInv
      <4> QED BY <4>1, <4>2
    <3> QED BY <1>7, <1>8, <1>10, <3>1, <3>2
  <2>4. ASSUME NEW k \in 1 .. N  PROVE Calls(stack'[k], stack'[k + 1])
    <3>1. CASE k = N
      BY <1>9, <1>10, <3>1
    <3>2. CASE k # N
      <4>1. k \in 1 .. N - 1 /\ k + 1 \in 1 .. N
        BY <1>3, <3>2
      <4>2. Calls(stack[k], stack[k + 1])
        BY <4>1 DEF IInv, StackInv
      <4>3. stack'[k] = stack[k] /\ stack'[k + 1].node.pos = stack[k + 1].node.pos
        BY <1>10, <1>11, <4>1
      <4> QED BY <4>2, <4>3 DEF Calls
    <3> QED BY <3>1, <3>2
  <2>5. Len(stack') - 1 = N
    BY <1>3, <1>10
  <2> QED BY <1>10, <2>1, <2>2, <2>3, <2>4, <2>5 DEF StackInv
<1>13. TableInv' /\ AnswerInv'
  BY <1>1 DEF IInv, TableInv, AnswerInv, TableOK, Used
<1>14. BudgetInv'
  <2>1. /\ \A k \in 1 .. N : k + Height[stack[k].node.pos] <= Height[root] + 1
        /\ conf' = conf /\ conf \in Configs /\ root' = root /\ TT' = TT
        /\ Height[root] \in Nat /\ SimCount \in Nat
    BY <1>1, GameIs, ConfigAssumption DEF IInv, BudgetInv, AnswerInv
  <2>2. N + Height[game] <= Height[root] + 1
    BY <1>3, <2>1
  <2>3. N + 1 + Height[child.pos] <= Height[root] + 1
    <3>1. /\ N \in Nat /\ Height[child.pos] \in Nat /\ Height[root] \in Nat
          /\ Height[game] \in Nat /\ Height[child.pos] < Height[game]
      BY <1>3, <1>5, <2>1
    <3> HIDE DEF N, child
    <3> QED BY <2>2, <3>1
  <2>4. ASSUME NEW k \in 1 .. N + 1
        PROVE  k + Height[stack'[k].node.pos] <= Height[root] + 1
    <3>1. CASE k = N + 1
      BY <1>8, <1>10, <2>3, <3>1
    <3>2. CASE k # N + 1
      <4>1. k \in 1 .. N
        BY <1>3, <3>2
      <4> QED BY <1>11, <2>1, <4>1
    <3> QED BY <3>1, <3>2
  <2>5. ASSUME conf.simControl = "nodes"
        PROVE  TT.count + (N + 1) <= SimCount + Height[root]
    <3>1. ~(TT.count >= SimCount)
      BY <1>1, <2>5 DEF isExpansionEnd
    <3>2. TT.count \in Nat
      BY CountIsNat
    <3>3. /\ N \in Nat /\ Height[child.pos] \in Nat \ {0} /\ SimCount \in Nat
          /\ Height[root] \in Nat
      BY <1>3, <1>5, <2>1
    <3> HIDE DEF N, child
    <3>4. N + 1 <= Height[root]
      BY <2>3, <3>3
    <3> QED BY <3>1, <3>2, <3>3, <3>4
  <2> QED BY <1>10, <2>1, <2>4, <2>5 DEF BudgetInv, OverrunIsBounded
<1> QED BY <1>12, <1>13, <1>14 DEF IInv

\* What every step keeps, and what it leaves in the table.
LEMMA NextInv ==
  ASSUME IInv, [Next]_vars
  PROVE  /\ IInv'
         /\ answer # "none" \/ \A i \in Used(TT) : Found(TT', TT.entry[i].key)
<1>1. TT' = TT => \A i \in Used(TT) : Found(TT', TT.entry[i].key)
  BY DEF IInv, TableInv, TableOK
<1>2. CASE UNCHANGED <<conf, root, game, stack, TT, answer>>
  BY <1>1, <1>2 DEF IInv, StackInv, TableInv, AnswerInv, BudgetInv, TableOK, Used,
                    Top, OverrunIsBounded
<1>3. CASE Solve
  BY <1>3, SolveInv DEF Solve
<1>4. CASE MIDTerminal
  BY <1>4, MIDTerminalInv
<1>5. CASE Expand
  BY <1>1, <1>5, ExpandInv DEF Expand
<1>6. CASE MIDReturn
  BY <1>6, MIDReturnInv
<1>7. CASE MIDChild
  BY <1>1, <1>7, MIDChildInv DEF MIDChild
<1> QED BY <1>2, <1>3, <1>4, <1>5, <1>6, <1>7 DEF Next, MID, TimeUp, vars

-----------------------------------------------------------------------------
(* The theorems *)

\* No call of MID, return, or write to the table leaves the invariant.
THEOREM Invariance == Spec => []IInv
<1>1. IInv /\ [Next]_vars => IInv'
  BY NextInv
<1> QED BY <1>1, InitInv, PTL DEF Spec

\* Every mark the search gives a child is the child's true outcome, whichever
\* call proved it, in whichever order and within whatever limit of children
\* (updateSolutionStatus, getPNDNfromTT).
THEOREM MarksCorrect == Spec => []MarksAreOutcomes
<1>1. IInv => MarksAreOutcomes
  <2> SUFFICES ASSUME IInv, NEW f \in Range(stack), NEW c \in Range(f.children)
               PROVE  c.status \in {"UNKNOWN", Outcome[c.pos]}
    BY DEF MarksAreOutcomes
  <2>1. PICK k \in DOMAIN stack : f = stack[k]
    BY DEF Range
  <2>2. DOMAIN stack = 1 .. Len(stack)
    BY LenProperties DEF IInv, StackInv
  <2>3. FrameInv(f)
    BY <2>1, <2>2 DEF IInv, StackInv
  <2> QED BY <2>3 DEF FrameInv, Marked, Range
<1> QED BY <1>1, Invariance, PTL

\* A search of SimCount entries overruns its budget by less than the moves the
\* game had left (isExpansionEnd).
THEOREM BudgetKept == Spec => []OverrunIsBounded
<1>1. IInv => OverrunIsBounded
  BY DEF IInv, BudgetInv
<1> QED BY <1>1, Invariance, PTL

\* Whatever is stored behind an entry, and whoever shares its way through the
\* table, lookup finds its key until the next search clears the table.
THEOREM EntriesKept == Spec => EntriesStayFound
<1>1. IInv /\ [Next]_vars =>
        [answer # "none" \/ \A e \in Entries(TT) : Found(TT', e.key)]_vars
  BY NextInv DEF Entries, Used
<1> QED BY <1>1, Invariance, PTL DEF Spec, EntriesStayFound

LEMMA PromiseOutcome ==
  /\ Promise!Outcome = Outcome
  /\ \A s : Promise!ReverseStatus(s) = ReverseStatus(s)
<1>1. \A p : Promise!TerminalStatus(p) = TerminalStatus(p)
  BY DEF TerminalStatus, Promise!TerminalStatus
<1>2. \A s : Promise!ReverseStatus(s) = ReverseStatus(s)
  BY DEF ReverseStatus, Promise!ReverseStatus
<1>3. Promise!Outcome = Outcome
  BY <1>1 DEF Outcome, Promise!Outcome
<1> QED BY <1>2, <1>3

\* The solver implements the promise of solvers: each problem is answered once,
\* with its outcome or UNKNOWN (solve, saveAnswer).
THEOREM Implementation == Spec => ImplementsPromise
<1>1. Init => Promise!Init
  BY DEF Init, Promise!Init
<1>2. IInv /\ IInv' /\ [Next]_vars => [Promise!Next]_(Promise!vars)
  <2> SUFFICES ASSUME IInv, IInv', [Next]_vars
               PROVE  [Promise!Next]_(Promise!vars)
    OBVIOUS
  <2>1. CASE Solve
    <3>1. answer # "none" /\ answer' = "none" /\ root' \in Problem
      BY <2>1 DEF Solve
    <3> QED BY <3>1 DEF Promise!Next, Promise!Ask
  <2>2. CASE UNCHANGED <<root, answer>>
    BY <2>2 DEF Promise!vars
  <2>3. CASE MIDTerminal \/ MIDReturn
    <3>1. stack # <<>> /\ answer = "none" /\ root' = root
      BY <2>3 DEF MIDTerminal, MIDReturn, IInv, StackInv
    <3>2. PICK n : Return(n)
      BY <2>3 DEF MIDTerminal, MIDReturn
    <3>3. CASE Len(stack) = 1
      <4>1. stack' = <<>>
        BY <3>2, <3>3 DEF Return
      <4>2. answer' # "none"
        BY <4>1 DEF IInv, StackInv
      <4>3. answer' \in {"UNKNOWN", ReverseStatus(Outcome[root])}
        BY <3>1, <4>2 DEF IInv, AnswerInv
      <4> QED BY <3>1, <4>3, PromiseOutcome DEF Promise!Next, Promise!Answer
    <3>4. CASE Len(stack) # 1
      BY <2>2, <3>1, <3>2, <3>4 DEF Return
    <3> QED BY <3>3, <3>4
  <2> QED BY <2>1, <2>2, <2>3 DEF Next, MID, vars, TimeUp, Expand, MIDChild
<1> QED BY <1>1, <1>2, Invariance, PTL DEF Spec, ImplementsPromise, Promise!Spec

===============================================================================
