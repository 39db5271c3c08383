-------------------------- MODULE GoHashTableProofs ---------------------------
(***************************************************************************)
(* For every table size and any keys and home slots: the game's table of   *)
(* positions, used as a stack as play and undo use it, finds exactly the   *)
(* positions stored and not erased, though erase leaves holes in probe     *)
(* chains and stale keys in the entries.                                   *)
(***************************************************************************)
EXTENDS GoHashTable, FiniteSetTheorems, WellFoundedInduction, TLAPS

Stored(line, key) == \E i \in DOMAIN line : line[i] = key

-----------------------------------------------------------------------------
(* Arithmetic and probes *)

LEMMA MinIs ==
  ASSUME NEW S, S \subseteq Nat, S # {}
  PROVE  Min(S) \in S /\ \A y \in S : Min(S) <= y
<1>1. PICK x \in S : \A y \in S : ~(<<y, x>> \in OpToRel(<, Nat))
  BY NatLessThanWellFounded, WFMin
<1>2. \A y \in S : ~(y < x)
  BY <1>1 DEF OpToRel
<1>3. \A y \in S : x <= y
  BY <1>2
<1> QED BY <1>3 DEF Min

LEMMA ModIs ==
  ASSUME NEW T \in Nat \ {0}, NEW a \in 0 .. T - 1
  PROVE  a % T = a /\ (a + T) % T = a
OBVIOUS

\* The probe for a key stays in the table and reaches all of it.
LEMMA ProbeIs ==
  ASSUME NEW key, IsKey(key)
  PROVE  /\ \A d \in Slot : Probe(key, d) \in Slot
         /\ \A s \in Slot : \E d \in Slot : Probe(key, d) = s
<1> DEFINE h == Home(key)
<1>1. TableSize \in Nat \ {0} /\ h \in 0 .. TableSize - 1
  BY TableAssumption DEF Slot, IsKey
<1>2. ASSUME NEW d \in Slot
      PROVE  Probe(key, d) = IF h + d < TableSize THEN h + d ELSE h + d - TableSize
  <2>0. Probe(key, d) = (h + d) % TableSize
    BY DEF Probe
  <2> HIDE DEF h
  <2>1. CASE h + d < TableSize
    <3>1. h + d \in 0 .. TableSize - 1
      BY <1>1, <2>1 DEF Slot
    <3>2. (h + d) % TableSize = h + d
      BY <1>1, <3>1, ModIs
    <3> QED BY <2>0, <2>1, <3>2
  <2>2. CASE ~(h + d < TableSize)
    <3> DEFINE a == h + d - TableSize
    <3>1. a \in 0 .. TableSize - 1 /\ a + TableSize = h + d
      BY <1>1, <2>2 DEF Slot
    <3>2. (a + TableSize) % TableSize = a
      BY <1>1, <3>1, ModIs
    <3> QED BY <2>0, <2>2, <3>1, <3>2
  <2> QED BY <2>1, <2>2
<1> HIDE DEF h
<1>3. \A d \in Slot : Probe(key, d) \in Slot
  BY <1>1, <1>2 DEF Slot
<1>4. ASSUME NEW s \in Slot  PROVE \E d \in Slot : Probe(key, d) = s
  <2>1. CASE s >= h
    <3>1. s - h \in Slot /\ h + (s - h) = s /\ s < TableSize
      BY <1>1, <2>1 DEF Slot
    <3> QED BY <1>2, <3>1
  <2>2. CASE ~(s >= h)
    <3> DEFINE d == s - h + TableSize
    <3>1. d \in Slot /\ h + d - TableSize = s /\ ~(h + d < TableSize)
      BY <1>1, <2>2 DEF Slot
    <3> HIDE DEF d
    <3> QED BY <1>2, <3>1
  <2> QED BY <2>1, <2>2
<1> QED BY <1>3, <1>4

\* A probe that can stop stops at the first such slot.
LEMMA DistanceIs ==
  ASSUME NEW table, NEW key, NEW values, NEW d \in Slot,
         table[Probe(key, d)] \in values
  PROVE  /\ Distance(table, key, values) \in Slot
         /\ table[Probe(key, Distance(table, key, values))] \in values
         /\ Distance(table, key, values) <= d
         /\ \A e \in Slot : e < Distance(table, key, values) =>
              table[Probe(key, e)] \notin values
<1> DEFINE S == {e \in Slot : table[Probe(key, e)] \in values}
<1>1. S \subseteq Nat /\ S # {} /\ d \in S
  BY TableAssumption DEF Slot
<1>2. Min(S) \in S /\ \A y \in S : Min(S) <= y
  BY <1>1, MinIs
<1>3. Distance(table, key, values) = Min(S)
  BY DEF Distance
<1>4. \A e \in Slot : e < Min(S) => e \notin S
  BY <1>1, <1>2 DEF Slot
<1> QED BY <1>1, <1>2, <1>3, <1>4

\* ... and the first slot with a property is known by it.
LEMMA DistanceAt ==
  ASSUME NEW table, NEW key, NEW values, NEW d \in Slot,
         table[Probe(key, d)] \in values,
         \A e \in Slot : e < d => table[Probe(key, e)] \notin values
  PROVE  Distance(table, key, values) = d
<1> DEFINE D == Distance(table, key, values)
<1>1. D \in Slot /\ table[Probe(key, D)] \in values /\ D <= d
  BY DistanceIs
<1> HIDE DEF D
<1>2. ~(D < d)
  BY <1>1
<1> QED BY <1>1, <1>2 DEF D, Slot

-----------------------------------------------------------------------------
(* lookup *)

\* The table always has a free slot.
LEMMA FreeSlot ==
  ASSUME NEW table, NEW line, Stack(table, line)
  PROVE  \E s \in Slot : table[s] = Free
<1> SUFFICES ASSUME \A s \in Slot : table[s] # Free
             PROVE  FALSE
  OBVIOUS
<1> DEFINE D == DOMAIN line
           f == [s \in Slot |-> CHOOSE i \in D : table[s] = line[i]]
<1>1. \A s \in Slot : f[s] \in D /\ line[f[s]] = table[s]
  BY DEF Stack
<1>2. \A s, t \in Slot : f[s] = f[t] => s = t
  BY <1>1 DEF Stack
<1>3. f \in Injection(Slot, D)
  BY <1>1, <1>2 DEF Injection, IsInjective
<1>4. D = 1 .. Len(line) /\ Len(line) \in Nat /\ Len(line) < TableSize
  BY DEF Stack
<1>5. IsFiniteSet(D) /\ Cardinality(D) = Len(line)
  <2>1. /\ IsFiniteSet(1 .. Len(line))
        /\ Cardinality(1 .. Len(line)) = IF 1 > Len(line) THEN 0 ELSE Len(line) - 1 + 1
    BY <1>4, FS_Interval
  <2> QED BY <1>4, <2>1
<1>6. Cardinality(Slot) = TableSize
  BY TableAssumption, FS_Interval DEF Slot
<1>7. Cardinality(Slot) <= Cardinality(D)
  BY <1>3, <1>5, FS_Injection
<1> QED BY <1>4, <1>5, <1>6, <1>7, TableAssumption

\* Before it meets the position the probe meets neither a free slot nor the position.
LEMMA OnTheWay ==
  ASSUME NEW table, NEW line, Stack(table, line), NEW i \in DOMAIN line, NEW d \in Slot,
         ReachedAt(table, line, i, d), NEW e \in Slot, e < d
  PROVE  table[Probe(line[i], e)] # line[i] /\ table[Probe(line[i], e)] # Free
<1>1. PICK j \in DOMAIN line : j < i /\ table[Probe(line[i], e)] = line[j]
  BY DEF ReachedAt
<1>2. line[j] # line[i]
  BY <1>1 DEF Stack
<1>3. line[j] # Free
  BY DEF Stack, IsKey
<1> QED BY <1>1, <1>2, <1>3

\* The superko rule asks lookup (isLegalMove): it finds the positions of the line and
\* no other, whatever was erased out of the middle of their probe chains.
THEOREM LookupIsExact ==
  ASSUME NEW table, NEW line, Stack(table, line), NEW key, IsKey(key)
  PROVE  lookup(table, key) <=> Stored(line, key)
<1>1. CASE Stored(line, key)
  <2>1. PICK i \in DOMAIN line : line[i] = key
    BY <1>1 DEF Stored
  <2>2. PICK d \in Slot : ReachedAt(table, line, i, d)
    BY DEF Stack
  <2>3. table[Probe(key, d)] = key
    BY <2>1, <2>2 DEF ReachedAt
  <2>4. \A e \in Slot : e < d => table[Probe(key, e)] \notin {key, Free}
    BY <2>1, <2>2, OnTheWay
  <2>5. Distance(table, key, {key, Free}) = d
    BY <2>3, <2>4, DistanceAt
  <2> QED BY <1>1, <2>3, <2>5 DEF lookup
<1>2. CASE ~Stored(line, key)
  <2>1. PICK s \in Slot : table[s] = Free
    BY FreeSlot
  <2>2. PICK d \in Slot : Probe(key, d) = s
    BY ProbeIs
  <2>3. Distance(table, key, {key, Free}) \in Slot
    BY <2>1, <2>2, DistanceIs
  <2>4. Probe(key, Distance(table, key, {key, Free})) \in Slot
    BY <2>3, ProbeIs
  <2>5. \A t \in Slot : table[t] # key
    BY <1>2 DEF Stack, IsKey, Stored
  <2> QED BY <1>2, <2>4, <2>5 DEF lookup
<1> QED BY <1>1, <1>2

-----------------------------------------------------------------------------
(* store and erase *)

\* store takes a free slot, all slots before it being taken.
LEMMA StoreIs ==
  ASSUME NEW table, NEW line, Stack(table, line), NEW key, IsKey(key)
  PROVE  \E d \in Slot :
           /\ Probe(key, d) \in Slot
           /\ table[Probe(key, d)] = Free
           /\ \A e \in Slot : e < d => table[Probe(key, e)] # Free
           /\ store(table, key) = [table EXCEPT ![Probe(key, d)] = key]
<1>1. PICK s \in Slot : table[s] = Free
  BY FreeSlot
<1>2. PICK c \in Slot : Probe(key, c) = s
  BY ProbeIs
<1>3. PICK d \in Slot : d = Distance(table, key, {Free})
  BY <1>1, <1>2, DistanceIs
<1>4. table[Probe(key, d)] = Free /\ \A e \in Slot : e < d => table[Probe(key, e)] # Free
  BY <1>1, <1>2, <1>3, DistanceIs
<1>5. Probe(key, d) \in Slot
  BY ProbeIs
<1> QED BY <1>3, <1>4, <1>5 DEF store

\* A move's position, which lookup does not find, joins the table (play).
THEOREM StoreKeepsStack ==
  ASSUME NEW table, NEW S, NEW line \in Seq(S), Stack(table, line), NEW key \in S, IsKey(key),
         ~lookup(table, key), Len(line) + 1 < TableSize
  PROVE  Stack(store(table, key), Append(line, key))
<1> DEFINE n == Len(line)
           new == store(table, key)
           longer == Append(line, key)
<1>1. \A i \in DOMAIN line : line[i] # key
  BY LookupIsExact DEF Stored
<1>2. PICK d \in Slot :
        /\ Probe(key, d) \in Slot
        /\ table[Probe(key, d)] = Free
        /\ \A e \in Slot : e < d => table[Probe(key, e)] # Free
        /\ new = [table EXCEPT ![Probe(key, d)] = key]
  BY StoreIs
<1>3. PICK s \in Slot : s = Probe(key, d)
  BY <1>2
<1>4. /\ Len(longer) = n + 1 /\ DOMAIN longer = 1 .. n + 1 /\ longer[n + 1] = key
      /\ \A i \in DOMAIN line : i \in DOMAIN longer /\ longer[i] = line[i]
  OBVIOUS
<1>5. /\ n \in Nat /\ DOMAIN line = 1 .. n /\ n + 1 < TableSize
      /\ \A k \in DOMAIN longer : k = n + 1 \/ k \in DOMAIN line
      /\ \A k \in DOMAIN line : k < n + 1 /\ k \in Nat
  BY <1>4 DEF Stack
<1>6. /\ DOMAIN new = Slot /\ new = [t \in Slot |-> new[t]]
      /\ table[s] = Free /\ new[s] = key /\ \A t \in Slot : t # s => new[t] = table[t]
  BY <1>2, <1>3 DEF Stack
<1> HIDE DEF n, new, longer
<1>7. key # Free
  BY DEF IsKey
<1>8. \A i \in DOMAIN longer : IsKey(longer[i])
  BY <1>4, <1>5 DEF Stack
<1>9. \A i, j \in DOMAIN longer : longer[i] = longer[j] => i = j
  BY <1>1, <1>4, <1>5 DEF Stack
<1>10. \A t \in Slot : new[t] = Free \/ \E i \in DOMAIN longer : new[t] = longer[i]
  <2>1. n + 1 \in DOMAIN longer
    BY <1>4, <1>5
  <2> QED BY <1>4, <1>6, <2>1 DEF Stack
<1>11. \A t, u \in Slot : new[t] = new[u] /\ new[t] # Free => t = u
  <2>1. \A t \in Slot : table[t] # key
    BY <1>1, <1>7 DEF Stack
  <2> QED BY <1>6, <2>1 DEF Stack
<1>12. ASSUME NEW i \in DOMAIN longer
       PROVE  \E c \in Slot : ReachedAt(new, longer, i, c)
  <2>1. CASE i \in DOMAIN line
    <3>1. PICK c \in Slot : ReachedAt(table, line, i, c)
      BY <2>1 DEF Stack
    <3>2. longer[i] = line[i] /\ IsKey(line[i])
      BY <1>4, <2>1 DEF Stack
    <3>3. \A e \in Slot : Probe(line[i], e) \in Slot
      BY <3>2, ProbeIs
    <3>4. new[Probe(line[i], c)] = line[i]
      BY <1>6, <3>1, <3>2, <3>3 DEF ReachedAt, IsKey
    <3>5. ASSUME NEW e \in Slot, e < c
          PROVE  \E j \in DOMAIN longer : j < i /\ new[Probe(line[i], e)] = longer[j]
      <4>1. PICK j \in DOMAIN line : j < i /\ table[Probe(line[i], e)] = line[j]
        BY <3>1, <3>5 DEF ReachedAt
      <4>2. line[j] # Free
        BY DEF Stack, IsKey
      <4> QED BY <1>4, <1>6, <3>3, <4>1, <4>2
    <3> QED BY <3>2, <3>4, <3>5 DEF ReachedAt
  <2>2. CASE i = n + 1
    <3>1. longer[i] = key
      BY <1>4, <2>2
    <3>2. ASSUME NEW e \in Slot, e < d
          PROVE  \E j \in DOMAIN longer : j < i /\ new[Probe(key, e)] = longer[j]
      <4>1. Probe(key, e) \in Slot /\ table[Probe(key, e)] # Free
        BY <1>2, <3>2, ProbeIs
      <4>2. PICK j \in DOMAIN line : table[Probe(key, e)] = line[j]
        BY <4>1 DEF Stack
      <4>3. j < i
        BY <1>5, <2>2
      <4>4. new[Probe(key, e)] = line[j]
        BY <1>6, <4>1, <4>2
      <4> QED BY <1>4, <4>2, <4>3, <4>4
    <3> QED BY <1>3, <1>6, <3>1, <3>2 DEF ReachedAt
  <2> QED BY <1>5, <2>1, <2>2
<1>13. Len(longer) \in Nat /\ DOMAIN longer = 1 .. Len(longer) /\ Len(longer) < TableSize
  BY <1>4, <1>5
<1>14. Stack(new, longer)
  BY <1>6, <1>8, <1>9, <1>10, <1>11, <1>12, <1>13 DEF Stack
<1> QED BY <1>14 DEF new, longer

\* erase frees the one slot of a position.
LEMMA EraseIs ==
  ASSUME NEW table, NEW line, Stack(table, line), NEW i \in DOMAIN line
  PROVE  \E d \in Slot :
           /\ ReachedAt(table, line, i, d) /\ Probe(line[i], d) \in Slot
           /\ erase(table, line[i]) = [table EXCEPT ![Probe(line[i], d)] = Free]
<1>1. PICK d \in Slot : ReachedAt(table, line, i, d)
  BY DEF Stack
<1>2. table[Probe(line[i], d)] \in {line[i]}
  BY <1>1 DEF ReachedAt
<1>3. \A e \in Slot : e < d => table[Probe(line[i], e)] \notin {line[i]}
  BY <1>1, OnTheWay
<1>4. Distance(table, line[i], {line[i]}) = d
  BY <1>2, <1>3, DistanceAt
<1>5. Probe(line[i], d) \in Slot
  BY ProbeIs DEF Stack
<1> QED BY <1>1, <1>4, <1>5 DEF erase

\* undo erases the youngest position: it lies on no older one's way.
THEOREM EraseKeepsStack ==
  ASSUME NEW table, NEW S, NEW line \in Seq(S), Stack(table, line), line # <<>>
  PROVE  Stack(erase(table, line[Len(line)]), SubSeq(line, 1, Len(line) - 1))
<1> DEFINE n == Len(line)
           key == line[n]
           new == erase(table, key)
           shorter == SubSeq(line, 1, n - 1)
<1>0. n \in DOMAIN line /\ n \in Nat /\ DOMAIN line = 1 .. n
  OBVIOUS
<1>1. PICK d \in Slot : /\ ReachedAt(table, line, n, d) /\ Probe(key, d) \in Slot
                        /\ new = [table EXCEPT ![Probe(key, d)] = Free]
  BY <1>0, EraseIs
<1>2. PICK s \in Slot : s = Probe(key, d)
  BY <1>1
<1>3. /\ Len(shorter) = n - 1 /\ DOMAIN shorter = 1 .. n - 1
      /\ \A i \in DOMAIN shorter : i \in DOMAIN line /\ i < n /\ shorter[i] = line[i]
  BY <1>0
<1>4. IsKey(key) /\ key # Free /\ n < TableSize /\ TableSize \in Nat
  BY <1>0, TableAssumption DEF Stack, IsKey
<1>5. /\ DOMAIN new = Slot /\ new = [t \in Slot |-> new[t]]
      /\ table[s] = key /\ new[s] = Free /\ \A t \in Slot : t # s => new[t] = table[t]
  BY <1>1, <1>2 DEF Stack, ReachedAt
<1>6. \A i \in DOMAIN line : i < n => line[i] # key /\ i \in DOMAIN shorter /\ shorter[i] = line[i]
  <2>1. \A i \in DOMAIN line : i < n => line[i] # key
    BY <1>0 DEF Stack
  <2> QED BY <1>0, <1>3, <2>1
<1> HIDE DEF n, key, new, shorter
<1>7. \A t \in Slot : t # s => table[t] # key
  BY <1>4, <1>5 DEF Stack
<1>8. \A i \in DOMAIN shorter : IsKey(shorter[i])
  BY <1>3 DEF Stack
<1>9. \A i, j \in DOMAIN shorter : shorter[i] = shorter[j] => i = j
  BY <1>3 DEF Stack
<1>10. ASSUME NEW t \in Slot, new[t] # Free
       PROVE  \E i \in DOMAIN shorter : new[t] = shorter[i]
  <2>1. t # s /\ new[t] = table[t]
    BY <1>5, <1>10
  <2>2. PICK i \in DOMAIN line : table[t] = line[i]
    BY <1>10, <2>1 DEF Stack
  <2>3. i < n
    <3>1. i # n
      BY <1>7, <2>1, <2>2 DEF key
    <3> QED BY <1>0, <3>1
  <2> QED BY <1>6, <2>1, <2>2, <2>3
<1>11. \A t, u \in Slot : new[t] = new[u] /\ new[t] # Free => t = u
  BY <1>5 DEF Stack
<1>12. ASSUME NEW i \in DOMAIN shorter
       PROVE  \E c \in Slot : ReachedAt(new, shorter, i, c)
  <2>1. i \in DOMAIN line /\ i < n /\ shorter[i] = line[i] /\ IsKey(line[i]) /\ line[i] # key
    BY <1>3, <1>6 DEF Stack
  <2>2. PICK c \in Slot : ReachedAt(table, line, i, c)
    BY <2>1 DEF Stack
  <2>3. \A e \in Slot : Probe(line[i], e) \in Slot
    BY <2>1, ProbeIs
  <2>4. new[Probe(line[i], c)] = line[i]
    BY <1>5, <2>1, <2>2, <2>3 DEF ReachedAt
  <2>5. ASSUME NEW e \in Slot, e < c
        PROVE  \E j \in DOMAIN shorter : j < i /\ new[Probe(line[i], e)] = shorter[j]
    <3>1. PICK j \in DOMAIN line : j < i /\ table[Probe(line[i], e)] = line[j]
      BY <2>2, <2>5 DEF ReachedAt
    <3>2. j < n
      BY <1>0, <2>1, <3>1
    <3> QED BY <1>5, <1>6, <2>3, <3>1, <3>2
  <2> QED BY <2>1, <2>4, <2>5 DEF ReachedAt
<1>13. Len(shorter) \in Nat /\ DOMAIN shorter = 1 .. Len(shorter) /\ Len(shorter) < TableSize
  BY <1>0, <1>3, <1>4
<1>14. Stack(new, shorter)
  BY <1>5, <1>8, <1>9, <1>10, <1>11, <1>12, <1>13 DEF Stack
<1> QED BY <1>14 DEF new, shorter, key, n

\* A new or reset game's table (the constructor, clear).
THEOREM ClearedIsStack == Stack(Cleared, <<>>)
  BY TableAssumption DEF Stack, Cleared

\* undo leaves the table as play found it.
THEOREM EraseUndoesStore ==
  ASSUME NEW table, NEW line, Stack(table, line), NEW key, IsKey(key), ~lookup(table, key)
  PROVE  erase(store(table, key), key) = table
<1>1. \A i \in DOMAIN line : line[i] # key
  BY LookupIsExact DEF Stored
<1>2. PICK d \in Slot : /\ Probe(key, d) \in Slot /\ table[Probe(key, d)] = Free
                        /\ store(table, key) = [table EXCEPT ![Probe(key, d)] = key]
  BY StoreIs
<1>3. PICK s \in Slot : s = Probe(key, d)
  BY <1>2
<1> DEFINE new == store(table, key)
<1>4. new[s] = key /\ \A t \in Slot : new[t] = key => t = s
  BY <1>1, <1>2, <1>3 DEF Stack, IsKey
<1> HIDE DEF new
<1>5. PICK c \in Slot : c = Distance(new, key, {key})
  BY <1>3, <1>4, DistanceIs
<1>6. new[Probe(key, c)] = key
  BY <1>3, <1>4, <1>5, DistanceIs
<1>7. Probe(key, c) = s
  BY <1>4, <1>6, ProbeIs
<1>8. erase(new, key) = [new EXCEPT ![s] = Free]
  BY <1>5, <1>7 DEF erase
<1>9. new = [table EXCEPT ![s] = key] /\ table[s] = Free
  BY <1>2, <1>3 DEF new
<1>10. [new EXCEPT ![s] = Free] = table
  BY <1>9 DEF Stack
<1> QED BY <1>8, <1>10 DEF new

\* HashTable::erase compares keys without looking at m_isFree.  Whatever keys free
\* entries carry, it frees the entry in use, as erase does.
THEOREM StaleKeysHarmless ==
  ASSUME NEW entry, DOMAIN entry = Slot, NEW line, Stack(Holding(entry), line),
         NEW i \in DOMAIN line
  PROVE  Holding(eraseEntry(entry, line[i])) = erase(Holding(entry), line[i])
<1> DEFINE table == Holding(entry)
           key == line[i]
           keys == [t \in Slot |-> entry[t].key]
<1>1. PICK d \in Slot : /\ ReachedAt(table, line, i, d) /\ Probe(key, d) \in Slot
                        /\ erase(table, key) = [table EXCEPT ![Probe(key, d)] = Free]
  BY EraseIs
<1>2. IsKey(key)
  BY DEF Stack
<1>3. \A t \in Slot : table[t] # Free => keys[t] = table[t]
  BY DEF Holding
<1>4. \A e \in Slot : Probe(key, e) \in Slot
  BY <1>2, ProbeIs
<1>5. keys[Probe(key, d)] = key
  BY <1>1, <1>2, <1>3 DEF ReachedAt, IsKey
<1>6. ASSUME NEW e \in Slot, e < d  PROVE keys[Probe(key, e)] # key
  <2>1. table[Probe(key, e)] # key /\ table[Probe(key, e)] # Free
    BY <1>1, <1>6, OnTheWay
  <2> QED BY <1>3, <1>4, <2>1
<1> HIDE DEF keys, key
<1>7. Distance(keys, key, {key}) = d
  BY <1>5, <1>6, DistanceAt
<1>8. PICK s \in Slot : s = Probe(key, d)
  BY <1>1
<1>9. eraseEntry(entry, key) = [entry EXCEPT ![s] = FreedEntry(@)]
  BY <1>7, <1>8 DEF eraseEntry, keys
<1> DEFINE new == [entry EXCEPT ![s] = FreedEntry(@)]
<1>10. new[s].isFree /\ \A t \in Slot : t # s => new[t] = entry[t]
  BY DEF FreedEntry
<1> HIDE DEF new
<1>11. Holding(new) = [table EXCEPT ![s] = Free]
  BY <1>10 DEF Holding
<1> QED BY <1>1, <1>8, <1>9, <1>11 DEF new, key

=============================================================================
