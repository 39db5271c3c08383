------------------------------ MODULE GoHashTable ------------------------------
(***************************************************************************)
(* The table of the positions a game went through: linear probing from     *)
(* the key's home slot, with erasing.  A slot holds a key or is Free.      *)
(* erase frees the first slot that holds the key, where the code would     *)
(* also take a freed slot's old key (eraseEntry): it never meets one, see  *)
(* GoHashTableProofs.                                                      *)
(***************************************************************************)
EXTENDS Integers, Sequences, FiniteSetsExt

CONSTANTS TableSize,   \* m_size, 4096
          Home(_)      \* key & m_mask

ASSUME TableAssumption == TableSize \in Nat \ {0}

Slot == 0 .. TableSize - 1
Free == {}   \* no position played to has this key: it has a stone

Cleared == [s \in Slot |-> Free]

Probe(key, d) == (Home(key) + d) % TableSize

\* How far a probe goes that stops at one of these values.
Distance(table, key, values) ==
  Min({d \in Slot : table[Probe(key, d)] \in values})

\* The probe stops at the key or at a free slot.
lookup(table, key) ==
  table[Probe(key, Distance(table, key, {key, Free}))] = key

store(table, key) ==
  [table EXCEPT ![Probe(key, Distance(table, key, {Free}))] = key]

\* Mutant of erase: the home slot is freed.
eraseAtHome(table, key) == [table EXCEPT ![Home(key)] = Free]

erase(table, key) ==
  [table EXCEPT ![Probe(key, Distance(table, key, {key}))] = Free]

\* The entries behind it.  erase and clear leave a free entry its key, a new one's
\* is not initialized, and erase goes by the key alone.

Holding(entry) == [s \in Slot |-> IF entry[s].isFree THEN Free ELSE entry[s].key]

FreedEntry(e) == [key |-> e.key, isFree |-> TRUE]

eraseEntry(entry, key) ==
  LET keys == [s \in Slot |-> entry[s].key]
  IN  [entry EXCEPT ![Probe(key, Distance(keys, key, {key}))] = FreedEntry(@)]

(* The table as a stack, which play and undo use it as *)

IsKey(key) == key # Free /\ Home(key) \in Slot

\* The probe for the i-th position meets earlier positions only before it meets
\* the position, in its d-th slot.
ReachedAt(table, line, i, d) ==
  /\ d \in Slot
  /\ table[Probe(line[i], d)] = line[i]
  /\ \A e \in Slot : e < d =>
       \E j \in DOMAIN line : j < i /\ table[Probe(line[i], e)] = line[j]

\* The table after the positions of line were stored in this order: each has one
\* slot, reached over the slots of older ones, and there is room left.  Erasing
\* the youngest breaks no chain.
Stack(table, line) ==
  /\ DOMAIN table = Slot /\ table = [s \in Slot |-> table[s]]
  /\ Len(line) \in Nat /\ DOMAIN line = 1 .. Len(line) /\ Len(line) < TableSize
  /\ \A i \in DOMAIN line : IsKey(line[i])
  /\ \A i, j \in DOMAIN line : line[i] = line[j] => i = j
  /\ \A s \in Slot : table[s] = Free \/ \E i \in DOMAIN line : table[s] = line[i]
  /\ \A s, t \in Slot : table[s] = table[t] /\ table[s] # Free => s = t
  /\ \A i \in DOMAIN line : \E d \in Slot : ReachedAt(table, line, i, d)

===============================================================================
