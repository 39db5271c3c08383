------------------------- MODULE OpenAddressHashTable -------------------------
(***************************************************************************)
(* The transposition tables of the solvers: linear probing from the key's  *)
(* home slot, no erasing.  A table is a value [entry, count]; a slot of    *)
(* entry is free or holds a key and its data.                              *)
(***************************************************************************)
EXTENDS Integers, FiniteSetsExt

CONSTANTS TTSize,   \* m_size, a power of two
          Home      \* Home[key]: key & m_mask

Slots == 0 .. TTSize - 1

ASSUME TableAssumption == /\ TTSize \in Nat \ {0}
                          /\ \A key \in DOMAIN Home : Home[key] \in Slots

Free == [free |-> TRUE]

EmptyTable == [entry |-> [i \in Slots |-> Free], count |-> 0]

isFull(t) == t.count >= TTSize

\* The d-th slot a probe for the key looks at.
Probe(key, d) == (Home[key] + d) % TTSize

\* Where lookup stops: at an entry of the key or at a free slot.  In a full
\* table without the key it goes round for ever.
Stops(t, key) == {d \in Slots : LET e == t.entry[Probe(key, d)]
                                 IN  e = Free \/ e.key = key}
LookupReturns(t, key) == Stops(t, key) # {}
lookup(t, key) == Probe(key, Min(Stops(t, key)))

Found(t, key) == LookupReturns(t, key) /\ t.entry[lookup(t, key)] # Free
DataAt(t, key) == t.entry[lookup(t, key)].data

\* Mutant of store: no probing, the home slot is overwritten.
storeAtHome(t, key, data) ==
  [entry |-> [t.entry EXCEPT ![Home[key]] = [key |-> key, data |-> data]],
   count |-> t.count + 1]

\* The first free slot takes the entry, whether or not the key is there.
store(t, key, data) ==
  LET d == Min({e \in Slots : t.entry[Probe(key, e)] = Free})
  IN  [entry |-> [t.entry EXCEPT ![Probe(key, d)] = [key |-> key, data |-> data]],
       count |-> t.count + 1]

\* The caller writes through the index lookup returned.
Overwrite(t, key, data) == [t EXCEPT !.entry[lookup(t, key)].data = data]

===============================================================================
