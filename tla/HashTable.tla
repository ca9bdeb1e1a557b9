----------------------------- MODULE HashTable -----------------------------
(***************************************************************************)
(* The hash table of minzip (minzip/Hash.c), in which a package's entries  *)
(* are looked up by name: open addressing, tombstones for removed entries, *)
(* and a table of twice the size whenever an addition leaves it too full.  *)
(***************************************************************************)
EXTENDS Integers, FiniteSets

CONSTANTS
  Items,         \* what is stored: numbers above 0
  HashOf,        \* the hash of each item
  InitialSizes,  \* the numbers of elements asked for
  MaxTable       \* bound: no table grows beyond this

ASSUME HashAssumption ==
  /\ Items \subseteq Nat \ {0} /\ IsFiniteSet(Items)
  /\ HashOf \in [Items -> Nat]
  /\ InitialSizes \subseteq Nat \ {0}

EmptySlot == 0
Tombstone == -1

VARIABLES
  tableSize, entries,             \* pEntries is a function on 0..tableSize-1
  numEntries, numDeadEntries,
  stored                          \* the items added and not removed since

hashVars == <<tableSize, entries, numEntries, numDeadEntries, stored>>

\* The capacity for a table of size elements; the power of 2 that it is rounded up to, a number
\* without an odd factor above 1.
mzHashSize(size) == (size * 8) \div 5 + 1
IsPower2(p) == \A d, k \in 1..p : d * k = p /\ d % 2 = 1 => d = 1
roundUpPower2(val) ==
  CHOOSE p \in val..2 * val : IsPower2(p) /\ \A q \in val..p - 1 : ~IsPower2(q)

Blank(size) == [i \in 0..size - 1 |-> EmptySlot]
LiveEntries(t) == {t[i] : i \in DOMAIN t} \ {EmptySlot, Tombstone}
countTombStones(t) == Cardinality({i \in DOMAIN t : t[i] = Tombstone})

\* The first slot from the item's own one, wrapping around, that holds something wanted; the
\* loop that looks for it does not end when there is none.
Probe(t, size, item, wanted) ==
  LET found == {d \in 0..size - 1 : t[(HashOf[item] + d) % size] \in wanted}
      first == CHOOSE d \in found : \A e \in found : d <= e
  IN (HashOf[item] + first) % size

\* Where mzHashTableLookup() and mzHashTableRemove() stop: at the item or at an empty slot.
Stop(t, size, item) == Probe(t, size, item, {item, EmptySlot})

\* What the loop of resizeHash() does with one entry: if it is live it probes for a place in the
\* new table.
Moved(t, size, item) ==
  IF item \in {EmptySlot, Tombstone} THEN t
  ELSE [t EXCEPT ![Probe(t, size, item, {EmptySlot})] = item]

\* The new table after all the entries, in the order of the slots.
resizeHash(t, newSize) ==
  LET Round[i \in 0..tableSize] ==
        IF i = 0 THEN Blank(newSize) ELSE Moved(Round[i - 1], newSize, t[i - 1])
  IN Round[tableSize]

TooFull(count, size) == count * 8 > size * 5

mzHashTableCreate ==
  \E initialSize \in InitialSizes :
    /\ tableSize = roundUpPower2(mzHashSize(initialSize))
    /\ entries = Blank(tableSize)
    /\ numEntries = 0 /\ numDeadEntries = 0 /\ stored = {}

\* mzHashTableLookup() that adds what it does not find.
LookupAdd(item) ==
  LET at == Stop(entries, tableSize, item)
      added == [entries EXCEPT ![at] = item]
  IN /\ entries[at] = EmptySlot
     /\ numEntries' = numEntries + 1
     /\ stored' = stored \cup {item}
     /\ IF TooFull(numEntries + 1 + numDeadEntries, tableSize)
        THEN /\ 2 * tableSize <= MaxTable
             /\ tableSize' = 2 * tableSize
             /\ entries' = resizeHash(added, 2 * tableSize)
             /\ numDeadEntries' = 0
        ELSE entries' = added /\ UNCHANGED <<tableSize, numDeadEntries>>

\* The slot is emptied, which breaks the probe of whatever was added past it.
mzHashTableRemove_Mutant(item) ==
  LET at == Stop(entries, tableSize, item) IN
  /\ entries[at] = item
  /\ entries' = [entries EXCEPT ![at] = EmptySlot]
  /\ numEntries' = numEntries - 1 /\ stored' = stored \ {item}
  /\ UNCHANGED <<tableSize, numDeadEntries>>

mzHashTableRemove(item) ==
  LET at == Stop(entries, tableSize, item) IN
  /\ entries[at] = item
  /\ entries' = [entries EXCEPT ![at] = Tombstone]
  /\ numEntries' = numEntries - 1 /\ numDeadEntries' = numDeadEntries + 1
  /\ stored' = stored \ {item}
  /\ UNCHANGED tableSize

mzHashTableClear ==
  /\ entries' = Blank(tableSize)
  /\ numEntries' = 0 /\ numDeadEntries' = 0 /\ stored' = {}
  /\ UNCHANGED tableSize

HashInit == mzHashTableCreate
HashNext ==
  \/ \E item \in Items : LookupAdd(item) \/ mzHashTableRemove(item)
  \/ mzHashTableClear
HashSpec == HashInit /\ [][HashNext]_hashVars

----------------------------------------------------------------------------
\* Hash.c 142, 170, 193 and 237-238: after any sequence of additions and removals, the probe
\* of every item ends, finds the item exactly when it was added and not removed, passing
\* tombstones and wrapping around, and the counters that decide on the next resize are right.
TableIsSet ==
  /\ \E i \in DOMAIN entries : entries[i] = EmptySlot
  /\ \A item \in Items : entries[Stop(entries, tableSize, item)] = item <=> item \in stored
  /\ LiveEntries(entries) = stored
  /\ numEntries = Cardinality(stored) /\ numDeadEntries = countTombStones(entries)
=============================================================================
