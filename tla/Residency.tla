------------------------------- MODULE Residency -------------------------------
(***************************************************************************)
(* The bounded inventory of sections a model has in context (residency.py) *)
(* as LocalContextState keeps it (context_state.py), in memory and in one  *)
(* file that is replaced whole, and as ScopedContextState does             *)
(* (scoped_context_state.py), in one transaction on a scoped entry, with   *)
(* processes that die.                                                     *)
(***************************************************************************)
EXTENDS Naturals, Sequences, FiniteSets, SequencesExt

CONSTANTS Sections,       \* keys of sections
          TokensOf, WorthOf, \* size, and what eviction compares, per section
          TokenLimit,     \* max_portable_tokens
          EventLimit,     \* events kept
          MaxChanges      \* bound of the generation

ASSUME SectionsAssumption ==
  /\ IsFiniteSet(Sections) /\ TokenLimit \in Nat
  /\ TokensOf \in [Sections -> Nat] /\ WorthOf \in [Sections -> Nat]

VARIABLES memory,         \* the inventory in memory: entries, generation, events
          disk,           \* the file or the row: entries and generation
          scoped          \* which of the two classes keeps it

residency == <<memory, disk, scoped>>

(* The entries, least recently used first; the code numbers them with a    *)
(* clock and sorts by it.                                                  *)
Entries(inventory) == {inventory[i] : i \in DOMAIN inventory}
Keys(inventory) == {e.key : e \in Entries(inventory)}
EntryOf(inventory, key) == CHOOSE e \in Entries(inventory) : e.key = key
Position(inventory, key) == CHOOSE i \in DOMAIN inventory : inventory[i].key = key
Without(inventory, key) ==
  IF key \in Keys(inventory) THEN RemoveAt(inventory, Position(inventory, key)) ELSE inventory
Touched(inventory, entry) == Append(Without(inventory, entry.key), entry)
Used(inventory) == SumFunctionOnSet(TokensOf, Keys(inventory))

(* min(candidates, key=_eviction_order): least worth, then least recent.   *)
VictimByRecency(inventory, new) ==  \* faulty: worth is not looked at
  LET candidates == {e \in Entries(inventory) : ~e.pinned /\ e.key # new} IN
  CHOOSE e \in candidates : \A other \in candidates :
    Position(inventory, e.key) <= Position(inventory, other.key)
Victim(inventory, new) ==
  LET candidates == {e \in Entries(inventory) : ~e.pinned /\ e.key # new} IN
  CHOOSE e \in candidates : \A other \in candidates \ {e} :
    \/ WorthOf[e.key] < WorthOf[other.key]
    \/ /\ WorthOf[e.key] = WorthOf[other.key]
       /\ Position(inventory, e.key) < Position(inventory, other.key)

(* _evict_to_limit, one victim per step, for as many entries as there are. *)
EvictToLimit(inventory, new) ==
  LET step[n \in 0..Cardinality(Sections)] ==
        IF n = 0 THEN inventory
        ELSE LET left == step[n - 1] IN
             IF Used(left) <= TokenLimit \/ \A e \in Entries(left) : e.pinned \/ e.key = new
             THEN left ELSE Without(left, Victim(left, new).key)
  IN step[Cardinality(Sections)]

Added(inventory, entry) == EvictToLimit(Touched(inventory, entry), entry.key)
Fits(inventory, entry) == Used(Added(inventory, entry)) <= TokenLimit

ResidencyInit ==
  /\ memory = [entries |-> <<>>, generation |-> 0, events |-> <<>>]
  /\ disk = [entries |-> <<>>, generation |-> 0]
  /\ scoped \in BOOLEAN

-----------------------------------------------------------------------------
(* Each change is made in memory, saved, and undone when the save fails.   *)

Recorded(event) ==
  LET all == Append(memory.events, event) IN
  SubSeq(all, IF Len(all) > EventLimit THEN 2 ELSE 1, Len(all))

(* The file is replaced before the generation and the events in memory     *)
(* move on; a save that fails restores the backup, oldest entry first.     *)
Commit(action, key, inventory) ==
  /\ memory.generation < MaxChanges
  /\ memory' = [entries |-> inventory, generation |-> memory.generation + 1,
                events |-> Recorded([sequence |-> memory.generation + 1, action |-> action,
                                     key |-> key, used |-> Used(inventory)])]
  /\ disk' = [entries |-> inventory, generation |-> memory.generation + 1]
  /\ UNCHANGED scoped

Restored == UNCHANGED residency

(* The process dies between replacing the file and returning, and a new    *)
(* one loads the file, which does not hold the events.                     *)
SaveThenDie(inventory) ==
  /\ ~scoped /\ memory.generation < MaxChanges
  /\ disk' = [entries |-> inventory, generation |-> memory.generation + 1]
  /\ memory' = [entries |-> inventory, generation |-> memory.generation + 1, events |-> <<>>]
  /\ UNCHANGED scoped

Change(action, key, inventory) == Commit(action, key, inventory) \/ SaveThenDie(inventory)

(* A section that does not fit beside the pinned ones is refused, and what *)
(* was evicted for it comes back from the backup.                          *)
AddSection(key, pinned) ==
  LET entry == [key |-> key, pinned |-> pinned] IN
  IF Fits(memory.entries, entry)
  THEN Change("add", key, Added(memory.entries, entry)) ELSE Restored

AccessSection(key) ==
  /\ key \in Keys(memory.entries)
  /\ Change("access", key, Touched(memory.entries, EntryOf(memory.entries, key)))

PinSection(key, value) ==
  /\ key \in Keys(memory.entries)
  /\ Change(IF value THEN "pin" ELSE "unpin", key,
            Touched(memory.entries, [key |-> key, pinned |-> value]))

RemoveSection(key) ==
  /\ key \in Keys(memory.entries)
  /\ Change("remove", key, Without(memory.entries, key))

Restart ==
  /\ memory' = [entries |-> disk.entries, generation |-> disk.generation,
                events |-> IF scoped THEN memory.events ELSE <<>>]
  /\ UNCHANGED <<disk, scoped>>

ResidencyNext ==
  \/ \E key \in Sections :
       \/ AccessSection(key) \/ RemoveSection(key)
       \/ \E value \in BOOLEAN : AddSection(key, value) \/ PinSection(key, value)
  \/ Restart

ResidencySpec == ResidencyInit /\ [][ResidencyNext]_residency

-----------------------------------------------------------------------------
(* Properties.                                                             *)

(* The budget holds and the file says what memory says, whichever changes  *)
(* were refused, failed or cut short; the events kept are the latest ones. *)
BudgetAndFileHold ==
  /\ Used(memory.entries) <= TokenLimit
  /\ Cardinality(Keys(memory.entries)) = Len(memory.entries)
  /\ disk = [entries |-> memory.entries, generation |-> memory.generation]
  /\ \A i \in DOMAIN memory.events :
       memory.events[i].sequence = memory.generation - Len(memory.events) + i

(* From one inventory to the next.                                         *)
GoneOf(old, new) == {e \in Entries(old) : e.key \notin Keys(new)}
LeastGo(old, new) ==
  LET gone == GoneOf(old, new)
      kept == {e \in Entries(new) : ~e.pinned /\ e.key # Last(new).key}
  IN \/ Cardinality(gone) = 1 /\ \A e \in Entries(new) : e \in Entries(old)
     \/ \A e \in gone :
          /\ ~e.pinned
          /\ \A k \in kept : WorthOf[e.key] <= WorthOf[k.key]
          /\ \E big \in gone : WorthOf[e.key] <= WorthOf[big.key]
               /\ Used(new) + TokensOf[big.key] > TokenLimit
(* Room is made only at the cost of unpinned sections that are worth the   *)
(* least, and of no more of them than the new section needs.               *)
EvictsLeast == [][LeastGo(memory.entries, memory'.entries)]_residency

(* The budget holds at every step, and only the least worthy sections go.  *)
ResidencyIsExact == []BudgetAndFileHold /\ EvictsLeast
=============================================================================
