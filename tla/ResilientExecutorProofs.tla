---------------------- MODULE ResilientExecutorProofs ----------------------
(***************************************************************************)
(* Proofs about ResilientExecutor and the CircuitBreaker under it, for any *)
(* number of callers, providers, attempts and entries, and any thresholds  *)
(* and times.  What the loop does to a request does not depend on what the *)
(* breaker decides, only on who holds a permit, so the invariant of the    *)
(* loop, IInv, leaves the table alone; the invariants of the table, TInv,  *)
(* and of the circuits in it, CInv, are about the breaker alone, and the   *)
(* executor is shown to do nothing to the breaker but call its methods.    *)
(***************************************************************************)
EXTENDS ResilientExecutor, FiniteSetTheorems, WellFoundedInduction, TLAPS

-----------------------------------------------------------------------------
(* The table in least-recently-used order.                                 *)
(* The providers in the table.                                             *)
Has(seq, k) == \E i \in DOMAIN seq : seq[i] = k

IsDistinct(seq) == \A i, j \in DOMAIN seq : seq[i] = seq[j] => i = j

(* A sequence without its element at p.                                    *)
LEMMA RemoveAtFunction ==
  ASSUME NEW S, NEW s \in Seq(S), NEW p \in DOMAIN s
  PROVE  /\ RemoveAt(s, p) \in Seq(S)
         /\ Len(RemoveAt(s, p)) = Len(s) - 1
         /\ \A i \in 1..(Len(s) - 1) : RemoveAt(s, p)[i] = IF i < p THEN s[i] ELSE s[i + 1]
<1> DEFINE a == SubSeq(s, 1, p - 1)
           z == SubSeq(s, p + 1, Len(s))
<1>1. /\ p \in 1..Len(s) /\ Len(s) \in Nat /\ p \in Int
      /\ \A i \in 1..Len(s) : s[i] \in S
  OBVIOUS
<1>2. /\ a \in Seq(S) /\ Len(a) = p - 1
      /\ \A i \in 1..(p - 1) : a[i] = s[i]
  BY <1>1
<1>3. /\ z \in Seq(S) /\ Len(z) = Len(s) - p
      /\ \A i \in 1..(Len(s) - p) : z[i] = s[p + i]
  BY <1>1
<1>4. RemoveAt(s, p) = a \o z
  BY DEF RemoveAt
<1> HIDE DEF a, z
<1>5. /\ a \o z \in Seq(S) /\ Len(a \o z) = Len(s) - 1
      /\ \A i \in 1..(Len(s) - 1) : (a \o z)[i] = IF i <= p - 1 THEN a[i] ELSE z[i - (p - 1)]
  BY <1>1, <1>2, <1>3
<1> QED
  <2>1. ASSUME NEW i \in 1..(Len(s) - 1)
        PROVE  (a \o z)[i] = IF i < p THEN s[i] ELSE s[i + 1]
    <3>1. CASE i < p
      BY <1>1, <1>2, <1>5, <3>1
    <3>2. CASE ~(i < p)
      <4>1. i - (p - 1) \in 1..(Len(s) - p) /\ p + (i - (p - 1)) = i + 1
        BY <1>1, <3>2
      <4>2. (a \o z)[i] = z[i - (p - 1)]
        BY <1>1, <1>5, <3>2
      <4>3. z[i - (p - 1)] = s[p + (i - (p - 1))]
        BY <1>3, <4>1
      <4> QED  BY <4>1, <4>2, <4>3, <3>2
    <3> QED  BY <3>1, <3>2
  <2> QED  BY <1>4, <1>5, <2>1

(* Removing an element of a sequence without duplicates removes that       *)
(* element only.                                                           *)
LEMMA Removed ==
  ASSUME NEW S, NEW s \in Seq(S), IsDistinct(s), NEW p \in DOMAIN s
  PROVE  /\ RemoveAt(s, p) \in Seq(S)
         /\ Len(RemoveAt(s, p)) = Len(s) - 1
         /\ IsDistinct(RemoveAt(s, p))
         /\ \A k : Has(RemoveAt(s, p), k) <=> Has(s, k) /\ k # s[p]
<1> DEFINE r == RemoveAt(s, p)
<1>1. /\ r \in Seq(S) /\ Len(r) = Len(s) - 1
      /\ \A i \in 1..(Len(s) - 1) : r[i] = IF i < p THEN s[i] ELSE s[i + 1]
  BY RemoveAtFunction
<1>2. /\ p \in 1..Len(s) /\ Len(s) \in Nat /\ DOMAIN s = 1..Len(s) /\ DOMAIN r = 1..(Len(s) - 1)
  BY <1>1
<1>0. \A i, j \in 1..Len(s) : s[i] = s[j] => i = j
  BY <1>2 DEF IsDistinct
<1> HIDE DEF r
<1>3. IsDistinct(r)
  <2> SUFFICES ASSUME NEW i \in 1..(Len(s) - 1), NEW j \in 1..(Len(s) - 1), r[i] = r[j]
               PROVE  i = j
    BY <1>2 DEF IsDistinct
  <2> QED  BY <1>0, <1>1, <1>2
<1>4. ASSUME NEW k, Has(r, k) PROVE Has(s, k) /\ k # s[p]
  <2>1. PICK i \in 1..(Len(s) - 1) : r[i] = k
    BY <1>2, <1>4 DEF Has
  <2>2. PICK j \in 1..Len(s) : s[j] = k /\ j # p
    BY <1>1, <1>2, <2>1
  <2>3. s[j] # s[p]
    BY <1>0, <1>2, <2>2
  <2> QED  BY <2>2, <2>3, <1>2 DEF Has
<1>5. ASSUME NEW k, Has(s, k), k # s[p] PROVE Has(r, k)
  <2>1. PICK j \in 1..Len(s) : s[j] = k
    BY <1>2, <1>5 DEF Has
  <2>2. j # p
    BY <2>1, <1>5
  <2>3. CASE j < p
    <3>1. j \in 1..(Len(s) - 1) /\ r[j] = k
      BY <1>1, <1>2, <2>1, <2>3
    <3> QED  BY <3>1, <1>2 DEF Has
  <2>4. CASE j > p
    <3>1. j - 1 \in 1..(Len(s) - 1) /\ r[j - 1] = k
      BY <1>1, <1>2, <2>1, <2>4
    <3> QED  BY <3>1, <1>2 DEF Has
  <2> QED  BY <2>2, <2>3, <2>4, <1>2
<1> QED  BY <1>1, <1>3, <1>4, <1>5 DEF r

LEMMA Appended ==
  ASSUME NEW S, NEW s \in Seq(S), IsDistinct(s), NEW x \in S, ~Has(s, x)
  PROVE  /\ Append(s, x) \in Seq(S)
         /\ Len(Append(s, x)) = Len(s) + 1
         /\ IsDistinct(Append(s, x))
         /\ \A k : Has(Append(s, x), k) <=> Has(s, k) \/ k = x
<1> DEFINE a == Append(s, x)
<1>1. /\ a \in Seq(S) /\ Len(a) = Len(s) + 1 /\ Len(s) \in Nat
      /\ \A i \in 1..Len(s) : a[i] = s[i]
      /\ a[Len(s) + 1] = x
      /\ DOMAIN s = 1..Len(s) /\ DOMAIN a = 1..(Len(s) + 1)
  OBVIOUS
<1>0. /\ \A i, j \in 1..Len(s) : s[i] = s[j] => i = j
      /\ \A i \in 1..Len(s) : s[i] # x
  BY <1>1 DEF IsDistinct, Has
<1> HIDE DEF a
<1>2. IsDistinct(a)
  <2> SUFFICES ASSUME NEW i \in 1..(Len(s) + 1), NEW j \in 1..(Len(s) + 1), a[i] = a[j]
               PROVE  i = j
    BY <1>1 DEF IsDistinct
  <2> QED  BY <1>0, <1>1
<1>3. ASSUME NEW k, Has(a, k) PROVE Has(s, k) \/ k = x
  BY <1>1, <1>3 DEF Has
<1>4. ASSUME NEW k, Has(s, k) PROVE Has(a, k)
  BY <1>1, <1>4 DEF Has
<1>5. Has(a, x)
  BY <1>1 DEF Has
<1> QED  BY <1>1, <1>2, <1>3, <1>4, <1>5 DEF a

LEMMA PresentIsHas == /\ \A x : Present(x) <=> Has(order, x)
                      /\ \A x : Present(x)' <=> Has(order', x)
  BY DEF Present, Has

(* The least-recently-used victim exists.                                  *)
LEMMA SmallestPlace ==
  ASSUME NEW S \in SUBSET Nat, S # {}
  PROVE  Min(S) \in S
<1>1. PICK x \in S : \A y \in S : <<y, x>> \notin OpToRel(<, Nat)
  BY NatLessThanWellFounded, WFMin, Zenon
<1>2. \A y \in S : ~(y < x)
  BY <1>1 DEF OpToRel
<1>3. \A y \in S : x <= y
  BY <1>2
<1> QED
  BY <1>3 DEF Min

(* move_to_end: who is in the table does not change.                       *)
LEMMA MoveKeeps ==
  ASSUME BreakerTypeOK, NEW k \in Keys, Present(k), MoveToEnd(k)
  PROVE  /\ order' \in Seq(Keys) /\ IsDistinct(order')
         /\ Len(order') = Len(order)
         /\ \A x : Has(order', x) <=> Present(x)
<1> DEFINE p == Place(k)
           r == RemoveAt(order, p)
<1>1. order \in Seq(Keys) /\ IsDistinct(order)
  BY DEF BreakerTypeOK, IsDistinct
<1>2. p \in DOMAIN order /\ order[p] = k
  BY DEF Place, Present
<1>3. /\ r \in Seq(Keys) /\ IsDistinct(r) /\ Len(r) = Len(order) - 1
      /\ \A x : Has(r, x) <=> Has(order, x) /\ x # k
  BY <1>1, <1>2, Removed
<1> HIDE DEF r
<1>4. /\ Append(r, k) \in Seq(Keys) /\ IsDistinct(Append(r, k))
      /\ Len(Append(r, k)) = Len(r) + 1
      /\ \A x : Has(Append(r, k), x) <=> Has(r, x) \/ x = k
  BY <1>3, Appended
<1>5. order' = Append(r, k)
  BY DEF MoveToEnd, r
<1>6. Len(order) \in Nat /\ Has(order, k)
  BY <1>1, <1>2 DEF Has
<1>7. \A x : Present(x) <=> Has(order, x)
  BY DEF Present, Has
<1> QED
  BY <1>3, <1>4, <1>5, <1>6, <1>7

(* What _entry pushes out is in the table, closed and idle by its count,   *)
(* and the table is full.                                                  *)
LEMMA VictimFacts ==
  ASSUME BreakerTypeOK, NEW k \in Keys, HasRoom(k), NEW x \in PushedOut(k)
  PROVE  /\ x \in Keys /\ x # k /\ ~Present(k) /\ Full
         /\ x = order[VictimPlace] /\ VictimPlace \in DOMAIN order
         /\ Present(x)
         /\ entry[x].state = "closed" /\ entry[x].inFlight = 0
<1>1. ~Present(k) /\ Full /\ x = Victim
  BY DEF PushedOut
<1>2. Evictable # {} /\ Evictable \in SUBSET Nat
  <2>1. DOMAIN order = 1..Len(order) /\ Len(order) \in Nat
    BY DEF BreakerTypeOK
  <2>2. DOMAIN order \subseteq Nat
    BY <2>1
  <2> QED
    BY <1>1, <2>2 DEF HasRoom, Evictable
<1>3. VictimPlace \in Evictable
  BY <1>2, SmallestPlace DEF VictimPlace
<1>4. VictimPlace \in DOMAIN order /\ x = order[VictimPlace]
  BY <1>1, <1>3 DEF Evictable, Victim
<1>5. Present(x)
  BY <1>4 DEF Present
<1>6. x \in Keys
  BY <1>4 DEF BreakerTypeOK
<1> QED
  BY <1>1, <1>3, <1>4, <1>5, <1>6 DEF Evictable

(* _entry: k is in the table afterwards, and nothing has left it but the   *)
(* victim.                                                                 *)
LEMMA LookupKeeps ==
  ASSUME BreakerTypeOK, BreakerAssumption, Len(order) <= MaxEntries,
         NEW k \in Keys, HasRoom(k), Lookup(k)
  PROVE  /\ order' \in Seq(Keys) /\ IsDistinct(order')
         /\ Len(order') <= MaxEntries
         /\ \A x : Has(order', x) <=> x = k \/ (Present(x) /\ x \notin PushedOut(k))
<1>1. order \in Seq(Keys) /\ IsDistinct(order) /\ Len(order) \in Nat
  BY DEF BreakerTypeOK, IsDistinct
<1>2. \A x : Present(x) <=> Has(order, x)
  BY DEF Present, Has
<1>3. CASE Present(k)
  <2>1. MoveToEnd(k) /\ PushedOut(k) = {}
    BY <1>3 DEF Lookup, PushedOut
  <2> QED
    BY <2>1, <1>3, MoveKeeps
<1>4. CASE ~Present(k) /\ ~Full
  <2>1. order' = Append(order, k) /\ PushedOut(k) = {}
    BY <1>4 DEF Lookup, PushedOut
  <2>2. /\ Append(order, k) \in Seq(Keys) /\ IsDistinct(Append(order, k))
        /\ Len(Append(order, k)) = Len(order) + 1
        /\ \A x : Has(Append(order, k), x) <=> Has(order, x) \/ x = k
    BY <1>1, <1>2, <1>4, Appended
  <2>3. Len(order) + 1 <= MaxEntries
    BY <1>1, <1>4 DEF Full, BreakerAssumption
  <2> QED
    BY <2>1, <2>2, <2>3, <1>2
<1>5. CASE ~Present(k) /\ Full
  <2> DEFINE p == VictimPlace
             r == RemoveAt(order, p)
  <2>1. order' = Append(r, k) /\ PushedOut(k) = {order[p]}
    BY <1>5 DEF Lookup, PushedOut, Victim
  <2>2. p \in DOMAIN order
    BY <2>1, VictimFacts
  <2>3. /\ r \in Seq(Keys) /\ IsDistinct(r) /\ Len(r) = Len(order) - 1
        /\ \A x : Has(r, x) <=> Has(order, x) /\ x # order[p]
    BY <1>1, <2>2, Removed
  <2> HIDE DEF r, p
  <2>4. ~Has(r, k)
    BY <1>2, <1>5, <2>3
  <2>5. /\ Append(r, k) \in Seq(Keys) /\ IsDistinct(Append(r, k))
        /\ Len(Append(r, k)) = Len(r) + 1
        /\ \A x : Has(Append(r, k), x) <=> Has(r, x) \/ x = k
    BY <2>3, <2>4, Appended
  <2>6. Len(order') <= MaxEntries
    BY <1>1, <2>1, <2>3, <2>5 DEF BreakerAssumption
  <2>7. \A x : Has(order', x) <=> x = k \/ (Present(x) /\ x \notin PushedOut(k))
    BY <1>2, <2>1, <2>3, <2>5
  <2> QED
    BY <2>1, <2>5, <2>6, <2>7
<1> QED
  BY <1>3, <1>4, <1>5

-----------------------------------------------------------------------------
(* Entries.                                                                *)
EntryType == [state : {"closed", "open", "half_open"}, failures : Nat,
              elapsed : 0..RecoveryTimeout, probe : BOOLEAN,
              inFlight : Nat, generation : Nat]

Consistent(e) == e.probe <=> e.state = "half_open"

(* _open.                                                                  *)
LEMMA OpenedEntry ==
  ASSUME NEW e \in EntryType
  PROVE  /\ Opened(e) \in EntryType
         /\ Opened(e).state = "open" /\ Opened(e).probe = FALSE /\ Opened(e).inFlight = 0
         /\ Opened(e).generation = e.generation + 1
<1> DEFINE e1 == [e EXCEPT !.state = "open"]
           e2 == [e1 EXCEPT !.elapsed = 0]
           e3 == [e2 EXCEPT !.probe = FALSE]
           e4 == [e3 EXCEPT !.inFlight = 0]
           e5 == [e4 EXCEPT !.generation = @ + 1]
<1>1. e1 \in EntryType /\ e1.state = "open" /\ e1.generation = e.generation
  BY DEF EntryType
<1>2. Opened(e) = e5
  BY Zenon DEF Opened
<1> HIDE DEF e1
<1>3. e2 \in EntryType /\ e2.state = "open" /\ e2.generation = e.generation
  BY <1>1, BreakerAssumption DEF EntryType
<1> HIDE DEF e2
<1>4. e3 \in EntryType /\ e3.state = "open" /\ e3.generation = e.generation /\ e3.probe = FALSE
  BY <1>3 DEF EntryType
<1> HIDE DEF e3
<1>5. e4 \in EntryType /\ e4.state = "open" /\ e4.generation = e.generation /\ e4.probe = FALSE
      /\ e4.inFlight = 0
  BY <1>4 DEF EntryType
<1> HIDE DEF e4
<1>6. e5 \in EntryType /\ e5.state = "open" /\ e5.generation = e.generation + 1 /\ e5.probe = FALSE
      /\ e5.inFlight = 0
  BY <1>5 DEF EntryType
<1> QED
  BY <1>2, <1>6

(* An entry with one call fewer in flight, which may have failed.          *)

OneFewer(e, countable) == [e EXCEPT !.inFlight = Decrement(@),
                                    !.failures = IF countable THEN @ + 1 ELSE @]

LEMMA OneFewerEntry ==
  ASSUME NEW e \in EntryType, NEW countable \in BOOLEAN
  PROVE  /\ OneFewer(e, countable) \in EntryType
         /\ OneFewer(e, countable).state = e.state
         /\ OneFewer(e, countable).inFlight = Decrement(e.inFlight)
         /\ OneFewer(e, countable).probe = e.probe
         /\ OneFewer(e, countable).generation = e.generation
<1> DEFINE e1 == [e EXCEPT !.inFlight = Decrement(@)]
           e2 == [e1 EXCEPT !.failures = IF countable THEN @ + 1 ELSE @]
<1>1. OneFewer(e, countable) = e2
  BY Zenon DEF OneFewer
<1>2. Decrement(e.inFlight) \in Nat
  BY DEF EntryType, Decrement
<1>3. /\ e1 \in EntryType /\ e1.state = e.state /\ e1.inFlight = Decrement(e.inFlight)
      /\ e1.probe = e.probe /\ e1.generation = e.generation
  BY <1>2 DEF EntryType
<1> HIDE DEF e1
<1>4. /\ e2 \in EntryType /\ e2.state = e.state /\ e2.inFlight = Decrement(e.inFlight)
      /\ e2.probe = e.probe /\ e2.generation = e.generation
  BY <1>3 DEF EntryType
<1> QED
  BY <1>1, <1>4

(* What acquire makes of the entry e of the provider it admits a call of.  *)

AcquiredEntry(e) ==
  [e EXCEPT !.state      = IF e.state # "closed" THEN "half_open" ELSE "closed",
            !.probe      = e.state # "closed",
            !.inFlight   = IF e.state # "closed" THEN @ ELSE @ + 1,
            !.generation = IF Recovers(e) THEN e.generation + 1 ELSE e.generation]

LEMMA NewEntryFacts ==
  /\ NewEntry \in EntryType /\ Consistent(NewEntry)
  /\ NewEntry.state = "closed" /\ NewEntry.inFlight = 0
<1>1. 0 \in 0..RecoveryTimeout
  BY BreakerAssumption
<1> QED
  BY <1>1 DEF NewEntry, EntryType, Consistent

(* Either the circuit is closed and counts one call more, or it was open   *)
(* and is tried in a new generation.                                       *)
LEMMA AcquiredFacts ==
  ASSUME NEW e \in EntryType, Consistent(e), Admits(e)
  PROVE  LET f == AcquiredEntry(e) IN
         /\ f \in EntryType /\ Consistent(f)
         /\ \/ /\ e.state = "closed" /\ ~Recovers(e) /\ f.state = "closed"
               /\ f.inFlight = e.inFlight + 1 /\ f.generation = e.generation
            \/ /\ e.state = "open" /\ Recovers(e) /\ f.state = "half_open"
               /\ f.inFlight = e.inFlight /\ f.generation = e.generation + 1
<1> DEFINE s == IF e.state # "closed" THEN "half_open" ELSE "closed"
           p == e.state # "closed"
           n == IF e.state # "closed" THEN e.inFlight ELSE e.inFlight + 1
           g == IF Recovers(e) THEN e.generation + 1 ELSE e.generation
           e1 == [e EXCEPT !.state = s]
           e2 == [e1 EXCEPT !.probe = p]
           e3 == [e2 EXCEPT !.inFlight = n]
           e4 == [e3 EXCEPT !.generation = g]
<1>1. /\ s \in {"closed", "half_open"} /\ p \in BOOLEAN /\ n \in Nat /\ g \in Nat
      /\ p <=> s = "half_open"
  BY DEF EntryType
<1>2. \/ e.state = "closed" /\ ~Recovers(e) /\ s = "closed" /\ n = e.inFlight + 1 /\ g = e.generation
      \/ e.state = "open" /\ Recovers(e) /\ s = "half_open" /\ n = e.inFlight /\ g = e.generation + 1
  BY DEF Admits, Recovers, Consistent, EntryType
<1> HIDE DEF s, p, n, g
<1>3. e1 \in EntryType /\ e1.state = s
  BY <1>1 DEF EntryType
<1> HIDE DEF e1
<1>4. e2 \in EntryType /\ e2.state = s /\ e2.probe = p
  BY <1>1, <1>3 DEF EntryType
<1> HIDE DEF e2
<1>5. e3 \in EntryType /\ e3.state = s /\ e3.probe = p /\ e3.inFlight = n
  BY <1>1, <1>4 DEF EntryType
<1> HIDE DEF e3
<1>6. e4 \in EntryType /\ e4.state = s /\ e4.probe = p /\ e4.inFlight = n /\ e4.generation = g
  BY <1>1, <1>5 DEF EntryType
<1>7. AcquiredEntry(e) = e4
  <2>1. e.inFlight = e2.inFlight
    BY <1>3 DEF e1, e2, EntryType
  <2> QED
    BY <2>1 DEF AcquiredEntry, e1, e2, e3, s, p, n, g
<1> QED
  BY <1>1, <1>2, <1>6, <1>7 DEF Consistent

-----------------------------------------------------------------------------
(* The invariant of the table: bounded, and a provider that is not in it   *)
(* has no circuit of its own.                                              *)
Tabled ==
  /\ \A k \in Keys : ~Present(k) => entry[k] = NewEntry
  /\ Len(order) <= MaxEntries

Named == \A t \in Callers : permit[t].key = NoKey => permit[t] = NoPermit

(* It holds whether or not circuits that were pushed out come back.        *)
TInv == BreakerTypeOK /\ Tabled /\ Named

(* What an action may do to the table.                                     *)
KeptOrder == order' \in Seq(Keys) /\ IsDistinct(order') /\ Len(order') <= MaxEntries

Evicts == /\ Len(order') <= MaxEntries
          /\ \A k \in Keys : entry[k].state # "closed" => ~Absent(k, order')

(* A report of t that counts: the entry becomes f.                         *)
EntryReplaced(t, k, f) ==
  /\ k = permit[t].key
  /\ f \in EntryType
  /\ Consistent(f)
  /\ Current(t)
  /\ permit[t] # NoPermit
  /\ ReleasePermit(t)
  /\ MoveToEnd(k)
  /\ entry' = [entry EXCEPT ![k] = f]
  /\ stale' \in [Callers -> BOOLEAN]

(* The table invariant, fact by fact.                                      *)
LEMMA TableTypes ==
  ASSUME TInv
  PROVE  /\ entry \in [Keys -> EntryType] /\ \A x \in Keys : Consistent(entry[x])
         /\ permit \in [Callers -> [key : Keys \cup {NoKey}, generation : Nat, probe : BOOLEAN]]
         /\ stale \in [Callers -> BOOLEAN]
         /\ \A x \in Keys : ~Present(x) => entry[x] = NewEntry
         /\ \A x \in Keys : entry[x].state # "closed" => Present(x)
         /\ \A t \in Callers : permit[t].key = NoKey => permit[t] = NoPermit
         /\ order \in Seq(Keys) /\ IsDistinct(order) /\ Len(order) <= MaxEntries
  BY NewEntryFacts DEF TInv, BreakerTypeOK, EntryType, Consistent, Tabled, Named, IsDistinct

(* An action keeps the table if nothing that is not closed leaves it and   *)
(* what leaves starts afresh.                                              *)
LEMMA KeepsTable ==
  ASSUME TInv, KeptOrder, entry' \in [Keys -> EntryType], \A x \in Keys : Consistent(entry'[x]),
         permit' \in [Callers -> [key : Keys \cup {NoKey}, generation : Nat, probe : BOOLEAN]],
         stale' \in [Callers -> BOOLEAN],
         \A x \in Keys : ~Has(order', x) => entry'[x] = NewEntry,
         \A x \in Keys : entry[x].state # "closed" => Has(order', x),
         \A t \in Callers : permit'[t].key = NoKey => permit'[t] = NoPermit
  PROVE  TInv' /\ Evicts
<1>1. BreakerTypeOK'
  BY DEF BreakerTypeOK, EntryType, Consistent, KeptOrder, IsDistinct
<1>2. Tabled'
  BY PresentIsHas DEF Tabled, KeptOrder
<1>3. Evicts
  BY DEF Evicts, KeptOrder, Has, Absent
<1> QED
  BY <1>1, <1>2, <1>3 DEF TInv, Named

LEMMA TableReplaced ==
  ASSUME TInv, NEW t \in Callers, NEW k, NEW f, EntryReplaced(t, k, f)
  PROVE  /\ TInv' /\ Evicts /\ KeptOrder
         /\ k \in Keys /\ Present(k)
         /\ \A x : Has(order', x) <=> Present(x)
         /\ \A x \in Keys : entry'[x] = IF x = k THEN f ELSE entry[x]
<1>1. k \in Keys /\ Present(k) /\ BreakerTypeOK
  BY DEF EntryReplaced, TInv, Named, BreakerTypeOK, Current
<1>2. KeptOrder /\ \A x : Has(order', x) <=> Present(x)
  <2>1. /\ order' \in Seq(Keys) /\ IsDistinct(order') /\ Len(order') = Len(order)
        /\ \A x : Has(order', x) <=> Present(x)
    BY <1>1, MoveKeeps DEF EntryReplaced
  <2> QED
    BY <2>1, TableTypes DEF KeptOrder
<1>3. /\ entry' \in [Keys -> EntryType]
      /\ \A x \in Keys : entry'[x] = IF x = k THEN f ELSE entry[x]
      /\ \A x \in Keys : Consistent(entry'[x])
  BY <1>1, TableTypes DEF EntryReplaced
<1>4. /\ permit' \in [Callers -> [key : Keys \cup {NoKey}, generation : Nat, probe : BOOLEAN]]
      /\ \A u \in Callers : permit'[u].key = NoKey => permit'[u] = NoPermit
      /\ stale' \in [Callers -> BOOLEAN]
  BY TableTypes DEF EntryReplaced, ReleasePermit, NoPermit
<1> QED
  BY <1>1, <1>2, <1>3, <1>4, TableTypes, KeepsTable

LEMMA TableIgnored ==
  ASSUME TInv, NEW t \in Callers, ReleasePermit(t), Ignored(t)
  PROVE  TInv' /\ Evicts
<1>1. /\ order' = order /\ entry' = entry
      /\ permit' \in [Callers -> [key : Keys \cup {NoKey}, generation : Nat, probe : BOOLEAN]]
      /\ \A u \in Callers : permit'[u].key = NoKey => permit'[u] = NoPermit
      /\ stale' \in [Callers -> BOOLEAN]
  BY TableTypes DEF Ignored, ReleasePermit, NoPermit
<1> QED
  BY <1>1, TableTypes, KeepsTable, PresentIsHas DEF KeptOrder

LEMMA TableSuccess ==
  ASSUME TInv, NEW t \in Callers, RecordSuccess(t), ~Ignored(t)
  PROVE  TInv' /\ Evicts
<1> DEFINE k == permit[t].key
           f == Closed(entry[k], permit[t])
<1>1. /\ permit[t] # NoPermit /\ ReleasePermit(t) /\ MoveToEnd(k) /\ Current(t)
      /\ entry' = [entry EXCEPT ![k] = f]
      /\ stale' = [Outdate(IF entry[k].state # "closed" THEN {k} ELSE {}, Callers) EXCEPT ![t] = FALSE]
  BY DEF RecordSuccess
<1>2. k \in Keys /\ entry[k] \in EntryType
  BY <1>1, TableTypes
<1>3. f \in EntryType /\ Consistent(f)
  <2> DEFINE i == IF permit[t].probe THEN entry[k].inFlight ELSE Decrement(entry[k].inFlight)
             g == IF entry[k].state # "closed" THEN entry[k].generation + 1 ELSE entry[k].generation
  <2>1. i \in Nat /\ g \in Nat /\ 0 \in 0..RecoveryTimeout
    BY <1>2, BreakerAssumption DEF EntryType, Decrement
  <2>2. f = [state |-> "closed", failures |-> 0, elapsed |-> 0, probe |-> FALSE,
             inFlight |-> i, generation |-> g]
    BY DEF Closed
  <2> HIDE DEF f, i, g
  <2> QED
    BY <2>1, <2>2 DEF EntryType, Consistent
<1>4. stale' \in [Callers -> BOOLEAN]
  BY <1>1, TableTypes DEF Outdate
<1> HIDE DEF f
<1>5. EntryReplaced(t, k, f)
  BY <1>1, <1>3, <1>4 DEF EntryReplaced
<1> QED
  BY <1>5, TableReplaced

LEMMA TableFailure ==
  ASSUME TInv, NEW t \in Callers, NEW countable \in BOOLEAN, RecordFailure(t, countable), ~Ignored(t)
  PROVE  TInv' /\ Evicts
<1> DEFINE k == permit[t].key
           e == entry[k]
           f == Failed(e, permit[t], countable)
<1>1. /\ permit[t] # NoPermit /\ ReleasePermit(t) /\ MoveToEnd(k) /\ Current(t)
      /\ entry' = [entry EXCEPT ![k] = f]
      /\ stale' = [Outdate(IF f.state = "open" THEN {k} ELSE {}, Callers) EXCEPT ![t] = FALSE]
  BY DEF RecordFailure
<1>2. k \in Keys /\ e \in EntryType /\ Consistent(e)
  BY <1>1, TableTypes
<1>3. f \in EntryType /\ Consistent(f)
  <2> HIDE DEF k, e
  <2> DEFINE counted == OneFewer(e, countable)
  <2>1. \/ f = Opened(e) \/ f = Opened(counted) \/ f = counted
    BY Zenon DEF Failed, OneFewer
  <2>2. counted \in EntryType /\ Consistent(counted)
    BY <1>2, OneFewerEntry DEF Consistent
  <2> HIDE DEF f, counted
  <2> QED
    BY <2>1, <2>2, <1>2, OpenedEntry DEF Consistent
<1>4. stale' \in [Callers -> BOOLEAN]
  <2> HIDE DEF f
  <2> QED
    BY <1>1, TableTypes DEF Outdate
<1> HIDE DEF f
<1>5. EntryReplaced(t, k, f)
  BY <1>1, <1>3, <1>4 DEF EntryReplaced
<1> QED
  BY <1>5, TableReplaced

(* acquire, when it admits the call, entry by entry and call by call.      *)

Admitted(t, k) ==
  LET e == entry[k]
      f == AcquiredEntry(e)
  IN
  /\ permit[t] = NoPermit
  /\ HasRoom(k)
  /\ ReuseExplored \/ Present(k) \/ Holders(k) = {}
  /\ Lookup(k)
  /\ Admits(e)
  /\ entry' \in [Keys -> EntryType]
  /\ \A x \in Keys : entry'[x] = IF x = k THEN f ELSE IF x \in PushedOut(k) THEN NewEntry ELSE entry[x]
  /\ permit' = [permit EXCEPT ![t] = [key |-> k, generation |-> f.generation,
                                      probe |-> e.state # "closed"]]
  /\ stale' \in [Callers -> BOOLEAN]
  /\ stale'[t] = FALSE
  /\ \A u \in Callers : u # t /\ permit[u].key \notin PushedOut(k) \cup {k} => stale'[u] = stale[u]
  /\ ~Recovers(e) => \A u \in Callers : u # t /\ permit[u].key = k => stale'[u] = stale[u]

LEMMA AcquireIsAdmitted ==
  ASSUME BreakerTypeOK, NEW t \in Callers, NEW k \in Keys, Acquire(t, k)
  PROVE  Admitted(t, k)
<1> DEFINE e == entry[k]
           f == AcquiredEntry(e)
           E == Entries(k)
           gen == IF Recovers(e) THEN e.generation + 1 ELSE e.generation
           lost == PushedOut(k) \cup (IF Recovers(e) THEN {k} ELSE {})
<1>1. k \notin PushedOut(k) /\ HasRoom(k)
  BY VictimFacts DEF Acquire
<1>2. /\ entry \in [Keys -> EntryType] /\ \A x \in Keys : Consistent(entry[x])
      /\ permit[t] = NoPermit /\ NewEntry \in EntryType
  BY NewEntryFacts DEF BreakerTypeOK, EntryType, Consistent, Acquire
<1>3. /\ E \in [Keys -> EntryType] /\ E[k] = e
      /\ \A x \in Keys : E[x] = IF x \in PushedOut(k) THEN NewEntry ELSE entry[x]
  BY <1>1, <1>2 DEF Entries
<1>4. /\ Admits(e) /\ Lookup(k)
      /\ ReuseExplored \/ Present(k) \/ Holders(k) = {}
      /\ entry' = [E EXCEPT
            ![k].state      = IF e.state # "closed" THEN "half_open" ELSE "closed",
            ![k].probe      = e.state # "closed",
            ![k].inFlight   = IF e.state # "closed" THEN @ ELSE @ + 1,
            ![k].generation = gen]
      /\ permit' = [permit EXCEPT ![t] = [key |-> k, generation |-> gen, probe |-> e.state # "closed"]]
      /\ stale' = [Outdate(lost, Callers) EXCEPT ![t] = FALSE]
  BY <1>3 DEF Acquire
<1>5. f \in EntryType /\ f.generation = gen
  <2>1. e \in EntryType /\ Consistent(e)
    BY <1>2
  <2>2. e.state = "closed" => ~Recovers(e)
    BY DEF Recovers
  <2> HIDE DEF e, f
  <2> QED
    BY <2>1, <1>4, AcquiredFacts DEF f
<1>6. entry' = [E EXCEPT ![k] = f]
  <2> HIDE DEF E, e, gen
  <2>1. [E EXCEPT ![k].state      = IF e.state # "closed" THEN "half_open" ELSE "closed",
                  ![k].probe      = e.state # "closed",
                  ![k].inFlight   = IF e.state # "closed" THEN @ ELSE @ + 1,
                  ![k].generation = gen]
        = [E EXCEPT ![k] = [E[k] EXCEPT !.state = IF e.state # "closed" THEN "half_open" ELSE "closed",
                                        !.probe = e.state # "closed",
                                        !.inFlight   = IF e.state # "closed" THEN @ ELSE @ + 1,
                                        !.generation = gen]]
    BY <1>3
  <2> QED
    BY <2>1, <1>3, <1>4 DEF AcquiredEntry, gen
<1>7. /\ entry' \in [Keys -> EntryType]
      /\ \A x \in Keys : entry'[x] = IF x = k THEN f ELSE IF x \in PushedOut(k) THEN NewEntry ELSE entry[x]
  <2> HIDE DEF E, f
  <2> QED
    BY <1>3, <1>5, <1>6
<1>8. /\ stale' \in [Callers -> BOOLEAN] /\ stale'[t] = FALSE
      /\ \A u \in Callers : u # t /\ permit[u].key \notin PushedOut(k) \cup {k} => stale'[u] = stale[u]
      /\ ~Recovers(e) => \A u \in Callers : u # t /\ permit[u].key = k => stale'[u] = stale[u]
  BY <1>1, <1>4 DEF Outdate, BreakerTypeOK
<1> HIDE DEF E, gen, lost
<1> QED
  BY <1>1, <1>2, <1>4, <1>5, <1>7, <1>8 DEF Admitted

LEMMA TableAdmitted ==
  ASSUME TInv, NEW t \in Callers, NEW k \in Keys, Admitted(t, k)
  PROVE  /\ TInv' /\ Evicts
         /\ \A x : Has(order', x) <=> x = k \/ (Present(x) /\ x \notin PushedOut(k))
         /\ k \notin PushedOut(k)
         /\ \A x \in PushedOut(k) : entry[x].state = "closed"
<1> DEFINE e == entry[k]
           f == AcquiredEntry(e)
<1>0. BreakerTypeOK
  BY DEF TInv
<1>1. KeptOrder /\ \A x : Has(order', x) <=> x = k \/ (Present(x) /\ x \notin PushedOut(k))
  BY <1>0, LookupKeeps, BreakerAssumption, TableTypes DEF Admitted, KeptOrder
<1>2. /\ k \notin PushedOut(k)
      /\ \A x \in PushedOut(k) : entry[x].state = "closed"
  BY <1>0, VictimFacts DEF Admitted
<1>4. f \in EntryType /\ Consistent(f)
  <2>1. e \in EntryType /\ Consistent(e) /\ Admits(e)
    BY TableTypes DEF Admitted
  <2> HIDE DEF e
  <2> QED
    BY <2>1, AcquiredFacts
<1>5. /\ entry' \in [Keys -> EntryType]
      /\ \A x \in Keys : entry'[x] = IF x = k THEN f ELSE IF x \in PushedOut(k) THEN NewEntry ELSE entry[x]
      /\ stale' \in [Callers -> BOOLEAN]
  BY DEF Admitted
<1>6. \A x \in Keys : Consistent(entry'[x])
  BY <1>4, <1>5, TableTypes, NewEntryFacts
<1>7. /\ permit' \in [Callers -> [key : Keys \cup {NoKey}, generation : Nat, probe : BOOLEAN]]
      /\ \A u \in Callers : permit'[u].key = NoKey => permit'[u] = NoPermit
  <2>1. f.generation \in Nat /\ (e.state # "closed") \in BOOLEAN
    BY <1>4 DEF EntryType
  <2> HIDE DEF f, e
  <2>2. permit' = [permit EXCEPT ![t] = [key |-> k, generation |-> f.generation, probe |-> e.state # "closed"]]
    BY DEF Admitted, e, f
  <2> QED
    BY <2>1, <2>2, TableTypes, BreakerAssumption
<1>8. \A x \in Keys : ~Has(order', x) => entry'[x] = NewEntry
  BY <1>1, <1>5, TableTypes
<1>9. \A x \in Keys : entry[x].state # "closed" => Has(order', x)
  BY <1>1, <1>2, TableTypes
<1> HIDE DEF f
<1> QED
  BY <1>1, <1>2, <1>5, <1>6, <1>7, <1>8, <1>9, KeepsTable

(* Every method keeps the table and evicts closed circuits only.           *)
LEMMA TableStep == TInv /\ [BreakerNext]_breakerVars => TInv' /\ [Evicts]_breakerVars
<1> SUFFICES ASSUME TInv, [BreakerNext]_breakerVars PROVE TInv' /\ [Evicts]_breakerVars
  OBVIOUS
<1>1. ASSUME NEW t \in Callers, NEW k \in Keys, Acquire(t, k) PROVE TInv' /\ Evicts
  BY <1>1, AcquireIsAdmitted, TableAdmitted DEF TInv
<1>2. ASSUME UNCHANGED breakerVars PROVE TInv'
  BY <1>2 DEF TInv, breakerVars, BreakerTypeOK, Tabled, Named, Present
<1>3. ASSUME NEW t \in Callers, NEW k \in Keys, RefusedOpen(t, k) PROVE TInv' /\ Evicts
  <2>1. /\ order' \in Seq(Keys) /\ IsDistinct(order') /\ Len(order') = Len(order)
        /\ \A x : Has(order', x) <=> Present(x)
    BY <1>3, MoveKeeps DEF RefusedOpen, TInv
  <2>2. entry' = entry /\ permit' = permit /\ stale' = stale
    BY <1>3 DEF RefusedOpen
  <2>3. KeptOrder
    BY <2>1, TableTypes DEF KeptOrder
  <2> QED
    BY <2>1, <2>2, <2>3, TableTypes, KeepsTable
<1>4. ASSUME NEW t \in Callers, NEW k \in Keys, RefusedCapacity(t, k) PROVE UNCHANGED breakerVars
  BY <1>4 DEF RefusedCapacity
<1>5. ASSUME NEW t \in Callers, RecordSuccess(t) PROVE TInv' /\ Evicts
  BY <1>5, TableIgnored, TableSuccess DEF RecordSuccess
<1>6. ASSUME NEW t \in Callers, NEW countable \in BOOLEAN, RecordFailure(t, countable)
      PROVE  TInv' /\ Evicts
  BY <1>6, TableIgnored, TableFailure DEF RecordFailure
<1>7. ASSUME Tick PROVE TInv' /\ Evicts
  <2>1. /\ order' = order /\ permit' = permit /\ stale' = stale
        /\ entry' = [x \in Keys |-> IF entry[x].state = "open" /\ entry[x].elapsed < RecoveryTimeout
                                    THEN [entry[x] EXCEPT !.elapsed = @ + 1] ELSE entry[x]]
    BY <1>7 DEF Tick, AgeCircuits
  <2>2. \A x \in Keys : /\ entry'[x] \in EntryType /\ Consistent(entry'[x])
                        /\ entry[x].state # "open" => entry'[x] = entry[x]
    <3> SUFFICES ASSUME NEW x \in Keys
                 PROVE  /\ entry'[x] \in EntryType /\ Consistent(entry'[x])
                        /\ entry[x].state # "open" => entry'[x] = entry[x]
      OBVIOUS
    <3>1. entry'[x] = IF entry[x].state = "open" /\ entry[x].elapsed < RecoveryTimeout
                      THEN [entry[x] EXCEPT !.elapsed = @ + 1] ELSE entry[x]
      BY <2>1
    <3>2. entry[x] \in EntryType /\ Consistent(entry[x])
      BY TableTypes
    <3> QED
      BY <3>1, <3>2, BreakerAssumption DEF EntryType, Consistent
  <2>3. entry' \in [Keys -> EntryType]
    BY <2>1, <2>2
  <2>4. \A x \in Keys : ~Has(order', x) => entry'[x] = NewEntry
    BY <2>1, <2>2, TableTypes, PresentIsHas, NewEntryFacts
  <2>5. KeptOrder /\ \A x \in Keys : entry[x].state # "closed" => Has(order', x)
    BY <2>1, TableTypes, PresentIsHas DEF KeptOrder
  <2> QED
    BY <2>1, <2>2, <2>3, <2>4, <2>5, TableTypes, KeepsTable
<1> QED
  BY <1>1, <1>2, <1>3, <1>4, <1>5, <1>6, <1>7 DEF BreakerNext

LEMMA InitTInv == BreakerInit => TInv
<1> SUFFICES ASSUME BreakerInit PROVE TInv
  OBVIOUS
<1>1. /\ order = <<>> /\ Len(order) = 0 /\ DOMAIN order = {} /\ order \in Seq(Keys)
      /\ entry \in [Keys -> EntryType]
      /\ \A k \in Keys : entry[k] = NewEntry
      /\ permit = [t \in Callers |-> NoPermit] /\ stale = [t \in Callers |-> FALSE]
  BY NewEntryFacts DEF BreakerInit
<1>2. BreakerTypeOK
  BY <1>1, NewEntryFacts DEF BreakerTypeOK, EntryType, Consistent, NoPermit
<1> QED
  BY <1>1, <1>2, BreakerAssumption DEF TInv, Tabled, Named

(* A circuit that is not closed, which protects its provider, is never     *)
(* evicted, and the table stays within max_entries (_entry): for any       *)
(* number of callers and providers, circuits coming back included.         *)
THEOREM BreakerEvictsClosed == BreakerSpec => OnlyClosedEvicted
<1>1. [Evicts]_breakerVars <=> [/\ Len(order') <= MaxEntries
     /\ \A k \in Keys : entry[k].state # "closed" => ~Absent(k, order')]_breakerVars
  BY DEF Evicts
<1> QED
  BY <1>1, InitTInv, TableStep, PTL DEF BreakerSpec, OnlyClosedEvicted

-----------------------------------------------------------------------------
(* The calls of k that its entry counts.                                   *)
Counted(k) == {t \in Callers : permit[t].key = k /\ permit[t].generation = entry[k].generation}

(* The invariant of the circuits.  A permit for a circuit in the table is  *)
(* of its present generation or an earlier one; of the present one only    *)
(* while the circuit is closed, or half-open for the probe; of an earlier  *)
(* one if the circuit has changed hands since.                             *)
Permitted ==
  /\ \A t \in Callers : permit[t].key = NoKey => permit[t] = NoPermit
  /\ \A k \in Keys : entry[k].state # "closed" => entry[k].inFlight = 0
  /\ \A t \in Callers : permit[t].key \in Keys /\ Present(permit[t].key) =>
       LET e == entry[permit[t].key] IN
       /\ permit[t].generation <= e.generation
       /\ permit[t].generation = e.generation =>
            /\ e.state # "open"
            /\ permit[t].probe <=> e.state = "half_open"
       /\ stale[t] => permit[t].generation < e.generation

(* A probe's circuit is in the table, of the probe's generation.           *)
ProbesHold == \A t \in Callers : permit[t].probe =>
  /\ permit[t].key \in Keys
  /\ Present(permit[t].key)
  /\ permit[t].generation = entry[permit[t].key].generation

(* A closed circuit counts the calls of its generation.                    *)
CountedExactly == \A k \in Keys : Present(k) /\ entry[k].state = "closed" =>
  IsFiniteSet(Counted(k)) /\ entry[k].inFlight = Cardinality(Counted(k))

CInv == BreakerTypeOK /\ Tabled /\ Permitted /\ ProbesHold /\ OneProbe /\ CountedExactly

LEMMA TableOfCircuits == CInv => TInv
  BY DEF CInv, TInv, Permitted, Named

(* A report that is ignored.                                               *)

LEMMA IgnoredKeeps ==
  ASSUME CInv, NEW t \in Callers, permit[t] # NoPermit, ReleasePermit(t), Ignored(t)
  PROVE  CInv'
<1> USE DEF CInv
<1>1. /\ UNCHANGED <<order, entry>>
      /\ \A x : Present(x)' <=> Present(x)
      /\ permit' = [permit EXCEPT ![t] = NoPermit]
      /\ stale' = [stale EXCEPT ![t] = FALSE]
  BY DEF Ignored, ReleasePermit, Present
<1>2. permit[t].key \in Keys /\ NoPermit.key = NoKey /\ NoPermit.probe = FALSE /\ NoPermit.generation = 0
  BY DEF Permitted, BreakerTypeOK, NoPermit
<1>3. BreakerTypeOK'
  BY <1>1, BreakerAssumption DEF BreakerTypeOK, NoPermit
<1>4. /\ permit'[t] = NoPermit
      /\ \A u \in Callers : u # t => permit'[u] = permit[u] /\ stale'[u] = stale[u]
  BY <1>1 DEF BreakerTypeOK
<1>5. Tabled'
  BY <1>1 DEF Tabled
<1>6. Permitted'
  BY <1>1, <1>2, <1>4, BreakerAssumption DEF Permitted
<1>7. ProbesHold' /\ OneProbe'
  BY <1>1, <1>2, <1>4 DEF ProbesHold, OneProbe
<1>8. \A k \in Keys : Present(k) => Counted(k)' = Counted(k)
  <2> SUFFICES ASSUME NEW k \in Keys, Present(k) PROVE Counted(k)' = Counted(k)
    OBVIOUS
  <2>1. ~(permit[t].key = k /\ permit[t].generation = entry[k].generation)
    BY DEF Ignored, Current
  <2>2. permit'[t].key # k
    BY <1>2, <1>4, BreakerAssumption
  <2>3. \A u \in Callers : u \in Counted(k)' <=> u \in Counted(k)
    BY <1>1, <1>4, <2>1, <2>2 DEF Counted
  <2> QED
    BY <2>3 DEF Counted
<1>9. CountedExactly'
  BY <1>1, <1>8 DEF CountedExactly
<1> QED
  BY <1>3, <1>5, <1>6, <1>7, <1>9

(* What a report that counts makes of the entry e: a new generation, which *)

(* no call in flight is of, or one call fewer in a closed circuit.         *)

Renews(e, f) == f.generation = e.generation + 1 /\ f.inFlight = 0 /\ f.state # "half_open"

Counts(e, f) == /\ e.state = "closed" /\ f.state = "closed" /\ f.generation = e.generation
                /\ f.inFlight = Decrement(e.inFlight)

(* t, whose permit is of the present generation of k, reports; the entry   *)

(* becomes f.                                                              *)

Reports(t, k, f) ==
  /\ permit[t] # NoPermit
  /\ Current(t)
  /\ k = permit[t].key
  /\ f \in EntryType
  /\ Consistent(f)
  /\ ReleasePermit(t)
  /\ MoveToEnd(k)
  /\ entry' = [entry EXCEPT ![k] = f]
  /\ stale' = [Outdate(IF f.generation = entry[k].generation THEN {} ELSE {k}, Callers)
                 EXCEPT ![t] = FALSE]

LEMMA ReportFrame ==
  ASSUME CInv, NEW t \in Callers, NEW k, NEW f, Reports(t, k, f)
  PROVE  /\ k \in Keys /\ Present(k) /\ k = permit[t].key
         /\ permit[t].generation = entry[k].generation
         /\ BreakerTypeOK' /\ Tabled'
         /\ \A x : Present(x)' <=> Present(x)
         /\ permit'[t] = NoPermit
         /\ \A u \in Callers : u # t => permit'[u] = permit[u]
         /\ \A u \in Callers : u # t /\ (permit[u].key # k
                                  \/ f.generation = entry[k].generation) => stale'[u] = stale[u]
         /\ \A x \in Keys : entry'[x] = IF x = k THEN f ELSE entry[x]
<1>1. EntryReplaced(t, k, f)
  BY TableOfCircuits, TableTypes DEF Reports, EntryReplaced, Outdate
<1>2. /\ TInv' /\ KeptOrder
      /\ k \in Keys /\ Present(k) /\ k = permit[t].key
      /\ permit[t].generation = entry[k].generation
      /\ \A x : Has(order', x) <=> Present(x)
      /\ \A x \in Keys : entry'[x] = IF x = k THEN f ELSE entry[x]
  <2>1. /\ TInv' /\ KeptOrder /\ k \in Keys /\ Present(k)
        /\ \A x : Has(order', x) <=> Present(x)
        /\ \A x \in Keys : entry'[x] = IF x = k THEN f ELSE entry[x]
    BY <1>1, TableOfCircuits, TableReplaced
  <2> QED
    BY <1>1, <2>1 DEF EntryReplaced, Current
<1>3. /\ permit'[t] = NoPermit
      /\ \A u \in Callers : u # t => permit'[u] = permit[u]
  BY TableOfCircuits, TableTypes DEF Reports, ReleasePermit
<1>4. \A u \in Callers : u # t /\ (permit[u].key # k \/ f.generation = entry[k].generation)
                              => stale'[u] = stale[u]
  BY TableOfCircuits, TableTypes DEF Reports, Outdate
<1> QED
  BY <1>2, <1>3, <1>4, PresentIsHas DEF TInv

(* A report that opens or closes the circuit: no call in flight is of the  *)
(* new generation.                                                         *)
LEMMA RenewKeeps ==
  ASSUME CInv, NEW t \in Callers, NEW k, NEW f, Reports(t, k, f),
         Renews(entry[k], f)
  PROVE  CInv'
<1> DEFINE g == entry[k].generation
<1>1. /\ k \in Keys /\ Present(k) /\ k = permit[t].key /\ permit[t].generation = g
      /\ BreakerTypeOK' /\ Tabled'
      /\ \A x : Present(x)' <=> Present(x)
      /\ permit'[t] = NoPermit
      /\ \A u \in Callers : u # t => permit'[u] = permit[u]
      /\ \A u \in Callers : u # t /\ permit[u].key # k => stale'[u] = stale[u]
      /\ \A x \in Keys : entry'[x] = IF x = k THEN f ELSE entry[x]
  BY ReportFrame
<1>8. \A x : Has(order', x) <=> Present(x)
  BY <1>1, PresentIsHas
<1>2. /\ NoPermit.key = NoKey /\ NoKey \notin Keys /\ NoPermit.probe = FALSE
      /\ g \in Nat /\ f.generation = g + 1 /\ f.inFlight = 0 /\ f.state # "half_open"
  BY <1>1, BreakerAssumption DEF NoPermit, Renews, CInv, BreakerTypeOK
<1>3. \A u \in Callers : permit[u].key = k => permit[u].generation \in Nat /\ permit[u].generation <= g
  BY <1>1 DEF CInv, Permitted, BreakerTypeOK
<1>4. \A u \in Callers : permit[u].probe /\ permit[u].key = k => u = t
  BY <1>1 DEF CInv, Permitted, ProbesHold, OneProbe
<1> HIDE DEF g
<1>5. Permitted'
  <2>1. \A u \in Callers : permit'[u].key = NoKey => permit'[u] = NoPermit
    BY <1>1 DEF CInv, Permitted
  <2>2. \A x \in Keys : entry'[x].state # "closed" => entry'[x].inFlight = 0
    BY <1>1, <1>2 DEF CInv, Permitted
  <2>3. ASSUME NEW u \in Callers, permit'[u].key \in Keys, Has(order', permit'[u].key)
        PROVE  /\ permit'[u].generation <= entry'[permit'[u].key].generation
               /\ permit'[u].generation = entry'[permit'[u].key].generation =>
                    /\ entry'[permit'[u].key].state # "open"
                    /\ permit'[u].probe <=> entry'[permit'[u].key].state = "half_open"
               /\ stale'[u] => permit'[u].generation < entry'[permit'[u].key].generation
    <3>1. u # t /\ permit'[u] = permit[u] /\ Present(permit[u].key)
      BY <1>1, <1>2, <1>8, <2>3
    <3>2. CASE permit[u].key = k
      <4>1. permit[u].generation < f.generation /\ permit[u].generation \in Nat /\ f.generation \in Nat
        BY <1>2, <1>3, <3>2
      <4> QED
        BY <4>1, <1>1, <3>1, <3>2
    <3>3. CASE permit[u].key # k
      BY <1>1, <2>3, <3>1, <3>3 DEF CInv, Permitted
    <3> QED
      BY <3>2, <3>3
  <2> QED
    BY <2>1, <2>2, <2>3, PresentIsHas DEF Permitted
<1>6. ProbesHold' /\ OneProbe'
  BY <1>1, <1>2, <1>4 DEF CInv, ProbesHold, OneProbe
<1>7. CountedExactly'
  <2> SUFFICES ASSUME NEW x \in Keys, Present(x)', entry'[x].state = "closed"
               PROVE  IsFiniteSet(Counted(x)') /\ entry'[x].inFlight = Cardinality(Counted(x)')
    BY DEF CountedExactly
  <2>1. CASE x = k
    <3>1. Counted(k)' = {}
      BY <1>1, <1>2, <1>3 DEF Counted
    <3> QED
      BY <3>1, <2>1, <1>1, <1>2, FS_EmptySet
  <2>2. CASE x # k
    <3>1. \A u \in Callers : u \in Counted(x)' <=> u \in Counted(x)
      BY <1>1, <1>2, <2>2 DEF Counted
    <3>2. Counted(x)' = Counted(x)
      BY <3>1 DEF Counted
    <3> QED
      BY <3>2, <2>2, <1>1 DEF CInv, CountedExactly
  <2> QED
    BY <2>1, <2>2
<1> QED
  BY <1>1, <1>5, <1>6, <1>7 DEF CInv

(* A report to a closed circuit that stays closed: one call fewer.         *)
LEMMA CountKeeps ==
  ASSUME CInv, NEW t \in Callers, NEW k, NEW f, Reports(t, k, f),
         Counts(entry[k], f)
  PROVE  CInv'
<1> DEFINE g == entry[k].generation
<1>0. Counts(entry[k], f)
  OBVIOUS
<1>1. /\ k \in Keys /\ Present(k) /\ k = permit[t].key /\ permit[t].generation = g
      /\ BreakerTypeOK' /\ Tabled'
      /\ \A x : Present(x)' <=> Present(x)
      /\ permit'[t] = NoPermit
      /\ \A u \in Callers : u # t => permit'[u] = permit[u]
      /\ \A x \in Keys : entry'[x] = IF x = k THEN f ELSE entry[x]
  BY ReportFrame
<1>8. \A x : Has(order', x) <=> Present(x)
  BY <1>1, PresentIsHas
<1>9. f.generation = g /\ entry[k].state = "closed" /\ f.state = "closed"
      /\ f.inFlight = Decrement(entry[k].inFlight)
  BY <1>0 DEF Counts
<1>10. \A u \in Callers : u # t => stale'[u] = stale[u]
  BY <1>9, ReportFrame
<1>2. NoPermit.key = NoKey /\ NoKey \notin Keys /\ NoPermit.probe = FALSE
  BY BreakerAssumption DEF NoPermit
<1>5. Permitted'
  <2>1. \A u \in Callers : permit'[u].key = NoKey => permit'[u] = NoPermit
    BY <1>1 DEF CInv, Permitted
  <2>2. \A x \in Keys : entry'[x].state # "closed" => entry'[x].inFlight = 0
    BY <1>1, <1>9 DEF CInv, Permitted
  <2>3. ASSUME NEW u \in Callers, permit'[u].key \in Keys, Has(order', permit'[u].key)
        PROVE  /\ permit'[u].generation <= entry'[permit'[u].key].generation
               /\ permit'[u].generation = entry'[permit'[u].key].generation =>
                    /\ entry'[permit'[u].key].state # "open"
                    /\ permit'[u].probe <=> entry'[permit'[u].key].state = "half_open"
               /\ stale'[u] => permit'[u].generation < entry'[permit'[u].key].generation
    <3>1. u # t /\ permit'[u] = permit[u] /\ Present(permit[u].key) /\ permit[u].key \in Keys
      BY <1>1, <1>2, <1>8, <2>3
    <3>2. entry'[permit[u].key].generation = entry[permit[u].key].generation
          /\ entry'[permit[u].key].state = entry[permit[u].key].state
      BY <1>1, <1>9, <3>1
    <3> QED
      BY <1>10, <3>1, <3>2 DEF CInv, Permitted
  <2> QED
    BY <2>1, <2>2, <2>3, PresentIsHas DEF Permitted
<1>6. ProbesHold' /\ OneProbe'
  BY <1>1, <1>2, <1>9 DEF CInv, ProbesHold, OneProbe
<1>7. CountedExactly'
  <2> SUFFICES ASSUME NEW x \in Keys, Present(x)', entry'[x].state = "closed"
               PROVE  IsFiniteSet(Counted(x)') /\ entry'[x].inFlight = Cardinality(Counted(x)')
    BY DEF CountedExactly
  <2>1. CASE x = k
    <3>1. Counted(k)' = Counted(k) \ {t}
      BY <1>1, <1>2, <1>9 DEF Counted
    <3>2. IsFiniteSet(Counted(k)) /\ entry[k].inFlight = Cardinality(Counted(k)) /\ entry[k].inFlight \in Nat
      BY <1>1, <1>9 DEF CInv, CountedExactly, BreakerTypeOK
    <3>3. t \in Counted(k)
      BY <1>1 DEF Counted
    <3>4. IsFiniteSet(Counted(k) \ {t}) /\ Cardinality(Counted(k) \ {t}) = Cardinality(Counted(k)) - 1
      BY <3>2, <3>3, FS_RemoveElement
    <3>5. Cardinality(Counted(k)) # 0
      BY <3>2, <3>3, FS_EmptySet
    <3>6. f.inFlight = Cardinality(Counted(k)) - 1
      BY <3>2, <3>5, <1>9 DEF Decrement
    <3> QED
      BY <3>1, <3>4, <3>6, <2>1, <1>1
  <2>2. CASE x # k
    <3>1. \A u \in Callers : u \in Counted(x)' <=> u \in Counted(x)
      BY <1>1, <1>2, <2>2 DEF Counted
    <3>2. Counted(x)' = Counted(x)
      BY <3>1 DEF Counted
    <3> QED
      BY <3>2, <2>2, <1>1 DEF CInv, CountedExactly
  <2> QED
    BY <2>1, <2>2
<1> QED
  BY <1>1, <1>5, <1>6, <1>7 DEF CInv

LEMMA SuccessKeeps ==
  ASSUME CInv, NEW t \in Callers, RecordSuccess(t), Current(t), ~Ignored(t)
  PROVE  CInv'
<1> DEFINE k == permit[t].key
           f == Closed(entry[k], permit[t])
<1>1. /\ permit[t] # NoPermit /\ ReleasePermit(t) /\ MoveToEnd(k)
      /\ entry' = [entry EXCEPT ![k] = f]
      /\ stale' = [Outdate(IF entry[k].state # "closed" THEN {k} ELSE {}, Callers) EXCEPT ![t] = FALSE]
  BY DEF RecordSuccess
<1>2. /\ k \in Keys /\ entry[k] \in EntryType /\ Present(k)
      /\ permit[t].generation = entry[k].generation
  BY <1>1 DEF CInv, Permitted, BreakerTypeOK, EntryType, Current
<1>3. /\ f = [state |-> "closed", failures |-> 0, elapsed |-> 0, probe |-> FALSE,
              inFlight |-> f.inFlight, generation |-> f.generation]
      /\ f.inFlight = (IF permit[t].probe THEN entry[k].inFlight ELSE Decrement(entry[k].inFlight))
      /\ f.generation = (IF entry[k].state # "closed" THEN entry[k].generation + 1 ELSE entry[k].generation)
  BY DEF Closed
<1>4. f \in EntryType /\ Consistent(f) /\ f.state = "closed"
  <2> DEFINE i == f.inFlight
             g == f.generation
  <2>1. i \in Nat /\ g \in Nat /\ 0 \in 0..RecoveryTimeout
    BY <1>2, <1>3, BreakerAssumption DEF EntryType, Decrement
  <2>2. f = [state |-> "closed", failures |-> 0, elapsed |-> 0, probe |-> FALSE,
             inFlight |-> i, generation |-> g]
    BY <1>3
  <2> HIDE DEF f, i, g
  <2> QED
    BY <2>1, <2>2 DEF EntryType, Consistent
<1>5. /\ permit[t].probe <=> entry[k].state = "half_open"
      /\ entry[k].state # "open"
      /\ entry[k].state # "closed" => entry[k].inFlight = 0
  BY <1>2 DEF CInv, Permitted
<1> HIDE DEF f
<1>6. Reports(t, k, f)
  <2>1. entry[k].generation \in Nat
    BY <1>2 DEF EntryType
  <2>2. (f.generation = entry[k].generation) <=> ~(entry[k].state # "closed")
    BY <1>3, <2>1
  <2> QED
    BY <1>1, <1>4, <2>2 DEF Reports
<1>7. CASE entry[k].state = "closed"
  <2>1. Counts(entry[k], f)
    BY <1>3, <1>4, <1>5, <1>7 DEF Counts
  <2> QED
    BY <1>6, <2>1, CountKeeps
<1>8. CASE entry[k].state # "closed"
  <2>1. Renews(entry[k], f)
    BY <1>2, <1>3, <1>4, <1>5, <1>8 DEF Renews, EntryType
  <2> QED
    BY <1>6, <2>1, RenewKeeps
<1> QED
  BY <1>7, <1>8

LEMMA FailureKeeps ==
  ASSUME CInv, NEW t \in Callers, NEW countable \in BOOLEAN,
         RecordFailure(t, countable), Current(t), ~Ignored(t)
  PROVE  CInv'
<1> DEFINE k == permit[t].key
           e == entry[k]
           f == Failed(e, permit[t], countable)
<1>1. /\ permit[t] # NoPermit /\ ReleasePermit(t) /\ MoveToEnd(k)
      /\ entry' = [entry EXCEPT ![k] = f]
      /\ stale' = [Outdate(IF f.state = "open" THEN {k} ELSE {}, Callers) EXCEPT ![t] = FALSE]
  BY DEF RecordFailure
<1>2. /\ k \in Keys /\ e \in EntryType /\ Present(k)
      /\ permit[t].generation = e.generation
  BY <1>1 DEF CInv, Permitted, BreakerTypeOK, EntryType, Current
<1>3. /\ permit[t].probe <=> e.state = "half_open"
      /\ e.state # "open"
      /\ Consistent(e)
  BY <1>2 DEF CInv, Permitted, BreakerTypeOK, Consistent
<1>4. \/ /\ f.state = "open" /\ Renews(e, f) /\ f \in EntryType /\ Consistent(f)
      \/ /\ f.state = "closed" /\ Counts(e, f) /\ f \in EntryType /\ Consistent(f)
  <2> HIDE DEF k, e
  <2>1. CASE permit[t].probe
    <3>1. f = Opened(e)
      BY <2>1 DEF Failed
    <3> QED
      BY <3>1, <1>2, OpenedEntry DEF Renews, Consistent
  <2>2. CASE ~permit[t].probe
    <3> DEFINE counted == OneFewer(e, countable)
    <3>1. /\ counted \in EntryType /\ counted.state = e.state
          /\ counted.inFlight = Decrement(e.inFlight)
          /\ counted.probe = e.probe /\ counted.generation = e.generation
      BY <1>2, OneFewerEntry
    <3>2. f = IF countable /\ counted.failures >= FailureThreshold THEN Opened(counted) ELSE counted
      BY <2>2, Zenon DEF Failed, OneFewer
    <3>3. e.state = "closed"
      BY <2>2, <1>2, <1>3 DEF EntryType
    <3> HIDE DEF counted, f
    <3>4. CASE countable /\ counted.failures >= FailureThreshold
      <4>1. f = Opened(counted)
        BY <3>2, <3>4
      <4> QED
        BY <4>1, <3>1, <1>2, OpenedEntry DEF Renews, Consistent
    <3>5. CASE ~(countable /\ counted.failures >= FailureThreshold)
      <4>1. f = counted
        BY <3>2, <3>5
      <4> QED
        BY <4>1, <3>1, <3>3, <1>2, <1>3 DEF Counts, EntryType, Consistent
    <3> QED
      BY <3>4, <3>5
  <2> QED
    BY <2>1, <2>2
<1> HIDE DEF f
<1>5. CASE f.state = "open"
  <2>1. Renews(e, f) /\ f \in EntryType /\ Consistent(f)
    BY <1>4, <1>5
  <2>2. f.generation # e.generation
    BY <1>2, <2>1 DEF Renews, EntryType
  <2>3. Reports(t, k, f)
    BY <1>1, <1>5, <2>1, <2>2 DEF Reports
  <2> QED
    BY <2>1, <2>3, RenewKeeps
<1>6. CASE f.state # "open"
  <2>1. Counts(e, f) /\ f \in EntryType /\ Consistent(f)
    BY <1>4, <1>6
  <2>2. f.generation = e.generation
    BY <2>1 DEF Counts
  <2>3. Reports(t, k, f)
    BY <1>1, <1>6, <2>1, <2>2 DEF Reports
  <2> QED
    BY <2>1, <2>3, CountKeeps
<1> QED
  BY <1>5, <1>6

(* A call that is admitted is counted, or is the only probe.               *)
LEMMA AcquireKeeps ==
  ASSUME CInv, ReuseExplored = FALSE, NEW t \in Callers, NEW k \in Keys, Admitted(t, k)
  PROVE  CInv'
<1> DEFINE e == entry[k]
           f == AcquiredEntry(entry[k])
<1>1. /\ BreakerTypeOK' /\ Tabled'
      /\ \A x : Has(order', x) <=> x = k \/ (Present(x) /\ x \notin PushedOut(k))
      /\ k \notin PushedOut(k)
      /\ \A x \in PushedOut(k) : entry[x].state = "closed"
  BY TableOfCircuits, TableAdmitted DEF TInv
<1>2. /\ permit[t] = NoPermit
      /\ permit'[t] = [key |-> k, generation |-> f.generation, probe |-> entry[k].state # "closed"]
      /\ \A u \in Callers : u # t => permit'[u] = permit[u]
      /\ stale'[t] = FALSE
      /\ \A u \in Callers : u # t /\ permit[u].key \notin PushedOut(k) \cup {k} => stale'[u] = stale[u]
      /\ ~Recovers(entry[k]) => \A u \in Callers : u # t /\ permit[u].key = k => stale'[u] = stale[u]
      /\ \A x \in Keys : entry'[x] = IF x = k THEN f ELSE IF x \in PushedOut(k) THEN NewEntry ELSE entry[x]
  BY DEF Admitted, CInv, BreakerTypeOK
<1>3. /\ f \in EntryType /\ Consistent(f) /\ entry[k] \in EntryType /\ Consistent(entry[k])
      /\ \/ /\ entry[k].state = "closed" /\ ~Recovers(entry[k]) /\ f.state = "closed"
            /\ f.inFlight = entry[k].inFlight + 1 /\ f.generation = entry[k].generation
         \/ /\ entry[k].state = "open" /\ Recovers(entry[k]) /\ f.state = "half_open"
            /\ f.inFlight = entry[k].inFlight /\ f.generation = entry[k].generation + 1
  <2>1. entry[k] \in EntryType /\ Consistent(entry[k]) /\ Admits(entry[k])
    BY DEF Admitted, CInv, BreakerTypeOK, EntryType, Consistent
  <2> QED
    BY <2>1, AcquiredFacts
<1> HIDE DEF f
<1>4. \A u \in Callers : permit[u].key = k => Present(k) /\ u # t
  BY <1>2, BreakerAssumption DEF Admitted, Holders, NoPermit
<1>5. /\ f.generation \in Nat /\ entry[k].generation \in Nat
      /\ \A u \in Callers : permit[u].generation \in Nat
  BY <1>3 DEF EntryType, CInv, BreakerTypeOK
<1>6. \A u \in Callers : permit[u].key = k =>
        /\ permit[u].generation <= entry[k].generation
        /\ ~permit[u].probe
        /\ stale[u] => permit[u].generation < entry[k].generation
  <2> SUFFICES ASSUME NEW u \in Callers, permit[u].key = k
               PROVE  /\ permit[u].generation <= entry[k].generation
                      /\ ~permit[u].probe
                      /\ stale[u] => permit[u].generation < entry[k].generation
    OBVIOUS
  <2>1. /\ permit[u].generation <= entry[k].generation
        /\ stale[u] => permit[u].generation < entry[k].generation
        /\ permit[u].generation = entry[k].generation =>
             /\ entry[k].state # "open" /\ (permit[u].probe <=> entry[k].state = "half_open")
    BY <1>4 DEF CInv, Permitted
  <2>2. permit[u].probe => permit[u].generation = entry[k].generation
    BY DEF CInv, ProbesHold
  <2> QED
    BY <2>1, <2>2, <1>3
<1>7. Permitted'
  <2>1. \A u \in Callers : permit'[u].key = NoKey => permit'[u] = NoPermit
    BY <1>2, BreakerAssumption DEF CInv, Permitted
  <2>2. \A x \in Keys : entry'[x].state # "closed" => entry'[x].inFlight = 0
    BY <1>2, <1>3, NewEntryFacts DEF CInv, Permitted
  <2>3. ASSUME NEW u \in Callers, permit'[u].key \in Keys, Has(order', permit'[u].key)
        PROVE  /\ permit'[u].generation <= entry'[permit'[u].key].generation
               /\ permit'[u].generation = entry'[permit'[u].key].generation =>
                    /\ entry'[permit'[u].key].state # "open"
                    /\ permit'[u].probe <=> entry'[permit'[u].key].state = "half_open"
               /\ stale'[u] => permit'[u].generation < entry'[permit'[u].key].generation
    <3>1. CASE u = t
      <4>1. permit'[u].key = k /\ permit'[u].generation = f.generation /\ entry'[k] = f
            /\ permit'[u].probe = (entry[k].state # "closed") /\ stale'[u] = FALSE
        BY <1>2, <3>1
      <4>2. CASE entry[k].state = "closed"
        <5>1. permit'[u].probe = FALSE /\ f.state = "closed"
          BY <4>1, <4>2, <1>3
        <5> QED
          BY <4>1, <5>1, <1>5
      <4>3. CASE entry[k].state # "closed"
        <5>1. permit'[u].probe = TRUE /\ f.state = "half_open"
          BY <4>1, <4>3, <1>3
        <5> QED
          BY <4>1, <5>1, <1>5
      <4> QED
        BY <4>2, <4>3
    <3>2. CASE u # t /\ permit[u].key = k
      <4>1. permit'[u] = permit[u] /\ entry'[k] = f
        BY <1>2, <3>2
      <4>2. CASE f.generation = entry[k].generation
        <5>1. ~Recovers(entry[k]) /\ f.state = "closed" /\ entry[k].state = "closed"
          BY <1>3, <1>5, <4>2
        <5>2. stale'[u] = stale[u]
          BY <5>1, <1>2, <3>2
        <5> QED
          BY <4>1, <4>2, <5>1, <5>2, <1>6, <3>2
      <4>3. CASE f.generation = entry[k].generation + 1
        <5>1. permit[u].generation < f.generation
          BY <1>5, <1>6, <3>2, <4>3
        <5> QED
          BY <5>1, <4>1, <1>5, <3>2
      <4> QED
        BY <4>2, <4>3, <1>3
    <3>3. CASE u # t /\ permit[u].key # k
      <4>1. /\ permit'[u] = permit[u] /\ Present(permit[u].key) /\ permit[u].key \in Keys
            /\ permit[u].key \notin PushedOut(k)
        BY <1>1, <1>2, <2>3, <3>3
      <4>2. stale'[u] = stale[u] /\ entry'[permit[u].key] = entry[permit[u].key]
        BY <1>2, <3>3, <4>1
      <4> QED
        BY <4>1, <4>2 DEF CInv, Permitted
    <3> QED
      BY <3>1, <3>2, <3>3
  <2> QED
    BY <2>1, <2>2, <2>3, PresentIsHas DEF Permitted
<1>8. ProbesHold'
  <2> SUFFICES ASSUME NEW u \in Callers, permit'[u].probe
               PROVE  /\ permit'[u].key \in Keys /\ Has(order', permit'[u].key)
                      /\ permit'[u].generation = entry'[permit'[u].key].generation
    BY PresentIsHas DEF ProbesHold
  <2>1. CASE u = t
    BY <1>1, <1>2, <2>1
  <2>2. CASE u # t
    <3>1. /\ permit'[u] = permit[u] /\ permit[u].probe /\ permit[u].key \in Keys
          /\ Present(permit[u].key) /\ permit[u].generation = entry[permit[u].key].generation
      BY <1>2, <2>2 DEF CInv, ProbesHold
    <3>2. entry[permit[u].key].state = "half_open"
      BY <3>1 DEF CInv, Permitted
    <3>3. permit[u].key # k /\ permit[u].key \notin PushedOut(k)
      BY <3>1, <3>2, <1>1, <1>6
    <3> QED
      BY <3>1, <3>3, <1>1, <1>2
  <2> QED
    BY <2>1, <2>2
<1>9. OneProbe'
  BY <1>2, <1>6 DEF CInv, OneProbe
<1>10. CountedExactly'
  <2> SUFFICES ASSUME NEW x \in Keys, Has(order', x), entry'[x].state = "closed"
               PROVE  IsFiniteSet(Counted(x)') /\ entry'[x].inFlight = Cardinality(Counted(x)')
    BY PresentIsHas DEF CountedExactly
  <2>1. CASE x = k
    <3>1. f.inFlight = entry[k].inFlight + 1 /\ f.generation = entry[k].generation
          /\ entry[k].state = "closed" /\ entry'[k] = f
      BY <1>2, <1>3, <2>1
    <3>2. Counted(k)' = Counted(k) \cup {t} /\ t \notin Counted(k)
      <4>1. \A u \in Callers : u \in Counted(k)' <=> (u \in Counted(k) \/ u = t)
        BY <1>2, <3>1 DEF Counted
      <4>2. t \notin Counted(k)
        BY <1>4 DEF Counted
      <4> QED
        BY <4>1, <4>2 DEF Counted
    <3>3. IsFiniteSet(Counted(k)) /\ entry[k].inFlight = Cardinality(Counted(k))
      <4>1. CASE Present(k)
        BY <4>1, <3>1 DEF CInv, CountedExactly
      <4>2. CASE ~Present(k)
        <5>1. Counted(k) = {}
          BY <4>2, <1>4 DEF Counted
        <5>2. entry[k].inFlight = 0
          BY <4>2, NewEntryFacts DEF CInv, Tabled
        <5> QED
          BY <5>1, <5>2, FS_EmptySet
      <4> QED
        BY <4>1, <4>2
    <3>4. IsFiniteSet(Counted(k) \cup {t}) /\ Cardinality(Counted(k) \cup {t}) = Cardinality(Counted(k)) + 1
      BY <3>2, <3>3, FS_AddElement
    <3> QED
      BY <3>1, <3>2, <3>3, <3>4, <2>1
  <2>2. CASE x # k
    <3>1. Present(x) /\ entry'[x] = entry[x]
      BY <1>1, <1>2, <2>2
    <3>2. \A u \in Callers : u \in Counted(x)' <=> u \in Counted(x)
      BY <1>2, <3>1, <2>2, BreakerAssumption DEF Counted, NoPermit
    <3>3. Counted(x)' = Counted(x)
      BY <3>2 DEF Counted
    <3> QED
      BY <3>1, <3>3 DEF CInv, CountedExactly
  <2> QED
    BY <2>1, <2>2
<1> QED
  BY <1>1, <1>7, <1>8, <1>9, <1>10 DEF CInv

LEMMA QuietKeeps ==
  ASSUME CInv, NEW k \in Keys, Present(k), MoveToEnd(k), UNCHANGED <<entry, permit, stale>>
  PROVE  CInv'
<1>1. /\ order' \in Seq(Keys) /\ IsDistinct(order') /\ Len(order') = Len(order)
      /\ \A x : Present(x)' <=> Present(x)
  BY MoveKeeps, PresentIsHas DEF CInv
<1>2. \A x : Counted(x)' = Counted(x)
  BY DEF Counted
<1>3. BreakerTypeOK' /\ Tabled'
  BY <1>1 DEF CInv, BreakerTypeOK, Tabled, IsDistinct
<1>4. Permitted' /\ ProbesHold' /\ OneProbe' /\ CountedExactly'
  BY <1>1, <1>2 DEF CInv, Permitted, ProbesHold, OneProbe, CountedExactly
<1> QED
  BY <1>3, <1>4 DEF CInv

LEMMA TickKeeps ==
  ASSUME CInv, Tick
  PROVE  CInv'
<1> DEFINE Same(x) == /\ entry'[x] \in EntryType
                      /\ entry'[x].state = entry[x].state /\ entry'[x].probe = entry[x].probe
                      /\ entry'[x].inFlight = entry[x].inFlight
                      /\ entry'[x].generation = entry[x].generation
                      /\ entry[x].state # "open" => entry'[x] = entry[x]
<1>1. /\ UNCHANGED <<order, permit, stale>>
      /\ entry' = [x \in Keys |-> IF entry[x].state = "open" /\ entry[x].elapsed < RecoveryTimeout
                                  THEN [entry[x] EXCEPT !.elapsed = @ + 1] ELSE entry[x]]
  BY DEF Tick, AgeCircuits
<1>2. \A x \in Keys : Same(x)
  <2> SUFFICES ASSUME NEW x \in Keys PROVE Same(x)
    OBVIOUS
  <2>1. entry[x] \in EntryType
    BY DEF CInv, BreakerTypeOK, EntryType
  <2>2. entry'[x] = IF entry[x].state = "open" /\ entry[x].elapsed < RecoveryTimeout
                    THEN [entry[x] EXCEPT !.elapsed = @ + 1] ELSE entry[x]
    BY <1>1
  <2> QED
    BY <2>1, <2>2, BreakerAssumption DEF EntryType
<1>3. \A x : Present(x)' <=> Present(x)
  BY <1>1 DEF Present
<1>4. \A x \in Keys : Counted(x)' = Counted(x)
  BY <1>1, <1>2 DEF Counted
<1>5. BreakerTypeOK'
  <2>1. entry' \in [Keys -> EntryType]
    BY <1>1, <1>2
  <2> QED
    BY <2>1, <1>1, <1>2 DEF CInv, BreakerTypeOK, EntryType
<1>6. Tabled'
  BY <1>1, <1>2, <1>3, NewEntryFacts DEF CInv, Tabled
<1>7. Permitted'
  BY <1>1, <1>2, <1>3 DEF CInv, Permitted
<1>8. ProbesHold' /\ OneProbe'
  BY <1>1, <1>2, <1>3 DEF CInv, ProbesHold, OneProbe
<1>9. CountedExactly'
  BY <1>2, <1>3, <1>4 DEF CInv, CountedExactly
<1> QED
  BY <1>5, <1>6, <1>7, <1>8, <1>9 DEF CInv

LEMMA InitCInv == BreakerInit => CInv
<1> SUFFICES ASSUME BreakerInit PROVE CInv
  OBVIOUS
<1>1. /\ TInv /\ order = <<>>
      /\ \A k \in Keys : entry[k] = NewEntry
      /\ permit = [t \in Callers |-> NoPermit] /\ stale = [t \in Callers |-> FALSE]
  BY InitTInv DEF BreakerInit
<1>2. \A k : ~Present(k)
  BY <1>1 DEF Present
<1>3. CountedExactly
  BY <1>2 DEF CountedExactly
<1>4. Permitted /\ ProbesHold /\ OneProbe
  BY <1>1, <1>2, NewEntryFacts DEF Permitted, ProbesHold, OneProbe, NoPermit
<1> QED
  BY <1>1, <1>3, <1>4 DEF CInv, TInv

(* Every method keeps the circuits exact.                                  *)
LEMMA NextCInv ==
  ASSUME ReuseExplored = FALSE
  PROVE  CInv /\ [BreakerNext]_breakerVars => CInv'
<1> SUFFICES ASSUME CInv, [BreakerNext]_breakerVars PROVE CInv'
  OBVIOUS
<1>1. ASSUME NEW t \in Callers, NEW k \in Keys, Acquire(t, k) PROVE CInv'
  BY <1>1, AcquireIsAdmitted, AcquireKeeps DEF CInv
<1>2. ASSUME NEW t \in Callers, NEW k \in Keys, RefusedOpen(t, k) PROVE CInv'
  BY <1>2, QuietKeeps DEF RefusedOpen
<1>3. ASSUME UNCHANGED breakerVars PROVE CInv'
  <2>1. UNCHANGED <<order, entry, permit, stale>>
    BY <1>3 DEF breakerVars
  <2>2. /\ \A x : Present(x)' <=> Present(x)
        /\ \A x : Counted(x)' = Counted(x)
    BY <2>1 DEF Present, Counted
  <2>3. BreakerTypeOK' /\ Tabled'
    BY <2>1, <2>2 DEF CInv, BreakerTypeOK, Tabled
  <2> QED
    BY <2>1, <2>2, <2>3 DEF CInv, Permitted, ProbesHold, OneProbe, CountedExactly
<1>4. ASSUME NEW t \in Callers, NEW k \in Keys, RefusedCapacity(t, k) PROVE CInv'
  BY <1>3, <1>4 DEF RefusedCapacity
<1>5. ASSUME NEW t \in Callers, RecordSuccess(t) PROVE CInv'
  <2>1. CASE Ignored(t)
    BY <1>5, <2>1, IgnoredKeeps DEF RecordSuccess
  <2>2. CASE ~Ignored(t)
    <3>1. Current(t)
      BY <1>5, <2>2 DEF RecordSuccess
    <3> QED
      BY <1>5, <2>2, <3>1, SuccessKeeps
  <2> QED
    BY <2>1, <2>2
<1>6. ASSUME NEW t \in Callers, NEW countable \in BOOLEAN, RecordFailure(t, countable) PROVE CInv'
  <2>1. CASE Ignored(t)
    BY <1>6, <2>1, IgnoredKeeps DEF RecordFailure
  <2>2. CASE ~Ignored(t)
    <3>1. Current(t)
      BY <1>6, <2>2 DEF RecordFailure
    <3> QED
      BY <1>6, <2>2, <3>1, FailureKeeps
  <2> QED
    BY <2>1, <2>2
<1>7. CASE Tick
  BY <1>7, TickKeeps
<1> QED
  BY <1>1, <1>2, <1>3, <1>4, <1>5, <1>6, <1>7 DEF BreakerNext

(* The invariant holds as long as no circuit that was pushed out comes     *)
(* back while permits of its former self are held (see OneProbe's          *)
(* counterexample for what happens when one does).                         *)
THEOREM BreakerInvariance ==
  ASSUME ReuseExplored = FALSE
  PROVE  BreakerSpec => []CInv
  BY InitCInv, NextCInv, PTL DEF BreakerSpec

(* acquire, record_success, record_failure: at most one probe, which       *)
(* decides, and exact in-flight counts, whatever late reports arrive.      *)
THEOREM CircuitsAreExactHolds ==
  ASSUME ReuseExplored = FALSE
  PROVE  BreakerSpec => []CircuitsAreExact
<1>1. CInv => CircuitsAreExact
  <2> SUFFICES ASSUME CInv PROVE CircuitsAreExact
    OBVIOUS
  <2>1. BreakerTypeOK /\ OneProbe
    BY DEF CInv
  <2>2. ProbeDecides
    BY DEF CInv, ProbesHold, ProbeDecides, Permitted, BreakerTypeOK
  <2>3. \A k \in Keys : Counted(k) = {t \in Holders(k) : permit[t].generation = entry[k].generation}
    BY DEF Counted, Holders
  <2>4. InFlightExact
    BY <2>3 DEF CInv, CountedExactly, InFlightExact
  <2> QED
    BY <2>1, <2>2, <2>4 DEF CircuitsAreExact
<1> QED
  BY <1>1, BreakerInvariance, PTL

(* The outcome of a call from before its circuit last opened or recovered  *)
(* changes no circuit.                                                     *)
THEOREM StaleOutcomeIgnoredHolds ==
  ASSUME ReuseExplored = FALSE
  PROVE  BreakerSpec => StaleOutcomeIgnored
<1> DEFINE A == \A t \in Callers :
                  stale[t] /\ permit[t] # NoPermit /\ permit'[t] = NoPermit
                    => UNCHANGED <<order, entry>>
<1>1. CInv /\ BreakerNext => A
  <2> SUFFICES ASSUME CInv, BreakerNext, NEW t \in Callers,
                      stale[t], permit[t] # NoPermit, permit'[t] = NoPermit
               PROVE  UNCHANGED <<order, entry>>
    OBVIOUS
  <2>1. /\ permit[t].key \in Keys /\ ~Current(t)
    BY DEF CInv, Permitted, Current, BreakerTypeOK
  <2>2. ASSUME NEW u \in Callers, NEW k \in Keys, Acquire(u, k) PROVE FALSE
    <3>1. /\ permit[u] = NoPermit
          /\ \E n, b : permit' = [permit EXCEPT ![u] = [key |-> k, generation |-> n, probe |-> b]]
      BY <2>2 DEF Acquire
    <3> QED
      BY <3>1, BreakerAssumption DEF CInv, BreakerTypeOK, NoPermit
  <2>3. ASSUME NEW u \in Callers, NEW k \in Keys, RefusedOpen(u, k) \/ RefusedCapacity(u, k) PROVE FALSE
    BY <2>3 DEF RefusedOpen, RefusedCapacity, breakerVars
  <2>4. ASSUME NEW u \in Callers, ReleasePermit(u) PROVE u = t
    BY <2>4 DEF ReleasePermit, CInv, BreakerTypeOK
  <2>5. ASSUME NEW u \in Callers, RecordSuccess(u) PROVE UNCHANGED <<order, entry>>
    BY <2>1, <2>4, <2>5 DEF RecordSuccess, Ignored
  <2>6. ASSUME NEW u \in Callers, NEW countable \in BOOLEAN, RecordFailure(u, countable)
        PROVE  UNCHANGED <<order, entry>>
    BY <2>1, <2>4, <2>6 DEF RecordFailure, Ignored
  <2>7. CASE Tick
    BY <2>7 DEF Tick
  <2> QED
    BY <2>2, <2>3, <2>5, <2>6, <2>7 DEF BreakerNext
<1>2. CInv /\ [BreakerNext]_breakerVars => [A]_breakerVars
  BY <1>1
<1> QED
  BY <1>2, BreakerInvariance, PTL DEF BreakerSpec, StaleOutcomeIgnored

-----------------------------------------------------------------------------

LoopTypes ==
  /\ DOMAIN permit = Callers
  /\ request \in [Callers -> [key : Keys, kind : Kinds]]
  /\ pc \in [Callers -> {"checking", "acquiring", "calling", "deciding", "sleeping", "done"}]
  /\ attempts \in [Callers -> Nat]
  /\ applied \in [Callers -> Nat]

(* A request that has not ended has had no effect, and one that must not   *)
(* be repeated has begun no call until it is calling.                      *)
IInv ==
  /\ LoopTypes
  /\ NoPermitLeaks
  /\ \A t \in Callers : applied[t] <= IF pc[t] = "done" THEN 1 ELSE 0
  /\ \A t \in Callers : request[t].kind = "unsafe" =>
       /\ pc[t] \notin {"deciding", "sleeping"}
       /\ attempts[t] <= IF pc[t] \in {"checking", "acquiring"} THEN 0 ELSE 1

USE BreakerAssumption, ExecutorAssumption

LEMMA InitIInv == Init => IInv
  BY DEF Init, BreakerInit, IInv, LoopTypes, NoPermitLeaks, Kinds

(* What the breaker's methods do to permits.                               *)
LEMMA AcquirePermit ==
  ASSUME LoopTypes, NEW t \in Callers, NEW k \in Keys, Acquire(t, k)
  PROVE  /\ DOMAIN permit' = Callers
         /\ permit'[t] # NoPermit
         /\ \A u \in Callers \ {t} : permit'[u] = permit[u]
  BY DEF Acquire, NoPermit, LoopTypes

LEMMA ReportPermit ==
  ASSUME LoopTypes, NEW t \in Callers,
         RecordSuccess(t) \/ \E c \in BOOLEAN : RecordFailure(t, c)
  PROVE  permit' = [permit EXCEPT ![t] = NoPermit]
  BY DEF RecordSuccess, RecordFailure, ReleasePermit

LEMMA RefusedPermit ==
  ASSUME NEW t, NEW k, RefusedOpen(t, k) \/ RefusedCapacity(t, k)
  PROVE  UNCHANGED permit
  BY DEF RefusedOpen, RefusedCapacity, breakerVars

LEMMA BeginStep ==
  ASSUME IInv, NEW t \in Callers, Begin(t)
  PROVE  IInv'
<1>1. request[t].key \in Keys
  BY DEF IInv, LoopTypes
<1>2. /\ DOMAIN permit' = Callers
      /\ permit'[t] # NoPermit
      /\ \A u \in Callers \ {t} : permit'[u] = permit[u]
  BY <1>1, AcquirePermit DEF Begin, IInv
<1> QED
  BY <1>2 DEF Begin, GoTo, IInv, LoopTypes, NoPermitLeaks

LEMMA FailStep ==
  ASSUME IInv, NEW t \in Callers, NEW f \in Failures, Fail(t, f)
  PROVE  IInv'
<1>1. permit' = [permit EXCEPT ![t] = NoPermit]
  BY ReportPermit DEF Fail, IInv
<1>2. /\ f.notApplied => ~f.applied
      /\ f.applied \in BOOLEAN
  BY DEF Failures
<1>3. CASE MayRetry(f, request[t].kind) /\ attempts[t] < MaxAttempts
  BY <1>1, <1>2, <1>3 DEF Fail, MayRetry, GoTo, IInv, LoopTypes, NoPermitLeaks
<1>4. CASE ~(MayRetry(f, request[t].kind) /\ attempts[t] < MaxAttempts)
  BY <1>1, <1>2, <1>4 DEF Fail, GoTo, IInv, LoopTypes, NoPermitLeaks
<1> QED
  BY <1>3, <1>4

LEMMA EndStep ==
  ASSUME IInv, NEW t \in Callers,
         Succeed(t) \/ \E took \in BOOLEAN : Crash(t, took)
  PROVE  IInv'
<1>1. permit' = [permit EXCEPT ![t] = NoPermit]
  BY ReportPermit DEF Succeed, Crash, IInv
<1>2. CASE Succeed(t)
  BY <1>1, <1>2 DEF Succeed, GoTo, IInv, LoopTypes, NoPermitLeaks
<1>3. CASE \E took \in BOOLEAN : Crash(t, took)
  <2> PICK took \in BOOLEAN : Crash(t, took)
    BY <1>3
  <2> QED
    BY <1>1 DEF Crash, GoTo, IInv, LoopTypes, NoPermitLeaks
<1> QED
  BY <1>2, <1>3

LEMMA QuietStep ==
  ASSUME IInv, NEW t \in Callers,
         CheckDeadline(t) \/ Refused(t) \/ Decide(t) \/ Wake(t)
  PROVE  IInv'
<1>1. UNCHANGED permit
  BY RefusedPermit DEF CheckDeadline, Refused, Decide, Wake, breakerVars
<1>2. CASE CheckDeadline(t)
  BY <1>1, <1>2 DEF CheckDeadline, GoTo, IInv, LoopTypes, NoPermitLeaks
<1>3. CASE Refused(t)
  BY <1>1, <1>3 DEF Refused, GoTo, IInv, LoopTypes, NoPermitLeaks
<1>4. CASE Decide(t)
  BY <1>1, <1>4 DEF Decide, GoTo, IInv, LoopTypes, NoPermitLeaks
<1>5. CASE Wake(t)
  BY <1>1, <1>5 DEF Wake, GoTo, IInv, LoopTypes, NoPermitLeaks
<1> QED
  BY <1>2, <1>3, <1>4, <1>5

LEMMA NextIInv == IInv /\ [Next]_vars => IInv'
<1> SUFFICES ASSUME IInv, [Next]_vars PROVE IInv'
  OBVIOUS
<1>1. CASE \E t \in Callers : Step(t)
  <2> PICK t \in Callers : Step(t)
    BY <1>1
  <2> QED
    BY BeginStep, FailStep, EndStep, QuietStep DEF Step, Return
<1>2. CASE Elapse
  BY <1>2 DEF Elapse, IInv, LoopTypes, NoPermitLeaks
<1>3. CASE Done \/ UNCHANGED vars
  BY <1>3 DEF Done, vars, breakerVars, loopVars, IInv, LoopTypes, NoPermitLeaks
<1> QED
  BY <1>1, <1>2, <1>3 DEF Next

(* The inductive invariant holds of every behaviour.                       *)
THEOREM Invariance == Spec => []IInv
  BY InitIInv, NextIInv, PTL DEF Spec

(* execute applies an operation at most once.                              *)
THEOREM AppliedAtMostOnceHolds == Spec => []AppliedAtMostOnce
<1>1. IInv => AppliedAtMostOnce
  BY DEF IInv, LoopTypes, AppliedAtMostOnce
<1> QED
  BY <1>1, Invariance, PTL

(* An operation that must not be repeated is called at most once.          *)
THEOREM UnsafeCalledOnceHolds == Spec => []UnsafeCalledOnce
<1>1. IInv => UnsafeCalledOnce
  BY DEF IInv, LoopTypes, UnsafeCalledOnce
<1> QED
  BY <1>1, Invariance, PTL

(* No way out of a call keeps its permit.                                  *)
THEOREM NoPermitLeaksHolds == Spec => []NoPermitLeaks
  BY Invariance, PTL DEF IInv

(* The two together, as the runs check them: whatever the retries and the  *)
(* circuits do, one application and no permit left behind.                 *)
THEOREM AppliedAndReleasedHolds == Spec => []AppliedAndReleased
<1>1. AppliedAtMostOnce /\ NoPermitLeaks <=> AppliedAndReleased
  BY DEF AppliedAndReleased
<1> QED
  BY <1>1, AppliedAtMostOnceHolds, NoPermitLeaksHolds, PTL

-----------------------------------------------------------------------------
(* The executor over the breaker: what its loop does to the breaker is a   *)
(* sequence of the breaker's own methods, so what is proved of the breaker *)
(* holds in the executor.                                                  *)
LEMMA StepUsesBreaker == IInv /\ [Next]_vars => [BreakerNext]_breakerVars
<1> SUFFICES ASSUME IInv, [Next]_vars PROVE [BreakerNext]_breakerVars
  OBVIOUS
<1>1. ASSUME NEW t \in Callers, Step(t) PROVE [BreakerNext]_breakerVars
  <2>1. request[t].key \in Keys
    BY DEF IInv, LoopTypes
  <2>2. CASE Begin(t)
    BY <2>1, <2>2 DEF Begin, BreakerNext
  <2>3. CASE Refused(t)
    BY <2>1, <2>3 DEF Refused, BreakerNext
  <2>4. CASE Succeed(t)
    BY <2>4 DEF Succeed, BreakerNext
  <2>5. ASSUME NEW f \in Failures, Fail(t, f) PROVE BreakerNext
    <3>1. (f.category # "other") \in BOOLEAN
      OBVIOUS
    <3>2. RecordFailure(t, f.category # "other")
      BY <2>5 DEF Fail
    <3> QED
      BY <3>1, <3>2 DEF BreakerNext
  <2>6. ASSUME NEW took \in BOOLEAN, Crash(t, took) PROVE BreakerNext
    BY <2>6 DEF Crash, BreakerNext
  <2>7. CASE CheckDeadline(t) \/ Decide(t) \/ Wake(t)
    BY <2>7 DEF CheckDeadline, Decide, Wake
  <2> QED
    BY <1>1, <2>2, <2>3, <2>4, <2>5, <2>6, <2>7 DEF Step, Return
<1>2. CASE Elapse
  BY <1>2 DEF Elapse, Tick, BreakerNext
<1>3. CASE Done \/ UNCHANGED vars
  BY <1>3 DEF Done, vars
<1> QED
  BY <1>1, <1>2, <1>3 DEF Next

(* execute implements the breaker's specification.                         *)
THEOREM ExecutorUsesBreaker == Spec => BreakerSpec
<1>1. Init => BreakerInit
  BY DEF Init
<1> QED
  BY <1>1, Invariance, StepUsesBreaker, PTL DEF Spec, BreakerSpec

(* However requests are retried, what protects a failing provider is never *)
(* evicted.                                                                *)
THEOREM OnlyClosedEvictedHolds == Spec => OnlyClosedEvicted
  BY ExecutorUsesBreaker, BreakerEvictsClosed

(* And the circuits that requests and their retries share are exact.       *)
THEOREM RetriesKeepCircuitsExact ==
  ASSUME ReuseExplored = FALSE
  PROVE  Spec => []CircuitsAreExact
  BY ExecutorUsesBreaker, CircuitsAreExactHolds
=============================================================================
