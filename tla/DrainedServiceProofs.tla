------------------------- MODULE DrainedServiceProofs -------------------------
(***************************************************************************)
(* DrainedService for any capabilities, revisions, handlers, references    *)
(* and switches: no revision retires under an execution of its generation, *)
(* and no durable pin outlives the execution that took it.  A reference is *)
(* claimed by one handler in a generation, so nobody else releases its pin *)
(* with that generation's controller; and the controller's methods, but    *)
(* for that release, leave a pinned revision in service or draining.       *)
(***************************************************************************)
EXTENDS DrainedService, TLAPS

Pointing == [Coordinates -> Revisions \cup {NoRevision}]
Generations == [activations : Pointing, drain : Controllers, claimed : SUBSET PinIds]

(* p is pinned on r, which has not retired.                                *)
Holds(d, p, r) ==
  /\ d.pins[p] # NoPin
  /\ d.pins[p].revision = r
  /\ d.revisions[r] \in {"accepting", "draining"}

Claiming == {"claimed", "pinned", "running", "unpin", "unclaim"}

Types ==
  /\ active \in Pointing
  /\ DOMAIN rows = PinIds
  /\ gens \in Seq(Generations)
  /\ Len(gens) > 0
  /\ thread \in [Threads -> [pc : Stages, ref : PinIds \cup {NoPin}, gen : Nat]]

(* Where each execution stands: in a generation there is, which is the     *)
(* second or a later one while it drains the one before.                   *)
Placed ==
  \A t \in Threads : thread[t].pc # "idle" =>
    /\ thread[t].ref \in PinIds
    /\ thread[t].gen \in 1..Len(gens)
    /\ thread[t].pc = "refreshing" => thread[t].gen > 1

(* What runs has claimed its reference, alone in its generation.           *)
ClaimedAlone ==
  \A t \in Threads : thread[t].pc \in Claiming =>
    /\ thread[t].ref \in gens[thread[t].gen].claimed
    /\ \A u \in Threads \ {t} :
         thread[u].pc \in Claiming /\ thread[u].gen = thread[t].gen => thread[u].ref # thread[t].ref

RunningHolds ==
  \A t \in Threads : thread[t].pc = "running" =>
    Holds(gens[thread[t].gen].drain, thread[t].ref, RevisionOf[thread[t].ref])

IInv == Types /\ Placed /\ ClaimedAlone /\ RunningHolds /\ NoPinLeaks

-----------------------------------------------------------------------------
(* The controller's methods: a controller stays one, and what holds a      *)
(* revision keeps it.                                                      *)
Keeps(d, e) ==
  /\ e \in Controllers
  /\ \A p \in PinIds, r \in Revisions : Holds(d, p, r) => Holds(e, p, r)

LEMMA BeginKeeps ==
  ASSUME NEW d \in Controllers, NEW T \in SUBSET Revisions
  PROVE  Keeps(d, BeginRevisionDrain(d, T))
<1> DEFINE d1 == [d EXCEPT !.revisions = [r \in Revisions |->
                    IF r \in T /\ @[r] = "accepting" THEN "draining" ELSE @[r]]]
           A  == {r \in T : d.revisions[r] = "accepting"}
           e  == RetireIdle(d1, A)
<1>1. /\ d1 \in Controllers /\ d1.pins = d.pins
      /\ \A x \in Revisions :
           d1.revisions[x] = IF x \in T /\ d.revisions[x] = "accepting" THEN "draining" ELSE d.revisions[x]
  BY DEF Controllers, States
<1>2. /\ e \in Controllers /\ e.pins = d1.pins
      /\ \A x \in Revisions :
           e.revisions[x] = IF x \in A /\ d1.revisions[x] = "draining" /\ PinsOf(d1, x) = {}
                            THEN "retired" ELSE d1.revisions[x]
  BY <1>1 DEF RetireIdle, Controllers, States
<1>3. \A p \in PinIds, r \in Revisions : Holds(d, p, r) => Holds(e, p, r)
  BY <1>1, <1>2 DEF Holds, PinsOf
<1> QED
  BY <1>2, <1>3 DEF Keeps, BeginRevisionDrain

LEMMA AdvanceKeeps ==
  ASSUME NEW d \in Controllers, NEW T \in SUBSET Revisions
  PROVE  Keeps(d, Advance(d, T))
<1> DEFINE e == Advance(d, T)
<1>1. \A p \in Askable(d, T) : d.pins[p] \in Pins /\ p \in PinIds
  BY DEF Askable, TargetPins, InFlight, Controllers
<1>2. /\ e.pins = [p \in PinIds |->
            IF p \in Askable(d, T) THEN [d.pins[p] EXCEPT !.asked = TRUE] ELSE d.pins[p]]
      /\ e.revisions = d.revisions
  BY DEF Advance, Controllers
<1>3. \A x \in Pins : /\ [x EXCEPT !.asked = TRUE] \in Pins
                      /\ [x EXCEPT !.asked = TRUE].revision = x.revision
                      /\ [x EXCEPT !.asked = TRUE] # NoPin
  BY ControllerAssumption DEF Pins
<1>4. /\ e.pins \in [PinIds -> Pins \cup {NoPin}]
      /\ \A p \in PinIds : d.pins[p] # NoPin =>
           e.pins[p] # NoPin /\ e.pins[p].revision = d.pins[p].revision
  BY <1>1, <1>2, <1>3 DEF Controllers
<1>5. e \in Controllers
  BY <1>4 DEF Advance, Controllers
<1> QED
  BY <1>2, <1>4, <1>5 DEF Keeps, Holds

LEMMA AdmitKeeps ==
  ASSUME NEW d \in Controllers, NEW r \in Revisions, NEW p \in PinIds, NEW cancellable \in BOOLEAN,
         CanAdmit(d, r, p, cancellable)
  PROVE  LET e == Admit(d, r, p, cancellable) IN Keeps(d, e) /\ Holds(e, p, r)
<1> DEFINE e == Admit(d, r, p, cancellable)
           x == [revision |-> r, cancellable |-> cancellable, asked |-> FALSE]
<1>1. d.revisions[r] = "accepting"
  BY DEF CanAdmit, Accepts
<1>2. CASE d.pins[p] # NoPin
  BY <1>1, <1>2 DEF Admit, CanAdmit, SameBinding, Keeps, Holds
<1>3. CASE d.pins[p] = NoPin
  <2>1. x \in Pins /\ x # NoPin /\ x.revision = r
    <3>1. x \in Pins /\ x.revision = r
      BY DEF Pins
    <3> QED
      BY <3>1, ControllerAssumption DEF Pins
  <2>2. e = [d EXCEPT !.pins[p] = x]
    BY <1>3 DEF Admit
  <2> HIDE DEF x, e
  <2>3. e \in Controllers /\ e.revisions = d.revisions
        /\ \A q \in PinIds : e.pins[q] = IF q = p THEN x ELSE d.pins[q]
    BY <2>1, <2>2 DEF Controllers
  <2> QED
    BY <1>1, <1>3, <2>1, <2>3 DEF Keeps, Holds, e
<1> QED
  BY <1>2, <1>3

(* Releasing a pin leaves the others their revisions.                      *)
LEMMA ReleaseKeeps ==
  ASSUME NEW d \in Controllers, NEW p \in PinIds
  PROVE  LET e == ReleaseHeld(d, p) IN
         /\ e \in Controllers
         /\ \A q \in PinIds \ {p}, r \in Revisions : Holds(d, q, r) => Holds(e, q, r)
<1>1. CASE d.pins[p] = NoPin
  BY <1>1 DEF ReleaseHeld
<1>2. CASE d.pins[p] # NoPin
  <2> DEFINE k  == d.pins[p].revision
             d1 == [d EXCEPT !.pins[p] = NoPin]
             d2 == RetireIdle(d1, {k})
             c  == CoordinateOf[k]
             e  == SettleCoordinate(d2, c)
  <2>1. k \in Revisions /\ c \in Coordinates /\ ReleaseHeld(d, p) = e
    BY <1>2, ControllerAssumption DEF Controllers, Pins, ReleaseHeld, Release
  <2>2. /\ d1 \in Controllers /\ d1.revisions = d.revisions
        /\ \A q \in PinIds : d1.pins[q] = IF q = p THEN NoPin ELSE d.pins[q]
    BY DEF Controllers
  <2> HIDE DEF d1
  <2>3. /\ d2 \in Controllers /\ d2.pins = d1.pins
        /\ \A x \in Revisions :
             d2.revisions[x] = IF x = k /\ d1.revisions[x] = "draining" /\ PinsOf(d1, x) = {}
                               THEN "retired" ELSE d1.revisions[x]
    BY <2>1, <2>2 DEF RetireIdle, Controllers, States
  <2> HIDE DEF d2
  <2>4. e \in Controllers /\ e.pins = d2.pins /\ e.revisions = d2.revisions
    BY <2>1, <2>3 DEF SettleCoordinate, Controllers, States
  <2> HIDE DEF e
  <2>5. ASSUME NEW q \in PinIds \ {p}, NEW r \in Revisions, Holds(d, q, r)
        PROVE  Holds(e, q, r)
    <3>1. q \in PinsOf(d1, r)
      BY <2>2, <2>5 DEF PinsOf, Holds
    <3> QED
      BY <2>2, <2>3, <2>4, <2>5, <3>1 DEF Holds
  <2> QED
    BY <2>1, <2>4, <2>5
<1> QED
  BY <1>1, <1>2

LEMMA NewGeneration ==
  ASSUME NEW pointers \in Pointing
  PROVE  Generation(pointers) \in Generations
<1> DEFINE revs == [r \in Revisions |-> IF r \in Store!Selected(pointers) THEN "accepting" ELSE "unknown"]
           coos == [c \in Coordinates |-> IF pointers[c] # NoRevision THEN "accepting" ELSE "unknown"]
           d    == [Empty EXCEPT !.revisions = revs, !.coordinates = coos]
<1>1. Generation(pointers) = [activations |-> pointers, drain |-> d, claimed |-> {}]
  BY DEF Generation
<1>2. revs \in [Revisions -> States] /\ coos \in [Coordinates -> States]
  BY DEF States
<1> HIDE DEF revs, coos
<1>3. Empty \in Controllers
  BY DEF Empty, Controllers, States
<1>4. d \in Controllers
  BY <1>2, <1>3 DEF Controllers
<1> HIDE DEF d
<1> QED
  BY <1>1, <1>4 DEF Generations

-----------------------------------------------------------------------------
(* What actions do to the generations and to the handlers.                 *)
Drains(g, e) == gens' = [gens EXCEPT ![g].drain = e]
Claims(g, refs) == gens' = [gens EXCEPT ![g].claimed = refs]

LEMMA GenerationFacts ==
  ASSUME Types, NEW j \in 1..Len(gens)
  PROVE  /\ gens[j] \in Generations
         /\ gens[j].drain \in Controllers /\ gens[j].claimed \in SUBSET PinIds
         /\ gens = [gens EXCEPT ![j].drain = gens[j].drain]
<1>1. gens[j] \in Generations
  BY DEF Types
<1>2. gens[j].drain \in Controllers /\ gens[j].claimed \in SUBSET PinIds
  BY <1>1 DEF Generations
<1>3. [gens[j] EXCEPT !.drain = gens[j].drain] = gens[j]
  BY <1>1 DEF Generations
<1>4. [gens EXCEPT ![j] = gens[j]] = gens
  BY DEF Types
<1> QED
  BY <1>1, <1>2, <1>3, <1>4

LEMMA DrainReplaced ==
  ASSUME Types, NEW g \in 1..Len(gens), NEW e \in Controllers, Drains(g, e)
  PROVE  /\ gens' \in Seq(Generations) /\ Len(gens') = Len(gens)
         /\ \A j \in 1..Len(gens) : /\ gens'[j].claimed = gens[j].claimed
                                    /\ gens'[j].drain = IF j = g THEN e ELSE gens[j].drain
<1>1. \A j \in 1..Len(gens) : gens[j] \in Generations
  BY DEF Types
<1> DEFINE x == [gens[g] EXCEPT !.drain = e]
<1>2. x \in Generations /\ x.claimed = gens[g].claimed /\ x.drain = e
  BY <1>1 DEF Generations
<1>3. gens' = [gens EXCEPT ![g] = x]
  BY DEF Drains
<1> HIDE DEF x
<1>4. /\ gens' \in Seq(Generations) /\ Len(gens') = Len(gens)
      /\ \A j \in 1..Len(gens) : gens'[j] = IF j = g THEN x ELSE gens[j]
  BY <1>2, <1>3 DEF Types
<1> QED
  BY <1>2, <1>4

LEMMA ClaimsReplaced ==
  ASSUME Types, NEW g \in 1..Len(gens), NEW refs \in SUBSET PinIds, Claims(g, refs)
  PROVE  /\ gens' \in Seq(Generations) /\ Len(gens') = Len(gens)
         /\ \A j \in 1..Len(gens) : /\ gens'[j].drain = gens[j].drain
                                    /\ gens'[j].claimed = IF j = g THEN refs ELSE gens[j].claimed
<1>1. \A j \in 1..Len(gens) : gens[j] \in Generations
  BY DEF Types
<1> DEFINE x == [gens[g] EXCEPT !.claimed = refs]
<1>2. x \in Generations /\ x.drain = gens[g].drain /\ x.claimed = refs
  BY <1>1 DEF Generations
<1>3. gens' = [gens EXCEPT ![g] = x]
  BY DEF Claims
<1> HIDE DEF x
<1>4. /\ gens' \in Seq(Generations) /\ Len(gens') = Len(gens)
      /\ \A j \in 1..Len(gens) : gens'[j] = IF j = g THEN x ELSE gens[j]
  BY <1>2, <1>3 DEF Types
<1> QED
  BY <1>2, <1>4

LEMMA GotoEffect ==
  ASSUME Types, NEW t \in Threads, NEW pc \in Stages, Goto(t, pc)
  PROVE  /\ thread' \in [Threads -> [pc : Stages, ref : PinIds \cup {NoPin}, gen : Nat]]
         /\ \A u \in Threads : /\ thread'[u].pc = IF u = t THEN pc ELSE thread[u].pc
                               /\ thread'[u].ref = thread[u].ref
                               /\ thread'[u].gen = thread[u].gen
<1> DEFINE x == [thread[t] EXCEPT !.pc = pc]
<1>1. /\ x \in [pc : Stages, ref : PinIds \cup {NoPin}, gen : Nat]
      /\ x.pc = pc /\ x.ref = thread[t].ref /\ x.gen = thread[t].gen
  BY DEF Types
<1>2. thread' = [thread EXCEPT ![t] = x]
  BY DEF Goto
<1> HIDE DEF x
<1> QED
  BY <1>1, <1>2 DEF Types

LEMMA LeaveEffect ==
  ASSUME Types, NEW t \in Threads, Leave(t)
  PROVE  /\ thread' \in [Threads -> [pc : Stages, ref : PinIds \cup {NoPin}, gen : Nat]]
         /\ thread'[t].pc = "idle"
         /\ \A u \in Threads \ {t} : thread'[u] = thread[u]
  BY DEF Types, Leave, NoCall, Stages

(* A handler of the generations: what the invariant says of it.            *)
LEMMA ThreadFacts ==
  ASSUME IInv, NEW t \in Threads, thread[t].pc # "idle"
  PROVE  /\ thread[t].ref \in PinIds /\ thread[t].gen \in 1..Len(gens)
         /\ RevisionOf[thread[t].ref] \in Revisions
         /\ gens[thread[t].gen].drain \in Controllers
         /\ gens[thread[t].gen].claimed \in SUBSET PinIds
<1>1. thread[t].ref \in PinIds /\ thread[t].gen \in 1..Len(gens)
  BY DEF IInv, Placed
<1>2. gens[thread[t].gen] \in Generations
  BY <1>1 DEF IInv, Types
<1> QED
  BY <1>1, <1>2, ServiceAssumption DEF Generations

-----------------------------------------------------------------------------
(* The steps.                                                              *)
LEMMA SwitchStep ==
  ASSUME IInv, NEW c \in Coordinates, NEW r \in Revisions, SwitchPointer(c, r)
  PROVE  IInv'
<1>1. active' \in Pointing
  BY DEF IInv, Types, SwitchPointer, Store!Switch, Pointing
<1>2. UNCHANGED <<rows, gens, thread>>
  BY DEF SwitchPointer, Store!Switch
<1> QED
  BY <1>1, <1>2 DEF IInv, Types, Placed, ClaimedAlone, RunningHolds, NoPinLeaks

LEMMA EnterStep ==
  ASSUME IInv, NEW t \in Threads, NEW ref \in PinIds, Enter(t, ref)
  PROVE  IInv'
<1>1. /\ gens' \in Seq(Generations) /\ Len(gens') >= Len(gens)
      /\ \A j \in 1..Len(gens) : gens'[j] = gens[j]
      /\ thread' \in [Threads -> [pc : Stages, ref : PinIds \cup {NoPin}, gen : Nat]]
      /\ thread'[t].pc \in {"entered", "refreshing"} /\ thread'[t].ref = ref
      /\ thread'[t].gen \in 1..Len(gens')
      /\ thread'[t].pc = "refreshing" => thread'[t].gen > 1
      /\ \A u \in Threads \ {t} : thread'[u] = thread[u]
  <2>1. /\ Len(gens) \in Nat /\ Len(gens) > 0 /\ gens \in Seq(Generations) /\ active \in Pointing
        /\ thread \in [Threads -> [pc : Stages, ref : PinIds \cup {NoPin}, gen : Nat]]
    BY DEF IInv, Types
  <2>2. CASE active = gens[Current].activations
    <3>1. /\ gens' = gens
          /\ thread' = [thread EXCEPT ![t] = [pc |-> "entered", ref |-> ref, gen |-> Len(gens)]]
      BY <2>2 DEF Enter, Current
    <3> QED
      BY <2>1, <3>1 DEF Stages
  <2>3. CASE active # gens[Current].activations
    <3> DEFINE pc == IF Outdated(active) = {} THEN "entered" ELSE "refreshing"
    <3>1. /\ gens' = Append(gens, Generation(active))
          /\ thread' = [thread EXCEPT ![t] = [pc |-> pc, ref |-> ref, gen |-> Len(gens) + 1]]
      BY <2>3 DEF Enter, Current
    <3>2. /\ gens' \in Seq(Generations) /\ Len(gens') = Len(gens) + 1
          /\ \A j \in 1..Len(gens) : gens'[j] = gens[j]
      BY <2>1, <3>1, NewGeneration
    <3>3. pc \in {"entered", "refreshing"}
      OBVIOUS
    <3> HIDE DEF pc
    <3> QED
      BY <2>1, <3>1, <3>2, <3>3 DEF Stages
  <2> QED
    BY <2>2, <2>3
<1>4. thread[t].pc = "idle" /\ active' = active /\ rows' = rows
  BY DEF Enter, storeVars
<1>5. Types'
  BY <1>1, <1>4 DEF IInv, Types
<1>6. Placed'
  BY <1>1 DEF IInv, Types, Placed
<1>7. \A u \in Threads : thread'[u].pc \in Claiming =>
        u # t /\ thread'[u] = thread[u] /\ gens'[thread[u].gen] = gens[thread[u].gen]
  BY <1>1 DEF IInv, Placed, Claiming
<1>8. ClaimedAlone' /\ RunningHolds'
  BY <1>7 DEF IInv, ClaimedAlone, RunningHolds, Claiming
<1>9. NoPinLeaks'
  BY <1>1, <1>4 DEF IInv, NoPinLeaks
<1> QED
  BY <1>5, <1>6, <1>8, <1>9 DEF IInv

(* A step that changes one controller by a method that keeps what it holds *)
(* and moves a handler on, which claims and pins nothing by it.            *)
LEMMA KeepingStep ==
  ASSUME IInv, active' = active, rows' = rows,
         NEW g \in 1..Len(gens), NEW e, Keeps(gens[g].drain, e), Drains(g, e),
         NEW t \in Threads, NEW pc \in Stages, Goto(t, pc),
         pc \in Claiming <=> thread[t].pc \in Claiming,
         pc = "idle" <=> thread[t].pc = "idle",
         pc = "refreshing" => thread[t].pc = "refreshing",
         pc = "running" => Holds(e, thread[t].ref, RevisionOf[thread[t].ref])
                           /\ thread[t].gen = g,
         thread[t].pc \in {"pinned", "running", "unpin"} => pc \in {"pinned", "running", "unpin"}
  PROVE  IInv'
<1>1. /\ gens' \in Seq(Generations) /\ Len(gens') = Len(gens)
      /\ \A j \in 1..Len(gens) : /\ gens'[j].claimed = gens[j].claimed
                                 /\ gens'[j].drain = IF j = g THEN e ELSE gens[j].drain
  BY DrainReplaced DEF IInv, Keeps
<1>2. /\ thread' \in [Threads -> [pc : Stages, ref : PinIds \cup {NoPin}, gen : Nat]]
      /\ \A u \in Threads : /\ thread'[u].pc = IF u = t THEN pc ELSE thread[u].pc
                            /\ thread'[u].ref = thread[u].ref
                            /\ thread'[u].gen = thread[u].gen
  BY GotoEffect DEF IInv
<1>3. Types'
  BY <1>1, <1>2 DEF IInv, Types
<1>4. Placed'
  BY <1>1, <1>2 DEF IInv, Placed
<1>5. ClaimedAlone'
  <2>1. \A u \in Threads : thread'[u].pc \in Claiming <=> thread[u].pc \in Claiming
    BY <1>2
  <2>2. \A u \in Threads : thread[u].pc \in Claiming => thread[u].gen \in 1..Len(gens)
    BY DEF IInv, Placed, Claiming
  <2> QED
    BY <1>1, <1>2, <2>1, <2>2 DEF IInv, ClaimedAlone
<1>6. RunningHolds'
  <2> SUFFICES ASSUME NEW u \in Threads, thread'[u].pc = "running"
               PROVE  Holds(gens'[thread[u].gen].drain, thread[u].ref, RevisionOf[thread[u].ref])
    BY <1>2 DEF RunningHolds
  <2>1. CASE u = t
    BY <1>1, <1>2, <2>1
  <2>2. CASE u # t
    <3>1. thread[u].pc = "running"
      BY <1>2, <2>2
    <3>2. /\ thread[u].ref \in PinIds /\ thread[u].gen \in 1..Len(gens)
          /\ RevisionOf[thread[u].ref] \in Revisions
      BY <3>1, ThreadFacts
    <3>3. Holds(gens[thread[u].gen].drain, thread[u].ref, RevisionOf[thread[u].ref])
      BY <3>1 DEF IInv, RunningHolds
    <3> QED
      BY <1>1, <3>2, <3>3 DEF Keeps
  <2> QED
    BY <2>1, <2>2
<1>7. NoPinLeaks'
  BY <1>2 DEF IInv, NoPinLeaks
<1> QED
  BY <1>3, <1>4, <1>5, <1>6, <1>7 DEF IInv

LEMMA DrainPreviousStep ==
  ASSUME IInv, NEW t \in Threads, NEW r \in Revisions, DrainPrevious(t, r)
  PROVE  IInv'
<1> DEFINE old == thread[t].gen - 1
           e   == BeginRevisionDrain(gens[old].drain, {r})
           pc  == IF retiring = {r} THEN "entered" ELSE "refreshing"
<1>1. /\ thread[t].pc = "refreshing" /\ Drains(old, e) /\ Goto(t, pc)
      /\ active' = active /\ rows' = rows
  BY DEF DrainPrevious, Drains, EnterAfterLast, Goto, storeVars
<1>2. old \in 1..Len(gens) /\ gens[old].drain \in Controllers
  <2>1. thread[t].gen \in 1..Len(gens) /\ thread[t].gen > 1 /\ gens \in Seq(Generations)
    BY <1>1 DEF IInv, Placed, Types
  <2>2. old \in 1..Len(gens)
    BY <2>1
  <2> QED
    BY <2>2, GenerationFacts DEF IInv
<1>3. Keeps(gens[old].drain, e)
  BY <1>2, BeginKeeps
<1>4. pc \in {"entered", "refreshing"}
  OBVIOUS
<1> HIDE DEF e, pc, old
<1> QED
  BY <1>1, <1>2, <1>3, <1>4, KeepingStep DEF Stages, Claiming

LEMMA AdmitRunStep ==
  ASSUME IInv, NEW t \in Threads, AdmitRun(t)
  PROVE  IInv'
<1> DEFINE g == thread[t].gen
           ref == thread[t].ref
           r == RevisionOf[ref]
           d == gens[g].drain
           cancellable == r \in Cancellable
<1>1. thread[t].pc = "pinned" /\ active' = active /\ rows' = rows
  BY DEF AdmitRun, storeVars
<1>2. g \in 1..Len(gens) /\ ref \in PinIds /\ r \in Revisions /\ d \in Controllers
      /\ cancellable \in BOOLEAN
  BY <1>1, ThreadFacts
<1>3. CASE CanAdmit(d, r, ref, cancellable) /\ Drains(g, Admit(d, r, ref, cancellable)) /\ Goto(t, "running")
  <2> DEFINE e == Admit(d, r, ref, cancellable)
  <2>1. Keeps(d, e) /\ Holds(e, ref, r)
    BY <1>2, <1>3, AdmitKeeps
  <2> HIDE DEF e
  <2> QED
    BY <1>1, <1>2, <1>3, <2>1, KeepingStep DEF Stages, Claiming, e
<1>4. CASE UNCHANGED gens /\ Goto(t, "unpin")
  <2>1. Drains(g, d) /\ Keeps(d, d)
    <3>1. gens = [gens EXCEPT ![g].drain = d]
      BY <1>2, GenerationFacts DEF IInv
    <3> QED
      BY <1>2, <1>4, <3>1 DEF Drains, Keeps
  <2> HIDE DEF d
  <2> QED
    BY <1>1, <1>2, <1>4, <2>1, KeepingStep DEF Stages, Claiming, d
<1> QED
  BY <1>3, <1>4 DEF AdmitRun, Drains

(* Asking executions to stop.                                              *)
LEMMA DeadlineStep ==
  ASSUME IInv, NEW g \in 1..Len(gens), NEW r \in Revisions, Deadline(g, r)
  PROVE  IInv'
<1>1. active' = active /\ rows' = rows /\ thread' = thread
  BY DEF Deadline, storeVars
<1>2. \A j \in 1..Len(gens) : gens[j].drain \in Controllers
  BY GenerationFacts DEF IInv
<1>3. /\ gens' \in Seq(Generations) /\ Len(gens') = Len(gens)
      /\ \A j \in 1..Len(gens) : /\ gens'[j].claimed = gens[j].claimed
                                 /\ Keeps(gens[j].drain, gens'[j].drain)
  <2>1. CASE gens[g].drain.revisions[r] = "draining"
    <3> DEFINE e == Advance(gens[g].drain, {r})
    <3>1. Drains(g, e)
      BY <2>1 DEF Deadline, Drains
    <3>2. Keeps(gens[g].drain, e)
      BY <1>2, AdvanceKeeps
    <3> HIDE DEF e
    <3>3. /\ gens' \in Seq(Generations) /\ Len(gens') = Len(gens)
          /\ \A j \in 1..Len(gens) : /\ gens'[j].claimed = gens[j].claimed
                                     /\ gens'[j].drain = IF j = g THEN e ELSE gens[j].drain
      BY <3>1, <3>2, DrainReplaced DEF IInv, Keeps
    <3> QED
      BY <1>2, <3>2, <3>3 DEF Keeps
  <2>2. CASE gens[g].drain.revisions[r] # "draining"
    <3>1. gens' = gens
      BY <2>2 DEF Deadline
    <3> QED
      BY <1>2, <3>1 DEF Keeps, IInv, Types
  <2> QED
    BY <2>1, <2>2
<1>4. Types' /\ Placed'
  BY <1>1, <1>3 DEF IInv, Types, Placed
<1>5. \A t \in Threads : thread[t].pc # "idle" => thread[t].gen \in 1..Len(gens)
  BY ThreadFacts
<1>6. ClaimedAlone'
  BY <1>1, <1>3, <1>5 DEF IInv, ClaimedAlone, Claiming
<1>7. RunningHolds'
  <2> SUFFICES ASSUME NEW t \in Threads, thread[t].pc = "running"
               PROVE  Holds(gens'[thread[t].gen].drain, thread[t].ref, RevisionOf[thread[t].ref])
    BY <1>1 DEF RunningHolds
  <2>1. /\ thread[t].ref \in PinIds /\ thread[t].gen \in 1..Len(gens)
        /\ RevisionOf[thread[t].ref] \in Revisions
        /\ Holds(gens[thread[t].gen].drain, thread[t].ref, RevisionOf[thread[t].ref])
    BY ThreadFacts DEF IInv, RunningHolds
  <2> QED
    BY <1>3, <2>1 DEF Keeps
<1> QED
  BY <1>1, <1>4, <1>6, <1>7 DEF IInv, NoPinLeaks

(* A handler whose generation has the reference claimed is refused.        *)
LEMMA LeaveStep ==
  ASSUME IInv, NEW t \in Threads, thread[t].pc \notin {"pinned", "running", "unpin"},
         Leave(t), UNCHANGED <<active, rows, gens>>
  PROVE  IInv'
<1>1. /\ thread' \in [Threads -> [pc : Stages, ref : PinIds \cup {NoPin}, gen : Nat]]
      /\ thread'[t].pc = "idle"
      /\ \A u \in Threads \ {t} : thread'[u] = thread[u]
  BY LeaveEffect DEF IInv
<1>2. Types' /\ Placed'
  BY <1>1 DEF IInv, Types, Placed
<1>3. ClaimedAlone' /\ RunningHolds' /\ NoPinLeaks'
  BY <1>1 DEF IInv, ClaimedAlone, RunningHolds, NoPinLeaks, Claiming
<1> QED
  BY <1>2, <1>3 DEF IInv

LEMMA ClaimStep ==
  ASSUME IInv, NEW t \in Threads, Claim(t)
  PROVE  IInv'
<1> DEFINE g == thread[t].gen
           ref == thread[t].ref
           refs == gens[g].claimed \cup {ref}
<1>1. thread[t].pc = "entered" /\ active' = active /\ rows' = rows
  BY DEF Claim, storeVars
<1>2. g \in 1..Len(gens) /\ ref \in PinIds /\ gens[g].claimed \in SUBSET PinIds
  BY <1>1, ThreadFacts
<1>3. CASE ~Free(g, ref)
  <2>1. Leave(t) /\ UNCHANGED gens
    BY <1>3 DEF Claim
  <2> QED
    BY <1>1, <2>1, LeaveStep
<1>4. CASE Free(g, ref)
  <2>1. Claims(g, refs) /\ Goto(t, "claimed") /\ ref \notin gens[g].claimed
    BY <1>4 DEF Claim, Claims, Free
  <2>2. refs \in SUBSET PinIds
    BY <1>2
  <2>3. /\ gens' \in Seq(Generations) /\ Len(gens') = Len(gens)
        /\ \A j \in 1..Len(gens) : /\ gens'[j].drain = gens[j].drain
                                   /\ gens'[j].claimed = IF j = g THEN refs ELSE gens[j].claimed
    <3> HIDE DEF refs
    <3> QED
      BY <1>2, <2>1, <2>2, ClaimsReplaced DEF IInv
  <2>4. /\ thread' \in [Threads -> [pc : Stages, ref : PinIds \cup {NoPin}, gen : Nat]]
        /\ \A u \in Threads : /\ thread'[u].pc = IF u = t THEN "claimed" ELSE thread[u].pc
                              /\ thread'[u].ref = thread[u].ref
                              /\ thread'[u].gen = thread[u].gen
    BY <2>1, GotoEffect DEF IInv, Stages
  <2>5. Types' /\ Placed'
    BY <1>1, <2>3, <2>4 DEF IInv, Types, Placed
  <2>6. \A u \in Threads : thread[u].pc \in Claiming =>
          /\ u # t /\ thread[u].gen \in 1..Len(gens)
          /\ thread[u].ref \in gens[thread[u].gen].claimed
          /\ thread[u].gen = g => thread[u].ref # ref
    BY <1>1, <2>1, ThreadFacts DEF IInv, ClaimedAlone, Claiming
  <2>7. ClaimedAlone'
    <3> SUFFICES ASSUME NEW u \in Threads, thread'[u].pc \in Claiming
                 PROVE  /\ thread[u].ref \in gens'[thread[u].gen].claimed
                        /\ \A v \in Threads \ {u} :
                             thread'[v].pc \in Claiming /\ thread[v].gen = thread[u].gen
                               => thread[v].ref # thread[u].ref
      BY <2>4 DEF ClaimedAlone
    <3>1. CASE u = t
      BY <1>2, <2>3, <2>4, <2>6, <3>1
    <3>2. CASE u # t
      <4>1. thread[u].pc \in Claiming
        BY <2>4, <3>2
      <4> QED
        BY <4>1, <2>3, <2>4, <2>6, <3>2 DEF IInv, ClaimedAlone
    <3> QED
      BY <3>1, <3>2
  <2>8. RunningHolds'
    BY <2>3, <2>4, <2>6 DEF IInv, RunningHolds, Claiming
  <2>9. NoPinLeaks'
    BY <1>1, <2>4 DEF IInv, NoPinLeaks
  <2> QED
    BY <2>5, <2>7, <2>8, <2>9 DEF IInv
<1> QED
  BY <1>3, <1>4

(* Taking the durable pin, and giving it back.                             *)
LEMMA PinRowStep ==
  ASSUME IInv, NEW t \in Threads, PinRow(t)
  PROVE  IInv'
<1> DEFINE ref == thread[t].ref
<1>1. thread[t].pc = "claimed" /\ gens' = gens
  BY DEF PinRow
<1>2. PICK pc \in {"pinned", "unpin", "unclaim"} :
        /\ Goto(t, pc)
        /\ active' = active /\ DOMAIN rows' = PinIds
        /\ \A p \in PinIds : p # ref => rows'[p] = rows[p]
        /\ pc = "unclaim" => rows' = rows
  <2>1. CASE Goto(t, "unclaim") /\ UNCHANGED <<active, rows>>
    BY <2>1 DEF IInv, Types
  <2>2. CASE Goto(t, "pinned") /\ Store!PinActive(CoordinateOf[RevisionOf[ref]], ref)
    BY <2>2 DEF IInv, Types, Store!PinActive
  <2>3. CASE Goto(t, "unpin") /\ Store!PinActive(CoordinateOf[RevisionOf[ref]], ref)
    BY <2>3 DEF IInv, Types, Store!PinActive
  <2> QED
    BY <2>1, <2>2, <2>3 DEF PinRow
<1>3. /\ thread' \in [Threads -> [pc : Stages, ref : PinIds \cup {NoPin}, gen : Nat]]
      /\ \A u \in Threads : /\ thread'[u].pc = IF u = t THEN pc ELSE thread[u].pc
                            /\ thread'[u].ref = thread[u].ref
                            /\ thread'[u].gen = thread[u].gen
  BY <1>2, GotoEffect DEF IInv, Stages
<1>4. Types' /\ Placed'
  BY <1>1, <1>2, <1>3 DEF IInv, Types, Placed
<1>5. ClaimedAlone'
  <2>1. \A u \in Threads : thread'[u].pc \in Claiming <=> thread[u].pc \in Claiming
    BY <1>1, <1>2, <1>3 DEF Claiming
  <2> QED
    BY <1>1, <1>3, <2>1 DEF IInv, ClaimedAlone
<1>6. RunningHolds'
  BY <1>1, <1>3 DEF IInv, RunningHolds
<1>7. NoPinLeaks'
  BY <1>1, <1>2, <1>3 DEF IInv, NoPinLeaks
<1> QED
  BY <1>4, <1>5, <1>6, <1>7 DEF IInv

LEMMA UnpinStep ==
  ASSUME IInv, NEW t \in Threads, Unpin(t)
  PROVE  IInv'
<1> DEFINE ref == thread[t].ref
<1>1. /\ thread[t].pc = "unpin" /\ gens' = gens /\ active' = active /\ Goto(t, "unclaim")
      /\ rows' = [rows EXCEPT ![ref] = NoPin]
  BY DEF Unpin, Store!ReleasePin
<1>2. ref \in PinIds
  BY <1>1, ThreadFacts
<1>3. /\ thread' \in [Threads -> [pc : Stages, ref : PinIds \cup {NoPin}, gen : Nat]]
      /\ \A u \in Threads : /\ thread'[u].pc = IF u = t THEN "unclaim" ELSE thread[u].pc
                            /\ thread'[u].ref = thread[u].ref
                            /\ thread'[u].gen = thread[u].gen
  BY <1>1, GotoEffect DEF IInv, Stages
<1>4. /\ DOMAIN rows' = PinIds
      /\ \A p \in PinIds : rows'[p] = IF p = ref THEN NoPin ELSE rows[p]
  BY <1>1, <1>2 DEF IInv, Types
<1>5. Types' /\ Placed'
  BY <1>1, <1>3, <1>4 DEF IInv, Types, Placed
<1>6. ClaimedAlone'
  <2>1. \A u \in Threads : thread'[u].pc \in Claiming <=> thread[u].pc \in Claiming
    BY <1>1, <1>3 DEF Claiming
  <2> QED
    BY <1>1, <1>3, <2>1 DEF IInv, ClaimedAlone
<1>7. RunningHolds'
  BY <1>1, <1>3 DEF IInv, RunningHolds
<1>8. NoPinLeaks'
  BY <1>1, <1>3, <1>4 DEF IInv, NoPinLeaks
<1> QED
  BY <1>5, <1>6, <1>7, <1>8 DEF IInv

(* The end of a provider call: the one that runs on the reference in this  *)
(* generation is the one that releases it.                                 *)
LEMMA FinishStep ==
  ASSUME IInv, NEW t \in Threads, Finish(t)
  PROVE  IInv'
<1> DEFINE g == thread[t].gen
           ref == thread[t].ref
           e == ReleaseHeld(gens[g].drain, ref)
<1>1. /\ thread[t].pc = "running" /\ active' = active /\ rows' = rows
      /\ Drains(g, e) /\ Goto(t, "unpin")
  BY DEF Finish, storeVars, Drains
<1>2. g \in 1..Len(gens) /\ ref \in PinIds /\ gens[g].drain \in Controllers
  BY <1>1, ThreadFacts
<1>3. /\ e \in Controllers
      /\ \A q \in PinIds \ {ref}, r \in Revisions : Holds(gens[g].drain, q, r) => Holds(e, q, r)
  BY <1>2, ReleaseKeeps
<1> HIDE DEF e
<1>4. /\ gens' \in Seq(Generations) /\ Len(gens') = Len(gens)
      /\ \A j \in 1..Len(gens) : /\ gens'[j].claimed = gens[j].claimed
                                 /\ gens'[j].drain = IF j = g THEN e ELSE gens[j].drain
  BY <1>1, <1>2, <1>3, DrainReplaced DEF IInv
<1>5. /\ thread' \in [Threads -> [pc : Stages, ref : PinIds \cup {NoPin}, gen : Nat]]
      /\ \A u \in Threads : /\ thread'[u].pc = IF u = t THEN "unpin" ELSE thread[u].pc
                            /\ thread'[u].ref = thread[u].ref
                            /\ thread'[u].gen = thread[u].gen
  BY <1>1, GotoEffect DEF IInv, Stages
<1>6. Types' /\ Placed'
  BY <1>1, <1>4, <1>5 DEF IInv, Types, Placed
<1>7. ClaimedAlone'
  <2>1. \A u \in Threads : thread'[u].pc \in Claiming <=> thread[u].pc \in Claiming
    BY <1>1, <1>5 DEF Claiming
  <2>2. \A u \in Threads : thread[u].pc \in Claiming => thread[u].gen \in 1..Len(gens)
    BY ThreadFacts DEF Claiming
  <2> QED
    BY <1>4, <1>5, <2>1, <2>2 DEF IInv, ClaimedAlone
<1>8. RunningHolds'
  <2> SUFFICES ASSUME NEW u \in Threads, thread'[u].pc = "running"
               PROVE  Holds(gens'[thread[u].gen].drain, thread[u].ref, RevisionOf[thread[u].ref])
    BY <1>5 DEF RunningHolds
  <2>1. u # t /\ thread[u].pc = "running"
    BY <1>5
  <2>2. /\ thread[u].ref \in PinIds /\ thread[u].gen \in 1..Len(gens)
        /\ RevisionOf[thread[u].ref] \in Revisions
        /\ Holds(gens[thread[u].gen].drain, thread[u].ref, RevisionOf[thread[u].ref])
    BY <2>1, ThreadFacts DEF IInv, RunningHolds
  <2>3. thread[u].gen = g => thread[u].ref # ref
    BY <1>1, <2>1 DEF IInv, ClaimedAlone, Claiming
  <2> QED
    BY <1>3, <1>4, <2>2, <2>3
<1>9. NoPinLeaks'
  BY <1>1, <1>5 DEF IInv, NoPinLeaks
<1> QED
  BY <1>6, <1>7, <1>8, <1>9 DEF IInv

LEMMA UnclaimStep ==
  ASSUME IInv, NEW t \in Threads, Unclaim(t)
  PROVE  IInv'
<1> DEFINE g == thread[t].gen
           ref == thread[t].ref
           refs == gens[g].claimed \ {ref}
<1>1. /\ thread[t].pc = "unclaim" /\ active' = active /\ rows' = rows
      /\ Claims(g, refs) /\ Leave(t)
  BY DEF Unclaim, storeVars, Claims
<1>2. g \in 1..Len(gens) /\ ref \in PinIds /\ refs \in SUBSET PinIds
  BY <1>1, ThreadFacts
<1>3. /\ gens' \in Seq(Generations) /\ Len(gens') = Len(gens)
      /\ \A j \in 1..Len(gens) : /\ gens'[j].drain = gens[j].drain
                                 /\ gens'[j].claimed = IF j = g THEN refs ELSE gens[j].claimed
  <2> HIDE DEF refs
  <2> QED
    BY <1>1, <1>2, ClaimsReplaced DEF IInv
<1>4. /\ thread' \in [Threads -> [pc : Stages, ref : PinIds \cup {NoPin}, gen : Nat]]
      /\ thread'[t].pc = "idle"
      /\ \A u \in Threads \ {t} : thread'[u] = thread[u]
  BY <1>1, LeaveEffect DEF IInv
<1>5. Types' /\ Placed'
  BY <1>1, <1>3, <1>4 DEF IInv, Types, Placed
<1>6. \A u \in Threads : thread'[u].pc \in Claiming =>
        /\ u # t /\ thread[u].pc \in Claiming /\ thread'[u] = thread[u]
        /\ thread[u].gen \in 1..Len(gens)
        /\ thread[u].gen = g => thread[u].ref # ref
  BY <1>1, <1>4, ThreadFacts DEF IInv, ClaimedAlone, Claiming
<1>7. ClaimedAlone'
  BY <1>3, <1>6 DEF IInv, ClaimedAlone
<1>8. RunningHolds'
  BY <1>3, <1>6 DEF IInv, RunningHolds, Claiming
<1>9. NoPinLeaks'
  BY <1>1, <1>4 DEF IInv, NoPinLeaks
<1> QED
  BY <1>5, <1>7, <1>8, <1>9 DEF IInv

-----------------------------------------------------------------------------
LEMMA InitIInv == Init => IInv
<1> SUFFICES ASSUME Init PROVE IInv
  OBVIOUS
<1>1. /\ active = Installed /\ rows = [p \in PinIds |-> NoPin]
      /\ gens = <<Generation(Installed)>> /\ thread = [t \in Threads |-> NoCall]
  BY DEF Init, Store!ContractInit
<1>2. Installed \in Pointing
  BY ServiceAssumption DEF Pointing
<1>3. gens \in Seq(Generations) /\ Len(gens) = 1
  BY <1>1, <1>2, NewGeneration
<1>4. Types
  BY <1>1, <1>2, <1>3 DEF Types, NoCall, Stages
<1> QED
  BY <1>1, <1>4 DEF IInv, Placed, ClaimedAlone, RunningHolds, NoPinLeaks, NoCall, Claiming

LEMMA NextIInv == IInv /\ [Next]_vars => IInv'
<1> SUFFICES ASSUME IInv, [Next]_vars PROVE IInv'
  OBVIOUS
<1>1. ASSUME NEW t \in Threads, Work(t) PROVE IInv'
  BY <1>1, DrainPreviousStep, ClaimStep, PinRowStep, AdmitRunStep, FinishStep, UnpinStep, UnclaimStep
     DEF Work
<1>2. ASSUME NEW t \in Threads, NEW ref \in RefsOf[t], Enter(t, ref) PROVE IInv'
  BY <1>2, EnterStep, ServiceAssumption
<1>3. ASSUME NEW c \in Coordinates, NEW r \in Revisions, SwitchPointer(c, r) PROVE IInv'
  BY <1>3, SwitchStep
<1>4. ASSUME NEW g \in 1..Current, NEW r \in Revisions, Deadline(g, r) PROVE IInv'
  BY <1>4, DeadlineStep DEF Current
<1>5. CASE UNCHANGED vars
  BY <1>5 DEF vars, IInv, Types, Placed, ClaimedAlone, RunningHolds, NoPinLeaks
<1> QED
  BY <1>1, <1>2, <1>3, <1>4, <1>5 DEF Next

(* The inductive invariant holds of every behaviour.                       *)
THEOREM ServiceInvariance == Spec => []IInv
  BY InitIInv, NextIInv, PTL DEF Spec

(* execute and the drain controller of the generation it entered: no       *)
(* revision retires under a running execution, which has its pin there,    *)
(* however pointers move and handlers interleave.                          *)
THEOREM NoRunOnRetiredHolds == Spec => []NoRunOnRetired
<1>1. IInv => NoRunOnRetired
  BY DEF IInv, RunningHolds, Holds, NoRunOnRetired, Running, DrainOf, RevisionRun
<1> QED
  BY <1>1, ServiceInvariance, PTL

(* The outer finally of execute: a durable pin is somebody's who will      *)
(* still release it.                                                       *)
THEOREM NoPinLeaksHolds == Spec => []NoPinLeaks
  BY ServiceInvariance, PTL DEF IInv
===============================================================================
