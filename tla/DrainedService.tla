---------------------------- MODULE DrainedService ----------------------------
(***************************************************************************)
(* Executions while revisions are switched: DrainedCapabilityHubService    *)
(* (drained_service.py) under _RefreshingDrainedHttpService (runtime.py).  *)
(* Whenever the active pointers have changed, the next request makes a new *)
(* generation of the service, with a drain controller of its own, and      *)
(* drains in the previous generation the revisions that are no longer      *)
(* active.  An execution keeps to the generation it entered: it claims its *)
(* reference there, pins the active revision in the durable store, is      *)
(* admitted by the controller, calls the provider and gives all three up.  *)
(* The store is taken at its contract (PointerContract), the controller as *)
(* the operators of Draining.                                              *)
(***************************************************************************)
EXTENDS Draining, Sequences

CONSTANTS
  Needs, NoRevision,   \* see PointerContract
  Installed,      \* the pointers at start
  Threads,        \* request handlers
  RefsOf,         \* the execution references each of them is asked to run
  RevisionOf,     \* the revision a reference was signed for
  Cancellable,    \* the revisions whose executions can be cancelled
  MaxSwitches     \* bound: pointers moved by operators

ASSUME ServiceAssumption ==
  /\ NoRevision \notin Revisions
  /\ Needs \in [Revisions -> SUBSET Revisions]
  /\ Installed \in [Coordinates -> Revisions \cup {NoRevision}]
  /\ RevisionOf \in [PinIds -> Revisions]
  /\ RefsOf \in [Threads -> SUBSET PinIds]
  /\ Cancellable \subseteq Revisions
  /\ MaxSwitches \in Nat

VARIABLES
  active, rows,   \* the store: its pointers, and the table revision_pins
  switches,       \* how often a pointer has moved
  gens,           \* the generations, oldest first: the last one is current
  retiring,       \* revisions the request that made the current generation,
                  \* which holds the lock, has still to drain in the one before
  timers,         \* drains whose deadline will be looked at
  thread          \* the execution of each handler

vars == <<active, rows, switches, gens, retiring, timers, thread>>
storeVars == <<active, rows, switches>>

Store == INSTANCE PointerContract WITH pins <- rows

Current == Len(gens)

NoCall == [pc |-> "idle", ref |-> NoPin, gen |-> 0]
Stages == {"idle", "refreshing", "entered", "claimed", "pinned", "running",
           "unpin", "unclaim"}

(* _make_generation: the controller knows the active revisions.            *)
Generation(pointers) ==
  [activations |-> pointers,
   drain |-> [Empty EXCEPT
                !.revisions = [r \in Revisions |->
                   IF r \in Store!Selected(pointers) THEN "accepting" ELSE "unknown"],
                !.coordinates = [c \in Coordinates |->
                   IF pointers[c] # NoRevision THEN "accepting" ELSE "unknown"]],
   claimed |-> {}]

TypeOK ==
  /\ Store!ContractTypes
  /\ switches \in 0..MaxSwitches
  /\ \A g \in 1..Current :
       gens[g] \in [activations : Store!Pointers, drain : Controllers,
                    claimed : SUBSET PinIds]
  /\ retiring \subseteq Revisions
  /\ timers \subseteq (1..Current) \X Revisions
  /\ thread \in [Threads -> [pc : Stages, ref : PinIds \cup {NoPin}, gen : 0..Current]]
  /\ retiring = {} <=> \A t \in Threads : thread[t].pc # "refreshing"

Init ==
  /\ Store!ContractInit(Installed)
  /\ switches = 0
  /\ gens = <<Generation(Installed)>>
  /\ retiring = {}
  /\ timers = {}
  /\ thread = [t \in Threads |-> NoCall]

-----------------------------------------------------------------------------
(* An operator activates or rolls back a revision (UpdateStore).           *)
SwitchPointer(c, r) ==
  /\ switches < MaxSwitches
  /\ r # active[c]
  /\ Store!Switch(c, r)
  /\ switches' = switches + 1
  /\ UNCHANGED <<gens, retiring, timers, thread>>

Goto(t, pc) == thread' = [thread EXCEPT ![t].pc = pc]

Leave(t) == thread' = [thread EXCEPT ![t] = NoCall]

(* _service: under the lock, compare the pointers with those of the        *)
(* current generation and, when they differ, make the next one.            *)
Outdated(pointers) ==
  {r \in Store!Selected(gens[Current].activations) : pointers[CoordinateOf[r]] # r}

(* A reference comes from a load, in a generation that had its revision.   *)
Signed(ref) ==
  \E g \in 1..Current : RevisionOf[ref] \in Store!Selected(gens[g].activations)

Enter(t, ref) ==
  /\ thread[t].pc = "idle"
  /\ Signed(ref)
  /\ retiring = {}
  /\ IF active = gens[Current].activations
     THEN /\ thread' = [thread EXCEPT ![t] = [pc |-> "entered", ref |-> ref, gen |-> Current]]
          /\ UNCHANGED <<gens, retiring>>
     ELSE /\ thread' = [thread EXCEPT ![t] =
                          [pc |-> IF Outdated(active) = {} THEN "entered" ELSE "refreshing",
                           ref |-> ref, gen |-> Current + 1]]
          /\ gens' = Append(gens, Generation(active))
          /\ retiring' = Outdated(active)
  /\ UNCHANGED <<storeVars, timers>>

EnterAfterLast(t, r) == Goto(t, IF retiring = {r} THEN "entered" ELSE "refreshing")

(* _drain_changed: one revision of the previous generation begins to drain *)
(* and, unless it is idle, a timer will look at it at its deadline.        *)
DrainPrevious(t, r) ==
  LET old   == thread[t].gen - 1
      after == BeginRevisionDrain(gens[old].drain, {r})
  IN /\ thread[t].pc = "refreshing"
     /\ r \in retiring
     /\ gens' = [gens EXCEPT ![old].drain = after]
     /\ timers' = IF after.revisions[r] = "retired" THEN timers
                  ELSE timers \cup {<<old, r>>}
     /\ retiring' = retiring \ {r}
     /\ EnterAfterLast(t, r)
     /\ UNCHANGED storeVars

(* Mutant: two executions of one reference may share a generation.         *)
Unclaimed(g, ref) == ref \in PinIds

(* execute: one execution of a reference at a time in a generation.        *)
Free(g, ref) == ref \notin gens[g].claimed

Claim(t) ==
  LET g == thread[t].gen
      ref == thread[t].ref
  IN /\ thread[t].pc = "entered"
     /\ \/ /\ Free(g, ref)
           /\ gens' = [gens EXCEPT ![g].claimed = @ \cup {ref}]
           /\ Goto(t, "claimed")
        \/ ~Free(g, ref) /\ Leave(t) /\ UNCHANGED gens
     /\ UNCHANGED <<storeVars, retiring, timers>>

(* The durable pin: of whatever revision is active by now; when it is not  *)
(* the one the reference was signed for, the pin is given back.            *)
RightRevision(t) == active[CoordinateOf[RevisionOf[thread[t].ref]]] = RevisionOf[thread[t].ref]

PinRow(t) ==
  LET ref == thread[t].ref
      c   == CoordinateOf[RevisionOf[ref]]
  IN /\ thread[t].pc = "claimed"
     /\ \/ Store!PinActive(c, ref) /\ Goto(t, IF RightRevision(t) THEN "pinned" ELSE "unpin")
        \/ ~Store!Pinnable(c, ref) /\ Goto(t, "unclaim") /\ UNCHANGED <<active, rows>>
     /\ UNCHANGED <<switches, gens, retiring, timers>>

(* The controller admits the execution, or it is refused.                  *)
AdmitRun(t) ==
  LET g == thread[t].gen
      ref == thread[t].ref
      r == RevisionOf[ref]
      d == gens[g].drain
      cancellable == r \in Cancellable
  IN /\ thread[t].pc = "pinned"
     /\ \/ /\ CanAdmit(d, r, ref, cancellable)
           /\ gens' = [gens EXCEPT ![g].drain = Admit(d, r, ref, cancellable)]
           /\ Goto(t, "running")
        \/ /\ ~CanAdmit(d, r, ref, cancellable)
           /\ Goto(t, "unpin") /\ UNCHANGED gens
     /\ UNCHANGED <<storeVars, retiring, timers>>

(* The provider call ends, by itself, cancelled or at its deadline; the    *)
(* inner finally releases the controller's pin.                            *)
ReleaseHeld(d, ref) == IF d.pins[ref] = NoPin THEN d ELSE Release(d, ref)

(* Mutant: an execution that was asked to stop never releases.             *)
FinishUnlessAsked(t) ==
  LET g == thread[t].gen IN
  /\ thread[t].pc = "running"
  /\ gens[g].drain.pins[thread[t].ref] # NoPin => ~gens[g].drain.pins[thread[t].ref].asked
  /\ gens' = [gens EXCEPT ![g].drain = ReleaseHeld(@, thread[t].ref)]
  /\ Goto(t, "unpin")
  /\ UNCHANGED <<storeVars, retiring, timers>>

Finish(t) ==
  LET g == thread[t].gen IN
  /\ thread[t].pc = "running"
  /\ gens' = [gens EXCEPT ![g].drain = ReleaseHeld(@, thread[t].ref)]
  /\ Goto(t, "unpin")
  /\ UNCHANGED <<storeVars, retiring, timers>>

(* Mutant: the outer finally gives up the claim before the durable pin.    *)
UnpinLater(t) ==
  /\ thread[t].pc = "unpin"
  /\ Goto(t, "unclaim")
  /\ UNCHANGED <<storeVars, gens, retiring, timers>>

(* The outer finally: release the durable pin, then the claim.             *)
Unpin(t) ==
  /\ thread[t].pc = "unpin"
  /\ Store!ReleasePin(thread[t].ref)
  /\ Goto(t, "unclaim")
  /\ UNCHANGED <<switches, gens, retiring, timers>>

Unclaim(t) ==
  /\ thread[t].pc = "unclaim"
  /\ gens' = [gens EXCEPT ![thread[t].gen].claimed = @ \ {thread[t].ref}]
  /\ Leave(t)
  /\ UNCHANGED <<storeVars, retiring, timers>>

(* _advance_safely at the deadline of a drain: what is still running and   *)
(* can be cancelled is asked to stop, once.                                *)
Deadline(g, r) ==
  /\ <<g, r>> \in timers
  /\ timers' = timers \ {<<g, r>>}
  /\ gens' = IF gens[g].drain.revisions[r] = "draining"
             THEN [gens EXCEPT ![g].drain = Advance(@, {r})] ELSE gens
  /\ UNCHANGED <<storeVars, retiring, thread>>

Work(t) ==
  \/ \E r \in Revisions : DrainPrevious(t, r)
  \/ Claim(t) \/ PinRow(t) \/ AdmitRun(t) \/ Finish(t) \/ Unpin(t) \/ Unclaim(t)

Next ==
  \/ \E c \in Coordinates, r \in Revisions : SwitchPointer(c, r)
  \/ \E t \in Threads : Work(t) \/ \E ref \in RefsOf[t] : Enter(t, ref)
  \/ \E g \in 1..Current, r \in Revisions : Deadline(g, r)

(* A handler that has entered runs to its end: locks are held briefly, and *)
(* provider calls end at the supervisor's deadline at the latest.          *)
Spec == Init /\ [][Next]_vars /\ \A t \in Threads : WF_vars(Work(t))

-----------------------------------------------------------------------------
(* Properties.                                                             *)

RevisionRun(t) == RevisionOf[thread[t].ref]
DrainOf(t)     == gens[thread[t].gen].drain
Running        == {t \in Threads : thread[t].pc = "running"}

(* While its provider call runs, an execution holds the durable pin of its *)
(* revision (completion-matrix.md: in-flight revision pins are retained).  *)
RunningIsPinned == \A t \in Running : rows[thread[t].ref] = RevisionRun(t)

(* No revision of a generation retires under an execution that runs on it, *)
(* and each running execution has a pin with the controller it entered.    *)
NoRunOnRetired ==
  \A t \in Running :
    /\ DrainOf(t).revisions[RevisionRun(t)] \in {"accepting", "draining"}
    /\ DrainOf(t).pins[thread[t].ref] # NoPin

(* Work on a revision the current generation no longer has is drained, in  *)
(* whatever generation it runs: it will be asked to stop at the deadline.  *)
SupersededIsDrained ==
  \A t \in Running :
    (retiring = {} /\ RevisionRun(t) \notin Store!Selected(gens[Current].activations))
      => DrainOf(t).revisions[RevisionRun(t)] # "accepting"

(* No durable pin outlives the execution that took it.                     *)
NoPinLeaks ==
  \A ref \in PinIds : rows[ref] # NoPin =>
    \E t \in Threads : thread[t].ref = ref
                       /\ thread[t].pc \in {"pinned", "running", "unpin"}

(* Every request is answered.                                              *)
EveryCallEnds == \A t \in Threads : thread[t].pc # "idle" ~> thread[t].pc = "idle"

DrainIs(g, r, state) == g <= Current /\ gens[g].drain.revisions[r] = state

(* Every drain of every generation ends.                                   *)
EveryDrainEnds ==
  \A g \in 1..(MaxSwitches + 1), r \in Revisions :
    DrainIs(g, r, "draining") ~> DrainIs(g, r, "retired")

(* Every request is answered, and every drain it held up ends.             *)
CallsAndDrainsEnd == EveryCallEnds /\ EveryDrainEnds
=============================================================================
