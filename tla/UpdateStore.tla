----------------------------- MODULE UpdateStore -----------------------------
(***************************************************************************)
(* SQLiteUpdateStore (update_store.py) as StagedUpdateManager              *)
(* (lifecycle.py) and the command line (runtime.py) drive it: revisions    *)
(* are staged, checked, activated and rolled back by several operators,    *)
(* each in a process with a catalogue snapshot of its own.  A call of the  *)
(* store is one BEGIN IMMEDIATE transaction and an action; a call that     *)
(* raises rolls back, so what remains of it is an operator who gives up.   *)
(* Between the snapshot, the read of the state and the transaction of one  *)
(* operator anything may happen.                                           *)
(***************************************************************************)
EXTENDS FiniteSets

CONSTANTS
  Coordinates, Revisions, CoordinateOf, Needs, PinIds, NoRevision, NoPin,
  Installed,   \* the revision the catalogue activates where no pointer is kept
  Operators    \* processes that run update commands

VARIABLES
  rows,      \* the table capability_updates
  pins,      \* the table revision_pins
  op,        \* what each operator has read and is about to do
  verdict    \* history: the last health result of a revision since it was staged

updatesVars == <<rows, pins, op, verdict>>

(* What the store and the catalogue together make active: the registry a   *)
(* process builds points where the store does (local_runtime.py).          *)
Effective == [c \in Coordinates |->
                IF rows[c].active # NoRevision THEN rows[c].active ELSE Installed[c]]

UpdatesContract == INSTANCE PointerContract WITH active <- Effective

ASSUME CatalogueAssumption ==
  /\ NoRevision \notin Revisions /\ Coordinates # {}
  /\ CoordinateOf \in [Revisions -> Coordinates]
  /\ Needs \in [Revisions -> SUBSET Revisions]
  /\ Installed \in UpdatesContract!Pointers /\ UpdatesContract!Compatible(Installed)

Health  == {"none", "pending", "passed", "failed"}
Unmanaged == [active |-> NoRevision, previous |-> NoRevision,
              staged |-> NoRevision, health |-> "none"]
Idle == [pc |-> "idle", coordinate |-> CHOOSE c \in Coordinates : TRUE,
         catalogue |-> Installed, expected |-> NoRevision]

UpdatesTypeOK ==
  /\ \A c \in Coordinates :
       /\ {rows[c].active, rows[c].previous, rows[c].staged} \ {NoRevision}
            \subseteq {r \in Revisions : CoordinateOf[r] = c}
       /\ rows[c].health \in Health
       /\ rows[c].staged = NoRevision <=> rows[c].health = "none"
  /\ pins \in [PinIds -> Revisions \cup {NoPin}]
  /\ op \in [Operators -> [pc : {"idle", "bootstrap", "read", "ready"},
                           coordinate : Coordinates,
                           catalogue : UpdatesContract!Pointers,
                           expected : Revisions \cup {NoRevision}]]
  /\ verdict \in [Revisions -> Health]

UpdatesInit ==
  /\ rows = [c \in Coordinates |-> Unmanaged]
  /\ pins = [p \in PinIds |-> NoPin]
  /\ op = [o \in Operators |-> Idle]
  /\ verdict = [r \in Revisions |-> "none"]

-----------------------------------------------------------------------------
(* _update_manager and _bootstrap_update_pointer: the operator's process   *)
(* builds its registry and looks whether the capability has a row.         *)
Begin(o, c) ==
  /\ op[o].pc = "idle"
  /\ op' = [op EXCEPT ![o] =
       [pc |-> IF /\ rows[c].active = NoRevision
                  /\ rows[c].staged = NoRevision
                  /\ Installed[c] # NoRevision
               THEN "bootstrap" ELSE "read",
        coordinate |-> c, catalogue |-> Effective, expected |-> NoRevision]]
  /\ UNCHANGED <<rows, pins, verdict>>

(* bootstrap_active: record the catalogue's pointer unless the store has a *)
(* row by now, in which case the two must agree.                           *)
Bootstrap(o) ==
  LET c == op[o].coordinate
      r == op[o].catalogue[c]
  IN /\ op[o].pc = "bootstrap"
     /\ \/ /\ rows[c].active = NoRevision /\ rows[c].staged = NoRevision
           /\ rows' = [rows EXCEPT ![c] = [Unmanaged EXCEPT !.active = r]]
        \/ rows[c].active = r /\ UNCHANGED rows
     /\ op' = [op EXCEPT ![o].pc = "read"]
     /\ UNCHANGED <<pins, verdict>>

(* manager.state: the active revision the operator expects to replace.     *)
Read(o) ==
  /\ op[o].pc = "read"
  /\ op' = [op EXCEPT ![o].pc = "ready",
                      ![o].expected = rows[op[o].coordinate].active]
  /\ UNCHANGED <<rows, pins, verdict>>

(* _expect_active: the compare of the compare-and-set.                     *)
ActiveAsExpected(o) == rows[op[o].coordinate].active = op[o].expected

Done(o) == op' = [op EXCEPT ![o] = Idle]

(* stage: one revision at a time; staging it again keeps its health.       *)
Stage(o, r) ==
  LET c == op[o].coordinate
  IN /\ op[o].pc = "ready" /\ CoordinateOf[r] = c
     /\ ActiveAsExpected(o)
     /\ rows[c].staged \in {NoRevision, r}
     /\ rows' = [rows EXCEPT ![c].staged = r,
                             ![c].health = IF rows[c].staged = r THEN @ ELSE "pending"]
     /\ verdict' = IF rows[c].staged = r THEN verdict
                   ELSE [verdict EXCEPT ![r] = "pending"]
     /\ Done(o) /\ UNCHANGED pins

(* Mutant: a result of any revision counts for the one that is staged.     *)
ForAnyStaged(c, r) == rows[c].staged # NoRevision /\ r \in Revisions

(* record_health: the result of an external check of the staged revision.  *)
ForStaged(c, r) == rows[c].staged = r

RecordHealth(o, r, result) ==
  LET c == op[o].coordinate
  IN /\ op[o].pc = "ready" /\ CoordinateOf[r] = c
     /\ ForStaged(c, r)
     /\ rows' = [rows EXCEPT ![c].health = result]
     /\ verdict' = [verdict EXCEPT ![r] = result]
     /\ Done(o) /\ UNCHANGED pins

(* _validate_pointers: the pointers of the store, read in the transaction, *)
(* over the activations of the operator's registry.                        *)
Combined(o, pointers) ==
  [c \in Coordinates |-> IF pointers[c] # NoRevision THEN pointers[c]
                         ELSE op[o].catalogue[c]]

Validated(o, r) ==
  UpdatesContract!Compatible(Combined(o, [c \in Coordinates |->
    IF c = op[o].coordinate THEN r ELSE rows[c].active]))

(* The row after its pointer moved: nothing staged, the old pointer kept.  *)
Moved(row, r) == [active |-> r, previous |-> row.active,
                  staged |-> NoRevision, health |-> "none"]

(* The history holds results of the current staging only.                  *)
Forgotten(c) ==
  [r \in Revisions |-> IF CoordinateOf[r] = c THEN "none" ELSE verdict[r]]

Activate(o, r) ==
  LET c == op[o].coordinate
  IN /\ op[o].pc = "ready" /\ CoordinateOf[r] = c
     /\ ActiveAsExpected(o)
     /\ rows[c].staged = r /\ rows[c].health = "passed"
     /\ Validated(o, r)
     /\ rows' = [rows EXCEPT ![c] = Moved(@, r)]
     /\ verdict' = Forgotten(c)
     /\ Done(o) /\ UNCHANGED pins

Rollback(o) ==
  LET c == op[o].coordinate
  IN /\ op[o].pc = "ready" /\ op[o].expected # NoRevision
     /\ ActiveAsExpected(o)
     /\ rows[c].previous # NoRevision
     /\ Validated(o, rows[c].previous)
     /\ rows' = [rows EXCEPT ![c] = Moved(@, rows[c].previous)]
     /\ verdict' = Forgotten(c)
     /\ Done(o) /\ UNCHANGED pins

(* A check of the call, the artifact's verification or the compare raised. *)
GiveUp(o) ==
  /\ op[o].pc # "idle"
  /\ Done(o)
  /\ UNCHANGED <<rows, pins, verdict>>

(* pin_active and release_pin, by any execution.                           *)
PinActive(c, p) ==
  /\ rows[c].active # NoRevision
  /\ pins[p] \in {NoPin, rows[c].active}
  /\ pins' = [pins EXCEPT ![p] = rows[c].active]
  /\ UNCHANGED <<rows, op, verdict>>

ReleasePin(p) ==
  /\ pins' = [pins EXCEPT ![p] = NoPin]
  /\ UNCHANGED <<rows, op, verdict>>

UpdatesNext ==
  \/ \E o \in Operators :
       \/ \E c \in Coordinates : Begin(o, c)
       \/ Bootstrap(o) \/ Read(o) \/ Rollback(o) \/ GiveUp(o)
       \/ \E r \in Revisions :
            \/ Stage(o, r) \/ Activate(o, r)
            \/ \E result \in {"passed", "failed"} : RecordHealth(o, r, result)
  \/ \E p \in PinIds :
       ReleasePin(p) \/ \E c \in Coordinates : PinActive(c, p)

UpdatesSpec == UpdatesInit /\ [][UpdatesNext]_updatesVars

-----------------------------------------------------------------------------
(* Properties.                                                             *)

(* The revisions in force always meet one another's dependencies, although *)
(* two operators move the pointers of different capabilities at once, each *)
(* with a catalogue that is out of date (activate and rollback validate    *)
(* inside the transaction).                                                *)
AlwaysCompatible == UpdatesContract!Compatible(Effective)

(* Only a revision whose last health check since it was staged passed, or  *)
(* the one that was active before, becomes active (record_health and       *)
(* activate agree on which revision the result is of).                     *)
Proven(c, r) == \/ verdict[r] = "passed"
                \/ r = rows[c].previous
                \/ rows[c].active = NoRevision /\ r = Installed[c]

OnlyHealthyActivated ==
  [][\A c \in Coordinates :
       rows'[c].active # rows[c].active => Proven(c, rows'[c].active)]_updatesVars

(* A pointer moves only for an operator who saw the revision it replaces   *)
(* (the compare-and-set of _expect_active).                                *)
NoLostUpdate ==
  [][\A c \in Coordinates :
       (rows[c].active # NoRevision /\ rows'[c].active # rows[c].active) =>
         \E o \in Operators : /\ op[o].pc = "ready"
                              /\ op[o].coordinate = c
                              /\ op[o].expected = rows[c].active
                              /\ op'[o].pc = "idle"]_updatesVars

(* The tables implement the contract executions rely on: switches between  *)
(* compatible pointers, and pins that never follow a pointer.              *)
UpdatesKeepContract == UpdatesContract!ContractInit(Installed) /\ [][UpdatesContract!ContractNext]_<<Effective, pins>>

(* What an operator relies on: the revisions in force fit, a pointer moves *)
(* only to a revision that was proven and only from the one that was seen, *)
(* and executions see the contract.                                        *)
UpdatesAreSafe ==
  /\ [](UpdatesTypeOK /\ AlwaysCompatible)
  /\ OnlyHealthyActivated /\ NoLostUpdate /\ UpdatesKeepContract
=============================================================================
