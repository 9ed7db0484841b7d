# CapabilityHub: specifications, model checking and proofs

CapabilityHub stands between language-model agents and the tools they use: it
keeps a catalogue of capabilities, answers searches, loads manifests and
executes operations through providers, under budgets, approvals and audit.
This directory models the parts of it that keep state and are used by several
threads, processes or requests at a time.  Each module is written from the
source (`src/src/capabilityhub/*.py`); `PROJECT.json` maps every definition to
the lines it stands for.

Contents: 1 inventory of the system; 2 modules and how they correspond to the
code; 3 runs, bounds and what they show; 4 fairness; 5 proofs; 6 where the code
departs from its documentation; 7 what is only model-checked and what is not
modelled; 8 plan.

## 1. Inventory

### What a call passes through

**Capability registry and admission** (`registry.py`, `admission.py`,
`activation_lock.py`, `projections.py`, `compatibility.py`).  State: registered
revisions, the active one per coordinate in order, exclusions by the projection
policy.  Operations: register a batch, activate, deactivate, install and
activate at once, export and validate an activation lock.  Hard: each change is
judged on the whole graph that results, with version ranges, optional
dependencies, exclusive values and routes that clash.  Right when what is
active is always closed and conflict-free, nothing is deactivated by the way,
and a lock is accepted exactly while its activations are in force.

**Local catalogue and its monitor** (`local_catalog.py`, `local_runtime.py`),
**degraded mode** (`degraded.py`, `dependency_observer.py`).  State: a snapshot
with the fingerprint of the inputs it was built from and the time of the next
check.  Operations: `snapshot`, its re-check, discovery and activation in
rounds; the decision whether a search, a load or a lifecycle change may use
what is served.  Hard: files, preferences and pointers change between the steps
of a refresh, and a refresh may fail.  Right when no edit is missed but for
pointers that moved away and back while a snapshot was built, activation
leaves nothing out that would fit, and a caller who forces a check is never
served a stale catalogue as a fresh one.

**Search, loading and execution references** (`service.py`, `references.py`,
`search.py`).  State: the signing key of the process, grants per execution
reference.  Operations: search, load, rehydrate, issue an approval reference,
execute; forks of the service on a new generation, restarts.  Hard: references are
kept, presented late, by another session, after the revision was replaced; a call
runs on the generation it was handed, outside the lock, with waits between its
checks and the provider.  Right when what runs is a release that was active in
the generation handed to the call, was loaded in that session, and not longer
ago than the reference lives when it is verified.

**Secret broker** (`secret_broker.py`).  State: leases with scope, expiry and
remaining uses, under a lock.  Operations: issue, consume, revoke.  Hard: the
clock is read before the lock, the value after it.  Right when a lease is
spent no more often than the `max_uses` of its own issue, in its scope, and never when gone.

**Approved call** (`runtime.py` 1540-1660).  A local execution consumes a durable
approval, turns it into an approval reference, then executes; it may be refused
or die in between.  Right when one approval lets the provider act once, on the
intent that was approved.

**Execution with idempotency** (`service.py`, `idempotency.py`).
`CapabilityHubService.execute` reserves budget, is admitted by the idempotency
store, calls the provider, reconciles the budget and completes its record:
separate transactions in separate stores.  Hard: duplicates of a request run
concurrently; a process dies, or a transaction raises, between any two steps;
records expire; another process recovers records in progress.  Right when an
operation is applied once per record, replays are faithful, an unknown outcome
is never retried, and every call is answered with its budget settled.

**Circuit breaker and retries** (`resilience.py`).  State: a bounded
least-recently-used table of circuits (closed, open, half-open, a generation,
counts) under one lock, and per request an attempt counter and a deadline.
Operations: acquire, record_success, record_failure, eviction; the retry loop
around a provider call.  Hard: outcomes arrive after the circuit has opened,
recovered or been evicted; retries of calls whose effect is unknown.  Right when
one probe at a time decides a half-open circuit, late outcomes decide nothing,
no permit is lost, nothing is applied twice, and every request ends.

**Process supervision of providers** (`supervision.py`).  State: a table of
workers, their pipes and jobs, the set of cancelled references, the lock of the
environment.  Operations: execute, from sealing the environment to clean-up;
cancel.  Hard: a cancel flags, stops and
closes while the caller polls, receives and joins without the lock; a second
call under a reference in use must not disturb the first; workers hang, also in
the midst of a message, flood or exit.  Right when no worker outlives its call, a
cancel stops the execution it was for and no later one, what a caller had not
received when a cancel returned True is not answered, and every call ends.

**Lifecycle draining** (`draining.py`, `drained_service.py`, and
`_RefreshingDrainedHttpService` in `runtime.py` 1969-2171).  State: per
generation of the service, a drain controller (states of revisions and
capabilities, pins of executions in flight) and the set of claimed references;
shared, the table of durable pins.  Operations: register, admit, release,
begin_drain, advance, force_retire; execute; refresh when pointers change;
deadlines by timers.  Hard: pointers move while executions of several
generations run, are admitted or finish.  Right when nothing retires under an
execution, executions keep their pins and leave none behind, superseded work
is drained, and drains and requests end.

**Model reasoning** (`reasoning.py`, `reasoning_store.py`, `orchestration.py`,
`service_adapter.py`).  State: per task a tier, escalations and attempts, the
operation that failed last, a budget of tokens.  Operations: route, decide,
reserve and settle the tokens of a model call, record a result; the durable
adviser.  Hard: operations of one task overlap between these steps.  Right when
retries on one failure and escalations are bounded, tokens are charged once,
and both stores advise the same.

**Control planes** (`auth.py`, `http_control.py`, `admin_control.py`,
`remote_control.py`).  State: session key and digest, consumed nonces, the
server's phase, event numbers, the certificate each remote adapter serves.
Operations: start, close, issue a ticket, accept, verify, consume, dispatch,
answer.  Hard: every request has a thread that outlives a close; a ticket is
verified by many before one consumes it.  Right when a ticket lets in once per
session, and in a later one only a request that was verified before the close,
an answer says what was done, and event numbers are given once.

### What is kept

**Durable hierarchical budgets** (`hierarchical_budget.py`).
State: SQLite tables of scopes (a forest: tenant, principal, session ...), hard
limits, counter rows (used, reserved) and reservations.  Operations: create or
configure a scope with a compare-and-set on its limits, reserve, reconcile,
cancel; each is one `BEGIN IMMEDIATE` transaction that walks the chain from a
scope to its root.  Hard: many processes settle and reserve on overlapping
chains while limits move.  Right when no cap is ever exceeded at any level,
children are never allotted more than their parent, the counters are exactly
the sums over reservations, limits are not overwritten unseen, and every
reservation can be given back.

**Budgets in memory and flat durable budgets** (`budget.py`, `budget_store.py`).
State: nodes with limits and counters, each with a lock; reservations.
Operations: reserve, reconcile and cancel, taking the locks of a chain one by
one; configure, which keeps limits of zero.  Right when
counters agree with reservations at every step, both keep the budget contract,
and locks never tie threads up.

**Approval workflow** (`approval_store.py`).
State: a table of approvals (pending, approved, denied, consumed, expired) with
time stamps.  Operations: request, decide, consume, get, list; each sweeps what
has expired.  Hard: the clock is read before the transaction gets the database,
so a call may go by an old clock; a call that raises rolls its sweep back; two
callers consume one approval.  Right when an approval is used once, in time,
for its own intent, and final states are final.

**Staged updates** (`update_store.py`, `lifecycle.py`).
State: per capability the active, previous and staged revision and a health
result; pins by identifier.  Operations: bootstrap, stage, record_health,
activate, rollback, pin_active, release_pin.  Hard: operators work from
catalogue snapshots and readings that are out of date.  Right when the
revisions in force always satisfy one another's dependencies, only what passed
its check becomes active, nobody replaces a revision unseen, and pins do not
follow pointers.

**Supply-chain verification** (`supply_chain.py`, `supply_chain_bundle.py`).
State: the last checkpoint of the log that was seen.  Operations: verify a bundle
(inclusion, its checkpoint, the log's current one) in each transition of an
update.  Hard: several verifications overlap; the log may fork; a process
restarts.  Right when only what the log holds is concluded to be in it, and what a
durable observer accepts goes back neither in size nor in time and shows one tree
of each size.

**Grants** (`grant_policy.py`, `authorization.py`): versioned documents replaced by
compare and set with an audit, a snapshot per session, an intersection over a dependency
closure, which compares roots as they are written where a decision resolves them.  **Tenant state** (`tenancy.py`): entries with a lifetime,
ordered event streams, quotas, clocks read before the transaction.  **Context
removal and residency** (`context_removal.py`, `residency.py`,
`context_state.py`, `scoped_context_state.py`): instructions to a client that
answers late, twice or never; an inventory with eviction in memory, in a file or
in a row.  **Retrieval index** (`rag_index.py`, `providers/rag.py`): three tables
that must agree, and readers per passage.  **Metrics** (`observability.py`):
bounded series in memory and durable sums.  **Audit** (`secure_audit.py`,
`retention.py`): a chained file, a checkpoint beside it and archived segments,
with processes that die between two writes.  **Preferences** (`state.py`): two
files replaced whole without a lock.

### How they interact

`runtime.py` wires everything.  A request enters a control plane, which
authenticates it, and the refreshing service, which compares the active pointers
(staged updates, local catalogue) with its current generation and forks a new
one when they differ; the drained service claims the reference, pins the
revision durably, asks the drain controller for admission, and calls
`CapabilityHubService.execute`, which checks the reference and its grants,
reserves in the budget ledger, is admitted by the idempotency store, and calls
the provider through `ResilientProviderExecutor` and the process supervisor.  An
execution that needs approval consumes it first.  Audit events and spans are
emitted along the way.  The stores share nothing but files, so each hand-over is
a window in which others act, and a crash can fall.

### Components that are not modelled

| Component | Why |
| --- | --- |
| Providers (`providers/*`, `provider_config.py`; except `providers/rag.py`) | external calls: in the models a provider succeeds, fails surely, or fails with unknown effect |
| Connections and probes (`connections.py`) | input and output |
| Manifests and import (`manifest*.py`, `models.py`, `migration.py`, `openapi_import.py`) | parsers and immutable values |
| Release certification, production profile | batch validation of evidence files |
| Command line, application update, session index | argument parsing, one download, read-only indexing |

`PROJECT.json` says of every component what of it is modelled.

## 2. Modules

| Module | What it is | Code |
| --- | --- | --- |
| `BudgetTree` | scopes in a forest, amounts, limits: shared vocabulary | `hierarchical_budget.py`, `budget.py` |
| `BudgetContract` | abstract: reservations and sums, no counters | `budget.py` docstrings and types |
| `HierBudget` | the store; implements `BudgetContract` | `hierarchical_budget.py` |
| `BudgetLedger` | nodes with locks, threads that take chains of them; implements `BudgetContract` | `budget.py`, `budget_store.py` |
| `CircuitBreaker` | the breaker and its table | `resilience.py` 100-237 |
| `ResilientExecutor` | the retry loop; EXTENDS `CircuitBreaker` | `resilience.py` 57-93, 240-333 |
| `ApprovalContract` | abstract: one decision, one use | `approval_store.py` |
| `ApprovalStore` | the table with its clocks; implements `ApprovalContract` | `approval_store.py` |
| `ApprovedCall` | a call and the approval it consumes | `runtime.py` |
| `Execution` | service, budget, idempotency store and provider together | `service.py`, `idempotency.py` |
| `PointerContract` | abstract: compatible pointers, steady pins | `update_store.py`, `registry.py` |
| `UpdateStore` | the table and its operators; implements `PointerContract` | `update_store.py`, `lifecycle.py`, `runtime.py` |
| `Draining` | the drain controller as operators on a record | `draining.py` |
| `DrainController` | one controller under any order of calls; EXTENDS `Draining` | `draining.py` |
| `DrainedService` | generations, each with a controller, over `PointerContract` | `drained_service.py`, `runtime.py` |
| `RegistryRules` | when a set of active capabilities is admissible | `registry.py`, `projections.py` |
| `Registry`, `Catalog` | the registry; the monitor that rebuilds one from files | `registry.py`, `admission.py`, `activation_lock.py`; `local_catalog.py`, `local_runtime.py`, `degraded.py` |
| `Disclosure` | search, load, rehydrate, execute by reference | `service.py`, `references.py` |
| `Secrets` | the broker and its consumers | `secret_broker.py` |
| `ControlPlane` | servers, authenticator, handlers | `auth.py`, `*_control.py` |
| `Reasoning` | the router, its budget and the adviser | `reasoning*.py`, `orchestration.py` |
| `Supervision` | calls, worker processes, cancellations | `supervision.py` |
| `MerkleProofs` | the proof checks against RFC 6962 trees (hashes are terms) | `supply_chain_bundle.py` |
| `Transparency` | verifications and the checkpoint observer | `supply_chain_bundle.py`, `lifecycle.py` |
| `GrantPolicy`, `ScopedState`, `ContextRemoval`, `Residency`, `RagIndex`, `Metrics`, `SecureAudit`, `Preferences` | one store each | see section 1 |
| `HierBudgetProofs`, `ResilientExecutorProofs`, `ExecutionProofs`, `LifecycleProofs`, `StoresProofs`, `AccessProofs` | theorems about the modules they EXTEND | |
| `MC*` | instances for TLC | |

Conventions.  A call that is one transaction or runs under one lock is one
action; a call that raises inside its transaction leaves no trace, so refusals
are guards.  Where the code reads a clock or a table before its transaction or
its lock, the reading is a step of its own and others act in between.
Definitions keep the names of the methods where possible.  Operators marked
*Mutant* or *faulty* in their comments are deliberately wrong variants of the
definition that follows them; nothing refers to them, and each exists to show
that some property notices the difference.  Variables marked *history* are not
in the code and guard nothing.

Most components share no state with each other, so three family modules check
several side by side: in `MCStores`, `MCAccess` and `MCCalls` the variable
`which` chooses one component at the start, `In(k)` lets only that one move, and
the others keep one initial state.  The states of a run are the sum of those of
its components, and every component is explored in full.  `p1` and `p2` are two
processes, interchangeable in every component of `MCStores` and `MCAccess`,
which makes symmetry sound there (`MCCalls` has liveness properties and uses
none).

**HierBudget.**  `scopes`, `limits`, `rows`, `used`, `reserved`, `resv` are the
tables; `seen` is what each operator has read and will compare against.  A
scope's parent is fixed (its address is a digest of root, parent and name), so
`Parent` is a constant forest and only *existence* is state.  `Configure`
covers creation and update with all three checks (own usage, children's
allotment, parent's room); `Reserve` checks the whole chain, then holds;
`Reconcile` and `Cancel` release what is held on every level and charge what
was used.  `resv[r].charged` is history.  `BudgetContract` states the same with
sums over reservations in place of counters.

**BudgetLedger.**  `thread[t]` is a call and the locks of its chain it still has
to take, `holder` who holds each lock; the call acts when it has all of them.
Durable scopes have one lock, the repository's.  `booked` are the reservations.
`Configure` is of durable scopes only and keeps the limits it is given, zeros
included; what it does not name stays as it was.

**CircuitBreaker, ResilientExecutor.**  `entry` and `order` are the
`OrderedDict`; `permit[t]` the permit a caller holds; the clock is only the age
of an opening (`elapsed`, capped at the recovery timeout).  `stale` is history:
the permit's circuit has opened, recovered or been evicted since.  The executor
adds a program counter per caller for the loop: check deadline, acquire, call,
decide, sleep.  The provider may apply the operation and report success, fail
without effect (`NOT_APPLIED`), fail with unknown effect, or fail in a way that
does not count.  The backoff is the code's; the sleeper may return late.

**ApprovalStore.**  `status`, `intent`, the four stamps and the clock; a call is
`ReadClock` followed by its transaction, with any number of other transactions
and ticks in between; `RollBack` is a call that raised.  The scoped and the
unscoped store share the module, one with several scopes.  **ApprovedCall**
walks `_local_execute`: load, consume, issue, execute; `AbandonRun` is a
refusal or a crash at any of these points.

**Execution.**  `pc[c]` walks `execute`: reserve, admit, wait, announce, call,
settle, complete, and the handler.  `row` is the idempotency table, `owner` and
`applied` are history.  `Crash` may strike between any two steps, `Expire` and
`Recover` are other processes, and with `CanFail` any transaction or audit event
may raise.  `Persist` says whether results are kept for replays; `disturbed` is
history: the callers who crashed or met a raising step.

**UpdateStore.**  `rows` and `pins` are the tables; `op[o]` is an operator's
process: the catalogue snapshot it built, then the state it read, then the
transaction.  `Effective` is what a registry built now would activate: the
store's pointer where there is one, the catalogue's otherwise; the refinement
maps it to the contract's `active`.  `verdict` is history: the last health
result since the staging.

**Draining, DrainController, DrainedService.**  A controller is a record
(`coordinates`, `revisions`, `pins`, and `forced`, the part of its event log the
properties need), a method an operator on records.  `DrainController` puts one
record in a variable and calls the methods in any order, which is how the class
is specified; `DrainedService` keeps a sequence of generations and calls them as
the service does.  A handler's program counter: refresh (drain the previous
generation revision by revision, holding the lock), claim, pin durably, admit,
run, release, unpin, unclaim.  `timers` are the deadlines that will be looked
at.  Pointers are moved by an environment that obeys `PointerContract`, which
`UpdateStore` is shown to do.

**Supervision.**  A caller's record holds its program counter through
`execute`, its worker process and the pipe between them; `workers` is the table,
`cancelFlags` the cancelled references, `spawner` the holder of the environment
lock.  `cancelling` is the
cancel that holds `_worker_lock` and the step it has reached: `FlagWorker`,
`StopWorker`, `CloseReceiver`, with steps of the caller in between; its
`accepted` is history.  Workers begin a message and may hang in it, send any
message, shut the pipe, exit with any code, or do nothing.  Receiving from a pipe
that a cancel has closed fails or raises as `recv_bytes` does.  The process object
of a call that ends is closed before it is forgotten; a cancel that finds it so
raises `ValueError` (line 291) and changes nothing, one that has flagged it before
ends at `_stop` (line 295) with the flag set until the caller forgets it.

**Registry, Catalog.**  `Admissible` in `RegistryRules` is the judgement of
`_validate_dependencies` and `_validate_conflicts` on a selection (coordinate to revision); the registry's calls
and each round of the catalogue's activation ask it.  A refresh of the monitor
is a record with a program counter: fingerprint, discover, build; edits and moves of pointers
fall anywhere in between.  `crossed` is history: the pointers moved between the
fingerprint and the build.  `offered` is what the last caller got.

**Disclosure.**  A reference is a record of session, purpose, release, subject,
expiry and signing key.  `handling` is the call a
session has in progress with the generation `TakeService` gave it: `Active` asks
that one, which does not change, and `enabled` (the current one) goes on by `Fork`.
`execute` is three steps: `VerifyExecution` (reference, active release, grant),
`Admit` (approval and policy), `CallProvider`; between them are the waits for
dependencies, budget, idempotency and circuit.  Of what a load selects the
operations are kept.

**Transparency, MerkleProofs.**  A verification is a record that moves from
bundle to online check to the transition it was for.  Checkpoints are sizes of a
main log or a fork that has its first entries in common.

**Secrets, ControlPlane, Reasoning.**  A thread is a record with the values it
read before the lock.  The authenticator numbers its keys by `epoch`.  A request
keeps the session it was verified in (`session`), the ticket, and what it did
(`done`); starting a server is two steps, the session's key and the port, which
may be taken.  `granted` is history: the `max_uses` of a lease's issue.  In `Reasoning` a thread asks, snapshots the budget, decides, pays, runs and reports; a
failure is an operation and an error code; `RecommendPersisted` is the durable adviser as an operator, compared
with `Route` in every state.

**Stores.**  `ScopedState`: rows with their expiry, `writer` the clock reading of
a call; `follower` is a reader of the stream.  `ContextRemoval`: one entry with
its generation and records, `seen` the generation a client works from, `acks`
messages that are delivered any number of times.  `Residency`: inventory and
disk, `scoped` which of the two classes keeps them.  `GrantPolicy`: documents, audit, `editor`
what an administrator has read, snapshots; `Within` compares paths by name, as
`_intersect` does with what is written, and `CanonicalOf` is where links lead, to
which a decision resolves both sides before it compares them by name.  `RagIndex`:
the three tables, `curator` what was selected before the transaction; a handle is
read again by splitting it at dots, so one of a `Dotted` identifier does not verify.  `Metrics`: series per
process, durable rows.  `SecureAudit`: file, checkpoint, archive, and
the step each process has reached; a rotation is a verification and a rename of
whatever is there by then, a pruning a list of segments and their removal file by
file, so that one may be half there.  `crossed` is history: rotations that another
process overlapped; `Misread` is a verification that read file and checkpoint with
a change of another process in between.  `Preferences`: files, and what each setter will write.

## 3. Runs

`tlc -config <run>.cfg <module>`; the times are those of a small machine with
two workers that runs two of them at a time.

| Run | Module | Checked | States |
| --- | --- | --- | --- |
| `HierBudget` | `MCHierBudget` | `HardCap`, `CountersAreExact`, `NoLostUpdate`, `ContractSpec` | 333 040, 56 s |
| `CircuitBreaker` | `CircuitBreaker` | `CircuitsAreExact`, `StaleOutcomeIgnored` | 234 529, 23 s |
| `ResilientExecutor` | `ResilientExecutor` | `AppliedAndReleased`, `OnlyClosedEvicted`, `RequestsAndCircuitsSettle` | 67 406, 35 s |
| `DrainedService` | `MCDrainedService` | `NoRunOnRetired`, `NoPinLeaks`, `CallsAndDrainsEnd` | 60 517, 96 s |
| `Stores` | `MCStores` | `UsedOnlyAsDecided`, `ApprovalsKeepContract`, `UpdatesAreSafe`, `ScopedStateIsExact`, `RemovalIsExplicit`, `ResidencyIsExact`, `GrantsAreExact`, `RagIsExact`, `MetricsAreExact`, `AuditIsKept`, `SettingsAreKept` | 994 281, 212 s |
| `Access` | `MCAccess` | `RegistryIsExact`, `CatalogIsHonest`, `ExecutesWhatWasLoaded`, `ProofsAreSound`, `ObservedOnlyGrows`, `SecretsAreBounded`, `ControlPlaneIsExact`, `ReasoningIsBounded`, `LedgerHolds`, `ApprovedOnce` | 1 214 894, 225 s |
| `Calls` | `MCCalls` | `ExecutedOnce`, `Settled`, `SupervisionIsExact`, `DrainIsFinal`, `CallsAndKeysSettle`, `SupervisedCallsEnd`, `DrainsEnd` | 94 556, 116 s |
| `HierBudgetStuck` | `MCHierBudget` | finds `ActiveReservationCanBeReleased` violated | |
| `CircuitReuse` | `CircuitBreaker` | finds `OneProbe` violated | |
| `DrainedShared` | `MCDrainedService` | finds `RunningIsPinned` violated | |
| `DrainedSuperseded` | `MCDrainedService` | finds `SupersededIsDrained` violated | |
| `InclusionIsComplete` | `MerkleProofs` | finds `InclusionIsComplete` violated | |

What each property says is in the comment before it.  Most are conjunctions of
what a component promises: a component is right when all of it holds at once, and
one mutant of the code is kept for each (`PROJECT.json`, "mutants"): a budget check that forgets what is used, a permit
whose generation is not compared, a fingerprint taken after the inputs were read,
a lease that is checked under one holding of the lock and spent under another,
locks of a chain taken in any order, and so on.  The families and `InclusionIsComplete` say `CHECK_DEADLOCK FALSE`,
because some of their components really come to an end: every call has returned
and a bound of a clock or counter is reached.

What the bounds must contain, and do:

- **HierBudget.**  A root and two children, one counter, two reservations, two
  operators, amounts and limits up to 2.  Over-allotment needs siblings, a cap
  exceeded higher up needs a parent with a tighter limit than its child, double
  release needs two reservations on overlapping chains, an unseen overwrite needs
  two operators.  Amounts to 2 make "one fits and two do not" and "actual is more
  than held" different cases.
- **CircuitBreaker.**  With four callers one may be late from the closed
  circuit, one from an earlier probe, one probes and one asks; two providers in
  a table of one push each other out, or are refused for want of room.
  `MaxGeneration` bounds the generations at 10, several openings and recoveries
  deep.  `ReuseExplored` is FALSE here: a circuit that was pushed out is not
  created again while a call still holds a permit of its former self.  What
  happens when it is, is the subject of `CircuitReuse`.
- **ResilientExecutor.**  Two callers; backoffs of 1 and 2 against a deadline of 4
  give requests that exhaust their attempts, pass the deadline while they would
  sleep, and find the circuit of the other caller open.  `MaxGeneration` is 12,
  more than two requests of three attempts can open, so it never disables a step.
- **DrainedService.**  Two handlers that share one of three references, two
  capabilities of two revisions.  Three switches give four generations: two back
  and forth on one capability, or one there and back around a switch of the other.
- **Stores.**  *Approvals*: two processes, two scopes, one identifier in each, two
  pieces of work; times to live of 1 and 2 and a clock to 2 let an approval expire
  between a reading and its commit, before and after its decision.  *Updates*: the
  second revision of one capability needs the second of the other, so every order
  of activating and rolling back both is either compatible or refused.  *Scoped
  state*: a clock to 2 over a lifetime of 1, pages of one event.  *Removal*: records for two instructions
(`RecordLimit` 2) of three keys, so that the order of records decides which one is
forgotten; four generations.
  *Residency*: four sections of different size and worth that do not fit together,
  five changes.  *Grants*: a manifest with one dependency, documents whose roots are
narrower here or there, a root whose link leads out of the one that holds it by
name, a host in two spellings, two revisions.  *Retrieval*: publications that share identifiers and texts, and expire at different days, and an
identifier with a dot.  *Metrics*: three kinds of
  span for two places, one of which is the overflow.  *Audit*: four events, one
retained segment, crashes; two processes that rotate and prune at once.  *Preferences*: two settings in two files.
- **Access.**  *Registry and catalogue*: two revisions of one capability, of which
  one needs a second and one excludes it, a third that needs the newer, an optional
  dependency with a range, and routes that clash; one edit and two pointer moves (there and back) in any position of a
refresh, clock to 2 over an interval of 1, so that a snapshot gets too old.  *Disclosure*: a tool of two releases of which one lacks the
  operations, two sessions of which one is granted, three calls that issue references,
generations that change between any two steps of a call, a restart.  *Proofs*: every path of every tree up to six entries offered for every
  entry and size, and every consistency proof, in a log and a fork that share two.
  *Transparency*: two verifications, trees to two, the least
that has growth, a rollback and a fork of one size.  *Secrets*: one handle of up to
  two uses, two threads, clock to 2.  *Control planes*: one ticket, two requests,
  two keys.  *Reasoning*: two threads of one task with one operation and two error
  codes, tiers 1 and 3, one attempt on each failure, two escalations and a budget
  of 3, which either thread can exhaust for the other.  Without the bound of
  attempts the run fails; the bound of escalations is reached, but two failures
  with one attempt each cannot pass it.  Two larger or other instances, too slow or
  too narrow to keep, were run for that: with two attempts and three escalations
  all holds (710 144 states of this component), and with one escalation the
  property fails once the bound of escalations is dropped.  *Ledger*: a root, a child without a limit
of its own and a durable scope whose limit is configured to 0 and back, two
reservations, two threads.  *Approved
  calls*: one approval, two intents, two calls.
- **Calls.**  *Execution*: two calls, one key, two arguments; the owner and the
  follower, who becomes owner when the record has expired; every kind of fault;
  budget for both.  *Supervision*: two threads on one reference, which conflict or
follow each other; every step of a cancel between any two of a caller.  *Drain controller*: three revisions and pins over capacities
  of two, so both bite; one capability has two revisions, so that it drains
  revision by revision.

## 4. Fairness

Only runs with a liveness property rely on fairness, and it is that of work in
progress:

- *ResilientExecutor*: weak, for each caller's `Step`, because threads run and a
  provider call is killed at a hard deadline by the supervisor, and for the clock
  `Elapse`.  Nothing says that providers succeed.
- *Execution*: weak, for each caller's `Work`.  A call of a provider returns or
  fails, and waiting for another owner is bounded by the request's own deadline.
  Faults, expiry and recovery are never obliged to happen.
- *Supervision*: strong, for each thread's `CallerStep`: polls and joins have time
  limits, and whoever waits for a lock (`_SPAWN_ENVIRONMENT_LOCK`, `_worker_lock`)
  that is free again and again gets it.  Weak for the steps of a cancel, which has
  nothing to wait for but the graces of `_stop`, in which the kernel is taken to end
  the worker.  Workers are obliged to nothing, and operators need not cancel.  A
  worker that hangs for ever in the midst of a message that nobody cancels is
  excepted by the property: `recv_bytes` (`supervision.py` 229) has no deadline.
- *DrainController*: weak, for `ReleaseExecution` of each pin, since `execute`
  releases in a `finally`.  Nobody is obliged to advance or to force a drain.
- *DrainedService*: weak, for each handler's `Work` once it has entered.
  Requests and deadlines need not come.

## 5. Proofs

`tlapm <module>Proofs.tla` checks each; 16 764 obligations.  They hold for
every value of the constants that satisfies the named assumptions
(`ParentAssumption`, `BoundsAssumption`, `BreakerAssumption`,
`CatalogueAssumption`, `SecretsAssumption`, ...), which say no more than that
sets and numbers are what their names suggest (the few that say more are named
below), and which TLC evaluates on the instances above.  `PROJECT.json` lists the theorems with what each establishes.

**HierBudgetProofs**: `TypesHold`, `HardCapHolds`, `NoLostUpdateHolds`.  The
first invariant is `TypeOK /\ Fresh /\ Placed /\ HardCap`.  `HardCap` speaks of scopes
that exist; `Fresh` adds that a scope yet to be created carries no counters and
no limits, so it holds when the scope is made; `Placed` that a reservation that
is not absent has a scope, so settling it touches a chain.  Reserving keeps the
cap by the check on each scope of the chain; settling because the check is made
with what is held taken off; configuring because usage is compared with the new
limit.
`CountersAreExactHolds` and `ContractHolds` stand on `ExactInv`, which adds that
the sets summed over are finite, that no scope is its own parent and parents exist
before their children, and the two sums themselves.  **SumTheorems** holds what
they need of sums over finite sets: that the recursive function the library sums
by exists and does not depend on the order it takes elements in, and from there
what adding, removing, changing or moving one term does to a sum.  A reservation
is in the sum of each scope of its chain and in no other, so a transaction that
changes one reservation and the counters of one chain keeps every equation.  The
contract is met step by step: reserving and settling are its own steps, with the
counters standing for the sums, and what an operator reads is a stutter.

**ResilientExecutorProofs**: `AppliedAtMostOnceHolds`, `UnsafeCalledOnceHolds`,
`NoPermitLeaksHolds` and with them `AppliedAndReleasedHolds`.  The invariant
bounds the effects by the program counter: none before the request has ended,
since a failure that may be repeated is one that had no effect.  It does not
mention the breaker's table: whatever that admits, the loop is right.
The breaker by itself: `OnlyClosedEvictedHolds`, because a full table is only made
smaller by the first entry that is closed and idle, needs `TInv`: the table is
bounded and what is not in it is as a circuit that was never used.
`CircuitsAreExactHolds` and `StaleOutcomeIgnoredHolds` need `CInv`: a permit for a
circuit in the table is of its present generation or an earlier one, of the present
one only while the circuit is closed or half-open for that very probe; a probe's
circuit is in the table; and a closed circuit's calls in flight are the permits of
its generation.
They are stated for `ReuseExplored = FALSE`, the premise the run is made under:
with it a permit's generation is never ahead of its circuit's.  Without it they
are false, and `CircuitReuse` shows how.  `ExecutorUsesBreaker` carries all three
over to requests with retries: a step of the loop is a step of the breaker or
none.

**DrainedServiceProofs**: `NoRunOnRetiredHolds`, `NoPinLeaksHolds`.  The invariant
says that a call under way names a generation that exists, that no two calls of
one generation have claimed the same reference (`ClaimedAlone`), and that a running call
has its pin on its revision, which has not retired, in the controller it entered
(`RunningHolds`).  `Keeps` says that a controller's method leaves held revisions
held; each method is shown to do so but for the release, which drops one pin, and
the claim makes that the caller's own.

**StoresProofs.**

- *Approvals*: `UsedOnlyAsDecidedHolds` from four inductive parts (`TypesHold`,
  `SingleUseHolds`, `UsedAsRequestedHolds`, `InTimeHolds`), `FinalStatusHolds`,
  and `ContractHolds`, that the table implements `ApprovalContract`: a
  transaction maps to a step of the contract (request, decide, use, or the lapse
  of what it sweeps) and a clock tick to a stutter.
- *Updates*: `UpdatesAreSafeHolds` with `AlwaysCompatibleHolds`.  What makes an
  operator's check count is that a pointer is never taken away: where the store
  has none now, the old catalogue the operator built says what is installed, so
  what it validated is what will be in force.
- *Preferences*: `SettingsAreKeptHolds`; who has a file open that nobody else
  had open has its present content.
- *Retrieval*: `RagIsExactHolds`.  A passage is found through another table than
  it is stored in, and read through a third; `RagInv` says that they agree, row
  by row.  What a search shows can be expanded unless its identifier has a dot, at
  which its handle would be split.  A batch may name a passage twice, with other readers; only the
  first is stored, but the readers of both can read it, and so the property says.
- *Removal*: `RemovalIsExplicitHolds` from `RecordsSound`: identifiers and keys
  are those of one record each, and a record is confirmed only by a message that
  was sent for that very identifier.
- *Scoped state*: `ScopedStateIsExactHolds`.  `EntryCounts` ties an entry to the
  updates made to it, `StreamsFollowed` what a follower has read to what the
  stream still has: identifiers only grow, so nothing is inserted behind a
  reader.
- *Grants*: `GrantsAreExactHolds`.  The audit has a row for each revision in
  order, so the document in force is its last row and a snapshot one of them;
  a decision is made by the session's snapshot (`DecidedBySnapshot`),
  and what the intersection permits every manifest of the closure permits
  (`IntersectionPermits`), which needs that
  being within a directory is transitive (`WithinAssumption`) and, of paths, that no
  link leads one granted root out of another that holds it by name (`NestingKept`):
  constraints are intersected as they are written, calls decided where paths lead.
- *Metrics*: `MetricsAreExactHolds`.  What the database counts and what a
  cleanup took equals the spans whose persisting did not fail, of this process
  and of former ones: sums over keys and over processes, of which an increment
  changes one term each (`SumTheorems`).
- *Audit*: `AuditIsKeptHolds`.  What was told to be committed is in the file, in a
  segment or among what retention took (`OnRecord`).  `LoggersSound` is about what
  a process has begun: an event about to be signed for is on record, a rotation
  that no other process overlapped will move what it verified, and what is about
  to be removed is expired; which it stays, since newer segments are only removed
  after older ones.  A rotation whose index another process took fails, so none
  writes over a segment.
- *Residency*: `ResidencyIsExactHolds`.  An eviction goes round a loop, taking
  the section of least worth each time; `Evicted` describes its victims
  (unpinned, worth the least, and needed, since with the last of them the budget
  was still exceeded), and the induction over the loop is a use of `StepsKeep`.
  `SectionsAssumption` makes sizes and worths natural numbers.

**ExecutionProofs**: `ExecutedOnceHolds` from `AtMostOnceHolds`,
`ReplayIsFaithfulHolds`, `CompletedByOwnerHolds`; `UnknownIsFinalHolds`;
`SettledHolds`.  The store completes a record by key alone, so that only its
owner can is a fact about all callers: `WorkersOwn` says that a caller between
admission and completion owns the record of its key, which is in progress or has
become uncertain (never vacant, or another could own it).  From there
`NothingApplied` bounds the provider's effects before the owner's call,
`SettlingDid` says a result being settled is of an applied call, and
`OwnersAsked` ties a record's owner to its key.  `Settled` needs what a caller's
reservation and answer are at each point of its program.

**LifecycleProofs.**

- *Drain controller*: `DrainIsFinalHolds` from `DrainInvariance`,
  `RetiredIsIdleHolds`, `CoordinateAgreesHolds`, `NeverBackHolds`;
  `DrainingHasWorkHolds`, `OnlyDrainingAskedHolds`.  The invariant `Good` is a
  predicate of the record.  All of it but one conjunct, `Almost`, is kept by
  each update of revisions and pins by itself; the lemma `Settled` shows that
  `_maybe_retire_coordinate` turns `Almost` into `Good`, by establishing that a
  draining capability has a draining revision.  That is why the code must call
  it wherever a revision retires.
- *Supervision*: `SupervisionIsExactHolds`, from `CallIsSound` (each call by
  itself), `TableNamesCaller`, `FlagsAreOwned` (a flag is of the call the table
  names, which a cancel has flagged) and `CancelIsUnderWay` (between its steps a
  cancel keeps the lock, so the call it flagged stays in the table).  A cancel of an
  execution happens at most once, because it stops the worker it needs alive.

**AccessProofs.**

- *Secrets*: `UsesHold`, `SecretsAreBoundedHolds`: the invariant ties what was
  handed out to what a lease has left, and a thread in the broker to a lease
  that keeps scope and expiry once issued.
- *Approved calls*: `ApprovedOnceHolds`: a consumed approval belongs to one call
  until it ends.
- *Checkpoints*: `ObservedOnlyGrowsHolds`, because what is kept is the last that
  passed.  A fork at a greater size is growth to the observer; only the consistency
  proof of the online check tells them apart.
- *Control planes*: `ControlPlaneIsExactHolds`: a ticket accepted under
  today's key is among the nonces, which are emptied only without a session or with
  a new key; so one accepted again belongs to a request that was verified under an
  earlier key; numbers are taken once.
- *References*: `ExecutesWhatWasLoadedHolds`: a grant is what some load
  selected for that reference, and a generation handed to a call does not change.
- *Reasoning*: `ReasoningIsBoundedHolds`: `TokensAreSettled` equates what is
  reserved with the sum of what the askers hold, and admissions never get ahead
  of the attempts the router counts, since advice and count are one step under
  the lock.
- *Ledgers*: `LedgerHoldsAlways`.  `CallIsSound` says that no two calls make one
  reservation and that a settling call knows its scope, `LocksHeld` that the
  locks it still needs lie deeper than those it has; were everyone waiting, the
  owner of the deepest lock would wait for a deeper one.  The counters are exact
  at every step as in `HierBudgetProofs`, and `BudgetContract` is implemented
  with what is booked as its reservations.  That a ledger is made after its
  parent is `LedgerAssumption`.
- *Registry*: `RegistryIsExactHolds`. A lock replays its selection manifest by
  manifest, a loop whose invariant is that what was activated so far is part of
  the selection (`StepsExist`, `StepsKeep`); a lock that is accepted determines
  its selection.
- *Catalogue*: `CatalogIsHonestHolds`.  `ReadAt` says of what a refresh has read
  that it is what the inputs were when they had been edited so often; a
  print taken before the reading can only be older than what was read, or the
  pointers have crossed.  That
  activation is maximal follows from the rounds: each leaves fewer manifests
  over than the one before or is stuck, so after as many rounds as there are
  manifests the last is stuck (`Settling`).
- *Proofs*: `ProofsAreSoundHolds`, for trees of every size, from `InclusionSound`
  and `ConsistencySound`, which hold of any list of hashes whatever.  Both follow an
  accepted walk backwards from the root: as hashes are terms, what it joined at each
  level is the hash of a part of the tree.  For inclusion (`ClimbedTo`) that part is
  where the index says, or has too few entries for the levels that are left, so
  that its descent never ends in an entry; for consistency (`Descended`) the old
  and the new part start at one place, before which the trees agree.  That the
  proof of the RFC is accepted (`ConsistencyComplete`) goes forwards, over the parts
  of the tree (`Reaches`): after a part's hashes the counters of the walk are the
  bounds of that part shifted by its levels, and shifting out the zeros is what
  brings a right part up to the level of the left one.

**SumTheorems** also has what recursion needs: a function that is recursive on
0..n exists, as its defining equation is a CHOOSE, and keeps what its steps
keep. So the loops of the code that are modelled by recursive functions (replay,
eviction, activation) are proved about and not only run.

## 6. Where the code departs from its documentation

The first five are runs that end in a counterexample; `PROJECT.json` quotes the
lines.

1. *A reservation that cannot be given back* (`HierBudgetStuck`,
   `hierarchical_budget.py` 270, 388, 471-489).  Configuring counts a scope's
   limit rows against MAX_COUNTERS, settling counts limit and counter rows.  A
   limit added while other counters are reserved makes every later reconcile and
   cancel raise `budget_counter_limit`.
2. *Two probes after eviction* (`CircuitReuse`, `resilience.py` 228, 236).  Opening
   forgets calls in flight, so a recovered circuit counts as idle and is evicted
   under a running call; created again, it starts at generation 0, which that
   call's permit matches.  Its report ends a probe it has no part in.
3. *A pin deleted under an execution* (`DrainedShared`, `drained_service.py` 133,
   197).  The claim on a reference is per generation, the durable pin under the
   same identifier is shared; the first of two to finish deletes it.
4. *Superseded work that is never drained* (`DrainedSuperseded`, `runtime.py` 2085).
   Only the previous generation is drained, so an execution that entered two
   generations ago is not, when its revision is superseded now.
5. *Valid inclusion proofs that are refused* (`InclusionIsComplete`,
   `supply_chain_bundle.py` 555-567).  At the right edge of a tree whose size is no
   power of two a path is shorter than the tree is high; the check halves its
   index once per sibling.

The others are stated in their modules and hold no run of their own.  TLC finds
each violated when it is listed in the configuration of the family.

6. `PurgeTakesExpired` (`Stores`, as PROPERTY; `rag_index.py` 198): rows selected
   for a purge are deleted though they were published again in between.
7. `PendingIsRemembered` (`Stores`, PROPERTY; `context_removal.py` 121): at the limit
   of records an instruction that is not confirmed is forgotten.
8. `LedgerStaysValid` (`Stores`, INVARIANT; `secure_audit.py` 199): a crash between the
   append and the checkpoint leaves a ledger that no later call accepts.
9. `IntersectionIsWhole` (`Stores`, INVARIANT; `grant_policy.py` 259-288): where a
   dependency's root is narrower than the capability's own, the intersection loses
   it, and what both allow is refused.
10. `GrantIsItsLoad` (`Access`, INVARIANT; `service.py` 278): two loads in one second
    share a reference, and the second replaces the operations of the first.
11. `ConsumedIsUsed` (`Access`, INVARIANT; `runtime.py` 1620): an approval is spent
    before the execution is admitted, so a refusal or crash wastes it.
12. `FailedRefreshIsTied` (`Access`, INVARIANT; `local_runtime.py` 75-102, 224-281): a
    snapshot whose refresh failed is served as a fresh observation until the next
    check.
13. `ReuseIsAccepted` (`Access`, INVARIANT; `supply_chain_bundle.py` 157-190): after
    the log has grown, the bundle an update was staged with is refused as a replay.

And premises, where a property says what the code does rather than what a text
promises:

- `SettingsAreKept` speaks of files that no two setters had open at once
  (`state.py` 109); otherwise a setting is lost.
- `ServedOnce` (in `ControlPlaneIsExact`): `auth.py` 39, `http_control.py` 148 and
  `admin_control.py` 137 call tickets one-time or single-use.  Two threads may
  verify one (`auth.py` 107-132); one consumes it; a close forgets the nonces (61),
  and after the next start the other consumes it again (133-138).
- `SnapshotIsCurrent` (in `CatalogIsHonest`): `local_runtime.py` 69 promises a
  complete current generation.  A pointer that moves after the fingerprint (75),
  is read by the build (119) and moves back leaves a generation whose fingerprint
  matches and whose pointers do not.
- `GrantsAreExact`: `README.md` 71 and `docs/architecture.md` 371 speak of an
  intersection.  Roots are intersected as they are written (`grant_policy.py`
  264-271) and resolved when a call is decided (`authorization.py` 168-172), so a
  root that is a link out of the other manifest's root stays in the intersection:
  without `NestingKept` TLC finds a call allowed that one manifest's own grants do
  not allow.
- `RagIsExact`: a passage whose identifier has a dot is shown by searches and
  refused by `expand`, for `_verify_handle` splits the handle at the first two dots
  (`rag_index.py` 355).
- `SupervisedCallsEnd`: `docs/completion-matrix.md` 30 says that supervised workers
  enforce hard deadlines.  `recv_bytes` (`supervision.py` 229) has none: a worker
  that hangs after the first bytes of a message holds its caller until a cancel.
- `CancelIsExact` (in `SupervisionIsExact`): a caller that received its message
  between the flag and the end of a cancel may answer with it although the cancel
  returns True; and a cancel that meets a process closed but not yet forgotten
  (277-279) raises `ValueError` (291, or in `_stop` from 295).
- `SegmentsAreWhole` (in `AuditIsKept`): the lock of a ledger is one process's own
  (`secure_audit.py` 229), so a segment may hold what another process appended
  between the verification (230) and the rename (242), with a signature of less.

## 7. Only model-checked, and not modelled

Only model-checked: the liveness properties (`RequestsAndCircuitsSettle`,
`CallsAndDrainsEnd`, `CallsAndKeysSettle`, `SupervisedCallsEnd`, `DrainsEnd`),
whose fairness the prover cannot reason about.
Every other property of the runs is stated by a theorem.  That no order of locks
leaves every call of the ledgers waiting is proved of the guards of the steps:
ENABLED itself is out of the prover's reach.

Abstracted: identifiers, digests and signatures are model values that never
collide; a SQLite transaction is atomic and durable, and one that raises leaves
nothing; provider calls are external and end in one of the named ways; a crash of
the serving process is modelled where state is kept (`Execution`, `ApprovedCall`,
`Disclosure`, `Residency`, `SecureAudit`, `Preferences`, `Metrics`,
`Transparency`), not in `DrainedService`.  Clocks and counters that only grow are
bounded by constants named for it: `MaxGeneration`, `MaxTime`, `MaxSwitches`,
`MaxCalls`, `MaxChanges`, `MaxEdits`, `MaxMoves`, `MaxEpoch`, `MaxRevision`,
`MaxSpans`, `MaxRows`, `LastTick`, `LastMoment`, `LastMinute`, `LastSecond`,
`LastInstant`, `LastDay`, `LastStamp`, `LastTime`; `ReuseExplored` bounds the
evictions.

Simplified: a verification by another process at work reads either a fitting pair of
file and checkpoint or an unfitting one (`Misread`); opening the audit file and
writing to it are one step; a section added again under its key is moved to the
end with the size and worth it had, since both are constants of a key
(`AddSection` takes the old entry out first, as `residency.py` 51-55 does); the
kernel ends a worker within the graces of `_stop`.

Not modelled inside modelled components: `release_revision` raising
(`drained_service.py` 239-243); sealed key files, schema checks and
read-only views of the stores; the in-process idempotency table; freezing a
registry, after which nothing changes; ranking, the encoding of tokens and the
sections of manifests; TLS, headers and sizes of the servers; resource limits and
sandboxing of the kernel; exports.  Whole components: the table in section 1.

## 8. Plan

Done: every component of section 1 marked modelled or partly, with its runs; a
theorem for each safety property.

Next, in this order:

1. `PointerContract` with its compatibility taken from `RegistryRules`, so that the updates'
   pointers and the catalogue's activation are judged by one definition, and the
   theorem that a compatible set of pointers is admissible.
2. Crashes in `DrainedService`: rows of pins that outlive their process, and a
   `release_revision` that raises and leaves its row.
3. The endpoint's cost and latency limits in `Reasoning`.
