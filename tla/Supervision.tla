------------------------------ MODULE Supervision ------------------------------
(***************************************************************************)
(* ProcessProviderSupervisor (supervision.py): threads that each run a     *)
(* provider call in a spawned worker process, and operators who cancel     *)
(* executions by reference.  A caller's record holds its program counter,  *)
(* its worker process and the pipe between them.  A cancel holds           *)
(* _worker_lock from its first step to its last; the caller polls,         *)
(* receives, joins and closes its worker without that lock.  The kernel is *)
(* taken to end a worker within the graces of _stop.                       *)
(***************************************************************************)
EXTENDS FiniteSets

CONSTANTS Threads,     \* threads in execute
          Refs,        \* execution references, usable again
          Aliased,     \* the callers whose provider reads the shared secret alias
          WorkerJobs,  \* whether the platform puts workers in job objects (Windows)
          NoCaller

ASSUME SupervisionAssumption == NoCaller \notin Threads \union Refs

VARIABLES call,        \* each caller's execution
          workers,     \* _workers with _receivers and _jobs: ref -> caller
          cancelFlags, \* _cancelled
          cancelling,  \* the cancel that holds _worker_lock
          spawner      \* who holds _SPAWN_ENVIRONMENT_LOCK

tables == <<workers, cancelFlags, cancelling, spawner>>
supervision == <<call, tables>>

Messages == {"result", "error", "malformed", "oversized"}
Enrolled == {"polling", "receiving", "joining", "cleanup", "removing"}

(* proc: the worker process; exit: its exit code; pipe: what it has sent,  *)
(* the beginning of a message, or nothing any more; open: the receiving    *)
(* end; raw: the bytes received.  accepted is history: a cancel has        *)
(* flagged this execution, and then closed its pipe before ("early") or    *)
(* after ("late") it was done with it.                                     *)
Idle == [pc |-> "idle", ref |-> NoCaller, proc |-> "none", exit |-> "none", pipe |-> "empty",
         open |-> FALSE, raw |-> "none", answer |-> "none", accepted |-> "no"]

NoCancel == [ref |-> NoCaller, at |-> "none"]
WorkerLockFree == cancelling = NoCancel

SupervisionInit ==
  /\ call = [t \in Threads |-> Idle]
  /\ workers = [r \in Refs |-> NoCaller]
  /\ cancelFlags = {}
  /\ cancelling = NoCancel /\ spawner = NoCaller

Stopped(c) == IF c.proc = "alive" THEN [c EXCEPT !.proc = "dead", !.exit = "nonzero"] ELSE c
Answered(c, answer) == [Idle EXCEPT !.pc = "done", !.ref = c.ref, !.proc = c.proc,
                                    !.answer = answer, !.accepted = c.accepted]
Failing(c, answer) == [c EXCEPT !.pc = "cleanup", !.answer = answer]
Moves(t, c) == call' = [call EXCEPT ![t] = c]

(* os.environ still shows the alias unless a spawn has popped it.          *)
AliasVisible == spawner \notin Aliased

-----------------------------------------------------------------------------
(* execute.                                                                *)

Execute(t, r) ==
  /\ call[t].pc \in {"idle", "done"}
  /\ Moves(t, [Idle EXCEPT !.pc = "sealing", !.ref = r])
  /\ UNCHANGED tables

(* Confinement, the provider's type, or pickling it.                       *)
RefuseProvider(t) ==
  /\ call[t].pc \in {"sealing", "sealed"}
  /\ Moves(t, Answered(call[t], "refused"))
  /\ UNCHANGED tables

(* _seal_aliases reads the environment without the spawn lock.             *)
Seal(t) ==
  /\ call[t].pc = "sealing"
  /\ Moves(t, IF t \in Aliased /\ ~AliasVisible
              THEN Answered(call[t], "alias_unavailable")
              ELSE [call[t] EXCEPT !.pc = "sealed"])
  /\ UNCHANGED tables

ScrubEnvironment(t) ==
  /\ call[t].pc = "sealed" /\ spawner = NoCaller
  /\ spawner' = t
  /\ Moves(t, [call[t] EXCEPT !.pc = "spawning"])
  /\ UNCHANGED <<workers, cancelFlags, cancelling>>

StartWorker(t) ==
  /\ call[t].pc = "spawning"
  /\ spawner' = NoCaller
  /\ \/ Moves(t, [call[t] EXCEPT !.pc = "started", !.proc = "alive", !.open = TRUE])
     \/ Moves(t, Answered(call[t], "start_failed"))
  /\ UNCHANGED <<workers, cancelFlags, cancelling>>

JobFails(t) ==
  /\ WorkerJobs /\ call[t].pc = "started"
  /\ Moves(t, [Answered(Stopped(call[t]), "job_failed") EXCEPT !.proc = "closed"])
  /\ UNCHANGED tables

(* The worker of a reference that is taken has been running until now.     *)
RegisterWorker(t) ==
  LET c == call[t] IN
  /\ c.pc = "started" /\ WorkerLockFree
  /\ IF workers[c.ref] # NoCaller
     THEN Moves(t, Answered(Stopped(c), "conflict")) /\ UNCHANGED workers
     ELSE /\ workers' = [workers EXCEPT ![c.ref] = t]
          /\ Moves(t, [c EXCEPT !.pc = "polling"])
  /\ UNCHANGED <<cancelFlags, cancelling, spawner>>

PollEnds(t) ==
  LET c == call[t] IN
  /\ c.pc = "polling" /\ c.open
  /\ c.pipe # "empty" \/ c.proc # "alive"
  /\ Moves(t, [c EXCEPT !.pc = "receiving"])
  /\ UNCHANGED tables

(* An exception is answered by whether the flag is set, read under the     *)
(* lock, and so after a cancel that is under way.                          *)
Fails(t, answer) ==
  /\ WorkerLockFree
  /\ Moves(t, Failing(call[t], IF call[t].ref \in cancelFlags THEN "cancelled" ELSE answer))
  /\ UNCHANGED tables

PollFails(t) == call[t].pc = "polling" /\ ~call[t].open /\ Fails(t, "os_error")

TimeoutOfPoll(t) ==  \* faulty: the join has no limit
  /\ call[t].pc = "polling"
  /\ Moves(t, Failing(Stopped(call[t]), "timeout"))
  /\ UNCHANGED tables
(* The poll and the join have a limit, and no other wait has.              *)
Timeout(t) ==
  /\ \/ call[t].pc = "polling"
     \/ call[t].pc = "joining" /\ call[t].proc = "alive"
  /\ Moves(t, Failing(Stopped(call[t]), "timeout"))
  /\ UNCHANGED tables

(* recv_bytes returns when the message is whole, however long that takes.  *)
Receive(t) ==
  LET c == call[t] IN
  /\ c.pc = "receiving" /\ c.open /\ c.pipe \in Messages \ {"oversized"}
  /\ Moves(t, [c EXCEPT !.pc = "joining", !.raw = c.pipe])
  /\ UNCHANGED tables

(* It raises EOFError if there is none, and OSError if the header shows it *)
(* too long, if the worker ends in the midst of it, or if it is closed.    *)
ReceiveFails(t) ==
  LET c == call[t] IN
  /\ c.pc = "receiving"
  /\ \/ /\ c.open
        /\ c.pipe = "shut" \/ (c.pipe = "empty" /\ c.proc # "alive")
        /\ Fails(t, IF c.exit = "nonzero" THEN "crashed" ELSE "no_result")
     \/ /\ ~c.open \/ c.pipe = "oversized" \/ (c.pipe = "begun" /\ c.proc # "alive")
        /\ Fails(t, "too_large")

(* Closed between the header and the rest, it reads from no descriptor: a  *)
(* TypeError, which execute does not catch.                                *)
ReceiveBreaks(t) ==
  /\ call[t].pc = "receiving" /\ ~call[t].open /\ call[t].pipe \in {"begun"} \union Messages
  /\ Moves(t, Failing(call[t], "raised"))
  /\ UNCHANGED tables

Join(t) ==
  /\ call[t].pc = "joining" /\ call[t].proc # "alive"
  /\ Moves(t, [call[t] EXCEPT !.pc = "cleanup"])
  /\ UNCHANGED tables

(* finally: the process is stopped and closed, and only then forgotten.    *)
CloseWorker(t) ==
  /\ call[t].pc = "cleanup"
  /\ Moves(t, [Stopped(call[t]) EXCEPT !.pc = "removing", !.proc = "closed", !.open = FALSE])
  /\ UNCHANGED tables

Decoded(c) ==
  IF c.answer # "none" THEN c.answer
  ELSE IF c.raw = "malformed" THEN "protocol_error" ELSE c.raw

RemoveWorkerOnly(t) ==  \* faulty: the cancel flag stays
  LET c == call[t] IN
  /\ c.pc = "removing" /\ WorkerLockFree
  /\ workers' = [workers EXCEPT ![c.ref] = NoCaller]
  /\ Moves(t, Answered(c, Decoded(c)))
  /\ UNCHANGED <<cancelFlags, cancelling, spawner>>
RemoveWorker(t) ==
  LET c == call[t] IN
  /\ c.pc = "removing" /\ WorkerLockFree
  /\ workers' = [workers EXCEPT ![c.ref] = NoCaller]
  /\ cancelFlags' = cancelFlags \ {c.ref}
  /\ Moves(t, Answered(c, Decoded(c)))
  /\ UNCHANGED <<cancelling, spawner>>

-----------------------------------------------------------------------------
(* The worker process.                                                     *)

(* A message that does not fit the pipe is written in parts.               *)
WorkerBegins(t) ==
  /\ call[t].proc = "alive" /\ call[t].pipe = "empty"
  /\ Moves(t, [call[t] EXCEPT !.pipe = "begun"])
  /\ UNCHANGED tables

WorkerSends(t, m) ==
  /\ call[t].proc = "alive" /\ call[t].pipe \in {"empty", "begun"}
  /\ Moves(t, [call[t] EXCEPT !.pipe = m])
  /\ UNCHANGED tables

(* It cannot send, closes its end and does not exit yet.                   *)
WorkerShuts(t) ==
  /\ call[t].proc = "alive" /\ call[t].pipe = "empty"
  /\ Moves(t, [call[t] EXCEPT !.pipe = "shut"])
  /\ UNCHANGED tables

WorkerExits(t, code) ==
  /\ call[t].proc = "alive"
  /\ Moves(t, [call[t] EXCEPT !.proc = "dead", !.exit = code])
  /\ UNCHANGED tables

-----------------------------------------------------------------------------
(* cancel.  One that finds no live worker returns False, one that finds a  *)
(* process its caller has closed and not yet forgotten raises ValueError;  *)
(* neither changes anything.                                               *)
FlagWorker(r) ==
  LET t == workers[r] IN
  /\ WorkerLockFree /\ t # NoCaller /\ call[t].proc = "alive"
  /\ cancelFlags' = cancelFlags \union {r}
  /\ cancelling' = [ref |-> r, at |-> "stopping"]
  /\ Moves(t, [call[t] EXCEPT !.accepted = "flagged"])
  /\ UNCHANGED <<workers, spawner>>

(* _stop raises, and the lock is given back, if the caller has closed the  *)
(* process by now.                                                         *)
StopWorker ==
  LET t == workers[cancelling.ref] IN
  /\ cancelling.at = "stopping"
  /\ cancelling' = IF call[t].proc = "closed" THEN NoCancel
                   ELSE [cancelling EXCEPT !.at = "closing"]
  /\ Moves(t, Stopped(call[t]))
  /\ UNCHANGED <<workers, cancelFlags, spawner>>

CloseReceiver ==
  LET t == workers[cancelling.ref] IN
  /\ cancelling.at = "closing" /\ cancelling' = NoCancel
  /\ Moves(t, [call[t] EXCEPT !.open = FALSE,
                 !.accepted = IF call[t].pc \in {"polling", "receiving"} THEN "early" ELSE "late"])
  /\ UNCHANGED <<workers, cancelFlags, spawner>>

CallerStep(t) ==
  \/ Seal(t) \/ ScrubEnvironment(t) \/ StartWorker(t) \/ RegisterWorker(t)
  \/ PollEnds(t) \/ PollFails(t) \/ Timeout(t) \/ Receive(t) \/ ReceiveFails(t) \/ ReceiveBreaks(t)
  \/ Join(t) \/ CloseWorker(t) \/ RemoveWorker(t)

CancelGoesOn == StopWorker \/ CloseReceiver

SupervisionNext ==
  \/ \E t \in Threads :
       \/ CallerStep(t) \/ RefuseProvider(t) \/ JobFails(t)
       \/ \E r \in Refs : Execute(t, r)
       \/ WorkerBegins(t) \/ WorkerShuts(t)
       \/ \E m \in Messages : WorkerSends(t, m)
       \/ \E code \in {"zero", "nonzero"} : WorkerExits(t, code)
  \/ \E r \in Refs : FlagWorker(r)
  \/ CancelGoesOn

(* Threads run, the poll and the join have time limits, and a lock that is *)
(* free again and again is obtained.  Workers owe nothing.                 *)
SupervisionSpec ==
  /\ SupervisionInit /\ [][SupervisionNext]_supervision
  /\ \A t \in Threads : SF_supervision(CallerStep(t))
  /\ WF_supervision(CancelGoesOn)

-----------------------------------------------------------------------------
(* Properties.                                                             *)

SupervisionTypeOK ==
  /\ \A t \in Threads :
       /\ call[t].pc \in {"idle", "sealing", "sealed", "spawning", "started", "done"}
                           \union Enrolled
       /\ call[t].ref \in Refs \union {NoCaller}
       /\ call[t].proc \in {"none", "alive", "dead", "closed"}
       /\ call[t].exit \in {"none", "zero", "nonzero"}
       /\ call[t].pipe \in {"empty", "begun", "shut"} \union Messages
       /\ call[t].raw \in {"none"} \union Messages
       /\ call[t].accepted \in {"no", "flagged", "early", "late"}
  /\ workers \in [Refs -> Threads \union {NoCaller}]
  /\ cancelFlags \subseteq Refs
  /\ cancelling \in {NoCancel} \union [ref : Refs, at : {"stopping", "closing"}]
  /\ spawner \in Threads \union {NoCaller}

(* A worker never outlives the call that started it, whichever way the     *)
(* call ends: refused, conflicting, cancelled, late or answered.           *)
NoOrphanWorker ==
  \A t \in Threads : call[t].pc \in {"idle", "done"} => call[t].proc # "alive"

(* Cancellation is exact: only an execution that a cancel has flagged      *)
(* answers "cancelled", and a flag never outlives its execution to hit a   *)
(* later one.  When cancel has returned True the worker is stopped, and if *)
(* the caller had not received its message by then, it never answers with  *)
(* it; a caller that has received it between the flag and the end of the   *)
(* cancel may still do so.                                                 *)
CancelIsExact ==
  /\ \A r \in cancelFlags : workers[r] # NoCaller /\ call[workers[r]].accepted # "no"
  /\ \A t \in Threads :
       /\ call[t].answer = "cancelled" => call[t].accepted # "no"
       /\ call[t].accepted \in {"early", "late"} => call[t].proc # "alive"
       /\ call[t].accepted = "early" /\ call[t].pc = "done" =>
            call[t].answer \in {"cancelled", "timeout", "raised"}

(* A reference has one registered execution, the one the table names:      *)
(* the exit of a conflicting call does not remove the entry of the other.  *)
TableNamesCaller ==
  \A t \in Threads, r \in Refs :
    workers[r] = t <=> call[t].ref = r /\ call[t].pc \in Enrolled

(* A worker that goes on writing no more in the midst of a message.        *)
HangsInMessage(t) == call[t].pc = "receiving" /\ call[t].pipe = "begun" /\ call[t].proc = "alive"

(* Every execution ends although its worker hangs, floods or never exits,  *)
(* and whatever cancels do to it: unless the worker hangs for ever in the  *)
(* midst of a message and nobody cancels it, which no deadline covers.     *)
SupervisedCallsEnd ==
  \A t \in Threads :
    (call[t].pc = "sealing" ~> call[t].pc = "done") \/ <>[]HangsInMessage(t)

(* The table, the processes and the cancellations of the supervisor agree  *)
(* at every step of every call.                                            *)
SupervisionIsExact ==
  SupervisionTypeOK /\ NoOrphanWorker /\ CancelIsExact /\ TableNamesCaller
=============================================================================
