------------------------------ MODULE Transparency ------------------------------
(***************************************************************************)
(* SigstoreBundleVerifier and its checkpoint observers                     *)
(* (supply_chain_bundle.py) in the transitions of a staged update          *)
(* (lifecycle.py), each of which verifies the same bundle again.  The log  *)
(* is external: it grows, and may show a forked tree to some.              *)
(***************************************************************************)
EXTENDS Naturals

CONSTANTS
  Verifiers,     \* threads in verify
  MaxTree,       \* bound of the log
  SharedEntries, \* what the fork has in common with the log
  MaxAge,        \* max_checkpoint_age_seconds
  LastMinute,    \* bound of the clock
  DurableObserver, \* SQLiteCheckpointObserver, or the one in memory
  NoCheckpoint

Checkpoints == [size : Nat, branch : {"main", "fork"}, time : Nat]
ASSUME TransparencyAssumption ==
  MaxTree \in Nat /\ SharedEntries \in Nat /\ NoCheckpoint \notin Checkpoints

VARIABLES
  published,  \* checkpoints the log has signed
  minute,     \* the clock
  lastSeen,   \* what the observer keeps of the log
  verifying,  \* what each thread is at
  candidate,  \* the update: "none", "staged", "healthy", "active"
  observed    \* history: what was observed since the observer knew nothing

transparency == <<published, minute, lastSeen, verifying, candidate, observed>>

Checkpoint(size, branch, time) == [size |-> size, branch |-> branch, time |-> time]
SameTree(c, d) == c.branch = d.branch \/ c.size <= SharedEntries
Idle == [at |-> "idle"]
Transitions == {<<"none", "staged">>, <<"staged", "healthy">>, <<"healthy", "active">>}
OtherUpdate == <<"other", "other">>       \* a transition of an update with another bundle
UpdateBundle == Checkpoint(1, "main", 0)

TransparencyInit ==
  /\ published = {UpdateBundle} /\ minute = 0
  /\ lastSeen = NoCheckpoint /\ verifying = [v \in Verifiers |-> Idle]
  /\ candidate = "none" /\ observed = {}

-----------------------------------------------------------------------------
(* The log.                                                                *)
LatestSize(branch) ==
  CHOOSE n \in {c.size : c \in {d \in published : SameTree(d, [branch |-> branch])}} :
    \A c \in published : SameTree(c, [branch |-> branch]) => c.size <= n

Publish(branch, grows) ==
  LET size == IF grows THEN LatestSize(branch) + 1 ELSE LatestSize(branch) IN
  /\ size \in 1 .. MaxTree
  /\ branch = "main" \/ size > SharedEntries
  /\ published' = published \union {Checkpoint(size, branch, minute)}
  /\ published' # published
  /\ UNCHANGED <<minute, lastSeen, verifying, candidate, observed>>

MinutePasses ==
  /\ minute < LastMinute /\ minute' = minute + 1
  /\ UNCHANGED <<published, lastSeen, verifying, candidate, observed>>

-----------------------------------------------------------------------------
(* verify, for the transition that calls it, up to the observer: the chain *)
(* and the signatures hold, as does the inclusion proof.                   *)
BeginVerify(v, bundle, transition) ==
  /\ verifying[v].at \in {"idle", "refused"}
  /\ \/ bundle \in published /\ transition = OtherUpdate
     \/ bundle = UpdateBundle /\ transition \in Transitions /\ transition[1] = candidate
  /\ verifying' = [verifying EXCEPT ![v] = [at |-> "checked", bundle |-> bundle, now |-> minute,
                     current |-> bundle, transition |-> transition]]
  /\ UNCHANGED <<published, minute, lastSeen, candidate, observed>>

Refuse(v, code) ==
  verifying' = [verifying EXCEPT ![v] = [at |-> "refused", code |-> code, transition |-> @.transition]]
Go(v, to) == verifying' = [verifying EXCEPT ![v] = [@ EXCEPT !.at = to]]

ReplayedBySize(c) ==  \* faulty: an older signature of the same tree passes
  lastSeen # NoCheckpoint /\ c.size < lastSeen.size
Replayed(c) == /\ lastSeen # NoCheckpoint
               /\ c.size < lastSeen.size \/ c.time < lastSeen.time
Forked(c) == /\ lastSeen # NoCheckpoint /\ c.size = lastSeen.size /\ ~SameTree(c, lastSeen)

(* observe, in its lock or transaction.                                    *)
Observe(v, c, next) ==
  CASE Replayed(c) -> Refuse(v, "replayed") /\ UNCHANGED <<lastSeen, observed>>
    [] Forked(c) -> Refuse(v, "fork") /\ UNCHANGED <<lastSeen, observed>>
    [] OTHER -> Go(v, next) /\ lastSeen' = c /\ observed' = observed \union {c}

ObserveBundle(v) ==
  /\ verifying[v].at = "checked"
  /\ Observe(v, verifying[v].bundle, "online")
  /\ UNCHANGED <<published, minute, candidate>>

Fresh(v, c) == verifying[v].now <= c.time + MaxAge
Agrees(bundle, current) ==
  /\ bundle.size <= current.size
  /\ SameTree(bundle, current)

(* The current checkpoint of the log, or of the fork, or an exception.     *)
AskOnline(v, current) ==
  LET bundle == verifying[v].bundle IN
  /\ verifying[v].at = "online"
  /\ IF /\ Fresh(v, bundle) /\ current # NoCheckpoint
        /\ Fresh(v, current) /\ Agrees(bundle, current)
       THEN verifying' = [verifying EXCEPT ![v] = [@ EXCEPT !.at = "answered", !.current = current]]
       ELSE Refuse(v, "online")
  /\ UNCHANGED <<published, minute, lastSeen, candidate, observed>>

ObserveCurrent(v) ==
  /\ verifying[v].at = "answered"
  /\ Observe(v, verifying[v].current, "verified")
  /\ UNCHANGED <<published, minute, candidate>>

(* The store's part of stage, record_health and activate.                  *)
CommitTransition(v) ==
  /\ verifying[v].at = "verified" /\ verifying' = [verifying EXCEPT ![v] = Idle]
  /\ candidate' = IF candidate = verifying[v].transition[1]
                    THEN verifying[v].transition[2] ELSE candidate
  /\ UNCHANGED <<published, minute, lastSeen, observed>>

(* The process ends: an observer in memory forgets.                        *)
RestartVerifier ==
  /\ verifying' = [v \in Verifiers |-> Idle]
  /\ IF DurableObserver THEN UNCHANGED <<lastSeen, observed>>
                        ELSE lastSeen' = NoCheckpoint /\ observed' = {}
  /\ UNCHANGED <<published, minute, candidate>>

-----------------------------------------------------------------------------
TransparencyNext ==
  \/ \E branch \in {"main", "fork"}, grows \in BOOLEAN : Publish(branch, grows)
  \/ \E v \in Verifiers, c \in published, t \in Transitions \union {OtherUpdate} : BeginVerify(v, c, t)
  \/ \E v \in Verifiers, c \in published \union {NoCheckpoint} : AskOnline(v, c)
  \/ \E v \in Verifiers : ObserveBundle(v) \/ ObserveCurrent(v) \/ CommitTransition(v)
  \/ MinutePasses \/ RestartVerifier

TransparencySpec == TransparencyInit /\ [][TransparencyNext]_transparency

-----------------------------------------------------------------------------
(* What the observer let pass never goes back in size or in time, and      *)
(* never shows two trees of one size, whoever verified it and, if it is    *)
(* durable, across restarts.  It compares no more than that: a fork at a   *)
(* greater size is growth to it, and left to the consistency proof.        *)
ObservedOnlyGrows ==
  \A c \in observed :
    /\ c.size <= lastSeen.size /\ c.time <= lastSeen.time
    /\ \A d \in observed : /\ c.size = d.size => SameTree(c, d)
                           /\ c.size < d.size => c.time <= d.time

(* supply_chain_bundle.py:111, "Detect rollback/replay and same-size forks *)
(* without rejecting normal reuse": the bundle with which an update was    *)
(* staged is not refused as a replay by the transitions that follow.       *)
ReuseIsAccepted ==
  \A v \in Verifiers :
    /\ verifying[v].at = "refused" /\ verifying[v].code = "replayed"
    /\ \A c \in published : c.branch = "main"
    => verifying[v].transition \notin {<<"staged", "healthy">>, <<"healthy", "active">>}
=============================================================================
