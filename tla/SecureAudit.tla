------------------------------ MODULE SecureAudit ------------------------------
(***************************************************************************)
(* SecureAuditLedger and AuditRetentionManager (secure_audit.py,           *)
(* retention.py) behind a ResilientAuditSink: an HMAC-chained event file,  *)
(* a signed checkpoint beside it, and archived segments.  Processes share  *)
(* the directory; the lock of a ledger is the process's own.               *)
(***************************************************************************)
EXTENDS Naturals, Sequences, FiniteSets, SequencesExt

CONSTANTS Loggers,     \* processes with a ledger on the directory
          AuditEvents, \* events, each emitted at most once
          MaxSegments, \* archived segments kept (max_segments)
          CanCrash     \* whether processes die

ASSUME AuditAssumption == MaxSegments \in Nat \ {0}

VARIABLES file,        \* current/events.jsonl: a sequence of records
          checkpoint,  \* current/checkpoint.json: the chain it signs
          archive,     \* segment-<index> directories: index -> chain and checkpoint
          logger,      \* what each process does
          emitted,     \* events whose emit was tried
          committed,   \* history: events whose emit returned
          pruned,      \* history: events of segments that were removed
          crossed      \* history: rotations that another call overlapped

audit == <<file, checkpoint, archive, logger, emitted, committed, pruned, crossed>>

(* A chain hash stands for everything hashed into it: the events so far.   *)
Genesis == <<>>
Record(event, previous) == [event |-> event, previous |-> previous]
ChainHash(record) == Append(record.previous, record.event)
HashOf(records) == IF records = <<>> THEN Genesis ELSE ChainHash(Last(records))
NoCheckpoint == [count |-> 0, hash |-> Genesis, present |-> FALSE]
CheckpointOf(records) == [count |-> Len(records), hash |-> HashOf(records), present |-> TRUE]

(* _read_verified: each record extends the one before and the checkpoint   *)
(* signs the last one.                                                     *)
Chained(records) ==
  \A i \in DOMAIN records : records[i].previous = HashOf(SubSeq(records, 1, i - 1))
VerifiedByCount(records, signed) ==  \* faulty: the chain is not walked
  signed.present => signed.count = Len(records)
Verified(records, signed) ==
  IF records = <<>> /\ ~signed.present THEN TRUE
  ELSE Chained(records) /\ signed = CheckpointOf(records)

Resting == [pc |-> "idle"]
At(p) == logger[p]
(* Between two steps that belong together.                                 *)
Busy(p) == At(p).pc \in {"appending", "signing", "rotating"}
Alone(p) == \A q \in Loggers \ {p} : ~Busy(q)
Rotating == {p \in Loggers : At(p).pc = "rotating"}

AuditInit ==
  /\ file = <<>> /\ checkpoint = NoCheckpoint
  /\ archive = <<>>
  /\ logger = [p \in Loggers |-> Resting]
  /\ emitted = {} /\ committed = {} /\ pruned = {} /\ crossed = {}

Rests(p) == logger' = [logger EXCEPT ![p] = Resting]

-----------------------------------------------------------------------------
(* emit: verify, append, checkpoint.  Without a file there is no           *)
(* directory either: the append makes both.                                *)

(* A chain that fails verification takes no more records: the sink counts  *)
(* the failure and the business result stands.                             *)
Verify(p, e) ==
  /\ At(p).pc = "idle" /\ e \notin emitted
  /\ emitted' = emitted \union {e}
  /\ crossed' = crossed \union Rotating
  /\ IF Verified(file, checkpoint)
     THEN logger' = [logger EXCEPT ![p] = [pc |-> "appending", event |-> e, records |-> file]]
     ELSE Rests(p)
  /\ UNCHANGED <<file, checkpoint, archive, committed, pruned>>

(* The file and its checkpoint are read one after the other: what another  *)
(* process writes or moves in between does not fit together.               *)
Misread(p, e) ==
  /\ At(p).pc = "idle" /\ e \notin emitted /\ ~Alone(p)
  /\ emitted' = emitted \union {e}
  /\ crossed' = crossed \union Rotating
  /\ UNCHANGED <<file, checkpoint, archive, logger, committed, pruned>>

AppendRecord(p) ==
  /\ At(p).pc = "appending"
  /\ file' = Append(file, Record(At(p).event, HashOf(At(p).records)))
  /\ logger' = [logger EXCEPT ![p].pc = "signing"]
  /\ UNCHANGED <<checkpoint, archive, emitted, committed, pruned, crossed>>

(* The checkpoint signs the records this process verified and its own; it  *)
(* cannot be written once the directory was moved away.                    *)
WriteCheckpoint(p) ==
  LET own == Record(At(p).event, HashOf(At(p).records)) IN
  /\ At(p).pc = "signing"
  /\ IF file = <<>>
     THEN UNCHANGED <<checkpoint, committed>>
     ELSE /\ checkpoint' = CheckpointOf(Append(At(p).records, own))
          /\ committed' = committed \union {At(p).event}
  /\ Rests(p)
  /\ UNCHANGED <<file, archive, emitted, pruned, crossed>>

-----------------------------------------------------------------------------
(* rotate: the directory is verified, then renamed to the next segment;    *)
(* old segments are listed and removed, one file after the other.          *)

EventsOf(records) == {records[i].event : i \in DOMAIN records}
Segments == DOMAIN archive
NextIndex == IF Segments = {} THEN 1 ELSE Max(Segments) + 1
Retained(indices) == {i \in indices : Cardinality({j \in indices : j > i}) < MaxSegments}

StartRotation(p) ==
  /\ At(p).pc = "idle" /\ file # <<>> /\ Verified(file, checkpoint)
  /\ logger' = [logger EXCEPT ![p] = [pc |-> "rotating", index |-> NextIndex]]
  /\ crossed' = (crossed \ {p}) \union Rotating \union (IF Alone(p) THEN {} ELSE {p})
  /\ UNCHANGED <<file, checkpoint, archive, emitted, committed, pruned>>

(* os.replace takes whatever is in the directory by then; it fails when    *)
(* the directory is gone or another rotation has taken the index.          *)
ReplaceDirectory(p) ==
  /\ At(p).pc = "rotating"
  /\ IF file = <<>> \/ At(p).index \in Segments
     THEN Rests(p) /\ UNCHANGED <<file, checkpoint, archive>>
     ELSE /\ archive' = [i \in Segments \union {At(p).index} |->
                           IF i # At(p).index THEN archive[i]
                           ELSE [records |-> file, signed |-> checkpoint, half |-> FALSE,
                                 alone |-> p \notin crossed]]
          /\ file' = <<>> /\ checkpoint' = NoCheckpoint
          /\ logger' = [logger EXCEPT ![p] = [pc |-> "listing"]]
  /\ UNCHANGED <<emitted, committed, pruned, crossed>>

ListExpired(p) ==
  /\ At(p).pc = "listing"
  /\ LET expired == Segments \ Retained(Segments) IN
     IF expired = {} THEN Rests(p)
     ELSE logger' = [logger EXCEPT ![p] = [pc |-> "removing", left |-> expired]]
  /\ UNCHANGED <<file, checkpoint, archive, emitted, committed, pruned, crossed>>

(* rmtree, oldest segment first: a segment is no whole one from its first  *)
(* file on, and one that another process removed ends the call.            *)
RemoveSegment(p) ==
  LET i == Min(At(p).left) IN
  /\ At(p).pc = "removing"
  /\ \/ /\ i \in Segments /\ ~archive[i].half
        /\ archive' = [archive EXCEPT ![i].half = TRUE]
        /\ pruned' = pruned \union EventsOf(archive[i].records)
        /\ UNCHANGED logger
     \/ /\ i \in Segments /\ archive[i].half
        /\ archive' = Restrict(archive, Segments \ {i})
        /\ IF At(p).left = {i} THEN Rests(p) ELSE logger' = [logger EXCEPT ![p].left = @ \ {i}]
        /\ UNCHANGED pruned
     \/ /\ i \notin Segments
        /\ Rests(p) /\ UNCHANGED <<archive, pruned>>
  /\ UNCHANGED <<file, checkpoint, emitted, committed, crossed>>

Crash(p) ==
  /\ CanCrash /\ At(p).pc # "idle"
  /\ Rests(p)
  /\ UNCHANGED <<file, checkpoint, archive, emitted, committed, pruned, crossed>>

AuditNext ==
  \E p \in Loggers :
    \/ \E e \in AuditEvents : Verify(p, e) \/ Misread(p, e)
    \/ AppendRecord(p) \/ WriteCheckpoint(p)
    \/ StartRotation(p) \/ ReplaceDirectory(p) \/ ListExpired(p) \/ RemoveSegment(p)
    \/ Crash(p)

AuditSpec == AuditInit /\ [][AuditNext]_audit

-----------------------------------------------------------------------------
(* Properties.                                                             *)

(* A committed event is where an auditor looks: in the current file, in a  *)
(* segment, or in one that retention removes.                              *)
NothingCommittedIsLost ==
  committed \subseteq EventsOf(file) \union pruned
                       \union UNION {EventsOf(archive[i].records) : i \in Segments}

(* A segment is a whole chain with its signature, unless another process   *)
(* was at work on the directory between its verification and its move; and *)
(* only what retention has given up is ever half removed.                  *)
SegmentsAreWhole ==
  \A i \in Segments :
    /\ archive[i].alone =>
         /\ archive[i].records # <<>> /\ Chained(archive[i].records)
         /\ archive[i].signed = CheckpointOf(archive[i].records)
    /\ archive[i].half => i \notin Retained(Segments)

(* A ledger at rest verifies.                                              *)
LedgerStaysValid ==
  (\A p \in Loggers : At(p).pc = "idle") => Verified(file, checkpoint)

(* Nothing an emitter was told is committed is lost to a crash, a rotation *)
(* or another process, and every archived segment that no other process    *)
(* meddled with verifies until retention removes it.                       *)
AuditIsKept == NothingCommittedIsLost /\ SegmentsAreWhole
=============================================================================
