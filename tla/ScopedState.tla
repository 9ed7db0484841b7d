------------------------------ MODULE ScopedState ------------------------------
(***************************************************************************)
(* SqliteScopedState (tenancy.py): entries with a lifetime and an ordered  *)
(* stream of events per tenant scope, and the scoped audit that is kept in *)
(* a stream (audit.py).  A call reads the clock before it has the          *)
(* database, so that it may commit with a reading that is behind.          *)
(***************************************************************************)
EXTENDS Naturals, FiniteSets, FiniteSetsExt

CONSTANTS
  Tenants,       \* scopes, told apart by their digests
  Writers,       \* threads and processes with the store
  EntryTtl,      \* ttl_seconds of set_cache
  EventTtl,      \* ttl_seconds of append_event, or 0 for events that stay
  PageLimit,     \* limit of list_events and of cleanup_expired
  LastMoment, MaxRows \* bounds: the clock, and updates or events of a scope

(* _ttl and _limit refuse anything below zero and one.                     *)
ASSUME ScopedAssumption ==
  /\ EntryTtl \in Nat /\ EventTtl \in Nat /\ PageLimit \in Nat \ {0}
  /\ LastMoment \in Nat /\ MaxRows \in Nat

VARIABLES
  entryRows,          \* scoped_entries: scope -> its one key's row, or none
  stream,        \* scoped_events: scope -> rows
  writer,        \* what each writer is about to commit
  moment,        \* the clock
  follower,      \* scope -> a reader's after_sequence, and how often it was given each
  tally          \* history: updates since a row began anew; events

scopedState == <<entryRows, stream, writer, moment, follower, tally>>

Never == LastMoment + EntryTtl + EventTtl + 1  \* a NULL expires_at
NoRow == [value |-> 0, expires |-> 0]          \* an absent row, expired from the start
Calls == {"set", "set_cache", "transact", "append", "cleanup"}
Quiet == [call |-> "none"]

ScopedInit ==
  /\ entryRows = [s \in Tenants |-> NoRow]
  /\ stream = [s \in Tenants |-> {}]
  /\ writer = [w \in Writers |-> Quiet]
  /\ moment = 0
  /\ follower = [s \in Tenants |-> [after |-> 0, given |-> [n \in 1..MaxRows |-> 0]]]
  /\ tally = [s \in Tenants |-> [updates |-> 0, events |-> 0]]

ExpiredAt(row, time) == row.expires <= time

-----------------------------------------------------------------------------
BeginCall(w, call, s) ==
  /\ writer[w] = Quiet
  /\ writer' = [writer EXCEPT ![w] = [call |-> call, scope |-> s, time |-> moment]]
  /\ UNCHANGED <<entryRows, stream, moment, follower, tally>>

Commits(w, call) == writer[w].call = call /\ writer' = [writer EXCEPT ![w] = Quiet]

(* set and set_cache: one upsert, here of the value 1.                     *)
SetEntry(w) ==
  LET s == writer[w].scope
      expires == IF writer[w].call = "set" THEN Never ELSE writer[w].time + EntryTtl
  IN
  /\ Commits(w, "set") \/ Commits(w, "set_cache")
  /\ entryRows' = [entryRows EXCEPT ![s] = [value |-> 1, expires |-> expires]]
  /\ tally' = [tally EXCEPT ![s].updates = 1]
  /\ UNCHANGED <<stream, moment, follower>>

(* transact_entry, with an update that counts: what has expired by the     *)
(* reading is as good as absent, and what is written stays.                *)
BuildsOnAnything(row, time) == row # NoRow
BuildsOn(row, time) == ~ExpiredAt(row, time)
TransactEntry(w) ==
  LET s == writer[w].scope
      base == IF BuildsOn(entryRows[s], writer[w].time) THEN entryRows[s].value ELSE 0
  IN
  /\ Commits(w, "transact") /\ base < MaxRows
  /\ entryRows' = [entryRows EXCEPT ![s] = [value |-> base + 1, expires |-> Never]]
  /\ tally' = [tally EXCEPT ![s].updates =
                 IF ExpiredAt(entryRows[s], writer[w].time) THEN 1 ELSE @ + 1]
  /\ UNCHANGED <<stream, moment, follower>>

(* append_event: the next sequence is read in the transaction.             *)
NextSequence(s) == Max({e.sequence : e \in stream[s]} \cup {0}) + 1
AppendEvent(w) ==
  LET s == writer[w].scope
      event == [sequence |-> NextSequence(s), id |-> tally[s].events + 1,
                expires |-> IF EventTtl = 0 THEN Never ELSE writer[w].time + EventTtl]
  IN
  /\ Commits(w, "append") /\ tally[s].events < MaxRows
  /\ stream' = [stream EXCEPT ![s] = @ \cup {event}]
  /\ tally' = [tally EXCEPT ![s].events = @ + 1]
  /\ UNCHANGED <<entryRows, moment, follower>>

(* cleanup_expired: at most a page of the expired rows of one scope.       *)
Cleanup(w) ==
  LET s == writer[w].scope
      dead(e) == ExpiredAt(e, writer[w].time)
      due == {e \in stream[s] : dead(e)}
  IN
  /\ Commits(w, "cleanup")
  /\ entryRows' = IF dead(entryRows[s]) THEN [entryRows EXCEPT ![s] = NoRow] ELSE entryRows
  /\ \E page \in SUBSET due :
       /\ Cardinality(page) = Min({Cardinality(due), PageLimit})
       /\ stream' = [stream EXCEPT ![s] = @ \ page]
  /\ UNCHANGED <<moment, follower, tally>>

DeleteEntry(s) ==
  /\ entryRows[s] # NoRow
  /\ entryRows' = [entryRows EXCEPT ![s] = NoRow] /\ tally' = [tally EXCEPT ![s].updates = 0]
  /\ UNCHANGED <<stream, writer, moment, follower>>

(* list_events, read on from the last sequence that was given: a page of   *)
(* what has not expired, in order of sequence.                             *)
Follow(s) ==
  LET new == {e \in stream[s] : e.sequence > follower[s].after /\ ~ExpiredAt(e, moment)} IN
  \E page \in (SUBSET new) \ {{}} :
    /\ Cardinality(page) = Min({Cardinality(new), PageLimit})
    /\ \A e \in page, f \in new \ page : e.sequence < f.sequence
    /\ follower' = [follower EXCEPT ![s] =
                      [after |-> Max({e.sequence : e \in page}),
                       given |-> [n \in 1..MaxRows |->
                                    IF n \in {e.id : e \in page} THEN @.given[n] + 1 ELSE @.given[n]]]]
    /\ UNCHANGED <<entryRows, stream, writer, moment, tally>>

ScopedTick ==
  /\ moment < LastMoment /\ moment' = moment + 1
  /\ UNCHANGED <<entryRows, stream, writer, follower, tally>>

ScopedNext ==
  \/ \E w \in Writers :
       \/ \E call \in Calls, s \in Tenants : BeginCall(w, call, s)
       \/ SetEntry(w) \/ TransactEntry(w) \/ AppendEvent(w) \/ Cleanup(w)
  \/ \E s \in Tenants : DeleteEntry(s) \/ Follow(s)
  \/ ScopedTick

ScopedSpec == ScopedInit /\ [][ScopedNext]_scopedState

-----------------------------------------------------------------------------
(* Properties.                                                             *)

(* No update of an entry is lost or built on a value that had expired when *)
(* the update began; sequences number what a stream holds in the order it  *)
(* came; and while events stay, whoever follows a stream is given every    *)
(* one of them once, up to the sequence it has reached.                    *)
ScopedStateIsExact ==
  /\ \A s \in Tenants :
       /\ ~ExpiredAt(entryRows[s], moment) => entryRows[s].value = tally[s].updates
       /\ \A e, f \in stream[s] :
            e # f => e.sequence # f.sequence /\ (e.sequence < f.sequence <=> e.id < f.id)
  /\ EventTtl = 0 => \A s \in Tenants :
       /\ Cardinality(stream[s]) = tally[s].events
       /\ follower[s].given = [n \in 1..MaxRows |-> IF n <= follower[s].after THEN 1 ELSE 0]
=============================================================================
