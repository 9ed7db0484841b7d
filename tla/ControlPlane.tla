----------------------------- MODULE ControlPlane -----------------------------
(***************************************************************************)
(* The control planes: a loopback server (http_control.py for data,        *)
(* admin_control.py for management) before one authenticator (auth.py),    *)
(* and the remote listeners (remote_control.py).  Each request has a       *)
(* thread of its own, which a close of the server does not wait for.       *)
(***************************************************************************)
EXTENDS Naturals, FiniteSets

CONSTANTS
  Requests,              \* the requests sent, each by a handler thread
  Tickets,               \* one-time credentials, each with a nonce of its own
  AdminOperations,       \* operations of the management plane
  RoleOperations,        \* those the principal's roles allow
  DataCertificates, AdminCertificates, \* remote principals, by audience
  Adapters,              \* what data_adapter_provider may return
  TicketTtl,             \* ttl_seconds of issue_one_time
  LastInstant, MaxEpoch, \* bounds: the clock, and the keys drawn
  Nobody

ASSUME PlaneAssumption == Nobody \notin Tickets \union DataCertificates \union AdminCertificates

VARIABLES
  plane,     \* which loopback control: "http" or "admin"
  server,    \* "down", "up", or "stopping": its loop still accepts after close began;
             \* a session that is live while it is not "up" is that of a start
  live,      \* _session_digest is not None
  epoch,     \* _key, numbered by the closes that drew it
  consumed,  \* _consumed_nonces
  ticket,    \* credentials issued or being issued
  request,   \* what each handler thread is at
  sequence,  \* the dispatcher's _sequence
  events,    \* what it has emitted
  instant,   \* the clock
  listening, \* the remote listeners that are up
  owner,     \* _data_adapters: adapter -> the certificate it serves
  served     \* history: <<adapter, certificate>> dispatched

auth == <<live, epoch, consumed>>
remote == <<listening, owner, served>>
controlPlane == <<plane, server, auth, ticket, request, sequence, events, instant, remote>>

Unsent == [at |-> "unsent"]
Blank == [at |-> "none"]

ControlPlaneInit ==
  /\ plane \in {"http", "admin"} /\ server = "down"
  /\ live = FALSE /\ epoch = 1 /\ consumed = {}
  /\ ticket = [c \in Tickets |-> Blank]
  /\ request = [r \in Requests |-> Unsent]
  /\ sequence = 0 /\ events = {} /\ instant = 0
  /\ listening = {} /\ owner = [a \in Adapters |-> Nobody] /\ served = {}

-----------------------------------------------------------------------------
(* The authenticator and the loopback server.                              *)

(* start holds the lifecycle lock: start_session, and then the port, which *)
(* may be taken; the session, live in between, is closed again.            *)
Starting == live /\ server # "up"

StartSession ==
  /\ server # "up" /\ ~live
  /\ live' = TRUE /\ consumed' = {}
  /\ UNCHANGED <<plane, server, epoch, ticket, request, sequence, events, instant, remote>>

Bind ==
  /\ Starting /\ server' = "up"
  /\ UNCHANGED <<plane, auth, ticket, request, sequence, events, instant, remote>>

PortIsTaken ==
  /\ Starting /\ epoch < MaxEpoch
  /\ live' = FALSE /\ epoch' = epoch + 1 /\ consumed' = {}
  /\ UNCHANGED <<plane, server, ticket, request, sequence, events, instant, remote>>

(* close up to the end of its lock; the loop of the server runs on.        *)
BeginClose ==
  /\ ~Starting /\ epoch < MaxEpoch
  /\ server' = IF server = "up" THEN "stopping" ELSE server
  /\ live' = FALSE /\ epoch' = epoch + 1 /\ consumed' = {}
  /\ UNCHANGED <<plane, ticket, request, sequence, events, instant, remote>>

StopLoop ==
  /\ server = "stopping" /\ server' = "down"
  /\ UNCHANGED <<plane, auth, ticket, request, sequence, events, instant, remote>>

(* issue_one_time asks for a session under the lock and signs outside it.  *)
BeginTicket(c) ==
  /\ ticket[c] = Blank /\ live
  /\ ticket' = [ticket EXCEPT ![c] = [at |-> "signing", expires |-> instant + TicketTtl]]
  /\ UNCHANGED <<plane, server, auth, request, sequence, events, instant, remote>>

SignTicket(c) ==
  /\ ticket[c].at = "signing"
  /\ ticket' = [ticket EXCEPT ![c] = [at |-> "issued", expires |-> @.expires, key |-> epoch]]
  /\ UNCHANGED <<plane, server, auth, request, sequence, events, instant, remote>>

-----------------------------------------------------------------------------
(* A request.                                                              *)

Move(r, to) == request' = [request EXCEPT ![r] = to]
Answer(r, code) == Move(r, [request[r] EXCEPT !.at = "answered", !.answer = code])

(* A request with a one-time credential; key and session are history, what *)
(* _key was when it was verified and when it was accepted.                 *)
Arrive(r, c, op) ==
  /\ request[r] = Unsent /\ server # "down" /\ ticket[c].at = "issued"
  /\ Move(r, [at |-> "arrived", credential |-> c, operation |-> op, session |-> 0,
              key |-> 0, number |-> 0, done |-> FALSE, answer |-> "none"])
  /\ UNCHANGED <<plane, server, auth, ticket, sequence, events, instant, remote>>

(* A request with the bearer token of a session: one comparison.           *)
ArriveBearer(r, key, op) ==
  /\ request[r] = Unsent /\ server # "down"
  /\ Move(r, [at |-> IF live /\ key = epoch THEN "accepted" ELSE "answered",
              credential |-> Nobody, operation |-> op, session |-> epoch,
              key |-> 0, number |-> 0, done |-> FALSE,
              answer |-> IF live /\ key = epoch THEN "none" ELSE "unauthorized"])
  /\ UNCHANGED <<plane, server, auth, ticket, sequence, events, instant, remote>>

(* _authenticate_signed before its lock: the signature and the expiry.     *)
Verify(r) ==
  LET c == ticket[request[r].credential] IN
  /\ request[r].at = "arrived"
  /\ IF c.key = epoch /\ instant < c.expires
       THEN Move(r, [request[r] EXCEPT !.at = "verified", !.key = epoch])
       ELSE Answer(r, "unauthorized")
  /\ UNCHANGED <<plane, server, auth, ticket, sequence, events, instant, remote>>

UnusedIfVerified(c) == TRUE  \* faulty: the nonce is not looked up again
Unused(c) == c \notin consumed

(* ... and under it.                                                       *)
Consume(r) ==
  LET c == request[r].credential IN
  /\ request[r].at = "verified"
  /\ IF live /\ Unused(c)
       THEN /\ consumed' = consumed \union {c}
            /\ Move(r, [request[r] EXCEPT !.at = "accepted", !.session = epoch])
       ELSE Answer(r, "unauthorized") /\ UNCHANGED consumed
  /\ UNCHANGED <<plane, server, live, epoch, ticket, sequence, events, instant, remote>>

(* The role check of the admin plane.                                      *)
DenyRole(r) ==
  /\ plane = "admin" /\ request[r].at = "accepted"
  /\ request[r].operation \notin RoleOperations
  /\ Answer(r, "denied")
  /\ UNCHANGED <<plane, server, auth, ticket, sequence, events, instant, remote>>

(* backend.dispatch or adapter.dispatch, which raises and does nothing, or *)
(* takes effect; the data plane answers at once.                           *)
Dispatch(r, succeeds) ==
  /\ request[r].at = "accepted"
  /\ \/ /\ plane = "http"
        /\ Move(r, [request[r] EXCEPT !.at = "answered", !.done = succeeds,
                                      !.answer = IF succeeds THEN "ok" ELSE "failed"])
     \/ /\ plane = "admin" /\ request[r].operation \in RoleOperations
        /\ Move(r, [request[r] EXCEPT !.at = "dispatched", !.done = succeeds])
  /\ UNCHANGED <<plane, server, auth, ticket, sequence, events, instant, remote>>

(* _emit: the number under the lock, the event outside it.                 *)
TakeSequence(r) ==
  /\ request[r].at = "dispatched"
  /\ sequence' = sequence + 1
  /\ Move(r, [request[r] EXCEPT !.at = "emitting", !.number = sequence'])
  /\ UNCHANGED <<plane, server, auth, ticket, events, instant, remote>>

EventOf(r) == [request |-> r, sequence |-> request[r].number,
               outcome |-> IF request[r].done THEN "success" ELSE "failure"]
AnswerAfter(r, emitted) == IF emitted /\ request[r].done THEN "ok" ELSE "failed"

EmitEvent(r, emitted) ==
  /\ request[r].at = "emitting"
  /\ events' = IF emitted THEN events \union {EventOf(r)} ELSE events
  /\ Answer(r, AnswerAfter(r, emitted))
  /\ UNCHANGED <<plane, server, auth, ticket, sequence, instant, remote>>

InstantPasses ==
  /\ instant < LastInstant /\ instant' = instant + 1
  /\ UNCHANGED <<plane, server, auth, ticket, request, sequence, events, remote>>

-----------------------------------------------------------------------------
(* The remote planes: two listeners that start together or not at all, and *)
(* an adapter that the provider returned for one certificate.              *)

StartRemote(bound) ==
  /\ listening = {}
  /\ listening' = IF bound THEN {"data", "admin"} ELSE {}
  /\ UNCHANGED <<plane, server, auth, ticket, request, sequence, events, instant, owner, served>>

CloseRemote ==
  /\ listening' = {}
  /\ UNCHANGED <<plane, server, auth, ticket, request, sequence, events, instant, owner, served>>

PrincipalOn(listener) == IF listener = "data" THEN DataCertificates ELSE AdminCertificates
Owns(a, certificate) == owner[a] \in {Nobody, certificate}

RemoteData(a, certificate) ==
  /\ "data" \in listening /\ certificate \in PrincipalOn("data")
  /\ Owns(a, certificate)
  /\ owner' = [owner EXCEPT ![a] = certificate]
  /\ served' = served \union {<<a, certificate>>}
  /\ UNCHANGED <<plane, server, auth, ticket, request, sequence, events, instant, listening>>

-----------------------------------------------------------------------------
ControlPlaneNext ==
  \/ \E bound \in BOOLEAN : StartRemote(bound)
  \/ StartSession \/ Bind \/ PortIsTaken \/ BeginClose \/ StopLoop \/ InstantPasses \/ CloseRemote
  \/ \E c \in Tickets : BeginTicket(c) \/ SignTicket(c)
  \/ \E r \in Requests, c \in Tickets, op \in AdminOperations : Arrive(r, c, op)
  \/ \E r \in Requests, key \in 1..MaxEpoch, op \in AdminOperations : ArriveBearer(r, key, op)
  \/ \E r \in Requests : Verify(r) \/ Consume(r) \/ DenyRole(r) \/ TakeSequence(r)
  \/ \E r \in Requests, b \in BOOLEAN : Dispatch(r, b) \/ EmitEvent(r, b)
  \/ \E a \in Adapters, certificate \in DataCertificates \union AdminCertificates :
       RemoteData(a, certificate)

ControlPlaneSpec == ControlPlaneInit /\ [][ControlPlaneNext]_controlPlane

-----------------------------------------------------------------------------
Accepted(r) == /\ request[r] # Unsent /\ request[r].credential # Nobody
               /\ request[r].session > 0

(* A one-time credential is accepted once in a session, however many       *)
(* handler threads have verified it before one consumes it, and always for *)
(* a request verified under the key that signed it.  A close forgets the   *)
(* nonces (auth.py:61), so it can be accepted again, in a later session,   *)
(* but only for a request that was verified before the close.              *)
ServedOnce ==
  \A r \in Requests : Accepted(r) =>
    /\ request[r].key = ticket[request[r].credential].key
    /\ request[r].key <= request[r].session
    /\ \A q \in Requests :
         r # q /\ Accepted(q) /\ request[q].credential = request[r].credential
               /\ request[q].session <= request[r].session
           => request[r].key < request[r].session /\ request[q].session # request[r].session

(* An answer says what was done: "ok" has an effect, and in the management *)
(* plane an event that says so; a refusal has none; and no two events of   *)
(* the dispatcher share a number.                                          *)
AnsweredAsDone ==
  /\ \A r \in Requests : request[r].at = "answered" =>
       /\ request[r].answer = "ok" =>
            /\ request[r].done
            /\ plane = "admin" => \E e \in events : e.request = r /\ e.outcome = "success"
       /\ request[r].done => request[r].answer \in {"ok", "failed"}
       /\ plane = "admin" /\ request[r].done => request[r].operation \in RoleOperations
  /\ \A e, f \in events : e.sequence = f.sequence => e = f

(* An adapter only ever serves the certificate it was first given for.     *)
OneCallerPerAdapter ==
  \A a \in Adapters : Cardinality({c \in DataCertificates \union AdminCertificates :
                                     <<a, c>> \in served}) <= 1

(* Through restarts, replayed tickets and requests on several planes: a    *)
(* ticket lets in once in a session, an adapter serves one caller, and     *)
(* what is answered is what was done.                                      *)
ControlPlaneIsExact == ServedOnce /\ AnsweredAsDone /\ OneCallerPerAdapter
=============================================================================
