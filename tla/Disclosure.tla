------------------------------- MODULE Disclosure -------------------------------
(***************************************************************************)
(* Progressive disclosure (service.py, search.py, references.py): a        *)
(* session searches the active catalogue, loads a part of a capability,    *)
(* rehydrates what it left out and executes operations it loaded, with     *)
(* signed references from each step to the next, while the catalogue goes  *)
(* on to other generations (fork_catalog) and the process may start again. *)
(* Of what a load selects only the operations are kept: sections are text. *)
(* A call is handed the service of the generation that is current and runs *)
(* on it, outside the lock, whatever becomes current meanwhile; a session  *)
(* makes one call at a time.                                               *)
(***************************************************************************)
EXTENDS Integers, FiniteSets

CONSTANTS
  Capabilities, Releases, CapabilityOf, \* coordinates, revisions
  OperationsOf,    \* release -> operations it declares; a skill declares none
  NeedsOf,         \* release -> permissions it asks for
  Sessions, GrantedTo, \* sessions, and the permissions of each
  Guarded,         \* operations that need an approval
  RefTtl,          \* load_ref_ttl_seconds and execution_ref_ttl_seconds
  LastSecond,      \* bound of the clock, which references read in seconds
  MaxCalls,        \* bound of the calls that hand out references
  CanRestart

VARIABLES
  enabled,         \* activations of the current generation
  second,          \* the clock
  key,             \* the signing key: a number, new in every process
  issued,          \* references handed out
  grants,          \* _SharedServiceState.grants: execution reference -> operations
  handling,        \* what the call of a session does, and the activations of its service
  calls,           \* history: number of calls that handed out references
  loads,           \* history: what each load selected and returned
  ran              \* history: the last execution let through to the provider

disclosure == <<enabled, second, key, issued, grants, handling, calls, loads, ran>>

Off == "off"
Purposes == {"load", "execution", "approval", "rehydration"}

(* A reference is its claims and its signature: whatever is issued twice   *)
(* in one second for the same claims is the same reference.  subject: the  *)
(* operation approved or the operation omitted.                            *)
Reference(purpose, release, session, subject) ==
  [purpose |-> purpose, release |-> release, session |-> session, subject |-> subject,
   expires |-> second + RefTtl, key |-> key]
Anything == "any"

(* verify: the signature, the time, the scope and the purpose.             *)
Verified(ref, session, purpose) ==
  /\ ref.key = key /\ second < ref.expires
  /\ ref.session = session /\ ref.purpose = purpose
NoCall == [pc |-> "idle"]
(* _active_manifest asks the registry of the generation the call was       *)
(* handed, which does not change.                                          *)
Active(session, release) == handling[session].generation[CapabilityOf[release]] = release
PresentableStale(ref, session, purpose) == ref \in issued /\ Verified(ref, session, purpose)
Presentable(ref, session, purpose) ==
  ref \in issued /\ Verified(ref, session, purpose) /\ Active(session, ref.release)

DisclosureInit ==
  /\ enabled \in {e \in [Capabilities -> Releases \union {Off}] :
                    \A c \in Capabilities : e[c] # Off /\ CapabilityOf[e[c]] = c}
  /\ second = 0 /\ key = 1 /\ issued = {} /\ grants = <<>>
  /\ handling = [s \in Sessions |-> NoCall]
  /\ calls = 0 /\ loads = {} /\ ran = {}

NewReference(references) ==
  calls < MaxCalls /\ calls' = calls + 1 /\ issued' = issued \union references

CallOver(session) == handling' = [handling EXCEPT ![session] = NoCall]
Serving(session) == handling[session].pc = "serving"

Granted(ref, operations) ==
  [r \in DOMAIN grants \union {ref} |-> IF r = ref THEN operations ELSE grants[r]]

-----------------------------------------------------------------------------
(* _service(), under the lock: a call is handed the current generation.    *)
TakeService(session) ==
  /\ handling[session].pc = "idle"
  /\ handling' = [handling EXCEPT ![session] = [pc |-> "serving", generation |-> enabled]]
  /\ UNCHANGED <<enabled, second, key, issued, grants, calls, loads, ran>>

(* A refused reference, operation or approval, a spent budget or a failing *)
(* provider ends a call with an error, at any of its steps.                *)
EndInError(session) ==
  /\ handling[session].pc # "idle"
  /\ CallOver(session)
  /\ UNCHANGED <<enabled, second, key, issued, grants, calls, loads, ran>>

(* search: a card with a load reference for every active release that is   *)
(* visible to the session.  The query and its ranking, the limit and the   *)
(* output budgets only leave cards out, whose references nobody is given.  *)
Visible(session) ==
  LET active == handling[session].generation IN
  {active[c] : c \in {d \in Capabilities : active[d] # Off
                                           /\ NeedsOf[active[d]] \subseteq GrantedTo[session]}}

Cards(session) == {Reference("load", r, session, Anything) : r \in Visible(session)}

Search(session) ==
  /\ Serving(session)
  /\ NewReference(Cards(session)) /\ CallOver(session)
  /\ UNCHANGED <<enabled, second, key, grants, loads, ran>>

(* What a load returns: handles for the operations it leaves out and, but  *)
(* for a skill, an execution reference with its grant.                     *)
Returns(release, session, operations) ==
  LET ref == Reference("execution", release, session, Anything)
      left == OperationsOf[release] \ operations
      handles == {Reference("rehydration", release, session, o) : o \in left}
  IN
  /\ IF OperationsOf[release] = {}
     THEN NewReference(handles) /\ UNCHANGED <<grants, loads>>
     ELSE /\ NewReference(handles \union {ref})
          /\ grants' = Granted(ref, operations)
          /\ loads' = loads \union {[ref |-> ref, operations |-> operations]}
  /\ CallOver(session)
  /\ UNCHANGED <<enabled, second, key, ran>>

Load(session, ref, operations) ==
  /\ Serving(session)
  /\ Presentable(ref, session, "load")
  /\ operations \subseteq OperationsOf[ref.release]
  /\ Returns(ref.release, session, operations)

(* rehydrate loads exactly the one operation the handle names.             *)
Rehydrate(session, ref) ==
  /\ Serving(session)
  /\ Presentable(ref, session, "rehydration")
  /\ Returns(ref.release, session, {ref.subject})

(* A load whose budget is spent returns nothing, but its handles and its   *)
(* reference have been signed: nobody holds them.                          *)

-----------------------------------------------------------------------------
(* issue_approval and execute, up to the call of the provider; how it is   *)
(* settled is the module Execution.                                        *)

IssueApproval(session, release, operation) ==
  /\ Serving(session)
  /\ Active(session, release) /\ operation \in OperationsOf[release]
  /\ NewReference({Reference("approval", release, session, operation)})
  /\ CallOver(session)
  /\ UNCHANGED <<enabled, second, key, grants, loads, ran>>

(* The reference is verified and its grant looked up.                      *)
VerifyExecution(session, ref, operation) ==
  /\ Serving(session)
  /\ Presentable(ref, session, "execution")
  /\ ref \in DOMAIN grants /\ operation \in grants[ref]
  /\ handling' = [handling EXCEPT ![session] =
                    [pc |-> "verified", generation |-> @.generation, ref |-> ref,
                     operation |-> operation, verified |-> second]]
  /\ UNCHANGED <<enabled, second, key, issued, grants, calls, loads, ran>>

(* Once arguments and dependencies were checked: the approval, and what    *)
(* the policy says.                                                        *)
Approved(session, release, operation) ==
  \E a \in issued : /\ Verified(a, session, "approval")
                    /\ a.release = release /\ a.subject = operation

Admit(session) ==
  LET call == handling[session] IN
  /\ call.pc = "verified"
  /\ NeedsOf[call.ref.release] \subseteq GrantedTo[session]
  /\ call.operation \in Guarded => Approved(session, call.ref.release, call.operation)
  /\ handling' = [handling EXCEPT ![session] =
                    [pc |-> "admitted", generation |-> @.generation, ref |-> @.ref,
                     operation |-> @.operation, verified |-> @.verified, admitted |-> second]]
  /\ UNCHANGED <<enabled, second, key, issued, grants, calls, loads, ran>>

(* After the waits for budget, idempotency and the provider's circuit: the *)
(* provider of the generation handed to the call is called with the        *)
(* manifest that was verified.                                             *)
CallProvider(session) ==
  LET call == handling[session] IN
  /\ call.pc = "admitted"
  /\ ran' = {[session |-> session, ref |-> call.ref, operation |-> call.operation,
               release |-> call.generation[CapabilityOf[call.ref.release]],
               verified |-> call.verified, admitted |-> call.admitted]}
  /\ CallOver(session)
  /\ UNCHANGED <<enabled, second, key, issued, grants, calls, loads>>

-----------------------------------------------------------------------------
(* fork_catalog keeps references and grants; a restart keeps neither.      *)
Fork(c, release) ==
  /\ enabled[c] # release
  /\ release # Off => CapabilityOf[release] = c
  /\ enabled' = [enabled EXCEPT ![c] = release]
  /\ UNCHANGED <<second, key, issued, grants, handling, calls, loads, ran>>

Restart ==
  /\ CanRestart /\ key = 1
  /\ key' = 2 /\ grants' = <<>>
  /\ handling' = [s \in Sessions |-> NoCall]
  /\ UNCHANGED <<enabled, second, issued, calls, loads, ran>>

DisclosureTick ==
  /\ second < LastSecond /\ second' = second + 1
  /\ UNCHANGED <<enabled, key, issued, grants, handling, calls, loads, ran>>

DisclosureNext ==
  \/ \E s \in Sessions :
       \/ TakeService(s) \/ EndInError(s) \/ Search(s) \/ Admit(s) \/ CallProvider(s)
       \/ \E ref \in issued :
            \/ \E operations \in SUBSET OperationsOf[ref.release] : Load(s, ref, operations)
            \/ Rehydrate(s, ref)
            \/ \E o \in OperationsOf[ref.release] : VerifyExecution(s, ref, o)
       \/ \E r \in Releases : \E o \in OperationsOf[r] \intersect Guarded : IssueApproval(s, r, o)
  \/ \E c \in Capabilities, r \in Releases \union {Off} : Fork(c, r)
  \/ Restart \/ DisclosureTick

DisclosureSpec == DisclosureInit /\ [][DisclosureNext]_disclosure

-----------------------------------------------------------------------------
(* Properties.                                                             *)

(* Whatever references are kept, swapped between sessions and presented    *)
(* late, and however the catalogue goes on under a call: the provider is   *)
(* called for the release that the reference names, active in the          *)
(* generation the call was handed; some load by this session in this       *)
(* process had selected the operation, no longer ago than its lifetime     *)
(* when the reference was verified; and a guarded operation had an         *)
(* approval that was good when it was admitted.                            *)
ExecutesWhatWasLoaded ==
  \A x \in ran :
    /\ x.release = x.ref.release /\ x.verified < x.ref.expires
    /\ \E l \in loads : l.ref = x.ref /\ x.operation \in l.operations
                        /\ l.ref.session = x.session
    /\ x.operation \in Guarded =>
         \E a \in issued : /\ a.purpose = "approval" /\ a.release = x.release
                           /\ a.session = x.session /\ a.subject = x.operation
                           /\ a.expires > x.admitted

(* The load of an operation is all its reference stands for (the message   *)
(* of operation_not_loaded): the grant of a reference is what the load     *)
(* that returned it selected.                                              *)
GrantIsItsLoad ==
  \A l \in loads : l.ref \in DOMAIN grants => grants[l.ref] = l.operations
=============================================================================
