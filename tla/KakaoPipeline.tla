---------------------------- MODULE KakaoPipeline ----------------------------
(***************************************************************************)
(* handleKakaoMessage of src/pipelines/kakao-to-crm.ts with the tables it  *)
(* writes and the two adapters it calls.  A worker is one invocation of    *)
(* the handler, in any instance of the server; workers interleave at every *)
(* await, and the same event may be delivered any number of times.         *)
(*                                                                         *)
(* Faults, each counted in `faults' and bounded by MaxFaults: a statement  *)
(* that errors before or after it took effect, an adapter call that        *)
(* reports an error whether or not it landed, an adapter call that times   *)
(* out and is abandoned without being cancelled, the death of a process    *)
(* with all the invocations in it, and a lease that runs out under a       *)
(* worker that is still alive.                                             *)
(***************************************************************************)
EXTENDS ChannelEvents, CustomerDirectory

CONSTANTS
  Workers,
  NoEvent,
  IdentitiesOf,    \* the identities buildCustomerIdentities makes for an event
  Bookable,        \* events whose message has every required field
  Unparseable,     \* events whose draft the schema rejects (an empty nickname)
  AdapterErrors,   \* the classifications the adapters report
  MaxAttempts,     \* RetryPolicy.maxAttempts
  MaxFaults        \* bound on the faults of a behaviour

ASSUME PipelineAssumption ==
  /\ NoEvent \notin Events
  /\ IdentitiesOf \in [Events -> (SUBSET Identities) \ {{}}]
  /\ Bookable \subseteq Events
  /\ Unparseable \subseteq Events \ Bookable
  /\ AdapterErrors \subseteq Classification
  /\ MaxAttempts \in Nat \ {0}
  /\ MaxFaults \in Nat

(* UUIDs never run out: some token is held by no row and no worker.        *)
ASSUME TokensAssumption ==
  /\ IsFiniteSet(Events) /\ IsFiniteSet(Workers) /\ IsFiniteSet(Tokens)
  /\ Cardinality(Tokens) > Cardinality(Events) + Cardinality(Workers)

VARIABLES
  pc,          \* pc[w]: the await at which the invocation w stands
  job,         \* job[w]: its event, its lease token and the customer it resolved
  attempt,     \* attempt[w]: failed attempts of the adapter call under way
  reason,      \* reason[w]: the classification of the error it caught
  crm,         \* crm[e]: the customers the CRM was told of on behalf of e
  lead,        \* lead[e]: customer_id of the booking_leads row of e
  sheet,       \* sheet[e]: the number of Sheets rows appended for e
  lateCrm,     \* abandoned CRM calls that may still land
  lateSheet,   \* the number of abandoned Sheets calls that may still land
  replies,     \* replies[e]: the PipelineResults returned for e
  faults

invocation == <<pc, job, attempt, reason>>
vars == <<row, owner, pc, job, attempt, reason, crm, lead, sheet, lateCrm, lateSheet, replies, faults>>
effects == <<crm, lead, sheet, lateCrm, lateSheet>>

NoLead == NoCustomer

PC == {"idle", "customer", "crm", "lead", "sheet", "complete", "fail"}

Job ==
  [event : Events \cup {NoEvent},
   token : Tokens \cup {NoToken},
   customer : Customers \cup {NoCustomer}]

NoJob == [event |-> NoEvent, token |-> NoToken, customer |-> NoCustomer]

Result ==
  [status : {"duplicate", "needs_confirmation", "created"},
   customer : Customers \cup {NoCustomer}]

Init ==
  /\ EventsInit
  /\ DirectoryInit
  /\ pc = [w \in Workers |-> "idle"]
  /\ job = [w \in Workers |-> NoJob]
  /\ attempt = [w \in Workers |-> 0]
  /\ reason = [w \in Workers |-> "none"]
  /\ crm = [e \in Events |-> {}]
  /\ lead = [e \in Events |-> NoLead]
  /\ sheet = [e \in Events |-> 0]
  /\ lateCrm = [e \in Events |-> {}]
  /\ lateSheet = [e \in Events |-> 0]
  /\ replies = [e \in Events |-> {}]
  /\ faults = 0

-----------------------------------------------------------------------------
(* How an invocation moves on.                                             *)

At(w, await) == pc[w] = await

Event(w) == job[w].event

Goto(w, await) ==
  /\ pc' = [pc EXCEPT ![w] = await]
  /\ attempt' = [attempt EXCEPT ![w] = 0]
  /\ UNCHANGED <<job, reason>>

(* The catch block, up to its call of fail.                                *)
Raise(w, classification) ==
  /\ pc' = [pc EXCEPT ![w] = "fail"]
  /\ attempt' = [attempt EXCEPT ![w] = 0]
  /\ reason' = [reason EXCEPT ![w] = classification]
  /\ UNCHANGED job

(* The invocation is over: it returned or threw.                           *)
Leave(w) ==
  /\ pc' = [pc EXCEPT ![w] = "idle"]
  /\ job' = [job EXCEPT ![w] = NoJob]
  /\ attempt' = [attempt EXCEPT ![w] = 0]
  /\ reason' = [reason EXCEPT ![w] = "none"]

Reply(e, status, c) ==
  replies' = [replies EXCEPT ![e] = @ \cup {[status |-> status, customer |-> c]}]

Fault == faults < MaxFaults /\ faults' = faults + 1

(* Tokens that a row or an invocation still refers to.                     *)
LiveTokens == {row[e].token : e \in Events} \cup {job[w].token : w \in Workers}

(* Mutant of FreshToken: every lease gets the same token.                  *)
FixedToken == CHOOSE t \in Tokens : TRUE

(* randomUUID() never returns a token that anybody still knows.            *)
FreshToken == CHOOSE t \in Tokens : t \notin LiveTokens

-----------------------------------------------------------------------------
(* begin, and what the handler does synchronously when it returns.         *)

BeginDuplicate(w, e) ==
  /\ At(w, "idle")
  /\ ~Startable(e)
  /\ Reply(e, "duplicate", NoCustomer)
  /\ UNCHANGED <<row, owner, invocation, effects, faults>>

(* parseKakaoReservation runs before the next await: a draft the schema    *)
(* rejects is an error without a classification.                           *)
BeginStarted(w, e) ==
  /\ At(w, "idle")
  /\ StartLease(e, FreshToken)
  /\ job' = [job EXCEPT ![w] = [event |-> e, token |-> FreshToken, customer |-> NoCustomer]]
  /\ pc' = [pc EXCEPT ![w] = IF e \in Unparseable THEN "fail" ELSE "customer"]
  /\ reason' = [reason EXCEPT ![w] = IF e \in Unparseable THEN "permanent" ELSE "none"]
  /\ UNCHANGED <<attempt, owner, effects, replies, faults>>

(* The row is taken but the answer of the statement is lost.  begin is     *)
(* outside the try block, so nobody fails the lease.                       *)
BeginLost(w, e) ==
  /\ At(w, "idle")
  /\ Fault
  /\ StartLease(e, FreshToken)
  /\ UNCHANGED <<owner, invocation, effects, replies>>

-----------------------------------------------------------------------------
(* createCustomerFromReservation: the upsert, as the directory promises it. *)

UpsertCustomer(w) ==
  /\ At(w, "customer")
  /\ \E c \in Candidates(IdentitiesOf[Event(w)]) :
       /\ Upsert(IdentitiesOf[Event(w)], c)
       /\ job' = [job EXCEPT ![w] =
            [event |-> Event(w), token |-> job[w].token, customer |-> c]]
  /\ pc' = [pc EXCEPT ![w] = "crm"]
  /\ UNCHANGED <<attempt, reason, row, effects, replies, faults>>

(* CustomerIdentityConflictError is not a ClassifiedError.                 *)
UpsertConflict(w) ==
  /\ At(w, "customer")
  /\ Conflicting(IdentitiesOf[Event(w)])
  /\ Raise(w, "permanent")
  /\ UNCHANGED <<row, owner, effects, replies, faults>>

(* The transaction errors: rolled back, or committed with its answer lost. *)
UpsertError(w) ==
  /\ At(w, "customer")
  /\ Fault
  /\ \/ UNCHANGED owner
     \/ \E c \in Candidates(IdentitiesOf[Event(w)]) : Upsert(IdentitiesOf[Event(w)], c)
  /\ Raise(w, "permanent")
  /\ UNCHANGED <<row, effects, replies>>

-----------------------------------------------------------------------------
(* runWithRetry around an adapter call.                                    *)

Retryable == {"transient", "rate_limited", "timeout"}

(* One more attempt has failed: shouldRetry(error, attempt) or rethrow.    *)
AttemptFailed(w, error) ==
  IF error \in Retryable /\ attempt[w] + 1 < MaxAttempts
  THEN /\ attempt' = [attempt EXCEPT ![w] = @ + 1]
       /\ UNCHANGED <<pc, job, reason>>
  ELSE Raise(w, error)

AddCrm(e, c) == crm' = [crm EXCEPT ![e] = @ \cup {c}]
AddSheet(e) == sheet' = [sheet EXCEPT ![e] = @ + 1]
AbandonCrm(e, c) == lateCrm' = [lateCrm EXCEPT ![e] = @ \cup {c}]
AbandonSheet(e) == lateSheet' = [lateSheet EXCEPT ![e] = @ + 1]

SyncCustomer(w) ==
  /\ At(w, "crm")
  /\ AddCrm(Event(w), job[w].customer)
  /\ Goto(w, IF Event(w) \in Bookable THEN "lead" ELSE "complete")
  /\ UNCHANGED <<row, owner, lead, sheet, lateCrm, lateSheet, replies, faults>>

(* Mutant of SyncError: a failed CRM call is swallowed.                    *)
SyncErrorSwallowed(w, error) ==
  /\ At(w, "crm")
  /\ Fault
  /\ Goto(w, IF Event(w) \in Bookable THEN "lead" ELSE "complete")
  /\ UNCHANGED <<row, owner, effects, replies>>

SyncError(w, error) ==
  /\ At(w, "crm")
  /\ Fault
  /\ UNCHANGED crm \/ AddCrm(Event(w), job[w].customer)
  /\ AttemptFailed(w, error)
  /\ UNCHANGED <<row, owner, lead, sheet, lateCrm, lateSheet, replies>>

(* withTimeout gives up on the call; nothing cancels it.                   *)
SyncTimeout(w) ==
  /\ At(w, "crm")
  /\ Fault
  /\ AbandonCrm(Event(w), job[w].customer)
  /\ AttemptFailed(w, "timeout")
  /\ UNCHANGED <<row, owner, crm, lead, sheet, lateSheet, replies>>

SyncLands(e, c) ==
  /\ c \in lateCrm[e]
  /\ lateCrm' = [lateCrm EXCEPT ![e] = @ \ {c}]
  /\ AddCrm(e, c)
  /\ UNCHANGED <<row, owner, invocation, lead, sheet, lateSheet, replies, faults>>

AppendLead(w) ==
  /\ At(w, "sheet")
  /\ AddSheet(Event(w))
  /\ Goto(w, "complete")
  /\ UNCHANGED <<row, owner, crm, lead, lateCrm, lateSheet, replies, faults>>

AppendError(w, error) ==
  /\ At(w, "sheet")
  /\ Fault
  /\ UNCHANGED sheet \/ AddSheet(Event(w))
  /\ AttemptFailed(w, error)
  /\ UNCHANGED <<row, owner, crm, lead, lateCrm, lateSheet, replies>>

AppendTimeout(w) ==
  /\ At(w, "sheet")
  /\ Fault
  /\ AbandonSheet(Event(w))
  /\ AttemptFailed(w, "timeout")
  /\ UNCHANGED <<row, owner, crm, lead, sheet, lateCrm, replies>>

AppendLands(e) ==
  /\ lateSheet[e] > 0
  /\ lateSheet' = [lateSheet EXCEPT ![e] = @ - 1]
  /\ AddSheet(e)
  /\ UNCHANGED <<row, owner, invocation, crm, lead, lateCrm, replies, faults>>

-----------------------------------------------------------------------------
(* createLead: INSERT ... ON CONFLICT (id) DO NOTHING, then the stored row. *)

StoreLead(e, c) ==
  lead' = [lead EXCEPT ![e] = IF @ = NoLead THEN c ELSE @]

(* Mutant of CreateLead: the append to Sheets is forgotten.                *)
CreateLeadOnly(w) ==
  /\ At(w, "lead")
  /\ StoreLead(Event(w), job[w].customer)
  /\ Goto(w, "complete")
  /\ UNCHANGED <<row, owner, crm, sheet, lateCrm, lateSheet, replies, faults>>

CreateLead(w) ==
  /\ At(w, "lead")
  /\ StoreLead(Event(w), job[w].customer)
  /\ Goto(w, "sheet")
  /\ UNCHANGED <<row, owner, crm, sheet, lateCrm, lateSheet, replies, faults>>

LeadError(w) ==
  /\ At(w, "lead")
  /\ Fault
  /\ UNCHANGED lead \/ StoreLead(Event(w), job[w].customer)
  /\ Raise(w, "permanent")
  /\ UNCHANGED <<row, owner, crm, sheet, lateCrm, lateSheet, replies>>

-----------------------------------------------------------------------------
(* complete, and the handler's answer.                                     *)

(* Mutant of Complete: an event without a booking is answered, and left.   *)
CompleteBookableOnly(w) ==
  /\ At(w, "complete")
  /\ IF Event(w) \in Bookable THEN CompleteLease(Event(w), job[w].token) ELSE UNCHANGED row
  /\ Reply(Event(w), IF Event(w) \in Bookable THEN "created" ELSE "needs_confirmation",
           job[w].customer)
  /\ Leave(w)
  /\ UNCHANGED <<owner, effects, faults>>

Complete(w) ==
  /\ At(w, "complete")
  /\ CompleteLease(Event(w), job[w].token)
  /\ Reply(Event(w), IF Event(w) \in Bookable THEN "created" ELSE "needs_confirmation",
           job[w].customer)
  /\ Leave(w)
  /\ UNCHANGED <<owner, effects, faults>>

(* IdempotencyLeaseLostError, thrown inside the try block.                 *)
CompleteLeaseLost(w) ==
  /\ At(w, "complete")
  /\ ~HoldsLease(Event(w), job[w].token)
  /\ Raise(w, "permanent")
  /\ UNCHANGED <<row, owner, effects, replies, faults>>

CompleteError(w) ==
  /\ At(w, "complete")
  /\ Fault
  /\ UNCHANGED row \/ CompleteLease(Event(w), job[w].token)
  /\ Raise(w, "permanent")
  /\ UNCHANGED <<owner, effects, replies>>

(* Mutant of Fail: the error is not rethrown, the caller gets a result.    *)
FailAnswered(w) ==
  /\ At(w, "fail")
  /\ FailLease(Event(w), job[w].token, reason[w])
  /\ Reply(Event(w), "needs_confirmation", job[w].customer)
  /\ Leave(w)
  /\ UNCHANGED <<owner, effects, faults>>

(* The catch block: record the failure and rethrow.                        *)
Fail(w) ==
  /\ At(w, "fail")
  /\ FailLease(Event(w), job[w].token, reason[w])
  /\ Leave(w)
  /\ UNCHANGED <<owner, effects, replies, faults>>

(* fail itself throws: the lease is gone.                                  *)
FailLeaseLost(w) ==
  /\ At(w, "fail")
  /\ ~HoldsLease(Event(w), job[w].token)
  /\ Leave(w)
  /\ UNCHANGED <<row, owner, effects, replies, faults>>

(* fail itself throws: the statement errors, the row stays in processing   *)
(* (that it took effect and its answer was lost looks like Fail).          *)
FailError(w) ==
  /\ At(w, "fail")
  /\ Fault
  /\ Leave(w)
  /\ UNCHANGED <<row, owner, effects, replies>>

-----------------------------------------------------------------------------
(* What the handler does not control.                                      *)

(* A process dies, and with it every invocation W that runs in it; which   *)
(* instance of the server runs which invocations is left open.  Of their   *)
(* adapter calls under way, those in sent may already be on the wire.      *)
Crash(W) ==
  /\ \A w \in W : ~At(w, "idle")
  /\ Fault
  /\ pc' = [w \in Workers |-> IF w \in W THEN "idle" ELSE pc[w]]
  /\ job' = [w \in Workers |-> IF w \in W THEN NoJob ELSE job[w]]
  /\ attempt' = [w \in Workers |-> IF w \in W THEN 0 ELSE attempt[w]]
  /\ reason' = [w \in Workers |-> IF w \in W THEN "none" ELSE reason[w]]
  /\ \E sent \in SUBSET W :
       /\ lateCrm' = [e \in Events |-> lateCrm[e] \cup
            {job[w].customer : w \in {v \in sent : At(v, "crm") /\ Event(v) = e}}]
       /\ lateSheet' = [e \in Events |-> lateSheet[e] +
            Cardinality({w \in sent : At(w, "sheet") /\ Event(w) = e})]
  /\ UNCHANGED <<row, owner, crm, lead, sheet, replies>>

(* Five minutes pass.  That is a fault only if the holder is still alive.  *)
ExpireLease(e) ==
  /\ PassLeaseInterval(e)
  /\ IF \E w \in Workers : job[w].token = row[e].token THEN Fault ELSE UNCHANGED faults
  /\ UNCHANGED <<owner, invocation, effects, replies>>

Deliver(e) == \E w \in Workers : BeginDuplicate(w, e) \/ BeginStarted(w, e)

(* What an invocation does when nothing goes wrong around it.              *)
Proceed(w) ==
  \/ UpsertCustomer(w) \/ UpsertConflict(w)
  \/ SyncCustomer(w) \/ CreateLead(w) \/ AppendLead(w)
  \/ Complete(w) \/ CompleteLeaseLost(w)
  \/ Fail(w) \/ FailLeaseLost(w)

GoWrong(w) ==
  \/ \E e \in Events : BeginLost(w, e)
  \/ \E error \in AdapterErrors : SyncError(w, error) \/ AppendError(w, error)
  \/ SyncTimeout(w) \/ AppendTimeout(w)
  \/ UpsertError(w) \/ LeadError(w) \/ CompleteError(w) \/ FailError(w)

Next ==
  \/ \E e \in Events : Deliver(e)
  \/ \E w \in Workers : Proceed(w) \/ GoWrong(w)
  \/ \E W \in (SUBSET Workers) \ {{}} : Crash(W)
  \/ \E e \in Events : AppendLands(e) \/ ExpireLease(e)
  \/ \E e \in Events : \E c \in Customers : SyncLands(e, c)

Spec == Init /\ [][Next]_vars

-----------------------------------------------------------------------------
(* Fairness.  Node runs every invocation that is not waiting, every await  *)
(* ends (statements and adapter calls answer or time out), and time        *)
(* passes.  Nothing is assumed of the faults.                              *)

Running ==
  /\ \A w \in Workers : WF_vars(Proceed(w))
  /\ \A e \in Events : WF_vars(ExpireLease(e) /\ UNCHANGED faults)

(* A provider that keeps redelivering an event for as long as the service  *)
(* would start work on it.                                                 *)
RedeliveringSpec ==
  /\ Spec
  /\ Running
  /\ \A e \in Events : WF_vars(\E w \in Workers : BeginStarted(w, e))

(* A provider that redelivers only until its first 2xx answer.             *)
AcknowledgedSpec ==
  /\ Spec
  /\ Running
  /\ \A e \in Events : WF_vars(replies[e] = {} /\ Deliver(e))

-----------------------------------------------------------------------------
(* Every variable stays in its type.                                       *)
TypeOK ==
  /\ row \in [Events -> Row]
  /\ owner \in Directory
  /\ pc \in [Workers -> PC]
  /\ job \in [Workers -> Job]
  /\ attempt \in [Workers -> 0..(MaxAttempts - 1)]
  /\ reason \in [Workers -> Classification \cup {"none"}]
  /\ crm \in [Events -> SUBSET Customers]
  /\ lead \in [Events -> Customers \cup {NoLead}]
  /\ sheet \in [Events -> Nat]
  /\ lateCrm \in [Events -> SUBSET Customers]
  /\ lateSheet \in [Events -> Nat]
  /\ replies \in [Events -> SUBSET Result]
  /\ faults \in 0..MaxFaults

Ready(w) ==
  ~At(w, "idle") =>
    /\ Event(w) \in Events
    /\ job[w].token \in Tokens
    /\ pc[w] \in {"crm", "lead", "sheet", "complete"} =>
         /\ job[w].customer \in Customers
         /\ \A i \in IdentitiesOf[Event(w)] : owner[i] = job[w].customer
    /\ pc[w] \in {"lead", "sheet", "complete"} => job[w].customer \in crm[Event(w)]
    /\ pc[w] \in {"lead", "sheet"} => Event(w) \in Bookable
    /\ At(w, "sheet") => lead[Event(w)] # NoLead
    /\ At(w, "complete") /\ Event(w) \in Bookable =>
         lead[Event(w)] # NoLead /\ sheet[Event(w)] > 0

(* What an invocation has done and read before an await still holds when   *)
(* it goes on after it, whatever other invocations did meanwhile: the      *)
(* customer it resolved still owns all the sender's identities, the CRM    *)
(* was told of that customer, the lead and the Sheets row are there.       *)
Progress == \A w \in Workers : Ready(w)

(* A lease token is known to one invocation at most, and the token of an   *)
(* event's row is never in the hands of an invocation for another event:   *)
(* restarting a failed or stalled event always shuts out who had it.       *)
OneLeaseHolder ==
  /\ \A v, w \in Workers :
       v # w /\ job[v].token = job[w].token => job[v].token = NoToken
  /\ \A w \in Workers, e \in Events :
       job[w].token = row[e].token /\ row[e].token # NoToken => Event(w) = e

(* `completed' is a promise: whoever completed the event, and whatever     *)
(* attempts failed before, the CRM was told, and a bookable message has    *)
(* its lead and at least one Sheets row; any other message has no lead.    *)
CompletedHasEffects ==
  \A e \in Events : row[e].status = "completed" =>
    /\ crm[e] # {}
    /\ IF e \in Bookable THEN lead[e] # NoLead /\ sheet[e] > 0 ELSE lead[e] = NoLead

(* The customers that something was stored or sent about on behalf of e.   *)
About(e) == (crm[e] \cup lateCrm[e] \cup {lead[e]}) \ {NoLead}

(* All that is stored or sent for an event, by any of its attempts, is     *)
(* about the one customer that owns every identity of its message.         *)
EffectsBelongToSender ==
  \A e \in Events : \A c \in About(e) : \A i \in IdentitiesOf[e] : owner[i] = c

(* Sheets never hears of an event without a stored lead, and a lead is     *)
(* stored only for a bookable message whose customer the CRM, if it        *)
(* answers at all, was told of or is still being told of.                  *)
NoEffectOutOfOrder ==
  \A e \in Events :
    /\ sheet[e] + lateSheet[e] > 0 => lead[e] # NoLead
    /\ lead[e] # NoLead => e \in Bookable /\ lead[e] \in crm[e]

(* At any moment the effects of an event come in order, and once it is     *)
(* completed they are all there.                                           *)
EffectsInOrder == NoEffectOutOfOrder /\ CompletedHasEffects

(* A result the handler returned agrees with the tables, and goes on       *)
(* agreeing with them: the event is completed, the customer named is the   *)
(* owner of the sender's identities and, if a lead was created, its        *)
(* customer.                                                               *)
AnswersMatchRecords ==
  \A e \in Events : \A r \in replies[e] : r.status # "duplicate" =>
    /\ row[e].status = "completed"
    /\ \A i \in IdentitiesOf[e] : owner[i] = r.customer
    /\ lead[e] = (IF r.status = "created" THEN r.customer ELSE NoLead)

(* An event gets a second Sheets row only because something went wrong,    *)
(* and no fault costs more than one row: with no fault it is exactly once. *)
SheetRowsExplained ==
  \A e \in Events : sheet[e] + lateSheet[e] <= 1 + faults

(* w has the current lease of e, and has not given up.                     *)
AtWorkOn(w, e) ==
  Event(w) = e /\ job[w].token = row[e].token /\ pc[w] \notin {"idle", "fail"}

(* The events that somebody would have to deliver again: they were begun,  *)
(* they are not completed, and nobody is at work on them.                  *)
Lost ==
  {e \in Events \ Unparseable :
     /\ ~Conflicting(IdentitiesOf[e])
     /\ \/ row[e].status = "failed"
        \/ row[e].status = "processing" /\ \A w \in Workers : ~AtWorkOn(w, e)}

(* An event whose draft parses and whose identities do not conflict is     *)
(* lost only by a fault: else all that was begun is completed by the       *)
(* invocation that began it.  A fault loses one event; only the death of a *)
(* process may lose several, each of which an invocation that ends with it *)
(* was at work on.                                                         *)
LossesExplained ==
  [][Lost' \subseteq Lost \/
       /\ faults' = faults + 1
       /\ \/ \E e \in Events : Lost' \subseteq Lost \cup {e}
          \/ \A e \in Lost' \ Lost :
               \E w \in Workers : AtWorkOn(w, e) /\ pc'[w] = "idle"]_vars

(* Only the invocation that holds the current lease moves an event out of  *)
(* processing: one that lost its lease cannot complete or fail the event.  *)
Fencing ==
  [][\A e \in Events :
       row[e].status = "processing" /\ row'[e].status \in {"completed", "failed"} =>
         \E w \in Workers :
           /\ Event(w) = e
           /\ job[w].token = row[e].token
           /\ pc[w] \in {"complete", "fail"}]_vars

(* Nothing reopens a completed event, and a stored lead is never changed.  *)
FinalOutcome ==
  [][\A e \in Events :
       /\ row[e].status = "completed" => row'[e] = row[e]
       /\ lead[e] # NoLead => lead'[e] = lead[e]]_vars

(* An identity that has an owner keeps it.                                 *)
IdentityNeverMoves ==
  [][\A i \in Identities : owner[i] # NoCustomer => owner'[i] = owner[i]]_vars

(* What was settled stays settled: later attempts and later messages never *)
(* change a completed event, a stored lead or the owner of an identity.    *)
RecordsFinal == FinalOutcome /\ IdentityNeverMoves

(* The pipeline implements BookingLedger: with all its retries, takeovers  *)
(* and crashes, what it leaves in the CRM, the leads, Sheets and the event *)
(* table is a history the ledger allows.                                   *)
LedgerView == INSTANCE BookingLedger WITH
  told <- crm, booked <- lead, listed <- sheet,
  closed <- {e \in Events : row[e].status = "completed"}

Ledger == LedgerView!LedgerSpec

(* Under a provider that keeps redelivering, every event whose draft       *)
(* parses is completed in the end, unless its identities turn out to       *)
(* belong to two customers, whatever crashes and stalls came before.       *)
EventuallyCompleted ==
  \A e \in Events \ Unparseable :
    <>(row[e].status = "completed" \/ Conflicting(IdentitiesOf[e]))

(* A provider that stops at its first 2xx loses an event only by having    *)
(* been answered `duplicate'.                                              *)
LostOnlyByDuplicate ==
  \A e \in Events \ Unparseable :
    <>(\/ row[e].status = "completed"
       \/ Conflicting(IdentitiesOf[e])
       \/ \E r \in replies[e] : r.status = "duplicate")

=============================================================================
