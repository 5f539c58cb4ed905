------------------------ MODULE InMemoryRepositories ------------------------
(***************************************************************************)
(* The repositories of the demo pipeline and of every server without a     *)
(* database: maps in the memory of one process.  Their methods are async   *)
(* but await nothing, so each is one step.  They are to behave as the      *)
(* tables of PostgreSQL do: ChannelEvents and CustomerDirectory.           *)
(*                                                                         *)
(* A map has the keys it holds as its domain.  A customer is the set of    *)
(* its identities; name and tags are overwritten by every upsert.  The two *)
(* readings of the clock in `begin' are one.                               *)
(***************************************************************************)
EXTENDS Naturals, Sequences

CONSTANTS
  Events, Tokens, NoToken,            \* as in ChannelEvents
  Identities, Customers, NoCustomer,  \* as in CustomerDirectory
  Lease,                              \* processingLeaseMs
  MaxNow                              \* bound on the clock

ASSUME RepositoriesAssumption ==
  /\ NoToken \notin Tokens /\ NoCustomer \notin Customers
  /\ Lease \in Nat /\ MaxNow \in Nat

VARIABLES
  now,                     \* the clock
  events,                  \* the map of FakePostgresIdempotencyRepository
  failureClassifications,  \* its second map
  customers,               \* the map of FakeCustomerRepository
  identityIndex,           \* its second map
  records                  \* the array of FakeBookingRepository

idempotency == <<events, failureClassifications>>
directory == <<customers, identityIndex>>
vars == <<now, idempotency, directory, records>>

Classification == {"transient", "permanent", "rate_limited", "timeout"}

Empty == [key \in {} |-> key]

Set(map, key, value) ==
  [k \in DOMAIN map \cup {key} |-> IF k = key THEN value ELSE map[k]]

Init ==
  /\ now = 0
  /\ events = Empty /\ failureClassifications = Empty
  /\ customers = Empty /\ identityIndex = Empty
  /\ records = <<>>

Tick ==
  /\ now < MaxNow /\ now' = now + 1
  /\ UNCHANGED <<idempotency, directory, records>>

-----------------------------------------------------------------------------
(* Mutant of Active: a lease is over when all of its time has passed.      *)
ActiveUntil(event) ==
  event.status = "processing" /\ now - event.startedAt < Lease

(* processingIsActive                                                      *)
Active(event) ==
  event.status = "processing" /\ now - event.startedAt <= Lease

(* begin, of an event that is not answered `duplicate'.                    *)
Begin(e, t) ==
  /\ e \in DOMAIN events => events[e].status # "completed" /\ ~Active(events[e])
  /\ \A f \in DOMAIN events : events[f].token # t
  /\ events' = Set(events, e, [status |-> "processing", token |-> t, startedAt |-> now])
  /\ UNCHANGED <<now, failureClassifications, directory, records>>

(* requireLease does not throw.                                            *)
HasLease(e, t) ==
  e \in DOMAIN events /\ events[e].status = "processing" /\ events[e].token = t

Complete(e, t) ==
  /\ HasLease(e, t)
  /\ events' = [events EXCEPT ![e].status = "completed"]
  /\ UNCHANGED <<now, failureClassifications, directory, records>>

Fail(e, t, classification) ==
  /\ HasLease(e, t)
  /\ events' = [events EXCEPT ![e].status = "failed"]
  /\ failureClassifications' = Set(failureClassifications, e, classification)
  /\ UNCHANGED <<now, directory, records>>

-----------------------------------------------------------------------------
OwnerIds(ids) == {identityIndex[i] : i \in ids \cap DOMAIN identityIndex}

(* Mutant of Merged: the identities a customer has are forgotten.          *)
MergedIncoming(c, ids) == ids

(* mergeIdentities                                                         *)
Merged(c, ids) == ids \cup (IF c \in DOMAIN customers THEN customers[c] ELSE {})

(* upsertByIdentities, when the identities are not those of several        *)
(* customers; c is the one owner, or the random id of a new customer.      *)
UpsertByIdentities(ids, c) ==
  /\ OwnerIds(ids) \subseteq {c}
  /\ OwnerIds(ids) = {} => c \notin DOMAIN customers
  /\ customers' = Set(customers, c, Merged(c, ids))
  /\ identityIndex' = [i \in DOMAIN identityIndex \cup Merged(c, ids) |->
                         IF i \in Merged(c, ids) THEN c ELSE identityIndex[i]]
  /\ UNCHANGED <<now, idempotency, records>>

(* createLead, of a lead that is not among the records.  Its id is that of *)
(* the event.                                                              *)
CreateLead(e, c) ==
  /\ \A n \in DOMAIN records : records[n].id # e
  /\ records' = Append(records, [id |-> e, customer |-> c])
  /\ UNCHANGED <<now, idempotency, directory>>

Next ==
  \/ Tick
  \/ \E e \in Events, t \in Tokens :
       \/ Begin(e, t) \/ Complete(e, t)
       \/ \E c \in Classification : Fail(e, t, c)
  \/ \E ids \in (SUBSET Identities) \ {{}}, c \in Customers : UpsertByIdentities(ids, c)
  \/ \E e \in Events, c \in DOMAIN customers : CreateLead(e, c)

Spec == Init /\ [][Next]_vars

-----------------------------------------------------------------------------
(* What the maps say a table would hold.  A classification that an earlier *)
(* attempt left behind is not that of the event, and time goes on for an   *)
(* event that is settled.                                                  *)
Row(e) ==
  IF e \notin DOMAIN events
  THEN [status |-> "absent", token |-> NoToken, reason |-> "none", lease |-> "running"]
  ELSE [status |-> events[e].status, token |-> events[e].token,
        reason |-> IF events[e].status = "failed" THEN failureClassifications[e] ELSE "none",
        lease |-> IF now - events[e].startedAt > Lease THEN "overdue" ELSE "running"]

Table == INSTANCE ChannelEvents WITH row <- [e \in Events |-> Row(e)]

Book == INSTANCE CustomerDirectory WITH
  owner <- [i \in Identities |->
              IF i \in DOMAIN identityIndex THEN identityIndex[i] ELSE NoCustomer]

(* What a test sees through the in-memory repositories could be seen in    *)
(* the database: every method does what the statements of its PostgreSQL   *)
(* counterpart do, at the same age of a lease and to the same customer.    *)
ImplementsTables == Table!EventsSpec /\ Book!DirectorySpec

(* The two maps of a repository agree: a customer has the identities that  *)
(* the index gives it, a failed event has its classification; and a lead   *)
(* is recorded once.                                                       *)
Consistent ==
  /\ now \in 0..MaxNow
  /\ \A e \in DOMAIN events :
       /\ events[e].startedAt <= now
       /\ events[e].status = "failed" => e \in DOMAIN failureClassifications
  /\ DOMAIN failureClassifications \subseteq DOMAIN events
  /\ \A c \in DOMAIN customers :
       /\ customers[c] # {}
       /\ customers[c] = {i \in DOMAIN identityIndex : identityIndex[i] = c}
  /\ \A i \in DOMAIN identityIndex : identityIndex[i] \in DOMAIN customers
  /\ \A m, n \in DOMAIN records : records[m].id = records[n].id => m = n

=============================================================================
