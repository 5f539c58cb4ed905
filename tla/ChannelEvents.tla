---------------------------- MODULE ChannelEvents ----------------------------
(***************************************************************************)
(* The channel_events table and the three statements that                  *)
(* PostgresIdempotencyRepository runs on it.  Each is one SQL statement,   *)
(* so each is one atomic step on the row of its event.                     *)
(*                                                                         *)
(* Time is kept only as far as the code looks at it: a row's lease is      *)
(* overdue once more than five minutes have passed since                 *)
(* processing_started_at.  attempt_count, completed_at and the timestamps  *)
(* themselves are written but never read, and are left out.                *)
(***************************************************************************)
EXTENDS FiniteSets, Integers

CONSTANTS
  Events,        \* the pairs (channel, provider_event_id)
  Tokens,        \* the UUIDs a lease token is drawn from
  NoToken        \* processing_token of an event that has no row yet

ASSUME NoTokenAssumption == NoToken \notin Tokens

VARIABLE row     \* row[e]: the channel_events row of event e

Classification == {"transient", "permanent", "rate_limited", "timeout"}

Row ==
  [status  : {"absent", "processing", "failed", "completed"},
   token   : Tokens \cup {NoToken},
   reason  : Classification \cup {"none"},
   lease   : {"running", "overdue"}]

NoRow ==
  [status |-> "absent", token |-> NoToken, reason |-> "none", lease |-> "running"]

WriteRow(e, status, token, reason, lease) ==
  row' = [row EXCEPT ![e] =
    [status |-> status, token |-> token, reason |-> reason, lease |-> lease]]

EventsInit == row = [e \in Events |-> NoRow]

(* Mutant of Startable: the status test of a stalled lease is lost.        *)
StartableIfOld(e) == row[e].status \in {"absent", "failed"} \/ row[e].lease = "overdue"

(* Mutant of Startable: the age of a lease in processing is not tested.    *)
StartableUnlessDone(e) == row[e].status # "completed"

(* Mutant of Startable: stalled leases are never taken over.               *)
StartableUnlessBusy(e) == row[e].status \in {"absent", "failed"}

(* The INSERT, or the WHERE clause of its ON CONFLICT ... DO UPDATE.       *)
Startable(e) ==
  \/ row[e].status \in {"absent", "failed"}
  \/ row[e].status = "processing" /\ row[e].lease = "overdue"

(* begin: one INSERT that inserts, takes the row over, or touches nothing; *)
(* in the first two cases the row carries the caller's token and no trace  *)
(* of the attempt before.                                                  *)
StartLease(e, t) ==
  /\ Startable(e)
  /\ WriteRow(e, "processing", t, "none", "running")

(* Mutant of HoldsLease: the token is not compared.                        *)
HoldsAnyLease(e, t) == row[e].status = "processing"

(* Mutant of HoldsLease: the status is not compared.                       *)
HoldsSettledLease(e, t) == row[e].token = t

(* The guard complete and fail share.                                      *)
HoldsLease(e, t) == row[e].status = "processing" /\ row[e].token = t

CompleteLease(e, t) ==
  /\ HoldsLease(e, t)
  /\ WriteRow(e, "completed", row[e].token, row[e].reason, row[e].lease)

FailLease(e, t, classification) ==
  /\ HoldsLease(e, t)
  /\ WriteRow(e, "failed", row[e].token, classification, row[e].lease)

(* More than five minutes pass over a row that is still in processing.     *)
PassLeaseInterval(e) ==
  /\ row[e].status = "processing"
  /\ row[e].lease = "running"
  /\ WriteRow(e, row[e].status, row[e].token, row[e].reason, "overdue")

(* The table by itself: its statements, by whoever runs them, and time,    *)
(* which passes over several rows at once and over settled ones too.       *)
EventsNext ==
  \/ \E e \in Events, t \in Tokens :
       \/ StartLease(e, t) \/ CompleteLease(e, t)
       \/ \E c \in Classification : FailLease(e, t, c)
  \/ \E late \in SUBSET Events :
       row' = [e \in Events |->
                 IF e \in late THEN [row[e] EXCEPT !.lease = "overdue"] ELSE row[e]]

EventsSpec == EventsInit /\ [][EventsNext]_row

=============================================================================
