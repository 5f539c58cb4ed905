--------------------------- MODULE SchemaMigration ---------------------------
(***************************************************************************)
(* applyDatabaseMigrations with the one migration there is, 001: several   *)
(* runners may be started at once, die at any statement and be started     *)
(* again, and the application may write identities meanwhile.              *)
(*                                                                         *)
(* The tables hold what is committed.  What a runner has not committed yet *)
(* is kept apart: the rows it has deleted and those whose provider it has  *)
(* set to the empty string.  The statements on channel_events are one      *)
(* step: the first ALTER TABLE locks everybody else out.                   *)
(***************************************************************************)
EXTENDS Naturals, FiniteSets

CONSTANTS
  Runners,     \* processes that run the migrations
  NoRunner,
  Keys,        \* pairs of identity_type and identity_value
  Providers,   \* non-empty providers
  Customers,
  Events,      \* the rows of channel_events
  MaxRows,     \* bound on the rows of customer_identities
  MaxFailures,  \* bound on the failures of runners
  Writing      \* whether the application runs at the same time

ASSUME MigrationAssumption ==
  /\ NoRunner \notin Runners
  /\ MaxRows \in Nat /\ MaxFailures \in Nat
  /\ Writing \in BOOLEAN
  /\ Providers \cap {"null", ""} = {}

VARIABLES
  identities,  \* the rows of customer_identities
  events,      \* status and error_classification of the rows of channel_events
  applied,     \* whether schema_migrations has the migration
  pc,          \* pc[r]: the statement at which runner r stands
  holder,      \* the transaction that has the advisory lock
  deleted,     \* ids of the rows it has deleted
  emptied,     \* ids of the rows whose provider it has set to ''
  failures

tables == <<identities, events, applied>>
draft == <<deleted, emptied>>
vars == <<tables, pc, holder, draft, failures>>

Row == [id : 1..MaxRows, customer : Customers, key : Keys, provider : Providers \cup {"null", ""}]

(* A classification other than the four known ones may be in an old row,   *)
(* as may a status other than the three.                                   *)
Event == [status : {"known", "other"}, classification : {"null", "known", "other"}]

Coalesce(provider) == IF provider = "null" THEN "" ELSE provider

(* UNIQUE (identity_type, provider, identity_value): NULLs are distinct.   *)
Clash(a, b) ==
  a.id # b.id /\ a.key = b.key /\ a.provider = b.provider /\ a.provider # "null"

SameIdentity(a, b) == a.key = b.key /\ Coalesce(a.provider) = Coalesce(b.provider)

(* A database of any age: what the old schema allowed.                     *)
Init ==
  /\ identities \in {rows \in SUBSET Row :
       \A a, b \in rows : (a.id = b.id => a = b) /\ ~Clash(a, b)}
  /\ events \in [Events -> Event]
  /\ applied = FALSE
  /\ pc = [r \in Runners |-> "idle"]
  /\ holder = NoRunner
  /\ deleted = {} /\ emptied = {}
  /\ failures = 0

-----------------------------------------------------------------------------
(* What a statement of the runner sees: its own writes too.                *)
Seen ==
  {[row EXCEPT !.provider = IF row.id \in emptied THEN "" ELSE @] :
     row \in {row \in identities : row.id \notin deleted}}

Goto(r, statement) == pc' = [pc EXCEPT ![r] = statement]

(* COMMIT, ROLLBACK or the end of the session: the lock is free again.     *)
EndTransaction(r) ==
  /\ Goto(r, "idle")
  /\ holder' = NoRunner
  /\ deleted' = {} /\ emptied' = {}

(* Mutant of Rollback: a lock of the session, which the pool keeps.        *)
RollbackKeepingLock(r) ==
  /\ Goto(r, "idle")
  /\ deleted' = {} /\ emptied' = {}
  /\ UNCHANGED <<tables, holder>>

Rollback(r) == EndTransaction(r) /\ UNCHANGED tables

Start(r) ==
  /\ pc[r] = "idle"
  /\ Goto(r, "lock")
  /\ UNCHANGED <<tables, holder, draft, failures>>

TakeLock(r) ==
  /\ pc[r] = "lock" /\ holder = NoRunner
  /\ holder' = r
  /\ Goto(r, "lookup")
  /\ UNCHANGED <<tables, draft, failures>>

(* CREATE TABLE IF NOT EXISTS, and the lookup.                             *)
Lookup(r) ==
  /\ pc[r] = "lookup"
  /\ Goto(r, IF applied THEN "commit" ELSE "dedupe")
  /\ UNCHANGED <<tables, holder, draft, failures>>

(* Mutant of Duplicates: whoever the customer is.                          *)
DuplicatesOfAnybody ==
  {row \in Seen : \E keeper \in Seen : row.id > keeper.id /\ SameIdentity(row, keeper)}

(* Mutant of Duplicates: without the COALESCEs, NULL is equal to nothing.  *)
DuplicatesWithProvider ==
  {row \in Seen : \E keeper \in Seen :
     /\ row.id > keeper.id
     /\ row.customer = keeper.customer
     /\ row.key = keeper.key /\ row.provider = keeper.provider /\ row.provider # "null"}

(* The rows that say what a row with a smaller id says.                    *)
Duplicates ==
  {row \in Seen : \E keeper \in Seen :
     /\ row.id > keeper.id
     /\ row.customer = keeper.customer
     /\ SameIdentity(row, keeper)}

Dedupe(r) ==
  /\ pc[r] = "dedupe"
  /\ deleted' = {row.id : row \in Duplicates}
  /\ Goto(r, "check")
  /\ UNCHANGED <<tables, holder, emptied, failures>>

SeveralOwners(rows) ==
  \E a, b \in rows : SameIdentity(a, b) /\ a.customer # b.customer

(* RAISE EXCEPTION if an identity has several owners.                      *)
Check(r) ==
  /\ pc[r] = "check"
  /\ IF SeveralOwners(Seen)
     THEN Rollback(r)
     ELSE Goto(r, "normalise") /\ UNCHANGED <<tables, holder, draft>>
  /\ UNCHANGED failures

(* UPDATE ... SET provider = '' fails on a row that is there already.      *)
Normalise(r) ==
  LET nulls == {row \in Seen : row.provider = "null"} IN
  /\ pc[r] = "normalise"
  /\ IF \E a \in nulls, b \in Seen : a.id # b.id /\ SameIdentity(a, b)
     THEN Rollback(r)
     ELSE /\ emptied' = {row.id : row \in nulls}
          /\ Goto(r, "require")
          /\ UNCHANGED <<tables, holder, deleted>>
  /\ UNCHANGED failures

(* ALTER COLUMN provider SET NOT NULL; nobody else uses the table now.     *)
RequireProvider(r) ==
  /\ pc[r] = "require"
  /\ IF \E row \in Seen : row.provider = "null"
     THEN Rollback(r)
     ELSE Goto(r, "events") /\ UNCHANGED <<tables, holder, draft>>
  /\ UNCHANGED failures

(* Mutant of Constrain: ADD CONSTRAINT ... NOT VALID.                      *)
ConstrainUnvalidated(r) ==
  /\ pc[r] = "events"
  /\ Goto(r, "commit")
  /\ UNCHANGED <<tables, holder, draft, failures>>

(* The columns and the constraints of channel_events, and the record that  *)
(* the migration is applied.  Unknown classifications become `permanent'   *)
(* (at Commit); an unknown status fails its constraint.                    *)
Constrain(r) ==
  /\ pc[r] = "events"
  /\ IF \E e \in Events : events[e].status = "other"
     THEN Rollback(r)
     ELSE Goto(r, "commit") /\ UNCHANGED <<tables, holder, draft>>
  /\ UNCHANGED failures

(* COMMIT; its answer may be lost, which is the same to the database.      *)
Commit(r) ==
  /\ pc[r] = "commit"
  /\ identities' = Seen
  /\ events' = [e \in Events |->
       [events[e] EXCEPT !.classification = IF @ = "other" THEN "known" ELSE @]]
  /\ applied' = TRUE
  /\ EndTransaction(r)
  /\ UNCHANGED failures

(* A statement fails, or the process dies or loses its connection; the     *)
(* transaction is rolled back, if need be by Postgres.                     *)
Fail(r) ==
  /\ pc[r] # "idle" /\ failures < MaxFailures
  /\ failures' = failures + 1
  /\ IF holder = r
     THEN Rollback(r)
     ELSE Goto(r, "idle") /\ UNCHANGED <<tables, holder, draft>>

(* The application commits an upsert: it looks for ('' , key) literally,   *)
(* so it does not see an old row without a provider.                       *)
Upsert(key, c) ==
  /\ Writing
  /\ \A row \in identities : row.key = key => row.provider # ""
  /\ \A r \in Runners : pc[r] \in {"events", "commit"} => applied
  /\ \A row \in identities : row.key = key => row.id \notin emptied
  /\ \E id \in 1..MaxRows :
       /\ \A row \in identities : row.id # id
       /\ identities' = identities \cup
            {[id |-> id, customer |-> c, key |-> key, provider |-> ""]}
  /\ UNCHANGED <<events, applied, pc, holder, draft, failures>>

Advance(r) ==
  \/ TakeLock(r) \/ Lookup(r) \/ Dedupe(r) \/ Check(r) \/ Normalise(r)
  \/ RequireProvider(r) \/ Constrain(r) \/ Commit(r)

Next ==
  \/ \E r \in Runners : Start(r) \/ Advance(r) \/ Fail(r)
  \/ \E key \in Keys, c \in Customers : Upsert(key, c)

Spec == Init /\ [][Next]_vars

(* Somebody runs the migrations again until they are applied; statements   *)
(* are answered, and the lock is given to its waiters in turn.             *)
FairSpec ==
  Spec /\ \A r \in Runners : WF_vars(~applied /\ Start(r)) /\ SF_vars(Advance(r))

-----------------------------------------------------------------------------
(* Every variable stays in its type, and only the runner that has the lock *)
(* is past it.                                                             *)
TypeOK ==
  /\ identities \subseteq Row
  /\ events \in [Events -> Event]
  /\ applied \in BOOLEAN
  /\ pc \in [Runners -> {"idle", "lock", "lookup", "dedupe", "check", "normalise",
                         "require", "events", "commit"}]
  /\ \A r \in Runners : pc[r] \notin {"idle", "lock"} <=> holder = r
  /\ deleted \subseteq 1..MaxRows /\ emptied \subseteq 1..MaxRows
  /\ failures \in 0..MaxFailures

(* A database with the migration applied is what the application assumes:  *)
(* every identity has one row and so one owner, with a provider; statuses  *)
(* and classifications are known ones.                                     *)
AppliedMeansHardened ==
  applied =>
    /\ \A row \in identities : row.provider # "null"
    /\ \A a, b \in identities : SameIdentity(a, b) => a = b
    /\ \A e \in Events : events[e].status = "known" /\ events[e].classification # "other"

Ownership == {<<row.key, Coalesce(row.provider), row.customer>> : row \in identities}

(* No customer ever loses an identity: what the migration deletes was said *)
(* twice, and an identity with two owners stays with both.                 *)
OwnershipKept == [][Ownership \subseteq Ownership']_vars

(* Nothing in the database is in the way of the migration.                 *)
Migratable ==
  ~SeveralOwners(identities) /\ \A e \in Events : events[e].status = "known"

(* An old row without a provider has met one that the application wrote    *)
(* for the same identity after the duplicates were deleted.                *)
WrittenBesides ==
  Writing /\ \E old, new \in Seen :
    old.provider = "null" /\ new.provider = "" /\ old.key = new.key

(* A migration that has begun is given up only if something fails, if the  *)
(* database must not be migrated, or if the application has come between:  *)
(* rows of the old schema alone never make one of its statements fail.     *)
RefusedOnlyIfItMust ==
  [][\A r \in Runners :
       holder = r /\ holder' # r =>
         applied' \/ failures' > failures \/ ~Migratable \/ WrittenBesides]_vars

(* The migration is applied in the end, unless the database must not be.   *)
EventuallyApplied == <>(applied \/ ~Migratable)

=============================================================================
