--------------------------- MODULE CustomerUpsert ---------------------------
(***************************************************************************)
(* PostgresCustomerRepository.upsertByIdentities, statement by statement,  *)
(* inside PostgresDatabase.transaction.  Calls run concurrently, each on a *)
(* client of the connection pool; a statement sees what was committed when *)
(* it started (READ COMMITTED) and what its own transaction wrote.         *)
(*                                                                         *)
(* Any statement may fail, and any connection may be lost; both are free   *)
(* here, since a failed call leaves nothing behind that would have to be   *)
(* counted.                                                                *)
(***************************************************************************)
EXTENDS CustomerDirectory

CONSTANTS
  Calls,         \* the concurrent calls of upsertByIdentities
  NoCall,
  Requests,      \* the sets of identities they may be made with
  KeyRank,       \* the order of identityLockKey, which the identities are sorted by
  Locks,         \* the advisory lock numbers
  LockOf,        \* hashtextextended of an identity's lock key
  PoolSize       \* max of the connection pool

ASSUME UpsertAssumption ==
  /\ NoCall \notin Calls
  /\ Requests \subseteq (SUBSET Identities) \ {{}}
  /\ KeyRank \in [Identities -> Nat]
  /\ \A i, j \in Identities : KeyRank[i] = KeyRank[j] => i = j
  /\ LockOf \in [Identities -> Locks]
  /\ PoolSize \in Nat \ {0}

VARIABLES
  pc,          \* pc[t]: the statement at which call t stands
  ids,         \* ids[t]: the identities it was made with
  todo,        \* todo[t]: those its current loop has not come to
  found,       \* found[t]: the owners findOwnerIds has seen
  customer,    \* customer[t]: the customer it settled on
  inserted,    \* inserted[t]: the customer_identities rows it has not committed
  answer,      \* answer[t]: the identities its SELECT returned
  outcome,     \* outcome[t]: how its last call ended
  lockHolder,  \* lockHolder[l]: the transaction that has advisory lock l
  rowHolder    \* rowHolder[c]: the transaction that has updated customers row c

work == <<ids, todo, found, customer, inserted, answer>>
held == <<lockHolder, rowHolder>>
vars == <<owner, pc, work, outcome, held>>

(* The statements of the transaction, in the order they run.               *)
Statement == {"lock", "find", "insert", "update", "identities", "select", "commit"}

(* From here on the call has all its advisory locks.                       *)
Locked == Statement \ {"lock"}

(* From here on it has settled on its customer.                            *)
Settled == {"update", "identities", "select", "commit"}

Init ==
  /\ DirectoryInit
  /\ pc = [t \in Calls |-> "idle"]
  /\ ids = [t \in Calls |-> {}]
  /\ todo = [t \in Calls |-> {}]
  /\ found = [t \in Calls |-> {}]
  /\ customer = [t \in Calls |-> NoCustomer]
  /\ inserted = [t \in Calls |-> {}]
  /\ answer = [t \in Calls |-> {}]
  /\ outcome = [t \in Calls |-> "none"]
  /\ lockHolder = [l \in Locks |-> NoCall]
  /\ rowHolder = [c \in Customers |-> NoCall]

-----------------------------------------------------------------------------
(* The loops run over the identities in the order of their lock keys.      *)

NextIn(t) == CHOOSE i \in todo[t] : \A j \in todo[t] : KeyRank[i] <= KeyRank[j]

Goto(t, statement) == pc' = [pc EXCEPT ![t] = statement]

Last(t) == todo[t] = {NextIn(t)}

(* One turn of a loop, and what follows after the last.                    *)
Loop(t, after, restart) ==
  IF Last(t)
  THEN Goto(t, after) /\ todo' = [todo EXCEPT ![t] = restart]
  ELSE UNCHANGED pc /\ todo' = [todo EXCEPT ![t] = @ \ {NextIn(t)}]

(* Mutant of EndTransaction: the client of a conflict goes back to the     *)
(* pool without a ROLLBACK.                                                *)
EndWithoutRollback(t, how) ==
  /\ Goto(t, "idle")
  /\ outcome' = [outcome EXCEPT ![t] = how]
  /\ inserted' = [inserted EXCEPT ![t] = {}]
  /\ todo' = [todo EXCEPT ![t] = {}]
  /\ found' = [found EXCEPT ![t] = {}]
  /\ UNCHANGED <<ids, customer, answer>>
  /\ IF how = "conflict"
     THEN UNCHANGED held
     ELSE /\ lockHolder' = [l \in Locks |-> IF lockHolder[l] = t THEN NoCall ELSE lockHolder[l]]
          /\ rowHolder' = [c \in Customers |-> IF rowHolder[c] = t THEN NoCall ELSE rowHolder[c]]

(* The end of a transaction: Postgres gives up its locks, the pool gets    *)
(* its client back.                                                        *)
EndTransaction(t, how) ==
  /\ Goto(t, "idle")
  /\ outcome' = [outcome EXCEPT ![t] = how]
  /\ lockHolder' = [l \in Locks |-> IF lockHolder[l] = t THEN NoCall ELSE lockHolder[l]]
  /\ rowHolder' = [c \in Customers |-> IF rowHolder[c] = t THEN NoCall ELSE rowHolder[c]]
  /\ inserted' = [inserted EXCEPT ![t] = {}]
  /\ todo' = [todo EXCEPT ![t] = {}]
  /\ found' = [found EXCEPT ![t] = {}]
  /\ IF how = "error"
     THEN /\ ids' = [ids EXCEPT ![t] = {}]
          /\ customer' = [customer EXCEPT ![t] = NoCustomer]
          /\ answer' = [answer EXCEPT ![t] = {}]
     ELSE UNCHANGED <<ids, customer, answer>>

Connected == {t \in Calls : pc[t] \notin {"idle", "connect"}}

-----------------------------------------------------------------------------
Call(t) ==
  /\ pc[t] = "idle"
  /\ Goto(t, "connect")
  /\ \E request \in Requests : ids' = [ids EXCEPT ![t] = request]
  /\ outcome' = [outcome EXCEPT ![t] = "none"]
  /\ customer' = [customer EXCEPT ![t] = NoCustomer]
  /\ answer' = [answer EXCEPT ![t] = {}]
  /\ UNCHANGED <<owner, todo, found, inserted, held>>

(* pool.connect(), and BEGIN.                                              *)
Connect(t) ==
  /\ pc[t] = "connect"
  /\ Cardinality(Connected) < PoolSize
  /\ Goto(t, "lock")
  /\ todo' = [todo EXCEPT ![t] = ids[t]]
  /\ UNCHANGED <<owner, ids, found, customer, inserted, answer, outcome, held>>

(* connectionTimeoutMillis pass with every client in use.                  *)
ConnectTimeout(t) ==
  /\ pc[t] = "connect"
  /\ Cardinality(Connected) >= PoolSize
  /\ EndTransaction(t, "error")
  /\ UNCHANGED owner

(* Mutant of TakeLock: the lock is shared.                                 *)
TakeSharedLock(t, l) == lockHolder' = [lockHolder EXCEPT ![l] = t]

(* pg_advisory_xact_lock: waits for another holder, never for itself.      *)
TakeLock(t, l) ==
  /\ lockHolder[l] \in {t, NoCall}
  /\ lockHolder' = [lockHolder EXCEPT ![l] = t]

(* Mutant of LockIdentity: the identities are not sorted.                  *)
LockUnsorted(t) ==
  /\ pc[t] = "lock"
  /\ \E i \in todo[t] :
       /\ TakeLock(t, LockOf[i])
       /\ todo' = [todo EXCEPT ![t] = IF @ = {i} THEN ids[t] ELSE @ \ {i}]
       /\ IF todo[t] = {i} THEN Goto(t, "find") ELSE UNCHANGED pc
  /\ UNCHANGED <<owner, ids, found, customer, inserted, answer, outcome, rowHolder>>

(* Mutant of LockIdentity: no locks are taken.                             *)
LockNothing(t) ==
  /\ pc[t] = "lock"
  /\ Loop(t, "find", ids[t])
  /\ UNCHANGED <<owner, ids, found, customer, inserted, answer, outcome, held>>

LockIdentity(t) ==
  /\ pc[t] = "lock"
  /\ TakeLock(t, LockOf[NextIn(t)])
  /\ Loop(t, "find", ids[t])
  /\ UNCHANGED <<owner, ids, found, customer, inserted, answer, outcome, rowHolder>>

(* Mutant of FindOwner: a second owner is overlooked.                      *)
FindFirstOwner(t) ==
  LET seen == IF found[t] # {} THEN found[t] ELSE {owner[NextIn(t)]} \ {NoCustomer} IN
  /\ pc[t] = "find"
  /\ found' = [found EXCEPT ![t] = IF Last(t) THEN {} ELSE seen]
  /\ Loop(t, IF seen = {} THEN "insert" ELSE "update", {})
  /\ customer' = [customer EXCEPT ![t] =
       IF Last(t) /\ seen # {} THEN CHOOSE c \in seen : TRUE ELSE NoCustomer]
  /\ UNCHANGED <<owner, ids, inserted, answer, outcome, held>>

(* findOwnerIds, and the decision that follows its last query: more than   *)
(* one owner is a conflict, none makes a new customer, one is the customer. *)
FindOwner(t) ==
  LET seen == found[t] \cup ({owner[NextIn(t)]} \ {NoCustomer})
      several == \E c, d \in seen : c # d
  IN
  /\ pc[t] = "find"
  /\ found' = [found EXCEPT ![t] = IF Last(t) THEN {} ELSE seen]
  /\ Loop(t, IF several THEN "conflict" ELSE IF seen = {} THEN "insert" ELSE "update", {})
  /\ customer' = [customer EXCEPT ![t] =
       IF Last(t) /\ seen # {} /\ ~several
       THEN CHOOSE c \in seen : TRUE ELSE NoCustomer]
  /\ UNCHANGED <<owner, ids, inserted, answer, outcome, held>>

(* INSERT INTO customers: a UUID that nobody else has.                     *)
InsertCustomer(t) ==
  /\ pc[t] = "insert"
  /\ \E c \in Unused \ {customer[u] : u \in Connected} :
       customer' = [customer EXCEPT ![t] = c]
  /\ Goto(t, "update")
  /\ UNCHANGED <<owner, ids, todo, found, inserted, answer, outcome, held>>

(* Mutant of UpdateCustomer: without the UPDATE, no row lock is taken.     *)
UpdateSkipped(t) ==
  /\ pc[t] = "update"
  /\ Goto(t, "identities")
  /\ todo' = [todo EXCEPT ![t] = ids[t]]
  /\ UNCHANGED <<owner, ids, found, customer, inserted, answer, outcome, held>>

(* UPDATE customers: waits for another transaction that updated the row.   *)
UpdateCustomer(t) ==
  /\ pc[t] = "update"
  /\ rowHolder[customer[t]] \in {t, NoCall}
  /\ rowHolder' = [rowHolder EXCEPT ![customer[t]] = t]
  /\ Goto(t, "identities")
  /\ todo' = [todo EXCEPT ![t] = ids[t]]
  /\ UNCHANGED <<owner, ids, found, customer, inserted, answer, outcome, lockHolder>>

(* INSERT ... ON CONFLICT DO NOTHING: waits for a transaction that has     *)
(* inserted the same identity, and is silent about a committed owner.      *)
InsertIdentity(t) ==
  /\ pc[t] = "identities"
  /\ \A u \in Calls \ {t} : NextIn(t) \notin inserted[u]
  /\ inserted' = [inserted EXCEPT ![t] =
       @ \cup {i \in {NextIn(t)} : owner[i] = NoCustomer}]
  /\ Loop(t, "select", {})
  /\ UNCHANGED <<owner, ids, found, customer, answer, outcome, held>>

SelectIdentities(t) ==
  /\ pc[t] = "select"
  /\ answer' = [answer EXCEPT ![t] =
       inserted[t] \cup {i \in Identities : owner[i] = customer[t]}]
  /\ Goto(t, "commit")
  /\ UNCHANGED <<owner, ids, todo, found, customer, inserted, outcome, held>>

(* COMMIT; its answer may be lost, and then the ROLLBACK that follows has  *)
(* nothing to undo.                                                        *)
Commit(t) ==
  /\ pc[t] = "commit"
  /\ owner' = [i \in Identities |-> IF i \in inserted[t] THEN customer[t] ELSE owner[i]]
  /\ \E how \in {"customer", "error"} : EndTransaction(t, how)

(* CustomerIdentityConflictError, and ROLLBACK.                            *)
Conflict(t) ==
  /\ pc[t] = "conflict"
  /\ EndTransaction(t, "conflict")
  /\ UNCHANGED owner

(* A statement fails and the transaction is rolled back, or its connection *)
(* is lost and Postgres rolls it back.                                     *)
Abort(t) ==
  /\ pc[t] \in Statement \cup {"conflict"}
  /\ EndTransaction(t, "error")
  /\ UNCHANGED owner

Advance(t) ==
  \/ Connect(t) \/ LockIdentity(t) \/ FindOwner(t) \/ InsertCustomer(t)
  \/ UpdateCustomer(t) \/ InsertIdentity(t) \/ SelectIdentities(t)
  \/ Commit(t) \/ Conflict(t)

Next == \E t \in Calls : Call(t) \/ ConnectTimeout(t) \/ Advance(t) \/ Abort(t)

Spec == Init /\ [][Next]_vars

-----------------------------------------------------------------------------
(* t cannot go on before u ends its transaction.                           *)
WaitsFor(t, u) ==
  /\ t # u
  /\ \/ pc[t] = "lock" /\ lockHolder[LockOf[NextIn(t)]] = u
     \/ pc[t] = "update" /\ rowHolder[customer[t]] = u
     \/ pc[t] = "identities" /\ NextIn(t) \in inserted[u]

(* Each call of S waits for another call of S.                             *)
WaitCycle(S) == S # {} /\ \A t \in S : \E u \in S : WaitsFor(t, u)

Deadlocked(t) == \E S \in SUBSET Calls : t \in S /\ WaitCycle(S)

(* Fairness.  The pool and Postgres serve their waiters first come, first  *)
(* served, so a call that could go on again and again does (SF); Postgres  *)
(* looks for deadlocks and fails a statement of one.                       *)
FairSpec ==
  /\ Spec
  /\ \A t \in Calls : SF_vars(Advance(t)) /\ WF_vars(Deadlocked(t) /\ Abort(t))

-----------------------------------------------------------------------------
(* Every variable stays in its type: a call under way has a request, a     *)
(* loop under way has a turn left, and a call that has decided has a       *)
(* customer.                                                               *)
TypeOK ==
  /\ owner \in Directory
  /\ pc \in [Calls -> Statement \cup {"idle", "connect", "conflict"}]
  /\ ids \in [Calls -> Requests \cup {{}}]
  /\ todo \in [Calls -> SUBSET Identities]
  /\ found \in [Calls -> SUBSET Customers]
  /\ customer \in [Calls -> Customers \cup {NoCustomer}]
  /\ inserted \in [Calls -> SUBSET Identities]
  /\ answer \in [Calls -> SUBSET Identities]
  /\ outcome \in [Calls -> {"none", "customer", "conflict", "error"}]
  /\ lockHolder \in [Locks -> Calls \cup {NoCall}]
  /\ rowHolder \in [Customers -> Calls \cup {NoCall}]
  /\ \A t \in Calls :
       /\ pc[t] # "idle" => ids[t] \in Requests
       /\ pc[t] \in {"lock", "find", "identities"} => todo[t] # {} /\ todo[t] \subseteq ids[t]
       /\ pc[t] \in Settled => customer[t] \in Customers

(* From the first look at the owners to the commit, no other call that     *)
(* shares an identity, or the customer, is between its own first look (or  *)
(* its UPDATE) and its commit.                                             *)
Exclusive ==
  \A t, u \in Calls : t # u =>
    /\ pc[t] \in Locked /\ pc[u] \in Locked => ids[t] \cap ids[u] = {}
    /\ pc[t] \in Settled \ {"update"} /\ pc[u] \in Settled \ {"update"} =>
         customer[t] # customer[u]

(* A call that ended with a customer or with a conflict told the truth,    *)
(* and later calls do not falsify it: the customer owns every identity of  *)
(* the request and all that were listed; the identities of a conflicting   *)
(* request have several owners.                                            *)
OutcomesStayTrue ==
  \A t \in Calls :
    /\ outcome[t] = "customer" =>
         ids[t] \subseteq answer[t] /\ \A i \in answer[t] : owner[i] = customer[t]
    /\ outcome[t] = "conflict" => Conflicting(ids[t])

(* Sorted locks cannot deadlock, provided no two lock keys hash to the     *)
(* same lock.                                                              *)
NoWaitCycle == \A t \in Calls : ~Deadlocked(t)

(* What a call lists when it commits is all its customer owns then: no     *)
(* identity was added between its SELECT and its COMMIT.                   *)
AnswerIsCurrent ==
  [][\A t \in Calls :
       pc[t] = "commit" /\ outcome'[t] = "customer" =>
         answer[t] = {i \in Identities : owner'[i] = customer[t]}]_vars

(* What the service of AtomicUpsert would show of a call.                  *)
Asked(t) == IF pc[t] = "idle" THEN {} ELSE ids[t]

Result(t) ==
  [how |-> outcome[t],
   customer |-> IF outcome[t] = "customer" THEN customer[t] ELSE NoCustomer]

asked == [t \in Calls |-> Asked(t)]
result == [t \in Calls |-> Result(t)]

Service == INSTANCE AtomicUpsert

(* Every call is one atomic upsert: what it decided from the owners it     *)
(* read still holds when it commits, whatever calls ran at the same time.  *)
ImplementsAtomicUpsert == Service!ServiceSpec

(* Every call ends, however the locks and the clients are contended.       *)
EveryCallEnds == \A t \in Calls : pc[t] = "connect" ~> pc[t] = "idle"

=============================================================================
