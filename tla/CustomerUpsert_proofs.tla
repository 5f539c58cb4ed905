----------------------- MODULE CustomerUpsert_proofs -----------------------
(***************************************************************************)
(* Proofs about CustomerUpsert, for every value of its constants.          *)
(*                                                                         *)
(* The invariant says of each call what it may rely on at its statement.   *)
(* Bystander shows that no step of another call takes that away, and       *)
(* OwnStep that each statement establishes it for the next.                *)
(***************************************************************************)
EXTENDS CustomerUpsert, FiniteSetTheorems, WellFoundedInduction, TLAPS

Writing == {"identities", "select", "commit"}

(* The advisory locks it has come to are its own.                          *)
HasLocks(t) ==
  /\ pc[t] \in Locked \cup {"conflict"} => \A i \in ids[t] : lockHolder[LockOf[i]] = t
  /\ pc[t] = "lock" => \A i \in ids[t] \ todo[t] : lockHolder[LockOf[i]] = t

(* What it has read of the owners is what they are.                        *)
KnowsOwners(t) ==
  /\ found[t] = IF pc[t] = "find" THEN Owners(ids[t] \ todo[t]) ELSE {}
  /\ pc[t] = "conflict" => Conflicting(ids[t])

(* The customer it settled on owns one of the identities already, or is    *)
(* nobody else's; and no other customer owns one of them.                  *)
OwnCustomer(t) ==
  /\ customer[t] \in Unused
  /\ \A v \in Calls \ {t} : pc[v] \in Settled => customer[v] # customer[t]

Decided(t) ==
  /\ pc[t] = "insert" => \A i \in ids[t] : owner[i] = NoCustomer
  /\ pc[t] \in Settled =>
       /\ \A i \in ids[t] : owner[i] \in {customer[t], NoCustomer}
       /\ (\E i \in ids[t] : owner[i] = customer[t]) \/ OwnCustomer(t)

(* What it wrote and did not commit, and what it then listed.              *)
Writes(t) ==
  /\ pc[t] \in Writing => rowHolder[customer[t]] = t
  /\ pc[t] \notin Writing => inserted[t] = {}
  /\ \A i \in inserted[t] : i \in ids[t] /\ owner[i] = NoCustomer
  /\ pc[t] \in Writing =>
       \A i \in ids[t] \ todo[t] : i \in inserted[t] \/ owner[i] = customer[t]
  /\ pc[t] \in {"select", "commit"} => todo[t] = {}
  /\ pc[t] = "commit" =>
       answer[t] = inserted[t] \cup {i \in Identities : owner[i] = customer[t]}

Ended(t) ==
  /\ outcome[t] # "none" => pc[t] = "idle"
  /\ outcome[t] = "customer" =>
       /\ customer[t] \in Customers
       /\ ids[t] \subseteq answer[t]
       /\ \A i \in answer[t] : owner[i] = customer[t]
  /\ outcome[t] = "conflict" => Conflicting(ids[t])

CallInv(t) == HasLocks(t) /\ KnowsOwners(t) /\ Decided(t) /\ Writes(t) /\ Ended(t)

IInv == TypeOK /\ \A t \in Calls : CallInv(t)

-----------------------------------------------------------------------------
(* A set of natural numbers has a least one.                               *)
LEMMA LeastOf ==
  ASSUME NEW T \in SUBSET Nat, T # {}
  PROVE  \E x \in T : \A y \in T : x <= y
PROOF
  <1> DEFINE Less == OpToRel(<, Nat)
  <1>1. IsWellFoundedOn(Less, Nat)
    BY NatLessThanWellFounded
  <1>2. \A m, n \in Nat : m < n => <<m, n>> \in Less
    BY DEF OpToRel
  <1> HIDE DEF Less
  <1>3. PICK x \in T : \A y \in T : ~ (<<y, x>> \in Less)
    BY <1>1, WFMin
  <1>4. ASSUME NEW y \in T
        PROVE  x <= y
    <2>1. ~ (y < x)
      BY <1>2, <1>3
    <2> QED
      BY <2>1
  <1> QED
    BY <1>4

(* A loop that has a turn left has a next identity: the one whose lock key *)
(* is least.                                                               *)
LEMMA NextInIsLeft ==
  ASSUME NEW t \in Calls, todo[t] # {}, todo[t] \subseteq Identities
  PROVE  /\ NextIn(t) \in todo[t]
         /\ \A j \in todo[t] : KeyRank[NextIn(t)] <= KeyRank[j]
PROOF
  <1> DEFINE ranks == {KeyRank[j] : j \in todo[t]}
  <1>1. ranks \in SUBSET Nat /\ ranks # {}
    BY UpsertAssumption
  <1>2. PICK x \in ranks : \A y \in ranks : x <= y
    <2> HIDE DEF ranks
    <2> QED
      BY <1>1, LeastOf
  <1>3. PICK i \in todo[t] : KeyRank[i] = x
    OBVIOUS
  <1>4. \A j \in todo[t] : KeyRank[i] <= KeyRank[j]
    BY <1>2, <1>3
  <1> QED
    BY <1>4 DEF NextIn

PC == Statement \cup {"idle", "connect", "conflict"}

(* One turn of a loop: either the loop goes on with one identity less, or  *)
(* this was the last.                                                      *)
LEMMA Turn ==
  ASSUME TypeOK, NEW t \in Calls, pc[t] \in {"lock", "find", "identities"},
         NEW after \in PC, NEW restart \in SUBSET Identities,
         Loop(t, after, restart)
  PROVE  /\ NextIn(t) \in todo[t] /\ NextIn(t) \in ids[t] /\ NextIn(t) \in Identities
         /\ pc' \in [Calls -> PC] /\ todo' \in [Calls -> SUBSET Identities]
         /\ \A v \in Calls \ {t} : pc'[v] = pc[v] /\ todo'[v] = todo[v]
         /\ \/ /\ ~Last(t) /\ pc'[t] = pc[t]
               /\ todo'[t] = todo[t] \ {NextIn(t)} /\ todo'[t] # {}
            \/ /\ Last(t) /\ pc'[t] = after /\ todo'[t] = restart
PROOF
  <1>1. /\ todo[t] # {} /\ todo[t] \subseteq ids[t] /\ todo[t] \subseteq Identities
        /\ pc \in [Calls -> PC] /\ todo \in [Calls -> SUBSET Identities]
    BY DEF TypeOK, PC
  <1>2. NextIn(t) \in todo[t]
    BY <1>1, NextInIsLeft
  <1>3. CASE Last(t)
    BY <1>1, <1>2, <1>3 DEF Loop, Goto
  <1>4. CASE ~Last(t)
    BY <1>1, <1>2, <1>4 DEF Loop, Last
  <1> QED
    BY <1>3, <1>4

(* The end of a transaction: nothing of call t is left but its answer, and *)
(* the locks and the locals of the others are as they were.                *)
LEMMA Ending ==
  ASSUME TypeOK, NEW t \in Calls, NEW how \in {"customer", "conflict", "error"},
         EndTransaction(t, how)
  PROVE  /\ pc' = [pc EXCEPT ![t] = "idle"]
         /\ outcome' = [outcome EXCEPT ![t] = how]
         /\ inserted' = [inserted EXCEPT ![t] = {}]
         /\ todo' = [todo EXCEPT ![t] = {}]
         /\ found' = [found EXCEPT ![t] = {}]
         /\ ids' \in [Calls -> Requests \cup {{}}]
         /\ customer' \in [Calls -> Customers \cup {NoCustomer}]
         /\ answer' \in [Calls -> SUBSET Identities]
         /\ lockHolder' \in [Locks -> Calls \cup {NoCall}]
         /\ rowHolder' \in [Customers -> Calls \cup {NoCall}]
         /\ \A v \in Calls \ {t} :
              ids'[v] = ids[v] /\ customer'[v] = customer[v] /\ answer'[v] = answer[v]
         /\ how # "error" =>
              ids'[t] = ids[t] /\ customer'[t] = customer[t] /\ answer'[t] = answer[t]
         /\ \A l \in Locks : lockHolder[l] # t => lockHolder'[l] = lockHolder[l]
         /\ \A c \in Customers : rowHolder[c] # t => rowHolder'[c] = rowHolder[c]
PROOF
  <1>1. CASE how = "error"
    BY <1>1 DEF EndTransaction, Goto, TypeOK
  <1>2. CASE how # "error"
    BY <1>2 DEF EndTransaction, Goto, TypeOK
  <1> QED
    BY <1>1, <1>2

-----------------------------------------------------------------------------
(* Type correctness.                                                       *)

LEMMA TypeInit == Init => TypeOK
PROOF
  BY UpsertAssumption DEF Init, TypeOK, DirectoryInit, Statement, Settled

LEMMA TypeEnd ==
  ASSUME TypeOK, NEW t \in Calls, NEW how \in {"customer", "conflict", "error"},
         EndTransaction(t, how), owner' \in Directory
  PROVE  TypeOK'
PROOF
  BY Ending DEF TypeOK, Statement, Settled, PC

LEMMA TypeFind ==
  ASSUME TypeOK, NEW t \in Calls, FindOwner(t)
  PROVE  TypeOK'
PROOF
  <1> DEFINE seen == found[t] \cup ({owner[NextIn(t)]} \ {NoCustomer})
             several == \E c, d \in seen : c # d
             after == IF several THEN "conflict" ELSE IF seen = {} THEN "insert" ELSE "update"
             c == IF Last(t) /\ seen # {} /\ ~several THEN CHOOSE c \in seen : TRUE ELSE NoCustomer
  <1>1. after \in PC /\ Loop(t, after, {}) /\ pc[t] = "find"
    BY DEF FindOwner, PC, Statement
  <1>2. /\ NextIn(t) \in Identities
        /\ pc' \in [Calls -> PC] /\ todo' \in [Calls -> SUBSET Identities]
        /\ \A v \in Calls \ {t} : pc'[v] = pc[v] /\ todo'[v] = todo[v]
        /\ \/ pc'[t] = "find" /\ todo'[t] = todo[t] \ {NextIn(t)} /\ todo'[t] # {}
           \/ Last(t) /\ pc'[t] = after
    BY <1>1, Turn
  <1>3. seen \in SUBSET Customers
    BY <1>2 DEF TypeOK, Directory
  <1>4. found' \in [Calls -> SUBSET Customers]
    BY <1>3 DEF FindOwner, TypeOK
  <1>5. /\ c \in Customers \cup {NoCustomer}
        /\ Last(t) /\ after \in Settled => c \in Customers
    BY <1>3 DEF Settled
  <1>6. customer' = [customer EXCEPT ![t] = c]
    BY DEF FindOwner
  <1>7. UNCHANGED <<owner, ids, inserted, answer, outcome, held>>
    BY DEF FindOwner
  <1>8. ids' = ids /\ todo[t] \subseteq ids[t] /\ ids[t] \in Requests
    BY <1>1, <1>7 DEF TypeOK
  <1> HIDE DEF after, c, seen, several
  <1>9. /\ owner' \in Directory /\ ids' \in [Calls -> Requests \cup {{}}]
        /\ customer' \in [Calls -> Customers \cup {NoCustomer}]
        /\ inserted' \in [Calls -> SUBSET Identities]
        /\ answer' \in [Calls -> SUBSET Identities]
        /\ outcome' \in [Calls -> {"none", "customer", "conflict", "error"}]
        /\ lockHolder' \in [Locks -> Calls \cup {NoCall}]
        /\ rowHolder' \in [Customers -> Calls \cup {NoCall}]
    BY <1>5, <1>6, <1>7 DEF TypeOK, held
  <1>10. ASSUME NEW v \in Calls
         PROVE  /\ pc'[v] # "idle" => ids'[v] \in Requests
                /\ pc'[v] \in {"lock", "find", "identities"} =>
                     todo'[v] # {} /\ todo'[v] \subseteq ids'[v]
                /\ pc'[v] \in Settled => customer'[v] \in Customers
    <2>1. CASE v = t
      <3>1. pc'[v] \in {"lock", "find", "identities"} => pc'[v] # after
        BY <2>1 DEF after
      <3>2. pc'[v] \in Settled => pc'[v] # "find"
        BY DEF Settled
      <3>3. customer'[v] = c
        BY <1>6, <2>1 DEF TypeOK
      <3> QED
        BY <1>2, <1>5, <1>8, <2>1, <3>1, <3>2, <3>3
    <2>2. CASE v # t
      <3>1. pc'[v] = pc[v] /\ todo'[v] = todo[v] /\ customer'[v] = customer[v] /\ ids'[v] = ids[v]
        BY <1>2, <1>6, <1>8, <2>2 DEF TypeOK
      <3> QED
        BY <3>1 DEF TypeOK
    <2> QED
      BY <2>1, <2>2
  <1> QED
    BY <1>2, <1>4, <1>9, <1>10 DEF TypeOK, PC

LEMMA TypeNext ==
  ASSUME TypeOK, [Next]_vars
  PROVE  TypeOK'
PROOF
  <1>1. CASE UNCHANGED vars
    BY <1>1 DEF TypeOK, vars, work, held
  <1>2. ASSUME NEW t \in Calls, Call(t) \/ ConnectTimeout(t) \/ Advance(t) \/ Abort(t)
        PROVE  TypeOK'
    <2>1. CASE Call(t)
      BY <2>1, UpsertAssumption DEF Call, Goto, TypeOK, Statement, Settled, held
    <2>2. CASE Connect(t)
      BY <2>2, UpsertAssumption DEF Connect, Goto, TypeOK, Statement, Settled, held
    <2>3. CASE ConnectTimeout(t)
      BY <2>3, TypeEnd DEF ConnectTimeout, TypeOK
    <2>4. CASE LockIdentity(t)
      <3>1. "find" \in PC /\ ids[t] \in SUBSET Identities
        BY UpsertAssumption DEF PC, Statement, TypeOK
      <3>2. /\ pc' \in [Calls -> PC] /\ todo' \in [Calls -> SUBSET Identities]
            /\ \A v \in Calls \ {t} : pc'[v] = pc[v] /\ todo'[v] = todo[v]
            /\ todo[t] \subseteq ids[t] /\ todo[t] # {} /\ pc[t] = "lock"
            /\ \/ /\ pc'[t] = pc[t]
                  /\ todo'[t] = todo[t] \ {NextIn(t)} /\ todo'[t] # {}
               \/ pc'[t] = "find" /\ todo'[t] = ids[t]
        BY <2>4, <3>1, Turn DEF LockIdentity, TypeOK
      <3>3. lockHolder' \in [Locks -> Calls \cup {NoCall}]
        BY <2>4 DEF LockIdentity, TakeLock, TypeOK
      <3> QED
        BY <2>4, <3>2, <3>3 DEF LockIdentity, TypeOK, PC, Settled
    <2>5. CASE FindOwner(t)
      BY <2>5, TypeFind
    <2>6. CASE InsertCustomer(t)
      BY <2>6 DEF InsertCustomer, Goto, TypeOK, Statement, Settled, held, Unused
    <2>7. CASE UpdateCustomer(t)
      BY <2>7, UpsertAssumption DEF UpdateCustomer, Goto, TypeOK, Statement, Settled, held
    <2>8. CASE InsertIdentity(t)
      <3>1. "select" \in PC /\ {} \in SUBSET Identities
        BY DEF PC, Statement
      <3>2. /\ pc' \in [Calls -> PC] /\ todo' \in [Calls -> SUBSET Identities]
            /\ \A v \in Calls \ {t} : pc'[v] = pc[v] /\ todo'[v] = todo[v]
            /\ todo[t] \subseteq ids[t] /\ todo[t] # {} /\ pc[t] = "identities"
            /\ NextIn(t) \in Identities
            /\ \/ /\ pc'[t] = pc[t]
                  /\ todo'[t] = todo[t] \ {NextIn(t)} /\ todo'[t] # {}
               \/ pc'[t] = "select" /\ todo'[t] = {}
        BY <2>8, <3>1, Turn DEF InsertIdentity, TypeOK
      <3>3. inserted' \in [Calls -> SUBSET Identities]
        BY <2>8, <3>2 DEF InsertIdentity, TypeOK
      <3> QED
        BY <2>8, <3>2, <3>3 DEF InsertIdentity, TypeOK, PC, Settled, held
    <2>9. CASE SelectIdentities(t)
      BY <2>9 DEF SelectIdentities, Goto, TypeOK, Statement, Settled, held
    <2>10. CASE Commit(t)
      <3>1. owner' \in Directory
        BY <2>10 DEF Commit, TypeOK, Directory, Settled
      <3> QED
        BY <2>10, <3>1, TypeEnd DEF Commit
    <2>11. CASE Conflict(t)
      BY <2>11, TypeEnd DEF Conflict, TypeOK
    <2>12. CASE Abort(t)
      BY <2>12, TypeEnd DEF Abort, TypeOK
    <2> QED
      BY <1>2, <2>1, <2>2, <2>3, <2>4, <2>5, <2>6, <2>7, <2>8, <2>9, <2>10, <2>11, <2>12
      DEF Advance
  <1> QED
    BY <1>1, <1>2 DEF Next

(* Every variable stays in its type.                                       *)
THEOREM TypeCorrect == Spec => []TypeOK
PROOF
  BY TypeInit, TypeNext, PTL DEF Spec

-----------------------------------------------------------------------------
(* What a step of call u shows the others: their locals stay, and so do    *)
(* the locks they have; owners change only by its commit; a customer it    *)
(* settles on is an owner or no other call's.                              *)
Quiet(u) ==
  /\ \A t \in Calls \ {u} :
       /\ pc'[t] = pc[t] /\ ids'[t] = ids[t] /\ todo'[t] = todo[t]
       /\ found'[t] = found[t] /\ customer'[t] = customer[t] /\ inserted'[t] = inserted[t]
       /\ answer'[t] = answer[t] /\ outcome'[t] = outcome[t]
  /\ \A l \in Locks : lockHolder[l] \in Calls \ {u} => lockHolder'[l] = lockHolder[l]
  /\ \A c \in Customers : rowHolder[c] \in Calls \ {u} => rowHolder'[c] = rowHolder[c]
  /\ \A i \in Identities :
       \/ owner'[i] = owner[i]
       \/ pc[u] = "commit" /\ i \in inserted[u] /\ owner'[i] = customer[u]
  /\ pc'[u] \in Settled =>
       \/ pc[u] \in Settled /\ customer'[u] = customer[u]
       \/ \E i \in Identities : owner[i] = customer'[u]
       \/ \A v \in Connected : customer[v] # customer'[u]

LEMMA EndIsQuiet ==
  ASSUME TypeOK, NEW u \in Calls, NEW how \in {"customer", "conflict", "error"},
         EndTransaction(u, how),
         \A i \in Identities :
           \/ owner'[i] = owner[i]
           \/ pc[u] = "commit" /\ i \in inserted[u] /\ owner'[i] = customer[u]
  PROVE  Quiet(u)
PROOF
  <1>1. pc'[u] \notin Settled
    BY Ending DEF TypeOK, Settled
  <1>2. \A t \in Calls \ {u} :
          /\ pc'[t] = pc[t] /\ ids'[t] = ids[t] /\ todo'[t] = todo[t]
          /\ found'[t] = found[t] /\ customer'[t] = customer[t] /\ inserted'[t] = inserted[t]
          /\ answer'[t] = answer[t] /\ outcome'[t] = outcome[t]
    BY Ending DEF TypeOK
  <1>3. /\ \A l \in Locks : lockHolder[l] # u => lockHolder'[l] = lockHolder[l]
        /\ \A c \in Customers : rowHolder[c] # u => rowHolder'[c] = rowHolder[c]
    BY Ending
  <1> QED
    BY <1>1, <1>2, <1>3 DEF Quiet

(* A query of findOwnerIds adds the owner of one more identity; after the  *)
(* last of them the call knows all owners there are.                       *)
LEMMA Found ==
  ASSUME IInv, NEW u \in Calls, FindOwner(u)
  PROVE  /\ pc[u] = "find"
         /\ \/ /\ pc'[u] = "find" /\ found'[u] = Owners(ids[u] \ todo'[u])
            \/ /\ pc'[u] = "conflict" /\ Conflicting(ids[u])
            \/ /\ pc'[u] = "insert" /\ \A i \in ids[u] : owner[i] = NoCustomer
            \/ /\ pc'[u] = "update"
               /\ \E i \in ids[u] : owner[i] = customer'[u]
               /\ \A i \in ids[u] : owner[i] \in {customer'[u], NoCustomer}
         /\ pc'[u] # "find" => found'[u] = {}
PROOF
  <1> DEFINE seen == found[u] \cup ({owner[NextIn(u)]} \ {NoCustomer})
             several == \E c, d \in seen : c # d
             after == IF several THEN "conflict" ELSE IF seen = {} THEN "insert" ELSE "update"
  <1>1. after \in PC /\ {} \in SUBSET Identities /\ Loop(u, after, {}) /\ pc[u] = "find"
    BY DEF FindOwner, PC, Statement
  <1>2. /\ NextIn(u) \in todo[u] /\ NextIn(u) \in ids[u] /\ NextIn(u) \in Identities
        /\ \/ /\ ~Last(u) /\ pc'[u] = "find"
              /\ todo'[u] = todo[u] \ {NextIn(u)}
           \/ Last(u) /\ pc'[u] = after
    <2> HIDE DEF after
    <2> QED
      BY <1>1, Turn DEF IInv
  <1>3. ids[u] \in SUBSET Identities /\ owner \in Directory
    BY <1>1, UpsertAssumption DEF IInv, TypeOK
  <1>4. found[u] = Owners(ids[u] \ todo[u])
    BY <1>1 DEF IInv, CallInv, KnowsOwners
  <1>5. seen = Owners(ids[u] \ (todo[u] \ {NextIn(u)}))
    BY <1>2, <1>4 DEF Owners
  <1>6. CASE ~Last(u)
    <2>1. found'[u] = seen
      BY <1>6 DEF FindOwner, IInv, TypeOK
    <2> QED
      BY <1>1, <1>2, <1>5, <1>6, <2>1
  <1>7. CASE Last(u)
    <2>1. ids[u] \ (todo[u] \ {NextIn(u)}) = ids[u]
      BY <1>7 DEF Last
    <2>2. seen = Owners(ids[u])
      BY <1>5, <2>1
    <2>3. \A i \in ids[u] : owner[i] = NoCustomer \/ owner[i] \in seen
      BY <2>2 DEF Owners
    <2>4. \A c \in seen : \E i \in ids[u] : owner[i] = c /\ c # NoCustomer
      BY <2>2 DEF Owners
    <2>5. found'[u] = {}
      BY <1>7 DEF FindOwner, IInv, TypeOK
    <2>6. CASE several
      <3>1. Conflicting(ids[u])
        BY <2>4, <2>6 DEF Conflicting
      <3> QED
        BY <1>1, <1>2, <1>7, <2>6, <2>5, <3>1
    <2>7. CASE seen = {}
      BY <1>1, <1>2, <1>7, <2>3, <2>7, <2>5
    <2>8. CASE seen # {} /\ ~several
      <3>1. customer'[u] = CHOOSE c \in seen : TRUE
        BY <1>7, <2>8 DEF FindOwner, IInv, TypeOK
      <3>2. customer'[u] \in seen /\ \A c \in seen : c = customer'[u]
        BY <2>8, <3>1
      <3> HIDE DEF seen
      <3> QED
        BY <1>1, <1>2, <1>7, <2>3, <2>4, <2>8, <2>5, <3>2
    <2> QED
      BY <2>6, <2>7, <2>8
  <1> QED
    BY <1>6, <1>7

LEMMA FindIsQuiet ==
  ASSUME IInv, NEW u \in Calls, FindOwner(u)
  PROVE  Quiet(u)
PROOF
  <1>1. \A t \in Calls \ {u} : pc'[t] = pc[t] /\ todo'[t] = todo[t]
    BY DEF FindOwner, Loop, Goto, IInv, TypeOK
  <1>2. pc'[u] \in Settled => \E i \in Identities : owner[i] = customer'[u]
    <2>1. ids[u] \subseteq Identities
      BY Found, UpsertAssumption DEF IInv, TypeOK
    <2> QED
      BY <2>1, Found DEF Settled
  <1>3. \A t \in Calls \ {u} : found'[t] = found[t] /\ customer'[t] = customer[t]
    BY DEF FindOwner, IInv, TypeOK
  <1> QED
    BY <1>1, <1>2, <1>3 DEF FindOwner, Quiet, held

LEMMA StepIsQuiet ==
  ASSUME IInv, NEW u \in Calls, Call(u) \/ ConnectTimeout(u) \/ Advance(u) \/ Abort(u)
  PROVE  Quiet(u)
PROOF
  <1> USE DEF IInv
  <1>1. CASE Call(u)
    BY <1>1 DEF Call, Goto, Quiet, TypeOK, Settled, held
  <1>2. CASE Connect(u)
    BY <1>2 DEF Connect, Goto, Quiet, TypeOK, Settled, held
  <1>3. CASE LockIdentity(u)
    <2>1. \A t \in Calls \ {u} : pc'[t] = pc[t] /\ todo'[t] = todo[t]
      BY <1>3 DEF LockIdentity, Loop, Goto, TypeOK
    <2>2. pc'[u] \notin Settled
      BY <1>3 DEF LockIdentity, Loop, Goto, TypeOK, Settled
    <2>3. \A l \in Locks : lockHolder[l] \in Calls \ {u} => lockHolder'[l] = lockHolder[l]
      BY <1>3, UpsertAssumption DEF LockIdentity, TakeLock, TypeOK
    <2> QED
      BY <1>3, <2>1, <2>2, <2>3 DEF LockIdentity, Quiet
  <1>4. CASE FindOwner(u)
    BY <1>4, FindIsQuiet
  <1>5. CASE InsertCustomer(u)
    BY <1>5 DEF InsertCustomer, Goto, Quiet, TypeOK, Settled, held
  <1>6. CASE UpdateCustomer(u)
    BY <1>6, UpsertAssumption DEF UpdateCustomer, Goto, Quiet, TypeOK, Settled
  <1>7. CASE InsertIdentity(u)
    <2>1. \A t \in Calls \ {u} : pc'[t] = pc[t] /\ todo'[t] = todo[t] /\ inserted'[t] = inserted[t]
      BY <1>7 DEF InsertIdentity, Loop, Goto, TypeOK
    <2> QED
      BY <1>7, <2>1 DEF InsertIdentity, Quiet, Settled, held
  <1>8. CASE SelectIdentities(u)
    BY <1>8 DEF SelectIdentities, Goto, Quiet, TypeOK, Settled, held
  <1>9. CASE Commit(u)
    <2>1. \A i \in Identities :
            \/ owner'[i] = owner[i]
            \/ pc[u] = "commit" /\ i \in inserted[u] /\ owner'[i] = customer[u]
      BY <1>9 DEF Commit
    <2> QED
      BY <1>9, <2>1, EndIsQuiet DEF Commit
  <1>10. CASE ConnectTimeout(u) \/ Conflict(u) \/ Abort(u)
    BY <1>10, EndIsQuiet DEF ConnectTimeout, Conflict, Abort
  <1> QED
    BY <1>1, <1>2, <1>3, <1>4, <1>5, <1>6, <1>7, <1>8, <1>9, <1>10 DEF Advance

-----------------------------------------------------------------------------
(* Induction.                                                              *)

(* The owners of a call's identities do not change under a call that has   *)
(* locked them.                                                            *)
LEMMA LockedOwners ==
  ASSUME IInv, NEW t \in Calls, NEW u \in Calls \ {t}, Quiet(u),
         pc[t] \in Locked \cup {"conflict"}
  PROVE  \A i \in ids[t] : owner'[i] = owner[i]
PROOF
  <1>1. SUFFICES ASSUME NEW i \in ids[t], pc[u] = "commit", i \in inserted[u]
                 PROVE  FALSE
    BY UpsertAssumption DEF Quiet, IInv, TypeOK
  <1>2. lockHolder[LockOf[i]] = t
    BY DEF IInv, CallInv, HasLocks
  <1>3. i \in ids[u] /\ pc[u] \in Locked
    BY <1>1 DEF IInv, CallInv, Writes, Locked, Statement
  <1>4. lockHolder[LockOf[i]] = u
    BY <1>3 DEF IInv, CallInv, HasLocks
  <1> QED
    BY <1>2, <1>4

(* An identity that a customer has stays with it.                          *)
LEMMA OwnersStay ==
  ASSUME IInv, NEW u \in Calls, Quiet(u), NEW i \in Identities, owner[i] # NoCustomer
  PROVE  owner'[i] = owner[i]
PROOF
  BY DEF Quiet, IInv, CallInv, Writes

(* No step of another call takes from t what it relies on.                 *)
LEMMA Bystander ==
  ASSUME IInv, NEW t \in Calls, NEW u \in Calls \ {t}, Quiet(u)
  PROVE  CallInv(t)'
PROOF
  <1>1. /\ pc'[t] = pc[t] /\ ids'[t] = ids[t] /\ todo'[t] = todo[t]
        /\ found'[t] = found[t] /\ customer'[t] = customer[t] /\ inserted'[t] = inserted[t]
        /\ answer'[t] = answer[t] /\ outcome'[t] = outcome[t]
    BY DEF Quiet
  <1>2. CallInv(t) /\ ids[t] \subseteq Identities
    BY UpsertAssumption DEF IInv, TypeOK
  <1>3. pc[t] \in Locked \cup {"conflict"} => \A i \in ids[t] : owner'[i] = owner[i]
    BY LockedOwners
  <1>4. HasLocks(t)'
    BY <1>1, <1>2, UpsertAssumption DEF CallInv, HasLocks, Quiet
  <1>5. KnowsOwners(t)'
    <2>1. Conflicting(ids[t]) => Conflicting(ids[t])'
      BY <1>1, <1>2, OwnersStay DEF Conflicting
    <2>2. pc[t] = "find" => Owners(ids[t] \ todo[t])' = Owners(ids[t] \ todo[t])
      BY <1>1, <1>3 DEF Owners, Locked, Statement
    <2> QED
      BY <1>1, <1>2, <2>1, <2>2 DEF CallInv, KnowsOwners
  <1>6. Decided(t)'
    <2>1. pc[t] = "insert" => \A i \in ids'[t] : owner'[i] = NoCustomer
      BY <1>1, <1>2, <1>3 DEF CallInv, Decided, Locked, Statement
    <2>2. ASSUME pc[t] \in Settled
          PROVE  /\ \A i \in ids[t] : owner'[i] = owner[i]
                 /\ OwnCustomer(t) => OwnCustomer(t)'
      <3>1. \A i \in ids[t] : owner'[i] = owner[i]
        BY <1>3, <2>2 DEF Settled, Locked, Statement
      <3>2. ASSUME OwnCustomer(t) PROVE OwnCustomer(t)'
        <4>1. customer[t] \in Customers /\ \A i \in Identities : owner[i] # customer[t]
          BY <3>2 DEF OwnCustomer, Unused
        <4>2. pc[u] \in Settled => customer[u] # customer[t]
          BY <3>2 DEF OwnCustomer
        <4>3. customer'[t] \in Unused'
          <5>1. \A i \in Identities : owner'[i] # customer[t]
            BY <4>1, <4>2 DEF Quiet, Settled
          <5> QED
            BY <1>1, <4>1, <5>1 DEF Unused
        <4>4. pc'[u] \in Settled => customer'[u] # customer'[t]
          <5>1. t \in Connected
            BY <2>2 DEF Connected, Settled
          <5> QED
            BY <1>1, <4>1, <4>2, <5>1 DEF Quiet
        <4>5. ASSUME NEW v \in Calls \ {t}, v # u, pc'[v] \in Settled
              PROVE  customer'[v] # customer'[t]
          BY <1>1, <3>2, <4>5 DEF Quiet, OwnCustomer
        <4> QED
          BY <4>3, <4>4, <4>5 DEF OwnCustomer
      <3> QED
        BY <3>1, <3>2
    <2> QED
      BY <1>1, <1>2, <2>1, <2>2 DEF CallInv, Decided
  <1>7. Writes(t)'
    <2>1. inserted[t] # {} => pc[t] \in Writing
      BY <1>2 DEF CallInv, Writes
    <2>2. ASSUME pc[t] \in Writing
          PROVE  /\ rowHolder'[customer[t]] = t
                 /\ \A i \in ids[t] : owner'[i] = owner[i]
                 /\ \A i \in Identities : owner'[i] = customer[t] <=> owner[i] = customer[t]
      <3>1. customer[t] \in Customers /\ rowHolder[customer[t]] = t
        BY <1>2, <2>2 DEF IInv, TypeOK, CallInv, Writes, Writing, Settled
      <3>2. rowHolder'[customer[t]] = t
        BY <3>1 DEF Quiet
      <3>3. \A i \in ids[t] : owner'[i] = owner[i]
        BY <1>3, <2>2 DEF Writing, Locked, Statement
      <3>4. ASSUME NEW i \in Identities, owner'[i] # owner[i]
            PROVE  owner'[i] # customer[t] /\ owner[i] # customer[t]
        <4>1. pc[u] = "commit" /\ i \in inserted[u] /\ owner'[i] = customer[u]
          BY <3>4 DEF Quiet
        <4>2. rowHolder[customer[u]] = u /\ owner[i] = NoCustomer
          BY <4>1 DEF IInv, CallInv, Writes, Writing
        <4> QED
          BY <3>1, <4>1, <4>2, NoCustomerAssumption
      <3> QED
        BY <3>2, <3>3, <3>4
    <2>3. \A i \in inserted'[t] : i \in ids'[t] /\ owner'[i] = NoCustomer
      BY <1>1, <1>2, <2>1, <2>2 DEF CallInv, Writes
    <2>4. pc'[t] = "commit" =>
            answer'[t] = inserted'[t] \cup {i \in Identities : owner'[i] = customer'[t]}
      <3>1. SUFFICES ASSUME pc[t] = "commit"
                     PROVE  answer[t] = inserted[t] \cup {i \in Identities : owner'[i] = customer[t]}
        BY <1>1
      <3>2. {i \in Identities : owner'[i] = customer[t]} = {i \in Identities : owner[i] = customer[t]}
        BY <2>2, <3>1 DEF Writing
      <3> QED
        BY <1>2, <3>1, <3>2 DEF CallInv, Writes
    <2> QED
      BY <1>1, <1>2, <2>2, <2>3, <2>4 DEF CallInv, Writes
  <1>8. Ended(t)'
    <2>1. Conflicting(ids[t]) => Conflicting(ids[t])'
      BY <1>1, <1>2, OwnersStay DEF Conflicting
    <2>2. ASSUME outcome[t] = "customer", NEW i \in answer[t]
          PROVE  owner'[i] = customer[t]
      BY <1>2, <2>2, OwnersStay, NoCustomerAssumption DEF IInv, TypeOK, CallInv, Ended
    <2> QED
      BY <1>1, <1>2, <2>1, <2>2 DEF CallInv, Ended
  <1> QED
    BY <1>4, <1>5, <1>6, <1>7, <1>8 DEF CallInv

(* What a call does leaves it with what it relies on next.                 *)
LEMMA OwnEnd ==
  ASSUME IInv, NEW u \in Calls, NEW how \in {"conflict", "error"}, EndTransaction(u, how),
         how = "conflict" => Conflicting(ids[u]), UNCHANGED owner
  PROVE  CallInv(u)'
PROOF
  <1>1. /\ pc'[u] = "idle" /\ outcome'[u] = how /\ inserted'[u] = {} /\ found'[u] = {}
        /\ how = "conflict" => ids'[u] = ids[u]
    BY Ending DEF IInv, TypeOK
  <1>2. Conflicting(ids[u]) /\ how = "conflict" => Conflicting(ids[u])'
    BY <1>1 DEF Conflicting
  <1> QED
    BY <1>1, <1>2
    DEF CallInv, HasLocks, KnowsOwners, Decided, Writes, Ended, Locked, Statement, Settled, Writing

LEMMA OwnCommit ==
  ASSUME IInv, NEW u \in Calls, Commit(u)
  PROVE  CallInv(u)'
PROOF
  <1>1. PICK how \in {"customer", "error"} : EndTransaction(u, how)
    BY DEF Commit
  <1>2. /\ pc'[u] = "idle" /\ outcome'[u] = how /\ inserted'[u] = {} /\ found'[u] = {}
        /\ how # "error" =>
             ids'[u] = ids[u] /\ customer'[u] = customer[u] /\ answer'[u] = answer[u]
    BY <1>1, Ending DEF IInv, TypeOK
  <1>3. /\ pc[u] = "commit"
        /\ owner' = [i \in Identities |-> IF i \in inserted[u] THEN customer[u] ELSE owner[i]]
    BY DEF Commit
  <1>4. /\ customer[u] \in Customers
        /\ ids[u] \subseteq answer[u]
        /\ \A i \in answer[u] : owner'[i] = customer[u]
    <2>1. answer[u] = inserted[u] \cup {i \in Identities : owner[i] = customer[u]} /\ todo[u] = {}
      BY <1>3 DEF IInv, CallInv, Writes
    <2>2. customer[u] \in Customers /\ ids[u] \subseteq Identities /\ inserted[u] \subseteq Identities
      BY <1>3, UpsertAssumption DEF IInv, TypeOK, Settled
    <2>3. \A i \in ids[u] : i \in inserted[u] \/ owner[i] = customer[u]
      BY <1>3, <2>1 DEF IInv, CallInv, Writes, Writing
    <2> QED
      BY <1>3, <2>1, <2>2, <2>3
  <1> QED
    BY <1>2, <1>4
    DEF CallInv, HasLocks, KnowsOwners, Decided, Writes, Ended, Locked, Statement, Settled, Writing

LEMMA OwnLock ==
  ASSUME IInv, NEW u \in Calls, LockIdentity(u)
  PROVE  CallInv(u)'
PROOF
  <1>1. "find" \in PC /\ ids[u] \in SUBSET Identities /\ pc[u] = "lock"
    BY UpsertAssumption DEF LockIdentity, PC, Statement, IInv, TypeOK
  <1>2. /\ NextIn(u) \in ids[u] /\ NextIn(u) \in Identities
        /\ \/ /\ pc'[u] = "lock"
              /\ todo'[u] = todo[u] \ {NextIn(u)}
           \/ todo[u] = {NextIn(u)} /\ pc'[u] = "find" /\ todo'[u] = ids[u]
    BY <1>1, Turn DEF LockIdentity, IInv, Last
  <1>3. UNCHANGED <<owner, ids, found, customer, inserted, answer, outcome, rowHolder>>
    BY DEF LockIdentity
  <1>4. \A i \in ids[u] : i \notin todo[u] \/ i = NextIn(u) => lockHolder'[LockOf[i]] = u
    <2>1. \A i \in ids[u] \ todo[u] : lockHolder[LockOf[i]] = u
      BY <1>1 DEF IInv, CallInv, HasLocks
    <2>2. lockHolder' = [lockHolder EXCEPT ![LockOf[NextIn(u)]] = u]
      BY DEF LockIdentity, TakeLock
    <2> QED
      BY <1>1, <1>2, <2>1, <2>2, UpsertAssumption DEF IInv, TypeOK
  <1>5. HasLocks(u)'
    BY <1>2, <1>3, <1>4 DEF HasLocks, Locked, Statement
  <1>6. KnowsOwners(u)'
    <2>1. found'[u] = {} /\ Owners({})' = {}
      BY <1>1, <1>3 DEF IInv, CallInv, KnowsOwners, Owners
    <2>2. ids'[u] \ ids'[u] = {}
      OBVIOUS
    <2> QED
      BY <1>2, <1>3, <2>1, <2>2 DEF KnowsOwners
  <1> QED
    BY <1>1, <1>2, <1>3, <1>5, <1>6
    DEF IInv, CallInv, Decided, Writes, Ended, Locked, Statement, Settled, Writing

LEMMA OwnFind ==
  ASSUME IInv, NEW u \in Calls, FindOwner(u)
  PROVE  CallInv(u)'
PROOF
  <1>1. /\ pc[u] = "find"
        /\ UNCHANGED <<owner, ids, inserted, answer, outcome, lockHolder, rowHolder>>
    BY DEF FindOwner, held
  <1>2. HasLocks(u)'
    <2>1. \A i \in ids[u] : lockHolder[LockOf[i]] = u
      BY <1>1 DEF IInv, CallInv, HasLocks, Locked, Statement
    <2>2. pc'[u] # "lock"
      BY Found
    <2> QED
      BY <1>1, <2>1, <2>2 DEF HasLocks
  <1>3. KnowsOwners(u)'
    <2>1. pc'[u] = "find" => found'[u] = Owners(ids[u] \ todo[u])'
      BY <1>1, Found DEF Owners
    <2>2. pc'[u] = "conflict" => Conflicting(ids[u])'
      BY <1>1, Found DEF Conflicting
    <2>3. pc'[u] # "find" => found'[u] = {}
      BY Found
    <2> QED
      BY <2>1, <2>2, <2>3 DEF KnowsOwners
  <1>4. Decided(u)'
    BY <1>1, Found DEF Decided, Settled
  <1>5. Writes(u)' /\ Ended(u)'
    <2>1. pc'[u] \notin Writing /\ pc'[u] # "idle"
      BY Found DEF Writing
    <2>2. inserted[u] = {} /\ outcome[u] = "none"
      BY <1>1 DEF IInv, CallInv, Writes, Writing, Ended
    <2> QED
      BY <1>1, <2>1, <2>2 DEF Writes, Ended, Writing
  <1> QED
    BY <1>2, <1>3, <1>4, <1>5 DEF CallInv

LEMMA OwnInsertIdentity ==
  ASSUME IInv, NEW u \in Calls, InsertIdentity(u)
  PROVE  CallInv(u)'
PROOF
  <1>1. "select" \in PC /\ {} \in SUBSET Identities /\ pc[u] = "identities" /\ Loop(u, "select", {})
    BY DEF InsertIdentity, PC, Statement
  <1>2. /\ NextIn(u) \in ids[u] /\ NextIn(u) \in Identities
        /\ \/ pc'[u] = "identities" /\ todo'[u] = todo[u] \ {NextIn(u)}
           \/ todo[u] = {NextIn(u)} /\ pc'[u] = "select" /\ todo'[u] = {}
    BY <1>1, Turn DEF IInv, Last
  <1>3. UNCHANGED <<owner, ids, found, customer, answer, outcome, lockHolder, rowHolder>>
    BY DEF InsertIdentity, held
  <1>4. inserted'[u] = inserted[u] \cup {i \in {NextIn(u)} : owner[i] = NoCustomer}
    BY DEF InsertIdentity, IInv, TypeOK
  <1>5. \A i \in ids[u] : owner[i] \in {customer[u], NoCustomer}
    BY <1>1 DEF IInv, CallInv, Decided, Settled
  <1>6. Writes(u)'
    <2>1. \A i \in inserted[u] : i \in ids[u] /\ owner[i] = NoCustomer
      BY DEF IInv, CallInv, Writes
    <2>2. \A i \in inserted'[u] : i \in ids'[u] /\ owner'[i] = NoCustomer
      BY <1>2, <1>3, <1>4, <2>1
    <2>3. rowHolder[customer[u]] = u
      BY <1>1 DEF IInv, CallInv, Writes, Writing
    <2>4. \A i \in ids[u] \ todo[u] : i \in inserted[u] \/ owner[i] = customer[u]
      BY <1>1 DEF IInv, CallInv, Writes, Writing
    <2>5. \A i \in ids'[u] \ todo'[u] : i \in inserted'[u] \/ owner'[i] = customer'[u]
      BY <1>2, <1>3, <1>4, <1>5, <2>4
    <2> QED
      BY <1>2, <1>3, <2>2, <2>3, <2>5 DEF Writes, Writing
  <1>7. HasLocks(u)'
    BY <1>1, <1>2, <1>3 DEF IInv, CallInv, HasLocks, Locked, Statement
  <1>8. KnowsOwners(u)' /\ Ended(u)'
    BY <1>1, <1>2, <1>3 DEF IInv, CallInv, KnowsOwners, Ended
  <1>9. Decided(u)'
    <2>1. \A v \in Calls \ {u} : pc'[v] = pc[v]
      BY <1>1, Turn DEF IInv
    <2> QED
      BY <1>1, <1>2, <1>3, <2>1 DEF IInv, CallInv, Decided, OwnCustomer, Unused, Settled
  <1> QED
    BY <1>6, <1>7, <1>8, <1>9 DEF CallInv

LEMMA OwnInsertCustomer ==
  ASSUME IInv, NEW u \in Calls, InsertCustomer(u)
  PROVE  CallInv(u)'
PROOF
  <1>1. /\ pc[u] = "insert" /\ pc' = [pc EXCEPT ![u] = "update"] /\ pc'[u] = "update"
        /\ UNCHANGED <<owner, ids, todo, found, inserted, answer, outcome, lockHolder, rowHolder>>
    BY DEF InsertCustomer, Goto, held, IInv, TypeOK
  <1>2. OwnCustomer(u)'
    <2>1. /\ customer'[u] \in Unused
          /\ \A v \in Calls \ {u} : v \in Connected => customer[v] # customer'[u]
          /\ \A v \in Calls \ {u} : pc'[v] = pc[v] /\ customer'[v] = customer[v]
      BY <1>1 DEF InsertCustomer, IInv, TypeOK
    <2>2. customer'[u] \in Unused'
      BY <1>1, <2>1 DEF Unused
    <2>3. \A v \in Calls \ {u} : pc'[v] \in Settled => customer'[v] # customer'[u]
      BY <2>1 DEF Connected, Settled
    <2> QED
      BY <2>2, <2>3 DEF OwnCustomer
  <1>3. Decided(u)'
    BY <1>1, <1>2 DEF IInv, CallInv, Decided
  <1> QED
    BY <1>1, <1>3 DEF IInv, CallInv, HasLocks, KnowsOwners, Writes, Ended, Locked, Statement, Writing

LEMMA OwnUpdate ==
  ASSUME IInv, NEW u \in Calls, UpdateCustomer(u)
  PROVE  CallInv(u)'
PROOF
  <1>1. /\ pc[u] = "update" /\ pc' = [pc EXCEPT ![u] = "identities"] /\ pc'[u] = "identities"
        /\ todo'[u] = ids[u] /\ customer[u] \in Customers /\ rowHolder'[customer[u]] = u
        /\ UNCHANGED <<owner, ids, found, customer, inserted, answer, outcome, lockHolder>>
    BY DEF UpdateCustomer, Goto, IInv, TypeOK, Settled
  <1>2. Decided(u)'
    <2>1. \A v \in Calls \ {u} : pc'[v] = pc[v]
      BY <1>1 DEF IInv, TypeOK
    <2> QED
      BY <1>1, <2>1 DEF IInv, CallInv, Decided, OwnCustomer, Unused, Settled
  <1> QED
    BY <1>1, <1>2 DEF IInv, CallInv, HasLocks, KnowsOwners, Writes, Ended, Locked, Statement, Writing

LEMMA OwnSelect ==
  ASSUME IInv, NEW u \in Calls, SelectIdentities(u)
  PROVE  CallInv(u)'
PROOF
  <1>1. /\ pc[u] = "select" /\ pc' = [pc EXCEPT ![u] = "commit"] /\ pc'[u] = "commit"
        /\ answer'[u] = inserted[u] \cup {i \in Identities : owner[i] = customer[u]}
        /\ UNCHANGED <<owner, ids, todo, found, customer, inserted, outcome, lockHolder, rowHolder>>
    BY DEF SelectIdentities, Goto, held, IInv, TypeOK
  <1>2. Decided(u)'
    <2>1. \A v \in Calls \ {u} : pc'[v] = pc[v]
      BY <1>1 DEF IInv, TypeOK
    <2> QED
      BY <1>1, <2>1 DEF IInv, CallInv, Decided, OwnCustomer, Unused, Settled
  <1> QED
    BY <1>1, <1>2 DEF IInv, CallInv, HasLocks, KnowsOwners, Writes, Ended, Locked, Statement, Writing

LEMMA OwnStep ==
  ASSUME IInv, NEW u \in Calls, Call(u) \/ ConnectTimeout(u) \/ Advance(u) \/ Abort(u)
  PROVE  CallInv(u)'
PROOF
  <1>1. CASE Call(u)
    <2>1. pc[u] = "idle" /\ pc'[u] = "connect" /\ outcome'[u] = "none"
      BY <1>1 DEF Call, Goto, IInv, TypeOK
    <2>2. UNCHANGED <<found, inserted>>
      BY <1>1 DEF Call
    <2> QED
      BY <2>1, <2>2
      DEF IInv, CallInv, HasLocks, KnowsOwners, Decided, Writes, Ended, Locked, Statement, Settled, Writing
  <1>2. CASE Connect(u)
    <2>1. /\ pc[u] = "connect" /\ pc'[u] = "lock" /\ todo'[u] = ids'[u]
          /\ UNCHANGED <<found, inserted, outcome>>
      BY <1>2 DEF Connect, Goto, IInv, TypeOK
    <2> QED
      BY <2>1
      DEF IInv, CallInv, HasLocks, KnowsOwners, Decided, Writes, Ended, Locked, Statement, Settled, Writing
  <1>3. CASE ConnectTimeout(u) \/ Abort(u)
    BY <1>3, OwnEnd DEF ConnectTimeout, Abort
  <1>4. CASE Conflict(u)
    <2>1. pc[u] = "conflict" /\ EndTransaction(u, "conflict") /\ UNCHANGED owner
      BY <1>4 DEF Conflict
    <2>2. Conflicting(ids[u])
      BY <2>1 DEF IInv, CallInv, KnowsOwners
    <2> QED
      BY <2>1, <2>2, OwnEnd
  <1> QED
    BY <1>1, <1>2, <1>3, <1>4, OwnLock, OwnFind, OwnInsertCustomer, OwnUpdate,
       OwnInsertIdentity, OwnSelect, OwnCommit DEF Advance

LEMMA Invariance == Spec => []IInv
PROOF
  <1>1. Init => IInv
    <2>1. SUFFICES ASSUME Init, NEW t \in Calls PROVE CallInv(t)
      BY TypeInit DEF IInv
    <2>2. pc[t] = "idle" /\ outcome[t] = "none" /\ inserted[t] = {} /\ found[t] = {}
      BY <2>1 DEF Init
    <2> QED
      BY <2>2
      DEF CallInv, HasLocks, KnowsOwners, Decided, Writes, Ended, Locked, Statement, Settled, Writing
  <1>2. IInv /\ [Next]_vars => IInv'
    <2>1. SUFFICES ASSUME IInv, [Next]_vars, NEW t \in Calls PROVE CallInv(t)'
      BY TypeNext DEF IInv
    <2>2. CASE UNCHANGED vars
      BY <2>1, <2>2
      DEF vars, work, held, IInv, CallInv, HasLocks, KnowsOwners, Decided, OwnCustomer, Writes, Ended,
          Owners, Conflicting, Unused
    <2>3. ASSUME NEW u \in Calls, Call(u) \/ ConnectTimeout(u) \/ Advance(u) \/ Abort(u)
          PROVE  CallInv(t)'
      <3>1. CASE t = u
        BY <2>1, <2>3, <3>1, OwnStep
      <3>2. CASE t # u
        <4>1. Quiet(u)
          BY <2>1, <2>3, StepIsQuiet
        <4> QED
          BY <2>1, <3>2, <4>1, Bystander
      <3> QED
        BY <3>1, <3>2
    <2> QED
      BY <2>1, <2>2, <2>3 DEF Next
  <1> QED
    BY <1>1, <1>2, PTL DEF Spec

-----------------------------------------------------------------------------
(* What follows from the invariant.                                        *)

(* Between their first look at the owners and their commit, no two calls   *)
(* share an identity; between their UPDATE and their commit, no two share  *)
(* a customer.                                                             *)
THEOREM ExclusiveHolds == Spec => []Exclusive
PROOF
  <1>1. ASSUME IInv, NEW t \in Calls, NEW u \in Calls, t # u
        PROVE  /\ pc[t] \in Locked /\ pc[u] \in Locked => ids[t] \cap ids[u] = {}
               /\ pc[t] \in Settled \ {"update"} /\ pc[u] \in Settled \ {"update"} =>
                    customer[t] # customer[u]
    <2>1. ASSUME pc[t] \in Locked, pc[u] \in Locked, NEW i \in ids[t] \cap ids[u]
          PROVE  FALSE
      BY <1>1, <2>1 DEF IInv, CallInv, HasLocks
    <2>2. ASSUME pc[t] \in Settled \ {"update"}, pc[u] \in Settled \ {"update"}
          PROVE  customer[t] # customer[u]
      BY <1>1, <2>2 DEF IInv, CallInv, Writes, Writing, Settled
    <2> QED
      BY <2>1, <2>2
  <1>2. IInv => Exclusive
    BY <1>1 DEF Exclusive
  <1> QED
    BY <1>2, Invariance, PTL

(* The customer a call answered with owns the identities of its request,   *)
(* and all that it listed, then and ever after; a conflict stays one.      *)
THEOREM OutcomesTrue == Spec => []OutcomesStayTrue
PROOF
  <1>1. IInv => OutcomesStayTrue
    BY DEF IInv, CallInv, Ended, OutcomesStayTrue
  <1> QED
    BY <1>1, Invariance, PTL

(* What a call lists is all its customer owns at the commit.               *)
THEOREM AnswersCurrent == Spec => AnswerIsCurrent
PROOF
  <1>1. ASSUME IInv, [Next]_vars, NEW t \in Calls, pc[t] = "commit", outcome'[t] = "customer"
        PROVE  answer[t] = {i \in Identities : owner'[i] = customer[t]}
    <2>1. /\ answer[t] = inserted[t] \cup {i \in Identities : owner[i] = customer[t]}
          /\ outcome[t] = "none" /\ inserted[t] \subseteq Identities
          /\ \A i \in inserted[t] : owner[i] = NoCustomer
      BY <1>1 DEF IInv, TypeOK, CallInv, Writes, Ended
    <2>2. PICK u \in Calls : Call(u) \/ ConnectTimeout(u) \/ Advance(u) \/ Abort(u)
      BY <1>1, <2>1 DEF Next, vars
    <2>3. u = t
      BY <1>1, <2>1, <2>2, StepIsQuiet DEF Quiet
    <2>4. Commit(t)
      <3>1. outcome'[t] # "customer" \/ Commit(t)
        BY <1>1, <2>1, <2>2, <2>3, Ending
        DEF IInv, TypeOK, Call, ConnectTimeout, Abort, Advance, Connect, LockIdentity, FindOwner,
            InsertCustomer, UpdateCustomer, InsertIdentity, SelectIdentities, Conflict
      <3> QED
        BY <1>1, <3>1
    <2>5. \A i \in Identities : owner'[i] = IF i \in inserted[t] THEN customer[t] ELSE owner[i]
      BY <2>4 DEF Commit
    <2> QED
      BY <2>1, <2>5
  <1>2. IInv /\ [Next]_vars =>
          [\A t \in Calls :
             pc[t] = "commit" /\ outcome'[t] = "customer" =>
               answer[t] = {i \in Identities : owner'[i] = customer[t]}]_vars
    BY <1>1
  <1> QED
    BY <1>2, Invariance, PTL DEF Spec, AnswerIsCurrent

-----------------------------------------------------------------------------
(* Refinement.                                                             *)

(* The statements before the last: the service does not see them.          *)
LEMMA Stutters ==
  ASSUME IInv, NEW u \in Calls,
         \/ Connect(u) \/ LockIdentity(u) \/ FindOwner(u) \/ InsertCustomer(u)
         \/ UpdateCustomer(u) \/ InsertIdentity(u) \/ SelectIdentities(u)
  PROVE  UNCHANGED <<owner, asked, result>>
PROOF
  <1>1. /\ pc[u] # "idle" /\ pc'[u] # "idle"
    <2>1. CASE Connect(u) \/ InsertCustomer(u) \/ UpdateCustomer(u) \/ SelectIdentities(u)
      BY <2>1 DEF IInv, TypeOK, Connect, InsertCustomer, UpdateCustomer, SelectIdentities, Goto
    <2>2. CASE LockIdentity(u)
      BY <2>2 DEF LockIdentity, Loop, Goto, IInv, TypeOK
    <2>3. CASE FindOwner(u)
      BY <2>3, Found
    <2>4. CASE InsertIdentity(u)
      BY <2>4 DEF InsertIdentity, Loop, Goto, IInv, TypeOK
    <2> QED
      BY <2>1, <2>2, <2>3, <2>4
  <1>2. UNCHANGED <<owner, ids, outcome>>
    BY DEF Connect, LockIdentity, FindOwner, InsertCustomer, UpdateCustomer, InsertIdentity,
           SelectIdentities
  <1>3. Quiet(u)
    BY StepIsQuiet DEF Advance
  <1>4. outcome[u] = "none"
    BY <1>1 DEF IInv, CallInv, Ended, TypeOK
  <1>5. \A t \in Calls : Asked(t)' = Asked(t) /\ Result(t)' = Result(t)
    BY <1>1, <1>2, <1>3, <1>4 DEF Quiet, Asked, Result
  <1> QED
    BY <1>2, <1>5 DEF asked, result

(* The end of a call is the end of the service's.                          *)
LEMMA Ends ==
  ASSUME IInv, NEW u \in Calls, pc[u] # "idle",
         NEW how \in {"customer", "conflict", "error"}, EndTransaction(u, how), Quiet(u)
  PROVE  /\ asked[u] = ids[u] /\ asked[u] # {}
         /\ asked' = [asked EXCEPT ![u] = {}]
         /\ result' = [result EXCEPT ![u] =
              [how |-> how, customer |-> IF how = "customer" THEN customer[u] ELSE NoCustomer]]
PROOF
  <1>1. /\ pc'[u] = "idle" /\ outcome'[u] = how
        /\ how = "customer" => customer'[u] = customer[u]
    BY Ending DEF IInv, TypeOK
  <1>2. asked[u] = ids[u] /\ asked[u] # {}
    BY UpsertAssumption DEF asked, Asked, IInv, TypeOK
  <1>3. \A t \in Calls \ {u} : Asked(t)' = Asked(t) /\ Result(t)' = Result(t)
    BY DEF Quiet, Asked, Result
  <1>4. Asked(u)' = {}
    BY <1>1 DEF Asked
  <1>5. Result(u)' =
          [how |-> how, customer |-> IF how = "customer" THEN customer[u] ELSE NoCustomer]
    BY <1>1 DEF Result
  <1> HIDE DEF Asked, Result
  <1>6. asked' = [asked EXCEPT ![u] = {}]
    BY <1>3, <1>4 DEF asked
  <1>7. result' = [result EXCEPT ![u] =
          [how |-> how, customer |-> IF how = "customer" THEN customer[u] ELSE NoCustomer]]
    BY <1>3, <1>5 DEF result
  <1> QED
    BY <1>2, <1>6, <1>7

(* What COMMIT writes is the upsert of the call's identities, decided on   *)
(* the owners of that instant.                                             *)
LEMMA CommitIsUpsert ==
  ASSUME IInv, NEW u \in Calls, Commit(u)
  PROVE  customer[u] \in Customers /\ Upsert(ids[u], customer[u])
PROOF
  <1>1. /\ pc[u] = "commit"
        /\ owner' = [i \in Identities |-> IF i \in inserted[u] THEN customer[u] ELSE owner[i]]
    BY DEF Commit
  <1>2. customer[u] \in Customers /\ ids[u] \subseteq Identities
    BY <1>1, UpsertAssumption DEF IInv, TypeOK, Settled
  <1>3. /\ \A i \in ids[u] : owner[i] \in {customer[u], NoCustomer}
        /\ (\E i \in ids[u] : owner[i] = customer[u]) \/ customer[u] \in Unused
    BY <1>1 DEF IInv, CallInv, Decided, OwnCustomer, Settled
  <1>4. \A i \in Identities : i \in inserted[u] <=> i \in ids[u] /\ owner[i] = NoCustomer
    BY <1>1, <1>2, NoCustomerAssumption DEF IInv, CallInv, Writes, Writing
  <1>5. ~Conflicting(ids[u])
    BY <1>3 DEF Conflicting
  <1>6. customer[u] \in Candidates(ids[u])
    BY <1>2, <1>3, NoCustomerAssumption DEF Candidates, Owners, Unused
  <1> QED
    BY <1>1, <1>2, <1>4, <1>5, <1>6 DEF Upsert

LEMMA CallIsAsk ==
  ASSUME IInv, NEW u \in Calls, Call(u), Quiet(u)
  PROVE  Service!Ask(u)
PROOF
  <1>1. PICK request \in Requests : ids' = [ids EXCEPT ![u] = request]
    BY DEF Call
  <1>2. /\ pc[u] = "idle" /\ pc'[u] = "connect" /\ outcome'[u] = "none"
        /\ ids'[u] = request
    BY <1>1 DEF Call, Goto, IInv, TypeOK
  <1>3. \A t \in Calls \ {u} : Asked(t)' = Asked(t) /\ Result(t)' = Result(t)
    BY DEF Quiet, Asked, Result
  <1>4. Asked(u) = {} /\ Asked(u)' = request /\ Result(u)' = Service!NoResult
    BY <1>2 DEF Asked, Result, Service!NoResult
  <1> HIDE DEF Asked, Result
  <1>5. asked' = [asked EXCEPT ![u] = request]
    BY <1>3, <1>4 DEF asked
  <1>6. result' = [result EXCEPT ![u] = Service!NoResult]
    BY <1>3, <1>4 DEF result
  <1>7. asked[u] = {} /\ UNCHANGED owner
    BY <1>4 DEF asked, Call
  <1> QED
    BY <1>5, <1>6, <1>7 DEF Service!Ask

(* The transaction implements the atomic upsert: every step of it is one   *)
(* of the service's, or none that the service sees.                        *)
THEOREM ImplementsService == Spec => ImplementsAtomicUpsert
PROOF
  <1>1. Init => Service!ServiceInit
    <2>1. Init => /\ asked = [t \in Calls |-> {}]
                  /\ result = [t \in Calls |-> Service!NoResult]
      BY DEF Init, asked, result, Asked, Result, Service!NoResult
    <2>2. Init => owner \in [Identities -> Customers \cup {NoCustomer}]
      BY DEF Init, DirectoryInit, Directory
    <2> QED
      BY <2>1, <2>2 DEF Service!ServiceInit, Service!DirectoryInit, Service!Directory
  <1>2. ASSUME IInv, [Next]_vars
        PROVE  [Service!ServiceNext]_(Service!service)
    <2>1. CASE UNCHANGED vars
      BY <2>1 DEF vars, work, held, asked, result, Asked, Result, Service!service
    <2>2. ASSUME NEW u \in Calls, Call(u) \/ ConnectTimeout(u) \/ Advance(u) \/ Abort(u)
          PROVE  [Service!ServiceNext]_(Service!service)
      <3>1. Quiet(u)
        BY <1>2, <2>2, StepIsQuiet
      <3>2. CASE Call(u)
        BY <1>2, <3>1, <3>2, CallIsAsk DEF Service!ServiceNext
      <3>3. CASE Commit(u)
        <4>1. PICK how \in {"customer", "error"} : EndTransaction(u, how)
          BY <3>3 DEF Commit
        <4>2. /\ pc[u] = "commit" /\ customer[u] \in Customers
              /\ Upsert(ids[u], customer[u])
          BY <1>2, <3>3, CommitIsUpsert DEF Commit
        <4>3. Service!Upsert(ids[u], customer[u])
          BY <4>2 DEF Upsert, Conflicting, Candidates, Owners, Unused, Service!Upsert,
                      Service!Conflicting, Service!Candidates, Service!Owners, Service!Unused
        <4>4. Service!Succeed(u) \/ Service!Fail(u)
          BY <1>2, <3>1, <4>1, <4>2, <4>3, Ends
          DEF Service!Succeed, Service!Fail, Service!End
        <4> QED
          BY <4>4 DEF Service!ServiceNext
      <3>4. CASE Conflict(u)
        <4>1. /\ pc[u] = "conflict" /\ EndTransaction(u, "conflict")
              /\ UNCHANGED owner /\ Conflicting(ids[u])
          BY <1>2, <3>4 DEF Conflict, IInv, CallInv, KnowsOwners
        <4>2. Service!Conflicting(ids[u])
          BY <4>1 DEF Conflicting, Service!Conflicting
        <4>3. Service!Refuse(u)
          BY <1>2, <3>1, <4>1, <4>2, Ends DEF Service!Refuse, Service!End
        <4> QED
          BY <4>3 DEF Service!ServiceNext
      <3>5. CASE ConnectTimeout(u) \/ Abort(u)
        <4>1. pc[u] # "idle" /\ EndTransaction(u, "error") /\ UNCHANGED owner
          BY <3>5 DEF ConnectTimeout, Abort, Statement
        <4>2. Service!Fail(u)
          BY <1>2, <3>1, <4>1, Ends DEF Service!Fail, Service!End
        <4> QED
          BY <4>2 DEF Service!ServiceNext
      <3>6. CASE \/ Connect(u) \/ LockIdentity(u) \/ FindOwner(u) \/ InsertCustomer(u)
                 \/ UpdateCustomer(u) \/ InsertIdentity(u) \/ SelectIdentities(u)
        BY <1>2, <3>6, Stutters DEF Service!service
      <3> QED
        BY <2>2, <3>2, <3>3, <3>4, <3>5, <3>6 DEF Advance
    <2> QED
      BY <1>2, <2>1, <2>2 DEF Next
  <1> QED
    BY <1>1, <1>2, Invariance, PTL DEF Spec, ImplementsAtomicUpsert, Service!ServiceSpec

(* However calls interleave, and wherever they fail, customer_identities   *)
(* only changes by whole upserts: what is said of CustomerDirectory alone  *)
(* holds of the transactions, for one an identity never changes its owner. *)
THEOREM ImplementsDirectory == Spec => DirectorySpec
PROOF
  <1>1. Init => DirectoryInit
    BY DEF Init
  <1>2. ASSUME IInv, [Next]_vars
        PROVE  [DirectoryNext]_owner
    <2>1. ASSUME NEW u \in Calls, Commit(u)
          PROVE  DirectoryNext
      <3>1. pc[u] # "idle"
        BY <2>1 DEF Commit
      <3>2. ids[u] \in SUBSET Identities
        BY <1>2, <3>1, UpsertAssumption DEF IInv, TypeOK
      <3> QED
        BY <1>2, <2>1, <3>2, CommitIsUpsert DEF DirectoryNext
    <2>2. ASSUME NEW u \in Calls,
                 Call(u) \/ ConnectTimeout(u) \/ (Advance(u) /\ ~Commit(u)) \/ Abort(u)
          PROVE  UNCHANGED owner
      BY <2>2 DEF Call, ConnectTimeout, Abort, Advance, Connect, LockIdentity, FindOwner,
                  InsertCustomer, UpdateCustomer, InsertIdentity, SelectIdentities, Conflict
    <2> QED
      BY <1>2, <2>1, <2>2 DEF Next, Advance, vars
  <1> QED
    BY <1>1, <1>2, Invariance, PTL DEF Spec, DirectorySpec

-----------------------------------------------------------------------------
(* Deadlock.  A transaction has the locks it came to and no others, and it *)
(* came to them in the order of their keys.                                *)

InTransaction == Statement \cup {"conflict"}

OwnLocks(u) ==
  \A l \in Locks : lockHolder[l] = u =>
    /\ pc[u] \in InTransaction
    /\ \E i \in ids[u] : LockOf[i] = l /\ (pc[u] = "lock" => i \notin todo[u])

OwnRows(u) ==
  \A c \in Customers : rowHolder[c] = u => pc[u] \in Writing /\ customer[u] = c

InOrder(u) ==
  pc[u] = "lock" =>
    \A i \in ids[u] \ todo[u], j \in todo[u] : KeyRank[i] < KeyRank[j]

LockInv == \A u \in Calls : OwnLocks(u) /\ OwnRows(u) /\ InOrder(u)

(* The locks a transaction had are given up at its end.                    *)
LEMMA GivenUp ==
  ASSUME TypeOK, NEW u \in Calls, NEW how \in {"customer", "conflict", "error"},
         EndTransaction(u, how)
  PROVE  /\ \A l \in Locks : lockHolder'[l] # u
         /\ \A c \in Customers : rowHolder'[c] # u
         /\ \A l \in Locks : lockHolder'[l] \in {lockHolder[l], NoCall}
         /\ \A c \in Customers : rowHolder'[c] \in {rowHolder[c], NoCall}
         /\ pc'[u] = "idle"
PROOF
  BY UpsertAssumption DEF EndTransaction, Goto, TypeOK

(* A step of another call does not give t a lock.                          *)
LEMMA LocksOfOthers ==
  ASSUME IInv, LockInv, NEW u \in Calls, NEW t \in Calls \ {u},
         Call(u) \/ ConnectTimeout(u) \/ Advance(u) \/ Abort(u)
  PROVE  OwnLocks(t)' /\ OwnRows(t)' /\ InOrder(t)'
PROOF
  <1>1. Quiet(u)
    BY StepIsQuiet
  <1>2. /\ \A l \in Locks : lockHolder'[l] \in {lockHolder[l], u, NoCall}
        /\ \A c \in Customers : rowHolder'[c] \in {rowHolder[c], u, NoCall}
    <2>1. CASE LockIdentity(u)
      BY <2>1 DEF LockIdentity, TakeLock, IInv, TypeOK
    <2>2. CASE UpdateCustomer(u)
      BY <2>2 DEF UpdateCustomer, IInv, TypeOK
    <2>3. CASE ConnectTimeout(u) \/ Commit(u) \/ Conflict(u) \/ Abort(u)
      BY <2>3, GivenUp DEF IInv, ConnectTimeout, Commit, Conflict, Abort
    <2>4. CASE \/ Call(u) \/ Connect(u) \/ FindOwner(u) \/ InsertCustomer(u)
               \/ InsertIdentity(u) \/ SelectIdentities(u)
      BY <2>4 DEF Call, Connect, FindOwner, InsertCustomer, InsertIdentity, SelectIdentities, held
    <2> QED
      BY <2>1, <2>2, <2>3, <2>4 DEF Advance
  <1>3. /\ \A l \in Locks : lockHolder'[l] = t => lockHolder[l] = t
        /\ \A c \in Customers : rowHolder'[c] = t => rowHolder[c] = t
    BY <1>2, UpsertAssumption
  <1>4. pc'[t] = pc[t] /\ ids'[t] = ids[t] /\ todo'[t] = todo[t] /\ customer'[t] = customer[t]
    BY <1>1 DEF Quiet
  <1> QED
    BY <1>3, <1>4 DEF LockInv, OwnLocks, OwnRows, InOrder

LEMMA LocksOfLock ==
  ASSUME IInv, LockInv, NEW u \in Calls, LockIdentity(u)
  PROVE  OwnLocks(u)' /\ OwnRows(u)' /\ InOrder(u)'
PROOF
  <1>1. "find" \in PC /\ ids[u] \in SUBSET Identities /\ pc[u] = "lock"
    BY UpsertAssumption DEF LockIdentity, PC, Statement, IInv, TypeOK
  <1>2. /\ NextIn(u) \in ids[u] /\ NextIn(u) \in Identities /\ NextIn(u) \in todo[u]
        /\ \/ /\ pc'[u] = "lock"
              /\ todo'[u] = todo[u] \ {NextIn(u)}
           \/ todo[u] = {NextIn(u)} /\ pc'[u] = "find" /\ todo'[u] = ids[u]
    BY <1>1, Turn DEF LockIdentity, IInv, Last
  <1>3. UNCHANGED <<ids, customer, rowHolder>>
    BY DEF LockIdentity
  <1>4. lockHolder' = [lockHolder EXCEPT ![LockOf[NextIn(u)]] = u]
    BY DEF LockIdentity, TakeLock
  <1>5. OwnLocks(u)'
    <2>1. \A l \in Locks : lockHolder'[l] = u => lockHolder[l] = u \/ l = LockOf[NextIn(u)]
      BY <1>4 DEF IInv, TypeOK
    <2> QED
      BY <1>1, <1>2, <1>3, <2>1 DEF LockInv, OwnLocks, InTransaction, Statement
  <1>6. OwnRows(u)'
    BY <1>1, <1>3 DEF LockInv, OwnRows, Writing
  <1>7. InOrder(u)'
    <2>1. SUFFICES ASSUME pc'[u] = "lock", NEW i \in ids[u] \ todo'[u], NEW j \in todo'[u]
                   PROVE  KeyRank[i] < KeyRank[j]
      BY <1>3 DEF InOrder
    <2>2. todo'[u] = todo[u] \ {NextIn(u)} /\ todo[u] \subseteq Identities
      BY <1>1, <1>2, <2>1 DEF IInv, TypeOK
    <2>3. CASE i = NextIn(u)
      <3>1. KeyRank[NextIn(u)] <= KeyRank[j]
        BY <2>1, <2>2, NextInIsLeft
      <3> QED
        BY <1>2, <2>1, <2>2, <2>3, <3>1, UpsertAssumption
    <2>4. CASE i # NextIn(u)
      BY <1>1, <2>1, <2>2, <2>4 DEF LockInv, InOrder
    <2> QED
      BY <2>3, <2>4
  <1> QED
    BY <1>5, <1>6, <1>7

LEMMA LocksOfStep ==
  ASSUME IInv, LockInv, NEW u \in Calls,
         Call(u) \/ ConnectTimeout(u) \/ Advance(u) \/ Abort(u)
  PROVE  OwnLocks(u)' /\ OwnRows(u)' /\ InOrder(u)'
PROOF
  <1> USE DEF LockInv, OwnLocks, OwnRows, InOrder, InTransaction, Statement, Writing
  <1>1. CASE ConnectTimeout(u) \/ Commit(u) \/ Conflict(u) \/ Abort(u)
    <2>1. \E how \in {"customer", "conflict", "error"} : EndTransaction(u, how)
      BY <1>1 DEF ConnectTimeout, Commit, Conflict, Abort
    <2>2. /\ \A l \in Locks : lockHolder'[l] # u
          /\ \A c \in Customers : rowHolder'[c] # u
          /\ pc'[u] = "idle"
      BY <2>1, GivenUp DEF IInv
    <2> QED
      BY <2>2
  <1>2. CASE LockIdentity(u)
    BY <1>2, LocksOfLock
  <1>3. CASE Call(u)
    <2>1. pc[u] = "idle" /\ pc'[u] = "connect" /\ UNCHANGED <<lockHolder, rowHolder>>
      BY <1>3 DEF Call, Goto, held, IInv, TypeOK
    <2> QED
      BY <2>1
  <1>4. CASE Connect(u)
    <2>1. /\ pc[u] = "connect" /\ pc'[u] = "lock" /\ todo'[u] = ids'[u]
          /\ UNCHANGED <<lockHolder, rowHolder>>
      BY <1>4 DEF Connect, Goto, held, IInv, TypeOK
    <2> QED
      BY <2>1
  <1>5. CASE FindOwner(u)
    <2>1. /\ pc[u] = "find" /\ pc'[u] \in {"find", "conflict", "insert", "update"}
          /\ UNCHANGED <<ids, lockHolder, rowHolder>>
      BY <1>5, Found DEF FindOwner, held
    <2> QED
      BY <2>1
  <1>6. CASE InsertCustomer(u)
    <2>1. /\ pc[u] = "insert" /\ pc'[u] = "update"
          /\ UNCHANGED <<ids, lockHolder, rowHolder>>
      BY <1>6 DEF InsertCustomer, Goto, held, IInv, TypeOK
    <2> QED
      BY <2>1
  <1>7. CASE UpdateCustomer(u)
    <2>1. /\ pc[u] = "update" /\ pc'[u] = "identities"
          /\ rowHolder' = [rowHolder EXCEPT ![customer[u]] = u]
          /\ UNCHANGED <<ids, customer, lockHolder>>
      BY <1>7 DEF UpdateCustomer, Goto, IInv, TypeOK
    <2>2. \A c \in Customers : rowHolder'[c] = u => c = customer[u]
      BY <2>1 DEF IInv, TypeOK
    <2> QED
      BY <2>1, <2>2
  <1>8. CASE InsertIdentity(u)
    <2>1. /\ pc[u] = "identities" /\ pc'[u] \in {"identities", "select"}
          /\ UNCHANGED <<ids, customer, lockHolder, rowHolder>>
      BY <1>8 DEF InsertIdentity, Loop, Goto, held, IInv, TypeOK
    <2> QED
      BY <2>1
  <1>9. CASE SelectIdentities(u)
    <2>1. /\ pc[u] = "select" /\ pc'[u] = "commit"
          /\ UNCHANGED <<ids, customer, lockHolder, rowHolder>>
      BY <1>9 DEF SelectIdentities, Goto, held, IInv, TypeOK
    <2> QED
      BY <2>1
  <1> QED
    BY <1>1, <1>2, <1>3, <1>4, <1>5, <1>6, <1>7, <1>8, <1>9 DEF Advance

LEMMA LockInvariance == Spec => []LockInv
PROOF
  <1>1. Init => LockInv
    BY UpsertAssumption DEF Init, LockInv, OwnLocks, OwnRows, InOrder
  <1>2. IInv /\ LockInv /\ [Next]_vars => LockInv'
    <2>1. SUFFICES ASSUME IInv, LockInv, [Next]_vars, NEW t \in Calls
                   PROVE  OwnLocks(t)' /\ OwnRows(t)' /\ InOrder(t)'
      BY DEF LockInv
    <2>2. CASE UNCHANGED vars
      BY <2>1, <2>2 DEF vars, work, held, LockInv, OwnLocks, OwnRows, InOrder
    <2>3. CASE Next
      BY <2>1, <2>3, LocksOfOthers, LocksOfStep DEF Next
    <2> QED
      BY <2>1, <2>2, <2>3
  <1> QED
    BY <1>1, <1>2, Invariance, PTL DEF Spec

(* A call waits only at its advisory locks or at its UPDATE: the identity  *)
(* it is about to insert is locked.  And the call an UPDATE waits for has  *)
(* made its own, so it waits for nothing.                                  *)
LEMMA WaitersWaitForLocks ==
  ASSUME IInv, LockInv, NEW S \in SUBSET Calls, WaitCycle(S), NEW t \in S
  PROVE  pc[t] = "lock"
PROOF
  <1>1. \A v \in S : pc[v] # "identities"
    <2>1. SUFFICES ASSUME NEW v \in S, pc[v] = "identities" PROVE FALSE
      OBVIOUS
    <2>2. PICK w \in S : WaitsFor(v, w)
      BY DEF WaitCycle
    <2>3. v # w /\ NextIn(v) \in inserted[w] /\ NextIn(v) \in ids[v]
      BY <2>1, <2>2, NextInIsLeft DEF WaitsFor, IInv, TypeOK
    <2>4. NextIn(v) \in ids[w] /\ pc[w] \in Locked
      BY <2>3 DEF IInv, CallInv, Writes, Writing, Locked, Statement
    <2> QED
      BY <2>1, <2>3, <2>4 DEF IInv, CallInv, HasLocks, Locked, Statement
  <1>2. PICK u \in S : WaitsFor(t, u)
    BY DEF WaitCycle
  <1>3. PICK v \in S : WaitsFor(u, v)
    BY DEF WaitCycle
  <1>4. pc[u] \in {"lock", "update"}
    BY <1>1, <1>3 DEF WaitsFor
  <1>5. pc[t] # "update"
    <2>1. SUFFICES ASSUME pc[t] = "update" PROVE FALSE
      OBVIOUS
    <2>2. rowHolder[customer[t]] = u /\ customer[t] \in Customers
      BY <1>2, <2>1 DEF WaitsFor, IInv, TypeOK, Settled
    <2>3. pc[u] \in Writing
      BY <2>2 DEF LockInv, OwnRows
    <2> QED
      BY <1>4, <2>3 DEF Writing
  <1> QED
    BY <1>1, <1>2, <1>5 DEF WaitsFor

(* The calls of a cycle would have ever greater lock keys before them.     *)
LEMMA WaitersAreOrdered ==
  ASSUME IInv, LockInv, \A i, j \in Identities : LockOf[i] = LockOf[j] => i = j,
         NEW t \in Calls, NEW u \in Calls, pc[t] = "lock", pc[u] = "lock", WaitsFor(t, u)
  PROVE  /\ NextIn(t) \in Identities /\ NextIn(u) \in Identities
         /\ KeyRank[NextIn(t)] < KeyRank[NextIn(u)]
PROOF
  <1>1. /\ ids[t] \subseteq Identities /\ ids[u] \subseteq Identities
        /\ todo[t] # {} /\ todo[t] \subseteq ids[t]
        /\ todo[u] # {} /\ todo[u] \subseteq ids[u]
    BY UpsertAssumption DEF IInv, TypeOK
  <1>2. NextIn(t) \in Identities /\ NextIn(u) \in todo[u]
    BY <1>1, NextInIsLeft
  <1>3. lockHolder[LockOf[NextIn(t)]] = u
    BY DEF WaitsFor
  <1>4. NextIn(t) \in ids[u] \ todo[u]
    BY <1>1, <1>2, <1>3, UpsertAssumption DEF LockInv, OwnLocks
  <1> QED
    BY <1>1, <1>2, <1>4 DEF LockInv, InOrder

(* Sorted locks cannot deadlock, if no two lock keys hash to one lock.     *)
THEOREM SortedLocks ==
  ASSUME IsFiniteSet(Identities),
         \A i, j \in Identities : LockOf[i] = LockOf[j] => i = j
  PROVE  Spec => []NoWaitCycle
PROOF
  <1>1. ASSUME IInv, LockInv, NEW S \in SUBSET Calls, WaitCycle(S)
        PROVE  FALSE
    <2> DEFINE Beyond(t) == {j \in Identities : KeyRank[NextIn(t)] < KeyRank[j]}
               sizes == {Cardinality(Beyond(t)) : t \in S}
    <2>1. ASSUME NEW t \in S
          PROVE  IsFiniteSet(Beyond(t)) /\ Cardinality(Beyond(t)) \in Nat
      <3>1. Beyond(t) \in SUBSET Identities
        OBVIOUS
      <3> QED
        BY <3>1, FS_Subset, FS_CardinalityType
    <2>2. sizes \in SUBSET Nat /\ sizes # {}
      BY <1>1, <2>1 DEF WaitCycle
    <2>3. PICK least \in sizes : \A n \in sizes : least <= n
      <3> HIDE DEF sizes
      <3> QED
        BY <2>2, LeastOf
    <2>4. PICK t \in S : Cardinality(Beyond(t)) = least
      OBVIOUS
    <2>5. PICK u \in S : WaitsFor(t, u)
      BY <1>1 DEF WaitCycle
    <2>6. pc[t] = "lock" /\ pc[u] = "lock"
      BY <1>1, WaitersWaitForLocks
    <2>7. /\ NextIn(t) \in Identities /\ NextIn(u) \in Identities
          /\ KeyRank[NextIn(t)] < KeyRank[NextIn(u)]
      BY <1>1, <2>5, <2>6, WaitersAreOrdered
    <2>8. Beyond(u) \subseteq Beyond(t) /\ NextIn(u) \in Beyond(t) /\ NextIn(u) \notin Beyond(u)
      BY <2>7, UpsertAssumption
    <2>9. Cardinality(Beyond(u)) < Cardinality(Beyond(t))
      <3> HIDE DEF Beyond
      <3>1. /\ Cardinality(Beyond(u)) <= Cardinality(Beyond(t))
            /\ Cardinality(Beyond(t)) = Cardinality(Beyond(u)) => Beyond(t) = Beyond(u)
        <4>1. Beyond(u) \in SUBSET Beyond(t) /\ IsFiniteSet(Beyond(t))
          BY <2>1, <2>8
        <4> QED
          BY <4>1, FS_Subset
      <3> QED
        BY <2>1, <2>8, <3>1
    <2>10. Cardinality(Beyond(t)) <= Cardinality(Beyond(u))
      <3>1. Cardinality(Beyond(u)) \in sizes
        OBVIOUS
      <3> HIDE DEF sizes, Beyond
      <3> QED
        BY <2>3, <2>4, <3>1
    <2>11. Cardinality(Beyond(t)) \in Nat /\ Cardinality(Beyond(u)) \in Nat
      BY <2>1
    <2> HIDE DEF Beyond
    <2> QED
      BY <2>9, <2>10, <2>11
  <1>2. IInv /\ LockInv => NoWaitCycle
    BY <1>1 DEF NoWaitCycle, Deadlocked
  <1> QED
    BY <1>2, Invariance, LockInvariance, PTL

=============================================================================
