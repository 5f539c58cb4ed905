----------------------- MODULE SchemaMigration_proofs -----------------------
(***************************************************************************)
(* Theorems about SchemaMigration, for any number of runners and failures  *)
(* and any old database: an applied migration means a hardened database,   *)
(* no customer loses an identity, and a migration is refused only for what *)
(* it could not have repaired.                                             *)
(***************************************************************************)
EXTENDS SchemaMigration, WellFoundedInduction, TLAPS

Statements == {"idle", "lock", "lookup", "dedupe", "check", "normalise",
               "require", "events", "commit"}

Unique(rows) ==
  \A a, b \in rows : (a.id = b.id => a = b) /\ ~Clash(a, b)

Hardened(rows) ==
  /\ \A row \in rows : row.provider # "null"
  /\ \A a, b \in rows : SameIdentity(a, b) => a = b

(* What a runner has not committed yet, statement by statement.            *)
Drafted ==
  /\ (\A r \in Runners : pc[r] \in {"idle", "lock", "lookup", "dedupe"}) => deleted = {}
  /\ (\A r \in Runners : pc[r] \notin {"require", "events", "commit"}) => emptied = {}
  /\ applied => /\ deleted = {} /\ emptied = {}
                /\ \A r \in Runners : pc[r] \in {"idle", "lock", "lookup", "commit"}

(* A row that is to be deleted says what a row that stays says, and one    *)
(* that is emptied had no provider.                                        *)
Kept(row) ==
  \E keeper \in identities :
    /\ keeper.id \notin deleted
    /\ keeper.customer = row.customer
    /\ SameIdentity(row, keeper)

Deletions ==
  /\ \A id \in deleted \cup emptied : \E row \in identities : row.id = id
  /\ \A row \in identities : row.id \in deleted => Kept(row)
  /\ \A row \in identities : row.id \in emptied => row.provider = "null"

(* Past the statement that normalises providers, what the runner sees is   *)
(* hardened; at its COMMIT so are the events.                              *)
Hardening ==
  \A r \in Runners : ~applied =>
    /\ pc[r] \in {"require", "events", "commit"} => Hardened(Seen)
    /\ pc[r] = "commit" => \A e \in Events : events[e].status = "known"

IInv ==
  TypeOK /\ Unique(identities) /\ Drafted /\ Deletions /\ Hardening /\ AppliedMeansHardened

-----------------------------------------------------------------------------
LEMMA Bounds ==
  NoRunner \notin Runners /\ MaxRows \in Nat /\ MaxFailures \in Nat
PROOF
  BY MigrationAssumption

(* Sets of natural numbers have a least element.                           *)
LEMMA Least ==
  ASSUME NEW T, T \subseteq Nat, T # {}
  PROVE  \E m \in T : \A n \in T : ~(n < m)
PROOF
  <1>1. PICK m \in T : \A n \in T : <<n, m>> \notin OpToRel(<, Nat)
    BY NatLessThanWellFounded, WFMin, Zenon
  <1>2. ASSUME NEW n \in T, n < m
        PROVE  <<n, m>> \in OpToRel(<, Nat)
    BY <1>2 DEF OpToRel
  <1> QED
    BY <1>1, <1>2

(* What a runner sees of a row.                                            *)
View(row) == [row EXCEPT !.provider = IF row.id \in emptied THEN "" ELSE @]

LEMMA Views ==
  ASSUME identities \subseteq Row
  PROVE  /\ Seen = {View(row) : row \in {row \in identities : row.id \notin deleted}}
         /\ \A row \in identities :
              /\ View(row) \in Row
              /\ View(row).id = row.id
              /\ View(row).key = row.key
              /\ View(row).customer = row.customer
              /\ row.id \in emptied => View(row).provider = ""
              /\ row.id \notin emptied => View(row) = row
         /\ \A row \in Seen : \E x \in identities : row = View(x) /\ x.id \notin deleted
         /\ \A row \in identities : row.id \notin deleted => View(row) \in Seen
         /\ Seen \subseteq Row
PROOF
  <1>1. Seen = {View(row) : row \in {row \in identities : row.id \notin deleted}}
    BY DEF Seen, View
  <1>2. ASSUME NEW row \in identities
        PROVE  /\ View(row) \in Row
               /\ View(row).id = row.id
               /\ View(row).key = row.key
               /\ View(row).customer = row.customer
               /\ row.id \in emptied => View(row).provider = ""
               /\ row.id \notin emptied => View(row) = row
    BY <1>2 DEF View, Row
  <1> QED
    BY <1>1, <1>2

LEMMA SeenWhole ==
  ASSUME identities \subseteq Row, deleted = {}, emptied = {}
  PROVE  Seen = identities
PROOF
  <1>1. \A row \in identities : View(row) = row
    BY Views
  <1> QED
    BY <1>1, Views

(* A step that leaves tables and draft alone.                              *)
LEMMA Frame ==
  ASSUME UNCHANGED <<tables, draft>>
  PROVE  /\ Seen' = Seen
         /\ Unique(identities) => Unique(identities)'
         /\ AppliedMeansHardened => AppliedMeansHardened'
         /\ Deletions => Deletions'
         /\ Hardened(Seen) => Hardened(Seen)'
PROOF
  <1>1. identities' = identities /\ events' = events /\ applied' = applied
        /\ deleted' = deleted /\ emptied' = emptied
    BY DEF tables, draft
  <1>2. Seen' = Seen
    BY <1>1 DEF Seen
  <1>3. Unique(identities) => Unique(identities)'
    BY <1>1 DEF Unique, Clash
  <1>4. AppliedMeansHardened => AppliedMeansHardened'
    BY <1>1 DEF AppliedMeansHardened, SameIdentity, Coalesce
  <1>5. ASSUME NEW row, Kept(row)
        PROVE  Kept(row)'
    BY <1>1, <1>5 DEF Kept, SameIdentity, Coalesce
  <1>6. Deletions => Deletions'
    BY <1>1, <1>5 DEF Deletions
  <1>7. Hardened(Seen) => Hardened(Seen)'
    BY <1>2 DEF Hardened, SameIdentity, Coalesce
  <1> QED
    BY <1>2, <1>3, <1>4, <1>6, <1>7

LEMMA InitIInv == Init => IInv
PROOF
  <1> SUFFICES ASSUME Init
               PROVE  IInv
    OBVIOUS
  <1>1. TypeOK
    <2>1. failures \in 0..MaxFailures /\ deleted \subseteq 1..MaxRows /\ emptied \subseteq 1..MaxRows
      BY Bounds DEF Init
    <2>2. identities \subseteq Row /\ events \in [Events -> Event] /\ applied \in BOOLEAN
      BY DEF Init
    <2>3. /\ pc \in [Runners -> Statements]
          /\ \A r \in Runners : pc[r] \notin {"idle", "lock"} <=> holder = r
      BY Bounds DEF Init, Statements
    <2> QED
      BY <2>1, <2>2, <2>3 DEF TypeOK, Statements
  <1>2. Unique(identities)
    BY DEF Init, Unique
  <1>3. Drafted /\ Deletions /\ Hardening /\ AppliedMeansHardened
    BY DEF Init, Drafted, Deletions, Hardening, AppliedMeansHardened
  <1> QED
    BY <1>1, <1>2, <1>3 DEF IInv

-----------------------------------------------------------------------------
(* A transaction that ends with the tables as they were.                   *)
LEMMA RollbackStep ==
  ASSUME IInv, NEW r \in Runners, holder = r, Rollback(r), failures' \in 0..MaxFailures
  PROVE  IInv'
PROOF
  <1> USE DEF IInv
  <1>1. /\ \A s \in Runners : pc'[s] = IF s = r THEN "idle" ELSE pc[s]
        /\ \A s \in Runners \ {r} : pc[s] \in {"idle", "lock"}
        /\ holder' = NoRunner /\ deleted' = {} /\ emptied' = {} /\ UNCHANGED tables
        /\ pc' \in [Runners -> Statements]
    BY DEF Rollback, EndTransaction, Goto, TypeOK, Statements
  <1>2. TypeOK'
    BY <1>1, Bounds DEF TypeOK, tables, Statements
  <1>3. Drafted' /\ Deletions' /\ Hardening'
    BY <1>1 DEF Drafted, Deletions, Hardening, tables
  <1>4. Unique(identities)' /\ AppliedMeansHardened'
    BY <1>1 DEF Unique, Clash, AppliedMeansHardened, SameIdentity, Coalesce, tables
  <1> QED
    BY <1>2, <1>3, <1>4

(* A step of a runner that leaves tables and draft alone: what Hardening   *)
(* says of its new statement is left to show.                              *)
LEMMA MoveStep ==
  ASSUME IInv, NEW r \in Runners, NEW statement \in Statements, Goto(r, statement),
         UNCHANGED <<tables, draft>>, failures' \in 0..MaxFailures,
         holder' \in {holder, r}, 
         \A s \in Runners : pc'[s] \notin {"idle", "lock"} <=> holder' = s,
         statement \in {"idle", "lock", "lookup", "dedupe"} =>
           pc[r] \in {"idle", "lock", "lookup", "dedupe"},
         statement \notin {"require", "events", "commit"} =>
           pc[r] \notin {"require", "events", "commit"},
         applied => statement \in {"idle", "lock", "lookup", "commit"},
         ~applied /\ statement \in {"require", "events", "commit"} => Hardened(Seen),
         ~applied /\ statement = "commit" => \A e \in Events : events[e].status = "known"
  PROVE  IInv'
PROOF
  <1> USE DEF IInv
  <1>1. /\ \A s \in Runners : pc'[s] = IF s = r THEN statement ELSE pc[s]
        /\ pc' \in [Runners -> Statements]
    BY DEF Goto, TypeOK, Statements
  <1>2. TypeOK'
    BY <1>1 DEF TypeOK, tables, draft, Statements
  <1>3. Drafted'
    <2>1. ASSUME \A s \in Runners : pc'[s] \in {"idle", "lock", "lookup", "dedupe"}
          PROVE  \A s \in Runners : pc[s] \in {"idle", "lock", "lookup", "dedupe"}
      BY <2>1, <1>1
    <2>2. ASSUME \A s \in Runners : pc'[s] \notin {"require", "events", "commit"}
          PROVE  \A s \in Runners : pc[s] \notin {"require", "events", "commit"}
      BY <2>2, <1>1
    <2> QED
      BY <1>1, <2>1, <2>2 DEF Drafted, tables, draft
  <1>4. Deletions' /\ Unique(identities)' /\ AppliedMeansHardened'
    BY Frame
  <1>5. Hardening'
    <2>1. Hardened(Seen) => Hardened(Seen)'
      BY Frame
    <2> QED
      BY <1>1, <2>1 DEF Hardening, tables
  <1> QED
    BY <1>2, <1>3, <1>4, <1>5

LEMMA StartStep ==
  ASSUME IInv, NEW r \in Runners, Start(r)
  PROVE  IInv'
PROOF
  <1>1. \A s \in Runners : pc'[s] \notin {"idle", "lock"} <=> holder' = s
    BY DEF IInv, Start, Goto, TypeOK
  <1>2. failures' \in 0..MaxFailures /\ holder' = holder /\ pc[r] = "idle" /\ Goto(r, "lock")
        /\ UNCHANGED <<tables, draft>>
    BY DEF IInv, Start, TypeOK
  <1> QED
    BY <1>1, <1>2, MoveStep DEF Statements

LEMMA TakeLockStep ==
  ASSUME IInv, NEW r \in Runners, TakeLock(r)
  PROVE  IInv'
PROOF
  <1>1. \A s \in Runners : pc'[s] \notin {"idle", "lock"} <=> holder' = s
    BY Bounds DEF IInv, TakeLock, Goto, TypeOK
  <1>2. failures' \in 0..MaxFailures /\ holder' = r /\ pc[r] = "lock" /\ Goto(r, "lookup")
        /\ UNCHANGED <<tables, draft>>
    BY DEF IInv, TakeLock, TypeOK
  <1> QED
    BY <1>1, <1>2, MoveStep DEF Statements

LEMMA LookupStep ==
  ASSUME IInv, NEW r \in Runners, Lookup(r)
  PROVE  IInv'
PROOF
  <1>1. \A s \in Runners : pc'[s] \notin {"idle", "lock"} <=> holder' = s
    BY DEF IInv, Lookup, Goto, TypeOK
  <1>2. /\ failures' \in 0..MaxFailures /\ holder' = holder /\ pc[r] = "lookup"
        /\ UNCHANGED <<tables, draft>>
        /\ Goto(r, IF applied THEN "commit" ELSE "dedupe")
    BY DEF IInv, Lookup, TypeOK
  <1>3. CASE applied
    <2>1. Goto(r, "commit")
      BY <1>2, <1>3
    <2> QED
      BY <1>1, <1>2, <1>3, <2>1, MoveStep DEF Statements
  <1>4. CASE ~applied
    <2>1. Goto(r, "dedupe")
      BY <1>2, <1>4
    <2> QED
      BY <1>1, <1>2, <1>4, <2>1, MoveStep DEF Statements
  <1> QED
    BY <1>3, <1>4

(* The duplicate with the smallest id stays.                               *)
LEMMA KeeperStays ==
  ASSUME identities \subseteq Row, Unique(identities), Seen = identities,
         NEW row \in identities
  PROVE  \E keeper \in identities :
           /\ keeper.id \notin {d.id : d \in Duplicates}
           /\ keeper.customer = row.customer
           /\ SameIdentity(row, keeper)
PROOF
  <1> DEFINE Alike == {x \in identities : x.customer = row.customer /\ SameIdentity(row, x)}
             ids == {x.id : x \in Alike}
  <1>1. \A x \in identities : x.id \in Nat
    <2>1. \A x \in identities : x.id \in 1..MaxRows
      BY DEF Row
    <2> QED
      BY <2>1
  <1>2. ids \subseteq Nat /\ ids # {}
    BY <1>1 DEF SameIdentity
  <1> HIDE DEF ids
  <1>3. PICK m \in ids : \A n \in ids : ~(n < m)
    BY <1>2, Least, Zenon
  <1> USE DEF ids
  <1>4. PICK keeper \in Alike : keeper.id = m
    BY <1>3
  <1>5. ASSUME NEW d \in Duplicates, d.id = keeper.id
        PROVE  FALSE
    <2>1. d = keeper
      BY <1>5 DEF Duplicates, Unique
    <2>2. PICK other \in identities :
            d.id > other.id /\ d.customer = other.customer /\ SameIdentity(d, other)
      BY DEF Duplicates
    <2>3. other \in Alike /\ other.id \in ids
      BY <2>1, <2>2, <1>4 DEF SameIdentity
    <2>4. other.id < m
      BY <2>1, <2>2, <1>1, <1>4
    <2> QED
      BY <2>3, <2>4, <1>3
  <1> QED
    BY <1>4, <1>5

LEMMA DedupeStep ==
  ASSUME IInv, NEW r \in Runners, Dedupe(r)
  PROVE  IInv'
PROOF
  <1> USE DEF IInv
  <1>1. /\ \A s \in Runners : pc'[s] = IF s = r THEN "check" ELSE pc[s]
        /\ \A s \in Runners \ {r} : pc[s] \in {"idle", "lock"}
        /\ holder' = holder /\ UNCHANGED <<tables, emptied, failures>>
        /\ pc' \in [Runners -> Statements]
        /\ holder = r /\ pc[r] = "dedupe" /\ deleted' = {row.id : row \in Duplicates}
    BY DEF Dedupe, Goto, TypeOK, Statements
  <1>2. deleted = {} /\ emptied = {} /\ ~applied
    <2>1. \A s \in Runners : pc[s] \in {"idle", "lock", "lookup", "dedupe"}
      BY <1>1
    <2> QED
      BY <1>1, <2>1 DEF Drafted
  <1>3. Seen = identities
    BY <1>2, SeenWhole DEF TypeOK
  <1>4. deleted' \subseteq 1..MaxRows
    BY <1>1, <1>3 DEF Duplicates, TypeOK, Row
  <1>5. TypeOK'
    BY <1>1, <1>4 DEF TypeOK, tables, Statements
  <1>6. Unique(identities)' /\ AppliedMeansHardened'
    BY <1>1, <1>2 DEF Unique, Clash, AppliedMeansHardened, tables
  <1>7. Drafted' /\ Hardening'
    BY <1>1, <1>2 DEF Drafted, Hardening, tables
  <1>8. Deletions'
    <2>1. \A id \in deleted' : \E row \in identities : row.id = id
      BY <1>1, <1>3 DEF Duplicates
    <2>3. emptied' = {} /\ identities' = identities
      BY <1>1, <1>2 DEF tables
    <2>2. \A row \in identities : \E keeper \in identities :
            /\ keeper.id \notin deleted'
            /\ keeper.customer = row.customer
            /\ SameIdentity(row, keeper)
      BY <1>1, <1>3, KeeperStays DEF TypeOK
    <2> QED
      BY <2>1, <2>2, <2>3 DEF Deletions, Kept, SameIdentity, Coalesce
  <1> QED
    BY <1>5, <1>6, <1>7, <1>8

LEMMA CheckStep ==
  ASSUME IInv, NEW r \in Runners, Check(r)
  PROVE  IInv'
PROOF
  <1>1. pc[r] = "check" /\ holder = r /\ failures' \in 0..MaxFailures /\ ~applied
    BY DEF IInv, Check, TypeOK, Drafted
  <1>2. CASE Rollback(r)
    BY <1>1, <1>2, RollbackStep
  <1>3. CASE Goto(r, "normalise") /\ UNCHANGED <<tables, holder, draft>>
    <2>1. \A s \in Runners : pc'[s] \notin {"idle", "lock"} <=> holder' = s
      BY <1>1, <1>3 DEF IInv, Goto, TypeOK
    <2> QED
      BY <1>1, <1>3, <2>1, MoveStep DEF Statements
  <1> QED
    BY <1>2, <1>3 DEF Check

(* Setting a provider that is null to '' leaves no two rows alike, for the *)
(* unique constraint forbids all but those with a null.                    *)
LEMMA NormaliseHardens ==
  ASSUME identities \subseteq Row, Unique(identities), emptied = {},
         NEW nulls, nulls = {row \in Seen : row.provider = "null"},
         ~\E a \in nulls, b \in Seen : a.id # b.id /\ SameIdentity(a, b),
         emptied' = {row.id : row \in nulls}, UNCHANGED <<tables, deleted>>
  PROVE  Hardened(Seen')
PROOF
  <1>1. Seen = {row \in identities : row.id \notin deleted}
    <2>1. \A row \in identities : View(row) = row
      BY Views
    <2> QED
      BY <2>1, Views
  <1>2. PICK after : after = [row \in Seen |-> [row EXCEPT !.provider = IF row.id \in emptied' THEN "" ELSE @]]
    OBVIOUS
  <1>3. Seen' = {after[row] : row \in Seen}
    BY <1>1, <1>2 DEF Seen, tables
  <1>4. ASSUME NEW row \in Seen
        PROVE  /\ after[row].key = row.key
               /\ row.provider = "null" => after[row].provider = ""
               /\ row.provider # "null" => after[row] = row
    <2>1. row \in Row
      BY <1>1
    <2>2. row.id \in emptied' <=> row.provider = "null"
      BY <1>1 DEF Unique
    <2> QED
      BY <1>2, <2>1, <2>2 DEF Row
  <1>5. ASSUME NEW a \in Seen, NEW b \in Seen, SameIdentity(after[a], after[b])
        PROVE  after[a] = after[b]
    <2>1. SameIdentity(a, b)
      BY <1>4, <1>5 DEF SameIdentity, Coalesce
    <2>2. a.id = b.id => a = b
      BY <1>1 DEF Unique
    <2>3. CASE a.id # b.id
      <3>1. a.provider # "null" /\ b.provider # "null"
        BY <2>1, <2>3 DEF SameIdentity
      <3>2. Clash(a, b)
        BY <2>1, <2>3, <3>1 DEF SameIdentity, Coalesce, Clash
      <3> QED
        BY <1>1, <3>2 DEF Unique
    <2> QED
      BY <2>2, <2>3
  <1>6. \A row \in Seen : after[row].provider # "null"
    BY <1>4
  <1> QED
    BY <1>3, <1>5, <1>6 DEF Hardened

LEMMA NormaliseStep ==
  ASSUME IInv, NEW r \in Runners, Normalise(r)
  PROVE  IInv'
PROOF
  <1> USE DEF IInv
  <1> DEFINE nulls == {row \in Seen : row.provider = "null"}
  <1>1. pc[r] = "normalise" /\ holder = r /\ failures' = failures /\ failures \in 0..MaxFailures
        /\ ~applied
    BY DEF Normalise, TypeOK, Drafted
  <1>2. CASE Rollback(r)
    BY <1>1, <1>2, RollbackStep
  <1>3. CASE /\ ~\E a \in nulls, b \in Seen : a.id # b.id /\ SameIdentity(a, b)
             /\ emptied' = {row.id : row \in nulls}
             /\ Goto(r, "require")
             /\ UNCHANGED <<tables, holder, deleted>>
    <2>1. /\ \A s \in Runners : pc'[s] = IF s = r THEN "require" ELSE pc[s]
          /\ \A s \in Runners \ {r} : pc[s] \in {"idle", "lock"}
          /\ pc' \in [Runners -> Statements]
      BY <1>1, <1>3 DEF Goto, TypeOK, Statements
    <2>2. emptied = {}
      BY <1>1, <2>1 DEF Drafted
    <2>3. Hardened(Seen')
      <3> HIDE DEF nulls
      <3>1. nulls = {row \in Seen : row.provider = "null"}
        BY DEF nulls
      <3> QED
        BY <1>3, <2>2, <3>1, NormaliseHardens DEF TypeOK
    <2>4. emptied' \subseteq 1..MaxRows
      <3>1. Seen \subseteq Row
        BY Views DEF TypeOK
      <3> QED
        BY <1>3, <3>1 DEF Row
    <2>5. TypeOK'
      BY <1>1, <1>3, <2>1, <2>4 DEF TypeOK, tables, Statements
    <2>6. Unique(identities)' /\ AppliedMeansHardened'
      BY <1>1, <1>3 DEF Unique, Clash, AppliedMeansHardened, tables
    <2>9. Deletions'
      <3>1. \A row \in nulls : \E x \in identities : row = x
        <4>1. \A row \in identities : View(row) = row
          BY <2>2, Views DEF TypeOK
        <4> QED
          BY <4>1, Views DEF TypeOK
      <3>2. \A row \in identities : row.id \in emptied' => row.provider = "null"
        BY <1>3, <3>1 DEF Unique
      <3>3. \A id \in deleted' \cup emptied' : \E row \in identities : row.id = id
        BY <1>3, <3>1 DEF Deletions
      <3>4. identities' = identities /\ deleted' = deleted
        BY <1>3 DEF tables
      <3> QED
        BY <3>2, <3>3, <3>4 DEF Deletions, Kept, SameIdentity, Coalesce
    <2>7. Drafted'
      BY <1>1, <1>3, <2>1 DEF Drafted, tables
    <2>8. Hardening'
      BY <2>1, <2>3 DEF Hardening, Hardened, SameIdentity, Coalesce
    <2> QED
      BY <2>5, <2>6, <2>7, <2>8, <2>9
  <1> QED
    BY <1>2, <1>3, <1>1 DEF Normalise

LEMMA RequireProviderStep ==
  ASSUME IInv, NEW r \in Runners, RequireProvider(r)
  PROVE  IInv'
PROOF
  <1>1. pc[r] = "require" /\ holder = r /\ failures' \in 0..MaxFailures /\ ~applied
    BY DEF IInv, RequireProvider, TypeOK, Drafted
  <1>2. CASE Rollback(r)
    BY <1>1, <1>2, RollbackStep
  <1>3. CASE Goto(r, "events") /\ UNCHANGED <<tables, holder, draft>>
    <2>1. \A s \in Runners : pc'[s] \notin {"idle", "lock"} <=> holder' = s
      BY <1>1, <1>3 DEF IInv, Goto, TypeOK
    <2>2. Hardened(Seen)
      BY <1>1 DEF IInv, Hardening
    <2> QED
      BY <1>1, <1>3, <2>1, <2>2, MoveStep DEF Statements
  <1> QED
    BY <1>2, <1>3 DEF RequireProvider

LEMMA ConstrainStep ==
  ASSUME IInv, NEW r \in Runners, Constrain(r)
  PROVE  IInv'
PROOF
  <1>1. pc[r] = "events" /\ holder = r /\ failures' \in 0..MaxFailures /\ ~applied
    BY DEF IInv, Constrain, TypeOK, Drafted
  <1>2. CASE Rollback(r)
    BY <1>1, <1>2, RollbackStep
  <1>3. CASE /\ ~\E e \in Events : events[e].status = "other"
             /\ Goto(r, "commit") /\ UNCHANGED <<tables, holder, draft>>
    <2>1. \A s \in Runners : pc'[s] \notin {"idle", "lock"} <=> holder' = s
      BY <1>1, <1>3 DEF IInv, Goto, TypeOK
    <2>2. Hardened(Seen)
      BY <1>1 DEF IInv, Hardening
    <2>3. \A e \in Events : events[e].status = "known"
      BY <1>3 DEF IInv, TypeOK, Event
    <2> QED
      BY <1>1, <1>3, <2>1, <2>2, <2>3, MoveStep DEF Statements
  <1> QED
    BY <1>2, <1>3 DEF Constrain

LEMMA CommitHardens ==
  ASSUME IInv, NEW r \in Runners, pc[r] = "commit"
  PROVE  Hardened(Seen) /\ \A e \in Events : events[e].status = "known"
PROOF
  <1> USE DEF IInv
  <1>1. CASE applied
    <2>1. Seen = identities
      BY <1>1, SeenWhole DEF Drafted, TypeOK
    <2> QED
      BY <1>1, <2>1 DEF AppliedMeansHardened, Hardened
  <1>2. CASE ~applied
    BY <1>2 DEF Hardening
  <1> QED
    BY <1>1, <1>2

LEMMA CommitStep ==
  ASSUME IInv, NEW r \in Runners, Commit(r)
  PROVE  IInv'
PROOF
  <1> USE DEF IInv
  <1>1. /\ \A s \in Runners : pc'[s] = IF s = r THEN "idle" ELSE pc[s]
        /\ \A s \in Runners \ {r} : pc[s] \in {"idle", "lock"}
        /\ holder' = NoRunner /\ deleted' = {} /\ emptied' = {} /\ applied' = TRUE
        /\ pc' \in [Runners -> Statements] /\ failures' = failures
        /\ pc[r] = "commit" /\ identities' = Seen
    BY DEF Commit, EndTransaction, Goto, TypeOK, Statements
  <1>2. Hardened(Seen) /\ \A e \in Events : events[e].status = "known"
    BY <1>1, CommitHardens
  <1>3. Seen \subseteq Row
    BY Views DEF TypeOK
  <1>4. events' \in [Events -> Event] /\
        \A e \in Events : events'[e].status = "known" /\ events'[e].classification # "other"
    <2>1. \A e \in Events : events[e] \in Event
      BY DEF TypeOK
    <2>2. ASSUME NEW e \in Events
          PROVE  /\ events'[e] \in Event
                 /\ events'[e].status = "known" /\ events'[e].classification # "other"
      BY <1>2, <2>1 DEF Commit, Event
    <2> QED
      BY <2>2 DEF Commit
  <1>5. TypeOK'
    BY <1>1, <1>3, <1>4, Bounds DEF TypeOK, Statements
  <1>6. Unique(identities')
    <2>1. ASSUME NEW a \in Seen, NEW b \in Seen
          PROVE  (a.id = b.id => a = b) /\ ~Clash(a, b)
      <3>1. PICK x \in identities, y \in identities : a = View(x) /\ b = View(y)
        BY Views DEF TypeOK
      <3>2. a.id = x.id /\ b.id = y.id
        BY <3>1, Views DEF TypeOK
      <3>3. a.id = b.id => a = b
        BY <3>1, <3>2 DEF Unique
      <3>4. ~Clash(a, b)
        BY <1>2 DEF Clash, Hardened, SameIdentity
      <3> QED
        BY <3>3, <3>4
    <2> QED
      BY <1>1, <2>1 DEF Unique
  <1>7. Drafted' /\ Deletions' /\ Hardening'
    BY <1>1 DEF Drafted, Deletions, Hardening
  <1>8. AppliedMeansHardened'
    BY <1>1, <1>2, <1>4 DEF AppliedMeansHardened, Hardened, SameIdentity, Coalesce
  <1>9. Unique(identities)'
    BY <1>6 DEF Unique, Clash
  <1> QED
    BY <1>5, <1>7, <1>8, <1>9

LEMMA FailStep ==
  ASSUME IInv, NEW r \in Runners, Fail(r)
  PROVE  IInv'
PROOF
  <1>1. failures' \in 0..MaxFailures /\ pc[r] # "idle"
    <2>1. failures \in Nat /\ failures < MaxFailures /\ failures' = failures + 1 /\ pc[r] # "idle"
      BY DEF IInv, Fail, TypeOK
    <2> QED
      BY <2>1, Bounds
  <1>2. CASE holder = r
    BY <1>1, <1>2, RollbackStep DEF Fail
  <1>3. CASE holder # r
    <2>1. Goto(r, "idle") /\ UNCHANGED <<tables, holder, draft>>
      BY <1>3 DEF Fail
    <2>2. pc[r] = "lock"
      BY <1>1, <1>3 DEF IInv, TypeOK
    <2>3. \A s \in Runners : pc'[s] \notin {"idle", "lock"} <=> holder' = s
      BY <2>1, <2>2 DEF IInv, Goto, TypeOK
    <2> QED
      BY <1>1, <2>1, <2>2, <2>3, MoveStep DEF Statements
  <1> QED
    BY <1>2, <1>3

(* The application cannot write a row that meets one the runner sees: it   *)
(* sees those with '', it would wait for those the runner has emptied, and *)
(* no other has no provider.                                               *)
LEMMA UpsertStep ==
  ASSUME IInv, NEW key \in Keys, NEW c \in Customers, Upsert(key, c)
  PROVE  IInv'
PROOF
  <1> USE DEF IInv
  <1>1. PICK id \in 1..MaxRows :
          /\ \A row \in identities : row.id # id
          /\ identities' = identities \cup
               {[id |-> id, customer |-> c, key |-> key, provider |-> ""]}
    BY DEF Upsert
  <1> DEFINE new == [id |-> id, customer |-> c, key |-> key, provider |-> ""]
  <1>2. new \in Row /\ new.id = id /\ new.key = key /\ new.provider = "" /\ new.customer = c
    BY DEF Row
  <1> HIDE DEF new
  <1>3. identities' = identities \cup {new}
    BY <1>1 DEF new
  <1>4. UNCHANGED <<events, applied, pc, holder, draft, failures>>
    BY DEF Upsert
  <1>5. TypeOK'
    BY <1>2, <1>3, <1>4 DEF TypeOK, draft
  <1>6. \A row \in identities : row.key = key => row.provider # "" /\ row.id \notin emptied
    BY DEF Upsert
  <1>7. Unique(identities)'
    <2>1. ASSUME NEW a \in identities, NEW b \in identities
          PROVE  (a.id = b.id => a = b) /\ ~Clash(a, b)
      BY DEF Unique
    <2>2. ASSUME NEW a \in identities
          PROVE  a.id # new.id /\ ~Clash(a, new) /\ ~Clash(new, a)
      BY <1>1, <1>2, <1>6 DEF Clash
    <2>3. ~Clash(new, new)
      BY DEF Clash
    <2>4. \A a, b \in identities' : (a.id = b.id => a = b) /\ ~Clash(a, b)
      BY <1>3, <2>1, <2>2, <2>3
    <2> QED
      BY <2>4 DEF Unique, Clash
  <1>8. Drafted'
    BY <1>4 DEF Drafted, draft
  <1>9. Deletions'
    <2>1. id \notin deleted /\ id \notin emptied
      BY <1>1 DEF Deletions
    <2>2. deleted' = deleted /\ emptied' = emptied
      BY <1>4 DEF draft
    <2>3. ASSUME NEW row, Kept(row)
          PROVE  Kept(row)'
      BY <1>3, <2>2, <2>3 DEF Kept, SameIdentity, Coalesce
    <2>4. \A row \in identities' : row.id \in deleted' => Kept(row)'
      BY <1>2, <1>3, <2>1, <2>2, <2>3 DEF Deletions
    <2>5. /\ \A x \in deleted' \cup emptied' : \E row \in identities' : row.id = x
          /\ \A row \in identities' : row.id \in emptied' => row.provider = "null"
      BY <1>2, <1>3, <2>1, <2>2 DEF Deletions
    <2> QED
      BY <2>4, <2>5 DEF Deletions
  <1>10. ASSUME NEW rows, Hardened(rows),
                \A row \in rows : row.key = key => row.provider # ""
         PROVE  Hardened(rows \cup {new})
    BY <1>2, <1>10 DEF Hardened, SameIdentity, Coalesce
  <1>11. Hardening'
    <2>1. ASSUME NEW r \in Runners, ~applied, pc[r] \in {"require", "events", "commit"}
          PROVE  Hardened(Seen')
      <3>1. Hardened(Seen)
        BY <2>1 DEF Hardening
      <3>2. \A row \in Seen : row.key = key => row.provider # ""
        <4>1. ASSUME NEW row \in Seen, row.key = key
              PROVE  row.provider # ""
          <5>1. PICK x \in identities : row = View(x)
            BY Views DEF TypeOK
          <5>2. x.key = key
            BY <4>1, <5>1, Views DEF TypeOK
          <5>3. row = x
            BY <1>6, <5>1, <5>2, Views DEF TypeOK
          <5> QED
            BY <1>6, <5>2, <5>3
        <4> QED
          BY <4>1
      <3>3. Hardened(Seen \cup {new})
        BY <1>10, <3>1, <3>2
      <3>4. Seen' \subseteq Seen \cup {new}
        <4>1. [new EXCEPT !.provider = IF new.id \in emptied THEN "" ELSE @] = new
          BY <1>2 DEF Row
        <4> QED
          BY <1>3, <1>4, <4>1 DEF Seen, draft
      <3> QED
        BY <3>3, <3>4 DEF Hardened
    <2> QED
      BY <1>4, <2>1 DEF Hardening, Hardened, SameIdentity, Coalesce
  <1>12. AppliedMeansHardened'
    <2>1. ASSUME applied
          PROVE  Hardened(identities')
      <3>1. Hardened(identities)
        BY <2>1 DEF AppliedMeansHardened, Hardened
      <3> QED
        BY <1>3, <1>6, <1>10, <3>1
    <2> QED
      BY <1>4, <2>1 DEF AppliedMeansHardened, Hardened, SameIdentity, Coalesce
  <1> QED
    BY <1>5, <1>7, <1>8, <1>9, <1>11, <1>12

-----------------------------------------------------------------------------
LEMMA Induction == IInv /\ [Next]_vars => IInv'
PROOF
  <1> SUFFICES ASSUME IInv, [Next]_vars
               PROVE  IInv'
    OBVIOUS
  <1>1. ASSUME NEW r \in Runners, Start(r) \/ Advance(r) \/ Fail(r)
        PROVE  IInv'
    BY <1>1, StartStep, TakeLockStep, LookupStep, DedupeStep, CheckStep, NormaliseStep,
       RequireProviderStep, ConstrainStep, CommitStep, FailStep DEF Advance
  <1>2. ASSUME NEW key \in Keys, NEW c \in Customers, Upsert(key, c)
        PROVE  IInv'
    BY <1>2, UpsertStep
  <1>3. CASE UNCHANGED vars
    <2>1. UNCHANGED <<tables, draft, pc, holder, failures>>
      BY <1>3 DEF vars
    <2>2. Unique(identities)' /\ AppliedMeansHardened' /\ Deletions'
      BY <2>1, Frame DEF IInv
    <2>3. TypeOK' /\ Drafted'
      BY <2>1 DEF IInv, TypeOK, Drafted, tables, draft
    <2>4. Hardening'
      BY <2>1, Frame DEF IInv, Hardening, tables
    <2> QED
      BY <2>2, <2>3, <2>4 DEF IInv
  <1> QED
    BY <1>1, <1>2, <1>3 DEF Next

(* The invariant is inductive.                                            *)
LEMMA Invariance == Spec => []IInv
PROOF
  BY InitIInv, Induction, PTL DEF Spec

(* Every variable stays in its type, and only the runner that has the      *)
(* advisory lock is past it: in migrate.ts, one migration at a time.       *)
THEOREM TypeCorrect == Spec => []TypeOK
PROOF
  BY Invariance, PTL DEF IInv

(* A database in which the migration is recorded is what the application   *)
(* assumes, whoever ran it, died on the way or wrote meanwhile.            *)
THEOREM AppliedIsHardened == Spec => []AppliedMeansHardened
PROOF
  BY Invariance, PTL DEF IInv

LEMMA CommitKeeps ==
  ASSUME IInv, NEW r \in Runners, Commit(r)
  PROVE  Ownership \subseteq Ownership'
PROOF
  <1> USE DEF IInv
  <1>1. identities' = Seen
    BY DEF Commit
  <1>2. ASSUME NEW row \in identities, row.id \notin deleted
        PROVE  \E x \in identities' :
                 /\ x.key = row.key /\ x.customer = row.customer
                 /\ Coalesce(x.provider) = Coalesce(row.provider)
    <2>1. View(row) \in identities'
      BY <1>1, <1>2, Views DEF TypeOK
    <2>2. View(row).key = row.key /\ View(row).customer = row.customer
      BY Views DEF TypeOK
    <2>3. Coalesce(View(row).provider) = Coalesce(row.provider)
      <3>1. CASE row.id \in emptied
        BY <3>1, Views DEF TypeOK, Deletions, Coalesce
      <3>2. CASE row.id \notin emptied
        BY <3>2, Views DEF TypeOK
      <3> QED
        BY <3>1, <3>2
    <2> QED
      BY <2>1, <2>2, <2>3
  <1>3. ASSUME NEW row \in identities
        PROVE  \E x \in identities' :
                 /\ x.key = row.key /\ x.customer = row.customer
                 /\ Coalesce(x.provider) = Coalesce(row.provider)
    <2>1. PICK stays \in identities :
            /\ stays.id \notin deleted /\ stays.customer = row.customer
            /\ stays.key = row.key /\ Coalesce(stays.provider) = Coalesce(row.provider)
      BY DEF Deletions, Kept, SameIdentity
    <2> QED
      BY <1>2, <2>1
  <1>4. ASSUME NEW row \in identities
        PROVE  <<row.key, Coalesce(row.provider), row.customer>> \in Ownership'
    <2>1. PICK x \in identities' :
            /\ x.key = row.key /\ x.customer = row.customer
            /\ Coalesce(x.provider) = Coalesce(row.provider)
      BY <1>3
    <2>2. <<x.key, Coalesce(x.provider), x.customer>> \in Ownership'
      BY DEF Ownership, Coalesce
    <2> QED
      BY <2>1, <2>2
  <1> QED
    BY <1>4 DEF Ownership

LEMMA OwnershipStep ==
  ASSUME IInv, [Next]_vars
  PROVE  Ownership \subseteq Ownership'
PROOF
  <1>1. ASSUME identities \subseteq identities'
        PROVE  Ownership \subseteq Ownership'
    BY <1>1 DEF Ownership, Coalesce
  <1>2. ASSUME UNCHANGED tables
        PROVE  Ownership \subseteq Ownership'
    BY <1>1, <1>2 DEF tables
  <1>3. ASSUME NEW r \in Runners, Start(r) \/ Advance(r) \/ Fail(r), ~Commit(r)
        PROVE  UNCHANGED tables
    BY <1>3 DEF Start, Advance, Fail, TakeLock, Lookup, Dedupe, Check, Normalise,
                RequireProvider, Constrain, Rollback, tables
  <1>4. ASSUME NEW key \in Keys, NEW c \in Customers, Upsert(key, c)
        PROVE  identities \subseteq identities'
    BY <1>4 DEF Upsert
  <1>5. CASE UNCHANGED vars
    BY <1>2, <1>5 DEF vars
  <1> QED
    BY <1>1, <1>2, <1>3, <1>4, <1>5, CommitKeeps DEF Next

(* What the migration deletes was said twice and its first row stays, and  *)
(* an identity it finds with two owners stays with both: the DELETE and    *)
(* the check of 001_harden_existing_schema.sql.                            *)
THEOREM NobodyLosesAnIdentity == Spec => OwnershipKept
PROOF
  BY Invariance, OwnershipStep, PTL DEF Spec, OwnershipKept

-----------------------------------------------------------------------------
(* After the duplicates are gone, what meets a row without a provider was  *)
(* written since by the application.                                       *)
Deduped ==
  \A r \in Runners : ~applied /\ pc[r] \in {"check", "normalise"} =>
    \A a, b \in Seen :
      SameIdentity(a, b) /\ a.customer = b.customer /\ a.provider = "null" /\ a # b =>
        b.provider = "" /\ Writing

LEMMA DedupeDedupes ==
  ASSUME IInv, NEW r \in Runners, Dedupe(r)
  PROVE  \A a, b \in Seen' :
           SameIdentity(a, b) /\ a.customer = b.customer => a = b
PROOF
  <1>1. holder = r /\ pc[r] = "dedupe" /\ UNCHANGED <<tables, emptied>>
        /\ deleted' = {row.id : row \in Duplicates}
    BY DEF IInv, TypeOK, Dedupe
  <1>2. deleted = {} /\ emptied = {}
    <2>1. \A s \in Runners : pc[s] \in {"idle", "lock", "lookup", "dedupe"}
      BY <1>1 DEF IInv, TypeOK
    <2> QED
      BY <1>1, <2>1 DEF IInv, Drafted
  <1>3. Seen = identities
    BY <1>2, SeenWhole DEF IInv, TypeOK
  <1>4. Seen' \subseteq {row \in identities : row.id \notin deleted'}
    <2>1. identities' = identities /\ emptied' = {}
      BY <1>1, <1>2 DEF tables
    <2>2. \A row \in identities : [row EXCEPT !.provider = IF row.id \in {} THEN "" ELSE @] = row
      BY DEF IInv, TypeOK, Row
    <2> QED
      BY <2>1, <2>2 DEF Seen
  <1>5. ASSUME NEW a \in Seen', NEW b \in Seen', SameIdentity(a, b), a.customer = b.customer
        PROVE  a = b
    <2>1. a \in identities /\ b \in identities /\ a.id \notin deleted' /\ b.id \notin deleted'
      BY <1>4
    <2>2. a \notin Duplicates /\ b \notin Duplicates
      BY <1>1, <2>1
    <2>3. SameIdentity(b, a)
      BY <1>5 DEF SameIdentity
    <2>4. ~(a.id > b.id) /\ ~(b.id > a.id)
      BY <1>3, <1>5, <2>1, <2>2, <2>3 DEF Duplicates
    <2>5. a.id \in 1..MaxRows /\ b.id \in 1..MaxRows
      BY <2>1 DEF IInv, TypeOK, Row
    <2>6. a.id = b.id
      BY <2>4, <2>5, Bounds
    <2> QED
      BY <2>1, <2>6 DEF IInv, Unique
  <1> QED
    BY <1>5

LEMMA DedupedStep == IInv /\ Deduped /\ [Next]_vars => Deduped'
PROOF
  <1> SUFFICES ASSUME IInv, Deduped, [Next]_vars,
                      NEW r \in Runners, ~applied', pc'[r] \in {"check", "normalise"},
                      NEW a \in Seen', NEW b \in Seen',
                      SameIdentity(a, b), a.customer = b.customer, a.provider = "null", a # b
               PROVE  b.provider = "" /\ Writing
    BY DEF Deduped, SameIdentity, Coalesce
  <1>1. ASSUME ~applied, pc[r] \in {"check", "normalise"}, a \in Seen, b \in Seen
        PROVE  b.provider = "" /\ Writing
    BY <1>1 DEF Deduped
  <1>2. ASSUME NEW s \in Runners, Dedupe(s)
        PROVE  FALSE
    BY <1>2, DedupeDedupes
  <1>3. ASSUME NEW s \in Runners, Start(s) \/ Advance(s) \/ Fail(s), ~Dedupe(s)
        PROVE  b.provider = "" /\ Writing
    <2>1. pc[r] \in {"check", "normalise"}
      BY <1>3 DEF Start, Advance, TakeLock, Lookup, Check, Normalise, RequireProvider,
                  Constrain, Commit, Fail, Rollback, EndTransaction, Goto, IInv, TypeOK
    <2>2. holder = r
      BY <2>1 DEF IInv, TypeOK
    <2>3. pc[s] \in {"idle", "lock", "check", "normalise"}
      BY <2>1, <2>2 DEF IInv, TypeOK
    <2>4. UNCHANGED <<tables, draft>>
      <3>1. pc'[r] # "idle" /\ pc'[r] # "require"
        OBVIOUS
      <3>2. CASE s # r
        <4>1. pc[s] \in {"idle", "lock"} /\ holder # s
          BY <2>2, <3>2 DEF IInv, TypeOK
        <4> QED
          BY <1>3, <4>1 DEF Start, Advance, TakeLock, Lookup, Check, Normalise, RequireProvider,
                            Constrain, Commit, Fail, draft
      <3>3. CASE s = r
        <4>1. pc \in [Runners -> Statements]
          BY DEF IInv, TypeOK, Statements
        <4>2. ~Goto(r, "idle") /\ ~Goto(r, "require")
          BY <3>1, <4>1 DEF Goto
        <4> QED
          BY <1>3, <2>1, <3>3, <4>2 DEF Start, Advance, TakeLock, Lookup, Check, Normalise,
               RequireProvider, Constrain, Commit, Fail, Rollback, EndTransaction, draft
      <3> QED
        BY <3>2, <3>3
    <2>5. Seen' = Seen /\ applied' = applied
      BY <2>4, Frame DEF tables
    <2> QED
      BY <1>1, <2>1, <2>5
  <1>4. ASSUME NEW key \in Keys, NEW c \in Customers, Upsert(key, c)
        PROVE  b.provider = "" /\ Writing
    <2>1. UNCHANGED <<events, applied, pc, holder, draft>> /\ Writing
      BY <1>4 DEF Upsert
    <2>2. PICK id \in 1..MaxRows :
            identities' = identities \cup
              {[id |-> id, customer |-> c, key |-> key, provider |-> ""]}
      BY <1>4 DEF Upsert
    <2> DEFINE new == [id |-> id, customer |-> c, key |-> key, provider |-> ""]
    <2>3. new \in Row /\ new.provider = "" /\ identities' = identities \cup {new}
      BY <2>2 DEF Row
    <2> HIDE DEF new
    <2>4. Seen' \subseteq Seen \cup {new}
      <3>1. [new EXCEPT !.provider = IF new.id \in emptied THEN "" ELSE @] = new
        BY <2>3 DEF Row
      <3> QED
        BY <2>1, <2>3, <3>1 DEF Seen, draft
    <2>5. a \in Seen
      BY <2>3, <2>4
    <2> QED
      BY <1>1, <2>1, <2>3, <2>4, <2>5
  <1>5. CASE UNCHANGED vars
    <2>1. UNCHANGED <<tables, draft, pc>>
      BY <1>5 DEF vars
    <2> QED
      BY <1>1, <2>1, Frame DEF tables
  <1> QED
    BY <1>2, <1>3, <1>4, <1>5 DEF Next

LEMMA RefusalStep ==
  ASSUME IInv, Deduped, [Next]_vars, NEW r \in Runners, holder = r, holder' # r
  PROVE  applied' \/ failures' > failures \/ ~Migratable \/ WrittenBesides
PROOF
  <1>1. ASSUME NEW s \in Runners, Start(s) \/ Advance(s) \/ Fail(s)
        PROVE  s = r \/ holder' = holder
    <2>1. r # NoRunner
      BY Bounds
    <2>2. s # r => pc[s] \in {"idle", "lock"}
      BY DEF IInv, TypeOK
    <2> QED
      BY <1>1, <2>1, <2>2 DEF Start, Advance, Fail, TakeLock, Lookup, Dedupe, Check, Normalise,
                              RequireProvider, Constrain, Commit
  <1>2. CASE Start(r) \/ TakeLock(r) \/ Lookup(r) \/ Dedupe(r)
    BY <1>2, Bounds DEF Start, TakeLock, Lookup, Dedupe
  <1>3. CASE Commit(r)
    BY <1>3 DEF Commit
  <1>4. CASE Fail(r)
    BY <1>4 DEF Fail, IInv, TypeOK
  <1>5. CASE RequireProvider(r)
    <2>1. pc[r] = "require" /\ \E row \in Seen : row.provider = "null"
      BY <1>5 DEF RequireProvider
    <2> QED
      BY <2>1 DEF IInv, Drafted, Hardening, Hardened
  <1>6. CASE Constrain(r)
    BY <1>6 DEF Constrain, Migratable
  <1>7. ASSUME pc[r] \in {"check", "normalise"}
        PROVE  Seen \subseteq identities /\ ~applied
    <2>1. \A s \in Runners : pc[s] \in {"idle", "lock", "check", "normalise"}
      BY <1>7 DEF IInv, TypeOK
    <2>2. emptied = {}
      BY <1>7, <2>1 DEF IInv, Drafted
    <2>3. \A row \in identities : View(row) = row
      BY <2>2, Views DEF IInv, TypeOK
    <2> QED
      BY <1>7, <2>3, Views DEF IInv, TypeOK, Drafted
  <1>8. CASE Check(r)
    <2>1. pc[r] = "check" /\ SeveralOwners(Seen)
      BY <1>8 DEF Check
    <2> QED
      BY <1>7, <2>1 DEF SeveralOwners, Migratable
  <1>9. CASE Normalise(r)
    <2>1. pc[r] = "normalise"
      BY <1>9 DEF Normalise
    <2>2. PICK a \in Seen, b \in Seen : a.provider = "null" /\ a.id # b.id /\ SameIdentity(a, b)
      BY <1>9 DEF Normalise
    <2>3. CASE a.customer # b.customer
      BY <1>7, <2>1, <2>2, <2>3 DEF SeveralOwners, Migratable
    <2>4. CASE a.customer = b.customer
      <3>1. b.provider = "" /\ Writing
        BY <1>7, <2>1, <2>2, <2>4 DEF Deduped
      <3>2. a.key = b.key
        BY <2>2 DEF SameIdentity
      <3> QED
        BY <2>2, <3>1, <3>2 DEF WrittenBesides
    <2> QED
      BY <2>3, <2>4
  <1>10. CASE \E key \in Keys, c \in Customers : Upsert(key, c)
    BY <1>10 DEF Upsert
  <1>11. CASE UNCHANGED vars
    BY <1>11 DEF vars
  <1> QED
    BY <1>1, <1>2, <1>3, <1>4, <1>5, <1>6, <1>8, <1>9, <1>10, <1>11 DEF Next, Advance

LEMMA DedupedHolds == Spec => []Deduped
PROOF
  <1>1. Init => Deduped
    BY DEF Init, Deduped
  <1> QED
    BY <1>1, Invariance, DedupedStep, PTL DEF Spec

(* A run of migrate.ts that has the lock gives up only if it must: the     *)
(* DELETE leaves no two old rows alike, so that neither the UPDATE of the  *)
(* providers nor SET NOT NULL can fail on them.  Only an identity with     *)
(* several owners, an unknown status, a failure, or a row the application  *)
(* has written next to an old one makes it roll back.                      *)
THEOREM RefusalsAreForced == Spec => RefusedOnlyIfItMust
PROOF
  <1>1. ASSUME IInv, Deduped, [Next]_vars
        PROVE  [\A r \in Runners : holder = r /\ holder' # r =>
                  applied' \/ failures' > failures \/ ~Migratable \/ WrittenBesides]_vars
    BY <1>1, RefusalStep
  <1> QED
    BY <1>1, Invariance, DedupedHolds, PTL DEF Spec, RefusedOnlyIfItMust
=============================================================================
