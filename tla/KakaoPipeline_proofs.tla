------------------------ MODULE KakaoPipeline_proofs ------------------------
(***************************************************************************)
(* Proofs about KakaoPipeline, for every value of its constants.           *)
(***************************************************************************)
EXTENDS KakaoPipeline, FiniteSetTheorems, TLAPS

(* There is always a token that no row and no invocation knows.            *)
LEMMA FreshTokenIsFresh ==
  ASSUME TypeOK
  PROVE  FreshToken \in Tokens \ LiveTokens
PROOF
  <1> DEFINE OfRows == {row[e].token : e \in Events}
             OfWorkers == {job[w].token : w \in Workers}
             f == [e \in Events |-> row[e].token]
             g == [w \in Workers |-> job[w].token]
  <1>1. IsFiniteSet(OfRows) /\ Cardinality(OfRows) <= Cardinality(Events)
    <2>1. f \in Surjection(Events, OfRows)
      BY DEF Surjection
    <2> QED
      BY <2>1, FS_Surjection, TokensAssumption
  <1>2. IsFiniteSet(OfWorkers) /\ Cardinality(OfWorkers) <= Cardinality(Workers)
    <2>1. g \in Surjection(Workers, OfWorkers)
      BY DEF Surjection
    <2> QED
      BY <2>1, FS_Surjection, TokensAssumption
  <1>3. IsFiniteSet(OfRows \cap OfWorkers)
    BY <1>1, FS_Subset
  <1>4. LiveTokens = OfRows \cup OfWorkers
    BY DEF LiveTokens
  <1> HIDE DEF OfRows, OfWorkers
  <1>5. IsFiniteSet(LiveTokens) /\ Cardinality(LiveTokens) < Cardinality(Tokens)
    <2>1. /\ Cardinality(OfRows) \in Nat
          /\ Cardinality(OfWorkers) \in Nat
          /\ Cardinality(OfRows \cap OfWorkers) \in Nat
          /\ Cardinality(Events) \in Nat
          /\ Cardinality(Workers) \in Nat
          /\ Cardinality(Tokens) \in Nat
      BY <1>1, <1>2, <1>3, FS_CardinalityType, TokensAssumption
    <2>2. /\ IsFiniteSet(OfRows \cup OfWorkers)
          /\ Cardinality(OfRows \cup OfWorkers) =
               Cardinality(OfRows) + Cardinality(OfWorkers) - Cardinality(OfRows \cap OfWorkers)
      BY <1>1, <1>2, FS_Union
    <2> QED
      BY <1>1, <1>2, <1>4, <2>1, <2>2, TokensAssumption
  <1>6. \E t \in Tokens : t \notin LiveTokens
    <2>1. SUFFICES ASSUME Tokens \subseteq LiveTokens PROVE FALSE
      OBVIOUS
    <2>2. Cardinality(Tokens) <= Cardinality(LiveTokens)
      BY <2>1, <1>5, FS_Subset
    <2>3. Cardinality(Tokens) \in Nat /\ Cardinality(LiveTokens) \in Nat
      BY <1>5, FS_CardinalityType, TokensAssumption
    <2> QED
      BY <2>2, <2>3, <1>5
  <1> QED
    BY <1>6 DEF FreshToken

-----------------------------------------------------------------------------
(* Type correctness.  What an action writes depends on what an invocation  *)
(* has done so far, so the induction carries Progress along.               *)

LEMMA TypeInit == Init => TypeOK
PROOF
  BY PipelineAssumption
  DEF Init, TypeOK, EventsInit, DirectoryInit, NoRow, Row, NoJob, Job, PC, NoLead

InvocationTypes ==
  /\ pc \in [Workers -> PC]
  /\ job \in [Workers -> Job]
  /\ attempt \in [Workers -> 0..(MaxAttempts - 1)]
  /\ reason \in [Workers -> Classification \cup {"none"}]

EffectTypes ==
  /\ crm \in [Events -> SUBSET Customers]
  /\ lead \in [Events -> Customers \cup {NoLead}]
  /\ sheet \in [Events -> Nat]
  /\ lateCrm \in [Events -> SUBSET Customers]
  /\ lateSheet \in [Events -> Nat]

(* The ways an invocation moves on keep its variables in their types.      *)
LEMMA MovesTypes ==
  ASSUME InvocationTypes, NEW w \in Workers
  PROVE  /\ \A await \in PC : Goto(w, await) => InvocationTypes'
         /\ \A c \in Classification :
              Raise(w, c) \/ AttemptFailed(w, c) => InvocationTypes'
         /\ Leave(w) => InvocationTypes'
PROOF
  <1> USE PipelineAssumption DEF InvocationTypes
  <1>1. ASSUME NEW await \in PC, Goto(w, await)
        PROVE  InvocationTypes'
    BY <1>1 DEF Goto
  <1>2. ASSUME NEW c \in Classification, Raise(w, c)
        PROVE  InvocationTypes'
    BY <1>2 DEF Raise, PC
  <1>3. ASSUME NEW c \in Classification, AttemptFailed(w, c)
        PROVE  InvocationTypes'
    BY <1>2, <1>3 DEF AttemptFailed
  <1>4. ASSUME Leave(w)
        PROVE  InvocationTypes'
    BY <1>4 DEF Leave, NoJob, Job, PC
  <1> QED
    BY <1>1, <1>2, <1>3, <1>4

(* The statements on the event table keep it in its type.                  *)
LEMMA RowTypes ==
  ASSUME row \in [Events -> Row], NEW e \in Events, NEW t
  PROVE  /\ t \in Tokens /\ StartLease(e, t) => row' \in [Events -> Row]
         /\ CompleteLease(e, t) => row' \in [Events -> Row]
         /\ \A c \in Classification \cup {"none"} :
              FailLease(e, t, c) => row' \in [Events -> Row]
         /\ PassLeaseInterval(e) => row' \in [Events -> Row]
PROOF
  <1>1. row[e] \in Row
    OBVIOUS
  <1> QED
    BY <1>1 DEF StartLease, CompleteLease, FailLease, PassLeaseInterval, WriteRow, Row

LEMMA DirectoryTypes ==
  ASSUME owner \in Directory, NEW ids, NEW c \in Customers, Upsert(ids, c)
  PROVE  owner' \in Directory
PROOF
  BY DEF Upsert, Directory

(* What an invocation that is under way knows.                             *)
LEMMA ActiveTypes ==
  ASSUME TypeOK, Progress, NEW w \in Workers, ~At(w, "idle")
  PROVE  /\ Event(w) \in Events
         /\ IdentitiesOf[Event(w)] \in SUBSET Identities
         /\ job[w] \in Job
         /\ pc[w] \in {"crm", "lead", "sheet", "complete"} => job[w].customer \in Customers
PROOF
  BY PipelineAssumption DEF TypeOK, Progress, Ready

(* The invocations that die with their process forget all they knew; no    *)
(* other invocation notices.                                               *)
Die(W) ==
  \A w \in Workers :
    IF w \in W THEN pc[w] # "idle" /\ pc'[w] = "idle" /\ job'[w] = NoJob
               ELSE pc'[w] = pc[w] /\ job'[w] = job[w]

LEMMA CrashEndsInvocations ==
  ASSUME TypeOK, NEW W \in SUBSET Workers, Crash(W)
  PROVE  /\ Die(W)
         /\ InvocationTypes'
         /\ Fault
         /\ UNCHANGED <<row, owner, crm, lead, sheet, replies>>
PROOF
  <1>1. Die(W) /\ Fault /\ UNCHANGED <<row, owner, crm, lead, sheet, replies>>
    BY DEF Crash, Die, At, TypeOK
  <1>2. InvocationTypes'
    <2>1. pc' \in [Workers -> PC] /\ job' \in [Workers -> Job]
      BY DEF Crash, TypeOK, PC, NoJob, Job
    <2>2. attempt' \in [Workers -> 0..(MaxAttempts - 1)]
      BY PipelineAssumption DEF Crash, TypeOK
    <2>3. reason' \in [Workers -> Classification \cup {"none"}]
      BY DEF Crash, TypeOK
    <2> QED
      BY <2>1, <2>2, <2>3 DEF InvocationTypes
  <1> QED
    BY <1>1, <1>2

(* What a dying process leaves on the wire is at most what its invocations *)
(* were telling an adapter.                                                *)
LEMMA CrashLeavesOnTheWire ==
  ASSUME TypeOK, NEW W \in SUBSET Workers, Crash(W), NEW e \in Events
  PROVE  /\ \A c \in lateCrm'[e] \ lateCrm[e] :
              \E w \in W : At(w, "crm") /\ Event(w) = e /\ job[w].customer = c
         /\ \E S \in SUBSET {w \in W : At(w, "sheet") /\ Event(w) = e} :
              /\ IsFiniteSet(S)
              /\ Cardinality(S) \in Nat
              /\ lateSheet'[e] = lateSheet[e] + Cardinality(S)
PROOF
  <1>1. PICK sent \in SUBSET W :
          /\ lateCrm' = [d \in Events |-> lateCrm[d] \cup
               {job[w].customer : w \in {v \in sent : At(v, "crm") /\ Event(v) = d}}]
          /\ lateSheet' = [d \in Events |-> lateSheet[d] +
               Cardinality({w \in sent : At(w, "sheet") /\ Event(w) = d})]
    BY DEF Crash
  <1> DEFINE S == {w \in sent : At(w, "sheet") /\ Event(w) = e}
  <1>2. IsFiniteSet(S) /\ Cardinality(S) \in Nat
    BY FS_Subset, FS_CardinalityType, TokensAssumption
  <1>3. lateSheet'[e] = lateSheet[e] + Cardinality(S)
    BY <1>1
  <1>4. \A c \in lateCrm'[e] \ lateCrm[e] :
          \E w \in W : At(w, "crm") /\ Event(w) = e /\ job[w].customer = c
    BY <1>1
  <1> QED
    BY <1>2, <1>3, <1>4

(* A dying process leaves counts of late calls, and names customers only.  *)
LEMMA CrashTypes ==
  ASSUME TypeOK, Progress, NEW W \in SUBSET Workers, Crash(W)
  PROVE  TypeOK'
PROOF
  <1>1. lateCrm' \in [Events -> SUBSET Customers]
    <2>1. lateCrm' = [e \in Events |-> lateCrm'[e]]
      BY DEF Crash
    <2>2. ASSUME NEW e \in Events, NEW c \in lateCrm'[e]
          PROVE  c \in Customers
      <3>1. CASE c \in lateCrm[e]
        BY <3>1 DEF TypeOK
      <3>2. CASE c \notin lateCrm[e]
        <4>1. PICK w \in W : At(w, "crm") /\ job[w].customer = c
          BY <2>2, <3>2, CrashLeavesOnTheWire
        <4> QED
          BY <4>1, ActiveTypes DEF At
      <3> QED
        BY <3>1, <3>2
    <2> QED
      BY <2>1, <2>2
  <1>2. lateSheet' \in [Events -> Nat]
    <2>1. lateSheet' = [e \in Events |-> lateSheet'[e]]
      BY DEF Crash
    <2>2. ASSUME NEW e \in Events
          PROVE  lateSheet'[e] \in Nat
      BY CrashLeavesOnTheWire DEF TypeOK
    <2> QED
      BY <2>1, <2>2
  <1> QED
    BY <1>1, <1>2, CrashEndsInvocations, PipelineAssumption DEF InvocationTypes, TypeOK, Fault

LEMMA TypeStep == TypeOK /\ Progress /\ [Next]_vars => TypeOK'
PROOF
  <1> SUFFICES ASSUME TypeOK, Progress, [Next]_vars
               PROVE  TypeOK'
    OBVIOUS
  <1> USE PipelineAssumption
  <1>0. CASE UNCHANGED vars
    BY <1>0 DEF vars, TypeOK, Directory, Result
  <1>1. ASSUME NEW e \in Events, NEW w \in Workers, BeginDuplicate(w, e)
        PROVE  TypeOK'
    BY <1>1 DEF BeginDuplicate, Reply, Result, TypeOK, effects, invocation
  <1>2. ASSUME NEW e \in Events, NEW w \in Workers, BeginStarted(w, e)
        PROVE  TypeOK'
    <2>1. FreshToken \in Tokens
      BY FreshTokenIsFresh
    <2>2. row' \in [Events -> Row]
      BY <1>2, <2>1, RowTypes DEF BeginStarted, TypeOK
    <2>3. InvocationTypes'
      BY <1>2, <2>1 DEF BeginStarted, TypeOK, InvocationTypes, Job, PC, Classification
    <2> QED
      BY <1>2, <2>2, <2>3 DEF BeginStarted, InvocationTypes, TypeOK, effects
  <1>3. ASSUME NEW e \in Events, NEW w \in Workers, BeginLost(w, e)
        PROVE  TypeOK'
    <2>1. FreshToken \in Tokens
      BY FreshTokenIsFresh
    <2>2. row' \in [Events -> Row]
      BY <1>3, <2>1, RowTypes DEF BeginLost, TypeOK
    <2> QED
      BY <1>3, <2>2 DEF BeginLost, Fault, TypeOK, effects, invocation
  <1>4. ASSUME NEW w \in Workers, UpsertCustomer(w)
        PROVE  TypeOK'
    <2>1. Event(w) \in Events /\ IdentitiesOf[Event(w)] \in SUBSET Identities /\ job[w] \in Job
      BY <1>4, ActiveTypes DEF UpsertCustomer, At
    <2>2. PICK c \in Candidates(IdentitiesOf[Event(w)]) :
               /\ Upsert(IdentitiesOf[Event(w)], c)
               /\ job' = [job EXCEPT ![w] =
                    [event |-> Event(w), token |-> job[w].token, customer |-> c]]
      BY <1>4 DEF UpsertCustomer
    <2>3. c \in Customers
      BY <2>1 DEF Candidates, Unused, Owners, Directory, TypeOK
    <2>4. owner' \in Directory
      BY <2>2, <2>3, DirectoryTypes DEF TypeOK
    <2>5. InvocationTypes'
      BY <1>4, <2>1, <2>2, <2>3 DEF UpsertCustomer, InvocationTypes, TypeOK, Job, PC, Event
    <2> QED
      BY <1>4, <2>4, <2>5 DEF UpsertCustomer, InvocationTypes, TypeOK, effects
  <1>5. ASSUME NEW w \in Workers, UpsertConflict(w)
        PROVE  TypeOK'
    <2>1. InvocationTypes'
      BY <1>5, MovesTypes DEF UpsertConflict, TypeOK, InvocationTypes, Classification
    <2> QED
      BY <1>5, <2>1, ActiveTypes DEF UpsertConflict, InvocationTypes, TypeOK, effects
  <1>6. ASSUME NEW w \in Workers, SyncCustomer(w)
        PROVE  TypeOK'
    <2>1. InvocationTypes'
      BY <1>6, MovesTypes DEF SyncCustomer, TypeOK, InvocationTypes, PC
    <2> QED
      BY <1>6, <2>1, ActiveTypes DEF SyncCustomer, InvocationTypes, TypeOK, AddCrm, At
  <1>7. ASSUME NEW w \in Workers, NEW error \in AdapterErrors, SyncError(w, error)
        PROVE  TypeOK'
    <2>1. InvocationTypes'
      BY <1>7, MovesTypes DEF SyncError, TypeOK, InvocationTypes, Classification
    <2> QED
      BY <1>7, <2>1, ActiveTypes DEF SyncError, InvocationTypes, TypeOK, AddCrm, At, Fault
  <1>8. ASSUME NEW w \in Workers, SyncTimeout(w)
        PROVE  TypeOK'
    <2>1. InvocationTypes'
      BY <1>8, MovesTypes DEF SyncTimeout, TypeOK, InvocationTypes, Classification
    <2> QED
      BY <1>8, <2>1, ActiveTypes DEF SyncTimeout, InvocationTypes, TypeOK, AbandonCrm, At, Fault
  <1>9. ASSUME NEW w \in Workers, AppendLead(w)
        PROVE  TypeOK'
    <2>1. InvocationTypes'
      BY <1>9, MovesTypes DEF AppendLead, TypeOK, InvocationTypes, PC
    <2> QED
      BY <1>9, <2>1, ActiveTypes DEF AppendLead, InvocationTypes, TypeOK, AddSheet, At
  <1>10. ASSUME NEW w \in Workers, NEW error \in AdapterErrors, AppendError(w, error)
        PROVE  TypeOK'
    <2>1. InvocationTypes'
      BY <1>10, MovesTypes DEF AppendError, TypeOK, InvocationTypes, Classification
    <2> QED
      BY <1>10, <2>1, ActiveTypes DEF AppendError, InvocationTypes, TypeOK, AddSheet, At, Fault
  <1>11. ASSUME NEW w \in Workers, AppendTimeout(w)
        PROVE  TypeOK'
    <2>1. InvocationTypes'
      BY <1>11, MovesTypes DEF AppendTimeout, TypeOK, InvocationTypes, Classification
    <2> QED
      BY <1>11, <2>1, ActiveTypes DEF AppendTimeout, InvocationTypes, TypeOK, AbandonSheet, At, Fault
  <1>12. ASSUME NEW w \in Workers, CreateLead(w)
        PROVE  TypeOK'
    <2>1. InvocationTypes'
      BY <1>12, MovesTypes DEF CreateLead, TypeOK, InvocationTypes, PC
    <2> QED
      BY <1>12, <2>1, ActiveTypes DEF CreateLead, InvocationTypes, TypeOK, StoreLead, At
  <1>13. ASSUME NEW w \in Workers, LeadError(w)
        PROVE  TypeOK'
    <2>1. InvocationTypes'
      BY <1>13, MovesTypes DEF LeadError, TypeOK, InvocationTypes, Classification
    <2> QED
      BY <1>13, <2>1, ActiveTypes DEF LeadError, InvocationTypes, TypeOK, StoreLead, At, Fault
  <1>14. ASSUME NEW w \in Workers, CompleteLeaseLost(w)
        PROVE  TypeOK'
    <2>1. InvocationTypes'
      BY <1>14, MovesTypes DEF CompleteLeaseLost, TypeOK, InvocationTypes, Classification
    <2> QED
      BY <1>14, <2>1, ActiveTypes DEF CompleteLeaseLost, InvocationTypes, TypeOK, effects
  <1>15. ASSUME NEW w \in Workers, FailLeaseLost(w)
        PROVE  TypeOK'
    <2>1. InvocationTypes'
      BY <1>15, MovesTypes DEF FailLeaseLost, TypeOK, InvocationTypes, PC
    <2> QED
      BY <1>15, <2>1, ActiveTypes DEF FailLeaseLost, InvocationTypes, TypeOK, effects
  <1>16. ASSUME NEW w \in Workers, FailError(w)
        PROVE  TypeOK'
    <2>1. InvocationTypes'
      BY <1>16, MovesTypes DEF FailError, TypeOK, InvocationTypes, PC
    <2> QED
      BY <1>16, <2>1, ActiveTypes DEF FailError, InvocationTypes, TypeOK, effects, Fault
  <1>17. ASSUME NEW W \in (SUBSET Workers) \ {{}}, Crash(W)
        PROVE  TypeOK'
    BY <1>17, CrashTypes
  <1>18. ASSUME NEW w \in Workers, UpsertError(w)
        PROVE  TypeOK'
    <2>1. Event(w) \in Events /\ IdentitiesOf[Event(w)] \in SUBSET Identities
      BY <1>18, ActiveTypes DEF UpsertError, At
    <2>2. owner' \in Directory
      <3>1. CASE UNCHANGED owner
        BY <3>1 DEF TypeOK, Directory
      <3>2. CASE \E c \in Candidates(IdentitiesOf[Event(w)]) : Upsert(IdentitiesOf[Event(w)], c)
        <4>1. PICK c \in Candidates(IdentitiesOf[Event(w)]) : Upsert(IdentitiesOf[Event(w)], c)
          BY <3>2
        <4>2. c \in Customers
          BY <2>1 DEF Candidates, Unused, Owners, Directory, TypeOK
        <4> QED
          BY <4>1, <4>2, DirectoryTypes DEF TypeOK
      <3> QED
        BY <1>18, <3>1, <3>2 DEF UpsertError
    <2>3. InvocationTypes'
      BY <1>18, MovesTypes DEF UpsertError, TypeOK, InvocationTypes, Classification
    <2> QED
      BY <1>18, <2>2, <2>3 DEF UpsertError, InvocationTypes, TypeOK, Fault, effects
  <1>19. ASSUME NEW w \in Workers, Complete(w)
        PROVE  TypeOK'
    <2>1. Event(w) \in Events /\ job[w] \in Job /\ job[w].customer \in Customers
      BY <1>19, ActiveTypes DEF Complete, At
    <2>2. row' \in [Events -> Row]
      BY <1>19, <2>1, RowTypes DEF Complete, TypeOK
    <2>3. InvocationTypes'
      BY <1>19, MovesTypes DEF Complete, TypeOK, InvocationTypes
    <2>4. replies' \in [Events -> SUBSET Result]
      <3> DEFINE status == IF Event(w) \in Bookable THEN "created" ELSE "needs_confirmation"
                 r == [status |-> status, customer |-> job[w].customer]
      <3>1. r \in Result
        BY <2>1 DEF Result
      <3>2. replies' = [replies EXCEPT ![Event(w)] = @ \cup {r}]
        BY <1>19 DEF Complete, Reply
      <3> HIDE DEF r
      <3> QED
        BY <2>1, <3>1, <3>2 DEF TypeOK
    <2> QED
      BY <1>19, <2>2, <2>3, <2>4 DEF Complete, InvocationTypes, TypeOK, effects
  <1>20. ASSUME NEW w \in Workers, CompleteError(w)
        PROVE  TypeOK'
    <2>1. Event(w) \in Events /\ job[w] \in Job
      BY <1>20, ActiveTypes DEF CompleteError, At
    <2>2. row' \in [Events -> Row]
      BY <1>20, <2>1, RowTypes DEF CompleteError, TypeOK
    <2>3. InvocationTypes'
      BY <1>20, MovesTypes DEF CompleteError, TypeOK, InvocationTypes, Classification
    <2> QED
      BY <1>20, <2>2, <2>3 DEF CompleteError, InvocationTypes, TypeOK, Fault, effects
  <1>21. ASSUME NEW w \in Workers, Fail(w)
        PROVE  TypeOK'
    <2>1. Event(w) \in Events /\ job[w] \in Job
      BY <1>21, ActiveTypes DEF Fail, At
    <2>2. row' \in [Events -> Row]
      BY <1>21, <2>1, RowTypes DEF Fail, TypeOK
    <2>3. InvocationTypes'
      BY <1>21, MovesTypes DEF Fail, TypeOK, InvocationTypes
    <2> QED
      BY <1>21, <2>2, <2>3 DEF Fail, InvocationTypes, TypeOK, effects
  <1>22. ASSUME NEW e \in Events, NEW c \in Customers, SyncLands(e, c)
        PROVE  TypeOK'
    BY <1>22 DEF SyncLands, AddCrm, TypeOK, invocation
  <1>23. ASSUME NEW e \in Events, AppendLands(e)
        PROVE  TypeOK'
    BY <1>23 DEF AppendLands, AddSheet, TypeOK, invocation
  <1>24. ASSUME NEW e \in Events, ExpireLease(e)
        PROVE  TypeOK'
    <2>1. row' \in [Events -> Row]
      BY <1>24, RowTypes DEF ExpireLease, TypeOK
    <2> QED
      BY <1>24, <2>1 DEF ExpireLease, Fault, TypeOK, effects, invocation
  <1> QED
    BY <1>0, <1>1, <1>2, <1>3, <1>4, <1>5, <1>6, <1>7, <1>8, <1>9, <1>10, <1>11, <1>12, <1>13,
       <1>14, <1>15, <1>16, <1>17, <1>18, <1>19, <1>20, <1>21, <1>22, <1>23, <1>24
    DEF Next, Deliver, Proceed, GoWrong

-----------------------------------------------------------------------------
(* Nothing that was done is ever undone.                                   *)

Grows ==
  /\ \A i \in Identities : owner[i] # NoCustomer => owner'[i] = owner[i]
  /\ \A e \in Events :
       /\ crm[e] \subseteq crm'[e]
       /\ lead[e] # NoLead => lead'[e] = lead[e]
       /\ sheet[e] <= sheet'[e]

LEMMA UpsertGrows ==
  ASSUME NEW ids, NEW c, Upsert(ids, c)
  PROVE  \A i \in Identities : owner[i] # NoCustomer => owner'[i] = owner[i]
PROOF
  BY DEF Upsert

(* An upsert leaves every one of its identities with its customer.         *)
LEMMA UpsertOwnsAll ==
  ASSUME NEW ids \in SUBSET Identities, NEW c \in Candidates(ids), Upsert(ids, c)
  PROVE  \A i \in ids : owner'[i] = c
PROOF
  <1>1. \A i \in ids : owner'[i] = IF owner[i] = NoCustomer THEN c ELSE owner[i]
    BY DEF Upsert
  <1>2. CASE Owners(ids) = {}
    <2>1. \A i \in ids : owner[i] = NoCustomer
      BY <1>2 DEF Owners
    <2> QED
      BY <1>1, <2>1
  <1>3. CASE Owners(ids) # {}
    <2>1. PICK j \in ids : owner[j] = c /\ c # NoCustomer
      BY <1>3 DEF Candidates, Owners
    <2>2. \A i \in ids : owner[i] # NoCustomer => owner[i] = c
      BY <2>1 DEF Upsert, Conflicting
    <2> QED
      BY <1>1, <2>2
  <1> QED
    BY <1>2, <1>3

LEMMA NextGrows == TypeOK /\ [Next]_vars => Grows
PROOF
  <1> SUFFICES ASSUME TypeOK, [Next]_vars
               PROVE  Grows
    OBVIOUS
  <1>1. CASE UNCHANGED <<owner, crm, lead, sheet>>
    BY <1>1 DEF Grows, TypeOK
  <1>2. ASSUME NEW w \in Workers, UpsertCustomer(w) \/ UpsertError(w)
        PROVE  Grows
    BY <1>2, UpsertGrows DEF UpsertCustomer, UpsertError, effects, Grows, TypeOK
  <1>3. ASSUME NEW w \in Workers, SyncCustomer(w) \/ \E error \in AdapterErrors : SyncError(w, error)
        PROVE  Grows
    BY <1>3 DEF SyncCustomer, SyncError, AddCrm, Grows, TypeOK
  <1>4. ASSUME NEW w \in Workers, AppendLead(w) \/ \E error \in AdapterErrors : AppendError(w, error)
        PROVE  Grows
    BY <1>4 DEF AppendLead, AppendError, AddSheet, Grows, TypeOK
  <1>5. ASSUME NEW w \in Workers, CreateLead(w) \/ LeadError(w)
        PROVE  Grows
    BY <1>5 DEF CreateLead, LeadError, StoreLead, Grows, TypeOK
  <1>6. ASSUME NEW e \in Events, NEW c \in Customers, SyncLands(e, c)
        PROVE  Grows
    BY <1>6 DEF SyncLands, AddCrm, Grows, TypeOK
  <1>7. ASSUME NEW e \in Events, AppendLands(e)
        PROVE  Grows
    BY <1>7 DEF AppendLands, AddSheet, Grows, TypeOK
  <1>8. ASSUME NEW e \in Events, NEW w \in Workers,
               BeginDuplicate(w, e) \/ BeginStarted(w, e) \/ BeginLost(w, e)
        PROVE  UNCHANGED <<owner, crm, lead, sheet>>
    BY <1>8 DEF BeginDuplicate, BeginStarted, BeginLost, effects
  <1>9. ASSUME NEW w \in Workers,
               \/ UpsertConflict(w) \/ SyncTimeout(w) \/ AppendTimeout(w)
               \/ Complete(w) \/ CompleteLeaseLost(w) \/ CompleteError(w)
               \/ Fail(w) \/ FailLeaseLost(w) \/ FailError(w)
        PROVE  UNCHANGED <<owner, crm, lead, sheet>>
    BY <1>9 DEF UpsertConflict, SyncTimeout, AppendTimeout, Complete, CompleteLeaseLost,
                CompleteError, Fail, FailLeaseLost, FailError, effects
  <1>10. ASSUME NEW e \in Events, ExpireLease(e)
         PROVE  UNCHANGED <<owner, crm, lead, sheet>>
    BY <1>10 DEF ExpireLease, effects
  <1>11. ASSUME NEW W \in (SUBSET Workers) \ {{}}, Crash(W)
         PROVE  UNCHANGED <<owner, crm, lead, sheet>>
    BY <1>11 DEF Crash
  <1> QED
    BY <1>1, <1>2, <1>3, <1>4, <1>5, <1>6, <1>7, <1>8, <1>9, <1>10, <1>11
    DEF Next, Deliver, Proceed, GoWrong, vars

-----------------------------------------------------------------------------
(* Who knows a lease token.                                                *)

(* Tokens are dropped, never passed on.                                    *)
TokensKept ==
  /\ \A w \in Workers :
       \/ job'[w].token = NoToken
       \/ job'[w].token = job[w].token /\ job'[w].event = job[w].event
  /\ \A e \in Events : row'[e].token = row[e].token

LEMMA KeptTokens ==
  ASSUME OneLeaseHolder, TokensKept
  PROVE  OneLeaseHolder'
PROOF
  BY DEF OneLeaseHolder, TokensKept, Event

LEMMA StatementsKeepTokens ==
  ASSUME TypeOK, NEW e, NEW t, NEW c,
         CompleteLease(e, t) \/ FailLease(e, t, c) \/ PassLeaseInterval(e)
  PROVE  \A d \in Events : row'[d].token = row[d].token
PROOF
  BY DEF CompleteLease, FailLease, PassLeaseInterval, WriteRow, TypeOK

LEMMA MovesKeepTokens ==
  ASSUME TypeOK, NEW w \in Workers, UNCHANGED job \/ Leave(w)
  PROVE  \A v \in Workers :
           \/ job'[v].token = NoToken
           \/ job'[v].token = job[v].token /\ job'[v].event = job[v].event
PROOF
  BY DEF Leave, NoJob, TypeOK

LEMMA LeaseStep == TypeOK /\ Progress /\ OneLeaseHolder /\ [Next]_vars => OneLeaseHolder'
PROOF
  <1> SUFFICES ASSUME TypeOK, Progress, OneLeaseHolder, [Next]_vars
               PROVE  OneLeaseHolder'
    OBVIOUS
  <1>1. CASE UNCHANGED <<job, row>>
    BY <1>1 DEF OneLeaseHolder, Event
  <1>2. ASSUME NEW e \in Events, NEW w \in Workers, BeginStarted(w, e)
        PROVE  OneLeaseHolder'
    <2>1. FreshToken \in Tokens \ LiveTokens
      BY FreshTokenIsFresh
    <2>2. \A v \in Workers : job'[v] = IF v = w THEN [event |-> e, token |-> FreshToken, customer |-> NoCustomer]
                                                ELSE job[v]
      BY <1>2 DEF BeginStarted, TypeOK
    <2>3. \A d \in Events : row'[d].token = IF d = e THEN FreshToken ELSE row[d].token
      BY <1>2 DEF BeginStarted, StartLease, WriteRow, TypeOK
    <2> QED
      BY <2>1, <2>2, <2>3 DEF OneLeaseHolder, Event, LiveTokens
  <1>3. ASSUME NEW e \in Events, NEW w \in Workers, BeginLost(w, e)
        PROVE  OneLeaseHolder'
    <2>1. FreshToken \in Tokens \ LiveTokens
      BY FreshTokenIsFresh
    <2>2. \A d \in Events : row'[d].token = IF d = e THEN FreshToken ELSE row[d].token
      BY <1>3 DEF BeginLost, StartLease, WriteRow, TypeOK
    <2> QED
      BY <1>3, <2>1, <2>2 DEF BeginLost, OneLeaseHolder, Event, LiveTokens, invocation
  <1>4. ASSUME NEW w \in Workers, UpsertCustomer(w)
        PROVE  OneLeaseHolder'
    <2>1. \A v \in Workers : job'[v].token = job[v].token /\ job'[v].event = job[v].event
      BY <1>4 DEF UpsertCustomer, TypeOK, Event
    <2> QED
      BY <1>4, <2>1, KeptTokens DEF UpsertCustomer, TokensKept
  <1>5. ASSUME NEW w \in Workers, Complete(w) \/ CompleteError(w) \/ Fail(w)
        PROVE  OneLeaseHolder'
    <2>1. \A d \in Events : row'[d].token = row[d].token
      BY <1>5, StatementsKeepTokens DEF Complete, CompleteError, Fail
    <2>2. UNCHANGED job \/ Leave(w)
      BY <1>5 DEF Complete, CompleteError, Fail, Raise
    <2> QED
      BY <2>1, <2>2, MovesKeepTokens, KeptTokens DEF TokensKept
  <1>6. ASSUME NEW w \in Workers, FailLeaseLost(w) \/ FailError(w)
        PROVE  OneLeaseHolder'
    BY <1>6, MovesKeepTokens, KeptTokens DEF FailLeaseLost, FailError, TokensKept
  <1>10. ASSUME NEW W \in (SUBSET Workers) \ {{}}, Crash(W)
         PROVE  OneLeaseHolder'
    <2>1. Die(W) /\ UNCHANGED row
      BY <1>10, CrashEndsInvocations
    <2> QED
      BY <2>1, KeptTokens DEF TokensKept, Die, NoJob
  <1>7. ASSUME NEW e \in Events, ExpireLease(e)
        PROVE  OneLeaseHolder'
    <2>1. \A d \in Events : row'[d].token = row[d].token
      BY <1>7, StatementsKeepTokens DEF ExpireLease
    <2> QED
      BY <1>7, <2>1, KeptTokens DEF ExpireLease, TokensKept, invocation
  <1>8. ASSUME NEW w \in Workers,
               \/ UpsertConflict(w) \/ UpsertError(w) \/ SyncCustomer(w) \/ SyncTimeout(w)
               \/ AppendLead(w) \/ AppendTimeout(w) \/ CreateLead(w) \/ LeadError(w)
               \/ CompleteLeaseLost(w)
               \/ \E error \in AdapterErrors : SyncError(w, error) \/ AppendError(w, error)
        PROVE  UNCHANGED <<job, row>>
    BY <1>8 DEF UpsertConflict, UpsertError, SyncCustomer, SyncTimeout, SyncError, AppendLead,
                AppendTimeout, AppendError, CreateLead, LeadError, CompleteLeaseLost,
                AttemptFailed, Goto, Raise
  <1>9. ASSUME NEW e \in Events,
               \/ AppendLands(e)
               \/ \E c \in Customers : SyncLands(e, c)
               \/ \E w \in Workers : BeginDuplicate(w, e)
        PROVE  UNCHANGED <<job, row>>
    BY <1>9 DEF AppendLands, SyncLands, BeginDuplicate, invocation
  <1> QED
    BY <1>1, <1>2, <1>3, <1>4, <1>5, <1>6, <1>7, <1>8, <1>9, <1>10
    DEF Next, Deliver, Proceed, GoWrong, vars

-----------------------------------------------------------------------------
(* What an invocation relies on across its awaits.                         *)

(* An invocation that does not move stays ready, whatever others do.       *)
LEMMA BystanderReady ==
  ASSUME TypeOK, TypeOK', Grows, NEW v \in Workers, Ready(v),
         pc'[v] = pc[v], job'[v] = job[v]
  PROVE  Ready(v)'
PROOF
  <1>1. CASE At(v, "idle")
    BY <1>1 DEF Ready, At
  <1>2. CASE ~At(v, "idle")
    <2>1. Event(v) \in Events /\ IdentitiesOf[Event(v)] \in SUBSET Identities
      BY <1>2, PipelineAssumption DEF Ready
    <2>2. Event(v)' = Event(v)
      BY DEF Event
    <2>3. \A i \in IdentitiesOf[Event(v)] :
            owner[i] = job[v].customer /\ job[v].customer \in Customers => owner'[i] = owner[i]
      BY <2>1, NoCustomerAssumption DEF Grows
    <2>4. /\ crm[Event(v)] \subseteq crm'[Event(v)]
          /\ lead[Event(v)] # NoLead => lead'[Event(v)] = lead[Event(v)]
          /\ sheet[Event(v)] > 0 => sheet'[Event(v)] > 0
      BY <2>1 DEF Grows, TypeOK
    <2> QED
      BY <2>1, <2>2, <2>3, <2>4 DEF Ready, At
  <1> QED
    BY <1>1, <1>2

(* One invocation moves from one await to the next.                        *)
Moves(w) == \A v \in Workers \ {w} : pc'[v] = pc[v] /\ job'[v] = job[v]

LEMMA MoversReady ==
  ASSUME TypeOK, TypeOK', Grows, Progress, NEW w \in Workers, Moves(w), Ready(w)'
  PROVE  Progress'
PROOF
  BY BystanderReady DEF Progress, Moves

LEMMA GotoMoves ==
  ASSUME TypeOK, NEW w \in Workers
  PROVE  /\ \A await : Goto(w, await) => Moves(w) /\ pc'[w] = await /\ job' = job
         /\ \A c : Raise(w, c) => Moves(w) /\ pc'[w] = "fail" /\ job' = job
         /\ Leave(w) => Moves(w) /\ pc'[w] = "idle"
PROOF
  BY DEF Goto, Raise, Leave, Moves, TypeOK

(* Whoever leaves, or goes on to call fail, relies on nothing.             *)
LEMMA GivingUpIsReady ==
  ASSUME TypeOK, Progress, NEW w \in Workers, ~At(w, "idle"),
         Leave(w) \/ \E c : Raise(w, c)
  PROVE  Moves(w) /\ Ready(w)'
PROOF
  <1>1. Event(w) \in Events /\ job[w].token \in Tokens
    BY DEF Progress, Ready
  <1>2. Moves(w) /\ (pc'[w] = "idle" \/ (pc'[w] = "fail" /\ job' = job))
    <2>1. CASE Leave(w)
      BY <2>1, GotoMoves
    <2>2. CASE \E c : Raise(w, c)
      BY <2>2, GotoMoves
    <2> QED
      BY <2>1, <2>2
  <1> QED
    BY <1>1, <1>2 DEF Ready, At, Event

LEMMA RetryIsReady ==
  ASSUME TypeOK, TypeOK', Grows, Progress, NEW w \in Workers, ~At(w, "idle"),
         NEW c, AttemptFailed(w, c)
  PROVE  Moves(w) /\ Ready(w)'
PROOF
  <1>1. CASE UNCHANGED <<pc, job>>
    BY <1>1, BystanderReady DEF Moves, Progress
  <1>2. CASE Raise(w, c)
    BY <1>2, GivingUpIsReady
  <1> QED
    BY <1>1, <1>2 DEF AttemptFailed

LEMMA ProgressStep ==
  ASSUME TypeOK, TypeOK', Progress, [Next]_vars
  PROVE  Progress'
PROOF
  <1>0. Grows
    BY NextGrows
  <1>1. CASE UNCHANGED <<pc, job>>
    BY <1>0, <1>1, BystanderReady DEF Progress
  <1>2. ASSUME NEW e \in Events, NEW w \in Workers, BeginStarted(w, e)
        PROVE  Progress'
    <2>1. /\ Moves(w) /\ job'[w].event = e /\ pc'[w] \in {"fail", "customer"}
          /\ job'[w].token \in Tokens
      BY <1>2, FreshTokenIsFresh DEF BeginStarted, Moves, TypeOK
    <2>2. Ready(w)'
      BY <2>1 DEF Ready, At, Event
    <2> QED
      BY <1>0, <2>1, <2>2, MoversReady
  <1>3. ASSUME NEW w \in Workers, UpsertCustomer(w)
        PROVE  Progress'
    <2>1. /\ Event(w) \in Events /\ IdentitiesOf[Event(w)] \in SUBSET Identities
          /\ job[w].token \in Tokens
      BY <1>3, ActiveTypes DEF UpsertCustomer, At, Progress, Ready
    <2>2. PICK c \in Candidates(IdentitiesOf[Event(w)]) :
               /\ Upsert(IdentitiesOf[Event(w)], c)
               /\ job' = [job EXCEPT ![w] =
                    [event |-> Event(w), token |-> job[w].token, customer |-> c]]
      BY <1>3 DEF UpsertCustomer
    <2>3. c \in Customers
      BY <2>1 DEF Candidates, Unused, Owners, Directory, TypeOK
    <2>4. \A i \in IdentitiesOf[Event(w)] : owner'[i] = c
      BY <2>1, <2>2, UpsertOwnsAll
    <2>5. /\ Moves(w) /\ pc'[w] = "crm"
          /\ job'[w].event = Event(w) /\ job'[w].token = job[w].token /\ job'[w].customer = c
      BY <1>3, <2>2 DEF UpsertCustomer, Moves, TypeOK
    <2>6. Ready(w)'
      BY <2>1, <2>3, <2>4, <2>5 DEF Ready, At, Event
    <2> QED
      BY <1>0, <2>5, <2>6, MoversReady
  <1>4. ASSUME NEW w \in Workers, SyncCustomer(w)
        PROVE  Progress'
    <2>1. /\ Event(w) \in Events /\ IdentitiesOf[Event(w)] \in SUBSET Identities
          /\ job[w].token \in Tokens /\ job[w].customer \in Customers
          /\ \A i \in IdentitiesOf[Event(w)] : owner[i] = job[w].customer
      BY <1>4, ActiveTypes DEF SyncCustomer, At, Progress, Ready
    <2>2. /\ Moves(w) /\ job' = job /\ UNCHANGED owner
          /\ pc'[w] = IF Event(w) \in Bookable THEN "lead" ELSE "complete"
      BY <1>4, GotoMoves DEF SyncCustomer
    <2>3. job[w].customer \in crm'[Event(w)]
      BY <1>4, <2>1 DEF SyncCustomer, AddCrm, TypeOK
    <2>4. Ready(w)'
      BY <2>1, <2>2, <2>3 DEF Ready, At, Event
    <2> QED
      BY <1>0, <2>2, <2>4, MoversReady
  <1>5. ASSUME NEW w \in Workers, CreateLead(w)
        PROVE  Progress'
    <2>1. /\ Event(w) \in Events /\ IdentitiesOf[Event(w)] \in SUBSET Identities
          /\ job[w].token \in Tokens /\ job[w].customer \in Customers
          /\ \A i \in IdentitiesOf[Event(w)] : owner[i] = job[w].customer
          /\ job[w].customer \in crm[Event(w)]
          /\ Event(w) \in Bookable
      BY <1>5, ActiveTypes DEF CreateLead, At, Progress, Ready
    <2>2. Moves(w) /\ job' = job /\ UNCHANGED <<owner, crm>> /\ pc'[w] = "sheet"
      BY <1>5, GotoMoves DEF CreateLead
    <2>3. lead'[Event(w)] # NoLead
      BY <1>5, <2>1, NoCustomerAssumption DEF CreateLead, StoreLead, TypeOK, NoLead
    <2>4. Ready(w)'
      BY <2>1, <2>2, <2>3 DEF Ready, At, Event
    <2> QED
      BY <1>0, <2>2, <2>4, MoversReady
  <1>6. ASSUME NEW w \in Workers, AppendLead(w)
        PROVE  Progress'
    <2>1. /\ Event(w) \in Events /\ IdentitiesOf[Event(w)] \in SUBSET Identities
          /\ job[w].token \in Tokens /\ job[w].customer \in Customers
          /\ \A i \in IdentitiesOf[Event(w)] : owner[i] = job[w].customer
          /\ job[w].customer \in crm[Event(w)]
          /\ Event(w) \in Bookable
          /\ lead[Event(w)] # NoLead
      BY <1>6, ActiveTypes DEF AppendLead, At, Progress, Ready
    <2>2. Moves(w) /\ job' = job /\ UNCHANGED <<owner, crm, lead>> /\ pc'[w] = "complete"
      BY <1>6, GotoMoves DEF AppendLead
    <2>3. sheet'[Event(w)] > 0
      BY <1>6, <2>1 DEF AppendLead, AddSheet, TypeOK
    <2>4. Ready(w)'
      BY <2>1, <2>2, <2>3 DEF Ready, At, Event
    <2> QED
      BY <1>0, <2>2, <2>4, MoversReady
  <1>7. ASSUME NEW w \in Workers,
               \/ SyncTimeout(w) \/ AppendTimeout(w)
               \/ \E error \in AdapterErrors : SyncError(w, error) \/ AppendError(w, error)
        PROVE  Progress'
    <2>1. ~At(w, "idle") /\ \E c : AttemptFailed(w, c)
      BY <1>7 DEF SyncTimeout, AppendTimeout, SyncError, AppendError, At
    <2> QED
      BY <1>0, <2>1, RetryIsReady, MoversReady
  <1>8. ASSUME NEW w \in Workers,
               \/ UpsertConflict(w) \/ UpsertError(w) \/ LeadError(w)
               \/ Complete(w) \/ CompleteLeaseLost(w) \/ CompleteError(w)
               \/ Fail(w) \/ FailLeaseLost(w) \/ FailError(w)
        PROVE  Progress'
    <2>1. ~At(w, "idle") /\ (Leave(w) \/ \E c : Raise(w, c))
      BY <1>8 DEF UpsertConflict, UpsertError, LeadError, Complete, CompleteLeaseLost,
                  CompleteError, Fail, FailLeaseLost, FailError, At
    <2> QED
      BY <1>0, <2>1, GivingUpIsReady, MoversReady
  <1>9. ASSUME NEW e \in Events,
               \/ AppendLands(e) \/ ExpireLease(e)
               \/ \E c \in Customers : SyncLands(e, c)
               \/ \E w \in Workers : BeginDuplicate(w, e) \/ BeginLost(w, e)
        PROVE  UNCHANGED <<pc, job>>
    BY <1>9 DEF AppendLands, ExpireLease, SyncLands, BeginDuplicate, BeginLost, invocation
  <1>10. ASSUME NEW W \in (SUBSET Workers) \ {{}}, Crash(W)
         PROVE  Progress'
    <2>1. Die(W)
      BY <1>10, CrashEndsInvocations
    <2> SUFFICES ASSUME NEW v \in Workers
                 PROVE  Ready(v)'
      BY DEF Progress
    <2>2. CASE v \in W
      BY <2>1, <2>2 DEF Die, Ready, At
    <2>3. CASE v \notin W
      BY <1>0, <2>1, <2>3, BystanderReady DEF Die, Progress
    <2> QED
      BY <2>2, <2>3
  <1> QED
    BY <1>1, <1>2, <1>3, <1>4, <1>5, <1>6, <1>7, <1>8, <1>9, <1>10
    DEF Next, Deliver, Proceed, GoWrong, vars

-----------------------------------------------------------------------------
(* Whom the effects are about.                                             *)

(* What a step adds is about the customer some invocation resolved.        *)
Sourced ==
  \A e \in Events : \A c \in About(e)' :
    \/ c \in About(e)
    \/ \E w \in Workers :
         ~At(w, "idle") /\ pc[w] \in {"crm", "lead"} /\ Event(w) = e /\ c = job[w].customer

LEMMA SourcedEffectsBelong ==
  ASSUME TypeOK, Progress, Grows, EffectsBelongToSender, Sourced
  PROVE  EffectsBelongToSender'
PROOF
  <1> SUFFICES ASSUME NEW e \in Events, NEW c \in About(e)', NEW i \in IdentitiesOf[e]
               PROVE  owner'[i] = c
    BY DEF EffectsBelongToSender
  <1>1. i \in Identities
    BY PipelineAssumption
  <1>2. owner[i] = c /\ c # NoCustomer
    <2>1. CASE c \in About(e)
      BY <2>1 DEF EffectsBelongToSender, About, NoLead
    <2>2. CASE \E w \in Workers : ~At(w, "idle") /\ pc[w] \in {"crm", "lead"}
                                  /\ Event(w) = e /\ c = job[w].customer
      BY <2>2, NoCustomerAssumption DEF Progress, Ready
    <2> QED
      BY <2>1, <2>2 DEF Sourced
  <1> QED
    BY <1>1, <1>2 DEF Grows

LEMMA NextSourced == TypeOK /\ Progress /\ [Next]_vars => Sourced
PROOF
  <1> SUFFICES ASSUME TypeOK, Progress, [Next]_vars
               PROVE  Sourced
    OBVIOUS
  <1>1. CASE UNCHANGED <<crm, lead, lateCrm>>
    BY <1>1 DEF Sourced, About
  <1>2. ASSUME NEW w \in Workers, SyncCustomer(w) \/ \E error \in AdapterErrors : SyncError(w, error)
        PROVE  Sourced
    BY <1>2 DEF SyncCustomer, SyncError, AddCrm, Sourced, About, At, TypeOK
  <1>3. ASSUME NEW w \in Workers, SyncTimeout(w)
        PROVE  Sourced
    BY <1>3 DEF SyncTimeout, AbandonCrm, Sourced, About, At, TypeOK
  <1>4. ASSUME NEW w \in Workers, CreateLead(w) \/ LeadError(w)
        PROVE  Sourced
    BY <1>4 DEF CreateLead, LeadError, StoreLead, Sourced, About, At, TypeOK
  <1>5. ASSUME NEW W \in (SUBSET Workers) \ {{}}, Crash(W)
        PROVE  Sourced
    <2> SUFFICES ASSUME NEW e \in Events, NEW c \in About(e)', c \notin About(e)
                 PROVE  \E w \in Workers : /\ ~At(w, "idle") /\ pc[w] \in {"crm", "lead"}
                                           /\ Event(w) = e /\ c = job[w].customer
      BY DEF Sourced
    <2>1. c \in lateCrm'[e] \ lateCrm[e]
      BY <1>5 DEF Crash, About
    <2>2. PICK w \in W : At(w, "crm") /\ Event(w) = e /\ job[w].customer = c
      BY <1>5, <2>1, CrashLeavesOnTheWire
    <2> QED
      BY <2>2 DEF At
  <1>6. ASSUME NEW e \in Events, NEW c \in Customers, SyncLands(e, c)
        PROVE  Sourced
    BY <1>6 DEF SyncLands, AddCrm, Sourced, About, TypeOK
  <1>7. ASSUME NEW w \in Workers,
               \/ UpsertCustomer(w) \/ UpsertConflict(w) \/ UpsertError(w)
               \/ AppendLead(w) \/ AppendTimeout(w)
               \/ Complete(w) \/ CompleteLeaseLost(w) \/ CompleteError(w)
               \/ Fail(w) \/ FailLeaseLost(w) \/ FailError(w)
               \/ \E error \in AdapterErrors : AppendError(w, error)
        PROVE  UNCHANGED <<crm, lead, lateCrm>>
    BY <1>7 DEF UpsertCustomer, UpsertConflict, UpsertError, AppendLead, AppendTimeout,
                AppendError, Complete, CompleteLeaseLost, CompleteError, Fail, FailLeaseLost,
                FailError, effects
  <1>8. ASSUME NEW e \in Events,
               \/ AppendLands(e) \/ ExpireLease(e)
               \/ \E w \in Workers : BeginDuplicate(w, e) \/ BeginStarted(w, e) \/ BeginLost(w, e)
        PROVE  UNCHANGED <<crm, lead, lateCrm>>
    BY <1>8 DEF AppendLands, ExpireLease, BeginDuplicate, BeginStarted, BeginLost, effects
  <1> QED
    BY <1>1, <1>2, <1>3, <1>4, <1>5, <1>6, <1>7, <1>8
    DEF Next, Deliver, Proceed, GoWrong, vars

-----------------------------------------------------------------------------
(* The order of the effects.                                               *)

LEMMA OrderStep ==
  ASSUME TypeOK, TypeOK', Progress, EffectsBelongToSender, NoEffectOutOfOrder, [Next]_vars
  PROVE  NoEffectOutOfOrder'
PROOF
  <1>0. Grows
    BY NextGrows
  <1>1. CASE UNCHANGED <<lead, sheet, lateSheet>>
    BY <1>0, <1>1 DEF NoEffectOutOfOrder, Grows
  <1>2. ASSUME NEW w \in Workers, CreateLead(w) \/ LeadError(w)
        PROVE  NoEffectOutOfOrder'
    <2>1. /\ Event(w) \in Events /\ Event(w) \in Bookable
          /\ job[w].customer \in Customers /\ job[w].customer \in crm[Event(w)]
      BY <1>2 DEF CreateLead, LeadError, At, Progress, Ready
    <2>2. UNCHANGED <<crm, sheet, lateSheet>> /\ (UNCHANGED lead \/ StoreLead(Event(w), job[w].customer))
      BY <1>2 DEF CreateLead, LeadError
    <2> QED
      BY <2>1, <2>2, NoCustomerAssumption DEF StoreLead, NoEffectOutOfOrder, NoLead, TypeOK
  <1>3. ASSUME NEW w \in Workers,
               AppendLead(w) \/ AppendTimeout(w) \/ \E error \in AdapterErrors : AppendError(w, error)
        PROVE  NoEffectOutOfOrder'
    <2>1. Event(w) \in Events /\ lead[Event(w)] # NoLead
      BY <1>3 DEF AppendLead, AppendTimeout, AppendError, At, Progress, Ready
    <2>2. /\ UNCHANGED <<crm, lead>>
          /\ UNCHANGED sheet \/ AddSheet(Event(w))
          /\ UNCHANGED lateSheet \/ AbandonSheet(Event(w))
      BY <1>3 DEF AppendLead, AppendTimeout, AppendError
    <2> QED
      BY <2>1, <2>2 DEF AddSheet, AbandonSheet, NoEffectOutOfOrder, TypeOK
  <1>4. ASSUME NEW W \in (SUBSET Workers) \ {{}}, Crash(W)
        PROVE  NoEffectOutOfOrder'
    <2>1. UNCHANGED <<crm, lead, sheet>>
      BY <1>4 DEF Crash
    <2>2. ASSUME NEW e \in Events
          PROVE  lateSheet'[e] = lateSheet[e] \/ lead[e] # NoLead
      <3>1. PICK S \in SUBSET {w \in W : At(w, "sheet") /\ Event(w) = e} :
                   lateSheet'[e] = lateSheet[e] + Cardinality(S)
        BY <1>4, CrashLeavesOnTheWire
      <3>2. CASE S = {}
        BY <3>1, <3>2, FS_EmptySet DEF TypeOK
      <3>3. CASE S # {}
        BY <3>3 DEF At, Progress, Ready
      <3> QED
        BY <3>2, <3>3
    <2> QED
      BY <2>1, <2>2 DEF NoEffectOutOfOrder, TypeOK
  <1>5. ASSUME NEW e \in Events, AppendLands(e)
        PROVE  NoEffectOutOfOrder'
    BY <1>5 DEF AppendLands, AddSheet, NoEffectOutOfOrder, TypeOK
  <1>6. ASSUME NEW w \in Workers,
               \/ UpsertCustomer(w) \/ UpsertConflict(w) \/ UpsertError(w)
               \/ SyncCustomer(w) \/ SyncTimeout(w)
               \/ Complete(w) \/ CompleteLeaseLost(w) \/ CompleteError(w)
               \/ Fail(w) \/ FailLeaseLost(w) \/ FailError(w)
               \/ \E error \in AdapterErrors : SyncError(w, error)
        PROVE  UNCHANGED <<lead, sheet, lateSheet>>
    BY <1>6 DEF UpsertCustomer, UpsertConflict, UpsertError, SyncCustomer, SyncTimeout,
                SyncError, Complete, CompleteLeaseLost, CompleteError, Fail, FailLeaseLost,
                FailError, effects
  <1>7. ASSUME NEW e \in Events,
               \/ ExpireLease(e)
               \/ \E c \in Customers : SyncLands(e, c)
               \/ \E w \in Workers : BeginDuplicate(w, e) \/ BeginStarted(w, e) \/ BeginLost(w, e)
        PROVE  UNCHANGED <<lead, sheet, lateSheet>>
    BY <1>7 DEF SyncLands, ExpireLease, BeginDuplicate, BeginStarted, BeginLost, effects
  <1> QED
    BY <1>1, <1>2, <1>3, <1>4, <1>5, <1>6, <1>7
    DEF Next, Deliver, Proceed, GoWrong, vars

-----------------------------------------------------------------------------
(* How a row may change.                                                   *)

(* One row is written at a time; the holder of the current lease settles   *)
(* it, or nothing settles it; a completed row is never written again.      *)
SettledByHolder ==
  /\ \E e : \A d \in Events \ {e} : row'[d] = row[d]
  /\ \A e \in Events :
       /\ row[e].status = "completed" => row'[e] = row[e]
       /\ row[e].status # row'[e].status /\ row'[e].status \in {"completed", "failed"} =>
            /\ row[e].status = "processing"
            /\ \E w \in Workers :
                 /\ Event(w) = e
                 /\ job[w].token = row[e].token
                 /\ At(w, IF row'[e].status = "completed" THEN "complete" ELSE "fail")

LEMMA NextSettles == TypeOK /\ Progress /\ [Next]_vars => SettledByHolder
PROOF
  <1> SUFFICES ASSUME TypeOK, Progress, [Next]_vars
               PROVE  SettledByHolder
    OBVIOUS
  <1>1. CASE UNCHANGED row
    BY <1>1 DEF SettledByHolder
  <1>2. ASSUME NEW e \in Events, NEW t, StartLease(e, t)
        PROVE  SettledByHolder
    BY <1>2 DEF StartLease, Startable, WriteRow, SettledByHolder, TypeOK
  <1>3. ASSUME NEW w \in Workers, At(w, "complete"), CompleteLease(Event(w), job[w].token)
        PROVE  SettledByHolder
    BY <1>3 DEF CompleteLease, HoldsLease, WriteRow, SettledByHolder, At, TypeOK
  <1>4. ASSUME NEW w \in Workers, At(w, "fail"), NEW c, FailLease(Event(w), job[w].token, c)
        PROVE  SettledByHolder
    BY <1>4 DEF FailLease, HoldsLease, WriteRow, SettledByHolder, At, TypeOK
  <1>5. ASSUME NEW e \in Events, PassLeaseInterval(e)
        PROVE  SettledByHolder
    BY <1>5 DEF PassLeaseInterval, WriteRow, SettledByHolder, TypeOK
  <1>6. ASSUME NEW e \in Events, NEW w \in Workers, BeginStarted(w, e) \/ BeginLost(w, e)
        PROVE  SettledByHolder
    BY <1>2, <1>6 DEF BeginStarted, BeginLost
  <1>7. ASSUME NEW w \in Workers, Complete(w) \/ CompleteError(w)
        PROVE  SettledByHolder
    BY <1>1, <1>3, <1>7 DEF Complete, CompleteError
  <1>8. ASSUME NEW w \in Workers, Fail(w)
        PROVE  SettledByHolder
    BY <1>4, <1>8 DEF Fail
  <1>9. ASSUME NEW w \in Workers,
               \/ UpsertCustomer(w) \/ UpsertConflict(w) \/ UpsertError(w)
               \/ SyncCustomer(w) \/ SyncTimeout(w) \/ AppendLead(w) \/ AppendTimeout(w)
               \/ CreateLead(w) \/ LeadError(w)
               \/ CompleteLeaseLost(w) \/ FailLeaseLost(w) \/ FailError(w)
               \/ \E error \in AdapterErrors : SyncError(w, error) \/ AppendError(w, error)
        PROVE  UNCHANGED row
    BY <1>9 DEF UpsertCustomer, UpsertConflict, UpsertError, SyncCustomer, SyncTimeout,
                SyncError, AppendLead, AppendTimeout, AppendError, CreateLead, LeadError,
                CompleteLeaseLost, FailLeaseLost, FailError
  <1>10. ASSUME NEW e \in Events,
                \/ AppendLands(e)
                \/ \E c \in Customers : SyncLands(e, c)
                \/ \E w \in Workers : BeginDuplicate(w, e)
         PROVE  UNCHANGED row
    BY <1>10 DEF AppendLands, SyncLands, BeginDuplicate
  <1>11. ASSUME NEW e \in Events, ExpireLease(e)
         PROVE  SettledByHolder
    BY <1>5, <1>11 DEF ExpireLease
  <1>12. ASSUME NEW W \in (SUBSET Workers) \ {{}}, Crash(W)
         PROVE  UNCHANGED row
    BY <1>12 DEF Crash
  <1> QED
    BY <1>1, <1>6, <1>7, <1>8, <1>9, <1>10, <1>11, <1>12
    DEF Next, Deliver, Proceed, GoWrong, vars

LEMMA CompletedStep ==
  ASSUME TypeOK, TypeOK', Progress, NoEffectOutOfOrder, NoEffectOutOfOrder',
         CompletedHasEffects, [Next]_vars
  PROVE  CompletedHasEffects'
PROOF
  <1> SUFFICES ASSUME NEW e \in Events, row'[e].status = "completed"
               PROVE  /\ crm'[e] # {}
                      /\ IF e \in Bookable THEN lead'[e] # NoLead /\ sheet'[e] > 0
                                           ELSE lead'[e] = NoLead
    BY DEF CompletedHasEffects
  <1>1. Grows /\ SettledByHolder
    BY NextGrows, NextSettles
  <1>2. crm[e] # {} /\ (e \in Bookable => lead[e] # NoLead /\ sheet[e] > 0)
    <2>1. CASE row[e].status = "completed"
      BY <2>1 DEF CompletedHasEffects
    <2>2. CASE row[e].status # "completed"
      <3>1. PICK w \in Workers : Event(w) = e /\ At(w, "complete")
        BY <1>1, <2>2 DEF SettledByHolder
      <3> QED
        BY <3>1 DEF Progress, Ready, At
    <2> QED
      BY <2>1, <2>2
  <1>3. crm'[e] # {} /\ (e \in Bookable => lead'[e] # NoLead /\ sheet'[e] > 0)
    BY <1>1, <1>2 DEF Grows, TypeOK
  <1>4. e \notin Bookable => lead'[e] = NoLead
    BY DEF NoEffectOutOfOrder
  <1> QED
    BY <1>3, <1>4

(* Every result but `duplicate' is returned by a step that completes the   *)
(* event.                                                                  *)
AnsweredByHolder ==
  \A e \in Events : \A r \in replies'[e] :
    \/ r \in replies[e]
    \/ r.status = "duplicate"
    \/ /\ row'[e].status = "completed"
       /\ \E w \in Workers : At(w, "complete") /\ Event(w) = e /\ r.customer = job[w].customer
       /\ r.status = (IF e \in Bookable THEN "created" ELSE "needs_confirmation")

LEMMA NextAnswers == TypeOK /\ Progress /\ [Next]_vars => AnsweredByHolder
PROOF
  <1> SUFFICES ASSUME TypeOK, Progress, [Next]_vars
               PROVE  AnsweredByHolder
    OBVIOUS
  <1>1. CASE UNCHANGED replies
    BY <1>1 DEF AnsweredByHolder
  <1>2. ASSUME NEW e \in Events, NEW w \in Workers, BeginDuplicate(w, e)
        PROVE  AnsweredByHolder
    BY <1>2 DEF BeginDuplicate, Reply, AnsweredByHolder, TypeOK
  <1>3. ASSUME NEW w \in Workers, Complete(w)
        PROVE  AnsweredByHolder
    <2>1. Event(w) \in Events
      BY <1>3 DEF Complete, At, Progress, Ready
    <2>2. row'[Event(w)].status = "completed" /\ At(w, "complete")
      BY <1>3, <2>1 DEF Complete, CompleteLease, WriteRow, TypeOK
    <2> QED
      BY <1>3, <2>1, <2>2 DEF Complete, Reply, AnsweredByHolder, TypeOK
  <1>4. ASSUME NEW w \in Workers,
               \/ UpsertCustomer(w) \/ UpsertConflict(w) \/ UpsertError(w)
               \/ SyncCustomer(w) \/ SyncTimeout(w) \/ AppendLead(w) \/ AppendTimeout(w)
               \/ CreateLead(w) \/ LeadError(w) \/ CompleteLeaseLost(w) \/ CompleteError(w)
               \/ Fail(w) \/ FailLeaseLost(w) \/ FailError(w)
               \/ \E error \in AdapterErrors : SyncError(w, error) \/ AppendError(w, error)
        PROVE  UNCHANGED replies
    BY <1>4 DEF UpsertCustomer, UpsertConflict, UpsertError, SyncCustomer, SyncTimeout,
                SyncError, AppendLead, AppendTimeout, AppendError, CreateLead, LeadError,
                CompleteLeaseLost, CompleteError, Fail, FailLeaseLost, FailError
  <1>5. ASSUME NEW e \in Events,
               \/ AppendLands(e) \/ ExpireLease(e)
               \/ \E c \in Customers : SyncLands(e, c)
               \/ \E w \in Workers : BeginStarted(w, e) \/ BeginLost(w, e)
        PROVE  UNCHANGED replies
    BY <1>5 DEF AppendLands, ExpireLease, SyncLands, BeginStarted, BeginLost
  <1>6. ASSUME NEW W \in (SUBSET Workers) \ {{}}, Crash(W)
        PROVE  UNCHANGED replies
    BY <1>6 DEF Crash
  <1> QED
    BY <1>1, <1>2, <1>3, <1>4, <1>5, <1>6 DEF Next, Deliver, Proceed, GoWrong, vars

LEMMA AnswersStep ==
  ASSUME TypeOK, TypeOK', Progress, EffectsBelongToSender, NoEffectOutOfOrder',
         CompletedHasEffects, AnswersMatchRecords, [Next]_vars
  PROVE  AnswersMatchRecords'
PROOF
  <1> SUFFICES ASSUME NEW e \in Events, NEW r \in replies'[e], r.status # "duplicate"
               PROVE  /\ row'[e].status = "completed"
                      /\ \A i \in IdentitiesOf[e] : owner'[i] = r.customer
                      /\ lead'[e] = (IF r.status = "created" THEN r.customer ELSE NoLead)
    BY DEF AnswersMatchRecords
  <1>1. Grows /\ SettledByHolder /\ AnsweredByHolder
    BY NextGrows, NextSettles, NextAnswers
  <1>2. PICK j \in Identities : j \in IdentitiesOf[e]
    BY PipelineAssumption
  <1>3. IdentitiesOf[e] \in SUBSET Identities
    BY PipelineAssumption
  <1>4. CASE r \in replies[e]
    <2>1. /\ row[e].status = "completed"
          /\ \A i \in IdentitiesOf[e] : owner[i] = r.customer
          /\ lead[e] = (IF r.status = "created" THEN r.customer ELSE NoLead)
      BY <1>4 DEF AnswersMatchRecords
    <2>2. PICK c \in Customers : c \in About(e)
      BY <2>1, NoCustomerAssumption DEF CompletedHasEffects, About, NoLead, TypeOK
    <2>3. r.customer = c /\ c # NoCustomer
      BY <1>2, <2>1, <2>2, NoCustomerAssumption DEF EffectsBelongToSender
    <2>4. \A i \in IdentitiesOf[e] : owner'[i] = r.customer
      BY <1>1, <1>3, <2>1, <2>3 DEF Grows
    <2>5. row'[e].status = "completed"
      BY <1>1, <2>1 DEF SettledByHolder
    <2>6. CASE r.status = "created"
      BY <1>1, <2>1, <2>3, <2>4, <2>5, <2>6 DEF Grows, NoLead
    <2>7. CASE r.status # "created"
      <3>1. e \notin Bookable
        BY <2>1, <2>7 DEF CompletedHasEffects
      <3> QED
        BY <2>4, <2>5, <2>7, <3>1 DEF NoEffectOutOfOrder
    <2> QED
      BY <2>6, <2>7
  <1>5. CASE r \notin replies[e]
    <2>1. /\ row'[e].status = "completed"
          /\ r.status = (IF e \in Bookable THEN "created" ELSE "needs_confirmation")
      BY <1>1, <1>5 DEF AnsweredByHolder
    <2>2. PICK w \in Workers : At(w, "complete") /\ Event(w) = e /\ r.customer = job[w].customer
      BY <1>1, <1>5 DEF AnsweredByHolder
    <2>3. /\ r.customer # NoCustomer
          /\ \A i \in IdentitiesOf[e] : owner[i] = r.customer
          /\ e \in Bookable => lead[e] # NoLead
      BY <2>2, NoCustomerAssumption DEF Progress, Ready, At
    <2>4. \A i \in IdentitiesOf[e] : owner'[i] = r.customer
      BY <1>1, <1>3, <2>3 DEF Grows
    <2>5. CASE e \in Bookable
      <3>1. lead[e] = r.customer
        BY <1>2, <2>3, <2>5 DEF EffectsBelongToSender, About
      <3> QED
        BY <1>1, <2>1, <2>3, <2>4, <2>5, <3>1 DEF Grows, NoLead
    <2>6. CASE e \notin Bookable
      BY <2>1, <2>4, <2>6 DEF NoEffectOutOfOrder
    <2> QED
      BY <2>5, <2>6
  <1> QED
    BY <1>4, <1>5

-----------------------------------------------------------------------------
(* The inductive invariant, and what follows from it.                      *)

IInv ==
  /\ TypeOK
  /\ Progress
  /\ OneLeaseHolder
  /\ EffectsBelongToSender
  /\ NoEffectOutOfOrder
  /\ CompletedHasEffects
  /\ AnswersMatchRecords

LEMMA IInvInit == Init => IInv
PROOF
  <1> SUFFICES ASSUME Init
               PROVE  IInv
    OBVIOUS
  <1>1. TypeOK
    BY TypeInit
  <1>2. \A w \in Workers : pc[w] = "idle" /\ job[w].token = NoToken
    BY DEF Init, NoJob
  <1>3. \A e \in Events :
          /\ row[e].status = "absent" /\ row[e].token = NoToken
          /\ crm[e] = {} /\ lateCrm[e] = {} /\ lead[e] = NoLead
          /\ sheet[e] = 0 /\ lateSheet[e] = 0 /\ replies[e] = {}
    BY DEF Init, EventsInit, NoRow
  <1>4. Progress /\ OneLeaseHolder
    BY <1>2, <1>3 DEF Progress, Ready, At, OneLeaseHolder
  <1>5. EffectsBelongToSender /\ NoEffectOutOfOrder
    BY <1>3 DEF EffectsBelongToSender, About, NoEffectOutOfOrder
  <1>6. CompletedHasEffects /\ AnswersMatchRecords
    BY <1>3 DEF CompletedHasEffects, AnswersMatchRecords
  <1> QED
    BY <1>1, <1>4, <1>5, <1>6 DEF IInv

LEMMA IInvStep == IInv /\ [Next]_vars => IInv'
PROOF
  <1> SUFFICES ASSUME IInv, [Next]_vars
               PROVE  IInv'
    OBVIOUS
  <1> USE DEF IInv
  <1>1. TypeOK'
    BY TypeStep
  <1>2. Progress'
    BY <1>1, ProgressStep
  <1>3. OneLeaseHolder'
    BY LeaseStep
  <1>4. EffectsBelongToSender'
    BY NextGrows, NextSourced, SourcedEffectsBelong
  <1>5. NoEffectOutOfOrder'
    BY <1>1, OrderStep
  <1>6. CompletedHasEffects'
    BY <1>1, <1>5, CompletedStep
  <1>7. AnswersMatchRecords'
    BY <1>1, <1>5, AnswersStep
  <1> QED
    BY <1>1, <1>2, <1>3, <1>4, <1>5, <1>6, <1>7

(* The invariant is inductive.                                            *)
LEMMA Invariance == Spec => []IInv
PROOF
  BY IInvInit, IInvStep, PTL DEF Spec

(* Every variable stays in its type.                                       *)
THEOREM TypeCorrect == Spec => []TypeOK
PROOF
  <1>1. IInv => TypeOK
    BY DEF IInv
  <1> QED
    BY <1>1, Invariance, PTL

(* An invocation can rely after an await on what it did and read before.   *)
THEOREM ProgressHolds == Spec => []Progress
PROOF
  <1>1. IInv => Progress
    BY DEF IInv
  <1> QED
    BY <1>1, Invariance, PTL

(* A lease token is never known to two invocations.                        *)
THEOREM LeaseSafety == Spec => []OneLeaseHolder
PROOF
  <1>1. IInv => OneLeaseHolder
    BY DEF IInv
  <1> QED
    BY <1>1, Invariance, PTL

(* The effects of an event come in order, and a completed event has them   *)
(* all, however it came to be completed.                                   *)
THEOREM Completeness == Spec => []EffectsInOrder
PROOF
  <1>1. IInv => EffectsInOrder
    BY DEF IInv, EffectsInOrder
  <1> QED
    BY <1>1, Invariance, PTL

(* What is stored or sent for an event is about the customer who owns the  *)
(* sender's identities.                                                    *)
THEOREM EffectsSafety == Spec => []EffectsBelongToSender
PROOF
  <1>1. IInv => EffectsBelongToSender
    BY DEF IInv
  <1> QED
    BY <1>1, Invariance, PTL

(* A result, once returned, agrees with the tables for good.               *)
THEOREM AnswersSafety == Spec => []AnswersMatchRecords
PROOF
  <1>1. IInv => AnswersMatchRecords
    BY DEF IInv
  <1> QED
    BY <1>1, Invariance, PTL

(* An invocation that lost its lease never completes or fails the event.   *)
THEOREM FencingHolds == Spec => Fencing
PROOF
  <1>1. IInv /\ [Next]_vars =>
          [\A e \in Events :
             row[e].status = "processing" /\ row'[e].status \in {"completed", "failed"} =>
               \E w \in Workers :
                 /\ Event(w) = e
                 /\ job[w].token = row[e].token
                 /\ pc[w] \in {"complete", "fail"}]_vars
    BY NextSettles DEF IInv, SettledByHolder, At
  <1> QED
    BY <1>1, Invariance, PTL DEF Spec, Fencing

(* A completed event is never reopened, a stored lead never changed, and   *)
(* an identity never changes hands.                                        *)
THEOREM RecordsFinalHold == Spec => RecordsFinal
PROOF
  <1>1. IInv /\ [Next]_vars =>
          [\A e \in Events :
             /\ row[e].status = "completed" => row'[e] = row[e]
             /\ lead[e] # NoLead => lead'[e] = lead[e]]_vars
    BY NextSettles, NextGrows DEF IInv, SettledByHolder, Grows
  <1>2. IInv /\ [Next]_vars =>
          [\A i \in Identities : owner[i] # NoCustomer => owner'[i] = owner[i]]_vars
    BY NextGrows DEF IInv, Grows
  <1> QED
    BY <1>1, <1>2, Invariance, PTL DEF Spec, RecordsFinal, FinalOutcome, IdentityNeverMoves

-----------------------------------------------------------------------------
(* The pipeline implements the ledger: every step is a ledger step or      *)
(* leaves the ledger alone.                                                *)

LEMMA LedgerStep ==
  ASSUME IInv, IInv', [Next]_vars
  PROVE  [LedgerView!LedgerNext]_(LedgerView!ledger)
PROOF
  <1> DEFINE done == {e \in Events : row[e].status = "completed"}
  <1> USE DEF IInv
  <1>0. SettledByHolder
    BY NextSettles
  <1>1. ASSUME NEW e \in Events, NEW c \in Customers, AddCrm(e, c),
               \A i \in IdentitiesOf[e] : owner[i] = c,
               UNCHANGED <<row, lead, sheet>>
        PROVE  LedgerView!LedgerNext
    <2>1. crm[e] \subseteq {c}
      <3>1. PICK j \in Identities : j \in IdentitiesOf[e]
        BY PipelineAssumption
      <3> QED
        BY <1>1, <3>1, NoCustomerAssumption DEF EffectsBelongToSender, About, NoLead, TypeOK
    <2>2. crm' = [crm EXCEPT ![e] = {c}]
      BY <1>1, <2>1 DEF AddCrm, TypeOK
    <2>3. LedgerView!Tell(e, c)
      BY <1>1, <2>1, <2>2 DEF LedgerView!Tell
    <2> QED
      BY <2>3 DEF LedgerView!LedgerNext
  <1>2. ASSUME NEW e \in Events, AddSheet(e), lead[e] # NoLead, UNCHANGED <<row, crm, lead>>
        PROVE  LedgerView!LedgerNext
    BY <1>2 DEF AddSheet, NoLead, LedgerView!List, LedgerView!LedgerNext
  <1>3. ASSUME NEW e \in Events, NEW c \in crm[e], e \in Bookable,
               StoreLead(e, c), UNCHANGED <<row, crm, sheet>>
        PROVE  [LedgerView!LedgerNext]_(LedgerView!ledger)
    <2>1. CASE lead[e] = NoLead
      <3>1. lead' = [lead EXCEPT ![e] = c]
        BY <1>3, <2>1 DEF StoreLead
      <3> QED
        BY <1>3, <2>1, <3>1 DEF NoLead, LedgerView!Book, LedgerView!LedgerNext
    <2>2. CASE lead[e] # NoLead
      <3>1. lead' = lead
        BY <1>3, <2>2 DEF StoreLead, TypeOK
      <3> QED
        BY <1>3, <3>1 DEF LedgerView!ledger
    <2> QED
      BY <2>1, <2>2
  <1>4. ASSUME UNCHANGED <<crm, lead, sheet>>
        PROVE  [LedgerView!LedgerNext]_(LedgerView!ledger)
    <2>1. CASE done' = done
      BY <1>4, <2>1 DEF LedgerView!ledger
    <2>2. CASE done' # done
      <3>1. \A e \in Events : row[e].status = "completed" => row'[e].status = "completed"
        BY <1>0 DEF SettledByHolder
      <3>2. PICK e \in Events : row[e].status # "completed" /\ row'[e].status = "completed"
        BY <2>2, <3>1
      <3>3. /\ crm[e] # {}
            /\ e \in Bookable => lead[e] # NoLead /\ sheet[e] > 0
        BY <1>0, <3>2 DEF SettledByHolder, Progress, Ready, At
      <3>4. \A d \in Events \ {e} : row'[d].status = "completed" => row[d].status = "completed"
        BY <1>0, <3>2 DEF SettledByHolder
      <3>5. done' = done \cup {e} /\ e \notin done
        BY <3>1, <3>2, <3>4
      <3> QED
        BY <1>4, <3>3, <3>5 DEF NoLead, LedgerView!Close, LedgerView!LedgerNext
    <2> QED
      BY <2>1, <2>2
  <1>5. CASE UNCHANGED vars
    BY <1>4, <1>5 DEF vars
  <1>6. ASSUME NEW w \in Workers, SyncCustomer(w) \/ \E error \in AdapterErrors : SyncError(w, error)
        PROVE  [LedgerView!LedgerNext]_(LedgerView!ledger)
    <2>1. /\ Event(w) \in Events /\ job[w].customer \in Customers
          /\ \A i \in IdentitiesOf[Event(w)] : owner[i] = job[w].customer
      BY <1>6 DEF SyncCustomer, SyncError, At, Progress, Ready
    <2>2. UNCHANGED <<row, lead, sheet>> /\ (UNCHANGED crm \/ AddCrm(Event(w), job[w].customer))
      BY <1>6 DEF SyncCustomer, SyncError
    <2> QED
      BY <1>1, <1>4, <2>1, <2>2
  <1>7. ASSUME NEW w \in Workers, AppendLead(w) \/ \E error \in AdapterErrors : AppendError(w, error)
        PROVE  [LedgerView!LedgerNext]_(LedgerView!ledger)
    <2>1. Event(w) \in Events /\ lead[Event(w)] # NoLead
      BY <1>7 DEF AppendLead, AppendError, At, Progress, Ready
    <2>2. UNCHANGED <<row, crm, lead>> /\ (UNCHANGED sheet \/ AddSheet(Event(w)))
      BY <1>7 DEF AppendLead, AppendError
    <2> QED
      BY <1>2, <1>4, <2>1, <2>2
  <1>8. ASSUME NEW w \in Workers, CreateLead(w) \/ LeadError(w)
        PROVE  [LedgerView!LedgerNext]_(LedgerView!ledger)
    <2>1. Event(w) \in Events /\ Event(w) \in Bookable /\ job[w].customer \in crm[Event(w)]
      BY <1>8 DEF CreateLead, LeadError, At, Progress, Ready
    <2>2. UNCHANGED <<row, crm, sheet>> /\ (UNCHANGED lead \/ StoreLead(Event(w), job[w].customer))
      BY <1>8 DEF CreateLead, LeadError
    <2> QED
      BY <1>3, <1>4, <2>1, <2>2
  <1>9. ASSUME NEW e \in Events, NEW c \in Customers, SyncLands(e, c)
        PROVE  [LedgerView!LedgerNext]_(LedgerView!ledger)
    <2>1. c \in About(e)
      BY <1>9, NoCustomerAssumption DEF SyncLands, About, NoLead
    <2> QED
      BY <1>1, <1>9, <2>1 DEF SyncLands, EffectsBelongToSender
  <1>10. ASSUME NEW e \in Events, AppendLands(e)
         PROVE  [LedgerView!LedgerNext]_(LedgerView!ledger)
    <2>1. lead[e] # NoLead
      BY <1>10 DEF AppendLands, NoEffectOutOfOrder, TypeOK
    <2> QED
      BY <1>2, <1>10, <2>1 DEF AppendLands
  <1>11. ASSUME NEW w \in Workers,
                \/ UpsertCustomer(w) \/ UpsertConflict(w) \/ UpsertError(w)
                \/ SyncTimeout(w) \/ AppendTimeout(w)
                \/ Complete(w) \/ CompleteLeaseLost(w) \/ CompleteError(w)
                \/ Fail(w) \/ FailLeaseLost(w) \/ FailError(w)
         PROVE  UNCHANGED <<crm, lead, sheet>>
    BY <1>11 DEF UpsertCustomer, UpsertConflict, UpsertError, SyncTimeout, AppendTimeout,
                 Complete, CompleteLeaseLost, CompleteError, Fail, FailLeaseLost, FailError,
                 effects
  <1>12. ASSUME NEW e \in Events,
                \/ ExpireLease(e)
                \/ \E w \in Workers : BeginDuplicate(w, e) \/ BeginStarted(w, e) \/ BeginLost(w, e)
         PROVE  UNCHANGED <<crm, lead, sheet>>
    BY <1>12 DEF ExpireLease, BeginDuplicate, BeginStarted, BeginLost, effects
  <1>13. ASSUME NEW W \in (SUBSET Workers) \ {{}}, Crash(W)
         PROVE  UNCHANGED <<crm, lead, sheet>>
    BY <1>13 DEF Crash
  <1> QED
    BY <1>4, <1>5, <1>6, <1>7, <1>8, <1>9, <1>10, <1>11, <1>12, <1>13
    DEF Next, Deliver, Proceed, GoWrong

(* Whatever retries, takeovers, crashes and late calls there are, the      *)
(* pipeline leaves behind only what BookingLedger allows.                  *)
THEOREM ImplementsLedger == Spec => Ledger
PROOF
  <1>1. Init => LedgerView!LedgerInit
    BY DEF Init, EventsInit, NoRow, NoLead, LedgerView!LedgerInit
  <1>2. IInv /\ IInv' /\ [Next]_vars => [LedgerView!LedgerNext]_(LedgerView!ledger)
    BY LedgerStep
  <1> QED
    BY <1>1, <1>2, Invariance, PTL DEF Spec, Ledger, LedgerView!LedgerSpec

-----------------------------------------------------------------------------
(* Why Sheets gets at most one row per event more than there were faults.  *)
(*                                                                         *)
(* SheetRowsExplained is not inductive: a second invocation on its way to  *)
(* Sheets, or an event that may be started again, is a row to come that it *)
(* does not count.  The budget below counts them.                          *)

(* The awaits before the append has returned, and those of a live attempt. *)
Before == {"customer", "crm", "lead", "sheet"}
Working == Before \cup {"complete"}

(* The invocations that may still append a row for e.                      *)
Pending(e) == {w \in Workers : Event(w) = e /\ pc[w] \in Before}

(* w works on e under the current lease.                                   *)
Holds(w, e) == Event(w) = e /\ job[w].token = row[e].token /\ pc[w] \in Working

(* e may be started once more without a further fault.                     *)
Reopenable(e) ==
  \/ Startable(e)
  \/ row[e].status = "processing" /\ \A w \in Workers : ~Holds(w, e)

Used(e) == sheet[e] + lateSheet[e]
Coming(e) == Cardinality(Pending(e))
Reopening(e) == IF Reopenable(e) THEN 1 ELSE 0

Budget == \A e \in Events : Used(e) + Coming(e) + Reopening(e) <= 1 + faults

-----------------------------------------------------------------------------
LEMMA Numbers ==
  ASSUME TypeOK, NEW e \in Events
  PROVE  /\ IsFiniteSet(Pending(e))
         /\ Used(e) \in Nat /\ Coming(e) \in Nat /\ Reopening(e) \in 0..1
         /\ faults \in Nat
PROOF
  <1>1. IsFiniteSet(Pending(e))
    <2>1. Pending(e) \in SUBSET Workers
      BY DEF Pending
    <2> QED
      BY <2>1, FS_Subset, TokensAssumption
  <1>2. Coming(e) \in Nat
    BY <1>1, FS_CardinalityType DEF Coming
  <1>3. Used(e) \in Nat /\ Reopening(e) \in 0..1 /\ faults \in Nat
    BY PipelineAssumption DEF TypeOK, Used, Reopening
  <1> QED
    BY <1>1, <1>2, <1>3

LEMMA NumbersNext ==
  ASSUME TypeOK', NEW e \in Events
  PROVE  /\ IsFiniteSet(Pending(e)')
         /\ Used(e)' \in Nat /\ Coming(e)' \in Nat /\ Reopening(e)' \in 0..1
         /\ faults' \in Nat
PROOF
  <1>1. IsFiniteSet(Pending(e)')
    <2>1. Pending(e)' \in SUBSET Workers
      BY DEF Pending
    <2> QED
      BY <2>1, FS_Subset, TokensAssumption
  <1>2. Coming(e)' \in Nat
    BY <1>1, FS_CardinalityType DEF Coming
  <1>3. Used(e)' \in Nat /\ Reopening(e)' \in 0..1 /\ faults' \in Nat
    BY PipelineAssumption DEF TypeOK, Used, Reopening
  <1> QED
    BY <1>1, <1>2, <1>3

LEMMA NoneComes ==
  ASSUME TypeOK, TypeOK', NEW e \in Events, Pending(e)' \subseteq Pending(e)
  PROVE  Coming(e)' <= Coming(e)
PROOF
  BY Numbers, FS_Subset DEF Coming

LEMMA OneGoes ==
  ASSUME TypeOK, TypeOK', NEW e \in Events, NEW w \in Pending(e),
         Pending(e)' \subseteq Pending(e) \ {w}
  PROVE  Coming(e)' <= Coming(e) - 1
PROOF
  <1>1. /\ IsFiniteSet(Pending(e) \ {w})
        /\ Cardinality(Pending(e) \ {w}) = Cardinality(Pending(e)) - 1
    BY Numbers, FS_RemoveElement
  <1>2. Cardinality(Pending(e)') <= Cardinality(Pending(e) \ {w})
    BY <1>1, FS_Subset
  <1> QED
    BY <1>1, <1>2 DEF Coming

LEMMA OneComes ==
  ASSUME TypeOK, TypeOK', NEW e \in Events, NEW w, Pending(e)' \subseteq Pending(e) \cup {w}
  PROVE  Coming(e)' <= Coming(e) + 1
PROOF
  <1>1. IsFiniteSet(Pending(e)) /\ Cardinality(Pending(e)) \in Nat
    BY Numbers, FS_CardinalityType
  <1>2. /\ IsFiniteSet(Pending(e) \cup {w})
        /\ Cardinality(Pending(e) \cup {w}) =
             IF w \in Pending(e) THEN Cardinality(Pending(e)) ELSE Cardinality(Pending(e)) + 1
    BY <1>1, FS_AddElement
  <1>3. Pending(e)' \in SUBSET (Pending(e) \cup {w})
    OBVIOUS
  <1>4. /\ Cardinality(Pending(e)') \in Nat
        /\ Cardinality(Pending(e)') <= Cardinality(Pending(e) \cup {w})
    BY <1>2, <1>3, FS_Subset, FS_CardinalityType
  <1>5. Cardinality(Pending(e)') <= Cardinality(Pending(e)) + 1
    BY <1>1, <1>2, <1>4
  <1> QED
    BY <1>5 DEF Coming

(* A step that writes no row reopens no event that its invocation does not *)
(* work on, and brings no invocation back before its append.               *)
LEMMA Elsewhere ==
  ASSUME NEW w \in Workers, Moves(w), NEW e \in Events, row'[e] = row[e],
         ~(Event(w) = e /\ pc[w] \in Working), ~(Event(w)' = e /\ pc'[w] \in Working)
  PROVE  Pending(e)' = Pending(e) /\ Reopening(e)' = Reopening(e)
PROOF
  <1>1. \A v \in Workers \ {w} : Event(v)' = Event(v) /\ pc'[v] = pc[v] /\ job'[v] = job[v]
    BY DEF Moves, Event
  <1>2. Pending(e)' = Pending(e)
    BY <1>1 DEF Pending, Working
  <1>3. \A v \in Workers : Holds(v, e)' <=> Holds(v, e)
    BY <1>1 DEF Holds
  <1> QED
    BY <1>2, <1>3 DEF Reopening, Reopenable, Startable

(* An invocation that goes on working leaves the event closed to others.   *)
LEMMA GoesOn ==
  ASSUME NEW w \in Workers, Moves(w), pc[w] \in Working, pc'[w] \in Working,
         job'[w].event = job[w].event, job'[w].token = job[w].token,
         NEW e \in Events, row'[e] = row[e]
  PROVE  Reopening(e)' = Reopening(e)
PROOF
  <1>1. \A v \in Workers : Holds(v, e)' <=> Holds(v, e)
    BY DEF Holds, Moves, Event
  <1> QED
    BY <1>1 DEF Reopening, Reopenable, Startable

-----------------------------------------------------------------------------
(* The budget grows by no more than the faults do.                         *)

Affords(e) ==
  Used(e)' + Coming(e)' + Reopening(e)' + faults
    <= Used(e) + Coming(e) + Reopening(e) + faults'

(* A fault may reopen an event, or append a row, or stop an append.        *)
LEMMA FaultAffords ==
  ASSUME TypeOK, TypeOK', NEW e \in Events, faults' = faults + 1,
         \/ Used(e)' = Used(e) /\ Coming(e)' <= Coming(e)
         \/ Used(e)' = Used(e) + 1 /\ Coming(e)' <= Coming(e) - 1
         \/ Used(e)' = Used(e) + 1 /\ Coming(e)' <= Coming(e) /\ Reopening(e)' = Reopening(e)
  PROVE  Affords(e)
PROOF
  <1>1. /\ Used(e) \in Nat /\ Coming(e) \in Nat /\ Reopening(e) \in 0..1 /\ faults \in Nat
    BY Numbers
  <1>2. /\ Used(e)' \in Nat /\ Coming(e)' \in Nat /\ Reopening(e)' \in 0..1 /\ faults' \in Nat
    BY NumbersNext
  <1> QED
    BY <1>1, <1>2 DEF Affords

(* Without a fault, what is gained in one term is lost in another.         *)
LEMMA ShiftAffords ==
  ASSUME TypeOK, TypeOK', NEW e \in Events, faults' = faults,
         \/ Used(e)' = Used(e) /\ Coming(e)' <= Coming(e) /\ Reopening(e)' <= Reopening(e)
         \/ Used(e)' = Used(e) /\ Coming(e)' <= Coming(e) - 1
         \/ Used(e)' = Used(e) /\ Coming(e)' <= Coming(e) + 1
              /\ Reopening(e) = 1 /\ Reopening(e)' = 0
         \/ Used(e)' = Used(e) + 1 /\ Coming(e)' <= Coming(e) - 1
              /\ Reopening(e)' = Reopening(e)
  PROVE  Affords(e)
PROOF
  <1>1. /\ Used(e) \in Nat /\ Coming(e) \in Nat /\ Reopening(e) \in 0..1 /\ faults \in Nat
    BY Numbers
  <1>2. /\ Used(e)' \in Nat /\ Coming(e)' \in Nat /\ Reopening(e)' \in 0..1 /\ faults' \in Nat
    BY NumbersNext
  <1> QED
    BY <1>1, <1>2 DEF Affords

LEMMA Stops ==
  ASSUME NEW w \in Workers, Moves(w), pc'[w] \notin Before, NEW e \in Events
  PROVE  Pending(e)' \subseteq Pending(e) \ {w}
PROOF
  BY DEF Moves, Pending, Event

LEMMA Stays ==
  ASSUME NEW w \in Workers, Moves(w), job'[w].event = job[w].event, pc[w] \in Before,
         NEW e \in Events
  PROVE  Pending(e)' \subseteq Pending(e)
PROOF
  BY DEF Moves, Pending, Event

(* An event whose row and whose Sheets rows a step leaves alone, and that  *)
(* the step's invocation was not working on and will not work on.          *)
LEMMA ElsewhereAffords ==
  ASSUME TypeOK, TypeOK', NEW w \in Workers, Moves(w), NEW e \in Events, row'[e] = row[e],
         ~(Event(w) = e /\ pc[w] \in Working), ~(Event(w)' = e /\ pc'[w] \in Working),
         Used(e)' = Used(e), faults' = faults \/ faults' = faults + 1
  PROVE  Affords(e)
PROOF
  <1>1. Coming(e)' = Coming(e) /\ Reopening(e)' = Reopening(e)
    BY Elsewhere DEF Coming
  <1>2. Coming(e) \in Nat /\ Reopening(e) \in 0..1
    BY Numbers
  <1> QED
    BY <1>1, <1>2, ShiftAffords, FaultAffords

LEMMA BeginsAfford ==
  ASSUME TypeOK, TypeOK', NEW w \in Workers, NEW e \in Events, NEW d \in Events,
         BeginStarted(w, d) \/ BeginLost(w, d)
  PROVE  Affords(e)
PROOF
  <1>1. Moves(w) /\ Used(e)' = Used(e) /\ pc[w] = "idle"
    <2>1. CASE BeginStarted(w, d)
      BY <2>1 DEF BeginStarted, Moves, effects, Used, At, TypeOK
    <2>2. CASE BeginLost(w, d)
      BY <2>2 DEF BeginLost, Moves, invocation, effects, Used, At, TypeOK
    <2> QED
      BY <2>1, <2>2
  <1>2. CASE e # d
    <2>1. row'[e] = row[e]
      BY <1>2 DEF BeginStarted, BeginLost, StartLease, WriteRow, TypeOK
    <2>2. ~(Event(w) = e /\ pc[w] \in Working) /\ ~(Event(w)' = e /\ pc'[w] \in Working)
      BY <1>1, <1>2 DEF Working, Before, BeginStarted, BeginLost, invocation, Event, TypeOK
    <2>3. faults' = faults \/ faults' = faults + 1
      BY DEF BeginStarted, BeginLost, Fault
    <2> QED
      BY <1>1, <2>1, <2>2, <2>3, ElsewhereAffords
  <1>3. CASE e = d /\ BeginStarted(w, e)
    <2>1. Reopening(e) = 1
      BY <1>3 DEF BeginStarted, StartLease, Reopening, Reopenable
    <2>2. /\ row'[e].status = "processing" /\ row'[e].lease = "running"
          /\ row'[e].token = FreshToken
          /\ job'[w].event = e /\ job'[w].token = FreshToken
          /\ pc'[w] = IF e \in Unparseable THEN "fail" ELSE "customer"
          /\ faults' = faults
      BY <1>3 DEF BeginStarted, StartLease, WriteRow, TypeOK
    <2>3. CASE e \in Unparseable
      <3>1. pc'[w] \notin Before
        BY <2>2, <2>3 DEF Before
      <3>2. Coming(e)' <= Coming(e)
        BY <1>1, <3>1, Stops, NoneComes
      <3>3. Reopening(e)' <= Reopening(e)
        BY <2>1, NumbersNext
      <3> QED
        BY <1>1, <2>2, <3>2, <3>3, ShiftAffords
    <2>4. CASE e \notin Unparseable
      <3>1. Pending(e)' \subseteq Pending(e) \cup {w}
        BY <1>1 DEF Moves, Pending, Event
      <3>2. Coming(e)' <= Coming(e) + 1
        BY <3>1, OneComes
      <3>3. Holds(w, e)'
        BY <2>2, <2>4 DEF Holds, Event, Working, Before
      <3>4. Reopening(e)' = 0
        BY <2>2, <3>3 DEF Reopening, Reopenable, Startable
      <3> QED
        BY <1>1, <2>1, <2>2, <3>2, <3>4, ShiftAffords
    <2> QED
      BY <2>3, <2>4
  <1>4. CASE e = d /\ BeginLost(w, e)
    <2>1. Pending(e)' = Pending(e) /\ faults' = faults + 1
      BY <1>4 DEF BeginLost, Fault, invocation, Pending, Event
    <2>2. Coming(e)' <= Coming(e)
      BY <2>1, NoneComes
    <2> QED
      BY <1>1, <2>1, <2>2, FaultAffords
  <1> QED
    BY <1>2, <1>3, <1>4

(* An invocation that goes on to its next await.                           *)
LEMMA WorkAffords ==
  ASSUME TypeOK, TypeOK', NEW w \in Workers, NEW e \in Events,
         UpsertCustomer(w) \/ SyncCustomer(w) \/ CreateLead(w) \/ AppendLead(w)
  PROVE  Affords(e)
PROOF
  <1>1. /\ Moves(w) /\ pc[w] \in Before /\ pc'[w] \in Working
        /\ job'[w].event = job[w].event /\ job'[w].token = job[w].token
        /\ row' = row /\ faults' = faults
    BY DEF UpsertCustomer, SyncCustomer, CreateLead, AppendLead, At, Goto, Moves, Event,
           Before, Working, TypeOK
  <1>2. Reopening(e)' = Reopening(e)
    BY <1>1, GoesOn DEF Working
  <1>3. Coming(e)' <= Coming(e)
    BY <1>1, Stays, NoneComes
  <1>4. CASE Used(e)' = Used(e)
    BY <1>1, <1>2, <1>3, <1>4, ShiftAffords, Numbers
  <1>5. CASE Used(e)' # Used(e)
    <2>1. AppendLead(w) /\ Event(w) = e
      BY <1>5 DEF UpsertCustomer, SyncCustomer, CreateLead, AppendLead, effects, AddSheet,
                  Used, TypeOK
    <2>2. Used(e)' = Used(e) + 1
      BY <2>1 DEF AppendLead, AddSheet, Used, TypeOK
    <2>3. w \in Pending(e) /\ pc'[w] \notin Before
      BY <2>1 DEF AppendLead, Goto, At, Pending, Before, TypeOK
    <2>4. Coming(e)' <= Coming(e) - 1
      BY <1>1, <2>3, Stops, OneGoes
    <2> QED
      BY <1>1, <1>2, <2>2, <2>4, ShiftAffords
  <1> QED
    BY <1>4, <1>5

(* An invocation that settles its event, or finds it has lost it.          *)
LEMMA SettlesAfford ==
  ASSUME TypeOK, TypeOK', Progress, OneLeaseHolder,
         NEW w \in Workers, NEW e \in Events,
         Complete(w) \/ CompleteLeaseLost(w) \/ Fail(w) \/ FailLeaseLost(w)
  PROVE  Affords(e)
PROOF
  <1>1. /\ Moves(w) /\ Used(e)' = Used(e) /\ faults' = faults
        /\ pc[w] \in {"complete", "fail"} /\ pc'[w] \notin Working
        /\ Event(w) \in Events /\ job[w].token \in Tokens
    <2>1. /\ UNCHANGED <<effects, faults>> /\ pc[w] \in {"complete", "fail"}
          /\ Leave(w) \/ Raise(w, "permanent")
      BY DEF Complete, CompleteLeaseLost, Fail, FailLeaseLost, At
    <2>2. Moves(w) /\ pc'[w] \notin Working
      BY <2>1 DEF Leave, Raise, Moves, Working, Before, TypeOK
    <2>3. Used(e)' = Used(e)
      BY <2>1 DEF effects, Used
    <2>4. Event(w) \in Events /\ job[w].token \in Tokens
      BY <2>1 DEF Progress, Ready, At
    <2> QED
      BY <2>1, <2>2, <2>3, <2>4
  <1>2. Coming(e)' <= Coming(e)
    <2>1. pc'[w] \notin Before
      BY <1>1 DEF Working
    <2> QED
      BY <1>1, <2>1, Stops, NoneComes
  <1>3. CASE e # Event(w)
    <2>1. row'[e] = row[e]
      BY <1>3 DEF Complete, CompleteLeaseLost, Fail, FailLeaseLost, CompleteLease, FailLease,
                  WriteRow, TypeOK
    <2> QED
      BY <1>1, <1>3, <2>1, ElsewhereAffords
  <1>4. CASE e = Event(w) /\ Complete(w)
    <2>1. row'[e].status = "completed"
      BY <1>4 DEF Complete, CompleteLease, WriteRow, TypeOK
    <2>2. Reopening(e)' = 0
      BY <2>1 DEF Reopening, Reopenable, Startable
    <2> QED
      BY <1>1, <1>2, <2>2, ShiftAffords, Numbers
  <1>5. CASE e = Event(w) /\ (CompleteLeaseLost(w) \/ FailLeaseLost(w))
    <2>1. row' = row /\ ~HoldsLease(e, job[w].token)
      BY <1>5 DEF CompleteLeaseLost, FailLeaseLost
    <2>2. row[e].status = "processing" => ~Holds(w, e) /\ ~Holds(w, e)'
      BY <1>1, <2>1 DEF HoldsLease, Holds
    <2>3. \A v \in Workers \ {w} : Holds(v, e)' <=> Holds(v, e)
      BY <1>1, <2>1 DEF Holds, Moves, Event
    <2>4. Reopening(e)' = Reopening(e)
      BY <2>1, <2>2, <2>3 DEF Reopening, Reopenable, Startable
    <2> QED
      BY <1>1, <1>2, <2>4, ShiftAffords, Numbers
  <1>6. CASE e = Event(w) /\ Fail(w)
    <2>1. /\ row[e].status = "processing" /\ row[e].token = job[w].token
          /\ pc[w] = "fail"
      BY <1>6 DEF Fail, FailLease, HoldsLease, At
    <2>2. \A v \in Workers : ~Holds(v, e)
      BY <1>1, <2>1, NoTokenAssumption DEF Holds, OneLeaseHolder, Working, Before
    <2>3. Reopening(e) = 1
      BY <2>1, <2>2 DEF Reopening, Reopenable
    <2> QED
      BY <1>1, <1>2, <2>3, ShiftAffords, Numbers, NumbersNext
  <1> QED
    BY <1>3, <1>4, <1>5, <1>6

LEMMA ConflictAffords ==
  ASSUME TypeOK, TypeOK', NEW w \in Workers, NEW e \in Events, UpsertConflict(w)
  PROVE  Affords(e)
PROOF
  <1>1. /\ Moves(w) /\ Used(e)' = Used(e) /\ faults' = faults /\ row' = row
        /\ pc[w] = "customer" /\ pc'[w] = "fail" /\ Event(w)' = Event(w)
    BY DEF UpsertConflict, Raise, At, Moves, Event, effects, Used, TypeOK
  <1>2. CASE Event(w) # e
    BY <1>1, <1>2, ElsewhereAffords
  <1>3. CASE Event(w) = e
    <2>1. w \in Pending(e) /\ pc'[w] \notin Before
      BY <1>1, <1>3 DEF Pending, Before
    <2>2. Coming(e)' <= Coming(e) - 1
      BY <1>1, <2>1, Stops, OneGoes
    <2> QED
      BY <1>1, <2>2, ShiftAffords
  <1> QED
    BY <1>2, <1>3

(* A call or a statement of an invocation that fails.                      *)
LEMMA ErrorsAfford ==
  ASSUME TypeOK, TypeOK', NEW w \in Workers, NEW e \in Events,
         \/ \E error \in AdapterErrors : SyncError(w, error)
         \/ SyncTimeout(w) \/ UpsertError(w) \/ LeadError(w) \/ CompleteError(w)
         \/ FailError(w)
  PROVE  Affords(e)
PROOF
  <1>1. Used(e)' = Used(e) /\ faults' = faults + 1
    BY DEF SyncError, SyncTimeout, UpsertError, LeadError, CompleteError, FailError, Fault,
           effects, Used
  <1>2. Moves(w) /\ (pc'[w] \in Before => pc[w] \in Before /\ job' = job)
    <2>1. CASE SyncTimeout(w) \/ \E error \in AdapterErrors : SyncError(w, error)
      BY <2>1 DEF SyncError, SyncTimeout, AttemptFailed, Raise, At, Moves, Before, TypeOK
    <2>2. CASE UpsertError(w) \/ LeadError(w) \/ CompleteError(w) \/ FailError(w)
      <3>1. Raise(w, "permanent") \/ Leave(w)
        BY <2>2 DEF UpsertError, LeadError, CompleteError, FailError
      <3> QED
        BY <3>1 DEF Raise, Leave, Moves, Before, TypeOK
    <2> QED
      BY <2>1, <2>2
  <1>3. Coming(e)' <= Coming(e)
    BY <1>2, Stops, Stays, NoneComes
  <1> QED
    BY <1>1, <1>3, FaultAffords

LEMMA AppendFaultsAfford ==
  ASSUME TypeOK, TypeOK', NEW w \in Workers, NEW e \in Events,
         AppendTimeout(w) \/ \E error \in AdapterErrors : AppendError(w, error)
  PROVE  Affords(e)
PROOF
  <1>1. /\ faults' = faults + 1 /\ row' = row /\ pc[w] = "sheet"
        /\ Used(e)' = Used(e) \/ (Event(w) = e /\ Used(e)' = Used(e) + 1)
    BY DEF AppendTimeout, AppendError, Fault, At, AddSheet, AbandonSheet, Used, TypeOK
  <1>2. Moves(w) /\ job' = job /\ (pc' = pc \/ pc'[w] = "fail")
    BY DEF AppendTimeout, AppendError, AttemptFailed, Raise, Moves, TypeOK
  <1>3. Coming(e)' <= Coming(e)
    BY <1>1, <1>2, Stays, NoneComes DEF Before
  <1>4. CASE Used(e)' = Used(e)
    BY <1>1, <1>3, <1>4, FaultAffords
  <1>5. CASE Event(w) = e /\ Used(e)' = Used(e) + 1 /\ pc' = pc
    <2>1. Reopening(e)' = Reopening(e)
      BY <1>1, <1>2, <1>5, GoesOn DEF Working, Before
    <2> QED
      BY <1>1, <1>3, <1>5, <2>1, FaultAffords
  <1>6. CASE Event(w) = e /\ Used(e)' = Used(e) + 1 /\ pc'[w] = "fail"
    <2>1. w \in Pending(e) /\ pc'[w] \notin Before
      BY <1>1, <1>6 DEF Pending, Before
    <2>2. Coming(e)' <= Coming(e) - 1
      BY <1>2, <2>1, Stops, OneGoes
    <2> QED
      BY <1>1, <1>6, <2>2, FaultAffords
  <1> QED
    BY <1>1, <1>2, <1>4, <1>5, <1>6

(* A death puts on the wire at most the appends it takes from Pending.     *)
LEMMA CrashAffords ==
  ASSUME TypeOK, TypeOK', NEW W \in (SUBSET Workers) \ {{}}, NEW e \in Events, Crash(W)
  PROVE  Affords(e)
PROOF
  <1>1. Die(W) /\ faults' = faults + 1 /\ UNCHANGED sheet
    BY CrashEndsInvocations DEF Fault
  <1>2. PICK S \in SUBSET {w \in W : At(w, "sheet") /\ Event(w) = e} :
               /\ IsFiniteSet(S) /\ Cardinality(S) \in Nat
               /\ lateSheet'[e] = lateSheet[e] + Cardinality(S)
    BY CrashLeavesOnTheWire
  <1>3. Used(e)' = Used(e) + Cardinality(S)
    BY <1>1, <1>2 DEF Used, TypeOK
  <1>4. S \subseteq Pending(e) /\ Pending(e)' \subseteq Pending(e) \ S
    BY <1>1, <1>2 DEF Die, Pending, Before, At, Event
  <1>5. /\ IsFiniteSet(Pending(e) \ S)
        /\ Cardinality(Pending(e) \ S) = Cardinality(Pending(e)) - Cardinality(S)
    <2>1. Pending(e) \cap S = S
      BY <1>4
    <2> QED
      BY <2>1, Numbers, FS_Difference
  <1>6. Cardinality(Pending(e)') <= Cardinality(Pending(e) \ S)
    BY <1>4, <1>5, FS_Subset
  <1>7. Coming(e)' <= Coming(e) - Cardinality(S)
    BY <1>5, <1>6 DEF Coming
  <1>8. /\ Used(e) \in Nat /\ Coming(e) \in Nat /\ Reopening(e) \in 0..1 /\ faults \in Nat
        /\ Coming(e)' \in Nat /\ Reopening(e)' \in 0..1
    BY Numbers, NumbersNext
  <1> QED
    BY <1>1, <1>2, <1>3, <1>7, <1>8 DEF Affords

LEMMA ExpiryAffords ==
  ASSUME TypeOK, TypeOK', NEW e \in Events, NEW d \in Events, ExpireLease(d)
  PROVE  Affords(e)
PROOF
  <1>1. /\ pc' = pc /\ job' = job /\ Used(e)' = Used(e)
        /\ faults' = faults \/ faults' = faults + 1
    BY DEF ExpireLease, Fault, invocation, effects, Used
  <1>2. Coming(e)' <= Coming(e)
    <2>1. Pending(e)' = Pending(e)
      BY <1>1 DEF Pending, Event
    <2> QED
      BY <2>1, NoneComes
  <1>3. CASE faults' = faults + 1
    BY <1>1, <1>2, <1>3, FaultAffords
  <1>4. CASE faults' = faults /\ e # d
    <2>1. row'[e] = row[e]
      BY <1>4 DEF ExpireLease, PassLeaseInterval, WriteRow, TypeOK
    <2>2. \A v \in Workers : Holds(v, e)' <=> Holds(v, e)
      BY <1>1, <2>1 DEF Holds, Event
    <2>3. Reopening(e)' = Reopening(e)
      BY <2>1, <2>2 DEF Reopening, Reopenable, Startable
    <2> QED
      BY <1>1, <1>2, <1>4, <2>3, ShiftAffords, Numbers
  <1>5. CASE faults' = faults /\ e = d
    <2>1. row[e].status = "processing" /\ \A w \in Workers : job[w].token # row[e].token
      BY <1>5 DEF ExpireLease, PassLeaseInterval, Fault, TypeOK
    <2>2. Reopening(e) = 1
      BY <2>1 DEF Reopening, Reopenable, Holds
    <2> QED
      BY <1>1, <1>2, <1>5, <2>2, ShiftAffords, NumbersNext
  <1> QED
    BY <1>1, <1>3, <1>4, <1>5

LEMMA LandingAffords ==
  ASSUME TypeOK, TypeOK', NEW e \in Events,
         \/ \E d \in Events : AppendLands(d)
         \/ \E d \in Events, c \in Customers : SyncLands(d, c)
         \/ \E d \in Events, w \in Workers : BeginDuplicate(w, d)
         \/ UNCHANGED vars
  PROVE  Affords(e)
PROOF
  <1>1. UNCHANGED <<row, invocation, faults>> /\ Used(e)' = Used(e)
    BY DEF AppendLands, SyncLands, BeginDuplicate, vars, invocation, effects, AddSheet, Used,
           TypeOK
  <1>2. Coming(e)' = Coming(e) /\ Reopening(e)' = Reopening(e)
    BY <1>1 DEF invocation, Coming, Pending, Reopening, Reopenable, Holds, Startable, Event
  <1> QED
    BY <1>1, <1>2, ShiftAffords, Numbers

-----------------------------------------------------------------------------
LEMMA BudgetInit == Init => Budget
PROOF
  <1> SUFFICES ASSUME Init, NEW e \in Events
               PROVE  Used(e) + Coming(e) + Reopening(e) <= 1 + faults
    BY DEF Budget
  <1>1. Pending(e) = {}
    BY DEF Init, Pending, Before
  <1>2. Coming(e) = 0
    BY <1>1, FS_EmptySet DEF Coming
  <1>3. Used(e) = 0 /\ faults = 0 /\ Reopening(e) \in 0..1
    BY DEF Init, Used, Reopening
  <1> QED
    BY <1>2, <1>3

LEMMA BudgetStep ==
  ASSUME TypeOK, TypeOK', Progress, OneLeaseHolder, Budget, [Next]_vars
  PROVE  Budget'
PROOF
  <1> SUFFICES ASSUME NEW e \in Events
               PROVE  (Used(e) + Coming(e) + Reopening(e) <= 1 + faults)'
    BY DEF Budget
  <1>1. Affords(e)
    BY BeginsAfford, WorkAffords, SettlesAfford, ConflictAffords, ErrorsAfford,
       AppendFaultsAfford, CrashAffords, ExpiryAffords, LandingAffords
    DEF Next, Deliver, Proceed, GoWrong
  <1>2. Used(e) + Coming(e) + Reopening(e) <= 1 + faults
    BY DEF Budget
  <1> QED
    BY <1>1, <1>2, Numbers, NumbersNext DEF Affords

(* No fault costs more than one extra Sheets row, and without a fault an   *)
(* event has one row at most.                                              *)
THEOREM SheetRows == Spec => []SheetRowsExplained
PROOF
  <1>1. Init => TypeOK /\ Budget
    BY TypeInit, BudgetInit
  <1>2. IInv /\ IInv' /\ Budget /\ [Next]_vars => Budget'
    BY BudgetStep DEF IInv
  <1>3. TypeOK /\ Budget => SheetRowsExplained
    <2> SUFFICES ASSUME TypeOK, Budget, NEW e \in Events
                 PROVE  sheet[e] + lateSheet[e] <= 1 + faults
      BY DEF SheetRowsExplained
    <2>1. Used(e) + Coming(e) + Reopening(e) <= 1 + faults
      BY DEF Budget
    <2> QED
      BY <2>1, Numbers DEF Used
  <1>4. IInv => TypeOK
    BY DEF IInv
  <1> QED
    BY <1>1, <1>2, <1>3, <1>4, Invariance, PTL DEF Spec

-----------------------------------------------------------------------------
(* Why no event is lost without a fault.  What an event must not lose is   *)
(* the invocation that holds its lease: it goes on to complete it, finds   *)
(* a conflict, or stops at a fault.                                        *)

LEMMA LostIsBegun == Lost' \subseteq Events
PROOF
  BY DEF Lost

(* An event is not lost as long as whoever is at work on it stays at work. *)
LEMMA NotLost ==
  ASSUME Grows, NEW e \in Events, IdentitiesOf[e] \subseteq Identities,
         row'[e].status = row[e].status, row'[e].token = row[e].token,
         row[e].status = "processing" => \A w \in Workers : AtWorkOn(w, e) => AtWorkOn(w, e)',
         e \in Lost'
  PROVE  e \in Lost
PROOF
  <1>1. ~Conflicting(IdentitiesOf[e])
    BY DEF Lost, Conflicting, Grows
  <1> QED
    BY <1>1 DEF Lost

(* What an invocation does loses no event but its own.                     *)
LEMMA OthersNotLost ==
  ASSUME Grows, NEW w \in Workers, Moves(w), NEW e \in Events, IdentitiesOf[e] \subseteq Identities,
         row'[e] = row[e], Event(w) # e \/ pc[w] = "idle", e \in Lost'
  PROVE  e \in Lost
PROOF
  <1>1. \A v \in Workers : AtWorkOn(v, e) => AtWorkOn(v, e)'
    BY DEF AtWorkOn, Moves, Event
  <1> QED
    BY <1>1, NotLost

LEMMA FaultsLoseOne ==
  ASSUME TypeOK, Progress, Grows, NEW w \in Workers, GoWrong(w)
  PROVE  faults' = faults + 1 /\ \E e \in Events : Lost' \subseteq Lost \cup {e}
PROOF
  <1>1. faults' = faults + 1 /\ Moves(w)
    <2>1. CASE \E e \in Events : BeginLost(w, e)
      BY <2>1 DEF BeginLost, Fault, invocation, Moves
    <2>2. CASE SyncTimeout(w) \/ AppendTimeout(w)
               \/ \E error \in AdapterErrors : SyncError(w, error) \/ AppendError(w, error)
      BY <2>2 DEF SyncError, SyncTimeout, AppendError, AppendTimeout, AttemptFailed, Raise, Fault, Moves, TypeOK
    <2>3. CASE UpsertError(w) \/ LeadError(w) \/ CompleteError(w) \/ FailError(w)
      <3>1. (Raise(w, "permanent") \/ Leave(w)) /\ faults' = faults + 1
        BY <2>3 DEF UpsertError, LeadError, CompleteError, FailError, Fault
      <3> QED
        BY <3>1 DEF Raise, Leave, Moves, TypeOK
    <2> QED
      BY <2>1, <2>2, <2>3 DEF GoWrong
  <1>2. PICK d \in Events : \A e \in Events \ {d} : row'[e] = row[e] /\ (Event(w) # e \/ pc[w] = "idle")
    <2>1. CASE \E e \in Events : BeginLost(w, e)
      BY <2>1 DEF BeginLost, StartLease, WriteRow, At, TypeOK
    <2>2. CASE CompleteError(w)
      <3>1. Event(w) \in Events
        BY <2>2 DEF CompleteError, At, Progress, Ready
      <3>2. \A e \in Events \ {Event(w)} : row'[e] = row[e]
        BY <2>2 DEF CompleteError, CompleteLease, WriteRow, TypeOK
      <3> QED
        BY <3>1, <3>2
    <2>3. CASE row' = row /\ pc[w] # "idle"
      <3>1. Event(w) \in Events
        BY <2>3 DEF At, Progress, Ready
      <3> QED
        BY <2>3, <3>1
    <2> QED
      BY <2>1, <2>2, <2>3 DEF At, GoWrong, SyncError, AppendError, SyncTimeout, AppendTimeout,
         UpsertError, LeadError, FailError
  <1>3. Lost' \subseteq Lost \cup {d}
    <2> SUFFICES ASSUME NEW e \in Lost', e # d
                 PROVE  e \in Lost
      OBVIOUS
    <2>1. e \in Events /\ IdentitiesOf[e] \subseteq Identities
      BY LostIsBegun, PipelineAssumption
    <2> QED
      BY <1>1, <1>2, <2>1, OthersNotLost
  <1> QED
    BY <1>1, <1>3

LEMMA ProceedLosesNone ==
  ASSUME TypeOK, Progress, OneLeaseHolder, Grows, NEW w \in Workers, Proceed(w)
  PROVE  Lost' \subseteq Lost
PROOF
  <1>2. Moves(w)
    BY DEF Proceed, UpsertCustomer, UpsertConflict, SyncCustomer, CreateLead, AppendLead,
           Complete, CompleteLeaseLost, Fail, FailLeaseLost, Goto, Raise, Leave, Moves, TypeOK
  <1>3. \A e \in Events \ {Event(w)} : row'[e] = row[e]
    BY DEF Proceed, UpsertCustomer, UpsertConflict, SyncCustomer, CreateLead, AppendLead,
           Complete, CompleteLeaseLost, Fail, FailLeaseLost, CompleteLease, FailLease, WriteRow, TypeOK
  <1>4. Lost' \subseteq Lost
    <2> SUFFICES ASSUME NEW e \in Lost'
                 PROVE  e \in Lost
      OBVIOUS
    <2>1. e \in Events /\ IdentitiesOf[e] \subseteq Identities
      BY LostIsBegun, PipelineAssumption
    <2>2. CASE e # Event(w)
      BY <1>2, <1>3, <2>1, <2>2, OthersNotLost
    <2>3. CASE e = Event(w) /\ (UpsertCustomer(w) \/ SyncCustomer(w) \/ CreateLead(w) \/ AppendLead(w))
      <3>1. row' = row /\ job'[w].event = job[w].event /\ job'[w].token = job[w].token
            /\ pc'[w] \notin {"idle", "fail"}
        BY <2>3 DEF UpsertCustomer, SyncCustomer, CreateLead, AppendLead, Goto, Event, TypeOK
      <3>2. \A v \in Workers : AtWorkOn(v, e) => AtWorkOn(v, e)'
        BY <1>2, <3>1 DEF AtWorkOn, Moves, Event
      <3> QED
        BY <2>1, <3>1, <3>2, NotLost
    <2>4. CASE e = Event(w) /\ UpsertConflict(w)
      <3>1. Conflicting(IdentitiesOf[e])'
        BY <2>1, <2>4 DEF UpsertConflict, Conflicting
      <3> QED
        BY <3>1 DEF Lost
    <2>5. CASE e = Event(w) /\ Complete(w)
      <3>1. row'[e].status = "completed"
        BY <2>1, <2>5 DEF Complete, CompleteLease, WriteRow, TypeOK
      <3> QED
        BY <3>1 DEF Lost
    <2>6. CASE e = Event(w) /\ (CompleteLeaseLost(w) \/ FailLeaseLost(w))
      <3>1. row' = row /\ ~HoldsLease(e, job[w].token)
        BY <2>6 DEF CompleteLeaseLost, FailLeaseLost
      <3>2. row[e].status = "processing" => \A v \in Workers : AtWorkOn(v, e) => AtWorkOn(v, e)'
        BY <1>2, <3>1 DEF AtWorkOn, Moves, Event, HoldsLease
      <3> QED
        BY <2>1, <3>1, <3>2, NotLost
    <2>7. CASE e = Event(w) /\ Fail(w)
      <3>1. row[e].status = "processing" /\ row[e].token = job[w].token /\ pc[w] = "fail"
        BY <2>7 DEF Fail, FailLease, HoldsLease, At
      <3>2. job[w].token # NoToken
        BY <3>1, NoTokenAssumption DEF Progress, Ready, At
      <3>3. \A v \in Workers : ~AtWorkOn(v, e)
        BY <3>1, <3>2 DEF AtWorkOn, OneLeaseHolder
      <3>4. ~Conflicting(IdentitiesOf[e]) /\ e \in Events \ Unparseable
        BY <2>1 DEF Lost, Conflicting, Grows
      <3> QED
        BY <3>1, <3>3, <3>4 DEF Lost
    <2> QED
      BY <2>2, <2>3, <2>4, <2>5, <2>6, <2>7 DEF Proceed
  <1> QED
    BY <1>4

LEMMA BeginLosesNone ==
  ASSUME TypeOK, Grows, NEW w \in Workers, NEW d \in Events, BeginStarted(w, d)
  PROVE  Lost' \subseteq Lost
PROOF
  <1>1. Moves(w) /\ pc[w] = "idle"
        /\ \A e \in Events \ {d} : row'[e] = row[e]
    BY DEF BeginStarted, StartLease, WriteRow, Moves, At, TypeOK
  <1>2. d \notin Unparseable => row'[d].status = "processing" /\ AtWorkOn(w, d)'
    BY DEF BeginStarted, StartLease, WriteRow, AtWorkOn, Event, TypeOK
  <1>3. Lost' \subseteq Lost
    <2> SUFFICES ASSUME NEW e \in Lost'
                 PROVE  e \in Lost
      OBVIOUS
    <2>1. e \in Events /\ IdentitiesOf[e] \subseteq Identities /\ e \notin Unparseable
      BY LostIsBegun, PipelineAssumption DEF Lost
    <2>2. e # d
      BY <1>2, <2>1 DEF Lost
    <2> QED
      BY <1>1, <2>1, <2>2, OthersNotLost
  <1> QED
    BY <1>3

(* Time, late calls and duplicates change nobody's work.                   *)
LEMMA RestLosesNone ==
  ASSUME TypeOK, Grows,
         \/ \E e \in Events : ExpireLease(e) \/ AppendLands(e)
         \/ \E e \in Events, c \in Customers : SyncLands(e, c)
         \/ \E e \in Events, w \in Workers : BeginDuplicate(w, e)
         \/ UNCHANGED vars
  PROVE  Lost' \subseteq Lost
PROOF
  <1>1. pc' = pc /\ job' = job
    BY DEF ExpireLease, AppendLands, SyncLands, BeginDuplicate, vars, invocation
  <1>2. \A e \in Events : row'[e].status = row[e].status /\ row'[e].token = row[e].token
    <2>1. CASE \E e \in Events : ExpireLease(e)
      BY <2>1 DEF ExpireLease, PassLeaseInterval, WriteRow, TypeOK
    <2>2. CASE row' = row
      BY <2>2
    <2> QED
      BY <2>1, <2>2 DEF AppendLands, SyncLands, BeginDuplicate, vars
  <1>3. Lost' \subseteq Lost
    <2> SUFFICES ASSUME NEW e \in Lost'
                 PROVE  e \in Lost
      OBVIOUS
    <2>1. e \in Events /\ IdentitiesOf[e] \subseteq Identities
      BY LostIsBegun, PipelineAssumption
    <2>2. \A v \in Workers : AtWorkOn(v, e) => AtWorkOn(v, e)'
      BY <1>1, <1>2, <2>1 DEF AtWorkOn, Event
    <2> QED
      BY <1>2, <2>1, <2>2, NotLost
  <1> QED
    BY <1>3

(* A death loses what the invocations that end with it were at work on.    *)
LEMMA CrashLosesItsWork ==
  ASSUME TypeOK, Grows, NEW W \in (SUBSET Workers) \ {{}}, Crash(W)
  PROVE  /\ faults' = faults + 1
         /\ \A e \in Lost' \ Lost : \E w \in Workers : AtWorkOn(w, e) /\ pc'[w] = "idle"
PROOF
  <1>1. Die(W) /\ faults' = faults + 1 /\ row' = row
    BY CrashEndsInvocations DEF Fault
  <1> SUFFICES ASSUME NEW e \in Lost' \ Lost
               PROVE  \E w \in Workers : AtWorkOn(w, e) /\ pc'[w] = "idle"
    BY <1>1
  <1>2. e \in Events /\ IdentitiesOf[e] \subseteq Identities
    BY LostIsBegun, PipelineAssumption
  <1>3. PICK w \in Workers : AtWorkOn(w, e) /\ ~AtWorkOn(w, e)'
    BY <1>1, <1>2, NotLost
  <1>4. w \in W
    BY <1>1, <1>3 DEF Die, AtWorkOn, Event
  <1> QED
    BY <1>1, <1>3, <1>4 DEF Die

(* An event is lost, that is begun, not completed and in nobody's hands,   *)
(* only by a fault: all else is finished by the invocation that began it,  *)
(* however many there are.  Only the death of a process may lose more than *)
(* one, and each of them is one that it interrupted.  This is the safety   *)
(* part of the two liveness properties.                                    *)
THEOREM FaultsExplainLosses == Spec => LossesExplained
PROOF
  <1>1. ASSUME IInv, [Next]_vars
        PROVE  \/ Lost' \subseteq Lost
               \/ /\ faults' = faults + 1
                  /\ \/ \E e \in Events : Lost' \subseteq Lost \cup {e}
                     \/ \A e \in Lost' \ Lost :
                          \E w \in Workers : AtWorkOn(w, e) /\ pc'[w] = "idle"
    <2>1. TypeOK /\ Progress /\ OneLeaseHolder /\ Grows
      BY <1>1, NextGrows DEF IInv
    <2>2. CASE \E w \in Workers : GoWrong(w)
      BY <2>1, <2>2, FaultsLoseOne
    <2>3. CASE \E w \in Workers : Proceed(w)
      BY <2>1, <2>3, ProceedLosesNone
    <2>4. CASE \E e \in Events, w \in Workers : BeginStarted(w, e)
      BY <2>1, <2>4, BeginLosesNone
    <2>5. CASE \E W \in (SUBSET Workers) \ {{}} : Crash(W)
      BY <2>1, <2>5, CrashLosesItsWork
    <2>6. CASE \/ \E e \in Events : ExpireLease(e) \/ AppendLands(e)
               \/ \E e \in Events, c \in Customers : SyncLands(e, c)
               \/ \E e \in Events, w \in Workers : BeginDuplicate(w, e)
               \/ UNCHANGED vars
      BY <2>1, <2>6, RestLosesNone
    <2> QED
      BY <1>1, <2>2, <2>3, <2>4, <2>5, <2>6 DEF Next, Deliver
  <1> QED
    BY <1>1, Invariance, PTL DEF Spec, LossesExplained

-----------------------------------------------------------------------------
(* The tables as their own modules specify them.                           *)

(* Whoever fails an event has a classification to record.                  *)
Reasoned == \A w \in Workers : At(w, "fail") => reason[w] \in Classification

LEMMA ReasonsOfMoves ==
  ASSUME TypeOK, Reasoned, NEW w \in Workers
  PROVE  /\ \A await \in PC \ {"fail"} : Goto(w, await) => Reasoned'
         /\ \A c \in Classification : Raise(w, c) \/ AttemptFailed(w, c) => Reasoned'
         /\ Leave(w) => Reasoned'
         /\ UNCHANGED invocation => Reasoned'
PROOF
  <1>1. ASSUME NEW await \in PC \ {"fail"}, Goto(w, await)
        PROVE  Reasoned'
    BY <1>1 DEF Goto, Reasoned, At, TypeOK
  <1>2. ASSUME NEW c \in Classification, Raise(w, c)
        PROVE  Reasoned'
    BY <1>2 DEF Raise, Reasoned, At, TypeOK
  <1>3. ASSUME NEW c \in Classification, AttemptFailed(w, c)
        PROVE  Reasoned'
    BY <1>2, <1>3 DEF AttemptFailed, Reasoned, At
  <1>4. ASSUME Leave(w)
        PROVE  Reasoned'
    BY <1>4 DEF Leave, Reasoned, At, TypeOK
  <1>5. ASSUME UNCHANGED invocation
        PROVE  Reasoned'
    BY <1>5 DEF invocation, Reasoned, At
  <1> QED
    BY <1>1, <1>2, <1>3, <1>4, <1>5

LEMMA ReasonedStep == TypeOK /\ Reasoned /\ [Next]_vars => Reasoned'
PROOF
  <1> SUFFICES ASSUME TypeOK, Reasoned, [Next]_vars
               PROVE  Reasoned'
    OBVIOUS
  <1> USE ReasonsOfMoves
  <1>1. ASSUME NEW w \in Workers,
               SyncCustomer(w) \/ AppendLead(w) \/ CreateLead(w)
        PROVE  Reasoned'
    BY <1>1 DEF SyncCustomer, AppendLead, CreateLead, PC
  <1>2. ASSUME NEW w \in Workers,
               UpsertConflict(w) \/ UpsertError(w) \/ LeadError(w)
               \/ CompleteLeaseLost(w) \/ CompleteError(w)
        PROVE  Reasoned'
    BY <1>2 DEF UpsertConflict, UpsertError, LeadError, CompleteLeaseLost, CompleteError,
                Classification
  <1>3. ASSUME NEW w \in Workers,
               \/ SyncTimeout(w) \/ AppendTimeout(w)
               \/ \E error \in AdapterErrors : SyncError(w, error) \/ AppendError(w, error)
        PROVE  Reasoned'
    <2>1. "timeout" \in Classification /\ AdapterErrors \subseteq Classification
      BY PipelineAssumption DEF Classification
    <2> QED
      BY <1>3, <2>1 DEF SyncTimeout, AppendTimeout, SyncError, AppendError
  <1>4. ASSUME NEW w \in Workers,
               Complete(w) \/ Fail(w) \/ FailLeaseLost(w) \/ FailError(w)
        PROVE  Reasoned'
    BY <1>4 DEF Complete, Fail, FailLeaseLost, FailError
  <1>5. ASSUME NEW w \in Workers, UpsertCustomer(w)
        PROVE  Reasoned'
    BY <1>5 DEF UpsertCustomer, Reasoned, At, TypeOK
  <1>6. ASSUME NEW e \in Events, NEW w \in Workers, BeginStarted(w, e)
        PROVE  Reasoned'
    BY <1>6 DEF BeginStarted, Reasoned, At, TypeOK, Classification
  <1>7. ASSUME NEW e \in Events,
               \/ \E w \in Workers : BeginDuplicate(w, e) \/ BeginLost(w, e)
               \/ AppendLands(e) \/ ExpireLease(e) \/ \E c \in Customers : SyncLands(e, c)
        PROVE  Reasoned'
    BY <1>7 DEF BeginDuplicate, BeginLost, AppendLands, ExpireLease, SyncLands,
                invocation, Reasoned, At
  <1>8. CASE UNCHANGED vars
    BY <1>8 DEF vars, Reasoned, At
  <1>9. ASSUME NEW W \in (SUBSET Workers) \ {{}}, Crash(W)
        PROVE  Reasoned'
    BY <1>9 DEF Crash, Reasoned, At, TypeOK
  <1> QED
    BY <1>1, <1>2, <1>3, <1>4, <1>5, <1>6, <1>7, <1>8, <1>9 DEF Next, Deliver, Proceed, GoWrong

LEMMA EventsStep ==
  ASSUME IInv, Reasoned, [Next]_vars
  PROVE  [EventsNext]_row
PROOF
  <1>1. TypeOK /\ Progress
    BY DEF IInv
  <1>2. ASSUME NEW e \in Events, NEW w \in Workers, BeginStarted(w, e) \/ BeginLost(w, e)
        PROVE  EventsNext
    BY <1>1, <1>2, FreshTokenIsFresh DEF BeginStarted, BeginLost, EventsNext
  <1>3. ASSUME NEW w \in Workers, pc[w] # "idle"
        PROVE  Event(w) \in Events /\ job[w].token \in Tokens
    BY <1>1, <1>3 DEF Progress, Ready, At
  <1>4. ASSUME NEW w \in Workers, Complete(w) \/ CompleteError(w)
        PROVE  [EventsNext]_row
    <2>1. pc[w] = "complete" /\ (row' = row \/ CompleteLease(Event(w), job[w].token))
      BY <1>4 DEF Complete, CompleteError, At
    <2> QED
      BY <1>3, <2>1 DEF EventsNext
  <1>5. ASSUME NEW w \in Workers, Fail(w)
        PROVE  EventsNext
    <2>1. pc[w] = "fail" /\ FailLease(Event(w), job[w].token, reason[w])
      BY <1>5 DEF Fail, At
    <2>2. reason[w] \in Classification
      BY <2>1 DEF Reasoned, At
    <2> QED
      BY <1>3, <2>1, <2>2 DEF EventsNext
  <1>6. ASSUME NEW e \in Events, ExpireLease(e)
        PROVE  EventsNext
    <2>1. row' = [row EXCEPT ![e].lease = "overdue"]
      BY <1>1, <1>6 DEF ExpireLease, PassLeaseInterval, WriteRow, TypeOK, Row
    <2>2. row' = [d \in Events |-> IF d \in {e} THEN [row[d] EXCEPT !.lease = "overdue"] ELSE row[d]]
      BY <1>1, <2>1 DEF TypeOK
    <2> QED
      BY <2>2 DEF EventsNext
  <1>7. ASSUME NEW w \in Workers,
               \/ UpsertCustomer(w) \/ UpsertConflict(w) \/ UpsertError(w)
               \/ SyncCustomer(w) \/ SyncTimeout(w) \/ AppendLead(w) \/ AppendTimeout(w)
               \/ CreateLead(w) \/ LeadError(w)
               \/ CompleteLeaseLost(w) \/ FailLeaseLost(w) \/ FailError(w)
               \/ \E error \in AdapterErrors : SyncError(w, error) \/ AppendError(w, error)
        PROVE  UNCHANGED row
    BY <1>7 DEF UpsertCustomer, UpsertConflict, UpsertError, SyncCustomer, SyncTimeout,
                SyncError, AppendLead, AppendTimeout, AppendError, CreateLead, LeadError,
                CompleteLeaseLost, FailLeaseLost, FailError
  <1>8. ASSUME NEW e \in Events,
               \/ AppendLands(e)
               \/ \E c \in Customers : SyncLands(e, c)
               \/ \E w \in Workers : BeginDuplicate(w, e)
        PROVE  UNCHANGED row
    BY <1>8 DEF AppendLands, SyncLands, BeginDuplicate
  <1>9. ASSUME NEW W \in (SUBSET Workers) \ {{}}, Crash(W)
        PROVE  UNCHANGED row
    BY <1>9 DEF Crash
  <1> QED
    BY <1>2, <1>4, <1>5, <1>6, <1>7, <1>8, <1>9 DEF Next, Deliver, Proceed, GoWrong, vars

LEMMA DirectoryStep ==
  ASSUME IInv, [Next]_vars
  PROVE  [DirectoryNext]_owner
PROOF
  <1>1. TypeOK /\ Progress
    BY DEF IInv
  <1>2. ASSUME NEW w \in Workers, UpsertCustomer(w) \/ UpsertError(w)
        PROVE  [DirectoryNext]_owner
    <2>1. IdentitiesOf[Event(w)] \in SUBSET Identities
      BY <1>1, <1>2, ActiveTypes DEF UpsertCustomer, UpsertError, At
    <2>2. ASSUME NEW ids \in SUBSET Identities, NEW c \in Candidates(ids)
          PROVE  c \in Customers
      <3>1. owner \in [Identities -> Customers \cup {NoCustomer}]
        BY <1>1 DEF TypeOK, Directory
      <3>2. \A i \in ids : owner[i] \in Customers \cup {NoCustomer}
        BY <3>1
      <3> QED
        BY <2>2, <3>2 DEF Candidates, Owners, Unused
    <2> QED
      BY <1>2, <2>1, <2>2 DEF UpsertCustomer, UpsertError, DirectoryNext
  <1>3. ASSUME NEW w \in Workers,
               \/ UpsertConflict(w) \/ SyncCustomer(w) \/ SyncTimeout(w)
               \/ AppendLead(w) \/ AppendTimeout(w) \/ CreateLead(w) \/ LeadError(w)
               \/ Complete(w) \/ CompleteError(w) \/ CompleteLeaseLost(w)
               \/ Fail(w) \/ FailLeaseLost(w) \/ FailError(w)
               \/ \E error \in AdapterErrors : SyncError(w, error) \/ AppendError(w, error)
        PROVE  UNCHANGED owner
    BY <1>3 DEF UpsertConflict, SyncCustomer, SyncTimeout, SyncError, AppendLead, AppendTimeout,
                AppendError, CreateLead, LeadError, Complete, CompleteError, CompleteLeaseLost,
                Fail, FailLeaseLost, FailError
  <1>4. ASSUME NEW e \in Events,
               \/ \E w \in Workers : BeginDuplicate(w, e) \/ BeginStarted(w, e) \/ BeginLost(w, e)
               \/ AppendLands(e) \/ ExpireLease(e) \/ \E c \in Customers : SyncLands(e, c)
        PROVE  UNCHANGED owner
    BY <1>4 DEF BeginDuplicate, BeginStarted, BeginLost, AppendLands, ExpireLease, SyncLands
  <1>5. ASSUME NEW W \in (SUBSET Workers) \ {{}}, Crash(W)
        PROVE  UNCHANGED owner
    BY <1>5 DEF Crash
  <1> QED
    BY <1>2, <1>3, <1>4, <1>5 DEF Next, Deliver, Proceed, GoWrong, vars

(* The pipeline touches the two tables only by the statements their        *)
(* modules specify, each with a token that was drawn for it and, for fail, *)
(* with one of the four classifications the table takes: whatever is said  *)
(* of ChannelEvents or CustomerDirectory alone holds of it.                *)
THEOREM ImplementsTables == Spec => EventsSpec /\ DirectorySpec
PROOF
  <1>1. Init => EventsInit /\ DirectoryInit /\ Reasoned
    BY DEF Init, Reasoned, At
  <1>2. Spec => []Reasoned
    <2>1. IInv => TypeOK
      BY DEF IInv
    <2> QED
      BY <1>1, <2>1, ReasonedStep, Invariance, PTL DEF Spec
  <1> QED
    BY <1>1, <1>2, EventsStep, DirectoryStep, Invariance, PTL DEF Spec, EventsSpec, DirectorySpec

=============================================================================
