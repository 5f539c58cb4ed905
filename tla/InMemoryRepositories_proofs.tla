-------------------- MODULE InMemoryRepositories_proofs --------------------
(***************************************************************************)
(* Proofs about InMemoryRepositories, for any number of events, customers  *)
(* and identities and a lease of any length: the maps agree with each      *)
(* other and do what the tables do.                                        *)
(***************************************************************************)
EXTENDS InMemoryRepositories, SequenceTheorems, TLAPS

Stored == [status : {"processing", "completed", "failed"}, token : Tokens, startedAt : Nat]

Types ==
  /\ DOMAIN events \subseteq Events /\ events \in [DOMAIN events -> Stored]
  /\ failureClassifications \in [DOMAIN failureClassifications -> Classification]
  /\ DOMAIN customers \subseteq Customers
  /\ customers \in [DOMAIN customers -> SUBSET Identities]
  /\ DOMAIN identityIndex \subseteq Identities
  /\ identityIndex \in [DOMAIN identityIndex -> Customers]
  /\ records \in Seq([id : Events, customer : Customers])

IInv == Types /\ Consistent

LEMMA Numbers ==
  NoToken \notin Tokens /\ NoCustomer \notin Customers /\ Lease \in Nat /\ MaxNow \in Nat
PROOF
  BY RepositoriesAssumption

(* The parts of Consistent.                                                *)
Clocked ==
  /\ now \in 0..MaxNow
  /\ \A e \in DOMAIN events :
       /\ events[e].startedAt <= now
       /\ events[e].status = "failed" => e \in DOMAIN failureClassifications
  /\ DOMAIN failureClassifications \subseteq DOMAIN events

Indexed ==
  /\ \A c \in DOMAIN customers :
       /\ customers[c] # {}
       /\ customers[c] = {i \in DOMAIN identityIndex : identityIndex[i] = c}
  /\ \A i \in DOMAIN identityIndex : identityIndex[i] \in DOMAIN customers

Recorded == \A m, n \in DOMAIN records : records[m].id = records[n].id => m = n

LEMMA Parts ==
  /\ Consistent <=> Clocked /\ Indexed /\ Recorded
  /\ Consistent' <=> (Clocked /\ Indexed /\ Recorded)'
PROOF
  BY DEF Consistent, Clocked, Indexed, Recorded

LEMMA InitIInv == Init => IInv
PROOF
  <1> SUFFICES ASSUME Init
               PROVE  IInv
    OBVIOUS
  <1>1. DOMAIN Empty = {} /\ \A S : Empty \in [{} -> S]
    BY DEF Empty
  <1>2. Types
    <2>1. records \in Seq([id : Events, customer : Customers])
      BY DEF Init
    <2> QED
      BY <1>1, <2>1 DEF Init, Types
  <1>3. now \in 0..MaxNow
    BY Numbers DEF Init
  <1>4. Consistent
    BY <1>1, <1>3 DEF Init, Consistent
  <1> QED
    BY <1>2, <1>4 DEF IInv

LEMMA TickStep ==
  ASSUME IInv, Tick
  PROVE  IInv'
PROOF
  <1> USE DEF IInv
  <1>1. UNCHANGED <<events, failureClassifications, customers, identityIndex, records>>
    BY DEF Tick, idempotency, directory
  <1>2. now \in Nat /\ now' = now + 1 /\ now' \in 0..MaxNow
    BY Numbers DEF Tick, Consistent
  <1>3. Types'
    BY <1>1 DEF Types
  <1>4. \A e \in DOMAIN events : events[e].startedAt \in Nat
    BY DEF Types, Stored
  <1>5. Clocked' /\ Indexed' /\ Recorded'
    BY <1>1, <1>2, <1>4 DEF Consistent, Clocked, Indexed, Recorded
  <1> QED
    BY <1>3, <1>5, Parts

(* A step of the idempotency repository leaves the others alone.           *)
LEMMA EventStep ==
  ASSUME IInv, UNCHANGED <<now, directory, records>>,
         DOMAIN events' \subseteq Events, events' \in [DOMAIN events' -> Stored],
         failureClassifications' \in [DOMAIN failureClassifications' -> Classification],
         \A e \in DOMAIN events' :
           /\ events'[e].startedAt <= now
           /\ events'[e].status = "failed" => e \in DOMAIN failureClassifications',
         DOMAIN failureClassifications' \subseteq DOMAIN events'
  PROVE  IInv'
PROOF
  <1>1. now' = now /\ customers' = customers /\ identityIndex' = identityIndex
        /\ records' = records
    BY DEF directory
  <1>2. Types'
    BY <1>1 DEF IInv, Types
  <1>3. Clocked' /\ Indexed' /\ Recorded'
    BY <1>1 DEF IInv, Consistent, Clocked, Indexed, Recorded
  <1> QED
    BY <1>2, <1>3, Parts DEF IInv

LEMMA BeginStep ==
  ASSUME IInv, NEW e \in Events, NEW t \in Tokens, Begin(e, t)
  PROVE  IInv'
PROOF
  <1> USE DEF IInv
  <1> DEFINE new == [status |-> "processing", token |-> t, startedAt |-> now]
  <1>1. events' = Set(events, e, new) /\ failureClassifications' = failureClassifications
        /\ UNCHANGED <<now, directory, records>>
    BY DEF Begin
  <1>2. now \in Nat
    BY Numbers DEF Consistent
  <1>3. new \in Stored /\ new.startedAt <= now /\ new.status # "failed"
    BY <1>2 DEF Stored
  <1> HIDE DEF new
  <1>4. /\ DOMAIN events' = DOMAIN events \cup {e} /\ events'[e] = new
        /\ \A f \in DOMAIN events : f # e => events'[f] = events[f]
        /\ events' = [f \in DOMAIN events' |-> events'[f]]
    BY <1>1 DEF Set
  <1>5. \A f \in DOMAIN events' : events'[f] \in Stored
    BY <1>3, <1>4 DEF Types
  <1>6. DOMAIN events' \subseteq Events /\ events' \in [DOMAIN events' -> Stored]
    BY <1>4, <1>5 DEF Types
  <1>7. \A f \in DOMAIN events' :
           /\ events'[f].startedAt <= now
           /\ events'[f].status = "failed" => f \in DOMAIN failureClassifications'
    BY <1>1, <1>3, <1>4 DEF Consistent
  <1>8. DOMAIN failureClassifications' \subseteq DOMAIN events'
    BY <1>1, <1>4 DEF Consistent
  <1>9. failureClassifications' \in [DOMAIN failureClassifications' -> Classification]
    BY <1>1 DEF Types
  <1> QED
    BY <1>1, <1>6, <1>7, <1>8, <1>9, EventStep

(* What settling an event does to its entry.                               *)
LEMMA Settled ==
  ASSUME IInv, NEW e \in DOMAIN events, NEW status \in {"completed", "failed"},
         events' = [events EXCEPT ![e].status = status]
  PROVE  /\ DOMAIN events' = DOMAIN events
         /\ events' \in [DOMAIN events' -> Stored]
         /\ events'[e].status = status /\ events'[e].token = events[e].token
         /\ events'[e].startedAt = events[e].startedAt
         /\ \A f \in DOMAIN events : f # e => events'[f] = events[f]
PROOF
  <1>1. events \in [DOMAIN events -> Stored]
    BY DEF IInv, Types
  <1>2. events[e] \in Stored
    BY <1>1
  <1>3. [events[e] EXCEPT !.status = status] \in Stored
    BY <1>2 DEF Stored
  <1>4. events' = [f \in DOMAIN events |->
                     IF f = e THEN [events[e] EXCEPT !.status = status] ELSE events[f]]
    BY <1>1
  <1> QED
    BY <1>1, <1>2, <1>3, <1>4 DEF Stored

LEMMA CompleteStep ==
  ASSUME IInv, NEW e \in Events, NEW t \in Tokens, Complete(e, t)
  PROVE  IInv'
PROOF
  <1>1. e \in DOMAIN events /\ events' = [events EXCEPT ![e].status = "completed"]
        /\ failureClassifications' = failureClassifications
        /\ UNCHANGED <<now, directory, records>>
    BY DEF Complete, HasLease
  <1>2. /\ DOMAIN events' = DOMAIN events
        /\ events' \in [DOMAIN events' -> Stored]
        /\ events'[e].status = "completed" /\ events'[e].token = events[e].token
        /\ events'[e].startedAt = events[e].startedAt
        /\ \A f \in DOMAIN events : f # e => events'[f] = events[f]
    BY <1>1, Settled
  <1>3. \A f \in DOMAIN events' :
           /\ events'[f].startedAt <= now
           /\ events'[f].status = "failed" => f \in DOMAIN failureClassifications'
    BY <1>1, <1>2 DEF IInv, Consistent
  <1>4. /\ DOMAIN failureClassifications' \subseteq DOMAIN events'
        /\ DOMAIN events' \subseteq Events
        /\ failureClassifications' \in [DOMAIN failureClassifications' -> Classification]
    BY <1>1, <1>2 DEF IInv, Types, Consistent
  <1> QED
    BY <1>1, <1>2, <1>3, <1>4, EventStep

LEMMA FailStep ==
  ASSUME IInv, NEW e \in Events, NEW t \in Tokens, NEW c \in Classification, Fail(e, t, c)
  PROVE  IInv'
PROOF
  <1>1. e \in DOMAIN events /\ events' = [events EXCEPT ![e].status = "failed"]
        /\ failureClassifications' = Set(failureClassifications, e, c)
        /\ UNCHANGED <<now, directory, records>>
    BY DEF Fail, HasLease
  <1>2. /\ DOMAIN events' = DOMAIN events
        /\ events' \in [DOMAIN events' -> Stored]
        /\ events'[e].startedAt = events[e].startedAt
        /\ \A f \in DOMAIN events : f # e => events'[f] = events[f]
    BY <1>1, Settled
  <1>3. /\ DOMAIN failureClassifications' = DOMAIN failureClassifications \cup {e}
        /\ failureClassifications'[e] = c
        /\ \A f \in DOMAIN failureClassifications :
             f # e => failureClassifications'[f] = failureClassifications[f]
        /\ failureClassifications' =
             [f \in DOMAIN failureClassifications' |-> failureClassifications'[f]]
    BY <1>1 DEF Set
  <1>4. \A f \in DOMAIN events' :
           /\ events'[f].startedAt <= now
           /\ events'[f].status = "failed" => f \in DOMAIN failureClassifications'
    BY <1>2, <1>3 DEF IInv, Consistent
  <1>5. \A f \in DOMAIN failureClassifications' : failureClassifications'[f] \in Classification
    BY <1>3 DEF IInv, Types
  <1>6. /\ DOMAIN failureClassifications' \subseteq DOMAIN events'
        /\ DOMAIN events' \subseteq Events
        /\ failureClassifications' \in [DOMAIN failureClassifications' -> Classification]
    BY <1>1, <1>2, <1>3, <1>5 DEF IInv, Types, Consistent
  <1> QED
    BY <1>1, <1>2, <1>4, <1>6, EventStep

(* What an upsert does to the two maps: the identities it merges are those *)
(* the customer had and those that are new to it.                          *)
LEMMA UpsertMerges ==
  ASSUME IInv, NEW ids \in (SUBSET Identities) \ {{}}, NEW c \in Customers,
         UpsertByIdentities(ids, c)
  PROVE  /\ Merged(c, ids) = ids \cup {i \in DOMAIN identityIndex : identityIndex[i] = c}
         /\ \A i \in Merged(c, ids) \cap DOMAIN identityIndex : identityIndex[i] = c
         /\ Merged(c, ids) \subseteq Identities
         /\ DOMAIN identityIndex' = DOMAIN identityIndex \cup ids
         /\ \A i \in DOMAIN identityIndex' :
              identityIndex'[i] = IF i \in DOMAIN identityIndex THEN identityIndex[i] ELSE c
         /\ \A i \in ids : identityIndex'[i] = c
PROOF
  <1> DEFINE own == {i \in DOMAIN identityIndex : identityIndex[i] = c}
  <1>1. Merged(c, ids) = ids \cup own
    <2>1. CASE c \in DOMAIN customers
      BY <2>1 DEF Merged, IInv, Consistent
    <2>2. CASE c \notin DOMAIN customers
      BY <2>2 DEF Merged, IInv, Consistent
    <2> QED
      BY <2>1, <2>2
  <1>2. \A i \in ids \cap DOMAIN identityIndex : identityIndex[i] = c
    BY DEF UpsertByIdentities, OwnerIds
  <1>3. identityIndex' = [i \in DOMAIN identityIndex \cup Merged(c, ids) |->
                            IF i \in Merged(c, ids) THEN c ELSE identityIndex[i]]
    BY DEF UpsertByIdentities
  <1>4. own \subseteq DOMAIN identityIndex /\ DOMAIN identityIndex \subseteq Identities
    BY DEF IInv, Types
  <1>5. DOMAIN identityIndex' = DOMAIN identityIndex \cup ids
    BY <1>1, <1>3, <1>4
  <1>6. \A i \in DOMAIN identityIndex' :
          identityIndex'[i] = IF i \in Merged(c, ids) THEN c ELSE identityIndex[i]
    BY <1>3
  <1>7. \A i \in Merged(c, ids) \cap DOMAIN identityIndex : identityIndex[i] = c
    BY <1>1, <1>2
  <1>8. \A i \in DOMAIN identityIndex' :
          identityIndex'[i] = IF i \in DOMAIN identityIndex THEN identityIndex[i] ELSE c
    BY <1>1, <1>5, <1>6, <1>7
  <1>9. \A i \in ids : identityIndex'[i] = c
    BY <1>1, <1>5, <1>6
  <1> QED
    BY <1>1, <1>4, <1>5, <1>7, <1>8, <1>9

LEMMA UpsertStep ==
  ASSUME IInv, NEW ids \in (SUBSET Identities) \ {{}}, NEW c \in Customers,
         UpsertByIdentities(ids, c)
  PROVE  IInv'
PROOF
  <1>1. /\ Merged(c, ids) = ids \cup {i \in DOMAIN identityIndex : identityIndex[i] = c}
        /\ Merged(c, ids) \subseteq Identities
        /\ DOMAIN identityIndex' = DOMAIN identityIndex \cup ids
        /\ \A i \in DOMAIN identityIndex' :
              identityIndex'[i] = IF i \in DOMAIN identityIndex THEN identityIndex[i] ELSE c
        /\ \A i \in ids : identityIndex'[i] = c
    BY UpsertMerges
  <1>2. UNCHANGED <<now, events, failureClassifications, records>>
        /\ customers' = Set(customers, c, Merged(c, ids))
    BY DEF UpsertByIdentities, idempotency
  <1>3. /\ DOMAIN customers' = DOMAIN customers \cup {c} /\ customers'[c] = Merged(c, ids)
        /\ \A d \in DOMAIN customers : d # c => customers'[d] = customers[d]
        /\ customers' = [d \in DOMAIN customers' |-> customers'[d]]
    BY <1>2 DEF Set
  <1>4. Types'
    <2>1. \A d \in DOMAIN customers' : customers'[d] \subseteq Identities
      BY <1>1, <1>3 DEF IInv, Types
    <2>2. customers' \in [DOMAIN customers' -> SUBSET Identities]
      BY <1>3, <2>1
    <2>3. \A i \in DOMAIN identityIndex' : identityIndex'[i] \in Customers
      BY <1>1 DEF IInv, Types
    <2>4. identityIndex' = [i \in DOMAIN identityIndex' |-> identityIndex'[i]]
      BY DEF UpsertByIdentities
    <2>5. DOMAIN customers' \subseteq Customers /\ DOMAIN identityIndex' \subseteq Identities
      BY <1>1, <1>3 DEF IInv, Types
    <2>6. /\ DOMAIN events' \subseteq Events /\ events' \in [DOMAIN events' -> Stored]
          /\ failureClassifications' \in [DOMAIN failureClassifications' -> Classification]
          /\ records' \in Seq([id : Events, customer : Customers])
      BY <1>2 DEF IInv, Types
    <2> QED
      BY <2>2, <2>3, <2>4, <2>5, <2>6 DEF Types
  <1>5. Clocked' /\ Recorded'
    BY <1>2 DEF IInv, Consistent, Clocked, Recorded
  <1>6. Indexed'
    <2>1. ASSUME NEW d \in DOMAIN customers'
          PROVE  /\ customers'[d] # {}
                 /\ customers'[d] = {i \in DOMAIN identityIndex' : identityIndex'[i] = d}
      <3>1. CASE d = c
        <4>1. customers'[d] = ids \cup {i \in DOMAIN identityIndex : identityIndex[i] = c}
          BY <1>1, <1>3, <3>1
        <4>2. \A i \in DOMAIN identityIndex' : identityIndex'[i] = c =>
                i \in ids \cup {j \in DOMAIN identityIndex : identityIndex[j] = c}
          BY <1>1
        <4>3. \A i \in ids \cup {j \in DOMAIN identityIndex : identityIndex[j] = c} :
                i \in DOMAIN identityIndex' /\ identityIndex'[i] = c
          BY <1>1
        <4>4. customers'[d] = {i \in DOMAIN identityIndex' : identityIndex'[i] = d}
          BY <3>1, <4>1, <4>2, <4>3
        <4>5. customers'[d] # {}
          BY <4>1
        <4> QED
          BY <4>4, <4>5
      <3>2. CASE d # c
        <4>1. /\ d \in DOMAIN customers /\ customers'[d] = customers[d] /\ customers[d] # {}
              /\ customers[d] = {i \in DOMAIN identityIndex : identityIndex[i] = d}
          BY <1>3, <3>2 DEF IInv, Consistent
        <4> QED
          BY <1>1, <3>2, <4>1
      <3> QED
        BY <3>1, <3>2
    <2>2. \A i \in DOMAIN identityIndex' : identityIndex'[i] \in DOMAIN customers'
      BY <1>1, <1>3 DEF IInv, Consistent
    <2> QED
      BY <2>1, <2>2 DEF Indexed
  <1> QED
    BY <1>4, <1>5, <1>6, Parts DEF IInv

LEMMA CreateLeadStep ==
  ASSUME IInv, NEW e \in Events, NEW c \in DOMAIN customers, CreateLead(e, c)
  PROVE  IInv'
PROOF
  <1> DEFINE lead == [id |-> e, customer |-> c]
  <1>1. UNCHANGED <<now, events, failureClassifications, customers, identityIndex>>
        /\ records' = Append(records, lead) /\ \A n \in DOMAIN records : records[n].id # e
    BY DEF CreateLead, idempotency, directory
  <1>2. lead \in [id : Events, customer : Customers] /\ lead.id = e
    BY DEF IInv, Types
  <1> HIDE DEF lead
  <1>3. records \in Seq([id : Events, customer : Customers])
    BY DEF IInv, Types
  <1>4. /\ records' \in Seq([id : Events, customer : Customers])
        /\ Len(records) \in Nat /\ DOMAIN records = 1..Len(records)
        /\ DOMAIN records' = 1..(Len(records) + 1)
        /\ \A n \in 1..Len(records) : records'[n] = records[n]
        /\ records'[Len(records) + 1] = lead
    BY <1>1, <1>2, <1>3
  <1>5. Types'
    BY <1>1, <1>4 DEF IInv, Types
  <1>6. Clocked' /\ Indexed'
    BY <1>1 DEF IInv, Consistent, Clocked, Indexed
  <1>7. Recorded'
    <2>1. \A m, n \in DOMAIN records : records[m].id = records[n].id => m = n
      BY DEF IInv, Consistent
    <2> QED
      BY <1>1, <1>2, <1>4, <2>1 DEF Recorded
  <1> QED
    BY <1>5, <1>6, <1>7, Parts DEF IInv

LEMMA Induction == IInv /\ [Next]_vars => IInv'
PROOF
  <1> SUFFICES ASSUME IInv, [Next]_vars
               PROVE  IInv'
    OBVIOUS
  <1>1. CASE UNCHANGED vars
    <2>1. UNCHANGED <<now, events, failureClassifications, customers, identityIndex, records>>
      BY <1>1 DEF vars, idempotency, directory
    <2> QED
      BY <2>1 DEF IInv, Types, Consistent
  <1>2. CASE Tick
    BY <1>2, TickStep
  <1>3. ASSUME NEW e \in Events, NEW t \in Tokens,
               \/ Begin(e, t) \/ Complete(e, t)
               \/ \E c \in Classification : Fail(e, t, c)
        PROVE  IInv'
    BY <1>3, BeginStep, CompleteStep, FailStep
  <1>4. ASSUME NEW ids \in (SUBSET Identities) \ {{}}, NEW c \in Customers,
               UpsertByIdentities(ids, c)
        PROVE  IInv'
    BY <1>4, UpsertStep
  <1>5. ASSUME NEW e \in Events, NEW c \in DOMAIN customers, CreateLead(e, c)
        PROVE  IInv'
    BY <1>5, CreateLeadStep
  <1> QED
    BY <1>1, <1>2, <1>3, <1>4, <1>5 DEF Next

(* The invariant is inductive.                                            *)
LEMMA Invariance == Spec => []IInv
PROOF
  BY InitIInv, Induction, PTL DEF Spec

(* The two maps of each repository of fakes.ts agree after any calls.      *)
THEOREM MapsAgree == Spec => []Consistent
PROOF
  BY Invariance, PTL DEF IInv

-----------------------------------------------------------------------------
(* The table.                                                              *)

TableRow == [e \in Events |-> Row(e)]

LEMMA RowIs ==
  ASSUME NEW e \in Events
  PROVE  /\ TableRow[e] = Row(e)
         /\ e \notin DOMAIN events =>
              Row(e) = [status |-> "absent", token |-> NoToken, reason |-> "none",
                        lease |-> "running"]
         /\ e \in DOMAIN events =>
              /\ Row(e).status = events[e].status
              /\ Row(e).token = events[e].token
              /\ Row(e).reason = IF events[e].status = "failed"
                                 THEN failureClassifications[e] ELSE "none"
              /\ Row(e).lease = IF now - events[e].startedAt > Lease
                                THEN "overdue" ELSE "running"
         /\ Row(e) = [status |-> Row(e).status, token |-> Row(e).token,
                      reason |-> Row(e).reason, lease |-> Row(e).lease]
PROOF
  BY DEF TableRow, Row

(* A step that leaves the repository and the clock alone leaves the table. *)
LEMMA TableFrame ==
  ASSUME UNCHANGED <<now, events, failureClassifications>>
  PROVE  TableRow' = TableRow
PROOF
  BY DEF TableRow, Row

(* A step about one event leaves the other rows.                           *)
LEMMA OtherRows ==
  ASSUME NEW e \in Events, now' = now, NEW r, Row(e)' = r,
         \A f \in Events \ {e} :
           /\ f \in DOMAIN events' <=> f \in DOMAIN events
           /\ f \in DOMAIN events =>
                /\ events'[f] = events[f]
                /\ failureClassifications'[f] = failureClassifications[f]
                     \/ events[f].status # "failed"
  PROVE  TableRow' = [TableRow EXCEPT ![e] = r]
PROOF
  <1>1. \A f \in Events \ {e} : Row(f)' = Row(f)
    BY DEF Row
  <1>2. TableRow' = [f \in Events |-> Row(f)']
    BY DEF TableRow
  <1> QED
    BY <1>1, <1>2 DEF TableRow

LEMMA TableTick ==
  ASSUME IInv, Tick
  PROVE  \E late \in SUBSET Events :
           TableRow' = [e \in Events |->
             IF e \in late THEN [TableRow[e] EXCEPT !.lease = "overdue"] ELSE TableRow[e]]
PROOF
  <1> DEFINE late == {e \in Events : e \in DOMAIN events /\ now' - events[e].startedAt > Lease}
  <1>1. UNCHANGED <<events, failureClassifications>> /\ now' = now + 1 /\ now \in Nat
    BY Numbers DEF Tick, idempotency, IInv, Consistent
  <1>2. ASSUME NEW e \in Events
        PROVE  Row(e)' = IF e \in late THEN [TableRow[e] EXCEPT !.lease = "overdue"]
                                       ELSE TableRow[e]
    <2>1. CASE e \notin DOMAIN events
      BY <1>1, <2>1, RowIs DEF Row
    <2>2. CASE e \in DOMAIN events
      <3>1. events[e].startedAt \in Nat
        BY <2>2 DEF IInv, Types, Stored
      <3>2. /\ TableRow[e] = Row(e)
            /\ Row(e)' = [Row(e) EXCEPT !.lease =
                            IF now' - events[e].startedAt > Lease THEN "overdue" ELSE "running"]
        BY <1>1, <2>2, RowIs DEF Row
      <3>3. e \notin late => now - events[e].startedAt <= Lease
        BY <1>1, <2>2, <3>1, Numbers
      <3>4. e \notin late => Row(e).lease = "running"
        BY <1>1, <2>2, <3>1, <3>3, Numbers, RowIs
      <3>5. CASE e \in late
        BY <3>2, <3>5
      <3>6. CASE e \notin late
        <4>1. Row(e)' = [Row(e) EXCEPT !.lease = "running"]
          BY <2>2, <3>2, <3>6
        <4>2. [Row(e) EXCEPT !.lease = "running"] = Row(e)
          BY <3>4, <3>6, RowIs
        <4> QED
          BY <3>2, <3>6, <4>1, <4>2
      <3> QED
        BY <3>5, <3>6
    <2> QED
      BY <2>1, <2>2
  <1>3. late \in SUBSET Events
    OBVIOUS
  <1>4. TableRow' = [e \in Events |-> Row(e)']
    BY DEF TableRow
  <1> HIDE DEF late
  <1>5. TableRow' = [e \in Events |->
             IF e \in late THEN [TableRow[e] EXCEPT !.lease = "overdue"] ELSE TableRow[e]]
    BY <1>2, <1>4
  <1> QED
    BY <1>3, <1>5

LEMMA TableBegin ==
  ASSUME IInv, NEW e \in Events, NEW t \in Tokens, Begin(e, t)
  PROVE  /\ \/ TableRow[e].status \in {"absent", "failed"}
            \/ TableRow[e].status = "processing" /\ TableRow[e].lease = "overdue"
         /\ TableRow' = [TableRow EXCEPT ![e] =
              [status |-> "processing", token |-> t, reason |-> "none", lease |-> "running"]]
PROOF
  <1>1. /\ events' = Set(events, e, [status |-> "processing", token |-> t, startedAt |-> now])
        /\ failureClassifications' = failureClassifications /\ now' = now
    BY DEF Begin
  <1>2. now \in Nat
    BY Numbers DEF IInv, Consistent
  <1>3. /\ DOMAIN events' = DOMAIN events \cup {e}
        /\ events'[e] = [status |-> "processing", token |-> t, startedAt |-> now]
        /\ \A f \in DOMAIN events : f # e => events'[f] = events[f]
    BY <1>1 DEF Set
  <1>4. Row(e)' = [status |-> "processing", token |-> t, reason |-> "none", lease |-> "running"]
    <2>1. ~(now' - events'[e].startedAt > Lease)
      BY <1>1, <1>2, <1>3, Numbers
    <2>2. e \in DOMAIN events' /\ events'[e].status = "processing" /\ events'[e].token = t
      BY <1>3
    <2> QED
      BY <2>1, <2>2 DEF Row
  <1>5. \/ TableRow[e].status \in {"absent", "failed"}
        \/ TableRow[e].status = "processing" /\ TableRow[e].lease = "overdue"
    <2>1. CASE e \notin DOMAIN events
      BY <2>1, RowIs
    <2>2. CASE e \in DOMAIN events
      <3>1. events[e].status \in {"processing", "completed", "failed"} /\ events[e].startedAt \in Nat
        BY <2>2 DEF IInv, Types, Stored
      <3>2. events[e].status # "completed"
              /\ (events[e].status = "processing" => now - events[e].startedAt > Lease)
        BY <1>2, <2>2, <3>1, Numbers DEF Begin, Active
      <3> QED
        BY <2>2, <3>1, <3>2, RowIs
    <2> QED
      BY <2>1, <2>2
  <1>6. \A f \in Events \ {e} :
           /\ f \in DOMAIN events' <=> f \in DOMAIN events
           /\ f \in DOMAIN events =>
                events'[f] = events[f] /\ failureClassifications'[f] = failureClassifications[f]
    BY <1>1, <1>3
  <1> QED
    BY <1>1, <1>4, <1>5, <1>6, OtherRows

LEMMA TableComplete ==
  ASSUME IInv, NEW e \in Events, NEW t \in Tokens, Complete(e, t)
  PROVE  /\ TableRow[e].status = "processing" /\ TableRow[e].token = t
         /\ TableRow' = [TableRow EXCEPT ![e] =
              [status |-> "completed", token |-> TableRow[e].token,
               reason |-> TableRow[e].reason, lease |-> TableRow[e].lease]]
PROOF
  <1>1. e \in DOMAIN events /\ events[e].status = "processing" /\ events[e].token = t
        /\ events' = [events EXCEPT ![e].status = "completed"]
        /\ failureClassifications' = failureClassifications /\ now' = now
    BY DEF Complete, HasLease
  <1>2. /\ DOMAIN events' = DOMAIN events
        /\ events'[e].status = "completed" /\ events'[e].token = events[e].token
        /\ events'[e].startedAt = events[e].startedAt
        /\ \A f \in DOMAIN events : f # e => events'[f] = events[f]
    BY <1>1, Settled
  <1>3. Row(e)' = [status |-> "completed", token |-> TableRow[e].token,
                  reason |-> TableRow[e].reason, lease |-> TableRow[e].lease]
    <2>1. /\ TableRow[e].token = events[e].token /\ TableRow[e].reason = "none"
          /\ TableRow[e].lease = IF now - events[e].startedAt > Lease THEN "overdue" ELSE "running"
      BY <1>1, RowIs
    <2>2. Row(e)' = [status |-> "completed", token |-> events[e].token, reason |-> "none",
                    lease |-> IF now - events[e].startedAt > Lease THEN "overdue" ELSE "running"]
      BY <1>1, <1>2 DEF Row
    <2> QED
      BY <2>1, <2>2
  <1>4. \A f \in Events \ {e} :
           /\ f \in DOMAIN events' <=> f \in DOMAIN events
           /\ f \in DOMAIN events =>
                events'[f] = events[f] /\ failureClassifications'[f] = failureClassifications[f]
    BY <1>1, <1>2
  <1>5. TableRow[e].status = "processing" /\ TableRow[e].token = t
    BY <1>1, RowIs
  <1> QED
    BY <1>1, <1>3, <1>4, <1>5, OtherRows

LEMMA TableFail ==
  ASSUME IInv, NEW e \in Events, NEW t \in Tokens, NEW c \in Classification, Fail(e, t, c)
  PROVE  /\ TableRow[e].status = "processing" /\ TableRow[e].token = t
         /\ TableRow' = [TableRow EXCEPT ![e] =
              [status |-> "failed", token |-> TableRow[e].token,
               reason |-> c, lease |-> TableRow[e].lease]]
PROOF
  <1>1. e \in DOMAIN events /\ events[e].status = "processing" /\ events[e].token = t
        /\ events' = [events EXCEPT ![e].status = "failed"]
        /\ failureClassifications' = Set(failureClassifications, e, c) /\ now' = now
    BY DEF Fail, HasLease
  <1>2. /\ DOMAIN events' = DOMAIN events
        /\ events'[e].status = "failed" /\ events'[e].token = events[e].token
        /\ events'[e].startedAt = events[e].startedAt
        /\ \A f \in DOMAIN events : f # e => events'[f] = events[f]
    BY <1>1, Settled
  <1>3. /\ failureClassifications'[e] = c
        /\ \A f \in DOMAIN failureClassifications :
             f # e => failureClassifications'[f] = failureClassifications[f]
    BY <1>1 DEF Set
  <1>4. Row(e)' = [status |-> "failed", token |-> TableRow[e].token,
                  reason |-> c, lease |-> TableRow[e].lease]
    <2>1. /\ TableRow[e].token = events[e].token
          /\ TableRow[e].lease = IF now - events[e].startedAt > Lease THEN "overdue" ELSE "running"
      BY <1>1, RowIs
    <2>2. Row(e)' = [status |-> "failed", token |-> events[e].token, reason |-> c,
                    lease |-> IF now - events[e].startedAt > Lease THEN "overdue" ELSE "running"]
      BY <1>1, <1>2, <1>3 DEF Row
    <2> QED
      BY <2>1, <2>2
  <1>5. \A f \in Events \ {e} :
           /\ f \in DOMAIN events' <=> f \in DOMAIN events
           /\ f \in DOMAIN events =>
                /\ events'[f] = events[f]
                /\ failureClassifications'[f] = failureClassifications[f]
                     \/ events[f].status # "failed"
    BY <1>2, <1>3 DEF IInv, Consistent
  <1>6. TableRow[e].status = "processing" /\ TableRow[e].token = t
    BY <1>1, RowIs
  <1> QED
    BY <1>1, <1>4, <1>5, <1>6, OtherRows

LEMMA TableStep ==
  ASSUME IInv, [Next]_vars
  PROVE  [Table!EventsNext]_TableRow
PROOF
  <1> USE DEF TableRow
  <1>1. CASE Tick
    BY <1>1, TableTick DEF Table!EventsNext
  <1>2. ASSUME NEW e \in Events, NEW t \in Tokens, Begin(e, t)
        PROVE  Table!EventsNext
    <2>1. Table!StartLease(e, t)
      BY <1>2, TableBegin DEF Table!StartLease, Table!Startable, Table!WriteRow
    <2> QED
      BY <2>1 DEF Table!EventsNext
  <1>3. ASSUME NEW e \in Events, NEW t \in Tokens, Complete(e, t)
        PROVE  Table!EventsNext
    <2>1. Table!CompleteLease(e, t)
      BY <1>3, TableComplete DEF Table!CompleteLease, Table!HoldsLease, Table!WriteRow
    <2> QED
      BY <2>1 DEF Table!EventsNext
  <1>4. ASSUME NEW e \in Events, NEW t \in Tokens, NEW c \in Classification, Fail(e, t, c)
        PROVE  Table!EventsNext
    <2>1. Table!FailLease(e, t, c)
      BY <1>4, TableFail DEF Table!FailLease, Table!HoldsLease, Table!WriteRow
    <2>2. c \in Table!Classification
      BY DEF Classification, Table!Classification
    <2> QED
      BY <2>1, <2>2 DEF Table!EventsNext
  <1>5. ASSUME NEW ids \in (SUBSET Identities) \ {{}}, NEW c \in Customers,
               UpsertByIdentities(ids, c)
        PROVE  UNCHANGED TableRow
    BY <1>5, TableFrame DEF UpsertByIdentities, idempotency
  <1>6. ASSUME NEW e \in Events, NEW c \in DOMAIN customers, CreateLead(e, c)
        PROVE  UNCHANGED TableRow
    BY <1>6, TableFrame DEF CreateLead, idempotency
  <1>7. CASE UNCHANGED vars
    BY <1>7, TableFrame DEF vars, idempotency
  <1> QED
    BY <1>1, <1>2, <1>3, <1>4, <1>5, <1>6, <1>7 DEF Next

-----------------------------------------------------------------------------
(* The directory.                                                          *)

OwnerOf(i) == IF i \in DOMAIN identityIndex THEN identityIndex[i] ELSE NoCustomer

BookOwner == [i \in Identities |-> OwnerOf(i)]

LEMMA BookUpsert ==
  ASSUME IInv, NEW ids \in (SUBSET Identities) \ {{}}, NEW c \in Customers,
         UpsertByIdentities(ids, c)
  PROVE  Book!Upsert(ids, c)
PROOF
  <1>1. \A i \in Identities : BookOwner[i] = OwnerOf(i)
    BY DEF BookOwner
  <1>2. \A i \in DOMAIN identityIndex :
          /\ i \in Identities /\ identityIndex[i] \in Customers
          /\ identityIndex[i] # NoCustomer /\ identityIndex[i] \in DOMAIN customers
    BY Numbers DEF IInv, Types, Consistent
  <1>3. \A i \in ids : BookOwner[i] # NoCustomer => i \in DOMAIN identityIndex /\ BookOwner[i] = c
    BY <1>1 DEF OwnerOf, UpsertByIdentities, OwnerIds
  <1>4. ~\E i, j \in ids : BookOwner[i] # NoCustomer /\ BookOwner[j] # NoCustomer
                             /\ BookOwner[i] # BookOwner[j]
    BY <1>3
  <1>5. c \in IF {BookOwner[i] : i \in ids} \ {NoCustomer} = {}
              THEN {d \in Customers : \A i \in Identities : BookOwner[i] # d}
              ELSE {BookOwner[i] : i \in ids} \ {NoCustomer}
    <2>1. CASE {BookOwner[i] : i \in ids} \ {NoCustomer} = {}
      <3>1. OwnerIds(ids) = {}
        BY <1>1, <1>2, <2>1 DEF OwnerIds, OwnerOf
      <3>2. c \notin DOMAIN customers
        BY <3>1 DEF UpsertByIdentities
      <3>3. \A i \in Identities : BookOwner[i] # c
        BY <1>1, <1>2, <3>2, Numbers DEF OwnerOf
      <3> QED
        BY <2>1, <3>3
    <2>2. CASE {BookOwner[i] : i \in ids} \ {NoCustomer} # {}
      BY <1>3, <2>2
    <2> QED
      BY <2>1, <2>2
  <1>6. BookOwner' = [i \in Identities |->
                       IF i \in ids /\ BookOwner[i] = NoCustomer THEN c ELSE BookOwner[i]]
    <2>1. /\ DOMAIN identityIndex' = DOMAIN identityIndex \cup ids
          /\ \A i \in DOMAIN identityIndex' :
               identityIndex'[i] = IF i \in DOMAIN identityIndex THEN identityIndex[i] ELSE c
      BY UpsertMerges
    <2>2. ASSUME NEW i \in Identities
          PROVE  OwnerOf(i)' = IF i \in ids /\ BookOwner[i] = NoCustomer THEN c ELSE BookOwner[i]
      BY <1>1, <1>2, <2>1 DEF OwnerOf
    <2>3. BookOwner' = [i \in Identities |-> OwnerOf(i)']
      BY DEF BookOwner
    <2> QED
      BY <2>2, <2>3
  <1>7. BookOwner = [i \in Identities |->
                      IF i \in DOMAIN identityIndex THEN identityIndex[i] ELSE NoCustomer]
    BY DEF BookOwner, OwnerOf
  <1>8. BookOwner' = [i \in Identities |->
                       IF i \in DOMAIN identityIndex' THEN identityIndex'[i] ELSE NoCustomer]
    BY DEF BookOwner, OwnerOf
  <1>9. ~Book!Conflicting(ids)
    BY <1>4, <1>7 DEF Book!Conflicting
  <1>10. c \in Book!Candidates(ids)
    BY <1>5, <1>7 DEF Book!Candidates, Book!Owners, Book!Unused
  <1> QED
    BY <1>6, <1>7, <1>8, <1>9, <1>10 DEF Book!Upsert

LEMMA BookStep ==
  ASSUME IInv, [Next]_vars
  PROVE  [Book!DirectoryNext]_BookOwner
PROOF
  <1>1. ASSUME NEW ids \in (SUBSET Identities) \ {{}}, NEW c \in Customers,
               UpsertByIdentities(ids, c)
        PROVE  Book!DirectoryNext
    BY <1>1, BookUpsert DEF Book!DirectoryNext
  <1>2. ASSUME UNCHANGED identityIndex
        PROVE  UNCHANGED BookOwner
    BY <1>2 DEF BookOwner, OwnerOf
  <1>3. CASE UNCHANGED vars
    BY <1>2, <1>3 DEF vars, directory
  <1>4. CASE Tick
    BY <1>2, <1>4 DEF Tick, directory
  <1>5. ASSUME NEW e \in Events, NEW t \in Tokens,
               \/ Begin(e, t) \/ Complete(e, t)
               \/ \E c \in Classification : Fail(e, t, c)
        PROVE  UNCHANGED BookOwner
    BY <1>2, <1>5 DEF Begin, Complete, Fail, directory
  <1>6. ASSUME NEW e \in Events, NEW c \in DOMAIN customers, CreateLead(e, c)
        PROVE  UNCHANGED BookOwner
    BY <1>2, <1>6 DEF CreateLead, directory
  <1> QED
    BY <1>1, <1>3, <1>4, <1>5, <1>6 DEF Next

(* Whatever a caller sees through the in-memory repositories it could see  *)
(* through the PostgreSQL ones: begin, complete and fail do what the three *)
(* statements do, and upsertByIdentities what the transaction promises.    *)
THEOREM MapsImplementTables == Spec => ImplementsTables
PROOF
  <1>1. Init => Table!EventsInit
    BY DEF Init, Empty, Row, Table!EventsInit, Table!NoRow
  <1>2. Init => Book!DirectoryInit
    BY DEF Init, Empty, Book!DirectoryInit, Book!Directory
  <1>3. IInv /\ [Next]_vars => [Table!EventsNext]_([e \in Events |-> Row(e)])
    BY TableStep DEF TableRow
  <1>4. IInv /\ [Next]_vars =>
          [Book!DirectoryNext]_([i \in Identities |->
              IF i \in DOMAIN identityIndex THEN identityIndex[i] ELSE NoCustomer])
    BY BookStep DEF BookOwner, OwnerOf
  <1> QED
    BY <1>1, <1>2, <1>3, <1>4, Invariance, PTL
    DEF Spec, ImplementsTables, Table!EventsSpec, Book!DirectorySpec
=============================================================================
