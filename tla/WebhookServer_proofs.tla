------------------------ MODULE WebhookServer_proofs ------------------------
(***************************************************************************)
(* Theorems about WebhookServer, for any number of requests, any limit and *)
(* any pool: what a status tells, what a shutdown may leave behind, and    *)
(* that it cuts no accepted request off.                                   *)
(***************************************************************************)
EXTENDS WebhookServer, TLAPS

-----------------------------------------------------------------------------
(* The inductive invariant.                                                *)

(* The awaits after the upsert.                                            *)
Resolved == {"crm", "lead", "sheet", "complete"}

(* What was read is part of the body, a request in the pipeline passed     *)
(* every test, and one whose customer was found has no conflict.           *)
Checked(r) ==
  /\ got[r] <= size[r]
  /\ step[r] = "none" => got[r] = 0
  /\ step[r] = "reading" => got[r] <= Limit
  /\ step[r] \in InPipeline => size[r] <= Limit /\ Authentic(r) /\ content[r] # "invalid"
  /\ step[r] \in Resolved => content[r] # "conflicting"

Admitted == \A r \in Requests : Checked(r)

(* Nothing happens before the server listens.                              *)
Quiet ==
  server \in {"down", "starting", "refused"} =>
    row = "absent" /\ \A r \in Requests : step[r] = "none"

Ended == pool \in {"ending", "ended"}

(* When the pool is ended nobody waits for an answer.                      *)
Unobserved ==
  Ended =>
    /\ server \in {"closed", "refused"}
    /\ \A r \in Requests : step[r] \in {"none", "done"} \/ r \in gone

(* As long as the database does not fail and is not ended, the event is in *)
(* processing just while one invocation works on it.                       *)
Healthy == faults = 0 /\ ~Ended

(* What makes an invocation fail when the database is healthy.             *)
Faulty(r) == content[r] \in {"unreadable", "conflicting"} \/ r \in undelivered

OneWorker ==
  Healthy =>
    /\ row = "processing" <=> \E r \in Requests : Working(r)
    /\ \A r, q \in Requests : Working(r) /\ Working(q) => r = q
    /\ \A r \in Requests : step[r] = "fail" => Faulty(r)

Abandoned == Ended /\ faults = 0 /\ row = "processing" => gone # {}

IInv ==
  /\ TypeOK /\ Admitted /\ Quiet /\ Unobserved /\ OneWorker /\ Abandoned
  /\ StatusAsDeserved

-----------------------------------------------------------------------------
(* What the steps of an invocation do to its own entries.                  *)

LEMMA MovesOne ==
  ASSUME TypeOK, NEW r \in Requests
  PROVE  /\ \A next \in InPipeline \cup {"reading"} : Goto(r, next) =>
              /\ step' \in [Requests -> InPipeline \cup {"none", "reading", "done"}]
              /\ status' = status /\ undelivered' = undelivered /\ step'[r] = next
              /\ \A q \in Requests \ {r} : step'[q] = step[q]
         /\ \A code \in {201, 202, 400, 401, 413, 500} : Answer(r, code) =>
              /\ step' \in [Requests -> InPipeline \cup {"none", "reading", "done"}]
              /\ status' \in [Requests -> {0, 201, 202, 400, 401, 413, 500}]
              /\ undelivered' = undelivered /\ step'[r] = "done" /\ status'[r] = code
              /\ \A q \in Requests \ {r} : step'[q] = step[q] /\ status'[q] = status[q]
PROOF
  BY DEF TypeOK, Goto, Answer

(* An invocation uses the database by a statement, or without one.         *)
Others(r) ==
  \A q \in Requests \ {r} :
    /\ step'[q] = step[q] /\ status'[q] = status[q]
    /\ q \in undelivered' <=> q \in undelivered

Typed ==
  /\ step' \in [Requests -> InPipeline \cup {"none", "reading", "done"}]
  /\ status' \in [Requests -> {0, 201, 202, 400, 401, 413, 500}]
  /\ undelivered' \subseteq Requests

LEMMA Throws ==
  ASSUME TypeOK, NEW r \in Requests, step[r] \in InPipeline, Throw(r)
  PROVE  /\ Typed /\ Others(r)
         /\ \/ /\ step[r] \in {"begin", "fail"}
               /\ step'[r] = "done" /\ status'[r] = 500
            \/ /\ step[r] \notin {"begin", "fail"}
               /\ step'[r] = "fail" /\ status' = status
PROOF
  BY MovesOne DEF Throw, Typed, Others, InPipeline, InDatabase, AtAdapter, TypeOK

LEMMA Statements ==
  ASSUME TypeOK, NEW r \in Requests, Statement(r)
  PROVE  /\ Typed /\ Others(r)
         /\ row' \in {"processing", "completed", "failed"} \cup {row}
         /\ undelivered' = undelivered
         /\ \/ /\ step[r] = "begin" /\ row \in {"absent", "failed"} /\ row' = "processing"
               /\ step'[r] = (IF content[r] = "unreadable" THEN "fail" ELSE "customer")
               /\ status' = status
            \/ /\ step[r] = "begin" /\ row \in {"processing", "completed"} /\ row' = row
               /\ step'[r] = "done" /\ status'[r] = 202
            \/ /\ step[r] = "customer" /\ row' = row
               /\ step'[r] = (IF content[r] = "conflicting" THEN "fail" ELSE "crm")
               /\ status' = status
            \/ /\ step[r] = "lead" /\ row' = row
               /\ step'[r] = "sheet" /\ status' = status
            \/ /\ step[r] = "complete" /\ row = "processing" /\ row' = "completed"
               /\ step'[r] = "done"
               /\ status'[r] = (IF content[r] = "vague" THEN 202 ELSE 201)
            \/ /\ step[r] = "fail"
               /\ row' = (IF row = "processing" THEN "failed" ELSE row)
               /\ step'[r] = "done"
               /\ status'[r] =
                    (IF row = "processing" /\ content[r] = "unreadable" THEN 400 ELSE 500)
PROOF
  <1>1. CASE Begin(r)
    BY <1>1, MovesOne DEF Begin, Typed, Others, InPipeline, InDatabase, AtAdapter, TypeOK
  <1>5. CASE Upsert(r)
    BY <1>5, MovesOne DEF Upsert, Typed, Others, InPipeline, InDatabase, AtAdapter, TypeOK
  <1>2. CASE CreateLead(r)
    BY <1>2, MovesOne DEF CreateLead, Typed, Others, InPipeline, InDatabase, AtAdapter, TypeOK
  <1>3. CASE Complete(r)
    BY <1>3, MovesOne DEF Complete, Typed, Others, InPipeline, InDatabase, AtAdapter, TypeOK
  <1>4. CASE Fail(r)
    BY <1>4, MovesOne DEF Fail, Typed, Others, InPipeline, InDatabase, AtAdapter, TypeOK
  <1> QED
    BY <1>1, <1>2, <1>3, <1>4, <1>5 DEF Statement

-----------------------------------------------------------------------------
(* The start and the end of the server.                                    *)

LEMMA LifecycleStep ==
  ASSUME IInv, Lifecycle
  PROVE  IInv'
PROOF
  <1> USE DEF IInv
  <1>1. UNCHANGED <<config, body, handling, row, clients, faults, gone>>
    BY DEF Lifecycle, Start, Listen, ListenFails, Close, Closed, PoolEnds, boot, database
  <1>2. TypeOK'
    BY <1>1 DEF Lifecycle, Start, Listen, ListenFails, Close, Closed, PoolEnds, boot, database,
                Supported, CloseRuntime, TypeOK, body, handling, Contents
  <1>3. Admitted'
    BY <1>1 DEF Admitted, Checked, Resolved, Authentic, body, handling
  <1>4. StatusAsDeserved'
    BY <1>1 DEF StatusAsDeserved, Authentic, body, handling
  <1>5. Quiet'
    BY <1>1 DEF Quiet, Lifecycle, Start, Listen, ListenFails, Close, Closed, PoolEnds, boot,
                handling, Supported
  <1>6. Unobserved'
    <2>1. CASE Closed
      BY <1>1, <2>1 DEF Closed, Connected, Unobserved, handling, CloseRuntime, Ended
    <2>2. CASE ListenFails
      BY <1>1, <2>2 DEF ListenFails, Quiet, Unobserved, handling, CloseRuntime, Ended
    <2>3. CASE Start \/ Listen \/ Close \/ PoolEnds
      BY <1>1, <2>3 DEF Start, Listen, Close, PoolEnds, Unobserved, handling, Ended, boot,
                        database, Supported
    <2> QED
      BY <2>1, <2>2, <2>3 DEF Lifecycle
  <1>7. Ended => Ended'
    BY DEF Ended, Lifecycle, Start, Listen, ListenFails, Close, Closed, PoolEnds, boot, database,
           CloseRuntime, Unobserved
  <1>8. OneWorker'
    BY <1>1, <1>7 DEF OneWorker, Faulty, Healthy, Working, handling, body
  <1>9. Abandoned'
    <2> SUFFICES ASSUME Ended', faults' = 0, row' = "processing"
                 PROVE  gone' # {}
      BY DEF Abandoned
    <2>1. CASE Ended
      BY <1>1, <2>1 DEF Abandoned
    <2>2. CASE ~Ended
      <3>1. PICK r \in Requests : Working(r)
        BY <1>1, <2>2 DEF OneWorker, Healthy
      <3>2. r \in gone
        BY <1>1, <1>6, <3>1 DEF Unobserved, Working, InPipeline, InDatabase, AtAdapter, handling
      <3> QED
        BY <1>1, <3>2
    <2> QED
      BY <2>1, <2>2
  <1> QED
    BY <1>2, <1>3, <1>4, <1>5, <1>6, <1>8, <1>9

-----------------------------------------------------------------------------
(* A request before its invocation, and a client that goes away.           *)

LEMMA PostStep ==
  ASSUME IInv, NEW r \in Requests, Post(r)
  PROVE  IInv'
PROOF
  <1> USE DEF IInv
  <1>1. /\ Typed /\ Others(r) /\ step'[r] = "reading" /\ status' = status
        /\ UNCHANGED <<boot, got, database, gone>>
    BY MovesOne DEF Post, Typed, Others, TypeOK
  <1>2. /\ size' \in [Requests -> Nat] /\ content' \in [Requests -> Contents]
        /\ \A q \in Requests \ {r} : size'[q] = size[q] /\ content'[q] = content[q]
    BY ServerAssumption DEF Post, TypeOK
  <1>3. server = "listening" /\ step[r] = "none" /\ got[r] = 0
    BY DEF Post, Admitted, Checked
  <1>4. TypeOK'
    BY <1>1, <1>2, <1>3 DEF TypeOK, Typed, Others, boot, database, InPipeline, InDatabase, AtAdapter
  <1>5. Admitted'
    BY <1>1, <1>2, <1>3, <1>4, ServerAssumption
    DEF Admitted, Checked, Resolved, Authentic, Others, boot, TypeOK, InPipeline, InDatabase, AtAdapter
  <1>6. StatusAsDeserved'
    BY <1>1, <1>2 DEF StatusAsDeserved, Authentic, Others, boot, database
  <1>7. Quiet' /\ Unobserved' /\ Abandoned'
    BY <1>1, <1>3 DEF Quiet, Unobserved, Abandoned, Ended, boot, database
  <1>8. OneWorker'
    BY <1>1, <1>2, <1>3 DEF OneWorker, Faulty, Healthy, Ended, Working, InPipeline, InDatabase, AtAdapter, Others, database
  <1> QED
    BY <1>4, <1>5, <1>6, <1>7, <1>8

(* A request that ends before its invocation.                              *)
LEMMA EndStep ==
  ASSUME IInv, NEW r \in Requests, step[r] = "reading", Typed, Others(r), step'[r] = "done",
         UNCHANGED <<boot, size, content, database>>,
         gone \subseteq gone', gone' \subseteq Requests,
         got' \in [Requests -> Nat], got'[r] <= size[r],
         \A q \in Requests \ {r} : got'[q] = got[q],
         \/ r \in gone'
         \/ status'[r] = 413 /\ size[r] > Limit
         \/ status'[r] = 401 /\ size[r] <= Limit /\ ~Authentic(r)
         \/ status'[r] = 400 /\ size[r] <= Limit /\ Authentic(r) /\ content[r] = "invalid"
  PROVE  IInv'
PROOF
  <1> USE DEF IInv
  <1>1. TypeOK'
    BY DEF TypeOK, Typed, Others, boot, database, InPipeline, InDatabase, AtAdapter
  <1>2. Admitted'
    BY DEF Admitted, Checked, Resolved, Authentic, Others, boot, InPipeline, InDatabase, AtAdapter
  <1>3. StatusAsDeserved'
    BY ServerAssumption DEF StatusAsDeserved, Authentic, Others, boot, database, TypeOK
  <1>4. Quiet' /\ Unobserved' /\ Abandoned'
    BY DEF Quiet, Unobserved, Abandoned, Ended, Others, boot, database
  <1>5. OneWorker'
    BY DEF OneWorker, Faulty, Healthy, Ended, Working, InPipeline, InDatabase, AtAdapter, Others, database
  <1> QED
    BY <1>1, <1>2, <1>3, <1>4, <1>5

(* A request that stands where it stood, though more of it was read or its *)
(* client went away.                                                       *)
LEMMA StayStep ==
  ASSUME IInv, NEW r \in Requests, step[r] # "none",
         UNCHANGED <<boot, size, content, database, handling>>,
         gone \subseteq gone', gone' \subseteq Requests,
         got' \in [Requests -> Nat], got'[r] <= size[r],
         \A q \in Requests \ {r} : got'[q] = got[q],
         step[r] = "reading" => got'[r] <= Limit
  PROVE  IInv'
PROOF
  <1> USE DEF IInv
  <1>1. TypeOK' /\ Admitted'
    BY DEF TypeOK, Admitted, Checked, Authentic, handling, boot, database, InPipeline, InDatabase, AtAdapter
  <1>2. StatusAsDeserved'
    BY DEF StatusAsDeserved, Authentic, handling, boot, database
  <1>3. Quiet' /\ Unobserved' /\ Abandoned' /\ OneWorker'
    BY DEF Faulty, Quiet, Unobserved, Abandoned, OneWorker, Working, Healthy, Ended, handling, boot,
           database
  <1> QED
    BY <1>1, <1>2, <1>3

LEMMA ReadStep ==
  ASSUME IInv, NEW r \in Requests, Read(r)
  PROVE  IInv'
PROOF
  <1> USE DEF IInv
  <1>1. PICK n \in 1..(size[r] - got[r]) :
          /\ got' = [got EXCEPT ![r] = @ + n]
          /\ IF got[r] + n > Limit THEN Answer(r, 413) ELSE UNCHANGED handling
    BY DEF Read
  <1>2. /\ got' \in [Requests -> Nat] /\ got'[r] = got[r] + n /\ got'[r] <= size[r]
        /\ \A q \in Requests \ {r} : got'[q] = got[q]
        /\ step[r] = "reading" /\ UNCHANGED <<boot, size, content, database, gone>>
        /\ gone \subseteq gone' /\ gone' \subseteq Requests
        /\ size[r] \in Nat /\ got[r] \in Nat
    BY <1>1 DEF Read, TypeOK
  <1>3. CASE got[r] + n > Limit
    <2>1. Typed /\ Others(r) /\ step'[r] = "done" /\ status'[r] = 413
      BY <1>1, <1>3, MovesOne DEF TypeOK, Typed, Others
    <2>2. size[r] > Limit
      BY <1>2, <1>3, ServerAssumption
    <2> QED
      BY <1>2, <2>1, <2>2, EndStep
  <1>4. CASE ~(got[r] + n > Limit)
    BY <1>1, <1>2, <1>4, StayStep, ServerAssumption
  <1> QED
    BY <1>3, <1>4

LEMMA LeaveStep ==
  ASSUME IInv, NEW r \in Requests, Leave(r)
  PROVE  IInv'
PROOF
  <1> USE DEF IInv
  <1>1. /\ UNCHANGED <<boot, size, got, content, database>> /\ step[r] # "none" /\ r \in gone'
        /\ gone \subseteq gone' /\ gone' \subseteq Requests
        /\ got' \in [Requests -> Nat] /\ got'[r] <= size[r]
        /\ step[r] = "reading" => got'[r] <= Limit
    BY DEF Leave, body, Connected, TypeOK, Admitted, Checked
  <1>2. CASE step[r] = "reading"
    <2>1. Typed /\ Others(r) /\ step'[r] = "done"
      BY <1>2, MovesOne DEF TypeOK, Leave, Typed, Others
    <2> QED
      BY <1>1, <1>2, <2>1, EndStep
  <1>3. CASE step[r] # "reading"
    <2>1. UNCHANGED handling
      BY <1>3 DEF Leave
    <2> QED
      BY <1>1, <2>1, StayStep
  <1> QED
    BY <1>2, <1>3

LEMMA HandleStep ==
  ASSUME IInv, NEW r \in Requests, Handle(r)
  PROVE  IInv'
PROOF
  <1> USE DEF IInv
  <1>1. /\ UNCHANGED <<boot, size, got, content, database, gone>> /\ step[r] = "reading"
        /\ gone \subseteq gone' /\ gone' \subseteq Requests
        /\ got' \in [Requests -> Nat] /\ got'[r] <= size[r] /\ size[r] <= Limit
    BY DEF Handle, body, TypeOK, Admitted, Checked
  <1>2. CASE ~Authentic(r)
    <2>1. Typed /\ Others(r) /\ step'[r] = "done" /\ status'[r] = 401
      BY <1>2, MovesOne DEF TypeOK, Handle, Typed, Others
    <2> QED
      BY <1>1, <1>2, <2>1, EndStep
  <1>3. CASE Authentic(r) /\ content[r] = "invalid"
    <2>1. Typed /\ Others(r) /\ step'[r] = "done" /\ status'[r] = 400
      BY <1>3, MovesOne DEF TypeOK, Handle, Typed, Others
    <2> QED
      BY <1>1, <1>3, <2>1, EndStep
  <1>4. CASE Authentic(r) /\ content[r] # "invalid"
    <2>1. Typed /\ Others(r) /\ step'[r] = "begin" /\ status' = status
      BY <1>4, MovesOne DEF Handle, Typed, Others, InPipeline, InDatabase, AtAdapter, TypeOK
    <2>2. TypeOK'
      BY <1>1, <2>1 DEF TypeOK, Typed, Others, boot, database, InPipeline, InDatabase, AtAdapter
    <2>3. Admitted'
      BY <1>1, <1>4, <2>1 DEF Admitted, Checked, Resolved, Authentic, Others, boot, InPipeline, InDatabase, AtAdapter
    <2>4. StatusAsDeserved'
      BY <1>1, <2>1 DEF StatusAsDeserved, Authentic, Others, boot, database
    <2>5. Quiet' /\ Unobserved' /\ Abandoned'
      BY <1>1, <2>1 DEF Quiet, Unobserved, Abandoned, Ended, Others, boot, database
    <2>6. OneWorker'
      BY <1>1, <2>1 DEF OneWorker, Faulty, Healthy, Ended, Working, InPipeline, InDatabase, AtAdapter, Others, database
    <2> QED
      BY <2>2, <2>3, <2>4, <2>5, <2>6
  <1> QED
    BY <1>2, <1>3, <1>4

-----------------------------------------------------------------------------
(* An invocation and the database.                                         *)

LEMMA ConnectStep ==
  ASSUME IInv, NEW r \in Requests, Connect(r)
  PROVE  IInv'
PROOF
  <1> USE DEF IInv
  <1>1. UNCHANGED <<boot, body, handling, pool, row, faults, gone>>
    BY DEF Connect
  <1>2. TypeOK'
    BY <1>1 DEF Connect, Waiting, TypeOK, boot, body, handling
  <1>3. Admitted' /\ StatusAsDeserved'
    BY <1>1 DEF Admitted, Checked, Resolved, StatusAsDeserved, Authentic, boot, body, handling
  <1>4. Quiet' /\ Unobserved' /\ Abandoned' /\ OneWorker'
    BY <1>1 DEF Faulty, Quiet, Unobserved, Abandoned, OneWorker, Working, Healthy, Ended, boot, body,
                handling
  <1> QED
    BY <1>2, <1>3, <1>4

(* What holds after a step of an invocation whatever it does to the row.   *)
LEMMA InvocationStep ==
  ASSUME IInv, NEW r \in Requests, step[r] \in InPipeline, Typed, Others(r),
         step'[r] \in InPipeline \cup {"done"},
         UNCHANGED <<boot, body, pool, gone>>,
         row' \in {"absent", "processing", "completed", "failed"}, faults' \in 0..MaxFaults,
         clients' \subseteq clients, r \notin clients',
         step'[r] \in Resolved => content[r] # "conflicting"
  PROVE  TypeOK' /\ Admitted' /\ Quiet' /\ Unobserved'
PROOF
  <1> USE DEF IInv
  <1>1. TypeOK'
    BY DEF TypeOK, Typed, Others, boot, body, InPipeline, InDatabase, AtAdapter
  <1>2. Admitted'
    BY DEF Admitted, Checked, Resolved, Authentic, Others, boot, body, InPipeline, InDatabase, AtAdapter
  <1>3. Quiet' /\ Unobserved'
    BY DEF Quiet, Unobserved, Ended, Others, boot, InPipeline, InDatabase, AtAdapter
  <1> QED
    BY <1>1, <1>2, <1>3

(* A step of an invocation that counts as a fault.                         *)
LEMMA FaultStep ==
  ASSUME IInv, NEW r \in Requests, step[r] \in InPipeline, Throw(r),
         UNCHANGED <<boot, body, pool, gone>>, faults < MaxFaults, faults' = faults + 1,
         clients' = clients \ {r},
         row' \in {"processing", "completed", "failed"} \cup {row},
         row = "completed" => row' = row
  PROVE  IInv'
PROOF
  <1> USE DEF IInv
  <1>1. /\ faults' \in 0..MaxFaults /\ faults' > 0
        /\ row' \in {"absent", "processing", "completed", "failed"}
    BY ServerAssumption DEF TypeOK
  <1>2. /\ Typed /\ Others(r)
        /\ \/ step'[r] = "done" /\ status'[r] = 500
           \/ step'[r] = "fail" /\ status' = status
    BY Throws
  <1>3. TypeOK' /\ Admitted' /\ Quiet' /\ Unobserved'
    BY <1>1, <1>2, InvocationStep DEF Resolved, InPipeline, InDatabase, AtAdapter
  <1>4. OneWorker' /\ Abandoned'
    BY <1>1 DEF OneWorker, Faulty, Healthy, Abandoned
  <1>5. StatusAsDeserved'
    <2> SUFFICES ASSUME NEW q \in Requests, step'[q] = "done", q \notin gone'
                 PROVE  /\ status'[q] = 413 <=> size'[q] > Limit
                        /\ status'[q] # 413 => (status'[q] = 401 <=> ~Authentic(q)')
                        /\ content'[q] = "invalid" => status'[q] \in {413, 401, 400}
                        /\ status'[q] = 400 => content'[q] \in {"invalid", "unreadable"}
                        /\ status'[q] = 201 =>
                             row' = "completed" /\ content'[q] \notin {"vague", "conflicting"}
                        /\ status'[q] = 202 => row' # "absent"
                        /\ status'[q] = 500 =>
                             \/ faults' > 0 \/ content'[q] = "conflicting"
                             \/ q \in undelivered'
      BY DEF StatusAsDeserved
    <2>1. CASE q = r
      <3>1. status'[r] = 500
        BY <1>2, <2>1
      <3>2. /\ size[r] \in Nat /\ size[r] <= Limit /\ Authentic(r) /\ content[r] # "invalid"
        BY DEF Admitted, Checked, Resolved, TypeOK
      <3> QED
        BY <1>1, <2>1, <3>1, <3>2, ServerAssumption DEF Authentic, boot, body
    <2>2. CASE q # r
      BY <1>1, <1>2, <2>2 DEF StatusAsDeserved, Others, Authentic, boot, body
    <2> QED
      BY <2>1, <2>2
  <1> QED
    BY <1>3, <1>4, <1>5

LEMMA FaultSteps ==
  ASSUME IInv, NEW r \in Requests, ConnectTimeout(r) \/ QueryFails(r)
  PROVE  IInv'
PROOF
  <1> USE DEF IInv
  <1>1. CASE ConnectTimeout(r)
    <2>1. clients' = clients \ {r}
      BY <1>1 DEF ConnectTimeout, Waiting
    <2> QED
      BY <1>1, <2>1, FaultStep DEF InPipeline, InDatabase, AtAdapter, ConnectTimeout, Waiting
  <1>2. CASE QueryFails(r)
    <2>1. step[r] \in InPipeline
      BY <1>2 DEF InPipeline, InDatabase, AtAdapter, QueryFails, TypeOK
    <2> QED
      BY <1>2, <2>1, FaultStep DEF QueryFails
  <1> QED
    BY <1>1, <1>2

LEMMA RefuseStep ==
  ASSUME IInv, NEW r \in Requests, Refuse(r)
  PROVE  IInv'
PROOF
  <1> USE DEF IInv
  <1>1. /\ step[r] \in InPipeline /\ r \notin clients /\ Ended /\ Throw(r)
        /\ UNCHANGED <<boot, body, pool, gone, row, clients, faults>>
    BY DEF InPipeline, InDatabase, AtAdapter, Refuse, Waiting, Ended, database
  <1>2. Typed /\ Others(r) /\ step'[r] \in {"done", "fail"}
    BY <1>1, Throws
  <1>3. r \in gone
    BY <1>1 DEF Unobserved, InPipeline, InDatabase, AtAdapter
  <1>4. TypeOK' /\ Admitted' /\ Quiet' /\ Unobserved'
    BY <1>1, <1>2, InvocationStep DEF Resolved, InPipeline, InDatabase, AtAdapter, TypeOK
  <1>5. OneWorker' /\ Abandoned'
    BY <1>1 DEF OneWorker, Faulty, Healthy, Abandoned, Ended
  <1>6. StatusAsDeserved'
    BY <1>1, <1>2, <1>3 DEF StatusAsDeserved, Others, Authentic, boot, body
  <1> QED
    BY <1>4, <1>5, <1>6

(* A statement keeps the event with one worker.                            *)
LEMMA WorkerStep ==
  ASSUME IInv, NEW r \in Requests, Statement(r), UNCHANGED <<body, pool, faults>>
  PROVE  OneWorker'
PROOF
  <1> USE DEF IInv
  <1> SUFFICES ASSUME Healthy, Healthy'
               PROVE  /\ row' = "processing" <=> \E q \in Requests : Working(q)'
                      /\ \A p, q \in Requests : Working(p)' /\ Working(q)' => p = q
                      /\ \A q \in Requests : step'[q] = "fail" => Faulty(q)'
    BY DEF OneWorker, Faulty, Healthy, Ended
  <1>1. /\ row = "processing" <=> \E q \in Requests : Working(q)
        /\ \A p, q \in Requests : Working(p) /\ Working(q) => p = q
        /\ \A q \in Requests : step[q] = "fail" => Faulty(q)
    BY DEF OneWorker
  <1>2. /\ Others(r) /\ \A q \in Requests \ {r} : Working(q)' <=> Working(q)
        /\ \A q \in Requests : Faulty(q)' <=> Faulty(q)
    BY Statements DEF body, Others, Working, Faulty
  <1>3. CASE step[r] = "begin" /\ row' = "processing" /\ row # "processing"
    <2>1. Working(r)' /\ \A q \in Requests \ {r} : ~Working(q)'
      BY <1>1, <1>2, <1>3, Statements DEF Working, InPipeline, InDatabase, AtAdapter
    <2>2. step'[r] = "fail" => Faulty(r)
      BY <1>3, Statements DEF Faulty
    <2> QED
      BY <1>1, <1>2, <1>3, <2>1, <2>2 DEF Others
  <1>4. CASE step[r] = "begin" /\ row' = row
    <2>1. ~Working(r) /\ ~Working(r)' /\ step'[r] # "fail"
      BY <1>4, Statements DEF Working, InPipeline, InDatabase, AtAdapter
    <2> QED
      BY <1>1, <1>2, <1>4, <2>1 DEF Others
  <1>5. CASE step[r] \in {"customer", "lead"}
    <2>1. Working(r) /\ Working(r)' /\ row' = row /\ (step'[r] = "fail" => Faulty(r))
      BY <1>5, Statements DEF Working, InPipeline, InDatabase, AtAdapter, Faulty
    <2> QED
      BY <1>1, <1>2, <2>1 DEF Others
  <1>6. CASE step[r] \in {"complete", "fail"}
    <2>1. Working(r) /\ ~Working(r)' /\ step'[r] # "fail"
      BY <1>6, Statements DEF Working, InPipeline, InDatabase, AtAdapter
    <2>2. \A q \in Requests : ~Working(q)'
      BY <1>1, <1>2, <2>1
    <2>3. row' # "processing"
      BY <1>6, Statements
    <2> QED
      BY <1>1, <1>2, <2>1, <2>2, <2>3 DEF Others
  <1> QED
    BY <1>3, <1>4, <1>5, <1>6, Statements

LEMMA QueryStep ==
  ASSUME IInv, NEW r \in Requests, Query(r)
  PROVE  IInv'
PROOF
  <1> USE DEF IInv
  <1>1. /\ step[r] \in InPipeline /\ Statement(r) /\ clients' = clients \ {r}
        /\ UNCHANGED <<boot, body, pool, faults, gone>>
    BY DEF InPipeline, InDatabase, AtAdapter, Query, Waiting, TypeOK
  <1>2. /\ Typed /\ Others(r) /\ row' \in {"processing", "completed", "failed"} \cup {row}
        /\ step'[r] \in InPipeline \cup {"done"}
        /\ step'[r] \in Resolved => content[r] # "conflicting"
        /\ row = "completed" => row' = row
        /\ undelivered' = undelivered
    BY <1>1, Statements DEF InPipeline, InDatabase, AtAdapter, Admitted, Checked, Resolved
  <1>3. TypeOK' /\ Admitted' /\ Quiet' /\ Unobserved'
    BY <1>1, <1>2, InvocationStep DEF TypeOK
  <1>4. OneWorker'
    BY <1>1, WorkerStep
  <1>5. Abandoned'
    BY <1>1 DEF Abandoned, Unobserved, Ended, InPipeline, InDatabase, AtAdapter
  <1>6. StatusAsDeserved'
    <2> SUFFICES ASSUME NEW q \in Requests, step'[q] = "done", q \notin gone
                 PROVE  /\ status'[q] = 413 <=> size[q] > Limit
                        /\ status'[q] # 413 => (status'[q] = 401 <=> ~Authentic(q))
                        /\ content[q] = "invalid" => status'[q] \in {413, 401, 400}
                        /\ status'[q] = 400 => content[q] \in {"invalid", "unreadable"}
                        /\ status'[q] = 201 =>
                             row' = "completed" /\ content[q] \notin {"vague", "conflicting"}
                        /\ status'[q] = 202 => row' # "absent"
                        /\ status'[q] = 500 =>
                             \/ faults > 0 \/ content[q] = "conflicting"
                             \/ q \in undelivered
      BY <1>1, <1>2 DEF StatusAsDeserved, Authentic, boot, body
    <2>1. CASE q # r
      BY <1>2, <2>1 DEF StatusAsDeserved, Others
    <2>2. CASE q = r
      <3>1. /\ size[r] \in Nat /\ size[r] <= Limit /\ Authentic(r) /\ content[r] # "invalid"
            /\ faults \in Nat
        BY <1>1, ServerAssumption DEF Admitted, Checked, Resolved, TypeOK
      <3>2. ~Ended
        BY <1>1, <2>2 DEF Unobserved, InPipeline, InDatabase, AtAdapter
      <3>3. step[r] = "fail" /\ faults = 0 => row = "processing" /\ Faulty(r)
        BY <3>2 DEF OneWorker, Faulty, Healthy, Working, InPipeline, InDatabase, AtAdapter
      <3>4. /\ status'[r] \in {201, 202, 400, 500}
            /\ status'[r] = 400 => content[r] = "unreadable"
            /\ status'[r] = 201 =>
                 row' = "completed" /\ content[r] \notin {"vague", "conflicting"}
            /\ status'[r] = 202 => row' # "absent"
            /\ status'[r] = 500 =>
                 faults # 0 \/ content[r] = "conflicting" \/ r \in undelivered
        BY <1>1, <2>2, <3>3, Statements, ServerAssumption
        DEF InPipeline, InDatabase, AtAdapter, Faulty, Admitted, Checked, Resolved
      <3> QED
        BY <2>2, <3>1, <3>4, ServerAssumption
    <2> QED
      BY <2>1, <2>2
  <1> QED
    BY <1>3, <1>4, <1>5, <1>6

(* An adapter answers its call, or fails it.                               *)
LEMMA CallStep ==
  ASSUME IInv, NEW r \in Requests, Call(r) \/ CallFails(r)
  PROVE  IInv'
PROOF
  <1> USE DEF IInv
  <1>1. /\ step[r] \in AtAdapter /\ UNCHANGED <<boot, body, database, gone>>
        /\ r \notin clients
    BY DEF Call, CallFails, TypeOK, InDatabase, AtAdapter
  <1>2. /\ Typed /\ Others(r) /\ status' = status /\ undelivered \subseteq undelivered'
        /\ step'[r] \in {"lead", "complete", "fail"}
        /\ step'[r] = "fail" => r \in undelivered'
    <2>1. CASE Call(r)
      BY <2>1, MovesOne DEF Call, Typed, Others, InPipeline, InDatabase, AtAdapter, TypeOK
    <2>2. CASE CallFails(r)
      BY <2>2 DEF CallFails, Typed, Others, InPipeline, InDatabase, AtAdapter, TypeOK
    <2> QED
      BY <2>1, <2>2
  <1>3. content[r] # "conflicting" /\ step[r] \in InPipeline
    BY <1>1 DEF Admitted, Checked, Resolved, AtAdapter, InPipeline
  <1>4. TypeOK' /\ Admitted' /\ Quiet' /\ Unobserved'
    <2>1. /\ step'[r] \in InPipeline \cup {"done"}
          /\ UNCHANGED <<boot, body, pool, gone, row, clients, faults>>
          /\ row \in {"absent", "processing", "completed", "failed"} /\ faults \in 0..MaxFaults
      BY <1>1, <1>2 DEF InPipeline, InDatabase, AtAdapter, database, TypeOK
    <2> QED
      BY <1>1, <1>2, <1>3, <2>1, InvocationStep
  <1>5. OneWorker'
    <2>1. \A q \in Requests : Working(q)' <=> Working(q)
      BY <1>1, <1>2 DEF Working, InPipeline, InDatabase, AtAdapter, Others
    <2>2. \A q \in Requests : step'[q] = "fail" => (step[q] = "fail" /\ q # r) \/ Faulty(q)'
      BY <1>2 DEF Others, Faulty
    <2>3. \A q \in Requests : Faulty(q) => Faulty(q)'
      BY <1>1, <1>2 DEF Faulty, body
    <2> QED
      BY <1>1, <2>1, <2>2, <2>3 DEF OneWorker, Healthy, Ended, database
  <1>6. Abandoned'
    BY <1>1 DEF Abandoned, Ended, database
  <1>7. StatusAsDeserved'
    <2>1. \A q \in Requests : step'[q] = "done" => step[q] = "done"
      BY <1>2 DEF Others
    <2> QED
      BY <1>1, <1>2, <2>1 DEF StatusAsDeserved, Authentic, boot, body, database
  <1> QED
    BY <1>4, <1>5, <1>6, <1>7

-----------------------------------------------------------------------------
LEMMA IInvInit == Init => IInv
PROOF
  <1> SUFFICES ASSUME Init
               PROVE  IInv
    OBVIOUS
  <1>1. TypeOK
    BY ServerAssumption DEF Init, TypeOK, Contents
  <1>2. Admitted /\ StatusAsDeserved
    BY ServerAssumption DEF Init, Admitted, Checked, StatusAsDeserved, InPipeline, InDatabase, AtAdapter
  <1>3. Quiet /\ Unobserved /\ Abandoned
    BY DEF Init, Quiet, Unobserved, Abandoned, Ended
  <1>4. OneWorker
    BY DEF Init, OneWorker, Working, InPipeline, InDatabase, AtAdapter
  <1> QED
    BY <1>1, <1>2, <1>3, <1>4 DEF IInv

LEMMA IInvStep == IInv /\ [Next]_vars => IInv'
PROOF
  <1> SUFFICES ASSUME IInv, [Next]_vars
               PROVE  IInv'
    OBVIOUS
  <1>1. CASE Lifecycle
    BY <1>1, LifecycleStep
  <1>2. ASSUME NEW r \in Requests,
               \/ Post(r) \/ Read(r) \/ Leave(r) \/ Serve(r)
               \/ ConnectTimeout(r) \/ QueryFails(r)
        PROVE  IInv'
    BY <1>2, PostStep, ReadStep, LeaveStep, HandleStep, ConnectStep, RefuseStep, QueryStep,
       CallStep, FaultSteps DEF Serve
  <1>3. CASE UNCHANGED vars
    BY <1>3 DEF Faulty, Resolved, IInv, vars, boot, body, handling, database, TypeOK, Admitted, Checked, Quiet,
                Unobserved, OneWorker, Abandoned, StatusAsDeserved, Authentic, Working, Healthy,
                Ended
  <1> QED
    BY <1>1, <1>2, <1>3 DEF Next

(* The invariant is inductive.                                            *)
LEMMA Invariance == Spec => []IInv
PROOF
  BY IInvInit, IInvStep, PTL DEF Spec

(* Every variable stays in its type; no server runs in production, and a   *)
(* client of the pool belongs to an invocation that is under way.          *)
THEOREM TypeCorrect == Spec => []TypeOK
PROOF
  <1>1. IInv => TypeOK
    BY DEF IInv
  <1> QED
    BY <1>1, Invariance, PTL

(* A status is deserved, and a client that stayed is told of an internal   *)
(* error only when the database or an adapter failed or its identities     *)
(* belong to two customers.                                                *)
THEOREM StatusHolds == Spec => []StatusAsDeserved
PROOF
  <1>1. IInv => StatusAsDeserved
    BY DEF IInv
  <1> QED
    BY <1>1, Invariance, PTL

(* An event is left in processing only by a failing database, or by an     *)
(* invocation that a shutdown caught after its client went away.           *)
THEOREM LeftBehind == Spec => []LeftInProcessing
PROOF
  <1>1. IInv => LeftInProcessing
    <2> SUFFICES ASSUME IInv, row = "processing", \A r \in Requests : ~Working(r), faults = 0
                 PROVE  gone # {} /\ server = "closed"
      BY ServerAssumption DEF LeftInProcessing, IInv, TypeOK
    <2>1. Ended
      BY DEF IInv, OneWorker, Healthy
    <2>2. gone # {}
      BY <2>1 DEF IInv, Abandoned
    <2>3. server \in {"closed", "refused"} /\ server # "refused"
      BY <2>1 DEF IInv, Unobserved, Quiet
    <2> QED
      BY <2>2, <2>3
  <1> QED
    BY <1>1, Invariance, PTL

-----------------------------------------------------------------------------
(* A step of a request that was posted connects nobody.                    *)
LEMMA OnlyItself ==
  ASSUME TypeOK, NEW r \in Requests,
         Read(r) \/ Leave(r) \/ Serve(r) \/ ConnectTimeout(r) \/ QueryFails(r)
  PROVE  /\ step[r] \notin {"none", "done"}
         /\ \A q \in Requests \ {r} : step'[q] = step[q]
         /\ gone \subseteq gone' /\ UNCHANGED <<server, pool>>
         /\ clients' \subseteq clients \/ pool = "open"
PROOF
  <1>1. ASSUME Throw(r) \/ Statement(r) \/ UNCHANGED handling
               \/ (\E next : Goto(r, next)) \/ (\E code : Answer(r, code))
        PROVE  \A q \in Requests \ {r} : step'[q] = step[q]
    BY <1>1 DEF Throw, Statement, Begin, Upsert, CreateLead, Complete, Fail, Goto, Answer, handling, TypeOK
  <1>2. \A s \in InPipeline : s \notin {"none", "done"}
    BY DEF InPipeline, InDatabase, AtAdapter
  <1>3. CASE Read(r)
    BY <1>1, <1>3 DEF Read, boot, database
  <1>4. CASE Leave(r)
    BY <1>1, <1>4 DEF Leave, Connected, boot, database
  <1>5. CASE Handle(r)
    BY <1>1, <1>5 DEF Handle, boot, database
  <1>6. CASE Connect(r)
    BY <1>1, <1>2, <1>6 DEF InPipeline, InDatabase, AtAdapter, Connect, Waiting, boot
  <1>7. CASE Refuse(r)
    BY <1>1, <1>2, <1>7 DEF InPipeline, InDatabase, AtAdapter, Refuse, Waiting, boot, database
  <1>8. CASE Query(r)
    <2>1. step[r] \in InPipeline
      BY <1>8 DEF InPipeline, InDatabase, AtAdapter, Query, Waiting, TypeOK
    <2> QED
      BY <1>1, <1>2, <1>8, <2>1 DEF Query, boot
  <1>9. CASE ConnectTimeout(r)
    BY <1>1, <1>2, <1>9 DEF InPipeline, InDatabase, AtAdapter, ConnectTimeout, Waiting, boot
  <1>10. CASE QueryFails(r)
    <2>1. step[r] \in InPipeline
      BY <1>10 DEF InPipeline, InDatabase, AtAdapter, QueryFails, TypeOK
    <2> QED
      BY <1>1, <1>2, <1>10, <2>1 DEF QueryFails, boot
  <1>11. CASE Call(r)
    BY <1>1, <1>2, <1>11 DEF Call, AtAdapter, boot, database
  <1>12. CASE CallFails(r)
    BY <1>12 DEF CallFails, AtAdapter, boot, database, TypeOK
  <1> QED
    BY <1>3, <1>4, <1>5, <1>6, <1>7, <1>8, <1>9, <1>10, <1>11, <1>12 DEF Serve

LEMMA CutOffStep == IInv /\ NobodyCutOff /\ [Next]_vars => NobodyCutOff'
PROOF
  <1> SUFFICES ASSUME IInv, NobodyCutOff, [Next]_vars
               PROVE  NobodyCutOff'
    OBVIOUS
  <1>1. TypeOK /\ Quiet
    BY DEF IInv
  <1>2. CASE Lifecycle
    <2>1. UNCHANGED <<step, gone, clients>>
      BY <1>2 DEF Lifecycle, Start, Listen, ListenFails, Close, Closed, PoolEnds, handling, database
    <2>2. Connected' = Connected
      BY <2>1 DEF Connected
    <2>3. server \in {"down", "starting"} => Connected = {}
      BY <1>1 DEF Quiet, Connected
    <2>4. ASSUME NobodyCutOff, server \in {"down", "starting"}
          PROVE  pool \notin {"ending", "ended"}
      BY <2>4 DEF NobodyCutOff
    <2>5. CASE Start
      BY <2>1, <2>2, <2>3, <2>5 DEF Start, NobodyCutOff
    <2>6. CASE Listen \/ Close
      BY <2>1, <2>6 DEF Listen, Close, NobodyCutOff, database
    <2>7. CASE ListenFails \/ Closed
      BY <1>1, <2>1, <2>2, <2>3, <2>7 DEF ListenFails, Closed, CloseRuntime, NobodyCutOff, TypeOK
    <2>8. CASE PoolEnds
      BY <2>1, <2>2, <2>8 DEF PoolEnds, NobodyCutOff, boot
    <2> QED
      BY <1>2, <2>5, <2>6, <2>7, <2>8 DEF Lifecycle
  <1>3. ASSUME NEW r \in Requests, Post(r)
        PROVE  NobodyCutOff'
    BY <1>3 DEF Post, NobodyCutOff, boot, database
  <1>4. ASSUME NEW r \in Requests,
               Read(r) \/ Leave(r) \/ Serve(r) \/ ConnectTimeout(r) \/ QueryFails(r)
        PROVE  NobodyCutOff'
    <2>1. /\ step[r] \notin {"none", "done"}
          /\ \A q \in Requests \ {r} : step'[q] = step[q]
          /\ gone \subseteq gone' /\ UNCHANGED <<server, pool>>
          /\ clients' \subseteq clients \/ pool = "open"
      BY <1>1, <1>4, OnlyItself
    <2>2. Connected' \subseteq Connected
      BY <2>1 DEF Connected
    <2> QED
      BY <2>1, <2>2 DEF NobodyCutOff
  <1>5. CASE UNCHANGED vars
    BY <1>5 DEF vars, boot, handling, database, NobodyCutOff, Connected
  <1> QED
    BY <1>2, <1>3, <1>4, <1>5 DEF Next

(* startServer's close handler ends the pool after the last connection and *)
(* never before, and no statement under way is cut off by it.  This is the *)
(* safety part of Drained.                                                 *)
THEOREM ShutdownCutsNobodyOff == Spec => []NobodyCutOff
PROOF
  <1>1. Init => NobodyCutOff
    BY DEF Init, NobodyCutOff
  <1> QED
    BY <1>1, CutOffStep, Invariance, PTL DEF Spec

=============================================================================
