---------------------------- MODULE WebhookServer ----------------------------
(***************************************************************************)
(* The server from its start to its end: what configuration it starts      *)
(* with, how a webhook is read, checked, handed to the pipeline and        *)
(* answered, and the connection pool, which is ended when the server has   *)
(* closed although an invocation whose client went away may still run.     *)
(*                                                                         *)
(* All requests deliver one event.  The pipeline is here its awaits, each  *)
(* a use of the database or a call of an adapter, and how they end; what   *)
(* they store and send, and leases that run out, is KakaoPipeline.  A body *)
(* is so many units long.                                                  *)
(***************************************************************************)
EXTENDS Naturals, FiniteSets

CONSTANTS
  Requests,  \* the webhooks that may be posted
  Limit,     \* MAX_WEBHOOK_BODY_BYTES
  Sizes,     \* lengths of bodies
  PoolSize,  \* max of the connection pool
  MaxFaults  \* bound on failing statements and on waits for a client that time out

ASSUME ServerAssumption ==
  /\ Limit \in Nat /\ Sizes \subseteq Nat \ {0}
  /\ PoolSize \in Nat \ {0} /\ MaxFaults \in Nat

VARIABLES
  config,    \* PlatformConfig: the environment, and which of the settings it has
  server,    \* how far startServer and its server are
  pool,      \* the state of the pool, if there is one
  row,       \* status of the event's row
  step,      \* step[r]: the await at which request r stands
  size,      \* size[r]: the length of its body
  got,       \* got[r]: how much of it was read
  content,   \* content[r]: its signature and body
  status,    \* status[r]: the status code of its answer
  undelivered, \* the requests whose invocation an adapter failed
  clients,   \* the requests whose invocation has a client of the pool
  gone,      \* the requests whose client went away before the answer
  faults

boot == <<config, server>>
body == <<size, got, content>>
handling == <<step, status, undelivered>>
database == <<pool, row, clients, faults>>
vars == <<boot, body, handling, database, gone>>

(* A body is signed and valid but for what its name says.  The draft of an *)
(* `unreadable' one is refused by the schema only inside the pipeline, and *)
(* the identities of a `conflicting' one belong to two customers.          *)
Contents == {"bookable", "vague", "unsigned", "invalid", "unreadable", "conflicting"}

(* The awaits of handleKakaoMessage.                                       *)
InDatabase == {"begin", "customer", "lead", "complete", "fail"}
AtAdapter == {"crm", "sheet"}
InPipeline == InDatabase \cup AtAdapter

Connected == {r \in Requests : step[r] \notin {"none", "done"}} \ gone

(* The other settings are looked at in production only.                    *)
PlatformConfig ==
  {c \in [env : {"development", "test", "production"},
          secret : BOOLEAN, database : BOOLEAN, others : BOOLEAN] :
     c.env = "production" \/ c.others}

Init ==
  /\ config \in PlatformConfig
  /\ server = "down"
  /\ pool = "none"
  /\ row = "absent"
  /\ step = [r \in Requests |-> "none"]
  /\ size = [r \in Requests |-> 0]
  /\ got = [r \in Requests |-> 0]
  /\ content = [r \in Requests |-> "bookable"]
  /\ status = [r \in Requests |-> 0]
  /\ undelivered = {} /\ clients = {} /\ gone = {}
  /\ faults = 0

-----------------------------------------------------------------------------
(* loadConfig: production must have every setting, and https.              *)
ValidConfig == config.env = "production" => config.secret /\ config.database /\ config.others

(* createAppRuntime: there are no production adapters yet.                 *)
Supported == ValidConfig /\ config.env # "production"

Start ==
  /\ server = "down"
  /\ server' = IF Supported THEN "starting" ELSE "refused"
  /\ pool' = IF Supported /\ config.database THEN "open" ELSE "none"
  /\ UNCHANGED <<config, body, handling, row, clients, faults, gone>>

(* runtime.close(): pool.end(), or nothing without a database.             *)
CloseRuntime == pool' = IF pool = "open" THEN "ending" ELSE pool

Listen ==
  /\ server = "starting"
  /\ server' = "listening"
  /\ UNCHANGED <<config, body, handling, database, gone>>

(* Mutant of ListenFails: the error is passed on, and the pool left open.  *)
ListenFailsAlone ==
  /\ server = "starting"
  /\ server' = "refused"
  /\ UNCHANGED <<config, body, handling, database, gone>>

(* The `error' event before `listening': the runtime is closed again.      *)
ListenFails ==
  /\ server = "starting"
  /\ server' = "refused"
  /\ CloseRuntime
  /\ UNCHANGED <<config, body, handling, row, clients, faults, gone>>

(* Mutant of Close: the runtime is closed at once.                         *)
CloseAtOnce ==
  /\ server = "listening"
  /\ server' = "closing"
  /\ CloseRuntime
  /\ UNCHANGED <<config, body, handling, row, clients, faults, gone>>

(* Whoever started the server closes it: no further connection is taken.   *)
Close ==
  /\ server = "listening"
  /\ server' = "closing"
  /\ UNCHANGED <<config, body, handling, database, gone>>

(* Mutant of Closed: the runtime is not closed with the server.            *)
ClosedAlone ==
  /\ server = "closing" /\ Connected = {}
  /\ server' = "closed"
  /\ UNCHANGED <<config, body, handling, database, gone>>

(* The `close' event, when no request is being served to anybody.          *)
Closed ==
  /\ server = "closing" /\ Connected = {}
  /\ server' = "closed"
  /\ CloseRuntime
  /\ UNCHANGED <<config, body, handling, row, clients, faults, gone>>

(* A pool that is ending waits for the clients that are in use.            *)
PoolEnds ==
  /\ pool = "ending" /\ clients = {}
  /\ pool' = "ended"
  /\ UNCHANGED <<boot, body, handling, row, clients, faults, gone>>

-----------------------------------------------------------------------------
Goto(r, next) ==
  /\ step' = [step EXCEPT ![r] = next]
  /\ UNCHANGED <<status, undelivered>>

Answer(r, code) ==
  /\ step' = [step EXCEPT ![r] = "done"]
  /\ status' = [status EXCEPT ![r] = code]
  /\ UNCHANGED undelivered

Post(r) ==
  /\ server = "listening" /\ step[r] = "none"
  /\ \E n \in Sizes : size' = [size EXCEPT ![r] = n]
  /\ \E c \in Contents : content' = [content EXCEPT ![r] = c]
  /\ Goto(r, "reading")
  /\ UNCHANGED <<boot, got, database, gone>>

(* readBody: a chunk arrives.                                              *)
Read(r) ==
  /\ step[r] = "reading"
  /\ \E n \in 1..(size[r] - got[r]) :
       /\ got' = [got EXCEPT ![r] = @ + n]
       /\ IF got[r] + n > Limit THEN Answer(r, 413) ELSE UNCHANGED handling
  /\ UNCHANGED <<boot, size, content, database, gone>>

(* isValidWebhookSignature                                                 *)
Authentic(r) ==
  IF config.secret THEN content[r] # "unsigned" ELSE config.env = "development"

(* Mutant of Handle: the body is parsed before its signature is checked.   *)
HandleParsedFirst(r) ==
  /\ step[r] = "reading" /\ got[r] = size[r]
  /\ IF content[r] = "invalid" THEN Answer(r, 400)
     ELSE IF ~Authentic(r) THEN Answer(r, 401) ELSE Goto(r, "begin")
  /\ UNCHANGED <<boot, body, database, gone>>

(* The body is complete: the handler goes on to the pipeline's first await. *)
Handle(r) ==
  /\ step[r] = "reading" /\ got[r] = size[r]
  /\ IF ~Authentic(r) THEN Answer(r, 401)
     ELSE IF content[r] = "invalid" THEN Answer(r, 400) ELSE Goto(r, "begin")
  /\ UNCHANGED <<boot, body, database, gone>>

(* The client goes away.  Only a body that is being read notices.          *)
Leave(r) ==
  /\ r \in Connected
  /\ gone' = gone \cup {r}
  /\ IF step[r] = "reading" THEN Answer(r, 500) ELSE UNCHANGED handling
  /\ UNCHANGED <<boot, body, database>>

-----------------------------------------------------------------------------
(* The invocation's uses of the database, a statement or the transaction   *)
(* of the upsert.  Each takes a client of the pool and gives it back, or   *)
(* fails.                                                                  *)

Waiting(r) == step[r] \in InDatabase /\ r \notin clients

(* A failure before the try block or in the catch block ends the           *)
(* invocation; any other leads to fail.                                    *)
Throw(r) == IF step[r] \in {"begin", "fail"} THEN Answer(r, 500) ELSE Goto(r, "fail")

Connect(r) ==
  /\ Waiting(r) /\ pool = "open"
  /\ Cardinality(clients) < PoolSize
  /\ clients' = clients \cup {r}
  /\ UNCHANGED <<boot, body, handling, pool, row, faults, gone>>

ConnectTimeout(r) ==
  /\ Waiting(r) /\ pool = "open"
  /\ Cardinality(clients) >= PoolSize
  /\ faults < MaxFaults /\ faults' = faults + 1
  /\ Throw(r)
  /\ UNCHANGED <<boot, body, pool, row, clients, gone>>

(* A pool that was ended gives out no client.                              *)
Refuse(r) ==
  /\ Waiting(r) /\ pool \in {"ending", "ended"}
  /\ Throw(r)
  /\ UNCHANGED <<boot, body, database, gone>>

Begin(r) ==
  /\ step[r] = "begin"
  /\ IF row \in {"absent", "failed"}
     THEN /\ row' = "processing"
          /\ Goto(r, IF content[r] = "unreadable" THEN "fail" ELSE "customer")
     ELSE UNCHANGED row /\ Answer(r, 202)

(* createCustomerFromReservation: CustomerIdentityConflictError is no      *)
(* failure of the database, and is thrown inside the try block.            *)
Upsert(r) ==
  /\ step[r] = "customer"
  /\ Goto(r, IF content[r] = "conflicting" THEN "fail" ELSE "crm")
  /\ UNCHANGED row

CreateLead(r) == step[r] = "lead" /\ Goto(r, "sheet") /\ UNCHANGED row

Complete(r) ==
  /\ step[r] = "complete" /\ row = "processing"
  /\ row' = "completed"
  /\ Answer(r, IF content[r] = "vague" THEN 202 ELSE 201)

(* The error is rethrown after it was recorded; the lease is lost if       *)
(* complete had taken effect.                                              *)
Fail(r) ==
  /\ step[r] = "fail"
  /\ row' = IF row = "processing" THEN "failed" ELSE row
  /\ Answer(r, IF row = "processing" /\ content[r] = "unreadable" THEN 400 ELSE 500)

Statement(r) == Begin(r) \/ Upsert(r) \/ CreateLead(r) \/ Complete(r) \/ Fail(r)

(* What was asked of the database is done, by it or in memory.             *)
Query(r) ==
  /\ r \in clients \/ (Waiting(r) /\ pool = "none")
  /\ clients' = clients \ {r}
  /\ Statement(r)
  /\ UNCHANGED <<boot, body, pool, faults, gone>>

(* A statement fails, and may have taken effect.                           *)
QueryFails(r) ==
  /\ r \in clients
  /\ clients' = clients \ {r}
  /\ faults < MaxFaults /\ faults' = faults + 1
  /\ \/ UNCHANGED row
     \/ step[r] = "begin" /\ row \in {"absent", "failed"} /\ row' = "processing"
     \/ step[r] = "complete" /\ row = "processing" /\ row' = "completed"
     \/ step[r] = "fail" /\ row = "processing" /\ row' = "failed"
  /\ Throw(r)
  /\ UNCHANGED <<boot, body, pool, gone>>

(* An adapter answers, at its first call or after runWithRetry repeated it. *)
Call(r) ==
  /\ step[r] \in AtAdapter
  /\ Goto(r, IF step[r] = "crm" /\ content[r] # "vague" THEN "lead" ELSE "complete")
  /\ UNCHANGED <<boot, body, database, gone>>

(* Its last attempt reports an error or times out.                         *)
CallFails(r) ==
  /\ step[r] \in AtAdapter
  /\ step' = [step EXCEPT ![r] = "fail"]
  /\ undelivered' = undelivered \cup {r}
  /\ UNCHANGED <<boot, body, status, database, gone>>

Serve(r) == Handle(r) \/ Connect(r) \/ Refuse(r) \/ Query(r) \/ Call(r) \/ CallFails(r)

Lifecycle == Start \/ Listen \/ ListenFails \/ Close \/ Closed \/ PoolEnds

Next ==
  \/ Lifecycle
  \/ \E r \in Requests :
       Post(r) \/ Read(r) \/ Leave(r) \/ Serve(r) \/ ConnectTimeout(r) \/ QueryFails(r)

Spec == Init /\ [][Next]_vars

(* Node serves what is ready, the database answers, and withTimeout ends   *)
(* every call of an adapter; the `close' event comes, and pg ends a pool   *)
(* that is idle.  A client sends its body or is cut off by the request     *)
(* timeout, but only as long as the server listens: close() stops the      *)
(* timer that looks for requests that take too long.                       *)
FairSpec ==
  /\ Spec
  /\ WF_vars(Closed) /\ WF_vars(PoolEnds)
  /\ \A r \in Requests :
       /\ WF_vars(Serve(r))
       /\ WF_vars(server = "listening" /\ (Read(r) \/ (step[r] = "reading" /\ Leave(r))))

-----------------------------------------------------------------------------
(* Every variable stays in its type; no server runs in production, and     *)
(* only an invocation that is under way has a client.                      *)
TypeOK ==
  /\ config.env = "production" => server \in {"down", "refused"}
  /\ server \in {"down", "starting", "refused", "listening", "closing", "closed"}
  /\ pool \in {"none", "open", "ending", "ended"}
  /\ row \in {"absent", "processing", "completed", "failed"}
  /\ step \in [Requests -> InPipeline \cup {"none", "reading", "done"}]
  /\ size \in [Requests -> Nat] /\ got \in [Requests -> Nat]
  /\ content \in [Requests -> Contents]
  /\ status \in [Requests -> {0, 201, 202, 400, 401, 413, 500}]
  /\ clients \subseteq {r \in Requests : step[r] \in InDatabase}
  /\ undelivered \subseteq Requests /\ gone \subseteq Requests
  /\ faults \in 0..MaxFaults

(* What the README promises of each status: the body was too large, not    *)
(* signed, or invalid; a 2xx is the truth about the event.  A client that  *)
(* stayed is told 500 only for a failing database, an adapter that failed  *)
(* or a sender whose identities belong to two customers, and never because *)
(* the server was closed.                                                  *)
StatusAsDeserved ==
  \A r \in Requests : step[r] = "done" /\ r \notin gone =>
    /\ status[r] = 413 <=> size[r] > Limit
    /\ status[r] # 413 => (status[r] = 401 <=> ~Authentic(r))
    /\ content[r] = "invalid" => status[r] \in {413, 401, 400}
    /\ status[r] = 400 => content[r] \in {"invalid", "unreadable"}
    /\ status[r] = 201 => row = "completed" /\ content[r] \notin {"vague", "conflicting"}
    /\ status[r] = 202 => row # "absent"
    /\ status[r] = 500 => faults > 0 \/ content[r] = "conflicting" \/ r \in undelivered

(* A shutdown cuts nobody off, nor does a port that cannot be bound: the   *)
(* pool is ended when no connection can come and none waits for an answer, *)
(* it is then always ended, and it lets the statements under way finish.   *)
NobodyCutOff ==
  /\ server \in {"closed", "refused"} => Connected = {} /\ pool # "open"
  /\ pool \in {"ending", "ended"} => server \in {"closed", "refused"}
  /\ pool = "ended" => clients = {}

Working(r) == step[r] \in InPipeline \ {"begin"}

(* The event is left in processing, with nobody working on it, only by a   *)
(* failing database, or by an invocation whose client went away before the *)
(* server was closed.                                                      *)
LeftInProcessing ==
  row = "processing" /\ (\A r \in Requests : ~Working(r)) =>
    faults > 0 \/ (gone # {} /\ server = "closed")

(* Every invocation comes to its end.  A server that is closed, or could   *)
(* not listen, ends its pool and nothing is left running, unless a client  *)
(* stalls its body for ever: it alone can hold up a shutdown.              *)
Drained ==
  /\ \A r \in Requests : step[r] \in InPipeline ~> step[r] = "done"
  /\ server \in {"closing", "refused"} ~>
       \/ /\ pool \in {"none", "ended"}
          /\ \A r \in Requests : step[r] \in {"none", "done"}
       \/ \E r \in Requests : [](step[r] = "reading")

=============================================================================
