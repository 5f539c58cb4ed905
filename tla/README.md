# A verification project for cstion

cstion is a TypeScript service that turns Kakao messages into travel-booking
leads.  A signed webhook delivers a message; a pipeline takes a lease on the
event in PostgreSQL, parses the message, finds or creates the customer behind
it, tells a CRM, stores a booking lead, appends a row to a Google Sheet and
marks the event completed.  This directory holds TLA+ models of that code, the
configurations TLC checks them with, and theorems TLAPS proves about them.

## The system

| part | source | state | operations |
| --- | --- | --- | --- |
| event leases | `repositories/postgres-idempotency-repository.ts` | `channel_events`: status, token, start of processing | `begin`, `complete`, `fail` |
| pipeline | `pipelines/kakao-to-crm.ts` | the locals of each invocation | `handleKakaoMessage` |
| retry policy | `platform/retry.ts` | the attempt counter of a call | `runWithRetry`, `withTimeout` |
| customer directory | `repositories/postgres-customer-repository.ts`, `crm/customer-service.ts` | `customers`, `customer_identities` | `upsertByIdentities` |
| transactions and pool | `repositories/postgres-database.ts` | clients in use, locks | `transaction`, `query`, `close` |
| booking leads | `repositories/postgres-booking-repository.ts`, `booking/reservation-service.ts` | `booking_leads` | `createLead`, `decideBookingLead` |
| adapters | `adapters/interfaces.ts` | the CRM, the sheet (remote) | `syncCustomer`, `appendBookingLead` |
| HTTP boundary | `server/http-server.ts` | none between requests | the webhook, health, login and callback routes |
| OAuth connect | `server/oauth-state.ts`, `kakao/oauth.ts` | one cookie per browser | login, callback, code exchange |
| runtime | `server.ts`, `server/runtime.ts` | the listening server, the pool | start, close |
| migrations | `repositories/migrate.ts`, `migrations/001_*.sql` | `schema_migrations`, the schema | apply |
| in-memory repositories | `repositories/fakes.ts` | maps | as the Postgres ones |
| browser sandbox | `web/*.ts` | `currentJson`, `statusRevision`, the page | parse, edit, copy, download |
| evaluation command | `evaluation/reservation-evaluator.ts` | none between runs | load, evaluate, exit |
| challenge gate | `evaluation/*challenge*.ts` | a baseline file | measure, compare |

How they interact: the HTTP boundary starts one invocation of the pipeline per
webhook.  Invocations share nothing but the database and the two remote
services, and interleave at every `await`, in one process and across processes.
Each statement outside a transaction (`begin`, `complete`, `fail`,
`createLead`) is atomic; `upsertByIdentities` is a transaction of many
statements, made atomic by advisory locks.  The adapters are called with a
timeout that abandons the call and does not cancel it.

What is hard here: two deliveries of one event at once; a lease that runs out
under a worker that is only slow; calls that fail after they took effect, or
land after they were given up; a crash between any two statements; a provider
that stops redelivering; customers that share a phone number; locks; a shutdown that ends the pool
under an invocation nobody waits for any more.  The list, line by line, is `hazards` in `PROJECT.json`.

## The modules

- `ChannelEvents` is the `channel_events` table: `row[e]`, and the three
  statements as operators (`StartLease`, `CompleteLease`, `FailLease`).  Of time
  it keeps what the code looks at, whether the five minutes are over (`lease`).
- `CustomerDirectory` is `owner[i]`, the customer of each identity, and the
  atomic `Upsert` the repository promises.
- `KakaoPipeline` composes the two with the invocations.  `pc[w]` names the
  `await` at which invocation `w` stands; each action is the code from one
  `await` to the next.  `job[w]` holds its locals (event, lease token,
  customer), `attempt[w]` the failed attempts of the adapter call under way,
  `reason[w]` the classification in the catch block.  `crm`, `lead` and `sheet`
  are what the CRM, `booking_leads` and the sheet hold for each event;
  `lateCrm` and `lateSheet` are abandoned calls that may still land.
- `BookingLedger` says what all of that amounts to, without leases, retries or
  faults: an event is told, booked, listed and closed, in that order, about one
  customer.  `KakaoPipeline!Ledger` is the refinement.
- `CustomerUpsert` is the transaction statement by statement: the pool, the
  sorted advisory locks, `findOwnerIds`, the row lock of the UPDATE, the silent
  `ON CONFLICT DO NOTHING`, COMMIT and ROLLBACK.
- `AtomicUpsert` is what callers may rely on, one instant per call;
  `CustomerUpsert!ImplementsAtomicUpsert` is the refinement, and the upsert
  actions of `KakaoPipeline` are its three outcomes.
- `SchemaMigration` is `migrate.ts` with migration 001: runners that start
  together, die at any statement and start again, rows of the old schema in any
  shape it allowed, and an application that writes identities meanwhile.
- `ReservationSandbox` is the browser page: its handlers, the two buttons, the
  status line with its revision, and clipboard writes that are answered later.
- `ChallengeGate` is the metric gate: outcomes of an extractor are scored into
  a report, a report is compared with a baseline made from an earlier one, and
  an accepted report may become the next baseline.
- `KakaoConnect` is the login and callback routes and the code exchange, with
  a browser that has one cookie and several tabs.
- `WebhookServer` is the server from its start to its end: the configuration
  it starts or refuses to start with, a webhook from the first byte read to its
  status code, the awaits of the invocation, each a use of the database over a
  pool of clients or a call of an adapter, clients of the server that stall or
  go away, and a shutdown at any moment, which closes the server and then ends
  the pool.  `undelivered` remembers whose invocation an adapter failed; an
  upsert is one await, refused if the sender's identities conflict.  All its
  requests deliver one event, and its leases do not run out: what that adds,
  and what is stored and sent, is `KakaoPipeline`.
- `InMemoryRepositories` is `fakes.ts`, method by method, with its maps and its
  clock.  `ImplementsTables` says that it refines `ChannelEvents!EventsSpec`
  and `CustomerDirectory!DirectorySpec`: whoever tests or demonstrates the
  pipeline over these maps sees what the tables would do.
- `ReservationEvaluation` is the evaluation command: a dataset is loaded, the
  extractor answers or throws for one case after another, counters and a list
  of failures grow, and the exit code is decided.
- The modules named `MC...` give TLC small instances.
- `KakaoPipeline_proofs`, `CustomerUpsert_proofs`, `SchemaMigration_proofs`,
  `WebhookServer_proofs`, `InMemoryRepositories_proofs`,
  `ReservationSandbox_proofs`, `KakaoConnect_proofs` and `Evaluation_proofs`
  (for `ChallengeGate` and `ReservationEvaluation`) hold the theorems.

`ChannelEvents` and `CustomerDirectory` are extended by `KakaoPipeline`;
`CustomerUpsert` extends `CustomerDirectory` as well, so that the customer the
pipeline is given and the customer the transaction decides on are the same
operator.  Both are instantiated by `InMemoryRepositories`, as the
specifications it implements.  Operators whose comment begins with `Mutant of` are plausible bugs:
for each property `PROJECT.json` names one that breaks it.

## How state and actions correspond to the code

An action is what runs without interruption: the code from one `await` to the
next in `KakaoPipeline` and `KakaoConnect`, one SQL statement in
`CustomerUpsert` and `SchemaMigration`, one chunk, one wait for a client or one
statement in `WebhookServer`, one method call in `InMemoryRepositories` (the
methods are async but await nothing), one DOM handler in `ReservationSandbox`,
one case in `ReservationEvaluation`, one CI run in `ChallengeGate`.  A statement whose answer
may be lost is two alternatives of its fault, one in which it took effect.  The
locals that live across an `await` are state; those that do not are not.

Left out of what is modelled, because no property depends on it: the wording
of replies, log lines, names and notes of a booking, the text of a message (an
event is only which identities it names, whether its draft parses and whether
it is bookable), durations other than "the lease is over", "the timeout is
over" and the jitter and backoff of a retry (a retry may come at any time).

## The runs

| run | question | what it shows |
| --- | --- | --- |
| `pipeline` | is the pipeline safe? | two invocations interleaved at every `await`, with crashes, timeouts, lost answers and expired leases: effects come in order and about one customer, only the holder of the current lease settles an event, an event is lost only by a fault, and only the death of a process loses more than one, those it was at work on; what is recorded is final, what was answered stays true, and the pipeline refines `BookingLedger` |
| `redelivery` | is every event completed? | yes, if it is redelivered for as long as work on it could start |
| `acknowledged` | and if redelivery stops at the first 2xx? | then an event can be lost, but never unless some delivery of it was answered `duplicate` |
| `upsert` | is the transaction one atomic upsert? | yes, for three calls with overlapping identities; no wait cycle when lock keys hash apart |
| `contention` | does every call end? | yes, with a pool of two and colliding hashes, where calls deadlock and Postgres aborts one |
| `migration` | is the migration safe to run again, in parallel and under traffic? | yes: applied means hardened, no ownership is lost, old rows alone never make it fail, and it is applied in the end unless an identity has two owners or a status is unknown |
| `webhook` | does a status tell the truth, and what does a shutdown leave behind? | it does: 4xx is the sender's fault, and 500 means that the database or an adapter failed or that the sender's identities belong to two customers, never that the server was closed; an event is left in processing only by a database that failed or by an invocation whose client had gone when the server closed; the pool is ended only when nobody waits for an answer; every invocation ends, and so do the server and its pool, unless a client stalls its body for ever |
| `memory` | do the in-memory repositories behave like the tables? | yes, to the millisecond at which a lease ends, and their pairs of maps agree |
| `sandbox` | can the page lie about what was copied? | no: what the user did last is told, or is a copy whose answer will count, and no late answer replaces newer news |
| `gate` | can small accepted steps add up to a loss? | no; and of the reports that are no worse in any case the gate turns away just those in which an output that failed has become a valid one that is not entirely right |
| `evaluation` | do the counters and the exit code say what happened? | yes: they are what a recount over all cases finds, and exit code 0 means that the pipeline would ask for just the fields labelled as missing |
| `connect` | can a callback be used twice, or a user be left out? | no: a state is used up by its first answer, no answer turns away somebody who agreed in time, alone and with no failure, unless another has connected him, and he is connected in the end |

The type invariants of all modules but `ChallengeGate` are in no run: they are
proved (in `InMemoryRepositories_proofs` as `Types`, in
`ReservationEvaluation` as part of the invariant `Tallied`).

### Bounds, and why they are enough

- `pipeline`: two invocations (every property is about an event and the pair
  of attempts on it), two events whose senders share a phone, so that the
  upsert merges or conflicts, five tokens (one more than events and workers
  together can hold, as `TokensAssumption` asks), `MaxAttempts` 2 (the
  smallest with a retry; the code has 3), two faults (one to lose an attempt,
  one to disturb the attempt that takes over), three customers.  Symmetry on
  customers and workers, which no definition tells apart.  The death of a
  process ends any set of the invocations under way, those that ran in it, and
  is one fault.
- `redelivery`, `acknowledged`: as above with one fault and two customers and
  no symmetry, which liveness does not allow.
- `upsert`: three calls over three identities, four requests of which any two
  overlap or meet through the third, a pool that is no limit.  `contention`:
  the pool is the limit, and the outer lock keys collide.
- `migration`: two runners, three rows, one key (rows of different keys do not
  meet), two customers, one event row, one failure.
- `sandbox`: six events are three copies with an edit, a submit and another
  edit between them; a blank message, a complete one and one without a date.
- `gate`: two datasets, two cases in one category and in two, one labelled
  field and an issue about something else, two evaluators; reports and
  baselines are not bounded otherwise, and any number of steps is explored.
- `webhook`: two requests of one event, which is a delivery and its
  duplicate or redelivery; bodies of exactly the limit and one over it, in any
  chunks; a pool of one client, so that each statement may find it exhausted;
  one failing statement or wait; every configuration, in which the settings
  besides database and secret are one.  An adapter may fail at any call, which
  is not counted.
- `memory`: two events and two tokens (an old one and a new one), two
  identities and two customers, a lease of one tick and a clock of two, the
  least at which a lease is active, at its end and over.
- `evaluation`: two cases, so that a counter can be off by one in either
  direction; two fields of which one is a date; lists of issues that are
  empty, right, short, long, doubled or about another field.
- `connect`: two logins, which is the smallest at which cookies can be mixed
  up, three callbacks, one fault.

The proofs below remove these bounds for most of the safety properties.

### Fairness, and why the code justifies it

- `KakaoPipeline!Running`: an invocation that can go on does (Node runs every
  ready continuation, and `withTimeout` ends every adapter call), and a lease
  that nobody renews is over after five minutes.  Neither is a fault.
- `RedeliveringSpec` adds that an event is delivered again for as long as work
  on it could start; `AcknowledgedSpec` only that it is delivered until some
  answer was 2xx.  Which of the two a provider is, the repository does not
  say: the two runs show the difference it makes.
- `CustomerUpsert!FairSpec`: strong fairness on the steps of a call, because
  the pool and the locks queue their waiters first come first served; weak
  fairness on the abort of a deadlocked call (`deadlock_timeout`).
- `SchemaMigration!FairSpec`: a runner is started again until the migration is
  applied, and lock waiters are queued.
- `ReservationSandbox!FairSpec`: the browser carries out the clipboard writes
  and answers them, in order.  The user need not do anything.
- `WebhookServer!FairSpec`: Node serves what is ready, the database answers,
  and `withTimeout` ends every call of an adapter.  A body that stops coming is
  cut off by Node's request timeout as long as the server listens, and not
  after: `server.close()` stops the timer that looks for such requests, so of
  a client that stalls its body during a shutdown nothing is assumed.  The
  `close` event comes when no connection is left (Node closes idle ones in
  `server.close()`), and pg ends a pool none of whose clients is in use.
  Nobody need start, close or use the server.
- `KakaoConnect!FairSpec`: requests are served and answered, and a browser
  that is redirected back goes back once.  The user need not do anything.

Deadlock is checked in every run but `sandbox` and `connect`, in which the
user may stop and the bounds stop him; `webhook`, where the server ends;
`evaluation`, where the command exits; and `memory`, where clock and tokens
are bounded.

## What is proved

Each theorem holds for every value of the constants that meets the assumptions
of its module.

- `KakaoPipeline_proofs`.  The invariant `IInv` is `TypeOK`, `Progress` (what
  an invocation may rely on after each `await`), `OneLeaseHolder`,
  `EffectsBelongToSender`, `NoEffectOutOfOrder`, `CompletedHasEffects` and
  `AnswersMatchRecords`.  None of the last five is inductive alone: that a
  completed event has its effects needs that the invocation that completes it
  has had them (`Progress`), that it is the holder of the current lease, and
  that no other invocation knows that token (`OneLeaseHolder`), which needs
  that a token is fresh when it is drawn.  From `IInv` follow `EffectsInOrder`
  (its fifth and sixth parts), the action properties `Fencing` and
  `RecordsFinal`, and the refinement `ImplementsLedger`; and
  `ImplementsTables`, that the pipeline touches the two tables only by the
  statements of `ChannelEvents!EventsSpec` and `CustomerDirectory!DirectorySpec`,
  for which whoever fails an event must have a classification (`Reasoned`).  `SheetRows` is
  proved by a budget: the rows of an event and the appends that may still land
  are paid for by faults, but for the first.  `FaultsExplainLosses` is what of
  the two liveness properties a proof can reach: a step that is not a fault
  loses no event, a fault of one invocation or one lease loses only its own,
  and the death of a process loses only events that an invocation it ends was
  at work on (`CrashLosesItsWork`).
- `CustomerUpsert_proofs`: by an invariant of each call (`CallInv`), which
  says what its locks protect, the transaction refines `AtomicUpsert`
  (`ImplementsService`), locks exclude, answers are and stay true, and
  `customer_identities` changes only by whole upserts (`ImplementsDirectory`).
  `SortedLocks` needs one thing more, that no two lock keys hash to one lock,
  and a finite set of identities: a cycle of waiters would have a greatest
  lock.  `contention` is what happens without it.
- `SchemaMigration_proofs`: `AppliedIsHardened`, `NobodyLosesAnIdentity` and
  `RefusalsAreForced`.
  The invariant says what each statement has drafted when the runner is past
  it: no two rows share an id; a deleted row has a kept one with the same key
  and customer, the one of the least id, whose existence is well-foundedness
  of the natural numbers; only rows without a provider were given one; and
  past the normalising statement everything the runner sees is hardened, and
  stays it when the application commits: the unique index makes it wait for an
  emptied row, and from `SET NOT NULL` on the table is locked.  Nobody else sees a draft, so a failure at any statement loses
  nothing.  That a run is given up only for a reason needs `Deduped`: after the
  DELETE, a row that meets one without a provider was written since, by the
  application.
- `WebhookServer_proofs`: `StatusHolds`, `LeftBehind` and
  `ShutdownCutsNobodyOff`, the safety part of `Drained`.  That whoever passed
  the upsert has no conflict of identities is part of `Admitted`, and that an
  invocation fails over a healthy database only for a draft, a conflict or an
  adapter part of `OneWorker`.  That a client which
  stayed is never told 500 because of a shutdown needs `Unobserved` (when the
  pool is ended, whoever is still under way has lost its client), which needs
  `Quiet` (before the server listens there is nobody); that the event is left in processing
  only as stated needs `OneWorker` and `Abandoned`.
- `InMemoryRepositories_proofs`: `MapsAgree`, and the refinement of both
  tables step by step (`MapsImplementTables`).  The invariant relates the two
  maps of each repository, and times to the clock.
- `ReservationSandbox_proofs`: `ResultIsFresh`, `CopiedIsTrue`,
  `StatusIsMonotone` and `LastIsTold`, the safety part of `EveryCopyIsTold`.  `Order` relates each clipboard write, the revision it
  was given and the event that asked for it; with it a late answer finds the
  revision it remembers only if nothing was said since.
- `Evaluation_proofs`: `Ratchet`, for the gate.  The gate compares with the baseline only.
  The invariant keeps that the baseline was made from some report that had
  lost nothing since the first; one accepted step loses nothing, and losing
  nothing is transitive, which for shares (fractions over natural numbers) is
  the lemma `ShareTransitive`.  And `ImprovementsAreLetIn`: an output that
  becomes valid changes the denominators too, yet a report that is no worse in
  any case keeps at least the right parts of at least the old whole
  (`HigherParts`, `LowerParts`), so no share falls; it is let in if and only if
  no output that failed has become half right, for that is a reason of failure
  the baseline does not know.  For the evaluation command,
  `RecountHolds`: the invariant `Tallied` says what the counters and the list
  are for the cases that were evaluated so far, and each case adds to both what
  a recount over one case more would find; so no induction over the dataset is
  needed, and it may have any length.
- `KakaoConnect_proofs`: `ConsumedHolds` and `NobodyIsLeftOut`.  The latter is
  the safety part of `AgreedConnects`.  Its invariant `Coming` says that a
  user who agreed and was not disturbed is connected, or that his state is
  still in the cookie, and in that of every callback he has requested so far,
  none of which is answered yet: the first of them to be exchanged connects him, and only an
  answer clears the cookie.

Assumptions: `NoTokenAssumption`, `NoCustomerAssumption`,
`PipelineAssumption`, `TokensAssumption`, `UpsertAssumption`,
`MigrationAssumption`, `ServerAssumption`, `RepositoriesAssumption`,
`SandboxAssumption`, `GateAssumption`, `EvaluationAssumption` and
`ConnectAssumption` name what the proofs assume of the constants.  They are that null values are none of the others, that bounds are numbers and
the pool has a client, that keys sort, that an event names an identity, and
that there are more tokens than can be held at once (the code draws UUIDs).
TLC evaluates each in the runs of its module.

Only model-checked: liveness (`EventuallyCompleted`, `LostOnlyByDuplicate`,
`EveryCallEnds`, `EventuallyApplied`, `EveryCopyIsTold`, `AgreedConnects`,
`Drained`), which the prover does not reach.  Every invariant and action
property of the runs, and every refinement, is proved as well.

## What the models show about the code

No property fails.  Six things a reader of the code may not expect:

- The five-minute lease and the 202 for a duplicate add up to lost events with
  a provider that stops at its first 2xx (`acknowledged`).  It is inherent in
  answering a duplicate with 2xx while another attempt may still die.
- A Sheets row may be appended more than once, never more often than there
  were faults and one (`SheetRowsExplained`): the adapter has no key.
- A shutdown waits for connections, not for invocations.  One whose client has
  gone may find the pool ended, also for its `fail`, and leaves its event in
  processing until the lease is over (`LeftInProcessing` says that this, and a
  failing database, is all that does).

- A client that stalls its body during a shutdown holds the server in closing
  and its pool open for as long as it likes (the second alternative of
  `Drained`): nothing calls `closeAllConnections`.
- A sender whose identities belong to two customers is answered 500 with a
  healthy database, at every redelivery again: `CustomerIdentityConflictError`
  is handled like an error of the server (`http-server.ts:145`), so a provider
  that redelivers on 5xx never stops.
- The gate refuses a change by which a case that the extractor failed, or
  answered with invalid output, is answered with one field wrong, though it
  loses nothing: `unexpected_failure` (`reservation-challenge-baseline.ts:98`)
  asks for each reason of failure to be known, and the reason is new
  (`HalfRight`).

`kakao/README.md:9` says the cookie holds the state; the code puts only
an HMAC of it there (`oauth-state.ts:7`), as `architecture.md` says.

## What is not modelled

- Text: the regular expressions of the parser, the formats the schemas and the
  configuration check, redaction of log lines.  Pure functions over strings,
  well within a unit test's reach; the models keep what they decide (a draft
  parses or not, a configuration is refused or not).
- The health route, the 404 and the refusal of an invalid request target, and
  reads such as `count`: they answer from no state and change none.
- `decideBookingLead`'s choice of field values, names, tags and notes: the
  model keeps its decision.
- Rates and Wilson intervals of the two evaluations: they are reported, and
  nothing is decided by them.
- The real CRM and Sheets services are not in the repository; the models let
  their calls have every outcome a remote call can have.
- Documentation of planned channels, container files: no code.

What is left of the code is of these kinds: no state, no concurrency, no
failure handling of its own.

## What could come next

- `WebhookServer` and `KakaoPipeline` as one module, in which a request that
  is caught by a shutdown is redelivered after its lease is over.  Each half is
  checked here; together they exceed what TLC explores in minutes.
