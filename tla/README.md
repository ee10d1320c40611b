# Travel AI App: TLA+ models, model checks and proofs

This directory holds TLA+ modules that model the stateful core of the Travel AI
App, the TLC configurations that check them, and theorems about them that TLAPS
checks. File and line references are to the repository under `src/`.

## 1. The system

| Part | State it keeps | Operations | Interacts with | Modelled in |
|---|---|---|---|---|
| **Trip rows, itinerary versions** (`trip-service/internal/infrastructure/repository/postgres/trip.go`) | `trips.itinerary_revision`, `status`, `itinerary`; rows of `itinerary_versions` | guarded update + version insert in one transaction; unguarded status update | every writer of itineraries | `TripStore` |
| **Generation jobs** (`trip-service/internal/generationjobs`) | `trip_generation_jobs` rows | create, cancel, ops retry / cancel / mark failed, claim, complete, fail, reset, repair stale | broker, workers, trips | `GenerationJobStore`, `GenerationJobs` |
| **Broker** (`trip-service/internal/jobqueue`, `worker-service/internal/rabbitmq`) | main, retry, dead-letter queue | publish with confirm, retry with TTL, ack/nack; an operator's requeue and discard of a dead letter | Trip Service, Worker Service, operators | `GenerationBroker`, `DeadLetters` |
| **Workers** (`generationjobs/worker.go`, `rabbitmq/consumer.go`) | one delivery being handled, its deadline | claim, process, complete / retry / dead-letter; startup repair | jobs, trips, broker, planner | `GenerationJobs` |
| **Approvals** (`application/service/approval*.go`) | approval columns of workspace trips | submit, review, withdraw after a change | trips, workspaces, notifications | `TripApproval` |
| **Proposals** (budget optimisation, policy repair, companions' suggestions) | proposal rows, with the revision they were computed from | create, apply, expire, discard | trips, jobs | `Proposals` |
| **Edit locks** (`trip-service/internal/editlocks`, the browser's `useTripEditLock`) | one lock per trip in memory, with a time to live | acquire, renew, release, expire | editors | `EditLocks` |
| **Presence** (`trip-service/internal/presence`) | streams and their bounded buffers, in memory | register, heartbeat, state, unregister, clean up, publish | viewers | `Presence` |
| **Collaboration** (`application/service/collaboration*.go`) | `trip_collaborators`, `trip_invitations`, the owner | invite by two routes, accept, decline, revoke, resend, remove, leave, transfer | users, notifications | `Collaboration` |
| **Expenses** (`application/service/expense.go`) | expenses, shares, settlements | split, update, delete, settle, cancel | exchange rates | `Expenses` |
| **Reminders** (`application/service/trip_reminder.go`) | reminder rows | generate, notify, mark; complete, disable, rearm, postpone, delete | Worker Service poller, notifications | `Reminders` |
| **Data export** (Trip Service and User Service) | export jobs, package files | create, complete, fail, expire by reads and by cleanup | file storage | `DataExports` |
| **Auth Service** (sessions), with the browser's token storage | refresh tokens | log in, rotate, log out, expire, clean up | every service | `RefreshTokens` |
| **User Service** (workspaces) | workspaces, members, invitations | invite, accept, decline, change role, remove, archive | auth, notifications | `Workspaces` |
| **Notification Service** | dedupe ledger, notifications, digest batches | report, group, deliver once, digest, retry | all services | `NotificationDedupe`, `Digests` |
| **Worker Service pollers** | cleanup runs guarded by a lock with expiry | cleanup, digests, reminders | all services over HTTP | `CleanupRuns`, and the passes of `Digests` and `Reminders` |
| **Web application** | offline mutation queue in IndexedDB, shared by tabs | save offline, replay, merge, discard | Trip Service | `OfflineQueue`, and the browser's side of `RefreshTokens` and `EditLocks` |
| **Calendar sync** (`application/service/calendar_sync.go`) | sync rows per itinerary item, events in Google Calendar | sync, remove | External Integrations, Google | `CalendarSync` |
| **External Integrations Service**, its calendar part | the connection with its tokens, OAuth states | connect, disconnect, refresh a token, write, delete and read events | Google | `CalendarConnections`, and the calls of `CalendarSync` |
| **External Integrations** (other providers), **AI Planning Service**, derived views, policy and risk scoring, feature flags, clients of other services | see section 6 | | | – |

`PROJECT.json` lists each part with its status.

### What is hard, and what makes each part correct

- **Generation jobs.** One database row, at-least-once messages, workers that
  die or lose their channel at any statement, publishes whose confirm is lost,
  operators who repair rows while they are executed. Correct when: a job is
  never executed twice at a time; its itinerary is written at most once; a
  completed row points to what it saved; a final row is never reopened; a queued
  row is never forgotten; and, when things keep running, every job ends.
- **Itinerary writes.** Several writers compute from a revision and save later.
  Correct when no version replaces one that its writer had not read.
- **Approvals.** Review requests read a row and write it back whole, without a
  lock; the withdrawal after a change is post-commit and best-effort. Correct
  when an approved trip has the itinerary that was submitted.
- **Proposals.** Applying is a guarded save and then a mark. Correct when a
  proposal changes the itinerary at most once, from the revision it was computed
  for, and its status tells whether it did.
- **Dead letters.** A message can only be reached by taking a page off the queue
  for good. Correct when every message stays in exactly one place.
- **Offline queue.** Records are changed by a get and a put that no transaction
  joins, by several tabs. Correct when no saved edit gets lost and a replayed one
  takes effect once.
- **Sessions.** Every request of every tab refreshes on its own. Correct when a
  session has at most one usable token and an ended one none.
- **Edit locks.** Requests overtake each other and work with old clocks. Correct
  when a granted lock is kept until it expires or is given back.
- **Presence.** Snapshots are published outside the lock, into buffers that drop.
- **Collaboration, workspaces.** Membership lives in two tables and handlers
  write in several statements. Correct when nobody has access, or a role, whom
  the owner did not want to have it.
- **Expenses.** Money is split to the cent; updates and payments are computed
  from rows read before. Correct when shares add up, payments are for debts that
  exist, and the suggested payments even everything out.
- **Reminders, digests, deduplication.** Passes list, notify and mark without one
  transaction. Correct when an item goes out once, and what users decide stands.
- **Calendar sync.** Google has changed before a row says so; nothing keeps two
  requests apart; and the user may meanwhile connect another account. Correct when
  every event is one that a row leads to, and "in sync" means it.
- **Cleanup runs, exports.** Locks with expiry, files beside rows. Correct when
  tasks do not overlap within a lock's time, and files and rows go together.

## 2. Modules

| Module | Kind | Models |
|---|---|---|
| `TripStore` | state + row operators | a trip's revision, status and version history; the guarded save, the unguarded status update |
| `GenerationJobStore` | state + row operators, EXTENDS `TripStore` | the job table: SET lists and WHERE clauses of its UPDATE statements |
| `GenerationBroker` | state + actions | main, retry and dead-letter queue as bags of `[job, attempt]` |
| `GenerationJobs` | the composed specification | requests, operators, workers, proposals left by jobs, faults and time over the three stores |
| `JobContract` | abstract specification | what a caller may rely on: stages and at-most-once effect |
| `TripApproval` | specification, EXTENDS `TripStore` | review requests and edits over the approval columns |
| `OfflineQueue`, `Proposals` | specifications, EXTEND `TripStore` | other writers that meet the same revision check |
| `RefreshTokens`, `EditLocks`, `Presence` | specifications | what the browser and a service do to one session, lock, set of streams |
| `CalendarConnections`, and `CalendarSync` that EXTENDS it | specifications | a user's connection to Google; a trip in the calendar |
| `CleanupRuns`, `Collaboration`, `DataExports`, `DeadLetters`, `Digests`, `Expenses`, `NotificationDedupe`, `Reminders`, `Workspaces` | specifications | one component of the services each |
| `MCGenerationJobs`, `MCTripApproval` | TLC instances | symmetry of jobs and workers; approvals, at most two at a time after a lost withdrawal |
| `MCClients` | TLC instance | `OfflineQueue` and `CalendarSync` (twice each), `RefreshTokens`, `EditLocks`, `Presence` |
| `MCServices` | TLC instance | `Proposals` and the nine components of the services |
| `GenerationJobsProofs` | proofs | `GenerationJobs`: types, inductive invariant and safety; final states, the refinement of `JobContract`, what a cancellation promises and what carries a queued row |
| `TripProofs` | proofs | `TripApproval` |
| `ClientsProofs` | proofs, EXTENDS the next two | `RefreshTokens`, `EditLocks`, `Presence`; that `MCClients` behaves as each of its components |
| `OfflineProofs` | proofs | `OfflineQueue` |
| `CalendarProofs` | proofs | `CalendarSync` |
| `ServicesProofs` | proofs, EXTENDS the next two | `Collaboration`, `Workspaces`, `Proposals`; that `MCServices` behaves as each of its components |
| `BackgroundProofs` | proofs | `CleanupRuns`, `Digests`, `Reminders`, `DataExports`, `NotificationDedupe`, `DeadLetters` |
| `ExpensesProofs` | proofs | `Expenses`: sums, splits, suggested payments, and the requests |

The components of `MCClients` and `MCServices` share no row with each other.
Their product would multiply independent states, so these two modules add a
variable `component` that is chosen in the initial state and never changes: the
chosen component takes every step of its specification while the others rest in
their initial states. Each run therefore explores every component by itself,
under the constants of one configuration file. `MCClients` holds two instances
of the offline queue: `offlineTabs`, several tabs at one record, and
`offlineRecords`, one tab at several records; and two of the calendar:
`calendarItems`, one account and edits of the itinerary, and `calendarAccounts`,
two accounts, expiring tokens and one item. `MCServices` holds two of the
reminders: `remindersDecided`, where one reminder is reported and users decide
about it, and `remindersGenerated`, where two editors generate at a time and
nothing becomes due. In some instances the steps are bounded further, by the operators named
in the next-state relation (section 3, Bounds).

### Correspondence of `GenerationJobs`

A worker is one consumer of Worker Service (or one poller of Trip Service, with
`DispatchMode = "in_process"`). Its `phase` is the statement it is about to
execute; each database statement and each broker call is a step of its own.

| Phase, action | Code |
|---|---|
| idle: `Deliver`, `ClaimNextGenerationJob` | `Consumer.Run`, `Worker.processNext` |
| delivered, lookup: `ClaimJob`, `LookupJob` | `Worker.claimGenerationJob` (worker.go:175-209) |
| reading: `ReadTrip` | access and revision check, contexts (trip.go:829-880, and the same prelude of `RegenerateDay`, `RegenerateItem`, `OptimizeBudgetDayForActor`, `RepairItineraryForActor`) |
| starting: `StartProcessing` | `UpdateStatusByUserID(PROCESSING)` (trip.go:881), full generations only |
| generating: `Generate` | planner, enrichment, validation: one outcome |
| saving: `SaveItinerary` | `saveItineraryWithVersion` (trip.go:2397): commit, conflict, error, or commit reported as error |
| saving: `CreateProposal` | the insert of a proposal (budget_optimization.go:164-182, trip_repair.go:178-193): stored, error, or stored and reported as error |
| marking: `MarkFailed` | `markFailed` (trip.go:2870) |
| any of these: `CutShort` | the `MaxRunning` deadline, or a recovered panic (worker.go:215-268) |
| saved: `CompleteJob` | `CompleteGenerationJob` (worker.go:299) |
| failing: `ResetForRetry`, `FailClaimedJob` | consumer.go:244-276 |
| republishing, errored: `RepublishRetry`, `RetryOrRequeue` | consumer.go:252-265, 301-333 |
| acking, rejecting: `Ack`, `Reject` | settlement of the delivery |

Decisions a reader should know:

- *Full* jobs set PROCESSING and FAILED; *partial* jobs (day, item, quality
  improvement) only save, and need an itinerary, hence a revision above 0;
  *proposal* jobs (`budget_optimization_day`, `policy_repair`) save no itinerary:
  they insert a proposal row, which `proposed` records, and complete with the
  revision they read. No revision is compared at that insert. A trip's user
  applies the proposal later; that is module `Proposals`. `Kinds` says which jobs an
  instance requests: `queue`, the largest, leaves proposals out, for its three
  properties are about executions that save; `retry`, `delivery` and `inprocess`
  request all three.
- Version numbers are positions: they are allocated under the trip row's lock.
- `Create` and `OpsRetry` take any revision up to the current one: the request
  read the trip before it inserted the row.
- User cancel and ops cancel are the same UPDATE, so they share `Cancel`.
- `SKIP LOCKED` lets the in-process claim take any queued row.
- A shutdown is a crash: the consumer passes its own context to the handler, so
  a handler that is interrupted cannot write any more and its message returns.
- The processing deadline is `MaxRunning` after the claim and the repair
  threshold is not shorter, so a row becomes overdue only after its processing
  ended (`BecomeOverdue`); the statements after the processing (completion,
  failure, reset) are under no such deadline and may well run on an overdue row.
- Queues are bags: requeues, TTL returns and several consumers leave no order
  the code could rely on.
- `MaxRevision` bounds manual edits only; `MaxFaults` bounds faults; attempts are
  bounded by the code.

### Correspondence of `TripApproval`

Each user runs at most one request at a time, and a request is in one phase:

| Phase, action | Code |
|---|---|
| none: `Open` | `requireEditorOrOwner`, `requireViewerEditorOrOwner`, `requireWorkspaceApprover`: authorised, and the trip read |
| opened: `Check` | `GetTripApprovalFields`, `approvals.Can*From`, and the checklist of a submission, whose one blocking item is a missing itinerary |
| checked: `Write` | `UpdateTripApprovalStatus`: all approval columns, by id alone |
| opened: `Save` | `UpdateItinerary` with the revision the client sent, here the one just read: older ones are refused |
| resetting: `ResetApprovalIfApproved`, `LoseReset` | the withdrawal after the commit (approval_reset.go), and its failure, which is only logged |
| opened, checked: `Refuse` | every error return, the workspace policy, a stopped process |

`Trips` are workspace trips (personal ones are refused by every handler and
skipped by the reset). `submittedAt` stands for the timestamp of the submission
by the revision it was checked against. `overtaken` is history: it guards
nothing. The itinerary edit stands for all writers through
`saveItineraryWithVersion`.

### Correspondence of the other components

In all of them a request, pass or tab is in one phase at a time, the phase is
the statement it is about to execute, each statement (or critical section, or
call to another service) is an action of its own, and an error or a stop of the
process is an action that may happen instead of it. Variables marked *history*
in the modules guard nothing: properties read them.

| Module | State | Who acts | Decisions a reader should know |
|---|---|---|---|
| `OfflineQueue` | `pending`: the records of IndexedDB; `passes`, `dialogs`: what each tab's sync pass and page hold in memory; `trips` | tabs (saves, discards, merges, passes), other clients | `updateMutationRecord` is a get and a put in two transactions, so a record can change in between; the sync lock is memory of one tab; a draft is named by the last edit in it; companion changes that set a field are harmless to repeat and left out |
| `RefreshTokens` | `tokens`: rows; `stored`: `localStorage`; `requests` of the browser | requests of any tab, time, cleanup | the rotation is one transaction whose WHERE clause tests revocation only; a commit may report an error; every error clears the tokens of all tabs |
| `EditLocks` | `lock` in the manager, the refs of each page's hook, `calls` under way | pages, timers, late calls, cleanup, restarts | a critical section works with a clock read at any time since its call was sent; releasing is two sections (`CheckOwner`, `Release`); with locking switched off the module does not apply |
| `Presence` | `streams` with registration, buffer and client view; `publishing` | streams, state updates, cleanup | heartbeats change no view and are left out; how long a stream was silent is left open, so cleanup may take any set of streams; `missed` says that the last event offered was dropped or older than one before it |
| `Proposals` | `proposals`, `applying`, `trips` | two appliers, other editors | budget optimisations and repairs name a base revision, suggestions do not; the mark follows the save; a repair's mark expires its siblings, in a step of its own |
| `Collaboration` | `collaborator`, `invitations`, `owner`; `handling` | requests of owner and members | an invitation is a row of `trip_invitations` and, by the older route, of `trip_collaborators` alone; "removed" stands for the declined row that a removal leaves; transfer is one transaction; time may make an invitation overdue |
| `Expenses` | `expenses`, `shares`, `settlements`, `claims` | spenders | money is cents of one currency; people are numbers in the order of their ids; `SplitsOf` covers the split types (equal shares are "selected_equal" for all, payer-only for one) |
| `Reminders` | `reminders` with the `claim` that Notification Service has for each; `passes` with the report in hand; `generators` | passes, editors, users, Notification Service, time | passes list without claiming; the mark has `WHERE status = 'pending'`, decisions go by id; Notification Service claims a report before it inserts the notification and answers a dropped duplicate, or one that the recipient has muted, like a delivered one; the insert may fail after the claim, and a report may go on after its caller's timeout; a reminder has one recipient here; a claim is over its window of minutes only when no report is under way |
| `Digests` | `batches` with items, `pass`, `hour` | events, passes, time | the unique index covers pending rows only; the claim counts the attempt; no statement looks for batches left in processing |
| `NotificationDedupe` | `ledger`, `notifications`, `batch` of each caller, `minute` | callers, cleanup, time | a request works with the clock of its arrival, at most `ClaimDelay` old (the callers' timeout of 3 s by default, `NOTIFICATION_SERVICE_TIMEOUT_SECONDS`, against windows of 30 and 60 minutes); times may go back |
| `DeadLetters` | `dead`, `main`, `action` | two operators, a worker | the management API can only take a page off the queue and publish the rest back, one by one; a fault is an error or a stop between two of these |
| `CleanupRuns` | `runs`, `replica`, `clock` | schedulers of replicas | the partial unique index on running rows is the lock; a start fails the row of a run past its lock; a completion goes by id |
| `DataExports` | `exports`: row and file; `exporter`, `sweep` | requests, reads, cleanup loops of both services | file and row change in steps of their own; deletion errors are ignored by the code; a completion may be reported as failed although it took effect |
| `Workspaces` | `members`, `invited`, `archived`, `slot` | requests, invited users, registration | the actor's row is read before the target's, the writes follow; an upsert overwrites the role of whatever row of the user is not removed; only an acceptance is a transaction |
| `CalendarConnections` | `connection`, `flows`: the rows; `fetches`: the access token of each request, and how far `accessToken` is | the user, Google, requests | `token` and `refresh` name the accounts that the stored tokens open; Google gives a refresh token with each consent and none with a refresh (`prompt=consent`, `access_type=offline`), so the branch without one is not reached; a refresh that was under way when the user connected another account writes its token over the new one |
| `CalendarSync` | `plan`, `calendarRows`; `events` at Google; `syncs` | two requests of one user, edits | items of a call and rows are handled one at a time, in order; an event is known to the account that created it, and to another one it is "not found", which a deletion counts as deleted; the text of an event is the revision it was built from; a refused item and a lost answer cost a fault |

## 3. What TLC checks

| Run | Instance | Shows |
|---|---|---|
| `queue` | 2 jobs that save, 2 workers, 2 attempts, 1 fault of any kind, fail-open publishing, 1 edit | `ExclusiveExecution`, `NoLostUpdate`, `NeverReopened` |
| `retry` | 1 job of any kind, 2 workers, 2 attempts, 3 faults of any kind | `AppliedAtMostOnce`, `CompletedMeansSaved`, `ImplementsContract` |
| `delivery` | 1 job, 2 workers, 2 attempts, 3 crash or publish faults, fairness | `QueuedHasCarrier`, `CancelledHasNoEffect`, `EveryJobCloses` |
| `inprocess` | 2 jobs, 2 pollers, 2 faults | `ExclusiveExecution` without a broker |
| `approval` | 1 trip, 3 users (editor, both, approver), 2 revisions, 1 lost withdrawal, fairness | `RowTellsOneStory`, `CurrentUnlessOvertaken`, `StaleReviewsEnd` |
| `clients` | 2 tabs (one with a page), 2 records, 2 edits; 2 requests, 3 tokens, 2 logins; 2 editors, 4 time units, 1 restart; 2 viewers, 2 streams, buffers of 1; 2 requests at the calendar: 2 items, 2 revisions, 3 requests in all, or 1 item, 2 accounts, 2 connections, 1 expiry | `KeptUnlessRaced`, `DuplicatesExplained`, `SyncingIsAttended`; `OneTokenPerSession`, `EndedStaysEnded`; `GrantsAreHonoured`, `OwnersRenew`; `ViewsAreCurrent`; `EventsAreKnown`, `InSyncMeansSynced`; the types of all |
| `services` | in each component 2 requests, passes or replicas; see `Services.cfg` | one to three properties of each component (below); the types of all |
| `deadletter`, `processing`, `overtaken`, `offline`, `removed` | minimal instances | statements of the documentation and the comments that the code does not keep |

The properties of `services`, by component:

| Component | Property | It says |
|---|---|---|
| `CleanupRuns` | `OverlapsOutliveTheirLock` | two executions of a task overlap only when one has outlived its lock |
| `Collaboration` | `AccessIsEarned` | exactly those have access who accepted or were made the owner, and were not removed and did not leave since |
| `DataExports` | `FilesFollowTheirJobs` | a completed job within its retention has its file, and a file has a job that leads the cleanup to it, or was forgotten in a way the actions name |
| `DeadLetters` | `EachLetterOnce` | every message is in exactly one place, except what a failed request had in hand |
| `Digests` | `DeliveredOnce`, `ProcessingIsAttended` | an event goes out once unless an unsure delivery is repeated; a batch in processing is in the hands of a pass, unless its pass failed or the index refused its retry |
| `Expenses` | `SharesAddUpUnlessRaced`, `SuggestionsSettle`, `PaymentsReduceDebts` | shares never miss the amount and exceed it only by what is forgotten at participants without a share; the suggested payments leave nothing but the tolerance; a payment not overtaken is for a debt that exists |
| `NotificationDedupe` | `OneDeliveryPerWindow` | one event is delivered once in a window, less the delay of a request, and the ledger links to no deleted notification |
| `Proposals` | `AppliedOnce`, `StatusTellsEffect` | a proposal changes the itinerary at most once (a suggestion unless raced), and its status tells whether it did |
| `Reminders` | `DecisionsStand`, `NotifiedOnceUnlessOverlapped` | a pass overwrites no decision of a user; a reminder that is marked sent has gone out, or a report of it is at work, unless a report came to nothing after its claim; it goes out at most once for each time it was armed, unless it was resent and its claim expired; a key has one live reminder, unless generations overlapped |
| `Workspaces` | `RolesComeFromTheOwner` | one active owner, the creator; every admin was made one by the owner |

### Bounds

Two jobs are enough for a conflict on one revision, two workers for a second
execution, two attempts for one retry and one last attempt, and one to three
faults for a crash together with the duplicate or the failed statement that
follows it. Approvals of different trips share nothing, so one trip is enough;
three users are an edit and a withdrawal between the read and the write of a
third one's request, and two revisions are the submitted itinerary and another.

In `clients` and `services` every hazard is a race of two: two actors that
interleave statement by statement meet every order of two handlers, and the
bounds on rows leave room for a row that is overtaken and its successor (three
members for a removal or a transfer among others; three letters and a page of
two, so that a page leaves one behind and two pages overlap; three people for a
debt that is settled with two creditors; an amount of 399.99, of which two equal
shares leave a cent, and 100.01 percent are four cents too many, so that two are
forgotten at a participant who has nothing; a window of two minutes among six). Spenders and
workspace members begin three requests: one that makes the row, and two that
race for it.

Some instances take rare events one at a time. `OneIncident`: two tabs meet one
of a closed tab, a second edit and an edit elsewhere (or a merge); one tab meets
the last two together, at two records. `OneRetry`: a calendar fault comes with
two requests, three come without. `TwoPublications`: at most two publications of
presence are under way, so that one overtakes the other. `OneEdit`: beside one
proposal there are up to three edits, beside two at most one, and both can still
be applied. `OneReminder` and `NothingIsDue` are the two instances of the
reminders. `TwoAfterFault` (in `MCTripApproval`): three requests interleave
while no withdrawal was lost, two from then on. These are bounds of the
instances alone: the specifications do not have them, and the invariants of
these components are proved without them (section 4).

Each instance of `clients` and `services` has between a thousand and 460
thousand distinct states. All names of actors in one configuration are the same
two, so that one symmetry set serves all.

The types of the job tables and of the approvals are proved for all instances
(section 4), so no run repeats them. `CHECK_DEADLOCK FALSE` stands where the
system may really stop: when all bounded requests, runs or edits are used up,
nothing is left to do.

`QueuedHasCarrier` is checked under crashes and ambiguous publishes. It is false
by design under fail-open publishing and when the API process dies between
insert and publish: in queue mode nothing picks up a row without a message
(listed as a hazard). It is false under a broken channel, too: a worker whose
channel broke goes on and may give the row back to the queue after the
redelivered copy of its message was acknowledged. `CancelledHasNoEffect` is
checked without the "commit" fault: a save that is reported as failed although
it committed may be given back to the queue and then be cancelled.

### Fairness

`EveryJobCloses` assumes weak fairness of: a step of a running handler, taking a
message from a non-empty queue, the restart of a stopped process (Docker restart
policy), the publish and refusal steps of a running request, the end of the retry
delay, and the passing of time. Nothing is assumed of users and operators. A job
whose worker died in its execution is excepted, because its row is repaired only
when a process starts after the threshold. `StaleReviewsEnd` assumes weak
fairness of the withdrawal alone: the handler that saved calls it next. The
components of `clients` and `services` are checked for safety only; where a
passing of time, a retry or a cleanup is not obliged to happen, no property
relies on it.

### Where the code and its documentation differ

Each of these has a run whose counterexample shows it:

1. `deadletter`: worker-service/README.md:182 says that terminal failures are
   persisted before the message is dead-lettered; `retryOrRequeue` dead-letters
   with the row queued or running.
2. `processing`: `Generate` promises COMPLETED or FAILED; a timeout, a panic or a
   revision conflict leaves PROCESSING.
3. `overtaken`: approval_reset.go:15-16 says a stale plan is never left approved.
   An edit that commits and withdraws between the read and the write of an
   approval (or of a submission) is overwritten. `CurrentUnlessOvertaken` says
   that this and a lost withdrawal are the only ways.
4. `offline`: TripDetailPageContent.tsx:1615 tells the user "Saved offline. Will
   sync when you are back online."; a save that falls between the get and the put
   of a sync pass is overwritten, or marked synced without being sent.
   `KeptUnlessRaced` says that this is the only way.
5. `removed`: docs/permissions.md:19 says that removed collaborators have no
   access; their pending invitation survives the removal and lets them back in.

Others were met while modelling. The models contain them, and the properties
are stated so as to name them, without a run of their own:

- `CompleteGenerationJob` and `FailGenerationJob` have no condition on the
  status: an operator's *failed* can turn *completed*, though
  trip-service/README.md:928-937 draws both as final. (`NeverReopened` is what
  holds, and is proved.)
- worker-service/README.md:35 says "startup/periodic cleanup" of stale rows; the
  repair runs at startup only.
- trip-service/README.md:1233 allows decisions from `pending_approval` only; the
  UPDATE does not test the status, so the second of two racing reviewers replaces
  the first one's decision. The columns stay consistent (`RowTellsOneStory`).
- Every failed refresh clears the tokens of all tabs: a lost answer, or the loser
  of two concurrent refreshes, shows "session expired" while a live token of
  that session is stored (or was, a moment ago).
- scripts/web-smoke-test.md:1136-1150 expects an edit lock to lapse with an idle
  editor; the page renews it as long as it stays in edit mode.
- Percentages are accepted when their sum misses 100 by no more than 0.01, and the
  cents they have in excess are taken back one participant after the other; at one
  who has nothing left a cent is forgotten. So 10000.00 split as 0% and 100.009%
  gives shares of 10000.45. `SharesAddUpUnlessRaced` says that this is all: shares
  never miss the amount, are exact when everyone has one, and exceed it by a
  bounded number of cents for each participant who has none (`MostForgotten`).
- A digest batch whose retry meets a newer pending batch of the same delivery
  time is refused by the unique index and stays in processing for good; so does
  the batch of a pass that stopped.
- Reminders: Trip Service takes every answer of Notification Service for a
  delivery. A report whose insert failed after the claim is answered as a duplicate
  when it is repeated within the window, and the reminder is then marked *sent*
  with nothing delivered; so is one that the recipient has muted; and a sent
  reminder that a user makes pending again within the window is dropped the same
  way. `NotifiedOnceUnlessOverlapped` names them (`silent`), and promises "at most
  once" for each time a reminder was armed, not "once".
- Edit locks: an acquisition that is answered after its page was left starts a
  renewal timer that nothing stops, so the lock stays with a page that is gone
  until its tab is closed. `OwnersRenew` names it: a timer runs at an owner
  who edits, or at a page that was left.
- Report deduplication: a claim whose holder then fails swallows later reports of
  the event within the window, which the comment at service.go:121 does not speak
  of.
- Data exports: a read of an overdue export expires the row, with its path gone,
  and leaves the file, which the cleanup then never finds, although
  docs/data-export-portability.md:3 and 42-45 promise deletion; the cleanup
  ignores errors of the deletion; and a completion reported as failed deletes the
  file of a completed job.
- Workspaces: an acceptance does not ask whether the workspace is archived; a
  role changed while a member is only invited is overwritten by the invitation's
  on acceptance; removing an invited member leaves the invitation pending; and an
  invitation that races an acceptance changes an active member's role.
- Calendar sync: rows are marked deleted whatever became of their events, and the
  removal reports failures as a number only, so a refused deletion leaves events
  that no later sync finds; the same happens when the user has connected another
  account (Google answers "not found", which counts as deleted), when an answer is
  lost, and when two requests cross (both create events). A row whose event is
  gone is never repaired: each sync tries to update it and fails. And the status
  takes the largest revision of the rows, so that a sync with failed items looks
  as current as a complete one. `EventsAreKnown` and `InSyncMeansSynced` name
  these as the only exceptions: a calendar that the page calls in sync may hold
  such events beside those of its items (`astray`), and no others.

### Broken variants

Beside the definitions they resemble, the modules hold broken variants (each
marked by a comment): a claim that does not look at the status, a guarded save
that accepts older revisions, a mark without its WHERE clause, and so on. They
are not part of the specification. Each property has one that TLC must find to
violate it, so that no property holds vacuously; a property that says two things
has two.

## 4. What is proved

For all values of the constants that satisfy the assumption named in the module
(`ConstantsAssumption`: the two sentinels are not jobs, at least one attempt, the
faults are known ones; the others say that bounds are numbers, that sentinels
are not data, that the messages, the places of an itinerary and the people of a
trip are finitely many, the latter two numbers, that amounts are positive, that percentages
are counted in some fraction of a hundredth, and that the first owner or creator is a user):

| Module | Theorem | Statement |
|---|---|---|
| `GenerationJobsProofs` | `TypeCorrect` | `Spec => []TypeOK` |
| | `HistoryIsKnown` | `Spec => []ExecutionsMatchHistory` |
| | `OneExecutionAtATime` | `Spec => []ExclusiveExecution` |
| | `UpdatesAreNotLost` | `Spec => []NoLostUpdate` |
| | `CompletionIsTrue` | `Spec => []CompletedMeansSaved` |
| | `EffectAtMostOnce` | `Spec => []AppliedAtMostOnce` |
| | `FinalStatesStayFinal` | `Spec => NeverReopened` |
| | `JobsImplementContract` | `Spec => ImplementsContract` |
| | `CancellingIsTrue` | `Spec => []CancelledHasNoEffect`, if no commit is misreported |
| | `QueuedIsCarried` | `Spec => []QueuedHasCarrier`, under `Carried` |
| `TripProofs` | `ApprovalTypeCorrect` | `Spec => []TypeOK` |
| | `DecisionsDoNotMix` | `Spec => []RowTellsOneStory` |
| | `StalenessIsExplained` | `Spec => []CurrentUnlessOvertaken` |
| `ClientsProofs` | `TokensAreSingle` | `SessionSpec => []OneTokenPerSession` |
| | `EndsAreFinal` | `SessionSpec => []EndedStaysEnded` |
| | `LockTypesHold` | `LockSpec => []LockTypeOK` |
| | `GrantsHold` | `LockSpec => []GrantsAreHonoured` |
| | `GrantsNeverOverlap` | `LockSpec => []OneGrantAtATime` |
| | `OwnersGoOnRenewing` | `LockSpec => []OwnersRenew` |
| | `ViewsBecomeCurrent` | `PresenceSpec => []ViewsAreCurrent` |
| | `ClientsTyped` | `ClientsSpec => []ClientsTypeOK` |
| `OfflineProofs` | `OfflineTypesHold` | `OfflineSpec => []OfflineTypeOK` |
| | `SendingIsAttended` | `OfflineSpec => []SyncingIsAttended` |
| | `EditsAreKept` | `OfflineSpec => []KeptUnlessRaced` |
| | `SendsTakeEffectOnce` | `OfflineSpec => []DuplicatesExplained` |
| `CalendarProofs` | `CalendarTypesHold` | `CalendarSpec => []CalendarTypeOK` |
| | `EventsStayKnown` | `CalendarSpec => []EventsAreKnown` |
| | `InSyncIsSynced` | `CalendarSpec => []InSyncMeansSynced` |
| `ServicesProofs` | `AccessHolds` | `CollabSpec => []AccessIsEarned` |
| | `RolesHold` | `WorkspaceSpec => []RolesComeFromTheOwner` |
| | `ProposalsApplyOnce` | `ProposalSpec => []AppliedOnce` |
| | `ProposalsTellEffect` | `ProposalSpec => []StatusTellsEffect` |
| | `ServicesTyped` | `ServicesSpec => []ServicesTypeOK` |
| `BackgroundProofs` | `OverlapsOutlive` | `CleanupSpec => []OverlapsOutliveTheirLock` |
| | `DigestsDeliverOnce` | `DigestSpec => []DeliveredOnce` |
| | `DigestsAreAttended` | `DigestSpec => []ProcessingIsAttended` |
| | `RemindersObeyTheirUsers` | `ReminderSpec => []DecisionsStand` |
| | `RemindersNotifyOnce` | `ReminderSpec => []NotifiedOnceUnlessOverlapped` |
| | `ExportFilesFollow` | `ExportSpec => []FilesFollowTheirJobs` |
| | `DeliveriesAreApart` | `DedupeSpec => []OneDeliveryPerWindow` |
| | `LettersAreNotLost` | `DeadLetterSpec => []EachLetterOnce` |
| `ExpensesProofs` | `SplitsAddUp` | a split of any total by any type adds up, but for the cents that a percentage split forgets at participants without a share, which are bounded |
| | `SuggestionsSettleAny` | the payments suggested for any balances settle them |
| | `SharesAlwaysAddUp` | `ExpenseSpec => []SharesAddUpUnlessRaced` |
| | `SuggestionsAlwaysSettle` | `ExpenseSpec => []SuggestionsSettle` |
| | `PaymentsAlwaysReduceDebts` | `ExpenseSpec => PaymentsReduceDebts` |

**Generation jobs.** `ExclusiveExecution` is inductive beside the types: an
execution begins only with a claim, a claim needs a queued row, and a row becomes
queued again only by the reset of its own execution. `NoLostUpdate` is not: that
a save appends a version computed from the current revision needs the revision
that the execution *read* to be the one the job *expects* (`SeenIsExpected`).
`CompletedMeansSaved` needs the execution that completes to point to a version
that is in the history and stays there, or to a proposal that is stored and stays
so (`SavedInHistory`); that a job with a proposal wrote no version follows from the
kind of every writer in the history (`VersionsFromJobs`). And
`AppliedAtMostOnce` follows because two versions by one job would have the same
base (`VersionsFromJobs`) and bases are positions (`NoLostUpdate`). Their
conjunction is `IInv`; the module proves that it holds initially, is
preserved by every step, and implies each property. The proofs share one
classification of steps: every step leaves a trip's history or appends one
version (`HistoryGrows`), and keeps what each row was created for
(`RowsKeepRequest`).

For the refinement, every step of the system moves one row along the status
diagram or closes several (`StatusStep`), and a save is the first of its job and
happens outside "waiting" by the invariant; each is a step of `JobContract` or a
stutter.

**Cancelled and queued jobs.** That a cancelled job has no effect is inductive
only with the jobs that may still be cancelled or executed: a waiting row, and an
execution that has not saved yet, has written nothing either (`Unapplied`). The
theorem has the hypothesis that commits are reported truly; TLC shows that it is
needed (a save that is reported as failed is given back to the queue, where the
user may cancel it). `CarrierInv` is stronger than `QueuedHasCarrier`: of the
workers that name a queued row, only one that is about to claim it or to publish
it again counts, since any other will acknowledge its message. `Carried` states
the hypotheses: queue mode, failing closed, no failing request process, statement
or channel. Each of them, left out, loses rows (section 3, Bounds); crashes,
ambiguous publishes and misreported commits may happen at any time.

**Approvals.** The row that a request writes tells one story only if the copy it
carries does and still has the status that was checked (`CopiesOK`); that is the
strengthening. Staleness is explained step by step: a submission that was not
overtaken records the current revision, a decision on an unchanged row keeps the
one recorded, an edit is followed by its own withdrawal, and a withdrawal leaves
nothing to explain.

**Sessions.** The rotation revokes one row and inserts one of the same session,
so single use is inductive beside the types. That an ended session stays ended
is not: the rotation's WHERE clause does not test the expiry, so the invariant
must say that *every* token of an ended session is revoked, the expired ones
included (`EndedAreRevoked`).

**Edit locks.** `GrantsAreHonoured` is inductive beside the types, whose one
unobvious part is that no call carries a time ahead of the clock: a section
works with a time between the sending and now, a grant that lies ahead of now
lies ahead of that time too, and so the section finds it held. `OwnersRenew` says
that owners renew and that nobody else does. The first half is inductive: a page
starts its timer in the step in which it learns that it owns the lock, and stops it
only with a release on its way. The second half needs to know what is still under
way: a page has at most one acquisition waiting (`OneAcquisition`), and it waits
only while its editor edits or after the page was left (`RenewalInv`), so an answer
that makes an owner finds one of the two.

**Presence.** That a view is current follows from what is true of all events, sent
or not (`PresenceInv`): a snapshot of the current age shows the registry as it is
(`Fresh`); each registered stream was offered the newest one, or a publication is
due or under way that will offer it (`InForm`); and the last event in a stream's
queue or view is the newest it was offered, unless one was missed (`StreamInv`).

**Offline queue.** Records are read in one transaction and written in another, so
everything turns on the copies in between: each is a copy of the record it will be
written to, with that record's draft or an older one (`CopiesFollow`). An edit is
kept (`KeptInv`) because, until it is on the server or decided, it is the draft of
an active record *and* of every copy of that record, and nobody who holds one is
about to write "synced" (`ActiveAt`, `Finishing`), unless it was saved while such a
copy was in hand, which is what `raced` records. It takes effect once because a draft
is in one record at most (`HeldInv`) and a version sent from it stands where the
record's base says (`SentInv`), so a second send of it meets a conflict. A creation
has no base; that it is sent once needs that one pass at most lists the record, and
that it is not pending, nor listed again, after it was sent (`CreatedInv`).

**Calendar sync.** A request works for a long time with the events it read from
the rows. The invariant (`CalendarInv`) says, item by item, how what it holds fits
the rows and the calendar (`FitsAt`): an event it saw is still in its row, or it
deleted that event itself, alone; an event it created or updated lives; both only
for events that have not gone astray. Overlapping requests never disturb this,
since each knows that it overlaps (`OverlapsAreKnown`) and whatever it touches
counts as astray from then on (`CrossedStaysFit`); so each step has one request to
look at (`StepKeeps`). An event that lives is then in its row or in the hands of
the lone request that created it, and a row whose event is gone is one that the
lone request will mark. For `InSyncMeansSynced`, `SyncInv` follows a request that
runs alone for the plan's revision item by item (`WayAt`): outdated rows go before
items are written, and a written item's row follows before the request returns. No
other request writes rows of that revision, so when none is busy a single row of
it means that its sync came to its end; the page's largest revision is that of a
row (`MaxIsMember`). That there is no other event but those astray follows from
`EventsAreKnown`, since the rows then are exactly those of the items with a time.

**Collaboration.** That who has access is who earned it is inductive once the
handlers are known to name members and existing invitations (`CollabInv`).

**Workspaces.** `RolesComeFromTheOwner` needs three things more (`WorkspaceInv`):
the owner's row is the first and only one of that role; a pending invitation to be
an admin comes from the owner and the creator has none; and each request that
passed its checks carries what those checks established (`SlotOK`), although the
row it read may have changed since. From "one active owner" follows that the
checks of a removal refuse that row, which keeps it one.

**Proposals.** Requests that apply a proposal read its status, save the itinerary
and mark it, without a transaction; the invariant (`ProposalInv`) says what each
request may still do: one that is ready to save has seen a current base, and a
proposal that no two requests raced for has a single request, whose phase tells how
much of "saved" and "marked" has happened. The guarded save does the rest.

**Cleanup runs.** One row runs at most (the partial unique index), no two replicas
complete the same row, and a task within its lock's time has its row running with
that lock (`CleanupInv`); so a second task starts only after the lock's end.

**Digests.** An event lies in one batch at most, a batch in processing is held by
one pass at most, and what was delivered is counted once unless the delivery was
reported as failed (`DigestInv`): the claim by status lets one of two passes win,
and the index lets one of two batches be pending.

**Reminders.** What a user decided stands because every write of a pass is
conditional on "pending". The rest needs to follow a report (`ReminderInv`). A
pass that was answered, and a reminder that is marked sent, have had their
report claimed, and a claim is never taken back: what was claimed is being
inserted, was delivered, came to nothing or expired, each of which the row or a
history says (`ReportingInv`). A row that was not resent is in the hands of one
pass at most, and has been armed once more than it was notified while it may still
be reported; a row whose claim never expired was reported once (`RowInv`,
`CountedInv`). A generation inserts what it found no reminder for; two that insert
one key were under way together, and both know it (`GenerationsInv`).

**Exports.** A request that is at work has a job that is queued and nobody
else's, and a sweep touches only jobs that are overdue (`ExportsInv`); so a file
outlives its job's row only in the named ways.

**Deduplication.** Late batches move the ledger's time *back*, so the ledger does
not hold the latest delivery. It is never further behind any delivery than a
request takes (`WinsInv`), because the clock is not further ahead of a batch at
work than that (`ClockInv`); a claim that wins finds the ledger a window older
than itself, and so every earlier delivery.

**Dead letters.** `EachLetterOnce` counts the places of a message; the proof splits
them by kind (`Once`): one position in the dead-letter queue, or in the main queue,
or in the page of one request, or none and the message is done with. Each step cuts
a sequence in two or moves a head to another end, and lemmas on sequences say what
becomes of the positions. Only a request that moves messages has a page in hand
(`LettersInv`), or taking a page would overwrite one.

**Expenses.** Sums over people are folds, and a fold takes its members in an order
nobody chose; first it is shown that the order does not matter, that a sum over a
set splits off any member, and what changing one member does to it. Equal shares
are a division whose remainder goes, cent by cent, to the first ids; percentage
shares are rounded one by one and what is over or short is spread in the same way,
which a rank of the ids counts. What is over is at most half a cent of rounding per
id and what the percentages exceed 100 by, a ten thousandth of the total
(`RoundedSums`); it is taken from the shares, but for what falls on shares of zero
(`PercentageShares`, `SplitsAddUp`). The settlement goes in rounds, each
a payment from the first debtor to the first creditor. Between rounds every side
says what its user still owes or is owed, everyone else is even, nobody has changed
sides and nothing is lost (`Debtors`, `Creditors`, `Balanced`); a round uses up one
of its two sides, so there are fewer rounds than sides; and when one side is empty,
whoever is left over is so by no more than all balances together miss and a
tolerance for each of the others, because payments do not change the sum
(`SuggestionsSettleAny`). The induction on the rounds, and on the
members of a set, is by lemmas about a *set* of the numbers or subsets for which
the claim holds (`NatInduct`, `SetInduct`). The requests compute a balance from two
reads and write a payment later; the invariant (`ExpensesKept`) says that what a
request has in hand is what it would read now, unless it was overtaken (`NetHolds`,
`SuggestionsHold`), and so a payment that was not is for a debt that exists.

**Types of the gathered instances.** Each behaviour of `MCClients` and of
`MCServices` is one of every component (the lemmas named `...Gathered`), so what is
proved of a component holds of the instance that the run checks, the types of each
included. For the calendar the types are more than a
declaration: that every event lies in some account's calendar needs that whoever
is connected, or holds a token, does so with an account (`AccountsKnown`).

Only model-checked: liveness (`EveryJobCloses`, `StaleReviewsEnd`), which is out
of the prover's reach like everything under fairness and ENABLED. Every invariant
that a passing run checks is a theorem.

## 5. Plan

What would come next: models of the polls and decisions of a trip (a vote and a
closing each read the poll's status first), of route alternatives, of the
checklist, and of the in-memory rate windows of External Integrations.

## 6. Not modelled, and why

- **AI prompting, retrieval, training, serving, scoring** (`ai-planning-service`,
  `aimodel`, `aidataset`, `aivalidation`, `knowledge`, `aiobservability`):
  text processing and configuration; for the rest of the system an outcome of
  `Generate`.
- **Derived views and scores** (`triphealth`, `verification`, `approvalrisk`,
  `workspacepolicies`, `groupreadiness`, `analytics`, `recap`, `copilot`, `search`,
  `personalization`, ...): read-only rules over trip data with no state of their
  own; a refusal by policy is a nondeterministic outcome where a handler asks.
  They are the larger part of Trip Service's lines, and why the mapped share of
  the repository is small.
- **HTTP handlers, clients of other services, mappings to JSON, DTOs,
  rendering**: transport; an error of a call is an outcome of the action that
  makes it.
- **Shares, receipts, budgets, profiles, preferences, comments, checklist**:
  single-statement changes that no other handler's guard reads.
- **Polls, route alternatives**: short protocols of a read and a write, next in
  the plan.
- **External Integrations, but for calendars**: rate windows and caches in memory in front of
  provider calls.
- **Left out within modelled parts**: texts, activity rows and notifications that
  nothing reads back; the validation of input; `SetGenerationJobResultPayload`;
  presence heartbeats; currency conversion.
- **Infrastructure, evaluation, seed data**: no program state.
