---------------------------- MODULE GenerationJobs ----------------------------
(***************************************************************************)
(* Background generation jobs: Trip Service inserts a job row and          *)
(* publishes its id; workers claim the row, generate an itinerary, save it *)
(* under the revision check, finish the row and settle the message.  A job *)
(* that optimises a budget or repairs the policy of a trip saves no        *)
(* itinerary: it leaves a proposal (module Proposals says what becomes of  *)
(* it) and completes with the revision it read.                            *)
(* Workers, the broker connection and the API process can stop between any *)
(* two of these steps, and users and operators act meanwhile.              *)
(*                                                                         *)
(* DispatchMode "queue" is Worker Service fed by RabbitMQ; "in_process" is *)
(* the poller inside Trip Service.  A worker is one consumer: it handles   *)
(* its deliveries one at a time, whatever the prefetch.                    *)
(*                                                                         *)
(* Faults are drawn from FaultKinds and at most MaxFaults happen:          *)
(*   "crash"    a worker process dies, or is told to shut down (the        *)
(*              consumer's context is also the handler's, so a handler     *)
(*              caught by a shutdown can write nothing more and its        *)
(*              message is requeued: the effect of a crash)                *)
(*   "link"     a worker's AMQP channel breaks; its handler goes on        *)
(*   "publish"  a publish reports an error, the message stored or not      *)
(*   "db"       a statement of a handler fails and has no effect           *)
(*   "commit"   the itinerary transaction, or the insert of a proposal,    *)
(*              commits but reports an error                               *)
(*   "api"      Trip Service dies between the insert and the publish       *)
(* MaxRevision bounds manual edits only; Kinds are the jobs requested.     *)
(***************************************************************************)
EXTENDS GenerationJobStore, GenerationBroker

CONSTANTS Kinds, Workers, NoJob, Manual, DispatchMode, PublishFailOpen,
          MaxAttempts, MaxRevision, FaultKinds, MaxFaults

AllFaults == {"crash", "link", "publish", "db", "commit", "api"}

ASSUME ConstantsAssumption ==
    /\ Kinds \subseteq JobKinds
    /\ NoJob \notin Jobs
    /\ Manual \notin Jobs
    /\ DispatchMode \in {"queue", "in_process"}
    /\ PublishFailOpen \in BOOLEAN
    /\ MaxAttempts \in Nat \ {0}
    /\ MaxRevision \in Nat
    /\ FaultKinds \subseteq AllFaults
    /\ MaxFaults \in Nat

VARIABLES
    proposed,      \* the jobs that left a proposal row, for a user to apply
    publishing,    \* inserted jobs whose request has yet to publish
    refusing,      \* jobs whose publish failed and whose row is about to be failed
    workers,
    faults

vars == <<trips, proposed, jobs, mainQ, retryQ, deadQ, publishing, refusing, workers, faults>>
requests == <<publishing, refusing>>

QueueMode == DispatchMode = "queue"

(* The steps of a worker inside Worker.process: it has claimed the row and *)
(* has not yet written what became of it.                                  *)
Executing == {"reading", "starting", "generating", "saving", "marking",
              "saved", "failing"}
Phases == Executing \cup {"down", "idle", "delivered", "lookup",
                          "republishing", "errored", "acking", "rejecting"}

WorkerStates ==
    [phase : Phases, job : Jobs \cup {NoJob}, attempt : Nat, held : BOOLEAN,
     retryable : BOOLEAN, seen : Nat, result : Nat]

Handling(p, j, a) ==
    [phase |-> p, job |-> j, attempt |-> a, held |-> TRUE,
     retryable |-> FALSE, seen |-> 0, result |-> 0]
Idle == Handling("idle", NoJob, 0)
Down == Handling("down", NoJob, 0)

JobOf(w) == workers[w].job
RowOf(w) == jobs[JobOf(w)]
TripOf(w) == RowOf(w).trip
At(w, p) == workers[w].phase = p
Holds(w, j) == workers[w].job = j /\ workers[w].phase \in Executing

Fault(kind) ==
    /\ kind \in FaultKinds
    /\ faults < MaxFaults
    /\ faults' = faults + 1

Goto(w, p) == workers' = [workers EXCEPT ![w].phase = p]
FailExecution(w, p, retryable) ==
    workers' = [workers EXCEPT ![w].phase = p, ![w].retryable = retryable]

SetRow(j, row) == jobs' = [jobs EXCEPT ![j] = row]
SetTrip(t, row) == trips' = [trips EXCEPT ![t] = row]

Init ==
    /\ InitTrips
    /\ InitQueues
    /\ jobs = [j \in {} |-> 0]
    /\ proposed = {}
    /\ publishing = {}
    /\ refusing = {}
    /\ workers = [w \in Workers |-> Idle]
    /\ faults = 0

-----------------------------------------------------------------------------
(* Requests to Trip Service.                                               *)

(* The row of a new job; a request that must publish it goes on.  The      *)
(* expected revision was current when the request read the trip.           *)
InsertJob(j, t, kind, expected) ==
    /\ j \in Jobs \ Created
    /\ expected \in 0..trips[t].revision
    /\ kind # "full" => expected > 0
    /\ CreateGenerationJob(j, QueuedRow(t, kind, expected))
    /\ publishing' = IF QueueMode THEN publishing \cup {j} ELSE publishing
    /\ UNCHANGED <<trips, proposed, queues, refusing, workers, faults>>

Create(j) ==
    \E t \in Trips, kind \in Kinds :
        \E expected \in 0..trips[t].revision : InsertJob(j, t, kind, expected)

(* Ops retry leaves the old row as it is and inserts a new one with the    *)
(* trip's revision of the moment.                                          *)
OpsRetry(old, j) ==
    /\ old \in Created
    /\ jobs[old].status \in {"failed", "cancelled"}
    /\ \E expected \in 0..trips[jobs[old].trip].revision :
          InsertJob(j, jobs[old].trip, jobs[old].kind, expected)

Dispatch(j) ==
    /\ j \in publishing
    /\ publishing' = publishing \ {j}
    /\ \/ PublishGenerationJob(j) /\ UNCHANGED <<refusing, faults>>
       \/ /\ Fault("publish")
          /\ PublishGenerationJob(j) \/ UNCHANGED mainQ
          /\ refusing' = IF PublishFailOpen THEN refusing ELSE refusing \cup {j}
    /\ UNCHANGED <<trips, proposed, jobs, retryQ, deadQ, workers>>

(* A publish that reported an error fails the row, whatever it holds by    *)
(* now; an error of that update is ignored.                                *)
RefuseDispatch(j) ==
    /\ j \in refusing
    /\ refusing' = refusing \ {j}
    /\ \/ SetRow(j, FailGenerationJob(jobs[j])) /\ UNCHANGED faults
       \/ Fault("db") /\ UNCHANGED jobs
    /\ UNCHANGED <<trips, proposed, queues, publishing, workers>>

ApiCrash(j) ==
    /\ j \in publishing \cup refusing
    /\ Fault("api")
    /\ publishing' = publishing \ {j}
    /\ refusing' = refusing \ {j}
    /\ UNCHANGED <<trips, proposed, jobs, queues, workers>>

Cancel(j) ==
    /\ j \in Created
    /\ Cancellable(jobs[j])
    /\ SetRow(j, CancelQueuedGenerationJob(jobs[j]))
    /\ UNCHANGED <<trips, proposed, queues, requests, workers, faults>>

OpsMarkFailed(j) ==
    /\ j \in Created
    /\ Stale(jobs[j])
    /\ SetRow(j, FailGenerationJob(jobs[j]))
    /\ UNCHANGED <<trips, proposed, queues, requests, workers, faults>>

(* An operator puts a dead letter back on the main queue, its attempt      *)
(* header unchanged.                                                       *)
RequeueDLQMessage(m) ==
    /\ m \in DOMAIN deadQ
    /\ deadQ' = BagRemove(deadQ, m)
    /\ mainQ' = BagAdd(mainQ, m)
    /\ UNCHANGED <<trips, proposed, jobs, retryQ, requests, workers, faults>>

(* A user saves an edit of the itinerary made on the current revision.     *)
UpdateItinerary(t) ==
    /\ trips[t].revision < MaxRevision
    /\ SetTrip(t, UpdateItineraryAndCreateVersion(trips[t], Manual, trips[t].revision))
    /\ UNCHANGED <<proposed, jobs, queues, requests, workers, faults>>

-----------------------------------------------------------------------------
(* Settling a delivery.  A worker whose channel broke no longer holds its  *)
(* message: acks and nacks go nowhere, and Consumer.Run then ends.         *)

Settled(w) == IF workers[w].held THEN Idle ELSE Down
Settle(w) == workers' = [workers EXCEPT ![w] = Settled(w)]
Held(w) == Msg(JobOf(w), workers[w].attempt)

NackRequeue(w) ==
    /\ Settle(w)
    /\ mainQ' = IF workers[w].held THEN BagAdd(mainQ, Held(w)) ELSE mainQ
    /\ UNCHANGED <<retryQ, deadQ>>

NackDeadLetter(w) ==
    /\ Settle(w)
    /\ deadQ' = IF workers[w].held THEN BagAdd(deadQ, Held(w)) ELSE deadQ
    /\ UNCHANGED <<mainQ, retryQ>>

(* A broken variant, not part of the specification.                        *)
RetryThenAckDropping(w) ==
    \/ /\ PublishRetry(JobOf(w), workers[w].attempt + 1)
       /\ Goto(w, "acking")
       /\ UNCHANGED <<mainQ, deadQ, faults>>
    \/ /\ Fault("publish")
       /\ Settle(w)
       /\ UNCHANGED queues

(* Publish the next attempt and go on to the ack, or requeue the message.  *)
RetryThenAck(w) ==
    \/ /\ PublishRetry(JobOf(w), workers[w].attempt + 1)
       /\ Goto(w, "acking")
       /\ UNCHANGED <<mainQ, deadQ, faults>>
    \/ /\ Fault("publish")
       /\ Settle(w)
       /\ mainQ' = IF workers[w].held THEN BagAdd(mainQ, Held(w)) ELSE mainQ
       /\ \/ PublishRetry(JobOf(w), workers[w].attempt + 1)
          \/ UNCHANGED retryQ
       /\ UNCHANGED deadQ

-----------------------------------------------------------------------------
(* A worker and the row: Consumer.handleDelivery and Worker.ProcessJobByID *)
(* in queue mode, Worker.processNext in process.                           *)

Deliver(w, m) ==
    /\ QueueMode
    /\ At(w, "idle")
    /\ m \in DOMAIN mainQ
    /\ mainQ' = BagRemove(mainQ, m)
    /\ workers' = [workers EXCEPT ![w] = Handling("delivered", m.job, m.attempt)]
    /\ UNCHANGED <<trips, proposed, jobs, retryQ, deadQ, requests, faults>>

ClaimJob(w) ==
    /\ At(w, "delivered")
    /\ \/ /\ Claimable(RowOf(w))
          /\ SetRow(JobOf(w), ClaimGenerationJob(RowOf(w)))
          /\ Goto(w, "reading")
          /\ UNCHANGED faults
       \/ ~Claimable(RowOf(w)) /\ Goto(w, "lookup") /\ UNCHANGED <<jobs, faults>>
       \/ Fault("db") /\ Goto(w, "errored") /\ UNCHANGED jobs
    /\ UNCHANGED <<trips, proposed, queues, requests>>

(* The claim touched no row: its status is read again.  A row that is      *)
(* queued by now makes the handler return ErrJobAlreadyFinished.           *)
LookupJob(w) ==
    /\ At(w, "lookup")
    /\ \/ Goto(w, IF RowOf(w).status = "queued" THEN "errored" ELSE "acking")
          /\ UNCHANGED faults
       \/ Fault("db") /\ Goto(w, "errored")
    /\ UNCHANGED <<trips, proposed, jobs, queues, requests>>

(* The oldest queued row that no other transaction has locked.             *)
ClaimNextGenerationJob(w, j) ==
    /\ ~QueueMode
    /\ At(w, "idle")
    /\ j \in Created
    /\ Claimable(jobs[j])
    /\ SetRow(j, ClaimGenerationJob(jobs[j]))
    /\ workers' = [workers EXCEPT ![w] = Handling("reading", j, 1)]
    /\ UNCHANGED <<trips, proposed, queues, requests, faults>>

(* The access and revision check, then the contexts the planner needs.     *)
ReadTrip(w) ==
    /\ At(w, "reading")
    /\ \/ FailExecution(w, "failing", FALSE)
       \/ /\ RevisionMatches(trips[TripOf(w)], RowOf(w).expected)
          /\ \/ FailExecution(w, "failing", TRUE)
             \/ workers' = [workers EXCEPT
                   ![w].phase = IF RowOf(w).kind = "full" THEN "starting" ELSE "generating",
                   ![w].seen = trips[TripOf(w)].revision]
    /\ UNCHANGED <<trips, proposed, jobs, queues, requests, faults>>

StartProcessing(w) ==
    /\ At(w, "starting")
    /\ \/ /\ SetTrip(TripOf(w), UpdateStatusByUserID(trips[TripOf(w)], "PROCESSING"))
          /\ Goto(w, "generating")
          /\ UNCHANGED faults
       \/ Fault("db") /\ FailExecution(w, "failing", TRUE) /\ UNCHANGED trips
    /\ UNCHANGED <<proposed, jobs, queues, requests>>

AfterError(w) == IF RowOf(w).kind = "full" THEN "marking" ELSE "failing"

(* Planner, enrichment and validation: they produce an itinerary or an     *)
(* error of either class.                                                  *)
Generate(w) ==
    /\ At(w, "generating")
    /\ \/ Goto(w, "saving")
       \/ \E retryable \in BOOLEAN : FailExecution(w, AfterError(w), retryable)
    /\ UNCHANGED <<trips, proposed, jobs, queues, requests, faults>>

Saved(w) == UpdateItineraryAndCreateVersion(trips[TripOf(w)], JobOf(w), workers[w].seen)

(* The guarded save: a commit, a conflict, a failure, or a commit that is  *)
(* reported as a failure.                                                  *)
SaveItinerary(w) ==
    /\ At(w, "saving")
    /\ RowOf(w).kind # "proposal"
    /\ LET t == TripOf(w)
           matches == RevisionMatches(trips[t], RowOf(w).expected)
       IN \/ /\ matches
             /\ SetTrip(t, Saved(w))
             /\ workers' = [workers EXCEPT ![w].phase = "saved",
                                           ![w].result = trips[t].revision + 1]
             /\ UNCHANGED faults
          \/ ~matches /\ FailExecution(w, "failing", FALSE) /\ UNCHANGED <<trips, faults>>
          \/ Fault("db") /\ FailExecution(w, AfterError(w), TRUE) /\ UNCHANGED trips
          \/ /\ matches
             /\ Fault("commit")
             /\ SetTrip(t, Saved(w))
             /\ FailExecution(w, AfterError(w), TRUE)
    /\ UNCHANGED <<proposed, jobs, queues, requests>>

(* A broken variant, not part of the specification.                        *)
CreateProposalFailOpen(w) ==
    /\ At(w, "saving")
    /\ RowOf(w).kind = "proposal"
    /\ workers' = [workers EXCEPT ![w].phase = "saved", ![w].result = workers[w].seen]
    /\ \/ proposed' = proposed \cup {JobOf(w)} /\ UNCHANGED faults
       \/ Fault("db") /\ UNCHANGED proposed
    /\ UNCHANGED <<trips, jobs, queues, requests>>

(* The insert of the proposal row.  Nothing compares revisions here: the   *)
(* trip may have moved on since it was read.                               *)
CreateProposal(w) ==
    /\ At(w, "saving")
    /\ RowOf(w).kind = "proposal"
    /\ \/ /\ proposed' = proposed \cup {JobOf(w)}
          /\ workers' = [workers EXCEPT ![w].phase = "saved",
                                        ![w].result = workers[w].seen]
          /\ UNCHANGED faults
       \/ Fault("db") /\ FailExecution(w, "failing", TRUE) /\ UNCHANGED proposed
       \/ /\ Fault("commit")
          /\ proposed' = proposed \cup {JobOf(w)}
          /\ FailExecution(w, "failing", TRUE)
    /\ UNCHANGED <<trips, jobs, queues, requests>>

MarkFailed(w) ==
    /\ At(w, "marking")
    /\ Goto(w, "failing")
    /\ \/ /\ SetTrip(TripOf(w), UpdateStatusByUserID(trips[TripOf(w)], "FAILED"))
          /\ UNCHANGED faults
       \/ Fault("db") /\ UNCHANGED trips
    /\ UNCHANGED <<proposed, jobs, queues, requests>>

(* The steps under the deadline that processClaimedJob sets.               *)
Timed == {"reading", "starting", "generating", "saving", "marking"}

(* MaxRunning ends while the job is processed: every later call of the     *)
(* processing fails, markFailed among them, and the error is retryable.    *)
(* Or the processing panics and is recovered: not retryable.               *)
CutShort(w) ==
    /\ workers[w].phase \in Timed
    /\ \E retryable \in BOOLEAN : FailExecution(w, "failing", retryable)
    /\ UNCHANGED <<trips, proposed, jobs, queues, requests, faults>>

CompleteJob(w) ==
    /\ At(w, "saved")
    /\ \/ /\ SetRow(JobOf(w), CompleteGenerationJob(RowOf(w), workers[w].result))
          /\ IF QueueMode THEN Goto(w, "acking") ELSE Settle(w)
          /\ UNCHANGED faults
       \/ /\ Fault("db")
          /\ IF QueueMode THEN Goto(w, "errored") ELSE Settle(w)
          /\ UNCHANGED jobs
    /\ UNCHANGED <<trips, proposed, queues, requests>>

WillRetry(w) ==
    /\ QueueMode
    /\ workers[w].retryable
    /\ workers[w].attempt < MaxAttempts

(* ResetRunningJobForRetry: no row in state running is an error too.       *)
ResetForRetry(w) ==
    /\ At(w, "failing")
    /\ WillRetry(w)
    /\ \/ /\ Resettable(RowOf(w))
          /\ SetRow(JobOf(w), ResetRunningGenerationJobToQueued(RowOf(w)))
          /\ Goto(w, "republishing")
          /\ UNCHANGED <<queues, faults>>
       \/ ~Resettable(RowOf(w)) /\ NackRequeue(w) /\ UNCHANGED <<jobs, faults>>
       \/ Fault("db") /\ NackRequeue(w) /\ UNCHANGED jobs
    /\ UNCHANGED <<trips, proposed, requests>>

RepublishRetry(w) ==
    /\ At(w, "republishing")
    /\ RetryThenAck(w)
    /\ UNCHANGED <<trips, proposed, jobs, requests>>

FailClaimedJob(w) ==
    /\ At(w, "failing")
    /\ ~WillRetry(w)
    /\ \/ /\ SetRow(JobOf(w), FailGenerationJob(RowOf(w)))
          /\ IF QueueMode THEN Goto(w, "rejecting") ELSE Settle(w)
          /\ UNCHANGED <<queues, faults>>
       \/ /\ Fault("db")
          /\ IF QueueMode THEN NackRequeue(w) ELSE Settle(w) /\ UNCHANGED queues
          /\ UNCHANGED jobs
    /\ UNCHANGED <<trips, proposed, requests>>

(* Processing returned an error before a terminal state: the message is    *)
(* retried with the row as it is, or dead-lettered at the last attempt.    *)
RetryOrRequeue(w) ==
    /\ At(w, "errored")
    /\ IF workers[w].attempt >= MaxAttempts
       THEN NackDeadLetter(w) /\ UNCHANGED faults
       ELSE RetryThenAck(w)
    /\ UNCHANGED <<trips, proposed, jobs, requests>>

Ack(w) ==
    /\ At(w, "acking")
    /\ Settle(w)
    /\ UNCHANGED <<trips, proposed, jobs, queues, requests, faults>>

Reject(w) ==
    /\ At(w, "rejecting")
    /\ NackDeadLetter(w)
    /\ UNCHANGED <<trips, proposed, jobs, requests, faults>>

-----------------------------------------------------------------------------
(* Processes and time.                                                     *)

Busy(w) == workers[w].phase \notin {"idle", "down"}

Crash(w) ==
    /\ ~At(w, "down")
    /\ Fault("crash")
    /\ workers' = [workers EXCEPT ![w] = Down]
    /\ mainQ' = IF QueueMode /\ Busy(w) /\ workers[w].held
                THEN BagAdd(mainQ, Held(w)) ELSE mainQ
    /\ UNCHANGED <<trips, proposed, jobs, retryQ, deadQ, requests>>

LoseLink(w) ==
    /\ QueueMode
    /\ Busy(w)
    /\ workers[w].held
    /\ Fault("link")
    /\ workers' = [workers EXCEPT ![w].held = FALSE]
    /\ mainQ' = BagAdd(mainQ, Held(w))
    /\ UNCHANGED <<trips, proposed, jobs, retryQ, deadQ, requests>>

(* Start of a worker process: rows running for longer than MaxRunning are  *)
(* failed, once, before the first delivery.                                *)
StartWorker(w) ==
    /\ At(w, "down")
    /\ workers' = [workers EXCEPT ![w] = Idle]
    /\ jobs' = MarkStaleRunningGenerationJobsFailed(jobs)
    /\ UNCHANGED <<trips, proposed, queues, requests, faults>>

(* started_at falls behind now - MaxRunning.  The processing of the job    *)
(* has ended by then, for its own deadline is MaxRunning after the claim.  *)
BecomeOverdue(j) ==
    /\ j \in Created
    /\ jobs[j].status = "running"
    /\ ~jobs[j].overdue
    /\ \A w \in Workers : ~(JobOf(w) = j /\ workers[w].phase \in Timed)
    /\ SetRow(j, [jobs[j] EXCEPT !.overdue = TRUE])
    /\ UNCHANGED <<trips, proposed, queues, requests, workers, faults>>

DelayEnds ==
    /\ \E m \in DOMAIN retryQ : RetryDelayEnds(m)
    /\ UNCHANGED <<trips, proposed, jobs, requests, workers, faults>>

-----------------------------------------------------------------------------
(* One step of the handler that worker w is running.                       *)
Handle(w) ==
    \/ ClaimJob(w) \/ LookupJob(w)
    \/ ReadTrip(w) \/ StartProcessing(w) \/ Generate(w) \/ SaveItinerary(w) \/ CreateProposal(w)
    \/ MarkFailed(w) \/ CutShort(w) \/ CompleteJob(w)
    \/ ResetForRetry(w) \/ RepublishRetry(w) \/ FailClaimedJob(w)
    \/ RetryOrRequeue(w) \/ Ack(w) \/ Reject(w)

Receive(w) ==
    \/ \E m \in DOMAIN mainQ : Deliver(w, m)
    \/ \E j \in Created : ClaimNextGenerationJob(w, j)

Request(j) ==
    \/ Create(j)
    \/ \E old \in Created : OpsRetry(old, j)
    \/ Dispatch(j) \/ RefuseDispatch(j) \/ ApiCrash(j)
    \/ Cancel(j) \/ OpsMarkFailed(j) \/ BecomeOverdue(j)

Next ==
    \/ \E j \in Jobs : Request(j)
    \/ \E m \in DOMAIN deadQ : RequeueDLQMessage(m)
    \/ \E t \in Trips : UpdateItinerary(t)
    \/ \E w \in Workers :
          Receive(w) \/ Handle(w) \/ Crash(w) \/ LoseLink(w) \/ StartWorker(w)
    \/ DelayEnds

Spec == Init /\ [][Next]_vars

(* What runs by itself: handlers and requests that have begun, deliveries, *)
(* the retry delay, supervisors that restart a stopped process, and time.  *)
(* Nobody is obliged to cancel, to retry, to mark failed or to requeue.    *)
Fairness ==
    /\ \A w \in Workers : WF_vars(Handle(w)) /\ WF_vars(Receive(w)) /\ WF_vars(StartWorker(w))
    /\ \A j \in Jobs :
          /\ WF_vars(Dispatch(j))
          /\ WF_vars(RefuseDispatch(j))
          /\ WF_vars(BecomeOverdue(j))
    /\ WF_vars(DelayEnds)

FairSpec == Spec /\ Fairness

-----------------------------------------------------------------------------
TablesOK ==
    /\ trips \in [Trips -> TripRows(Jobs \cup {Manual})]
    /\ Created \subseteq Jobs
    /\ jobs \in [Created -> JobRow]
    /\ proposed \subseteq Created
    /\ publishing \subseteq Created
    /\ refusing \subseteq Created

QueuesOK ==
    /\ IsQueueOf(Created, mainQ)
    /\ IsQueueOf(Created, retryQ)
    /\ IsQueueOf(Created, deadQ)

WorkersOK ==
    /\ workers \in [Workers -> WorkerStates]
    /\ \A w \in Workers : Busy(w) => JobOf(w) \in Created /\ workers[w].attempt > 0

(* The tables, queues and processes hold values of their types; whatever   *)
(* is published, held or executed names an inserted row.                   *)
TypeOK == TablesOK /\ QueuesOK /\ WorkersOK /\ faults \in 0..MaxFaults

(* A job is executed by one worker at a time, and never while its row says *)
(* that it is free to be claimed: redelivered and duplicated messages,     *)
(* retries, stale repairs and operators never start a second execution     *)
(* beside one that is still under way.                                     *)
ExclusiveExecution ==
    \A w \in Workers, j \in Created :
        Holds(w, j) =>
            /\ jobs[j].status # "queued"
            /\ \A v \in Workers : Holds(v, j) => v = w

Applied(j) ==
    \E k \in 1..Len(trips[jobs[j].trip].versions) :
        trips[jobs[j].trip].versions[k].writer = j

(* However often a job is delivered, retried or taken over, it writes its  *)
(* itinerary at most once: the revision it was created for passes once.    *)
AppliedAtMostOnce ==
    \A t \in Trips : \A k, l \in 1..Len(trips[t].versions) :
        /\ trips[t].versions[k].writer # Manual
        /\ trips[t].versions[k].writer = trips[t].versions[l].writer
        => k = l

(* Job j's itinerary is version r of its trip, the one that follows the    *)
(* revision the job was created for.                                       *)
SavedAt(j, r) ==
    LET versions == trips[jobs[j].trip].versions IN
    /\ r = jobs[j].expected + 1
    /\ r \in 1..Len(versions)
    /\ versions[r].writer = j

(* Job j left a proposal, computed from revision r, the one the job was    *)
(* created for, and never wrote an itinerary of its own.                   *)
ProposedAt(j, r) ==
    /\ r = jobs[j].expected
    /\ j \in proposed
    /\ ~Applied(j)

OutcomeAt(j, r) ==
    IF jobs[j].kind = "proposal" THEN ProposedAt(j, r) ELSE SavedAt(j, r)

(* A completed row names the revision at which its own itinerary was       *)
(* saved, however many executions, faults and edits came between; or its   *)
(* proposal was, and then the revision that the proposal is based on.      *)
CompletedMeansSaved ==
    \A j \in Created : jobs[j].status = "completed" => OutcomeAt(j, jobs[j].result)

(* A row that reached a final state is never queued or run again: a retry  *)
(* by an operator is a new row.                                            *)
NeverReopened ==
    [][\A j \in Created : jobs[j].status \in Terminal => jobs'[j].status \in Terminal]_vars

(* A queued row always has someone who will bring it to a worker or fail   *)
(* it: its request, a message, or the worker about to republish it.        *)
QueuedHasCarrier ==
    \A j \in Created :
        jobs[j].status = "queued" =>
            \/ j \in publishing \cup refusing
            \/ \E m \in DOMAIN mainQ \cup DOMAIN retryQ : m.job = j
            \/ \E w \in Workers :
                  JobOf(w) = j /\ workers[w].phase \notin {"acking", "rejecting"}

(* A cancelled job never had an effect on the itinerary.                   *)
CancelledHasNoEffect ==
    \A j \in Created : jobs[j].status = "cancelled" => ~Applied(j)

(* What the executions and the history know of each other, between the     *)
(* statements of the handlers: an execution that passed the revision check *)
(* carries the revision its job was created for, every version written by  *)
(* a job belongs to the job's trip and revision and to a job that may      *)
(* write, and an execution past its save can point to the version it wrote *)
(* or to its proposal.                                                     *)
SeenIsExpected ==
    \A w \in Workers :
        workers[w].phase \in {"starting", "generating", "saving"}
        => workers[w].seen = RowOf(w).expected

VersionsFromJobs ==
    \A t \in Trips : \A k \in 1..Len(trips[t].versions) :
        LET version == trips[t].versions[k] IN
        version.writer # Manual =>
            /\ version.writer \in Created
            /\ jobs[version.writer].trip = t
            /\ jobs[version.writer].expected = version.base
            /\ jobs[version.writer].kind # "proposal"

SavedInHistory ==
    \A w \in Workers : At(w, "saved") => OutcomeAt(JobOf(w), workers[w].result)

ExecutionsMatchHistory == SeenIsExpected /\ VersionsFromJobs /\ SavedInHistory

(* The abstract job behind the tables: its stage is read off the status,   *)
(* its effect off the version history.                                     *)
StageOf(j) ==
    IF j \notin Created THEN "absent"
    ELSE CASE jobs[j].status = "queued"  -> "waiting"
           [] jobs[j].status = "running" -> "executing"
           [] OTHER                      -> "closed"

Contract == INSTANCE JobContract WITH
    stage   <- [j \in Jobs |-> StageOf(j)],
    applied <- {j \in Created : Applied(j)}

(* The machinery of tables, queues and workers implements the contract.    *)
ImplementsContract == Contract!ContractSpec

(* A row that says running although no worker executes it: its worker died *)
(* and nothing but the repair at a start after the threshold will end it.  *)
Orphaned(j) == jobs[j].status = "running" /\ ~\E w \in Workers : Holds(w, j)

(* Every accepted job reaches a final state, however its messages are      *)
(* requeued, delayed or duplicated, unless a crash orphaned its row.       *)
EveryJobCloses ==
    \A j \in Jobs :
        (j \in Created) ~> (j \in Created /\ (jobs[j].status \in Terminal \/ Orphaned(j)))

-----------------------------------------------------------------------------
(* Statements of the documentation, checked by the runs that refute them.  *)

(* worker-service/README.md: "Terminal failures are persisted before the   *)
(* message is NACKed into the DLQ."                                        *)
DeadLettersAreClosed ==
    \A m \in DOMAIN deadQ : jobs[m.job].status \in Terminal

(* Service.Generate: "PROCESSING -> generate itinerary -> COMPLETED (or    *)
(* FAILED on error)".  A trip is left PROCESSING only while a job of it is *)
(* still to be finished or still executed.                                 *)
ProcessingHasAJob ==
    \A t \in Trips :
        trips[t].status = "PROCESSING" =>
            \E j \in Created :
                /\ jobs[j].trip = t
                /\ \/ jobs[j].status \in {"queued", "running"}
                   \/ \E w \in Workers : Holds(w, j)
=============================================================================
