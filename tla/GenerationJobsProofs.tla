------------------------- MODULE GenerationJobsProofs -------------------------
(***************************************************************************)
(* Theorems about GenerationJobs, for every set of jobs, workers and trips *)
(* and every choice of faults: its types, its safety from one inductive    *)
(* invariant, and the refinement of JobContract.                           *)
(*                                                                         *)
(* ExclusiveExecution is inductive beside TypeOK: a claim needs a queued   *)
(* row, and the only step that queues a row again belongs to the execution *)
(* that ends with it.  NoLostUpdate and CompletedMeansSaved are not: a     *)
(* save appends the revision its worker read, so what the worker carries   *)
(* has to be tied to the row (SeenIsExpected), and a row is completed with *)
(* what its worker remembers of the save, one statement and any number of  *)
(* other steps later (SavedInHistory).                                     *)
(***************************************************************************)
EXTENDS GenerationJobs, TLAPS

-----------------------------------------------------------------------------
(* Queues.                                                                 *)

(* Publishing or requeueing a message for a known job keeps a queue typed. *)
LEMMA AddKeepsQueue ==
    ASSUME NEW S, NEW q, IsQueueOf(S, q), NEW m \in Messages(S)
    PROVE  IsQueueOf(S, BagAdd(q, m))
  BY DEF IsQueueOf, BagAdd

(* Taking one copy of a message off a queue keeps the queue typed.         *)
LEMMA RemoveKeepsQueue ==
    ASSUME NEW S, NEW q, IsQueueOf(S, q), NEW m
    PROVE  IsQueueOf(S, BagRemove(q, m))
  BY DEF IsQueueOf, BagRemove

(* A queue of messages for some jobs is a queue for more jobs.             *)
LEMMA QueueGrows ==
    ASSUME NEW S, NEW T, S \subseteq T, NEW q, IsQueueOf(S, q)
    PROVE  IsQueueOf(T, q)
  BY DEF IsQueueOf, Messages

(* The initial state has the types.                                        *)
LEMMA InitTypeOK == Init => TypeOK
  <1> SUFFICES ASSUME Init PROVE TypeOK  OBVIOUS
  <1>1. TablesOK
    BY DEF Init, InitTrips, NewTrip, TripStatuses, TripRows, TablesOK, Created
  <1>2. QueuesOK
    BY DEF Init, InitQueues, EmptyQueue, QueuesOK, IsQueueOf
  <1>3. WorkersOK /\ faults \in 0..MaxFaults
    BY ConstantsAssumption DEF Init, Idle, Handling, WorkerStates, Phases, WorkersOK, Busy
  <1> QED BY <1>1, <1>2, <1>3 DEF TypeOK

-----------------------------------------------------------------------------
(* Steps of the tables.                                                    *)

(* An UPDATE of one job row keeps the tables typed and inserts nothing.    *)
LEMMA SetRowKeepsTables ==
    ASSUME TablesOK, NEW j \in Created, NEW row \in JobRow, SetRow(j, row),
           UNCHANGED <<trips, proposed, requests>>
    PROVE  TablesOK' /\ Created' = Created
  BY DEF TablesOK, SetRow, Created, requests

(* An UPDATE of one trip row keeps the tables typed.                       *)
LEMMA SetTripKeepsTables ==
    ASSUME TablesOK, NEW t \in Trips, NEW row \in TripRows(Jobs \cup {Manual}),
           SetTrip(t, row), UNCHANGED <<proposed, jobs, requests>>
    PROVE  TablesOK' /\ Created' = Created
  BY DEF TablesOK, SetTrip, Created, requests

(* A step that writes no table keeps the tables typed.                     *)
LEMMA UnchangedTables ==
    ASSUME TablesOK, UNCHANGED <<trips, proposed, jobs, requests>>
    PROVE  TablesOK' /\ Created' = Created
  BY DEF TablesOK, Created, requests

(* A step that touches no queue keeps the queues typed, rows inserted or not. *)
LEMMA UnchangedQueues ==
    ASSUME QueuesOK, UNCHANGED queues, Created \subseteq Created'
    PROVE  QueuesOK'
  BY QueueGrows DEF QueuesOK, queues

(* The UPDATE statements produce rows of the table's type.                 *)
LEMMA RowTypes ==
    ASSUME NEW row \in JobRow, NEW n \in Nat
    PROVE  /\ ClaimGenerationJob(row) \in JobRow
           /\ CompleteGenerationJob(row, n) \in JobRow
           /\ FailGenerationJob(row) \in JobRow
           /\ ResetRunningGenerationJobToQueued(row) \in JobRow
           /\ CancelQueuedGenerationJob(row) \in JobRow
           /\ [row EXCEPT !.overdue = TRUE] \in JobRow
  BY DEF JobRow, JobStatuses, Terminal, ClaimGenerationJob, CompleteGenerationJob,
         FailGenerationJob, ResetRunningGenerationJobToQueued,
         CancelQueuedGenerationJob

(* The statements on trips produce rows of the type of the table.          *)
LEMMA TripRowTypes ==
    ASSUME NEW W, NEW row \in TripRows(W), NEW writer \in W, NEW base \in Nat,
           NEW status \in TripStatuses
    PROVE  /\ UpdateItineraryAndCreateVersion(row, writer, base) \in TripRows(W)
           /\ UpdateStatusByUserID(row, status) \in TripRows(W)
  BY DEF TripRows, TripStatuses, UpdateItineraryAndCreateVersion, UpdateStatusByUserID

-----------------------------------------------------------------------------
(* Steps of the workers.                                                   *)

(* A busy worker that goes on to another phase keeps its job.              *)
LEMMA GotoKeepsWorkers ==
    ASSUME WorkersOK, NEW w \in Workers, Busy(w), NEW p \in Phases, Goto(w, p),
           Created \subseteq Created'
    PROVE  WorkersOK'
  BY DEF WorkersOK, Goto, WorkerStates, Busy, JobOf

(* So does one whose execution failed.                                     *)
LEMMA FailExecutionKeepsWorkers ==
    ASSUME WorkersOK, NEW w \in Workers, Busy(w), NEW p \in Phases, NEW b \in BOOLEAN,
           FailExecution(w, p, b), Created \subseteq Created'
    PROVE  WorkersOK'
  BY DEF WorkersOK, FailExecution, WorkerStates, Busy, JobOf

(* A worker that settles its message has no job left to name.              *)
LEMMA SettleKeepsWorkers ==
    ASSUME WorkersOK, NEW w \in Workers, Settle(w), Created \subseteq Created'
    PROVE  WorkersOK'
  BY DEF WorkersOK, Settle, Settled, Idle, Handling, Down, WorkerStates, Phases, Busy, JobOf

(* A worker that starts on a job, from a delivery or from the table.       *)
LEMMA TakeJobKeepsWorkers ==
    ASSUME WorkersOK, NEW w \in Workers, NEW p \in Phases, NEW j \in Created, j \in Jobs,
           NEW a \in Nat \ {0}, Created \subseteq Created',
           workers' = [workers EXCEPT ![w] = Handling(p, j, a)]
    PROVE  WorkersOK'
  <1>1. Handling(p, j, a) \in WorkerStates
    BY DEF Handling, WorkerStates
  <1>2. workers' \in [Workers -> WorkerStates]
    BY <1>1 DEF WorkersOK
  <1>3. ASSUME NEW v \in Workers, Busy(v)'
        PROVE  JobOf(v)' \in Created' /\ workers'[v].attempt > 0
    <2>1. CASE v = w
      <3>1. workers'[v].job = j /\ workers'[v].attempt = a
        BY <2>1 DEF Handling, WorkersOK
      <3> QED BY <3>1 DEF JobOf
    <2>2. CASE v # w
      BY <1>3, <2>2 DEF WorkersOK, JobOf, Busy
    <2> QED BY <2>1, <2>2
  <1> QED BY <1>2, <1>3 DEF WorkersOK

(* Workers that do nothing still name inserted rows.                       *)
LEMMA UnchangedWorkers ==
    ASSUME WorkersOK, UNCHANGED workers, Created \subseteq Created'
    PROVE  WorkersOK'
  BY DEF WorkersOK, Busy, JobOf

(* What a busy worker holds, or publishes next, is a message for an inserted job. *)
LEMMA HeldIsMessage ==
    ASSUME WorkersOK, NEW w \in Workers, Busy(w)
    PROVE  /\ Held(w) \in Messages(Created)
           /\ Msg(JobOf(w), workers[w].attempt + 1) \in Messages(Created)
  BY DEF WorkersOK, WorkerStates, Held, Msg, Messages

(* Nacks put back a message of the right type.                             *)
LEMMA NackKeepsQueues ==
    ASSUME QueuesOK, WorkersOK, NEW w \in Workers, Busy(w),
           NackRequeue(w) \/ NackDeadLetter(w), Created' = Created
    PROVE  QueuesOK' /\ WorkersOK'
  BY HeldIsMessage, AddKeepsQueue, SettleKeepsWorkers
     DEF NackRequeue, NackDeadLetter, QueuesOK

(* So does a retry that is published, or fails to be.                      *)
LEMMA RetryThenAckTypes ==
    ASSUME QueuesOK, WorkersOK, NEW w \in Workers, Busy(w), RetryThenAck(w),
           Created' = Created, faults \in 0..MaxFaults
    PROVE  QueuesOK' /\ WorkersOK' /\ faults' \in 0..MaxFaults
  <1>1. IsQueueOf(Created, BagAdd(mainQ, Held(w)))
    BY HeldIsMessage, AddKeepsQueue DEF QueuesOK
  <1>2. IsQueueOf(Created, BagAdd(retryQ, Msg(JobOf(w), workers[w].attempt + 1)))
    BY HeldIsMessage, AddKeepsQueue DEF QueuesOK
  <1>3. QueuesOK'
    BY <1>1, <1>2 DEF RetryThenAck, PublishRetry, QueuesOK
  <1>4. WorkersOK'
    BY GotoKeepsWorkers, SettleKeepsWorkers DEF RetryThenAck, Phases
  <1>5. faults' \in 0..MaxFaults
    BY ConstantsAssumption DEF RetryThenAck, Fault
  <1> QED BY <1>3, <1>4, <1>5
-----------------------------------------------------------------------------
(* Steps of the whole system.                                              *)

(* A busy worker names an inserted row of an existing trip.                *)
LEMMA BusyFacts ==
    ASSUME TypeOK, NEW w \in Workers, Busy(w)
    PROVE  /\ JobOf(w) \in Created
           /\ RowOf(w) \in JobRow
           /\ TripOf(w) \in Trips
           /\ trips[TripOf(w)] \in TripRows(Jobs \cup {Manual})
           /\ JobOf(w) \in Jobs \cup {Manual}
  BY DEF TypeOK, WorkersOK, TablesOK, RowOf, TripOf, JobRow, Created

(* The count of faults stays within its bound.                             *)
LEMMA FaultTypes ==
    ASSUME faults \in 0..MaxFaults, NEW kind, Fault(kind) \/ UNCHANGED faults
    PROVE  faults' \in 0..MaxFaults
  BY ConstantsAssumption DEF Fault

(* What a request other than a new job does to the types.                  *)
LEMMA RequestTypeOK ==
    ASSUME TypeOK, NEW j \in Jobs, Request(j)
    PROVE  TypeOK'
  <1> USE DEF TypeOK
  <1>1. ASSUME NEW t \in Trips, NEW kind \in JobKinds, NEW expected \in Nat,
               InsertJob(j, t, kind, expected)
        PROVE  TypeOK'
    <2>1. QueuedRow(t, kind, expected) \in JobRow
      BY <1>1 DEF QueuedRow, JobRow, JobStatuses
    <2>2. Created' = Created \cup {j} /\ TablesOK'
      BY <1>1, <2>1 DEF InsertJob, CreateGenerationJob, TablesOK, Created
    <2>3. QueuesOK' /\ WorkersOK'
      BY <1>1, <2>2, UnchangedQueues, UnchangedWorkers DEF InsertJob
    <2> QED BY <1>1, <2>2, <2>3 DEF InsertJob
  <1>2. CASE Create(j)
    <2>1. PICK t \in Trips, kind \in Kinds :
             \E expected \in 0..trips[t].revision : InsertJob(j, t, kind, expected)
      BY <1>2 DEF Create
    <2>2. trips[t].revision \in Nat /\ kind \in JobKinds
      BY ConstantsAssumption DEF TablesOK, TripRows
    <2> QED BY <2>1, <2>2, <1>1
  <1>3. ASSUME NEW old \in Created, OpsRetry(old, j)
        PROVE  TypeOK'
    <2>1. jobs[old].trip \in Trips /\ jobs[old].kind \in JobKinds
      BY DEF TablesOK, JobRow
    <2>2. trips[jobs[old].trip].revision \in Nat
      BY <2>1 DEF TablesOK, TripRows
    <2> QED BY <1>3, <2>1, <2>2, <1>1 DEF OpsRetry
  <1>4. CASE Dispatch(j)
    <2>1. j \in Created /\ TablesOK' /\ Created' = Created
      BY <1>4 DEF Dispatch, TablesOK, Created
    <2>2. IsQueueOf(Created, BagAdd(mainQ, Msg(j, 1)))
      BY <2>1, AddKeepsQueue DEF QueuesOK, Msg, Messages
    <2>3. QueuesOK' /\ WorkersOK'
      BY <1>4, <2>1, <2>2, UnchangedWorkers DEF Dispatch, PublishGenerationJob, QueuesOK
    <2>4. faults' \in 0..MaxFaults
      BY <1>4, FaultTypes DEF Dispatch
    <2> QED BY <2>1, <2>3, <2>4
  <1>5. ASSUME UNCHANGED <<trips, proposed, queues, workers>>, Created' = Created,
               TablesOK', faults' \in 0..MaxFaults
        PROVE  TypeOK'
    BY <1>5, UnchangedQueues, UnchangedWorkers
  <1>6. CASE RefuseDispatch(j)
    <2>1. j \in Created /\ jobs[j] \in JobRow
      BY <1>6 DEF RefuseDispatch, TablesOK
    <2>2. FailGenerationJob(jobs[j]) \in JobRow
      BY <2>1, RowTypes
    <2>3. TablesOK' /\ Created' = Created
      BY <1>6, <2>1, <2>2 DEF RefuseDispatch, SetRow, TablesOK, Created
    <2>4. faults' \in 0..MaxFaults
      BY <1>6, FaultTypes DEF RefuseDispatch
    <2> QED BY <1>6, <1>5, <2>3, <2>4 DEF RefuseDispatch
  <1>7. CASE ApiCrash(j)
    <2>1. TablesOK' /\ Created' = Created
      BY <1>7 DEF ApiCrash, TablesOK, Created
    <2>2. faults' \in 0..MaxFaults
      BY <1>7, FaultTypes DEF ApiCrash
    <2> QED BY <1>7, <1>5, <2>1, <2>2 DEF ApiCrash
  <1>8. ASSUME NEW row \in JobRow, j \in Created, SetRow(j, row),
               UNCHANGED <<trips, proposed, queues, requests, workers, faults>>
        PROVE  TypeOK'
    BY <1>5, <1>8, SetRowKeepsTables
  <1>9. CASE Cancel(j)
    BY <1>8, <1>9, RowTypes DEF Cancel, TablesOK
  <1>10. CASE OpsMarkFailed(j)
    BY <1>8, <1>10, RowTypes DEF OpsMarkFailed, TablesOK
  <1>11. CASE BecomeOverdue(j)
    BY <1>8, <1>11, RowTypes DEF BecomeOverdue, TablesOK
  <1> QED BY <1>2, <1>3, <1>4, <1>6, <1>7, <1>9, <1>10, <1>11 DEF Request

(* Only a busy worker takes a step of a handler.                           *)
LEMMA HandleIsBusy ==
    ASSUME NEW w \in Workers, Handle(w)
    PROVE  Busy(w)
  BY DEF Handle, ClaimJob, LookupJob, ReadTrip, StartProcessing, Generate,
         SaveItinerary, CreateProposal, MarkFailed, CutShort, Timed, CompleteJob, ResetForRetry,
         RepublishRetry, FailClaimedJob, RetryOrRequeue, Ack, Reject, At, Busy

(* A step of a handler preserves the types.                                *)
LEMMA HandleTypeOK ==
    ASSUME TypeOK, NEW w \in Workers, Handle(w)
    PROVE  TypeOK'
  <1> USE DEF TypeOK
  <1>1. Busy(w)
    BY HandleIsBusy
  <1>2. /\ JobOf(w) \in Created
        /\ RowOf(w) \in JobRow
        /\ TripOf(w) \in Trips
        /\ trips[TripOf(w)] \in TripRows(Jobs \cup {Manual})
        /\ JobOf(w) \in Jobs \cup {Manual}
    BY <1>1, BusyFacts
  <1>3. workers[w] \in WorkerStates
    BY DEF WorkersOK
  <1>4. faults' \in 0..MaxFaults
    <2>1. CASE RepublishRetry(w) \/ RetryOrRequeue(w)
      BY <2>1, ConstantsAssumption DEF RepublishRetry, RetryOrRequeue, RetryThenAck, Fault
    <2>2. ASSUME NEW kind, Fault(kind) \/ UNCHANGED faults
          PROVE  faults' \in 0..MaxFaults
      BY <2>2, FaultTypes
    <2>3. CASE ClaimJob(w) \/ LookupJob(w) \/ ReadTrip(w) \/ StartProcessing(w)
               \/ Generate(w) \/ MarkFailed(w) \/ CutShort(w)
      BY <2>2, <2>3 DEF ClaimJob, LookupJob, ReadTrip, StartProcessing, Generate,
                        MarkFailed, CutShort
    <2>4. CASE SaveItinerary(w) \/ CreateProposal(w)
      BY <2>2, <2>4 DEF SaveItinerary, CreateProposal
    <2>5. CASE CompleteJob(w) \/ ResetForRetry(w) \/ FailClaimedJob(w) \/ Ack(w) \/ Reject(w)
      BY <2>2, <2>5 DEF CompleteJob, ResetForRetry, FailClaimedJob, Ack, Reject
    <2> QED BY <2>1, <2>3, <2>4, <2>5 DEF Handle
  <1>5. TablesOK' /\ Created' = Created
    <2>1. ASSUME NEW row \in JobRow, SetRow(JobOf(w), row), UNCHANGED <<trips, proposed, requests>>
          PROVE  TablesOK' /\ Created' = Created
      BY <2>1, <1>2, SetRowKeepsTables
    <2>2. ASSUME NEW row \in TripRows(Jobs \cup {Manual}), SetTrip(TripOf(w), row),
                 UNCHANGED <<proposed, jobs, requests>>
          PROVE  TablesOK' /\ Created' = Created
      BY <2>2, <1>2, SetTripKeepsTables
    <2>3. CASE UNCHANGED <<trips, proposed, jobs, requests>>
      BY <2>3, UnchangedTables
    <2>4. CASE ClaimJob(w)
      BY <2>1, <2>3, <2>4, <1>2, RowTypes DEF ClaimJob
    <2>5. CASE LookupJob(w) \/ ReadTrip(w) \/ Generate(w) \/ CutShort(w) \/ RepublishRetry(w)
               \/ RetryOrRequeue(w) \/ Ack(w) \/ Reject(w)
      BY <2>3, <2>5 DEF LookupJob, ReadTrip, Generate, CutShort, RepublishRetry,
                        RetryOrRequeue, Ack, Reject
    <2>6. CASE StartProcessing(w) \/ MarkFailed(w)
      <3>1. /\ UpdateStatusByUserID(trips[TripOf(w)], "PROCESSING") \in TripRows(Jobs \cup {Manual})
            /\ UpdateStatusByUserID(trips[TripOf(w)], "FAILED") \in TripRows(Jobs \cup {Manual})
        BY <1>2, TripRowTypes DEF TripStatuses
      <3> QED BY <2>2, <2>3, <2>6, <3>1 DEF StartProcessing, MarkFailed
    <2>7. CASE SaveItinerary(w)
      <3>1. Saved(w) \in TripRows(Jobs \cup {Manual})
        BY <1>2, <1>3, TripRowTypes DEF Saved, WorkerStates, TripStatuses
      <3> QED BY <2>2, <2>3, <2>7, <3>1 DEF SaveItinerary
    <2>8. CASE CompleteJob(w)
      <3>1. CompleteGenerationJob(RowOf(w), workers[w].result) \in JobRow
        BY <1>2, <1>3, RowTypes DEF WorkerStates
      <3> QED BY <2>1, <2>3, <2>8, <3>1 DEF CompleteJob
    <2>9. CASE ResetForRetry(w) \/ FailClaimedJob(w)
      BY <2>1, <2>3, <2>9, <1>2, RowTypes DEF ResetForRetry, FailClaimedJob
    <2>10. CASE CreateProposal(w)
      BY <2>10, <1>2 DEF CreateProposal, TablesOK, Created, requests
    <2> QED BY <2>4, <2>5, <2>6, <2>7, <2>8, <2>9, <2>10 DEF Handle
  <1>6. QueuesOK' /\ WorkersOK'
    <2>1. ASSUME NEW p \in Phases, Goto(w, p), UNCHANGED queues
          PROVE  QueuesOK' /\ WorkersOK'
      BY <2>1, <1>1, <1>5, GotoKeepsWorkers, UnchangedQueues
    <2>2. ASSUME NEW p \in Phases, NEW b \in BOOLEAN, FailExecution(w, p, b), UNCHANGED queues
          PROVE  QueuesOK' /\ WorkersOK'
      BY <2>2, <1>1, <1>5, FailExecutionKeepsWorkers, UnchangedQueues
    <2>3. CASE Settle(w) /\ UNCHANGED queues
      BY <2>3, <1>1, <1>5, SettleKeepsWorkers, UnchangedQueues
    <2>4. CASE NackRequeue(w) \/ NackDeadLetter(w)
      BY <2>4, <1>1, <1>5, NackKeepsQueues
    <2>5. CASE RetryThenAck(w)
      BY <2>5, <1>1, <1>5, RetryThenAckTypes
    <2>6. AfterError(w) \in Phases
      BY DEF AfterError, Phases, Executing
    <2>7. CASE ClaimJob(w) \/ LookupJob(w) \/ StartProcessing(w) \/ MarkFailed(w)
               \/ CutShort(w) \/ CompleteJob(w) \/ Ack(w)
      BY <2>1, <2>2, <2>3, <2>7
         DEF ClaimJob, LookupJob, StartProcessing, MarkFailed, CutShort, CompleteJob, Ack,
             Phases, Executing
    <2>8. CASE Generate(w)
      BY <2>1, <2>2, <2>6, <2>8 DEF Generate, Phases, Executing
    <2>9. CASE ReadTrip(w)
      <3>1. trips[TripOf(w)].revision \in Nat
        BY <1>2 DEF TripRows
      <3>2. CASE workers' = [workers EXCEPT
                   ![w].phase = IF RowOf(w).kind = "full" THEN "starting" ELSE "generating",
                   ![w].seen = trips[TripOf(w)].revision]
        <4>1. WorkersOK'
          <5>1. (IF RowOf(w).kind = "full" THEN "starting" ELSE "generating") \in Phases
            BY DEF Phases, Executing
          <5> QED BY <1>1, <1>5, <3>1, <3>2, <5>1, ZenonT(30) DEF WorkersOK, WorkerStates, Busy, JobOf
        <4> QED BY <1>5, <2>9, <4>1, UnchangedQueues DEF ReadTrip
      <3> QED BY <2>2, <2>9, <3>2 DEF ReadTrip, Phases, Executing
    <2>10. CASE SaveItinerary(w)
      <3>1. trips[TripOf(w)].revision + 1 \in Nat
        BY <1>2 DEF TripRows
      <3>2. CASE workers' = [workers EXCEPT ![w].phase = "saved",
                                            ![w].result = trips[TripOf(w)].revision + 1]
        <4>1. WorkersOK'
          BY <1>1, <1>5, <3>1, <3>2, ZenonT(30) DEF WorkersOK, WorkerStates, Busy, JobOf, Phases, Executing
        <4> QED BY <1>5, <2>10, <4>1, UnchangedQueues DEF SaveItinerary
      <3> QED BY <2>2, <2>6, <2>10, <3>2 DEF SaveItinerary, Phases, Executing
    <2>13. CASE CreateProposal(w)
      <3>1. CASE workers' = [workers EXCEPT ![w].phase = "saved", ![w].result = workers[w].seen]
        <4>1. WorkersOK'
          BY <1>1, <1>3, <1>5, <3>1, ZenonT(30)
             DEF WorkersOK, WorkerStates, Busy, JobOf, Phases, Executing
        <4> QED BY <1>5, <2>13, <4>1, UnchangedQueues DEF CreateProposal
      <3> QED BY <2>2, <2>13, <3>1 DEF CreateProposal, Phases, Executing
    <2>11. CASE ResetForRetry(w) \/ FailClaimedJob(w)
      BY <2>1, <2>3, <2>4, <2>11 DEF ResetForRetry, FailClaimedJob, Phases
    <2>12. CASE RepublishRetry(w) \/ RetryOrRequeue(w) \/ Reject(w)
      BY <2>4, <2>5, <2>12 DEF RepublishRetry, RetryOrRequeue, Reject
    <2> QED BY <2>7, <2>8, <2>9, <2>10, <2>11, <2>12, <2>13 DEF Handle
  <1> QED BY <1>4, <1>5, <1>6

(* Every step preserves the types.                                         *)
LEMMA NextTypeOK == TypeOK /\ [Next]_vars => TypeOK'
  <1> SUFFICES ASSUME TypeOK, [Next]_vars PROVE TypeOK'  OBVIOUS
  <1> USE DEF TypeOK
  <1>0. ASSUME UNCHANGED <<trips, proposed, jobs, requests>>, QueuesOK', WorkersOK',
               faults' \in 0..MaxFaults
        PROVE  TypeOK'
    BY <1>0, UnchangedTables
  <1>1. CASE UNCHANGED vars
    BY <1>0, <1>1, UnchangedTables, UnchangedQueues, UnchangedWorkers DEF vars, requests, queues
  <1>2. ASSUME NEW j \in Jobs, Request(j) PROVE TypeOK'
    BY <1>2, RequestTypeOK
  <1>3. ASSUME NEW m \in DOMAIN deadQ, RequeueDLQMessage(m) PROVE TypeOK'
    <2>1. Created' = Created /\ m \in Messages(Created)
      BY <1>3, UnchangedTables DEF RequeueDLQMessage, QueuesOK, IsQueueOf
    <2>2. QueuesOK'
      BY <1>3, <2>1, AddKeepsQueue, RemoveKeepsQueue DEF RequeueDLQMessage, QueuesOK
    <2> QED BY <1>0, <1>3, <2>1, <2>2, UnchangedWorkers DEF RequeueDLQMessage
  <1>4. ASSUME NEW t \in Trips, UpdateItinerary(t) PROVE TypeOK'
    <2>1. /\ trips[t] \in TripRows(Jobs \cup {Manual})
          /\ trips[t].revision \in Nat
      BY DEF TablesOK, TripRows
    <2>2. UpdateItineraryAndCreateVersion(trips[t], Manual, trips[t].revision)
             \in TripRows(Jobs \cup {Manual})
      BY <2>1, TripRowTypes DEF TripStatuses
    <2>3. TablesOK' /\ Created' = Created
      BY <1>4, <2>2, SetTripKeepsTables DEF UpdateItinerary
    <2> QED BY <1>4, <2>3, UnchangedQueues, UnchangedWorkers DEF UpdateItinerary
  <1>5. ASSUME NEW w \in Workers, Receive(w) PROVE TypeOK'
    <2>1. ASSUME NEW m \in DOMAIN mainQ, Deliver(w, m) PROVE TypeOK'
      <3>1. Created' = Created /\ m \in Messages(Created)
        BY <2>1, UnchangedTables DEF Deliver, QueuesOK, IsQueueOf
      <3>2. QueuesOK'
        BY <2>1, <3>1, RemoveKeepsQueue DEF Deliver, QueuesOK
      <3>3. WorkersOK'
        BY <2>1, <3>1, TakeJobKeepsWorkers DEF Deliver, Phases, Messages, TablesOK
      <3> QED BY <1>0, <2>1, <3>2, <3>3 DEF Deliver
    <2>2. ASSUME NEW j \in Created, ClaimNextGenerationJob(w, j) PROVE TypeOK'
      <3>1. ClaimGenerationJob(jobs[j]) \in JobRow
        BY RowTypes DEF TablesOK
      <3>2. TablesOK' /\ Created' = Created
        BY <2>2, <3>1, SetRowKeepsTables DEF ClaimNextGenerationJob
      <3>3. "reading" \in Phases /\ j \in Jobs /\ 1 \in Nat \ {0}
        BY DEF Phases, Executing, TablesOK
      <3>4. workers' = [workers EXCEPT ![w] = Handling("reading", j, 1)]
        BY <2>2 DEF ClaimNextGenerationJob
      <3>5. WorkersOK'
        BY <3>2, <3>3, <3>4, TakeJobKeepsWorkers
      <3> QED BY <2>2, <3>2, <3>5, UnchangedQueues DEF ClaimNextGenerationJob
    <2> QED BY <1>5, <2>1, <2>2 DEF Receive
  <1>6. ASSUME NEW w \in Workers, Handle(w) PROVE TypeOK'
    BY <1>6, HandleTypeOK
  <1>7. ASSUME NEW w \in Workers, Crash(w) PROVE TypeOK'
    <2>1. Created' = Created
      BY <1>7, UnchangedTables DEF Crash
    <2>2. Busy(w) => IsQueueOf(Created, BagAdd(mainQ, Held(w)))
      BY HeldIsMessage, AddKeepsQueue DEF QueuesOK
    <2>3. QueuesOK'
      BY <1>7, <2>1, <2>2 DEF Crash, QueuesOK
    <2>4. WorkersOK'
      BY <1>7, <2>1 DEF Crash, WorkersOK, WorkerStates, Phases, Idle, Handling, Down, Busy, JobOf
    <2> QED BY <1>0, <1>7, <2>3, <2>4, FaultTypes DEF Crash
  <1>8. ASSUME NEW w \in Workers, LoseLink(w) PROVE TypeOK'
    <2>1. Created' = Created
      BY <1>8, UnchangedTables DEF LoseLink
    <2>2. IsQueueOf(Created, BagAdd(mainQ, Held(w)))
      BY <1>8, HeldIsMessage, AddKeepsQueue DEF QueuesOK, LoseLink
    <2>3. QueuesOK'
      BY <1>8, <2>1, <2>2 DEF LoseLink, QueuesOK
    <2>4. WorkersOK'
      BY <1>8, <2>1 DEF LoseLink, WorkersOK, WorkerStates, Busy, JobOf
    <2> QED BY <1>0, <1>8, <2>3, <2>4, FaultTypes DEF LoseLink
  <1>9. ASSUME NEW w \in Workers, StartWorker(w) PROVE TypeOK'
    <2>1. \A j \in Created : FailGenerationJob(jobs[j]) \in JobRow
      BY RowTypes DEF TablesOK
    <2>2. TablesOK' /\ Created' = Created
      BY <1>9, <2>1 DEF StartWorker, MarkStaleRunningGenerationJobsFailed, TablesOK, Created, requests
    <2>3. WorkersOK'
      BY <1>9, <2>2 DEF StartWorker, WorkersOK, WorkerStates, Phases, Idle, Handling, Busy, JobOf
    <2> QED BY <1>9, <2>2, <2>3, UnchangedQueues DEF StartWorker
  <1>10. CASE DelayEnds
    <2>1. PICK m \in DOMAIN retryQ : RetryDelayEnds(m)
      BY <1>10 DEF DelayEnds
    <2>2. Created' = Created /\ m \in Messages(Created)
      BY <1>10, UnchangedTables DEF DelayEnds, QueuesOK, IsQueueOf
    <2>3. QueuesOK'
      BY <2>1, <2>2, AddKeepsQueue, RemoveKeepsQueue DEF RetryDelayEnds, QueuesOK
    <2> QED BY <1>0, <1>10, <2>2, <2>3, UnchangedWorkers DEF DelayEnds
  <1> QED BY <1>1, <1>2, <1>3, <1>4, <1>5, <1>6, <1>7, <1>8, <1>9, <1>10 DEF Next

(* In every reachable state the tables, queues and workers hold values of  *)
(* their types, and no message or worker names a job that was not inserted.*)
THEOREM TypeCorrect == Spec => []TypeOK
  BY InitTypeOK, NextTypeOK, PTL DEF Spec

-----------------------------------------------------------------------------
(* What is inductive.                                                      *)
IInv == TypeOK /\ ExclusiveExecution /\ NoLostUpdate /\ ExecutionsMatchHistory
               /\ CompletedMeansSaved

-----------------------------------------------------------------------------
(* One execution at a time.                                                *)

(* The rows that stay as they are or become anything but queued, under     *)
(* executions that only go on or end.                                      *)
LEMMA ExclusiveCarries ==
    ASSUME TypeOK, ExclusiveExecution, TypeOK',
           \A w \in Workers, j \in Created' : Holds(w, j)' => Holds(w, j),
           \A w \in Workers, j \in Created' :
              Holds(w, j)' => j \in Created /\ (jobs[j].status # "queued" => jobs'[j].status # "queued")
    PROVE  ExclusiveExecution'
  BY DEF ExclusiveExecution

(* Whoever executes a job is busy with an inserted row.                    *)
LEMMA HolderFacts ==
    ASSUME TypeOK, NEW w \in Workers, NEW j, Holds(w, j)
    PROVE  j \in Created /\ Busy(w)
  BY DEF TypeOK, WorkersOK, Holds, Busy, JobOf, Executing

(* A worker that enters an execution: its row was queued, and is not now.  *)
LEMMA ExclusiveEntered ==
    ASSUME TypeOK, ExclusiveExecution, TypeOK', NEW w \in Workers, NEW j \in Created,
           jobs[j].status = "queued", jobs'[j].status # "queued",
           \A i \in Created : i # j => jobs'[i] = jobs[i], Created' = Created,
           \A v \in Workers : v # w => workers'[v] = workers[v],
           workers'[w].job = j
    PROVE  ExclusiveExecution'
  <1>1. \A v \in Workers, i \in Created : v # w /\ Holds(v, i)' => Holds(v, i) /\ i # j
    BY DEF Holds, ExclusiveExecution
  <1>2. \A i \in Created : Holds(w, i)' => i = j
    BY DEF Holds
  <1> QED BY <1>1, <1>2 DEF ExclusiveExecution

(* A handler's step is a step of its own worker.                           *)
LEMMA HandleMovesOne ==
    ASSUME TypeOK, NEW w \in Workers, Handle(w)
    PROVE  \A v \in Workers : v # w => workers'[v] = workers[v]
  <1>1. ASSUME NEW p, Goto(w, p) \/ Settle(w) \/ \E b \in BOOLEAN : FailExecution(w, p, b)
        PROVE  \A v \in Workers : v # w => workers'[v] = workers[v]
    BY <1>1 DEF Goto, Settle, FailExecution, TypeOK, WorkersOK
  <1>2. CASE ClaimJob(w) \/ LookupJob(w) \/ MarkFailed(w)
    BY <1>1, <1>2 DEF ClaimJob, LookupJob, MarkFailed
  <1>3. CASE ReadTrip(w) \/ SaveItinerary(w) \/ CreateProposal(w)
    BY <1>1, <1>3 DEF ReadTrip, SaveItinerary, CreateProposal, TypeOK, WorkersOK
  <1>4. CASE StartProcessing(w) \/ Generate(w) \/ CutShort(w)
    BY <1>1, <1>4 DEF StartProcessing, Generate, CutShort
  <1>5. CASE CompleteJob(w) \/ ResetForRetry(w) \/ FailClaimedJob(w)
    BY <1>1, <1>5 DEF CompleteJob, ResetForRetry, FailClaimedJob, NackRequeue
  <1>6. CASE RepublishRetry(w) \/ RetryOrRequeue(w) \/ Ack(w) \/ Reject(w)
    BY <1>1, <1>6 DEF RepublishRetry, RetryOrRequeue, RetryThenAck, NackRequeue,
                      NackDeadLetter, Ack, Reject
  <1> QED BY <1>2, <1>3, <1>4, <1>5, <1>6 DEF Handle

(* A settled delivery is not an execution.                                 *)
LEMMA SettledIsFree ==
    ASSUME TypeOK, NEW w \in Workers, Settle(w)
    PROVE  workers'[w].phase \in {"idle", "down"} /\ workers'[w].phase \notin Executing
  BY DEF Settle, Settled, Idle, Down, Handling, Executing, TypeOK, WorkersOK

(* The statements of a handler that touch the job row, and the trip row.   *)
LEMMA HandleRowSteps ==
    ASSUME NEW w \in Workers, Handle(w)
    PROVE  \/ UNCHANGED jobs
           \/ SetRow(JobOf(w), ClaimGenerationJob(RowOf(w)))
           \/ /\ SetRow(JobOf(w), CompleteGenerationJob(RowOf(w), workers[w].result))
              /\ At(w, "saved")
           \/ SetRow(JobOf(w), FailGenerationJob(RowOf(w)))
           \/ SetRow(JobOf(w), ResetRunningGenerationJobToQueued(RowOf(w)))
  BY DEF Handle, ClaimJob, LookupJob, ReadTrip, StartProcessing, Generate,
         SaveItinerary, CreateProposal, MarkFailed, CutShort, CompleteJob, ResetForRetry,
         RepublishRetry, FailClaimedJob, RetryOrRequeue, Ack, Reject

(* Three steps of a handler write the trip row.                            *)
LEMMA HandleTripSteps ==
    ASSUME NEW w \in Workers, Handle(w)
    PROVE  UNCHANGED trips \/ SaveItinerary(w) \/ StartProcessing(w) \/ MarkFailed(w)
  BY DEF Handle, ClaimJob, LookupJob, ReadTrip, Generate, CreateProposal, CutShort, CompleteJob,
         ResetForRetry, RepublishRetry, FailClaimedJob, RetryOrRequeue, Ack, Reject

(* Every step preserves the exclusion of executions.                       *)
LEMMA ExclusiveNext == TypeOK /\ ExclusiveExecution /\ [Next]_vars => ExclusiveExecution'
  <1> SUFFICES ASSUME TypeOK, ExclusiveExecution, [Next]_vars PROVE ExclusiveExecution'
    OBVIOUS
  <1>0. TypeOK'
    BY NextTypeOK
  <1>a. ASSUME UNCHANGED <<jobs, workers>> PROVE ExclusiveExecution'
    BY <1>a DEF ExclusiveExecution, Holds, Created
  <1>b. ASSUME UNCHANGED workers,
               \A i \in Created' : i \in Created =>
                   (jobs[i].status # "queued" => jobs'[i].status # "queued")
        PROVE  ExclusiveExecution'
    <2>1. \A w \in Workers, i \in Created' : Holds(w, i)' => Holds(w, i) /\ i \in Created
      BY <1>b, HolderFacts DEF Holds
    <2> QED BY <1>0, <1>b, <2>1, ExclusiveCarries
  <1>1. CASE UNCHANGED vars
    BY <1>1, <1>a DEF vars
  <1>2. ASSUME NEW j \in Jobs, Request(j) PROVE ExclusiveExecution'
    <2>1. ASSUME NEW t \in Trips, NEW kind \in JobKinds, NEW expected \in Nat,
                 InsertJob(j, t, kind, expected)
          PROVE  ExclusiveExecution'
      BY <2>1, <1>b DEF InsertJob, CreateGenerationJob, Created
    <2>2. CASE Create(j)
      <3>1. PICK t \in Trips, kind \in Kinds :
               \E expected \in 0..trips[t].revision : InsertJob(j, t, kind, expected)
        BY <2>2 DEF Create
      <3>2. trips[t].revision \in Nat /\ kind \in JobKinds
        BY ConstantsAssumption DEF TypeOK, TablesOK, TripRows
      <3> QED BY <2>1, <3>1, <3>2
    <2>3. ASSUME NEW old \in Created, OpsRetry(old, j) PROVE ExclusiveExecution'
      <3>1. jobs[old].trip \in Trips /\ jobs[old].kind \in JobKinds
        BY DEF TypeOK, TablesOK, JobRow
      <3>2. trips[jobs[old].trip].revision \in Nat
        BY <3>1 DEF TypeOK, TablesOK, TripRows
      <3> QED BY <2>1, <2>3, <3>1, <3>2 DEF OpsRetry
    <2>4. CASE Dispatch(j) \/ ApiCrash(j)
      BY <2>4, <1>a DEF Dispatch, ApiCrash
    <2>5. ASSUME NEW row \in JobRow, row.status # "queued", UNCHANGED workers,
                 SetRow(j, row) \/ UNCHANGED jobs
          PROVE  ExclusiveExecution'
      BY <2>5, <1>b DEF SetRow, TypeOK, TablesOK, Created
    <2>6. j \in Created => jobs[j] \in JobRow
      BY DEF TypeOK, TablesOK
    <2>7. CASE RefuseDispatch(j)
      <3>1. j \in Created
        BY <2>7 DEF RefuseDispatch, TypeOK, TablesOK
      <3>2. FailGenerationJob(jobs[j]) \in JobRow
        BY <2>6, <3>1, RowTypes
      <3>3. FailGenerationJob(jobs[j]).status = "failed"
        BY <2>6, <3>1 DEF FailGenerationJob, JobRow
      <3> QED BY <2>5, <2>7, <3>2, <3>3 DEF RefuseDispatch
    <2>8. CASE Cancel(j)
      <3>1. CancelQueuedGenerationJob(jobs[j]) \in JobRow
        BY <2>6, <2>8, RowTypes DEF Cancel
      <3>2. CancelQueuedGenerationJob(jobs[j]).status = "cancelled"
        BY <2>6, <2>8 DEF CancelQueuedGenerationJob, JobRow, Cancel
      <3> QED BY <2>5, <2>8, <3>1, <3>2 DEF Cancel
    <2>9. CASE OpsMarkFailed(j)
      <3>1. FailGenerationJob(jobs[j]) \in JobRow
        BY <2>6, <2>9, RowTypes DEF OpsMarkFailed
      <3>2. FailGenerationJob(jobs[j]).status = "failed"
        BY <2>6, <2>9 DEF FailGenerationJob, JobRow, OpsMarkFailed
      <3> QED BY <2>5, <2>9, <3>1, <3>2 DEF OpsMarkFailed
    <2>10. CASE BecomeOverdue(j)
      <3>1. [jobs[j] EXCEPT !.overdue = TRUE] \in JobRow
        BY <2>6, <2>10, RowTypes DEF BecomeOverdue
      <3>2. [jobs[j] EXCEPT !.overdue = TRUE].status = "running"
        BY <2>6, <2>10 DEF JobRow, BecomeOverdue
      <3> QED BY <2>5, <2>10, <3>1, <3>2 DEF BecomeOverdue
    <2> QED BY <1>2, <2>2, <2>3, <2>4, <2>7, <2>8, <2>9, <2>10 DEF Request
  <1>3. ASSUME NEW m \in DOMAIN deadQ, RequeueDLQMessage(m) PROVE ExclusiveExecution'
    BY <1>3, <1>a DEF RequeueDLQMessage
  <1>4. ASSUME NEW t \in Trips, UpdateItinerary(t) PROVE ExclusiveExecution'
    BY <1>4, <1>a DEF UpdateItinerary
  <1>c. ASSUME NEW w \in Workers, NEW st, workers' = [workers EXCEPT ![w] = st],
               st.phase \in Executing => Holds(w, st.job),
               \A j \in Created : jobs[j].status # "queued" => jobs'[j].status # "queued",
               Created' = Created
        PROVE  ExclusiveExecution'
    <2>1. \A v \in Workers, j \in Created : Holds(v, j)' => Holds(v, j)
      BY <1>c DEF Holds, TypeOK, WorkersOK
    <2> QED BY <1>0, <1>c, <2>1, ExclusiveCarries
  <1>5. ASSUME NEW w \in Workers, Receive(w) PROVE ExclusiveExecution'
    <2>1. ASSUME NEW m \in DOMAIN mainQ, Deliver(w, m) PROVE ExclusiveExecution'
      <3>1. Handling("delivered", m.job, m.attempt).phase \notin Executing
        BY DEF Handling, Executing
      <3> QED BY <1>c, <2>1, <3>1 DEF Deliver, Created
    <2>2. ASSUME NEW j \in Created, ClaimNextGenerationJob(w, j) PROVE ExclusiveExecution'
      <3>1. jobs'[j].status = "running"
        BY <2>2 DEF ClaimNextGenerationJob, SetRow, ClaimGenerationJob, TypeOK, TablesOK,
                    Created, JobRow
      <3>2. workers'[w].job = j /\ \A v \in Workers : v # w => workers'[v] = workers[v]
        BY <2>2 DEF ClaimNextGenerationJob, Handling, TypeOK, WorkersOK
      <3>3. Created' = Created /\ \A i \in Created : i # j => jobs'[i] = jobs[i]
        BY <2>2 DEF ClaimNextGenerationJob, SetRow, TypeOK, TablesOK, Created
      <3>4. jobs[j].status = "queued"
        BY <2>2 DEF ClaimNextGenerationJob, Claimable
      <3> QED BY <1>0, <3>1, <3>2, <3>3, <3>4, ExclusiveEntered
    <2> QED BY <1>5, <2>1, <2>2 DEF Receive
  <1>6. ASSUME NEW w \in Workers, Handle(w) PROVE ExclusiveExecution'
    <2>0. Busy(w) /\ JobOf(w) \in Created /\ RowOf(w) \in JobRow
      BY <1>6, HandleIsBusy, BusyFacts
    <2>1. ASSUME \A v \in Workers : v # w => workers'[v] = workers[v],
                 Holds(w, JobOf(w)) \/ workers'[w].phase \notin Executing,
                 workers'[w].phase \in Executing => workers'[w].job = JobOf(w),
                 \A j \in Created : jobs[j].status # "queued" => jobs'[j].status # "queued",
                 Created' = Created
          PROVE  ExclusiveExecution'
      <3>1. \A v \in Workers, j \in Created : Holds(v, j)' => Holds(v, j)
        BY <2>1 DEF Holds, JobOf
      <3> QED BY <1>0, <2>1, <3>1, ExclusiveCarries
    <2>2. \A v \in Workers : v # w => workers'[v] = workers[v]
      BY <1>6, HandleMovesOne
    <2>3. CASE ReadTrip(w) \/ StartProcessing(w) \/ Generate(w) \/ SaveItinerary(w)
               \/ CreateProposal(w) \/ MarkFailed(w) \/ CutShort(w)
      <3>1. Holds(w, JobOf(w)) /\ workers'[w].job = JobOf(w) /\ UNCHANGED jobs
        BY <2>3 DEF ReadTrip, StartProcessing, Generate, SaveItinerary, CreateProposal, MarkFailed, CutShort,
                    Timed, At, Holds, JobOf, Executing, Goto, FailExecution, TypeOK, WorkersOK,
                    WorkerStates
      <3> QED BY <2>1, <2>2, <3>1 DEF Created
    <2>4. CASE LookupJob(w) \/ RepublishRetry(w) \/ RetryOrRequeue(w) \/ Ack(w) \/ Reject(w)
      <3>1. workers'[w].phase \notin Executing /\ UNCHANGED jobs
        BY <2>4, SettledIsFree
           DEF LookupJob, RepublishRetry, RetryOrRequeue, RetryThenAck, NackRequeue,
               NackDeadLetter, Ack, Reject, Goto, Executing, TypeOK, WorkersOK, WorkerStates
      <3> QED BY <2>1, <2>2, <3>1 DEF Created
    <2>5. ASSUME NEW row \in JobRow, row.status # "queued", SetRow(JobOf(w), row)
          PROVE  /\ Created' = Created
                 /\ \A j \in Created : jobs[j].status # "queued" => jobs'[j].status # "queued"
      BY <2>0, <2>5 DEF SetRow, Created, TypeOK, TablesOK
    <2>6. CASE CompleteJob(w) \/ FailClaimedJob(w)
      <3>1. workers'[w].phase \notin Executing
        BY <2>6, SettledIsFree
           DEF CompleteJob, FailClaimedJob, NackRequeue, Goto, Executing, TypeOK, WorkersOK,
               WorkerStates
      <3>2. CompleteGenerationJob(RowOf(w), workers[w].result) \in JobRow
            /\ FailGenerationJob(RowOf(w)) \in JobRow
        BY <2>0, RowTypes DEF TypeOK, WorkersOK, WorkerStates
      <3>3. CompleteGenerationJob(RowOf(w), workers[w].result).status = "completed"
            /\ FailGenerationJob(RowOf(w)).status = "failed"
        BY <2>0 DEF CompleteGenerationJob, FailGenerationJob, JobRow
      <3>4. CASE UNCHANGED jobs
        BY <2>1, <2>2, <3>1, <3>4 DEF Created
      <3>5. CASE SetRow(JobOf(w), CompleteGenerationJob(RowOf(w), workers[w].result))
        <4>1. Created' = Created
              /\ \A j \in Created : jobs[j].status # "queued" => jobs'[j].status # "queued"
          BY <2>5, <3>2, <3>3, <3>5
        <4> QED BY <2>1, <2>2, <3>1, <4>1
      <3>6. CASE SetRow(JobOf(w), FailGenerationJob(RowOf(w)))
        <4>1. Created' = Created
              /\ \A j \in Created : jobs[j].status # "queued" => jobs'[j].status # "queued"
          BY <2>5, <3>2, <3>3, <3>6
        <4> QED BY <2>1, <2>2, <3>1, <4>1
      <3> QED BY <2>6, <3>4, <3>5, <3>6 DEF CompleteJob, FailClaimedJob
    <2>7. CASE ClaimJob(w)
      <3>1. CASE UNCHANGED jobs /\ (Goto(w, "lookup") \/ Goto(w, "errored"))
        <4>1. workers'[w].phase \notin Executing
          BY <3>1 DEF Goto, Executing, TypeOK, WorkersOK, WorkerStates
        <4> QED BY <2>1, <2>2, <3>1, <4>1 DEF Created
      <3>2. CASE /\ Claimable(RowOf(w))
                 /\ SetRow(JobOf(w), ClaimGenerationJob(RowOf(w)))
                 /\ Goto(w, "reading")
        <4>1. jobs[JobOf(w)].status = "queued" /\ jobs'[JobOf(w)].status = "running"
          BY <2>0, <3>2 DEF Claimable, RowOf, SetRow, ClaimGenerationJob, JobRow, Created,
                            TypeOK, TablesOK
        <4>2. Created' = Created /\ \A i \in Created : i # JobOf(w) => jobs'[i] = jobs[i]
          BY <3>2 DEF SetRow, Created, TypeOK, TablesOK
        <4>3. workers'[w].job = JobOf(w)
          BY <3>2 DEF Goto, JobOf, TypeOK, WorkersOK, WorkerStates
        <4> QED BY <1>0, <2>0, <2>2, <4>1, <4>2, <4>3, ExclusiveEntered
      <3> QED BY <2>7, <3>1, <3>2 DEF ClaimJob
    <2>8. CASE ResetForRetry(w)
      <3>1. workers'[w].phase \notin Executing
        BY <2>8, SettledIsFree
           DEF ResetForRetry, NackRequeue, Goto, Executing, TypeOK, WorkersOK, WorkerStates
      <3>2. CASE UNCHANGED jobs
        BY <2>1, <2>2, <3>1, <3>2 DEF Created
      <3>3. CASE SetRow(JobOf(w), ResetRunningGenerationJobToQueued(RowOf(w)))
        <4>1. Holds(w, JobOf(w))
          BY <2>8 DEF ResetForRetry, At, Holds, JobOf, Executing
        <4>2. \A v \in Workers, j \in Created : Holds(v, j)' => Holds(v, j) /\ j # JobOf(w)
          BY <2>0, <2>2, <3>1, <4>1 DEF Holds, ExclusiveExecution
        <4>3. Created' = Created /\ \A i \in Created : i # JobOf(w) => jobs'[i] = jobs[i]
          BY <3>3 DEF SetRow, Created, TypeOK, TablesOK
        <4> QED BY <1>0, <4>2, <4>3, ExclusiveCarries
      <3> QED BY <2>8, <3>2, <3>3 DEF ResetForRetry
    <2> QED BY <1>6, <2>3, <2>4, <2>6, <2>7, <2>8 DEF Handle
  <1>7. ASSUME NEW w \in Workers, Crash(w) PROVE ExclusiveExecution'
    <2>1. Down.phase \notin Executing
      BY DEF Down, Handling, Executing
    <2> QED BY <1>c, <1>7, <2>1 DEF Crash, Created
  <1>8. ASSUME NEW w \in Workers, LoseLink(w) PROVE ExclusiveExecution'
    <2>1. \A v \in Workers, j \in Created : Holds(v, j)' => Holds(v, j)
      BY <1>8 DEF LoseLink, Holds, TypeOK, WorkersOK, WorkerStates
    <2> QED BY <1>0, <1>8, <2>1, ExclusiveCarries DEF LoseLink, Created
  <1>9. ASSUME NEW w \in Workers, StartWorker(w) PROVE ExclusiveExecution'
    <2>1. Idle.phase \notin Executing
      BY DEF Idle, Handling, Executing
    <2>2. \A j \in Created : FailGenerationJob(jobs[j]).status = "failed"
      BY DEF TypeOK, TablesOK, JobRow, FailGenerationJob
    <2>3. Created' = Created
          /\ \A j \in Created : jobs[j].status # "queued" => jobs'[j].status # "queued"
      BY <1>9, <2>2 DEF StartWorker, MarkStaleRunningGenerationJobsFailed, Created, TypeOK, TablesOK
    <2> QED BY <1>c, <1>9, <2>1, <2>3 DEF StartWorker
  <1>10. CASE DelayEnds
    BY <1>10, <1>a DEF DelayEnds
  <1> QED BY <1>1, <1>2, <1>3, <1>4, <1>5, <1>6, <1>7, <1>8, <1>9, <1>10 DEF Next
-----------------------------------------------------------------------------
(* The rows keep the request they were inserted for.                       *)

RowsKeepRequest ==
    \A j \in Created :
        /\ j \in Created'
        /\ jobs'[j].trip = jobs[j].trip
        /\ jobs'[j].expected = jobs[j].expected
        /\ jobs'[j].kind = jobs[j].kind

(* No UPDATE of a job row changes what the job was created for.            *)
LEMMA UpdatesKeepRequest ==
    ASSUME TypeOK, NEW j \in Created, NEW n,
           \/ SetRow(j, ClaimGenerationJob(jobs[j]))
           \/ SetRow(j, CompleteGenerationJob(jobs[j], n))
           \/ SetRow(j, FailGenerationJob(jobs[j]))
           \/ SetRow(j, ResetRunningGenerationJobToQueued(jobs[j]))
           \/ SetRow(j, CancelQueuedGenerationJob(jobs[j]))
           \/ SetRow(j, [jobs[j] EXCEPT !.overdue = TRUE])
    PROVE  RowsKeepRequest
  <1>1. jobs[j] \in JobRow
    BY DEF TypeOK, TablesOK
  <1>2. ASSUME NEW row, SetRow(j, row), row.trip = jobs[j].trip,
               row.expected = jobs[j].expected, row.kind = jobs[j].kind
        PROVE  RowsKeepRequest
    BY <1>2 DEF RowsKeepRequest, SetRow, TypeOK, TablesOK, Created
  <1>3. CASE SetRow(j, ClaimGenerationJob(jobs[j]))
    BY <1>1, <1>2, <1>3 DEF ClaimGenerationJob, JobRow
  <1>4. CASE SetRow(j, CompleteGenerationJob(jobs[j], n))
    BY <1>1, <1>2, <1>4 DEF CompleteGenerationJob, JobRow
  <1>5. CASE SetRow(j, FailGenerationJob(jobs[j]))
    BY <1>1, <1>2, <1>5 DEF FailGenerationJob, JobRow
  <1>6. CASE SetRow(j, ResetRunningGenerationJobToQueued(jobs[j]))
    BY <1>1, <1>2, <1>6 DEF ResetRunningGenerationJobToQueued, JobRow
  <1>7. CASE SetRow(j, CancelQueuedGenerationJob(jobs[j]))
    BY <1>1, <1>2, <1>7 DEF CancelQueuedGenerationJob, JobRow
  <1>8. CASE SetRow(j, [jobs[j] EXCEPT !.overdue = TRUE])
    BY <1>1, <1>2, <1>8 DEF JobRow
  <1> QED BY <1>3, <1>4, <1>5, <1>6, <1>7, <1>8

(* Hence no step does, and no row disappears.                              *)
LEMMA NextKeepsRequest == TypeOK /\ [Next]_vars => RowsKeepRequest
  <1> SUFFICES ASSUME TypeOK, [Next]_vars PROVE RowsKeepRequest
    OBVIOUS
  <1>a. ASSUME UNCHANGED jobs PROVE RowsKeepRequest
    BY <1>a DEF RowsKeepRequest, Created
  <1>1. CASE UNCHANGED vars
    BY <1>1, <1>a DEF vars
  <1>2. ASSUME NEW j \in Jobs, Request(j) PROVE RowsKeepRequest
    <2>1. CASE Create(j) \/ \E old \in Created : OpsRetry(old, j)
      BY <2>1 DEF Create, OpsRetry, InsertJob, CreateGenerationJob, RowsKeepRequest, Created
    <2>2. CASE Dispatch(j) \/ ApiCrash(j)
      BY <2>2, <1>a DEF Dispatch, ApiCrash
    <2>3. CASE RefuseDispatch(j) \/ Cancel(j) \/ OpsMarkFailed(j) \/ BecomeOverdue(j)
      <3>1. j \in Created
        BY <2>3 DEF RefuseDispatch, Cancel, OpsMarkFailed, BecomeOverdue, TypeOK, TablesOK
      <3> QED BY <1>a, <2>3, <3>1, UpdatesKeepRequest
              DEF RefuseDispatch, Cancel, OpsMarkFailed, BecomeOverdue
    <2> QED BY <1>2, <2>1, <2>2, <2>3 DEF Request
  <1>3. CASE \/ \E m \in DOMAIN deadQ : RequeueDLQMessage(m)
             \/ \E t \in Trips : UpdateItinerary(t)
             \/ DelayEnds
    BY <1>3, <1>a DEF RequeueDLQMessage, UpdateItinerary, DelayEnds
  <1>4. ASSUME NEW w \in Workers, Receive(w) PROVE RowsKeepRequest
    BY <1>4, <1>a, UpdatesKeepRequest DEF Receive, Deliver, ClaimNextGenerationJob
  <1>5. ASSUME NEW w \in Workers, Handle(w) PROVE RowsKeepRequest
    <2>1. JobOf(w) \in Created
      BY <1>5, HandleIsBusy, BusyFacts
    <2>2. CASE UNCHANGED jobs
      BY <2>2, <1>a
    <2>3. CASE ~UNCHANGED jobs
      <3>1. \/ SetRow(JobOf(w), ClaimGenerationJob(RowOf(w)))
            \/ SetRow(JobOf(w), CompleteGenerationJob(RowOf(w), workers[w].result))
            \/ SetRow(JobOf(w), FailGenerationJob(RowOf(w)))
            \/ SetRow(JobOf(w), ResetRunningGenerationJobToQueued(RowOf(w)))
        BY <1>5, <2>3, HandleRowSteps
      <3> QED BY <2>1, <3>1, UpdatesKeepRequest DEF RowOf
    <2> QED BY <2>2, <2>3
  <1>6. ASSUME NEW w \in Workers, Crash(w) \/ LoseLink(w) PROVE RowsKeepRequest
    BY <1>6, <1>a DEF Crash, LoseLink
  <1>7. ASSUME NEW w \in Workers, StartWorker(w) PROVE RowsKeepRequest
    BY <1>7 DEF StartWorker, MarkStaleRunningGenerationJobsFailed, FailGenerationJob,
                RowsKeepRequest, TypeOK, TablesOK, Created, JobRow
  <1> QED BY <1>1, <1>2, <1>3, <1>4, <1>5, <1>6, <1>7 DEF Next

-----------------------------------------------------------------------------
(* The history only grows, by a version computed from the one before it.   *)

SameHistory(t) ==
    trips'[t].revision = trips[t].revision /\ trips'[t].versions = trips[t].versions

(* A save of trip t: by a user, or by a job of this trip and revision that *)
(* saves itineraries and is not waiting to be claimed.                     *)
NextVersion(t) ==
    \E writer \in Jobs \cup {Manual} :
        /\ trips'[t] = UpdateItineraryAndCreateVersion(trips[t], writer, trips[t].revision)
        /\ writer # Manual => /\ writer \in Created
                              /\ jobs[writer].trip = t
                              /\ jobs[writer].expected = trips[t].revision
                              /\ jobs[writer].kind # "proposal"
                              /\ jobs[writer].status # "queued"

SaveStep(t) ==
    /\ UNCHANGED jobs
    /\ NextVersion(t)
    /\ \A u \in Trips : u # t => SameHistory(u)

HistoryGrows == (\A t \in Trips : SameHistory(t)) \/ (\E t \in Trips : SaveStep(t))

(* Every step leaves the history of a trip as it is or appends one version. *)
LEMMA NextGrowsHistory == TypeOK /\ ExclusiveExecution /\ SeenIsExpected /\ [Next]_vars => HistoryGrows
  <1> SUFFICES ASSUME TypeOK, ExclusiveExecution, SeenIsExpected, [Next]_vars PROVE HistoryGrows
    OBVIOUS
  <1>a. ASSUME UNCHANGED trips PROVE HistoryGrows
    BY <1>a DEF HistoryGrows, SameHistory
  <1>b. ASSUME NEW t \in Trips, NEW status, SetTrip(t, UpdateStatusByUserID(trips[t], status))
        PROVE  HistoryGrows
    BY <1>b DEF SetTrip, UpdateStatusByUserID, HistoryGrows, SameHistory, TypeOK, TablesOK, TripRows
  <1>c. ASSUME NEW t \in Trips, NEW writer \in Jobs \cup {Manual},
               SetTrip(t, UpdateItineraryAndCreateVersion(trips[t], writer, trips[t].revision)),
               UNCHANGED jobs,
               writer # Manual => /\ writer \in Created
                                  /\ jobs[writer].trip = t
                                  /\ jobs[writer].expected = trips[t].revision
                                  /\ jobs[writer].kind # "proposal"
                                  /\ jobs[writer].status # "queued"
        PROVE  HistoryGrows
    <2>1. NextVersion(t)
      BY <1>c DEF NextVersion, SetTrip, TypeOK, TablesOK
    <2>2. \A u \in Trips : u # t => SameHistory(u)
      BY <1>c DEF SetTrip, SameHistory, TypeOK, TablesOK
    <2> QED BY <1>c, <2>1, <2>2 DEF HistoryGrows, SaveStep
  <1>1. CASE UNCHANGED vars
    BY <1>1, <1>a DEF vars
  <1>2. ASSUME NEW j \in Jobs, Request(j) PROVE HistoryGrows
    BY <1>2, <1>a DEF Request, Create, OpsRetry, InsertJob, Dispatch, RefuseDispatch, ApiCrash,
                      Cancel, OpsMarkFailed, BecomeOverdue
  <1>3. ASSUME NEW t \in Trips, UpdateItinerary(t) PROVE HistoryGrows
    BY <1>3, <1>c DEF UpdateItinerary
  <1>4. CASE \/ \E m \in DOMAIN deadQ : RequeueDLQMessage(m)
             \/ DelayEnds
             \/ \E w \in Workers : Receive(w) \/ Crash(w) \/ LoseLink(w) \/ StartWorker(w)
    BY <1>4, <1>a DEF RequeueDLQMessage, DelayEnds, Receive, Deliver, ClaimNextGenerationJob,
                      Crash, LoseLink, StartWorker
  <1>5. ASSUME NEW w \in Workers, Handle(w) PROVE HistoryGrows
    <2>1. /\ JobOf(w) \in Created
          /\ TripOf(w) \in Trips
          /\ JobOf(w) \in Jobs \cup {Manual}
      BY <1>5, HandleIsBusy, BusyFacts
    <2>2. CASE SaveItinerary(w)
      <3>1. CASE UNCHANGED trips
        BY <3>1, <1>a
      <3>2. CASE /\ RevisionMatches(trips[TripOf(w)], RowOf(w).expected)
                 /\ SetTrip(TripOf(w), Saved(w))
        <4>1. workers[w].seen = RowOf(w).expected
          BY <2>2 DEF SaveItinerary, At, SeenIsExpected
        <4>2. RowOf(w).expected = trips[TripOf(w)].revision
          BY <3>2 DEF RevisionMatches
        <4>3. RowOf(w).status # "queued" /\ RowOf(w).kind # "proposal" /\ UNCHANGED jobs
          BY <2>1, <2>2 DEF SaveItinerary, At, Holds, JobOf, RowOf, Executing, ExclusiveExecution
        <4> QED BY <1>c, <2>1, <3>2, <4>1, <4>2, <4>3 DEF Saved, RowOf, TripOf
      <3> QED BY <2>2, <3>1, <3>2 DEF SaveItinerary
    <2>3. CASE StartProcessing(w) \/ MarkFailed(w)
      BY <1>a, <1>b, <2>1, <2>3 DEF StartProcessing, MarkFailed
    <2>4. CASE ~(SaveItinerary(w) \/ StartProcessing(w) \/ MarkFailed(w))
      BY <1>5, <1>a, <2>4, HandleTripSteps
    <2> QED BY <2>2, <2>3, <2>4
  <1> QED BY <1>1, <1>2, <1>3, <1>4, <1>5 DEF Next

(* The same, for one trip.                                                 *)
LEMMA HistoryByTrip ==
    ASSUME HistoryGrows, NEW t \in Trips
    PROVE  SameHistory(t) \/ NextVersion(t)
  BY DEF HistoryGrows, SaveStep

(* What a growing history keeps: revisions count versions, each version is *)
(* computed from the one before it, and what was saved stays saved.        *)
LEMMA NoLostUpdateGrows ==
    ASSUME TypeOK, NoLostUpdate, HistoryGrows
    PROVE  NoLostUpdate'
  <1> SUFFICES ASSUME NEW t \in Trips
               PROVE  /\ trips'[t].revision = Len(trips'[t].versions)
                      /\ \A k \in 1..Len(trips'[t].versions) : trips'[t].versions[k].base = k - 1
    BY DEF NoLostUpdate
  <1>1. CASE SameHistory(t)
    BY <1>1 DEF SameHistory, NoLostUpdate
  <1>2. CASE NextVersion(t)
    <2>1. PICK writer \in Jobs \cup {Manual} :
             trips'[t] = UpdateItineraryAndCreateVersion(trips[t], writer, trips[t].revision)
      BY <1>2 DEF NextVersion
    <2> DEFINE old == trips[t].versions
               version == [writer |-> writer, base |-> trips[t].revision]
    <2>2. /\ trips'[t].revision = trips[t].revision + 1
          /\ trips'[t].versions = Append(old, version)
      BY <2>1 DEF UpdateItineraryAndCreateVersion
    <2>3. /\ old \in Seq([writer : Jobs \cup {Manual}, base : Nat])
          /\ trips[t].revision = Len(old)
          /\ \A k \in 1..Len(old) : old[k].base = k - 1
      BY DEF TypeOK, TablesOK, TripRows, NoLostUpdate
    <2>4. version.base = Len(old)
      BY <2>3
    <2> HIDE DEF old, version
    <2>5. Len(Append(old, version)) = Len(old) + 1
      BY <2>3
    <2>6. ASSUME NEW k \in 1..Len(old) + 1
          PROVE  Append(old, version)[k].base = k - 1
      <3>1. CASE k \in 1..Len(old)
        BY <2>3, <3>1
      <3>2. CASE k = Len(old) + 1
        BY <2>3, <2>4, <3>2
      <3> QED BY <2>3, <3>1, <3>2
    <2> QED BY <2>2, <2>3, <2>5, <2>6
  <1> QED BY <1>1, <1>2, HistoryByTrip

(* An appended version belongs to the job that saved it; the others still do. *)
LEMMA VersionsFromJobsGrow ==
    ASSUME TypeOK, VersionsFromJobs, HistoryGrows, RowsKeepRequest
    PROVE  VersionsFromJobs'
  <1> DEFINE Known(t, version) ==
        version.writer # Manual =>
            /\ version.writer \in Created
            /\ jobs[version.writer].trip = t
            /\ jobs[version.writer].expected = version.base
            /\ jobs[version.writer].kind # "proposal"
  <1>1. \A t, version : Known(t, version) => Known(t, version)'
    BY DEF RowsKeepRequest
  <1>2. ASSUME NEW t \in Trips, NEW k \in 1..Len(trips'[t].versions)
        PROVE  Known(t, trips'[t].versions[k])
    <2>1. CASE SameHistory(t)
      BY <1>2, <2>1 DEF SameHistory, VersionsFromJobs
    <2>2. CASE NextVersion(t)
      <3>1. PICK writer \in Jobs \cup {Manual} :
               /\ trips'[t] = UpdateItineraryAndCreateVersion(trips[t], writer, trips[t].revision)
               /\ writer # Manual => /\ writer \in Created
                                     /\ jobs[writer].trip = t
                                     /\ jobs[writer].expected = trips[t].revision
                                     /\ jobs[writer].kind # "proposal"
        BY <2>2 DEF NextVersion
      <3> DEFINE old == trips[t].versions
                 version == [writer |-> writer, base |-> trips[t].revision]
      <3>2. trips'[t].versions = Append(old, version)
        BY <3>1 DEF UpdateItineraryAndCreateVersion
      <3>3. old \in Seq([writer : Jobs \cup {Manual}, base : Nat])
        BY DEF TypeOK, TablesOK, TripRows
      <3>4. Known(t, version)
        BY <3>1
      <3>5. \A l \in 1..Len(old) : Known(t, old[l])
        BY DEF VersionsFromJobs
      <3> HIDE DEF old, version, Known
      <3>6. CASE k \in 1..Len(old)
        <4>1. Append(old, version)[k] = old[k]
          BY <3>3, <3>6
        <4> QED BY <3>2, <3>5, <3>6, <4>1
      <3>7. CASE k = Len(old) + 1
        <4>1. Append(old, version)[k] = version
          BY <3>3, <3>7
        <4> QED BY <3>2, <3>4, <4>1
      <3>8. k \in 1..Len(old) + 1
        BY <1>2, <3>2, <3>3
      <3> QED BY <3>3, <3>6, <3>7, <3>8
    <2> QED BY <2>1, <2>2, HistoryByTrip
  <1>3. ASSUME NEW t \in Trips, NEW k \in 1..Len(trips'[t].versions)
        PROVE  LET version == trips'[t].versions[k] IN
               version.writer # Manual =>
                   /\ version.writer \in Created'
                   /\ jobs'[version.writer].trip = t
                   /\ jobs'[version.writer].expected = version.base
                   /\ jobs'[version.writer].kind # "proposal"
    BY <1>2 DEF RowsKeepRequest
  <1> QED BY <1>3 DEF VersionsFromJobs

(* A version that can be pointed to can be pointed to for ever.            *)
LEMMA SavedStaysSaved ==
    ASSUME TypeOK, HistoryGrows, RowsKeepRequest, NEW j \in Created, NEW r, SavedAt(j, r)
    PROVE  SavedAt(j, r)'
  <1> DEFINE t == jobs[j].trip
             old == trips[t].versions
  <1>1. t \in Trips /\ old \in Seq([writer : Jobs \cup {Manual}, base : Nat])
    BY DEF TypeOK, TablesOK, JobRow, TripRows
  <1>2. r \in 1..Len(trips'[t].versions) /\ trips'[t].versions[r].writer = j
    <2>1. r \in 1..Len(old) /\ old[r].writer = j
      BY DEF SavedAt
    <2>2. CASE SameHistory(t)
      BY <2>1, <2>2 DEF SameHistory
    <2>3. CASE NextVersion(t)
      <3>1. PICK version : trips'[t].versions = Append(old, version)
        BY <2>3, SMTT(20) DEF NextVersion, UpdateItineraryAndCreateVersion
      <3> HIDE DEF t, old
      <3>2. Len(Append(old, version)) = Len(old) + 1 /\ Append(old, version)[r] = old[r]
        BY <1>1, <2>1
      <3>3. Len(old) \in Nat
        BY <1>1
      <3> QED BY <2>1, <3>1, <3>2, <3>3
    <2> QED BY <1>1, <2>2, <2>3, HistoryByTrip
  <1>3. jobs'[j].trip = t /\ jobs'[j].expected = jobs[j].expected
    BY DEF RowsKeepRequest
  <1> QED BY <1>2, <1>3 DEF SavedAt

-----------------------------------------------------------------------------
(* What the executions remember of their reads and of their saves.         *)

Computing == {"starting", "generating", "saving"}

(* A worker that a step of the system leaves in its execution keeps what   *)
(* it read and what it saved, unless the step is its own read or save.     *)
Remembers(w) ==
    /\ workers'[w].phase \in Computing =>
          \/ /\ workers[w].phase \in Computing
             /\ workers'[w].job = JobOf(w) /\ workers'[w].seen = workers[w].seen
          \/ ReadTrip(w)
    /\ workers'[w].phase = "saved" =>
          \/ /\ workers[w].phase = "saved"
             /\ workers'[w].job = JobOf(w) /\ workers'[w].result = workers[w].result
          \/ SaveItinerary(w) \/ CreateProposal(w)

(* An execution keeps what it read and saved until it ends or saves.       *)
LEMMA HandleRemembers ==
    ASSUME TypeOK, NEW w \in Workers, Handle(w)
    PROVE  \A v \in Workers : Remembers(v)
  <1>1. \A v \in Workers : v # w => Remembers(v)
    BY HandleMovesOne DEF Remembers, JobOf
  <1>2. Remembers(w)
    <2>0. workers \in [Workers -> WorkerStates]
      BY DEF TypeOK, WorkersOK
    <2>1. ASSUME workers'[w].phase \notin Computing \cup {"saved"} PROVE Remembers(w)
      BY <2>1 DEF Remembers, Computing
    <2>2. CASE ReadTrip(w)
      <3>1. workers'[w].phase # "saved"
        BY <2>0, <2>2 DEF ReadTrip, FailExecution, WorkerStates
      <3> QED BY <2>2, <3>1 DEF Remembers
    <2>3. CASE SaveItinerary(w)
      <3>1. workers'[w].phase \notin Computing
        BY <2>0, <2>3 DEF SaveItinerary, FailExecution, AfterError, WorkerStates, Computing
      <3> QED BY <2>3, <3>1 DEF Remembers
    <2>9. CASE CreateProposal(w)
      <3>1. workers'[w].phase \notin Computing
        BY <2>0, <2>9 DEF CreateProposal, FailExecution, WorkerStates, Computing
      <3> QED BY <2>9, <3>1 DEF Remembers
    <2>4. CASE StartProcessing(w)
      BY <2>0, <2>4 DEF StartProcessing, Goto, FailExecution, WorkerStates, Computing, Remembers,
                        At, JobOf
    <2>5. CASE Generate(w)
      BY <2>0, <2>5 DEF Generate, Goto, FailExecution, AfterError, WorkerStates, Computing,
                        Remembers, At, JobOf
    <2>6. CASE ClaimJob(w) \/ LookupJob(w) \/ MarkFailed(w) \/ CutShort(w)
      BY <2>0, <2>1, <2>6 DEF ClaimJob, LookupJob, MarkFailed, CutShort, Goto, FailExecution,
                              WorkerStates, Computing
    <2>7. CASE CompleteJob(w) \/ ResetForRetry(w) \/ FailClaimedJob(w)
      BY <2>0, <2>1, <2>7, SettledIsFree
         DEF CompleteJob, ResetForRetry, FailClaimedJob, NackRequeue, Goto, WorkerStates, Computing
    <2>8. CASE RepublishRetry(w) \/ RetryOrRequeue(w) \/ Ack(w) \/ Reject(w)
      BY <2>0, <2>1, <2>8, SettledIsFree
         DEF RepublishRetry, RetryOrRequeue, RetryThenAck, NackRequeue, NackDeadLetter, Ack,
             Reject, Goto, WorkerStates, Computing
    <2> QED BY <2>2, <2>3, <2>4, <2>5, <2>6, <2>7, <2>8, <2>9 DEF Handle
  <1> QED BY <1>1, <1>2

(* The same, for every step of the system.                                 *)
LEMMA NextRemembers == TypeOK /\ [Next]_vars => \A v \in Workers : Remembers(v)
  <1> SUFFICES ASSUME TypeOK, [Next]_vars PROVE \A v \in Workers : Remembers(v)
    OBVIOUS
  <1>0. workers \in [Workers -> WorkerStates]
    BY DEF TypeOK, WorkersOK
  <1>a. ASSUME UNCHANGED workers PROVE \A v \in Workers : Remembers(v)
    BY <1>a DEF Remembers, JobOf
  <1>b. ASSUME NEW w \in Workers, NEW st, workers' = [workers EXCEPT ![w] = st],
               st.phase \notin Computing \cup {"saved"}
        PROVE  \A v \in Workers : Remembers(v)
    BY <1>0, <1>b DEF Remembers, JobOf, Computing
  <1>1. CASE UNCHANGED vars
    BY <1>1, <1>a DEF vars
  <1>2. ASSUME NEW j \in Jobs, Request(j) PROVE \A v \in Workers : Remembers(v)
    BY <1>2, <1>a DEF Request, Create, OpsRetry, InsertJob, Dispatch, RefuseDispatch, ApiCrash,
                      Cancel, OpsMarkFailed, BecomeOverdue
  <1>3. CASE \/ \E m \in DOMAIN deadQ : RequeueDLQMessage(m)
             \/ \E t \in Trips : UpdateItinerary(t)
             \/ DelayEnds
    BY <1>3, <1>a DEF RequeueDLQMessage, UpdateItinerary, DelayEnds
  <1>4. ASSUME NEW w \in Workers, Receive(w) PROVE \A v \in Workers : Remembers(v)
    <2>1. \A j, a : /\ Handling("delivered", j, a).phase \notin Computing \cup {"saved"}
                    /\ Handling("reading", j, a).phase \notin Computing \cup {"saved"}
      BY DEF Handling, Computing
    <2> QED BY <1>4, <1>b, <2>1 DEF Receive, Deliver, ClaimNextGenerationJob
  <1>5. ASSUME NEW w \in Workers, Handle(w) PROVE \A v \in Workers : Remembers(v)
    BY <1>5, HandleRemembers
  <1>6. ASSUME NEW w \in Workers, Crash(w) \/ StartWorker(w)
        PROVE  \A v \in Workers : Remembers(v)
    <2>1. Down.phase \notin Computing \cup {"saved"} /\ Idle.phase \notin Computing \cup {"saved"}
      BY DEF Down, Idle, Handling, Computing
    <2> QED BY <1>6, <1>b, <2>1 DEF Crash, StartWorker
  <1>7. ASSUME NEW w \in Workers, LoseLink(w) PROVE \A v \in Workers : Remembers(v)
    BY <1>0, <1>7 DEF LoseLink, Remembers, JobOf, WorkerStates
  <1> QED BY <1>1, <1>2, <1>3, <1>4, <1>5, <1>6, <1>7 DEF Next
-----------------------------------------------------------------------------
(* The inductive invariant.                                                *)

(* Whoever computes or has saved is busy with an inserted row.             *)
LEMMA ComputingFacts ==
    ASSUME TypeOK, NEW w \in Workers, workers[w].phase \in Computing \cup {"saved"}
    PROVE  Busy(w) /\ JobOf(w) \in Created
  <1>1. Busy(w)
    BY DEF Computing, Busy
  <1> QED BY <1>1, BusyFacts

(* Only the revision check lets an execution compute.                      *)
LEMMA SeenIsExpectedNext == TypeOK /\ SeenIsExpected /\ [Next]_vars => SeenIsExpected'
  <1> SUFFICES ASSUME TypeOK, SeenIsExpected, [Next]_vars,
                      NEW w \in Workers, workers'[w].phase \in Computing
               PROVE  workers'[w].seen = jobs'[workers'[w].job].expected
    BY DEF SeenIsExpected, Computing, RowOf, JobOf
  <1>1. RowsKeepRequest /\ Remembers(w)
    BY NextKeepsRequest, NextRemembers
  <1>2. CASE /\ workers[w].phase \in Computing
             /\ workers'[w].job = JobOf(w) /\ workers'[w].seen = workers[w].seen
    BY <1>1, <1>2, ComputingFacts DEF SeenIsExpected, RowsKeepRequest, RowOf, Computing
  <1>3. CASE ReadTrip(w)
    <2>1. JobOf(w) \in Created
      BY <1>3, BusyFacts DEF ReadTrip, At, Busy
    <2>2. /\ trips[TripOf(w)].revision = RowOf(w).expected
          /\ workers' = [workers EXCEPT
                ![w].phase = IF RowOf(w).kind = "full" THEN "starting" ELSE "generating",
                ![w].seen = trips[TripOf(w)].revision]
      BY <1>3 DEF ReadTrip, FailExecution, RevisionMatches, TypeOK, WorkersOK, WorkerStates,
                  Computing
    <2>3. workers'[w].seen = RowOf(w).expected /\ workers'[w].job = JobOf(w)
      BY <2>2 DEF TypeOK, WorkersOK, WorkerStates, JobOf
    <2> QED BY <1>1, <2>1, <2>3 DEF RowsKeepRequest, RowOf
  <1> QED BY <1>1, <1>2, <1>3 DEF Remembers

(* No step takes a proposal back.                                          *)
LEMMA NextKeepsProposals == [Next]_vars => proposed \subseteq proposed'
  <1> SUFFICES ASSUME [Next]_vars PROVE proposed \subseteq proposed'
    OBVIOUS
  <1>1. CASE UNCHANGED vars
    BY <1>1 DEF vars
  <1>2. ASSUME NEW j \in Jobs, Request(j) PROVE proposed \subseteq proposed'
    BY <1>2 DEF Request, Create, OpsRetry, InsertJob, Dispatch, RefuseDispatch, ApiCrash,
                Cancel, OpsMarkFailed, BecomeOverdue
  <1>3. CASE \/ \E m \in DOMAIN deadQ : RequeueDLQMessage(m)
             \/ \E t \in Trips : UpdateItinerary(t)
             \/ DelayEnds
             \/ \E w \in Workers : Receive(w) \/ Crash(w) \/ LoseLink(w) \/ StartWorker(w)
    BY <1>3 DEF RequeueDLQMessage, UpdateItinerary, DelayEnds, Receive, Deliver,
                ClaimNextGenerationJob, Crash, LoseLink, StartWorker
  <1>4. ASSUME NEW w \in Workers, Handle(w) PROVE proposed \subseteq proposed'
    BY <1>4 DEF Handle, ClaimJob, LookupJob, ReadTrip, StartProcessing, Generate,
                SaveItinerary, CreateProposal, MarkFailed, CutShort, CompleteJob,
                ResetForRetry, RepublishRetry, FailClaimedJob, RetryOrRequeue, Ack, Reject
  <1> QED BY <1>1, <1>2, <1>3, <1>4 DEF Next

(* A job that leaves proposals is the writer of no version.                *)
LEMMA ProposalsWriteNothing ==
    ASSUME VersionsFromJobs', TypeOK', NEW j \in Created', jobs'[j].kind = "proposal"
    PROVE  ~Applied(j)'
  <1>1. j # Manual /\ jobs'[j].trip \in Trips
    BY ConstantsAssumption DEF TypeOK, TablesOK, JobRow
  <1> QED BY <1>1 DEF VersionsFromJobs, Applied

(* What an execution can point to, it can point to for ever.               *)
LEMMA OutcomeStays ==
    ASSUME TypeOK, HistoryGrows, RowsKeepRequest, TypeOK', VersionsFromJobs', [Next]_vars,
           NEW j \in Created, NEW r, OutcomeAt(j, r)
    PROVE  OutcomeAt(j, r)'
  <1>1. j \in Created' /\ jobs'[j].kind = jobs[j].kind /\ jobs'[j].expected = jobs[j].expected
    BY DEF RowsKeepRequest
  <1>2. CASE jobs[j].kind = "proposal"
    <2>1. ~Applied(j)'
      BY <1>1, <1>2, ProposalsWriteNothing
    <2>2. r = jobs[j].expected /\ j \in proposed
      BY <1>2 DEF OutcomeAt, ProposedAt
    <2> QED BY <1>1, <1>2, <2>1, <2>2, NextKeepsProposals DEF OutcomeAt, ProposedAt
  <1>3. CASE jobs[j].kind # "proposal"
    <2>1. SavedAt(j, r)
      BY <1>3 DEF OutcomeAt
    <2>2. SavedAt(j, r)'
      BY <2>1, SavedStaysSaved
    <2> QED BY <1>1, <1>3, <2>2 DEF OutcomeAt
  <1> QED BY <1>2, <1>3

(* A save puts the version in the history that its execution points to, or *)
(* the proposal in its table.                                              *)
LEMMA SavedInHistoryNext ==
    ASSUME TypeOK, ExclusiveExecution, NoLostUpdate, SeenIsExpected, SavedInHistory,
           [Next]_vars, TypeOK', VersionsFromJobs'
    PROVE  SavedInHistory'
  <1> SUFFICES ASSUME NEW w \in Workers, workers'[w].phase = "saved"
               PROVE  OutcomeAt(JobOf(w), workers[w].result)'
    BY DEF SavedInHistory, At
  <1>1. RowsKeepRequest /\ HistoryGrows /\ Remembers(w)
    BY NextKeepsRequest, NextGrowsHistory, NextRemembers
  <1>2. CASE /\ workers[w].phase = "saved"
             /\ workers'[w].job = JobOf(w) /\ workers'[w].result = workers[w].result
    <2>1. JobOf(w) \in Created /\ OutcomeAt(JobOf(w), workers[w].result)
      BY <1>2, ComputingFacts DEF SavedInHistory, At
    <2>2. PICK j, r : j = JobOf(w) /\ r = workers[w].result
      OBVIOUS
    <2>3. OutcomeAt(j, r)'
      BY <1>1, <2>1, <2>2, OutcomeStays
    <2>4. j = workers'[w].job /\ r = workers'[w].result
      BY <1>2, <2>2
    <2> QED BY <2>3, <2>4 DEF JobOf, OutcomeAt, ProposedAt, SavedAt, Applied
  <1>4. CASE CreateProposal(w)
    <2>0. PICK j : j = JobOf(w)
      OBVIOUS
    <2>1. j \in Created /\ RowOf(w).kind = "proposal" /\ workers[w].phase = "saving"
      BY <1>4, <2>0, BusyFacts DEF CreateProposal, At, Busy
    <2>2. j \in proposed' /\ workers' = [workers EXCEPT ![w].phase = "saved",
                                                        ![w].result = workers[w].seen]
      <3>1. \A b \in BOOLEAN : ~FailExecution(w, "failing", b)
        BY DEF FailExecution, TypeOK, WorkersOK, WorkerStates
      <3> QED BY <1>4, <2>0, <3>1 DEF CreateProposal
    <2>3. workers'[w].result = workers[w].seen /\ workers'[w].job = j
      BY <2>0, <2>2 DEF TypeOK, WorkersOK, WorkerStates, JobOf
    <2>4. workers[w].seen = jobs[j].expected
      BY <2>0, <2>1 DEF SeenIsExpected, RowOf
    <2>5. j \in Created' /\ jobs'[j].kind = "proposal" /\ jobs'[j].expected = jobs[j].expected
      BY <1>1, <2>0, <2>1 DEF RowsKeepRequest, RowOf
    <2>6. ~Applied(j)'
      BY <2>5, ProposalsWriteNothing
    <2> QED BY <2>2, <2>3, <2>4, <2>5, <2>6 DEF OutcomeAt, ProposedAt, Applied, JobOf
  <1>3. CASE SaveItinerary(w)
    <2> DEFINE j == JobOf(w)
               t == TripOf(w)
               old == trips[t].versions
    <2>1. j \in Created /\ t \in Trips /\ j \in Jobs \cup {Manual}
      BY <1>3, BusyFacts DEF SaveItinerary, At, Busy
    <2>2. /\ trips[t].revision = RowOf(w).expected
          /\ SetTrip(t, Saved(w))
          /\ workers' = [workers EXCEPT ![w].phase = "saved",
                                        ![w].result = trips[t].revision + 1]
      BY <1>3 DEF SaveItinerary, FailExecution, AfterError, RevisionMatches, TypeOK, WorkersOK,
                  WorkerStates
    <2>3. workers'[w].result = trips[t].revision + 1 /\ workers'[w].job = j
      BY <2>2 DEF TypeOK, WorkersOK, WorkerStates, JobOf
    <2>4. old \in Seq([writer : Jobs \cup {Manual}, base : Nat]) /\ trips[t].revision = Len(old)
      BY <2>1 DEF TypeOK, TablesOK, TripRows, NoLostUpdate
    <2>5. trips'[t].versions = Append(old, [writer |-> j, base |-> workers[w].seen])
      BY <2>1, <2>2 DEF SetTrip, Saved, UpdateItineraryAndCreateVersion, TypeOK, TablesOK
    <2>6. /\ jobs'[j].trip = t /\ jobs'[j].expected = trips[t].revision
          /\ jobs'[j].kind # "proposal"
      BY <1>1, <1>3, <2>1, <2>2 DEF RowsKeepRequest, RowOf, TripOf, SaveItinerary
    <2> HIDE DEF j, t, old
    <2>7. \A v : /\ Len(Append(old, v)) = Len(old) + 1
                 /\ Append(old, v)[Len(old) + 1] = v
                 /\ Len(old) \in Nat
      BY <2>4
    <2>8. [writer |-> j, base |-> workers[w].seen].writer = j
      OBVIOUS
    <2>9. LET versions == trips'[t].versions IN
          /\ trips[t].revision + 1 \in 1..Len(versions)
          /\ versions[trips[t].revision + 1].writer = j
      BY <2>4, <2>5, <2>7, <2>8
    <2> QED BY <2>3, <2>6, <2>9 DEF OutcomeAt, SavedAt, JobOf
  <1> QED BY <1>1, <1>2, <1>3, <1>4 DEF Remembers

(* A row becomes completed only by the worker that saved for it.           *)
LEMMA NextCompletes ==
    ASSUME TypeOK, [Next]_vars, NEW j \in Created', jobs'[j].status = "completed"
    PROVE  /\ j \in Created
           /\ \/ jobs[j].status = "completed" /\ jobs'[j].result = jobs[j].result
              \/ \E w \in Workers : /\ At(w, "saved") /\ JobOf(w) = j
                                    /\ jobs'[j].result = workers[w].result
  <1> DEFINE Goal == /\ j \in Created
                     /\ \/ jobs[j].status = "completed" /\ jobs'[j].result = jobs[j].result
                        \/ \E w \in Workers : /\ At(w, "saved") /\ JobOf(w) = j
                                              /\ jobs'[j].result = workers[w].result
  <1> SUFFICES Goal
    OBVIOUS
  <1>0. \A i \in Created : jobs[i] \in JobRow
    BY DEF TypeOK, TablesOK
  <1>a. ASSUME UNCHANGED jobs PROVE Goal
    BY <1>a DEF Created
  <1>b. ASSUME NEW i \in Created, NEW row, SetRow(i, row), row.status # "completed"
        PROVE  Goal
    BY <1>b DEF SetRow, Created, TypeOK, TablesOK
  <1>c. ASSUME NEW i \in Created
        PROVE  /\ ClaimGenerationJob(jobs[i]).status = "running"
               /\ FailGenerationJob(jobs[i]).status = "failed"
               /\ ResetRunningGenerationJobToQueued(jobs[i]).status = "queued"
               /\ CancelQueuedGenerationJob(jobs[i]).status = "cancelled"
               /\ [jobs[i] EXCEPT !.overdue = TRUE].status = jobs[i].status
    BY <1>0 DEF JobRow, ClaimGenerationJob, FailGenerationJob, CancelQueuedGenerationJob,
                ResetRunningGenerationJobToQueued
  <1> HIDE DEF Goal
  <1>1. CASE UNCHANGED vars
    BY <1>1, <1>a DEF vars
  <1>2. ASSUME NEW i \in Jobs, Request(i) PROVE Goal
    <2>1. CASE Create(i) \/ \E old \in Created : OpsRetry(old, i)
      BY <2>1 DEF Create, OpsRetry, InsertJob, CreateGenerationJob, QueuedRow, Created, Goal
    <2>2. CASE Dispatch(i) \/ ApiCrash(i)
      BY <2>2, <1>a DEF Dispatch, ApiCrash
    <2>3. CASE RefuseDispatch(i) \/ Cancel(i) \/ OpsMarkFailed(i) \/ BecomeOverdue(i)
      <3>1. i \in Created
        BY <2>3 DEF RefuseDispatch, Cancel, OpsMarkFailed, BecomeOverdue, TypeOK, TablesOK
      <3> QED BY <1>a, <1>b, <1>c, <2>3, <3>1
              DEF RefuseDispatch, Cancel, OpsMarkFailed, BecomeOverdue
    <2> QED BY <1>2, <2>1, <2>2, <2>3 DEF Request
  <1>3. CASE \/ \E m \in DOMAIN deadQ : RequeueDLQMessage(m)
             \/ \E t \in Trips : UpdateItinerary(t)
             \/ DelayEnds
    BY <1>3, <1>a DEF RequeueDLQMessage, UpdateItinerary, DelayEnds
  <1>4. ASSUME NEW w \in Workers, Receive(w) PROVE Goal
    BY <1>4, <1>a, <1>b, <1>c DEF Receive, Deliver, ClaimNextGenerationJob
  <1>5. ASSUME NEW w \in Workers, Handle(w) PROVE Goal
    <2>1. JobOf(w) \in Created
      BY <1>5, HandleIsBusy, BusyFacts
    <2>2. CASE UNCHANGED jobs
      BY <2>2, <1>a
    <2>3. CASE \/ SetRow(JobOf(w), ClaimGenerationJob(RowOf(w)))
               \/ SetRow(JobOf(w), FailGenerationJob(RowOf(w)))
               \/ SetRow(JobOf(w), ResetRunningGenerationJobToQueued(RowOf(w)))
      BY <1>b, <1>c, <2>1, <2>3 DEF RowOf
    <2>4. CASE /\ SetRow(JobOf(w), CompleteGenerationJob(RowOf(w), workers[w].result))
               /\ At(w, "saved")
      <3>1. CASE j = JobOf(w)
        BY <1>0, <2>1, <2>4, <3>1 DEF SetRow, CompleteGenerationJob, JobRow, RowOf, Goal
      <3>2. CASE j # JobOf(w)
        BY <2>4, <3>2 DEF SetRow, Created, TypeOK, TablesOK, Goal
      <3> QED BY <3>1, <3>2
    <2> QED BY <1>5, <2>2, <2>3, <2>4, HandleRowSteps
  <1>6. ASSUME NEW w \in Workers, Crash(w) \/ LoseLink(w) PROVE Goal
    BY <1>6, <1>a DEF Crash, LoseLink
  <1>7. ASSUME NEW w \in Workers, StartWorker(w) PROVE Goal
    BY <1>7, <1>c DEF StartWorker, MarkStaleRunningGenerationJobsFailed, Created, Goal
  <1> QED BY <1>1, <1>2, <1>3, <1>4, <1>5, <1>6, <1>7 DEF Next

(* A row that becomes completed takes over the pointer of its execution.   *)
LEMMA CompletedNext ==
    ASSUME TypeOK, ExclusiveExecution, NoLostUpdate, SeenIsExpected, SavedInHistory,
           CompletedMeansSaved, [Next]_vars, TypeOK', VersionsFromJobs'
    PROVE  CompletedMeansSaved'
  <1> SUFFICES ASSUME NEW j \in Created', jobs'[j].status = "completed"
               PROVE  OutcomeAt(j, jobs[j].result)'
    BY DEF CompletedMeansSaved
  <1>1. RowsKeepRequest /\ HistoryGrows /\ j \in Created
    BY NextKeepsRequest, NextGrowsHistory, NextCompletes
  <1>2. PICK r : OutcomeAt(j, r) /\ jobs'[j].result = r
    BY NextCompletes DEF CompletedMeansSaved, SavedInHistory
  <1>3. OutcomeAt(j, r)'
    BY <1>1, <1>2, OutcomeStays
  <1> QED BY <1>2, <1>3 DEF OutcomeAt, ProposedAt, SavedAt, Applied

(* The inductive invariant holds initially.                                *)
LEMMA InitIInv == Init => IInv
  <1> SUFFICES ASSUME Init PROVE IInv
    OBVIOUS
  <1>1. TypeOK
    BY InitTypeOK
  <1>2. ExclusiveExecution /\ CompletedMeansSaved
    BY DEF Init, Created, ExclusiveExecution, CompletedMeansSaved
  <1>3. SeenIsExpected /\ SavedInHistory
    BY DEF Init, Idle, Handling, SeenIsExpected, SavedInHistory, At
  <1>4. NoLostUpdate /\ VersionsFromJobs
    BY DEF Init, InitTrips, NewTrip, NoLostUpdate, VersionsFromJobs
  <1> QED BY <1>1, <1>2, <1>3, <1>4 DEF IInv, ExecutionsMatchHistory

(* Every step preserves the inductive invariant.                           *)
LEMMA NextIInv == IInv /\ [Next]_vars => IInv'
  <1> SUFFICES ASSUME IInv, [Next]_vars PROVE IInv'
    OBVIOUS
  <1> USE DEF IInv, ExecutionsMatchHistory
  <1>1. RowsKeepRequest /\ HistoryGrows
    BY NextKeepsRequest, NextGrowsHistory
  <1>2. TypeOK' /\ ExclusiveExecution'
    BY NextTypeOK, ExclusiveNext
  <1>3. NoLostUpdate' /\ VersionsFromJobs'
    BY <1>1, NoLostUpdateGrows, VersionsFromJobsGrow
  <1>4. SeenIsExpected' /\ SavedInHistory' /\ CompletedMeansSaved'
    BY <1>2, <1>3, SeenIsExpectedNext, SavedInHistoryNext, CompletedNext
  <1> QED BY <1>2, <1>3, <1>4

(* In every reachable state rows, executions and version history agree: the *)
(* invariant that the properties below are read off.                       *)
THEOREM Invariance == Spec => []IInv
  BY InitIInv, NextIInv, PTL DEF Spec
-----------------------------------------------------------------------------
(* The properties.                                                         *)

(* Between any two statements of the handlers, an execution carries the    *)
(* revision its job was created for, and every version written by a job    *)
(* belongs to that job's trip and revision.                                *)
THEOREM HistoryIsKnown == Spec => []ExecutionsMatchHistory
  <1>1. IInv => ExecutionsMatchHistory
    BY DEF IInv
  <1> QED BY <1>1, Invariance, PTL

(* Two workers never execute one job at a time, and a row that can be      *)
(* claimed has no execution under way: whatever the broker redelivers or   *)
(* duplicates, whoever crashes, cancels or repairs.                        *)
THEOREM OneExecutionAtATime == Spec => []ExclusiveExecution
  <1>1. IInv => ExclusiveExecution
    BY DEF IInv
  <1> QED BY <1>1, Invariance, PTL

(* No save of a job or of a user replaces an itinerary its writer had not  *)
(* read: version k of a trip is computed from version k - 1.               *)
THEOREM UpdatesAreNotLost == Spec => []NoLostUpdate
  <1>1. IInv => NoLostUpdate
    BY DEF IInv
  <1> QED BY <1>1, Invariance, PTL

(* A completed row points to the version its own execution saved, although *)
(* completion is a statement of its own that names the row by id alone.    *)
THEOREM CompletionIsTrue == Spec => []CompletedMeansSaved
  <1>1. IInv => CompletedMeansSaved
    BY DEF IInv
  <1> QED BY <1>1, Invariance, PTL

(* Two versions by one job would have the same base, hence be the same.    *)
LEMMA OneVersionPerJob == IInv => AppliedAtMostOnce
  <1> SUFFICES ASSUME IInv, NEW t \in Trips,
                      NEW k \in 1..Len(trips[t].versions), NEW l \in 1..Len(trips[t].versions),
                      trips[t].versions[k].writer # Manual,
                      trips[t].versions[k].writer = trips[t].versions[l].writer
               PROVE  k = l
    BY DEF AppliedAtMostOnce
  <1>1. trips[t].versions[k].base = trips[t].versions[l].base
    BY DEF IInv, ExecutionsMatchHistory, VersionsFromJobs
  <1>2. trips[t].versions[k].base = k - 1 /\ trips[t].versions[l].base = l - 1
    BY DEF IInv, NoLostUpdate
  <1>3. k \in Int /\ l \in Int
    OBVIOUS
  <1>4. k - 1 = l - 1
    BY <1>1, <1>2
  <1> QED BY <1>3, <1>4

(* A job writes its itinerary at most once, with at-least-once delivery,   *)
(* retries and saves whose commit was reported as a failure.               *)
THEOREM EffectAtMostOnce == Spec => []AppliedAtMostOnce
  BY OneVersionPerJob, Invariance, PTL

-----------------------------------------------------------------------------
(***************************************************************************)
(* The generation jobs implement JobContract, and a closed job stays       *)
(* closed.  Both rest on what a step may do to the status column: accept,  *)
(* begin, give back, or close.  So do the two properties that depend on    *)
(* which faults happen: a cancelled job has no effect, and a queued row    *)
(* has somebody who brings it to a worker.                                 *)
(***************************************************************************)

SameStatus(S) == \A i \in S : jobs'[i].status = jobs[i].status

Accepts(j) ==
    /\ j \in Jobs \ Created
    /\ Created' = Created \cup {j}
    /\ SameStatus(Created)
    /\ jobs'[j].status = "queued"

Moves(j, from, to) ==
    /\ j \in Created
    /\ Created' = Created
    /\ jobs[j].status = from
    /\ jobs'[j].status = to
    /\ SameStatus(Created \ {j})

Closes(S) ==
    /\ S \subseteq Created
    /\ Created' = Created
    /\ \A i \in S : jobs'[i].status \in Terminal
    /\ SameStatus(Created \ S)

StatusStep ==
    \/ \E j \in Jobs : Accepts(j)
    \/ \E j \in Jobs : Moves(j, "queued", "running") \/ Moves(j, "running", "queued")
    \/ \E S \in SUBSET Created : Closes(S)

(* One UPDATE of one row.                                                  *)
LEMMA RowUpdateStep ==
    ASSUME TypeOK, NEW j \in Created, NEW row, SetRow(j, row),
           \/ row.status = jobs[j].status
           \/ row.status \in Terminal
           \/ jobs[j].status = "queued" /\ row.status = "running"
           \/ jobs[j].status = "running" /\ row.status = "queued"
    PROVE  StatusStep
  <1>1. /\ Created' = Created
        /\ jobs'[j] = row
        /\ \A i \in Created \ {j} : jobs'[i] = jobs[i]
    BY DEF SetRow, Created, TypeOK, TablesOK
  <1>2. j \in Jobs
    BY DEF TypeOK, TablesOK
  <1>3. CASE row.status = jobs[j].status
    <2>1. Closes({})
      BY <1>1, <1>3 DEF Closes, SameStatus
    <2> QED BY <2>1 DEF StatusStep
  <1>4. CASE row.status \in Terminal
    <2>1. Closes({j})
      BY <1>1, <1>4 DEF Closes, SameStatus
    <2> QED BY <2>1 DEF StatusStep
  <1>5. CASE jobs[j].status = "queued" /\ row.status = "running"
    BY <1>1, <1>2, <1>5 DEF Moves, SameStatus, StatusStep
  <1>6. CASE jobs[j].status = "running" /\ row.status = "queued"
    BY <1>1, <1>2, <1>6 DEF Moves, SameStatus, StatusStep
  <1> QED BY <1>3, <1>4, <1>5, <1>6

(* Every step moves one row along the status diagram, or closes several.   *)
LEMMA NextStatusStep == TypeOK /\ [Next]_vars => StatusStep
  <1> SUFFICES ASSUME TypeOK, [Next]_vars PROVE StatusStep
    OBVIOUS
  <1>0. \A i \in Created : jobs[i] \in JobRow
    BY DEF TypeOK, TablesOK
  <1>a. ASSUME UNCHANGED jobs PROVE StatusStep
    <2>1. Closes({})
      BY <1>a DEF Closes, SameStatus, Created
    <2> QED BY <2>1 DEF StatusStep
  <1>b. ASSUME NEW i \in Created
        PROVE  /\ ClaimGenerationJob(jobs[i]).status = "running"
               /\ FailGenerationJob(jobs[i]).status \in Terminal
               /\ ResetRunningGenerationJobToQueued(jobs[i]).status = "queued"
               /\ CancelQueuedGenerationJob(jobs[i]).status \in Terminal
               /\ \A n : CompleteGenerationJob(jobs[i], n).status \in Terminal
               /\ [jobs[i] EXCEPT !.overdue = TRUE].status = jobs[i].status
    BY <1>0 DEF JobRow, Terminal, ClaimGenerationJob, FailGenerationJob, CompleteGenerationJob,
                CancelQueuedGenerationJob, ResetRunningGenerationJobToQueued
  <1>1. CASE UNCHANGED vars
    BY <1>1, <1>a DEF vars
  <1>2. ASSUME NEW i \in Jobs, Request(i) PROVE StatusStep
    <2>1. CASE Create(i) \/ \E old \in Created : OpsRetry(old, i)
      <3>1. Accepts(i)
        BY <2>1 DEF Create, OpsRetry, InsertJob, CreateGenerationJob, QueuedRow, Created,
                    Accepts, SameStatus
      <3> QED BY <3>1 DEF StatusStep
    <2>2. CASE Dispatch(i) \/ ApiCrash(i)
      BY <2>2, <1>a DEF Dispatch, ApiCrash
    <2>3. CASE RefuseDispatch(i) \/ Cancel(i) \/ OpsMarkFailed(i) \/ BecomeOverdue(i)
      <3>1. i \in Created
        BY <2>3 DEF RefuseDispatch, Cancel, OpsMarkFailed, BecomeOverdue, TypeOK, TablesOK
      <3> QED BY <1>a, <1>b, <2>3, <3>1, RowUpdateStep
              DEF RefuseDispatch, Cancel, OpsMarkFailed, BecomeOverdue
    <2> QED BY <1>2, <2>1, <2>2, <2>3 DEF Request
  <1>3. CASE \/ \E m \in DOMAIN deadQ : RequeueDLQMessage(m)
             \/ \E t \in Trips : UpdateItinerary(t)
             \/ DelayEnds
    BY <1>3, <1>a DEF RequeueDLQMessage, UpdateItinerary, DelayEnds
  <1>4. ASSUME NEW w \in Workers, Receive(w) PROVE StatusStep
    BY <1>4, <1>a, <1>b, RowUpdateStep DEF Receive, Deliver, ClaimNextGenerationJob, Claimable
  <1>5. ASSUME NEW w \in Workers, Handle(w) PROVE StatusStep
    <2>1. JobOf(w) \in Created
      BY <1>5, HandleIsBusy, BusyFacts
    <2>2. CASE UNCHANGED jobs
      BY <2>2, <1>a
    <2>3. CASE ClaimJob(w) \/ ResetForRetry(w)
      BY <1>a, <1>b, <2>1, <2>3, RowUpdateStep
         DEF ClaimJob, ResetForRetry, Claimable, Resettable, RowOf
    <2>4. CASE \/ SetRow(JobOf(w), CompleteGenerationJob(RowOf(w), workers[w].result))
               \/ SetRow(JobOf(w), FailGenerationJob(RowOf(w)))
      BY <1>b, <2>1, <2>4, RowUpdateStep DEF RowOf
    <2>5. ClaimJob(w) \/ ResetForRetry(w) \/ CompleteJob(w) \/ FailClaimedJob(w) \/ UNCHANGED jobs
      BY <1>5 DEF Handle, LookupJob, ReadTrip, StartProcessing, Generate, SaveItinerary,
                  CreateProposal, MarkFailed, CutShort, RepublishRetry, RetryOrRequeue, Ack, Reject
    <2> QED BY <2>2, <2>3, <2>4, <2>5 DEF CompleteJob, FailClaimedJob
  <1>6. ASSUME NEW w \in Workers, Crash(w) \/ LoseLink(w) PROVE StatusStep
    BY <1>6, <1>a DEF Crash, LoseLink
  <1>7. ASSUME NEW w \in Workers, StartWorker(w) PROVE StatusStep
    <2> DEFINE S == {i \in Created : Stale(jobs[i])}
    <2>1. Closes(S)
      BY <1>7, <1>b DEF StartWorker, MarkStaleRunningGenerationJobsFailed, Created, Closes, SameStatus
    <2>2. S \in SUBSET Created
      OBVIOUS
    <2> HIDE DEF S
    <2> QED BY <2>1, <2>2 DEF StatusStep
  <1> QED BY <1>1, <1>2, <1>3, <1>4, <1>5, <1>6, <1>7 DEF Next

(* A row in a final state never leaves the final states, whatever messages *)
(* and repairs of it are still about.                                      *)
THEOREM FinalStatesStayFinal == Spec => NeverReopened
  <1>1. TypeOK /\ [Next]_vars
        => [\A j \in Created : jobs[j].status \in Terminal => jobs'[j].status \in Terminal]_vars
    <2> SUFFICES ASSUME TypeOK, [Next]_vars, NEW j \in Created, jobs[j].status \in Terminal
                 PROVE  jobs'[j].status \in Terminal
      OBVIOUS
    <2>1. StatusStep
      BY NextStatusStep
    <2> QED BY <2>1 DEF StatusStep, Accepts, Moves, Closes, SameStatus, Terminal
  <1> QED BY <1>1, TypeCorrect, PTL DEF Spec, NeverReopened
-----------------------------------------------------------------------------
(* The refinement.                                                         *)

stageBar == [j \in Jobs |-> StageOf(j)]
appliedBar == {j \in Created : Applied(j)}

(* The initial tables are an initial contract.                             *)
LEMMA ContractInitially == Init => Contract!ContractInit
  BY DEF Init, Created, StageOf, Contract!ContractInit

(* Without a save, the applied jobs stay the same: a new row cannot be the *)
(* writer of a version that is already there.                              *)
LEMMA AppliedWithoutSave ==
    ASSUME IInv, RowsKeepRequest, IInv', \A t \in Trips : SameHistory(t), StatusStep
    PROVE  UNCHANGED appliedBar
  <1>1. ASSUME NEW j \in Created PROVE Applied(j)' <=> Applied(j)
    <2>1. jobs[j].trip \in Trips /\ jobs'[j].trip = jobs[j].trip
      BY DEF RowsKeepRequest, IInv, TypeOK, TablesOK, JobRow
    <2> QED BY <2>1 DEF Applied, SameHistory
  <1>2. ASSUME NEW j \in Created', j \notin Created PROVE ~Applied(j)'
    <2>1. j \in Jobs /\ j # Manual /\ jobs'[j].trip \in Trips
      BY <1>2, ConstantsAssumption DEF IInv, TypeOK, TablesOK, JobRow
    <2>2. \A k \in 1..Len(trips[jobs'[j].trip].versions) :
             trips[jobs'[j].trip].versions[k].writer # j
      BY <1>2, <2>1 DEF IInv, ExecutionsMatchHistory, VersionsFromJobs
    <2>3. trips'[jobs'[j].trip].versions = trips[jobs'[j].trip].versions
      BY <2>1 DEF SameHistory
    <2> QED BY <2>2, <2>3 DEF Applied
  <1>3. Created \subseteq Created'
    BY DEF RowsKeepRequest
  <1> QED BY <1>1, <1>2, <1>3 DEF appliedBar

(* A save by a job is its first effect, and the job is not waiting.        *)
LEMMA SaveIsApply ==
    ASSUME IInv, NEW t \in Trips, SaveStep(t)
    PROVE  \/ UNCHANGED appliedBar
           \/ \E j \in Created : /\ j \notin appliedBar
                                 /\ jobs[j].status # "queued"
                                 /\ appliedBar' = appliedBar \cup {j}
  <1> USE DEF IInv, ExecutionsMatchHistory
  <1>1. PICK writer \in Jobs \cup {Manual} :
           /\ trips'[t] = UpdateItineraryAndCreateVersion(trips[t], writer, trips[t].revision)
           /\ writer # Manual => /\ writer \in Created
                                 /\ jobs[writer].trip = t
                                 /\ jobs[writer].expected = trips[t].revision
                                 /\ jobs[writer].status # "queued"
    BY DEF SaveStep, NextVersion
  <1> DEFINE old == trips[t].versions
             version == [writer |-> writer, base |-> trips[t].revision]
  <1>2. trips'[t].versions = Append(old, version) /\ version.writer = writer
    BY <1>1 DEF UpdateItineraryAndCreateVersion
  <1>3. old \in Seq([writer : Jobs \cup {Manual}, base : Nat]) /\ trips[t].revision = Len(old)
    BY DEF TypeOK, TablesOK, TripRows, NoLostUpdate
  <1>4. Created' = Created /\ UNCHANGED jobs
    BY DEF SaveStep, Created
  <1>5. ASSUME NEW j \in Created, jobs[j].trip # t PROVE Applied(j)' <=> Applied(j)
    <2>1. SameHistory(jobs[j].trip)
      BY <1>5 DEF SaveStep, TypeOK, TablesOK, JobRow
    <2> QED BY <1>4, <2>1 DEF Applied, SameHistory
  <1>6. ASSUME NEW j \in Created, jobs[j].trip = t
        PROVE  Applied(j)' <=> Applied(j) \/ j = writer
    <2>1. Applied(j) <=> \E k \in 1..Len(old) : old[k].writer = j
      BY <1>6 DEF Applied
    <2>2. Applied(j)' <=> \E k \in 1..Len(trips'[t].versions) : trips'[t].versions[k].writer = j
      BY <1>4, <1>6 DEF Applied
    <2> HIDE DEF old, version, IInv, ExecutionsMatchHistory
    <2>3. /\ Len(old) \in Nat
          /\ Len(Append(old, version)) = Len(old) + 1
          /\ Append(old, version)[Len(old) + 1] = version
          /\ \A k \in 1..Len(old) : Append(old, version)[k] = old[k]
      BY <1>3
    <2>4. \A k : k \in 1..Len(old) + 1 <=> k \in 1..Len(old) \/ k = Len(old) + 1
      BY <2>3
    <2> QED BY <1>2, <2>1, <2>2, <2>3, <2>4
  <1>7. CASE writer = Manual
    <2>1. \A j \in Created : j # writer
      BY <1>7, ConstantsAssumption DEF TypeOK, TablesOK
    <2> QED BY <1>4, <1>5, <1>6, <2>1 DEF appliedBar
  <1>8. CASE writer # Manual
    <2>1. ~Applied(writer)
      <3> SUFFICES ASSUME NEW k \in 1..Len(old), old[k].writer = writer PROVE FALSE
        BY <1>1, <1>8 DEF Applied
      <3>1. old[k].base = Len(old)
        BY <1>1, <1>3, <1>8 DEF VersionsFromJobs
      <3>2. old[k].base = k - 1
        BY DEF NoLostUpdate
      <3>3. k \in Int /\ Len(old) \in Nat /\ k <= Len(old)
        BY <1>3
      <3> HIDE DEF old, IInv
      <3>4. k - 1 = Len(old)
        BY <3>1, <3>2
      <3> QED BY <3>3, <3>4
    <2>2. writer \in Created /\ jobs[writer].trip = t /\ jobs[writer].status # "queued"
      BY <1>1, <1>8
    <2>3. \A j \in Created : Applied(j)' <=> Applied(j) \/ j = writer
      BY <1>5, <1>6, <2>2
    <2>4. appliedBar' = appliedBar \cup {writer} /\ writer \notin appliedBar
      BY <1>4, <2>1, <2>2, <2>3 DEF appliedBar
    <2> QED BY <2>2, <2>4
  <1> QED BY <1>7, <1>8

(* A step on the status column is a step of the contract.                  *)
LEMMA StatusIsStage ==
    ASSUME TypeOK, TypeOK', StatusStep, UNCHANGED appliedBar
    PROVE  [Contract!ContractNext]_(Contract!contractVars)
  <1> SUFFICES Contract!ContractNext
    OBVIOUS
  <1>0. /\ Created \subseteq Jobs /\ Created' \subseteq Jobs
        /\ \A j \in Created : jobs[j].status \in JobStatuses
        /\ \A j \in Created' : jobs'[j].status \in JobStatuses
    BY DEF TypeOK, TablesOK, JobRow
  <1>1. \A j \in Jobs :
          /\ j \notin Created => StageOf(j) = "absent"
          /\ j \in Created =>
                /\ jobs[j].status = "queued"  => StageOf(j) = "waiting"
                /\ jobs[j].status = "running" => StageOf(j) = "executing"
                /\ jobs[j].status \in Terminal => StageOf(j) = "closed"
                /\ StageOf(j) # "absent"
    BY <1>0 DEF StageOf, JobStatuses, Terminal
  <1>2. \A j \in Jobs :
          /\ j \notin Created' => StageOf(j)' = "absent"
          /\ j \in Created' =>
                /\ jobs'[j].status = "queued"  => StageOf(j)' = "waiting"
                /\ jobs'[j].status = "running" => StageOf(j)' = "executing"
                /\ jobs'[j].status \in Terminal => StageOf(j)' = "closed"
    BY <1>0 DEF StageOf, JobStatuses, Terminal
  <1>3. \A j \in Created : j \in Created' /\ jobs'[j].status = jobs[j].status
                           => StageOf(j)' = StageOf(j)
    BY <1>0, <1>1, <1>2 DEF StageOf, JobStatuses
  <1>4. ASSUME NEW j \in Jobs, Accepts(j) PROVE Contract!Accept(j)
    BY <1>0, <1>1, <1>2, <1>3, <1>4 DEF Accepts, SameStatus, Contract!Accept, appliedBar
  <1>5. ASSUME NEW j \in Jobs, Moves(j, "queued", "running") PROVE Contract!Begin(j)
    BY <1>0, <1>1, <1>2, <1>3, <1>5 DEF Moves, SameStatus, Contract!Begin, appliedBar
  <1>6. ASSUME NEW j \in Jobs, Moves(j, "running", "queued") PROVE Contract!GiveBack(j)
    BY <1>0, <1>1, <1>2, <1>3, <1>6 DEF Moves, SameStatus, Contract!GiveBack, appliedBar
  <1>7. ASSUME NEW S \in SUBSET Created, Closes(S) PROVE Contract!Close(S) /\ S \in SUBSET Jobs
    BY <1>0, <1>1, <1>2, <1>3, <1>7 DEF Closes, SameStatus, Contract!Close, appliedBar
  <1> QED BY <1>4, <1>5, <1>6, <1>7 DEF StatusStep, Contract!ContractNext

(* Every step of the system is a step of the contract or stutters.         *)
LEMMA ContractStep ==
    IInv /\ [Next]_vars => [Contract!ContractNext]_(Contract!contractVars)
  <1> SUFFICES ASSUME IInv, [Next]_vars
               PROVE  [Contract!ContractNext]_(Contract!contractVars)
    OBVIOUS
  <1>1. IInv' /\ RowsKeepRequest /\ HistoryGrows /\ StatusStep
    BY NextIInv, NextKeepsRequest, NextGrowsHistory, NextStatusStep
       DEF IInv, ExecutionsMatchHistory
  <1>2. CASE \A t \in Trips : SameHistory(t)
    BY <1>1, <1>2, AppliedWithoutSave, StatusIsStage DEF IInv
  <1>3. ASSUME NEW t \in Trips, SaveStep(t)
        PROVE  [Contract!ContractNext]_(Contract!contractVars)
    <2>1. CASE UNCHANGED appliedBar
      BY <1>1, <2>1, StatusIsStage DEF IInv
    <2>2. ASSUME NEW j \in Created, j \notin appliedBar, jobs[j].status # "queued",
                 appliedBar' = appliedBar \cup {j}
          PROVE  [Contract!ContractNext]_(Contract!contractVars)
      <3>1. \A i \in Jobs : StageOf(i)' = StageOf(i)
        BY <1>3 DEF SaveStep, StageOf, Created
      <3>2. j \in Jobs /\ StageOf(j) \in {"executing", "closed"}
        BY <2>2 DEF StageOf, IInv, TypeOK, TablesOK
      <3>3. Contract!Apply(j)
        BY <2>2, <3>1, <3>2 DEF Contract!Apply, appliedBar
      <3> QED BY <3>2, <3>3 DEF Contract!ContractNext
    <2> QED BY <1>3, <2>1, <2>2, SaveIsApply
  <1> QED BY <1>1, <1>2, <1>3 DEF HistoryGrows

(* Tables, queues, workers and faults implement the contract of a job:     *)
(* accepted once, given back only while executing, applied at most once    *)
(* and never while it waits, never executed again once closed.             *)
THEOREM JobsImplementContract == Spec => ImplementsContract
  BY ContractInitially, ContractStep, Invariance, PTL
     DEF Spec, ImplementsContract, Contract!ContractSpec

-----------------------------------------------------------------------------
(* A cancelled job has no effect.                                          *)

(* Where an execution has not saved yet.                                   *)
Unsaved == Executing \ {"saved"}

(* A job has no effect while its row waits or once it is cancelled, nor    *)
(* before the save of its execution, whose row nobody cancels.             *)
Unapplied ==
    /\ \A j \in Created : jobs[j].status \in {"queued", "cancelled"} => ~Applied(j)
    /\ \A w \in Workers : workers[w].phase \in Executing => RowOf(w).status # "cancelled"
    /\ \A w \in Workers : workers[w].phase \in Unsaved => ~Applied(JobOf(w))

(* A save adds its writer to the jobs that have an effect, nobody else.    *)
LEMMA SaveAppliesWriter ==
    ASSUME TypeOK, NEW t \in Trips, NEW writer, NEW base,
           SetTrip(t, UpdateItineraryAndCreateVersion(trips[t], writer, base)),
           UNCHANGED jobs, NEW j \in Created, Applied(j)'
    PROVE  Applied(j) \/ j = writer
  <1>1. jobs'[j].trip = jobs[j].trip /\ jobs[j].trip \in Trips
    BY DEF TypeOK, TablesOK, JobRow
  <1>2. CASE jobs[j].trip # t
    <2>1. trips'[jobs[j].trip] = trips[jobs[j].trip]
      BY <1>1, <1>2 DEF SetTrip, TypeOK, TablesOK
    <2> QED BY <1>1, <2>1 DEF Applied
  <1>3. CASE jobs[j].trip = t
    <2> DEFINE old == trips[t].versions
               version == [writer |-> writer, base |-> base]
    <2>1. trips'[t].versions = Append(old, version) /\ version.writer = writer
      BY DEF SetTrip, UpdateItineraryAndCreateVersion, TypeOK, TablesOK
    <2>2. old \in Seq([writer : Jobs \cup {Manual}, base : Nat])
      BY DEF TypeOK, TablesOK, TripRows
    <2>3. PICK k \in 1..Len(trips'[t].versions) : trips'[t].versions[k].writer = j
      BY <1>1, <1>3 DEF Applied
    <2> HIDE DEF old, version
    <2>4. CASE k \in 1..Len(old)
      <3>1. Append(old, version)[k] = old[k]
        BY <2>2, <2>4
      <3> QED BY <1>3, <2>1, <2>3, <2>4, <3>1 DEF Applied, old
    <2>5. CASE k \notin 1..Len(old)
      <3>1. Append(old, version)[k] = version
        BY <2>1, <2>2, <2>3, <2>5
      <3> QED BY <2>1, <2>3, <3>1
    <2> QED BY <2>4, <2>5
  <1> QED BY <1>2, <1>3

(* When no commit is reported as a failure, a job gets its effect by the   *)
(* save of an execution that goes on knowing that it saved.                *)
LEMMA NextApplies ==
    ASSUME IInv, [Next]_vars, "commit" \notin FaultKinds, NEW j \in Created', Applied(j)'
    PROVE  /\ j \in Created
           /\ \/ Applied(j)
              \/ \E w \in Workers : /\ SaveItinerary(w) /\ JobOf(w) = j
                                    /\ workers'[w].phase = "saved"
  <1> DEFINE Goal == /\ j \in Created
                     /\ \/ Applied(j)
                        \/ \E w \in Workers : /\ SaveItinerary(w) /\ JobOf(w) = j
                                              /\ workers'[w].phase = "saved"
  <1> SUFFICES Goal
    OBVIOUS
  <1>0. TypeOK /\ IInv' /\ RowsKeepRequest /\ StatusStep
    BY NextIInv, NextKeepsRequest, NextStatusStep DEF IInv
  <1>a. ASSUME \A t \in Trips : SameHistory(t) PROVE Goal
    <2>1. appliedBar' = appliedBar
      BY <1>0, <1>a, AppliedWithoutSave
    <2>2. j \in appliedBar'
      BY DEF appliedBar
    <2>3. j \in appliedBar
      BY <2>1, <2>2
    <2> QED BY <2>3 DEF appliedBar
  <1>b. ASSUME UNCHANGED trips PROVE Goal
    BY <1>a, <1>b DEF SameHistory
  <1>c. ASSUME NEW t \in Trips, NEW status, SetTrip(t, UpdateStatusByUserID(trips[t], status))
        PROVE  Goal
    <2>1. \A u \in Trips : SameHistory(u)
      BY <1>0, <1>c DEF SetTrip, UpdateStatusByUserID, SameHistory, TypeOK, TablesOK, TripRows
    <2> QED BY <1>a, <2>1
  <1>1. CASE UNCHANGED vars
    BY <1>1, <1>b DEF vars
  <1>2. ASSUME NEW i \in Jobs, Request(i) PROVE Goal
    BY <1>2, <1>b DEF Request, Create, OpsRetry, InsertJob, Dispatch, RefuseDispatch, ApiCrash,
                      Cancel, OpsMarkFailed, BecomeOverdue
  <1>3. ASSUME NEW t \in Trips, UpdateItinerary(t) PROVE Goal
    <2>1. /\ UNCHANGED jobs
          /\ SetTrip(t, UpdateItineraryAndCreateVersion(trips[t], Manual, trips[t].revision))
      BY <1>3 DEF UpdateItinerary
    <2>2. j \in Created /\ j # Manual
      BY <1>0, <2>1, ConstantsAssumption DEF Created, TypeOK, TablesOK
    <2>3. Applied(j)
      BY <1>0, <2>1, <2>2, SaveAppliesWriter
    <2> QED BY <2>2, <2>3
  <1>4. CASE \/ \E m \in DOMAIN deadQ : RequeueDLQMessage(m)
             \/ DelayEnds
             \/ \E w \in Workers : Receive(w) \/ Crash(w) \/ LoseLink(w) \/ StartWorker(w)
    BY <1>4, <1>b DEF RequeueDLQMessage, DelayEnds, Receive, Deliver, ClaimNextGenerationJob,
                      Crash, LoseLink, StartWorker
  <1>5. ASSUME NEW w \in Workers, Handle(w) PROVE Goal
    <2>1. TripOf(w) \in Trips
      BY <1>0, <1>5, HandleIsBusy, BusyFacts
    <2>2. CASE SaveItinerary(w) /\ ~UNCHANGED trips
      <3>1. /\ SetTrip(TripOf(w), Saved(w))
            /\ UNCHANGED jobs
            /\ workers' = [workers EXCEPT ![w].phase = "saved",
                                          ![w].result = trips[TripOf(w)].revision + 1]
        BY <2>2 DEF SaveItinerary, Fault
      <3>2. j \in Created
        BY <3>1 DEF Created
      <3>3. Applied(j) \/ j = JobOf(w)
        BY <1>0, <2>1, <3>1, <3>2, SaveAppliesWriter DEF Saved
      <3>4. workers'[w].phase = "saved"
        BY <1>0, <3>1 DEF TypeOK, WorkersOK, WorkerStates
      <3> QED BY <2>2, <3>2, <3>3, <3>4
    <2>3. CASE StartProcessing(w) \/ MarkFailed(w)
      BY <1>b, <1>c, <2>1, <2>3 DEF StartProcessing, MarkFailed
    <2> HIDE DEF Goal
    <2> QED BY <1>5, <1>b, <2>2, <2>3, HandleTripSteps
  <1> HIDE DEF Goal
  <1> QED BY <1>1, <1>2, <1>3, <1>4, <1>5 DEF Next

(* A row becomes queued when it is inserted or by the execution that gives *)
(* it back, and cancelled only from queued.                                *)
LEMMA NextOpens ==
    ASSUME TypeOK, [Next]_vars, NEW j \in Created, jobs'[j].status \in {"queued", "cancelled"}
    PROVE  \/ jobs[j].status = "queued"
           \/ jobs[j].status = jobs'[j].status
           \/ /\ jobs'[j].status = "queued"
              /\ \E w \in Workers : ResetForRetry(w) /\ JobOf(w) = j
  <1> DEFINE Goal == \/ jobs[j].status = "queued"
                     \/ jobs[j].status = jobs'[j].status
                     \/ /\ jobs'[j].status = "queued"
                        /\ \E w \in Workers : ResetForRetry(w) /\ JobOf(w) = j
  <1> SUFFICES Goal
    OBVIOUS
  <1>0. \A i \in Created : jobs[i] \in JobRow
    BY DEF TypeOK, TablesOK
  <1>a. ASSUME UNCHANGED jobs PROVE Goal
    BY <1>a
  <1>b. ASSUME NEW i \in Created, NEW row, SetRow(i, row),
               row.status \notin {"queued", "cancelled"} \/ row.status = jobs[i].status
        PROVE  Goal
    BY <1>b DEF SetRow, Created, TypeOK, TablesOK
  <1>c. ASSUME NEW i \in Created
        PROVE  /\ ClaimGenerationJob(jobs[i]).status = "running"
               /\ FailGenerationJob(jobs[i]).status = "failed"
               /\ [jobs[i] EXCEPT !.overdue = TRUE].status = jobs[i].status
               /\ \A n : CompleteGenerationJob(jobs[i], n).status = "completed"
               /\ ResetRunningGenerationJobToQueued(jobs[i]).status = "queued"
    BY <1>0 DEF JobRow, ClaimGenerationJob, FailGenerationJob, CompleteGenerationJob,
                ResetRunningGenerationJobToQueued
  <1>1. CASE UNCHANGED vars
    BY <1>1, <1>a DEF vars
  <1>2. ASSUME NEW i \in Jobs, Request(i) PROVE Goal
    <2>1. CASE Create(i) \/ \E old \in Created : OpsRetry(old, i)
      BY <2>1 DEF Create, OpsRetry, InsertJob, CreateGenerationJob, Created
    <2>2. CASE Dispatch(i) \/ ApiCrash(i)
      BY <2>2, <1>a DEF Dispatch, ApiCrash
    <2>3. CASE RefuseDispatch(i) \/ OpsMarkFailed(i) \/ BecomeOverdue(i)
      <3>1. i \in Created
        BY <2>3 DEF RefuseDispatch, OpsMarkFailed, BecomeOverdue, TypeOK, TablesOK
      <3> QED BY <1>a, <1>b, <1>c, <2>3, <3>1 DEF RefuseDispatch, OpsMarkFailed, BecomeOverdue
    <2>4. CASE Cancel(i)
      BY <2>4 DEF Cancel, Cancellable, SetRow, Created, TypeOK, TablesOK
    <2> HIDE DEF Goal
    <2> QED BY <1>2, <2>1, <2>2, <2>3, <2>4 DEF Request
  <1>3. CASE \/ \E m \in DOMAIN deadQ : RequeueDLQMessage(m)
             \/ \E t \in Trips : UpdateItinerary(t)
             \/ DelayEnds
    BY <1>3, <1>a DEF RequeueDLQMessage, UpdateItinerary, DelayEnds
  <1>4. ASSUME NEW w \in Workers, Receive(w) PROVE Goal
    BY <1>4, <1>a, <1>b, <1>c DEF Receive, Deliver, ClaimNextGenerationJob
  <1>5. ASSUME NEW w \in Workers, Handle(w) PROVE Goal
    <2>1. JobOf(w) \in Created
      BY <1>5, HandleIsBusy, BusyFacts
    <2>2. CASE \/ SetRow(JobOf(w), ClaimGenerationJob(RowOf(w)))
               \/ SetRow(JobOf(w), FailGenerationJob(RowOf(w)))
               \/ SetRow(JobOf(w), CompleteGenerationJob(RowOf(w), workers[w].result))
      BY <1>b, <1>c, <2>1, <2>2 DEF RowOf
    <2>3. CASE ResetForRetry(w)
      <3>1. CASE UNCHANGED jobs
        BY <3>1, <1>a
      <3>2. CASE SetRow(JobOf(w), ResetRunningGenerationJobToQueued(RowOf(w)))
        <4>1. j # JobOf(w) => jobs'[j] = jobs[j]
          BY <3>2 DEF SetRow, TypeOK, TablesOK, Created
        <4>2. j = JobOf(w) => jobs'[j].status = "queued"
          BY <1>c, <2>1, <3>2 DEF SetRow, TypeOK, TablesOK, Created, RowOf
        <4> QED BY <2>3, <4>1, <4>2
      <3> QED BY <2>3, <3>1, <3>2 DEF ResetForRetry
    <2> HIDE DEF Goal
    <2>4. CASE UNCHANGED jobs
      BY <2>4, <1>a
    <2>5. \/ UNCHANGED jobs
          \/ SetRow(JobOf(w), ClaimGenerationJob(RowOf(w)))
          \/ SetRow(JobOf(w), CompleteGenerationJob(RowOf(w), workers[w].result))
          \/ SetRow(JobOf(w), FailGenerationJob(RowOf(w)))
          \/ ResetForRetry(w)
      BY <1>5 DEF Handle, ClaimJob, LookupJob, ReadTrip, StartProcessing, Generate,
         SaveItinerary, CreateProposal, MarkFailed, CutShort, CompleteJob,
         RepublishRetry, FailClaimedJob, RetryOrRequeue, Ack, Reject
    <2> QED BY <2>2, <2>3, <2>4, <2>5
  <1>6. ASSUME NEW w \in Workers, Crash(w) \/ LoseLink(w) PROVE Goal
    BY <1>6, <1>a DEF Crash, LoseLink
  <1>7. ASSUME NEW w \in Workers, StartWorker(w) PROVE Goal
    BY <1>7, <1>c DEF StartWorker, MarkStaleRunningGenerationJobsFailed, Created
  <1> HIDE DEF Goal
  <1> QED BY <1>1, <1>2, <1>3, <1>4, <1>5, <1>6, <1>7 DEF Next

(* An execution goes on, past its save for good, or begins by claiming a   *)
(* queued row.                                                             *)
GoesOn(w) ==
    /\ workers[w].phase \in Executing
    /\ workers'[w].job = JobOf(w)
    /\ workers[w].phase = "saved" => workers'[w].phase = "saved"
Begins(w) ==
    /\ workers'[w].job \in Created
    /\ jobs[workers'[w].job].status = "queued"
    /\ jobs'[workers'[w].job].status = "running"

(* A handler goes on with its execution, or begins one by a claim.         *)
LEMMA HandleExecutes ==
    ASSUME TypeOK, NEW w \in Workers, Handle(w), workers'[w].phase \in Executing
    PROVE  GoesOn(w) \/ Begins(w)
  <1>0. workers \in [Workers -> WorkerStates]
    BY DEF TypeOK, WorkersOK
  <1>1. CASE ClaimJob(w)
    <2>1. /\ jobs[JobOf(w)].status = "queued"
          /\ SetRow(JobOf(w), ClaimGenerationJob(jobs[JobOf(w)]))
          /\ workers'[w].job = JobOf(w)
      BY <1>0, <1>1 DEF ClaimJob, Goto, Executing, Claimable, RowOf, WorkerStates, JobOf
    <2>2. JobOf(w) \in Created /\ jobs[JobOf(w)] \in JobRow
      BY HandleIsBusy, BusyFacts DEF RowOf
    <2>3. ClaimGenerationJob(jobs[JobOf(w)]).status = "running"
      BY <2>2 DEF ClaimGenerationJob, JobRow
    <2>4. jobs'[JobOf(w)].status = "running"
      BY <2>1, <2>2, <2>3 DEF SetRow, Created
    <2> QED BY <2>1, <2>2, <2>4 DEF Begins
  <1>2. CASE LookupJob(w) \/ Ack(w) \/ Reject(w) \/ CompleteJob(w)
    BY <1>0, <1>2, SettledIsFree
       DEF LookupJob, Ack, Reject, CompleteJob, NackDeadLetter, Goto, Executing, WorkerStates
  <1>3. CASE ReadTrip(w) \/ SaveItinerary(w) \/ CreateProposal(w)
    BY <1>0, <1>3 DEF ReadTrip, SaveItinerary, CreateProposal, FailExecution, At, GoesOn, Executing,
                      WorkerStates, JobOf
  <1>4. CASE StartProcessing(w) \/ Generate(w) \/ MarkFailed(w)
    BY <1>0, <1>4 DEF StartProcessing, Generate, MarkFailed, Goto, FailExecution, At, GoesOn,
                      Executing, WorkerStates, JobOf
  <1>5. CASE CutShort(w)
    BY <1>0, <1>5 DEF CutShort, Timed, FailExecution, GoesOn, Executing, WorkerStates, JobOf
  <1>6. CASE ResetForRetry(w) \/ FailClaimedJob(w)
    BY <1>0, <1>6, SettledIsFree
       DEF ResetForRetry, FailClaimedJob, NackRequeue, Goto, Executing, WorkerStates
  <1>7. CASE RepublishRetry(w) \/ RetryOrRequeue(w)
    BY <1>0, <1>7, SettledIsFree
       DEF RepublishRetry, RetryOrRequeue, RetryThenAck, NackDeadLetter, Goto, Executing,
           WorkerStates
  <1> QED BY <1>1, <1>2, <1>3, <1>4, <1>5, <1>6, <1>7 DEF Handle

(* The same, for every step of the system.                                 *)
LEMMA NextExecutes ==
    ASSUME TypeOK, [Next]_vars, NEW w \in Workers, workers'[w].phase \in Executing
    PROVE  GoesOn(w) \/ Begins(w)
  <1>0. workers \in [Workers -> WorkerStates]
    BY DEF TypeOK, WorkersOK
  <1>a. ASSUME workers'[w] = workers[w] PROVE GoesOn(w)
    BY <1>a DEF GoesOn, JobOf
  <1>b. /\ \A j, a : Handling("delivered", j, a).phase \notin Executing
        /\ Down.phase \notin Executing /\ Idle.phase \notin Executing
    BY DEF Handling, Down, Idle, Executing
  <1>1. CASE UNCHANGED vars
    BY <1>1, <1>a DEF vars
  <1>2. ASSUME NEW i \in Jobs, Request(i) PROVE GoesOn(w)
    BY <1>2, <1>a DEF Request, Create, OpsRetry, InsertJob, Dispatch, RefuseDispatch, ApiCrash,
                      Cancel, OpsMarkFailed, BecomeOverdue
  <1>3. CASE \/ \E m \in DOMAIN deadQ : RequeueDLQMessage(m)
             \/ \E t \in Trips : UpdateItinerary(t)
             \/ DelayEnds
    BY <1>3, <1>a DEF RequeueDLQMessage, UpdateItinerary, DelayEnds
  <1>4. ASSUME NEW v \in Workers, v # w,
               Receive(v) \/ Handle(v) \/ Crash(v) \/ LoseLink(v) \/ StartWorker(v)
        PROVE  GoesOn(w)
    <2>1. CASE Handle(v)
      BY <1>4, <1>a, <2>1, HandleMovesOne
    <2>2. CASE Receive(v) \/ Crash(v) \/ LoseLink(v) \/ StartWorker(v)
      BY <1>0, <1>4, <1>a, <2>2 DEF Receive, Deliver, ClaimNextGenerationJob, Crash, LoseLink,
                                    StartWorker
    <2> QED BY <1>4, <2>1, <2>2
  <1>5. CASE Handle(w)
    BY <1>5, HandleExecutes
  <1>6. CASE Receive(w)
    <2>1. CASE \E m \in DOMAIN mainQ : Deliver(w, m)
      BY <1>0, <1>b, <2>1 DEF Deliver
    <2>2. ASSUME NEW j \in Created, ClaimNextGenerationJob(w, j) PROVE Begins(w)
      <3>1. ClaimGenerationJob(jobs[j]).status = "running"
        BY DEF ClaimGenerationJob, TypeOK, TablesOK, JobRow
      <3>2. jobs'[j].status = "running"
        BY <2>2, <3>1 DEF ClaimNextGenerationJob, SetRow, Created
      <3>3. workers'[w].job = j
        BY <1>0, <2>2 DEF ClaimNextGenerationJob, Handling
      <3> QED BY <2>2, <3>2, <3>3 DEF ClaimNextGenerationJob, Claimable, Begins
    <2> QED BY <1>6, <2>1, <2>2 DEF Receive
  <1>7. CASE Crash(w) \/ StartWorker(w)
    BY <1>0, <1>b, <1>7 DEF Crash, StartWorker
  <1>8. CASE LoseLink(w)
    BY <1>0, <1>8 DEF LoseLink, GoesOn, JobOf, WorkerStates
  <1> QED BY <1>1, <1>2, <1>3, <1>4, <1>5, <1>6, <1>7, <1>8 DEF Next

(* Every step keeps it, when no commit is reported as a failure.           *)
LEMMA UnappliedNext ==
    ASSUME IInv, Unapplied, [Next]_vars, "commit" \notin FaultKinds
    PROVE  Unapplied'
  <1>0. /\ TypeOK /\ ExclusiveExecution /\ IInv' /\ RowsKeepRequest
        /\ TypeOK' /\ ExclusiveExecution'
    BY NextIInv, NextKeepsRequest DEF IInv
  <1>1. \A w \in Workers : workers[w].phase \in Executing
           => JobOf(w) \in Created /\ RowOf(w).status \notin {"queued", "cancelled"}
    BY <1>0, HolderFacts DEF Holds, ExclusiveExecution, Unapplied, RowOf, JobOf
  <1>2. ASSUME NEW w \in Workers, workers'[w].phase \in Executing
        PROVE  /\ jobs'[workers'[w].job].status # "cancelled"
               /\ GoesOn(w) \/ Begins(w)
    <2>1. GoesOn(w) \/ Begins(w)
      BY <1>0, <1>2, NextExecutes
    <2>2. CASE GoesOn(w)
      <3>1. JobOf(w) \in Created /\ jobs[JobOf(w)].status \notin {"queued", "cancelled"}
        BY <1>1, <2>2 DEF GoesOn, RowOf
      <3> QED BY <1>0, <2>1, <2>2, <3>1, NextOpens DEF GoesOn
    <2> QED BY <2>1, <2>2 DEF Begins
  <1>3. ASSUME NEW j \in Created', Applied(j)', jobs'[j].status \in {"queued", "cancelled"}
        PROVE  FALSE
    <2>1. /\ j \in Created
          /\ \/ Applied(j)
             \/ \E w \in Workers : SaveItinerary(w) /\ JobOf(w) = j
      BY <1>3, NextApplies
    <2>2. CASE Applied(j)
      <3>1. jobs[j].status \notin {"queued", "cancelled"}
        BY <2>1, <2>2 DEF Unapplied
      <3>2. PICK w \in Workers : ResetForRetry(w) /\ JobOf(w) = j
        BY <1>0, <1>3, <2>1, <3>1, NextOpens
      <3>3. workers[w].phase \in Unsaved
        BY <3>2 DEF ResetForRetry, At, Unsaved, Executing
      <3> QED BY <2>2, <3>2, <3>3 DEF Unapplied
    <2>3. ASSUME NEW w \in Workers, SaveItinerary(w), JobOf(w) = j
          PROVE  FALSE
      <3>1. UNCHANGED jobs /\ workers[w].phase \in Executing
        BY <2>3 DEF SaveItinerary, At, Executing
      <3> QED BY <1>1, <1>3, <2>3, <3>1 DEF RowOf
    <2> QED BY <2>1, <2>2, <2>3
  <1>4. ASSUME NEW w \in Workers, NEW j, workers'[w].job = j,
               workers'[w].phase \in Unsaved, Applied(j)'
        PROVE  FALSE
    <2>0. workers'[w].phase \in Executing /\ workers'[w].phase # "saved"
      BY <1>4 DEF Unsaved
    <2>1. GoesOn(w) \/ Begins(w)
      BY <1>2, <2>0
    <2>2. j \in Created'
      BY <1>0, <1>4, <2>0 DEF TypeOK, WorkersOK, Busy, JobOf, Executing
    <2>3. /\ j \in Created
          /\ \/ Applied(j)
             \/ \E v \in Workers : /\ SaveItinerary(v) /\ JobOf(v) = j
                                   /\ workers'[v].phase = "saved"
      BY <1>4, <2>2, NextApplies
    <2>4. CASE GoesOn(w)
      <3>1. ~Applied(j)
        BY <1>4, <2>0, <2>4 DEF GoesOn, Unapplied, Unsaved
      <3>2. PICK v \in Workers : /\ SaveItinerary(v) /\ JobOf(v) = j
                                 /\ workers'[v].phase = "saved"
        BY <2>3, <3>1
      <3>3. Holds(v, j) /\ Holds(w, j)
        BY <1>4, <2>4, <3>2 DEF SaveItinerary, At, Holds, GoesOn, JobOf, Executing
      <3>4. v = w
        BY <1>0, <2>3, <3>3 DEF ExclusiveExecution
      <3> QED BY <2>0, <3>2, <3>4
    <2>5. CASE Begins(w)
      <3>1. ~Applied(j)
        BY <1>4, <2>5 DEF Begins, Unapplied
      <3>2. PICK v \in Workers : SaveItinerary(v)
        BY <2>3, <3>1
      <3>3. UNCHANGED jobs
        BY <3>2 DEF SaveItinerary
      <3> QED BY <1>4, <2>5, <3>3 DEF Begins
    <2> QED BY <2>1, <2>4, <2>5
  <1>5. \A w \in Workers : workers'[w].phase \in Executing
           => jobs'[workers'[w].job].status # "cancelled"
    BY <1>2
  <1>6. \A w \in Workers : workers'[w].phase \in Unsaved => ~Applied(JobOf(w))'
    BY <1>4 DEF JobOf
  <1> QED BY <1>3, <1>5, <1>6 DEF Unapplied, RowOf, JobOf

(* A job that its user cancelled never had, and never gets, an effect on   *)
(* the itinerary, however its messages are redelivered and its workers     *)
(* stop, as long as no commit is reported as a failure: after one, the     *)
(* retry queues again a job that has saved.                                *)
THEOREM CancellingIsTrue ==
    ASSUME "commit" \notin FaultKinds
    PROVE  Spec => []CancelledHasNoEffect
  <1>1. Init => Unapplied
    BY DEF Init, Created, Idle, Handling, Executing, Unsaved, Unapplied
  <1>2. IInv /\ Unapplied /\ [Next]_vars => Unapplied'
    BY UnappliedNext
  <1>3. Unapplied => CancelledHasNoEffect
    BY DEF Unapplied, CancelledHasNoEffect
  <1> QED BY <1>1, <1>2, <1>3, Invariance, PTL DEF Spec

-----------------------------------------------------------------------------
(* A queued row has a carrier.                                             *)

(* The queue deployment that fails closed, with faults that spare the      *)
(* requests of the API process, the statements and the channels: workers   *)
(* stop, publishes and commits are misreported.                            *)
Carried == QueueMode /\ ~PublishFailOpen /\ FaultKinds \cap {"api", "db", "link"} = {}

(* Who can still bring a queued row to a worker: a worker that is about to *)
(* claim it or to publish it again, and not one that merely names it.      *)
Fetching == {"delivered", "republishing"}
Enqueued(j) == \E m \in DOMAIN mainQ \cup DOMAIN retryQ : m.job = j
Fetched(j) == \E w \in Workers : JobOf(w) = j /\ workers[w].phase \in Fetching
Carrier(j) == j \in publishing \cup refusing \/ Enqueued(j) \/ Fetched(j)

AllHeld == \A w \in Workers : workers[w].held
CarrierInv == AllHeld /\ \A j \in Created : jobs[j].status = "queued" => Carrier(j)

-----------------------------------------------------------------------------
(* A message that is published or put back is in its queue, the others     *)
(* stay in theirs.                                                         *)
LEMMA AddEnqueues ==
    ASSUME NEW q, NEW m
    PROVE  DOMAIN BagAdd(q, m) = DOMAIN q \cup {m}
  BY DEF BagAdd

(* A queue that a step leaves or adds to keeps its messages.               *)
LEMMA AddKeeps ==
    ASSUME NEW q, NEW r, NEW m, r = q \/ r = BagAdd(q, m)
    PROVE  DOMAIN q \subseteq DOMAIN r
  <1>1. CASE r = q
    BY <1>1
  <1>2. CASE r = BagAdd(q, m)
    BY <1>2, AddEnqueues
  <1> QED BY <1>1, <1>2

(* One copy taken off a queue leaves the other messages.                   *)
LEMMA RemoveLeaves ==
    ASSUME NEW q, NEW m
    PROVE  DOMAIN q \ {m} \subseteq DOMAIN BagRemove(q, m)
  BY DEF BagRemove

(* Requests, queues and fetching workers that only gain members carry what *)
(* they carried.                                                           *)
LEMMA CarrierGrows ==
    ASSUME NEW j, Carrier(j), publishing \cup refusing \subseteq publishing' \cup refusing',
           DOMAIN mainQ \cup DOMAIN retryQ \subseteq DOMAIN mainQ' \cup DOMAIN retryQ',
           Fetched(j) => Fetched(j)'
    PROVE  Carrier(j)'
  BY DEF Carrier, Enqueued

(* The only carrier that a step of its worker takes away is the worker.    *)
LEMMA OthersFetch ==
    ASSUME NEW j, NEW w, Fetched(j), \A v \in Workers : v # w => workers'[v] = workers[v]
    PROVE  Fetched(j)' \/ (JobOf(w) = j /\ workers[w].phase \in Fetching)
  <1>1. PICK v \in Workers : JobOf(v) = j /\ workers[v].phase \in Fetching
    BY DEF Fetched
  <1>2. CASE v # w
    <2>1. workers'[v] = workers[v]
      BY <1>2
    <2>2. workers'[v].job = j /\ workers'[v].phase \in Fetching
      BY <1>1, <2>1 DEF JobOf
    <2> QED BY <2>2 DEF Fetched, JobOf, Fetching
  <1> QED BY <1>1, <1>2

(* A message of a job in a queue carries the job.                          *)
LEMMA MessageCarries ==
    ASSUME NEW j, NEW a, Msg(j, a) \in DOMAIN mainQ' \cup DOMAIN retryQ'
    PROVE  Carrier(j)'
  <1>1. Msg(j, a).job = j
    BY DEF Msg
  <1> QED BY <1>1 DEF Carrier, Enqueued

-----------------------------------------------------------------------------
(* With the channels up, every worker holds the message it handles.        *)
LEMMA HeldNext ==
    ASSUME TypeOK, AllHeld, Carried, [Next]_vars
    PROVE  AllHeld'
  <1>0. workers \in [Workers -> WorkerStates]
    BY DEF TypeOK, WorkersOK
  <1>a. ASSUME UNCHANGED workers PROVE AllHeld'
    BY <1>a DEF AllHeld
  <1>b. ASSUME NEW w \in Workers, NEW st, st.held, workers' = [workers EXCEPT ![w] = st]
        PROVE  AllHeld'
    BY <1>0, <1>b DEF AllHeld
  <1>c. Idle.held /\ Down.held /\ \A p, j, a : Handling(p, j, a).held
    BY DEF Idle, Down, Handling
  <1>d. ASSUME NEW w \in Workers, NEW p, \/ Goto(w, p)
                                         \/ Settle(w)
                                         \/ \E b \in BOOLEAN : FailExecution(w, p, b)
        PROVE  AllHeld'
    <2>1. CASE Settle(w)
      BY <1>b, <1>c, <2>1 DEF Settle, Settled
    <2>2. CASE Goto(w, p) \/ \E b \in BOOLEAN : FailExecution(w, p, b)
      BY <1>0, <2>2 DEF Goto, FailExecution, AllHeld, WorkerStates
    <2> QED BY <1>d, <2>1, <2>2
  <1>1. CASE UNCHANGED vars
    BY <1>1, <1>a DEF vars
  <1>2. ASSUME NEW i \in Jobs, Request(i) PROVE AllHeld'
    BY <1>2, <1>a DEF Request, Create, OpsRetry, InsertJob, Dispatch, RefuseDispatch, ApiCrash,
                      Cancel, OpsMarkFailed, BecomeOverdue
  <1>3. CASE \/ \E m \in DOMAIN deadQ : RequeueDLQMessage(m)
             \/ \E t \in Trips : UpdateItinerary(t)
             \/ DelayEnds
    BY <1>3, <1>a DEF RequeueDLQMessage, UpdateItinerary, DelayEnds
  <1>4. ASSUME NEW w \in Workers, Receive(w) \/ Crash(w) \/ StartWorker(w) PROVE AllHeld'
    BY <1>4, <1>b, <1>c DEF Receive, Deliver, ClaimNextGenerationJob, Crash, StartWorker
  <1>5. ASSUME NEW w \in Workers, Handle(w) PROVE AllHeld'
    <2>1. CASE ClaimJob(w) \/ LookupJob(w) \/ MarkFailed(w)
      BY <1>d, <2>1 DEF ClaimJob, LookupJob, MarkFailed
    <2>2. CASE ReadTrip(w) \/ SaveItinerary(w)
      BY <1>0, <1>d, <2>2, ZenonT(30) DEF ReadTrip, SaveItinerary, AllHeld, WorkerStates
    <2>6. CASE CreateProposal(w)
      BY <1>0, <1>d, <2>6, ZenonT(30) DEF CreateProposal, AllHeld, WorkerStates
    <2>3. CASE StartProcessing(w) \/ Generate(w) \/ CutShort(w)
      BY <1>d, <2>3 DEF StartProcessing, Generate, CutShort
    <2>4. CASE CompleteJob(w) \/ ResetForRetry(w) \/ FailClaimedJob(w)
      BY <1>d, <2>4 DEF CompleteJob, ResetForRetry, FailClaimedJob, NackRequeue
    <2>5. CASE RepublishRetry(w) \/ RetryOrRequeue(w) \/ Ack(w) \/ Reject(w)
      BY <1>d, <2>5 DEF RepublishRetry, RetryOrRequeue, RetryThenAck, NackDeadLetter, Ack, Reject
    <2> QED BY <1>5, <2>1, <2>2, <2>3, <2>4, <2>5, <2>6 DEF Handle
  <1>6. ASSUME NEW w \in Workers, LoseLink(w) PROVE FALSE
    BY <1>6 DEF LoseLink, Fault, Carried
  <1> QED BY <1>1, <1>2, <1>3, <1>4, <1>5, <1>6 DEF Next

(* Publishing the next attempt, or failing to, leaves a message behind.    *)
LEMMA RetryCarries ==
    ASSUME NEW w \in Workers, workers[w].held, RetryThenAck(w), NEW j, JobOf(w) = j
    PROVE  Carrier(j)'
  <1>1. PICK a : a = workers[w].attempt
    OBVIOUS
  <1>2. \/ retryQ' = BagAdd(retryQ, Msg(j, a + 1))
        \/ mainQ' = BagAdd(mainQ, Msg(j, a))
    BY <1>1 DEF RetryThenAck, PublishRetry, Held
  <1>3. CASE retryQ' = BagAdd(retryQ, Msg(j, a + 1))
    <2>1. Msg(j, a + 1) \in DOMAIN retryQ'
      BY <1>3, AddEnqueues
    <2> QED BY <2>1, MessageCarries
  <1>4. CASE mainQ' = BagAdd(mainQ, Msg(j, a))
    <2>1. Msg(j, a) \in DOMAIN mainQ'
      BY <1>4, AddEnqueues
    <2> QED BY <2>1, MessageCarries
  <1> QED BY <1>2, <1>3, <1>4

(* A handler gives nothing back to nobody: a queued row that one of its    *)
(* steps leaves queued keeps a carrier.                                    *)
LEMMA HandleCarries ==
    ASSUME TypeOK, AllHeld, Carried, NEW w \in Workers, Handle(w),
           NEW j \in Created, jobs[j].status = "queued", jobs'[j].status = "queued", Carrier(j)
    PROVE  Carrier(j)'
  <1>1. \A v \in Workers : v # w => workers'[v] = workers[v]
    BY HandleMovesOne
  <1>2. /\ publishing' = publishing /\ refusing' = refusing
        /\ DOMAIN mainQ \subseteq DOMAIN mainQ' /\ DOMAIN retryQ \subseteq DOMAIN retryQ'
    <2>1. ASSUME NackRequeue(w) \/ NackDeadLetter(w) \/ RetryThenAck(w)
          PROVE  DOMAIN mainQ \subseteq DOMAIN mainQ' /\ DOMAIN retryQ \subseteq DOMAIN retryQ'
      <3>1. /\ mainQ' = mainQ \/ mainQ' = BagAdd(mainQ, Held(w))
            /\ \/ retryQ' = retryQ
               \/ retryQ' = BagAdd(retryQ, Msg(JobOf(w), workers[w].attempt + 1))
        BY <2>1 DEF NackRequeue, NackDeadLetter, RetryThenAck, PublishRetry, queues
      <3>2. DOMAIN mainQ \subseteq DOMAIN mainQ'
        BY <3>1, AddKeeps
      <3>3. DOMAIN retryQ \subseteq DOMAIN retryQ'
        BY <3>1, AddKeeps
      <3> QED BY <3>2, <3>3
    <2>2. ASSUME UNCHANGED queues
          PROVE  DOMAIN mainQ \subseteq DOMAIN mainQ' /\ DOMAIN retryQ \subseteq DOMAIN retryQ'
      BY <2>2 DEF queues
    <2>3. UNCHANGED requests
      BY DEF Handle, ClaimJob, LookupJob, ReadTrip, StartProcessing, Generate,
             SaveItinerary, CreateProposal, MarkFailed, CutShort, CompleteJob, ResetForRetry,
             RepublishRetry, FailClaimedJob, RetryOrRequeue, Ack, Reject
    <2>4. \/ UNCHANGED queues
          \/ NackRequeue(w) \/ NackDeadLetter(w) \/ RetryThenAck(w)
      BY DEF Handle, ClaimJob, LookupJob, ReadTrip, StartProcessing, Generate,
             SaveItinerary, CreateProposal, MarkFailed, CutShort, CompleteJob, ResetForRetry,
             RepublishRetry, FailClaimedJob, RetryOrRequeue, Ack, Reject
    <2> QED BY <2>1, <2>2, <2>3, <2>4 DEF requests
  <1>3. CASE JobOf(w) = j /\ workers[w].phase \in Fetching
    <2>1. CASE At(w, "delivered")
      <3>1. ClaimJob(w)
        BY <2>1 DEF Handle, ClaimJob, LookupJob, ReadTrip, StartProcessing, Generate,
             SaveItinerary, CreateProposal, MarkFailed, CutShort, Timed, CompleteJob, ResetForRetry,
             RepublishRetry, FailClaimedJob, RetryOrRequeue, Ack, Reject, At
      <3>2. SetRow(j, ClaimGenerationJob(jobs[j]))
        BY <1>3, <3>1 DEF ClaimJob, Claimable, RowOf, Fault, Carried
      <3>3. ClaimGenerationJob(jobs[j]).status = "running"
        BY DEF ClaimGenerationJob, TypeOK, TablesOK, JobRow
      <3> QED BY <3>2, <3>3 DEF SetRow, Created
    <2>2. CASE At(w, "republishing")
      <3>1. RepublishRetry(w)
        BY <2>2 DEF Handle, ClaimJob, LookupJob, ReadTrip, StartProcessing, Generate,
             SaveItinerary, CreateProposal, MarkFailed, CutShort, Timed, CompleteJob, ResetForRetry,
             RepublishRetry, FailClaimedJob, RetryOrRequeue, Ack, Reject, At
      <3> QED BY <1>3, <3>1, RetryCarries DEF RepublishRetry, AllHeld
    <2> QED BY <1>3, <2>1, <2>2 DEF Fetching, At
  <1>4. CASE ~(JobOf(w) = j /\ workers[w].phase \in Fetching)
    BY <1>1, <1>2, <1>4, OthersFetch, CarrierGrows
  <1> QED BY <1>3, <1>4

(* A queued row that a step of the system leaves queued keeps a carrier.   *)
LEMMA NextCarries ==
    ASSUME TypeOK, AllHeld, Carried, [Next]_vars,
           NEW j \in Created, jobs[j].status = "queued", jobs'[j].status = "queued", Carrier(j)
    PROVE  Carrier(j)'
  <1>0. workers \in [Workers -> WorkerStates]
    BY DEF TypeOK, WorkersOK
  <1>a. ASSUME UNCHANGED workers PROVE Fetched(j) => Fetched(j)'
    BY <1>a DEF Fetched, JobOf
  <1>1. CASE UNCHANGED vars
    BY <1>1, <1>a, CarrierGrows DEF vars
  <1>2. ASSUME NEW i \in Jobs, Request(i) PROVE Carrier(j)'
    <2>1. CASE Create(i) \/ (\E old \in Created : OpsRetry(old, i))
      BY <2>1, <1>a, CarrierGrows DEF Create, OpsRetry, InsertJob, queues
    <2>2. CASE Dispatch(i)
      <3>1. CASE PublishGenerationJob(i) /\ i = j
        <4>1. mainQ' = BagAdd(mainQ, Msg(j, 1))
          BY <3>1 DEF PublishGenerationJob
        <4>2. Msg(j, 1) \in DOMAIN mainQ'
          BY <4>1, AddEnqueues
        <4> QED BY <4>2, MessageCarries
      <3>2. CASE refusing' = refusing \cup {i} /\ i = j
        BY <3>2 DEF Carrier
      <3>3. CASE i # j
        <4>1. /\ publishing' = publishing \ {i} /\ refusing \subseteq refusing'
              /\ DOMAIN mainQ \subseteq DOMAIN mainQ' /\ retryQ' = retryQ /\ UNCHANGED workers
          <5>1. mainQ' = mainQ \/ mainQ' = BagAdd(mainQ, Msg(i, 1))
            BY <2>2 DEF Dispatch, PublishGenerationJob
          <5>2. DOMAIN mainQ \subseteq DOMAIN mainQ'
            BY <5>1, AddKeeps
          <5> QED BY <2>2, <5>2 DEF Dispatch
        <4> QED BY <1>a, <3>3, <4>1 DEF Carrier, Enqueued
      <3> QED BY <2>2, <3>1, <3>2, <3>3 DEF Dispatch, Carried
    <2>3. CASE RefuseDispatch(i)
      <3>1. SetRow(i, FailGenerationJob(jobs[i]))
        BY <2>3 DEF RefuseDispatch, Fault, Carried
      <3>2. FailGenerationJob(jobs[j]).status = "failed"
        BY DEF FailGenerationJob, TypeOK, TablesOK, JobRow
      <3>3. i # j
        BY <3>1, <3>2 DEF SetRow, Created
      <3>4. /\ publishing' = publishing /\ refusing' = refusing \ {i}
            /\ UNCHANGED queues /\ UNCHANGED workers
        BY <2>3 DEF RefuseDispatch
      <3> QED BY <1>a, <3>3, <3>4 DEF Carrier, Enqueued, queues
    <2>4. CASE ApiCrash(i)
      BY <2>4 DEF ApiCrash, Fault, Carried
    <2>5. CASE Cancel(i) \/ OpsMarkFailed(i) \/ BecomeOverdue(i)
      BY <2>5, <1>a, CarrierGrows DEF Cancel, OpsMarkFailed, BecomeOverdue, queues, requests
    <2> QED BY <1>2, <2>1, <2>2, <2>3, <2>4, <2>5 DEF Request
  <1>3. ASSUME NEW m \in DOMAIN deadQ, RequeueDLQMessage(m) PROVE Carrier(j)'
    <2>1. mainQ' = BagAdd(mainQ, m) /\ retryQ' = retryQ /\ UNCHANGED <<requests, workers>>
      BY <1>3 DEF RequeueDLQMessage
    <2>2. DOMAIN mainQ \subseteq DOMAIN mainQ'
      BY <2>1, AddEnqueues
    <2> QED BY <1>a, <2>1, <2>2, CarrierGrows DEF requests
  <1>4. ASSUME NEW t \in Trips, UpdateItinerary(t) PROVE Carrier(j)'
    BY <1>4, <1>a, CarrierGrows DEF UpdateItinerary, requests, queues
  <1>5. CASE DelayEnds
    <2>1. PICK m \in DOMAIN retryQ : RetryDelayEnds(m)
      BY <1>5 DEF DelayEnds
    <2>2. DOMAIN mainQ \cup DOMAIN retryQ \subseteq DOMAIN mainQ' \cup DOMAIN retryQ'
      <3>1. retryQ' = BagRemove(retryQ, m) /\ mainQ' = BagAdd(mainQ, m)
        BY <2>1 DEF RetryDelayEnds
      <3>2. DOMAIN mainQ' = DOMAIN mainQ \cup {m}
        BY <3>1, AddEnqueues
      <3>3. DOMAIN retryQ \ {m} \subseteq DOMAIN retryQ'
        BY <3>1, RemoveLeaves
      <3> QED BY <3>2, <3>3
    <2> QED BY <1>5, <1>a, <2>2, CarrierGrows DEF DelayEnds, requests
  <1>6. ASSUME NEW w \in Workers, NEW m \in DOMAIN mainQ, Deliver(w, m) PROVE Carrier(j)'
    <2>1. \A v \in Workers : v # w => workers'[v] = workers[v]
      BY <1>0, <1>6 DEF Deliver
    <2>2. /\ workers'[w].job = m.job /\ workers'[w].phase = "delivered"
          /\ workers[w].phase = "idle"
      BY <1>0, <1>6 DEF Deliver, Handling, At
    <2>3. m.job = j => Fetched(j)'
      BY <2>2 DEF Fetched, JobOf, Fetching
    <2>4. Fetched(j) => Fetched(j)'
      BY <2>1, <2>2, OthersFetch DEF Fetching
    <2>5. DOMAIN mainQ \ {m} \subseteq DOMAIN mainQ' /\ retryQ' = retryQ /\ UNCHANGED requests
      BY <1>6, RemoveLeaves DEF Deliver
    <2> QED BY <2>3, <2>4, <2>5 DEF Carrier, Enqueued, requests
  <1>7. ASSUME NEW w \in Workers, NEW i \in Created, ClaimNextGenerationJob(w, i) PROVE FALSE
    BY <1>7 DEF ClaimNextGenerationJob, Carried
  <1>8. ASSUME NEW w \in Workers, Handle(w) PROVE Carrier(j)'
    BY <1>8, HandleCarries
  <1>9. ASSUME NEW w \in Workers, Crash(w) PROVE Carrier(j)'
    <2>1. \A v \in Workers : v # w => workers'[v] = workers[v]
      BY <1>0, <1>9 DEF Crash
    <2>2. DOMAIN mainQ \subseteq DOMAIN mainQ' /\ retryQ' = retryQ /\ UNCHANGED requests
      BY <1>9, AddEnqueues DEF Crash
    <2>3. CASE JobOf(w) = j /\ workers[w].phase \in Fetching
      <3>1. Busy(w) /\ workers[w].held /\ QueueMode
        BY <2>3 DEF Busy, Fetching, AllHeld, Carried
      <3>2. Msg(j, workers[w].attempt) \in DOMAIN mainQ'
        BY <1>9, <2>3, <3>1, AddEnqueues DEF Crash, Held
      <3> QED BY <3>2, MessageCarries
    <2>4. CASE ~(JobOf(w) = j /\ workers[w].phase \in Fetching)
      BY <2>1, <2>2, <2>4, OthersFetch, CarrierGrows DEF requests
    <2> QED BY <2>3, <2>4
  <1>10. ASSUME NEW w \in Workers, LoseLink(w) PROVE FALSE
    BY <1>10 DEF LoseLink, Fault, Carried
  <1>11. ASSUME NEW w \in Workers, StartWorker(w) PROVE Carrier(j)'
    <2>1. workers[w].phase \notin Fetching /\ \A v \in Workers : v # w => workers'[v] = workers[v]
      BY <1>0, <1>11 DEF StartWorker, At, Fetching
    <2> QED BY <1>11, <2>1, OthersFetch, CarrierGrows DEF StartWorker, queues, requests
  <1> QED BY <1>1, <1>2, <1>3, <1>4, <1>5, <1>6, <1>7, <1>8, <1>9, <1>10, <1>11 DEF Next, Receive

(* A row that becomes queued has its carrier from the start: the request   *)
(* that inserted it, or the worker that gave it back.                      *)
LEMMA QueuedAnew ==
    ASSUME TypeOK, Carried, [Next]_vars, NEW j \in Created', jobs'[j].status = "queued",
           j \in Created => jobs[j].status # "queued"
    PROVE  Carrier(j)'
  <1>1. CASE j \in Created
    <2>1. PICK w \in Workers : ResetForRetry(w) /\ JobOf(w) = j
      BY <1>1, NextOpens
    <2>2. ~UNCHANGED jobs
      BY <1>1
    <2>3. Goto(w, "republishing")
      BY <2>1, <2>2 DEF ResetForRetry
    <2>4. workers'[w].job = j /\ workers'[w].phase = "republishing"
      BY <2>1, <2>3 DEF Goto, JobOf, TypeOK, WorkersOK, WorkerStates
    <2> QED BY <2>4 DEF Carrier, Fetched, Fetching, JobOf
  <1>2. CASE j \notin Created
    <2>1. j \in publishing'
      <3>a. ASSUME Created' = Created PROVE FALSE
        BY <1>2, <3>a
      <3>1. Created' # Created
        BY <3>a
      <3>2. ASSUME NEW i \in Created, NEW row, SetRow(i, row) PROVE Created' = Created
        BY <3>2 DEF SetRow, Created, TypeOK, TablesOK
      <3>3. ASSUME UNCHANGED jobs PROVE Created' = Created
        BY <3>3 DEF Created
      <3>4. ASSUME NEW i \in Jobs, Request(i) PROVE j \in publishing'
        <4>1. CASE Create(i) \/ (\E old \in Created : OpsRetry(old, i))
          BY <1>2, <4>1 DEF Create, OpsRetry, InsertJob, CreateGenerationJob, Created, Carried
        <4>2. CASE RefuseDispatch(i) \/ Cancel(i) \/ OpsMarkFailed(i) \/ BecomeOverdue(i)
          <5>1. i \in Created
            BY <4>2 DEF RefuseDispatch, Cancel, OpsMarkFailed, BecomeOverdue, TypeOK, TablesOK
          <5> QED BY <3>1, <3>2, <3>3, <4>2, <5>1
                  DEF RefuseDispatch, Cancel, OpsMarkFailed, BecomeOverdue
        <4>3. CASE Dispatch(i) \/ ApiCrash(i)
          BY <3>1, <3>3, <4>3 DEF Dispatch, ApiCrash
        <4> QED BY <3>4, <4>1, <4>2, <4>3 DEF Request
      <3>5. ASSUME NEW w \in Workers, Handle(w) PROVE Created' = Created
        <4>1. JobOf(w) \in Created
          BY <3>5, HandleIsBusy, BusyFacts
        <4> QED BY <3>2, <3>3, <3>5, <4>1, HandleRowSteps
      <3>6. ASSUME NEW w \in Workers, Receive(w) PROVE Created' = Created
        BY <3>2, <3>3, <3>6 DEF Receive, Deliver, ClaimNextGenerationJob
      <3>7. ASSUME NEW w \in Workers, Crash(w) \/ LoseLink(w) \/ StartWorker(w)
            PROVE  Created' = Created
        BY <3>3, <3>7 DEF Crash, LoseLink, StartWorker, MarkStaleRunningGenerationJobsFailed,
                          Created
      <3>8. CASE \/ \E m \in DOMAIN deadQ : RequeueDLQMessage(m)
                 \/ \E t \in Trips : UpdateItinerary(t)
                 \/ DelayEnds
                 \/ UNCHANGED vars
        BY <3>1, <3>3, <3>8 DEF RequeueDLQMessage, UpdateItinerary, DelayEnds, vars
      <3> QED BY <3>1, <3>4, <3>5, <3>6, <3>7, <3>8 DEF Next
    <2> QED BY <2>1 DEF Carrier
  <1> QED BY <1>1, <1>2

(* A queued row is never forgotten: its request, a message, or a worker    *)
(* that has yet to claim it or to publish it again will bring it on, when  *)
(* workers stop anywhere and publishes report errors, stored or not.  The  *)
(* faults left out do lose rows: a request whose process dies, a failed    *)
(* statement, a channel that breaks under a handler.                       *)
THEOREM QueuedIsCarried ==
    ASSUME Carried
    PROVE  Spec => []QueuedHasCarrier
  <1>1. Init => CarrierInv
    BY DEF Init, Created, Idle, Handling, AllHeld, CarrierInv
  <1>2. TypeOK /\ CarrierInv /\ [Next]_vars => CarrierInv'
    <2> SUFFICES ASSUME TypeOK, CarrierInv, [Next]_vars PROVE CarrierInv'
      OBVIOUS
    <2>1. AllHeld /\ AllHeld'
      BY HeldNext DEF CarrierInv
    <2>2. ASSUME NEW j \in Created', jobs'[j].status = "queued" PROVE Carrier(j)'
      BY <2>1, <2>2, NextCarries, QueuedAnew DEF CarrierInv
    <2> QED BY <2>1, <2>2 DEF CarrierInv
  <1>3. CarrierInv => QueuedHasCarrier
    BY DEF CarrierInv, Carrier, Enqueued, Fetched, Fetching, QueuedHasCarrier
  <1> QED BY <1>1, <1>2, <1>3, TypeCorrect, PTL DEF Spec
===============================================================================
