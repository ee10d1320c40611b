-------------------------- MODULE GenerationJobStore --------------------------
(***************************************************************************)
(* Table trip_generation_jobs, shared by Trip Service (which inserts,      *)
(* cancels and repairs rows) and by the generation workers (which claim    *)
(* and finish them).  A row operator is the SET list of one UPDATE of      *)
(* infrastructure/repository/postgres/generation_job.go; the predicate     *)
(* named beside it is the WHERE clause of that UPDATE, when it has one     *)
(* beyond the primary key.                                                 *)
(*                                                                         *)
(* started_at is kept as one bit, overdue: whether a running row was       *)
(* started before now - MaxRunning (the ops threshold is the same or       *)
(* longer).  It is read only while the row is running.                     *)
(***************************************************************************)
EXTENDS TripStore

CONSTANT Jobs

VARIABLE jobs      \* a function from the ids inserted so far to their rows

(* What a job does with the trip: generate it or adapt a template to it,   *)
(* regenerate or improve a part of it, or leave a proposal to change it    *)
(* (budget_optimization_day and policy_repair).                            *)
JobKinds == {"full", "partial", "proposal"}
Terminal == {"completed", "failed", "cancelled"}
JobStatuses == {"queued", "running"} \cup Terminal

JobRow ==
    [status : JobStatuses, trip : Trips, kind : JobKinds,
     expected : Nat, overdue : BOOLEAN, result : Nat]

Created == DOMAIN jobs

QueuedRow(t, kind, expected) ==
    [status |-> "queued", trip |-> t, kind |-> kind,
     expected |-> expected, overdue |-> FALSE, result |-> 0]

(* INSERT: the id is a fresh uuid.                                         *)
CreateGenerationJob(j, row) ==
    jobs' = [k \in Created \cup {j} |-> IF k = j THEN row ELSE jobs[k]]

(* Broken variants, not part of the specification: the checks must notice  *)
(* each of them when it takes the place of the definition it resembles.    *)
ClaimableWhileOpen(row)     == row.status \notin Terminal
ResettableAlways(row)       == TRUE
CancellableWhileRunning(row) == row.status \in {"queued", "running"}
CompleteWithExpected(row, revision) ==
    [row EXCEPT !.status = "completed", !.overdue = FALSE, !.result = row.expected]
RequeueAllRunning(table) ==
    [j \in DOMAIN table |->
        IF table[j].status = "running" THEN [table[j] EXCEPT !.status = "queued"]
        ELSE table[j]]

Claimable(row)   == row.status = "queued"
Resettable(row)  == row.status = "running"
Cancellable(row) == row.status = "queued"
Stale(row)       == row.status = "running" /\ row.overdue

ClaimGenerationJob(row) == [row EXCEPT !.status = "running", !.overdue = FALSE]

(* Completion and failure name the row by its id alone.                    *)
CompleteGenerationJob(row, revision) ==
    [row EXCEPT !.status = "completed", !.overdue = FALSE, !.result = revision]

FailGenerationJob(row) == [row EXCEPT !.status = "failed", !.overdue = FALSE]

ResetRunningGenerationJobToQueued(row) ==
    [row EXCEPT !.status = "queued", !.overdue = FALSE]

CancelQueuedGenerationJob(row) == [row EXCEPT !.status = "cancelled"]

MarkStaleRunningGenerationJobsFailed(table) ==
    [j \in DOMAIN table |->
        IF Stale(table[j]) THEN FailGenerationJob(table[j]) ELSE table[j]]
===============================================================================
