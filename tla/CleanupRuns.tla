----------------------------- MODULE CleanupRuns -----------------------------
(***************************************************************************)
(* The runs of one cleanup task in Worker Service.  A row of cleanup_runs  *)
(* in status running is the task's lock: a partial unique index admits one *)
(* such row per task, and its lock_expires_at lets a later start fail the  *)
(* row of a worker that died.  The scheduler of every replica and the      *)
(* operator's route run tasks; tasks share nothing, so one is modelled.    *)
(***************************************************************************)
EXTENDS Integers, Sequences

CONSTANTS
    Replicas,       \* workers that run the task
    LockTTL,
    MaxClock,       \* bound: the clock
    MaxRuns         \* bound: rows ever inserted

ASSUME CleanupAssumption ==
    /\ LockTTL \in Nat \ {0}
    /\ MaxClock \in Nat /\ MaxRuns \in Nat

VARIABLES
    runs,           \* the rows of cleanup_runs
    clock,
    replica         \* what each replica is doing

cleanupVars == <<runs, clock, replica>>

RunStatuses == {"running", "succeeded", "failed"}
RunRows == [status : RunStatuses, lock : Nat]
RunIds  == 1..Len(runs)

(* The last two phases are the results of the task.                        *)
Idle == [phase |-> "idle", time |-> 0, run |-> 0]
Replica == [phase : {"idle", "starting", "running", "succeeded", "failed"}, time : Nat, run : Nat]

CleanupInit ==
    /\ runs = << >>
    /\ clock = 1
    /\ replica = [w \in Replicas |-> Idle]

(* A broken variant, not part of the specification.                        *)
AnyLock(row, time) == TRUE

(* The WHERE clause lock_expires_at < now.                                 *)
LockExpired(row, time) == row.lock < time

(* Start fails the running rows whose lock has expired ...                 *)
ReleaseExpired(time) ==
    [j \in RunIds |-> IF runs[j].status = "running" /\ LockExpired(runs[j], time)
                      THEN [runs[j] EXCEPT !.status = "failed"] ELSE runs[j]]

(* ... a statement whose error is not looked at ...                        *)
Start(w) ==
    /\ replica[w] = Idle
    /\ Len(runs) < MaxRuns
    /\ runs' \in {ReleaseExpired(clock), runs}
    /\ replica' = [replica EXCEPT ![w] = [phase |-> "starting", time |-> clock, run |-> 0]]
    /\ UNCHANGED clock

Running == {k \in RunIds : runs[k].status = "running"}

(* ... and inserts its row unless another is running.                      *)
InsertRun(w) ==
    LET r == replica[w] IN
    /\ r.phase = "starting"
    /\ IF Running = {}
       THEN /\ Len(runs) < MaxRuns
            /\ runs' = Append(runs, [status |-> "running", lock |-> r.time + LockTTL])
            /\ replica' = [replica EXCEPT ![w] = [r EXCEPT !.phase = "running", !.run = Len(runs) + 1]]
       ELSE /\ replica' = [replica EXCEPT ![w] = Idle]
            /\ UNCHANGED runs
    /\ UNCHANGED clock

(* The service's answer, its error or the client's timeout.                *)
TaskEnds(w) ==
    /\ replica[w].phase = "running"
    /\ \E status \in {"succeeded", "failed"} :
          replica' = [replica EXCEPT ![w].phase = status]
    /\ UNCHANGED <<runs, clock>>

(* The row is named by its id alone.                                       *)
Complete(w) ==
    /\ replica[w].phase \in {"succeeded", "failed"}
    /\ runs' = [runs EXCEPT ![replica[w].run] = [status |-> replica[w].phase, lock |-> 0]]
    /\ replica' = [replica EXCEPT ![w] = Idle]
    /\ UNCHANGED clock

(* The worker dies or loses its database.                                  *)
ReplicaFails(w) ==
    /\ replica[w] # Idle
    /\ replica' = [replica EXCEPT ![w] = Idle]
    /\ UNCHANGED <<runs, clock>>

ClockTicks ==
    /\ clock < MaxClock
    /\ clock' = clock + 1
    /\ UNCHANGED <<runs, replica>>

CleanupNext ==
    \/ \E w \in Replicas :
          Start(w) \/ InsertRun(w) \/ TaskEnds(w) \/ Complete(w) \/ ReplicaFails(w)
    \/ ClockTicks

CleanupSpec == CleanupInit /\ [][CleanupNext]_cleanupVars

-----------------------------------------------------------------------------
CleanupTypeOK ==
    /\ runs \in Seq(RunRows)
    /\ clock \in Nat
    /\ replica \in [Replicas -> Replica]
    /\ \A w \in Replicas :
          replica[w].phase \in {"running", "succeeded", "failed"} => replica[w].run \in RunIds

(* Two executions of a task overlap only when one of them has outlived its *)
(* lock: no start takes the lock of a run that is still within its time,   *)
(* and no completion of an overtaken run frees its successor's.            *)
OverlapsOutliveTheirLock ==
    \A v, w \in Replicas :
        /\ v # w
        /\ replica[v].phase = "running" /\ replica[w].phase = "running"
        => \E u \in {v, w} : replica[u].time + LockTTL < clock

=============================================================================
