------------------------- MODULE BackgroundProofs --------------------------
(***************************************************************************)
(* Theorems about the work the services do in the background, each for     *)
(* every number of processes, rows and faults: the cleanup runs of Worker  *)
(* Service, the digests, the reminders, the export packages, the batches   *)
(* of Notification Service, and the dead letters.  One process after the   *)
(* other takes a row or a message, works on it elsewhere and writes the    *)
(* outcome; the invariants say who may be at it, and what its state tells. *)
(***************************************************************************)
EXTENDS CleanupRuns, Digests, Reminders, DataExports, NotificationDedupe, DeadLetters,
        FiniteSetTheorems, TLAPS

(* A replica that has inserted the row of a run and not yet completed it.  *)
HasRun(w) == replica[w].phase \in {"running", "succeeded", "failed"}

(* A task that runs within the time of its lock has its row running, with  *)
(* that lock: only a start after the lock's end fails the row.             *)
LockHeld(w) ==
    replica[w].phase = "running" =>
        \/ runs[replica[w].run] = [status |-> "running", lock |-> replica[w].time + LockTTL]
        \/ replica[w].time + LockTTL < clock

(* The inductive invariant: besides the types and the held locks, one row  *)
(* is running at most (the partial unique index), and no two replicas will *)
(* complete the same row.                                                  *)
CleanupInv ==
    /\ CleanupTypeOK
    /\ \A j, k \in RunIds : runs[j].status = "running" /\ runs[k].status = "running" => j = k
    /\ \A v, w \in Replicas : HasRun(v) /\ HasRun(w) /\ replica[v].run = replica[w].run => v = w
    /\ \A w \in Replicas : LockHeld(w)

(* The release of expired locks, done or failed, drops no row and fails    *)
(* only rows whose lock has ended.                                         *)
LEMMA ReleaseExpiredSpares ==
    ASSUME CleanupInv, NEW time \in Nat, time =< clock, NEW rows \in {ReleaseExpired(time), runs}
    PROVE  /\ rows \in Seq(RunRows) /\ Len(rows) = Len(runs)
           /\ \A j \in RunIds : \/ rows[j] = runs[j]
                                \/ rows[j].status = "failed" /\ runs[j].lock < clock
  <1>1. \A j \in RunIds : runs[j] \in RunRows  BY DEF CleanupInv, CleanupTypeOK, RunIds
  <1>2. \A j \in RunIds : [runs[j] EXCEPT !.status = "failed"] \in RunRows
                          /\ [runs[j] EXCEPT !.status = "failed"].status = "failed"
    BY <1>1 DEF RunRows, RunStatuses
  <1>3. Len(runs) \in Nat /\ clock \in Nat  BY DEF CleanupInv, CleanupTypeOK
  <1>4. CASE rows = runs  BY <1>3, <1>4 DEF CleanupInv, CleanupTypeOK, RunIds
  <1>5. CASE rows = ReleaseExpired(time)
    <2>1. rows \in [RunIds -> RunRows]  BY <1>1, <1>2, <1>5 DEF ReleaseExpired
    <2>2. rows \in Seq(RunRows) /\ Len(rows) = Len(runs)  BY <1>3, <2>1 DEF RunIds
    <2>3. ASSUME NEW j \in RunIds
          PROVE  \/ rows[j] = runs[j]
                 \/ rows[j].status = "failed" /\ runs[j].lock < clock
      <3>1. CASE runs[j].status = "running" /\ LockExpired(runs[j], time)
        <4>1. rows[j] = [runs[j] EXCEPT !.status = "failed"]  BY <1>5, <3>1 DEF ReleaseExpired
        <4>2. runs[j].lock \in Nat /\ runs[j].lock < time
          BY <1>1, <3>1 DEF RunRows, LockExpired
        <4> QED BY <1>2, <1>3, <4>1, <4>2
      <3>2. CASE ~(runs[j].status = "running" /\ LockExpired(runs[j], time))
        BY <1>5, <3>2 DEF ReleaseExpired
      <3> QED BY <3>1, <3>2
    <2> QED BY <2>2, <2>3
  <1> QED BY <1>4, <1>5

(* Starting a run: the lock of a task within its time is not taken.        *)
LEMMA StartKeeps == ASSUME CleanupInv, NEW w \in Replicas, Start(w) PROVE CleanupInv'
  <1>1. clock \in Nat /\ clock =< clock  BY DEF CleanupInv, CleanupTypeOK
  <1>2. /\ runs' \in Seq(RunRows) /\ Len(runs') = Len(runs)
        /\ \A j \in RunIds : \/ runs'[j] = runs[j]
                             \/ runs'[j].status = "failed" /\ runs[j].lock < clock
    BY <1>1, ReleaseExpiredSpares DEF Start
  <1>3. RunIds' = RunIds  BY <1>2 DEF RunIds
  <1>4. /\ replica' \in [Replicas -> Replica]
        /\ replica'[w].phase = "starting"
        /\ \A v \in Replicas \ {w} : replica'[v] = replica[v]
    BY <1>1 DEF Start, Replica, CleanupInv, CleanupTypeOK
  <1>5. CleanupTypeOK'  BY <1>2, <1>3, <1>4 DEF Start, CleanupInv, CleanupTypeOK
  <1>6. \A j, k \in RunIds' : runs'[j].status = "running" /\ runs'[k].status = "running" => j = k
    BY <1>2, <1>3 DEF CleanupInv
  <1>7. \A u, v \in Replicas : HasRun(u)' /\ HasRun(v)' /\ replica'[u].run = replica'[v].run => u = v
    BY <1>4 DEF CleanupInv, HasRun
  <1>8. ASSUME NEW v \in Replicas PROVE LockHeld(v)'
    <2> SUFFICES ASSUME replica'[v].phase = "running", ~(replica[v].time + LockTTL < clock)
                 PROVE  runs'[replica[v].run] = [status |-> "running", lock |-> replica[v].time + LockTTL]
      BY <1>4 DEF LockHeld, Start
    <2>1. v # w /\ replica[v].phase = "running" /\ replica[v].run \in RunIds
      BY <1>4 DEF CleanupInv, CleanupTypeOK
    <2>2. runs[replica[v].run] = [status |-> "running", lock |-> replica[v].time + LockTTL]
      BY <2>1 DEF CleanupInv, LockHeld
    <2> QED BY <1>2, <2>1, <2>2
  <1> QED BY <1>5, <1>6, <1>7, <1>8 DEF CleanupInv

(* Inserting the row of a run: none is running, so the new one is alone.   *)
LEMMA InsertRunKeeps == ASSUME CleanupInv, NEW w \in Replicas, InsertRun(w) PROVE CleanupInv'
  <1> DEFINE row == [status |-> "running", lock |-> replica[w].time + LockTTL]
  <1>1. /\ runs \in Seq(RunRows) /\ Len(runs) \in Nat /\ clock \in Nat /\ clock' = clock
        /\ replica[w] \in Replica /\ LockTTL \in Nat
    BY CleanupAssumption DEF CleanupInv, CleanupTypeOK, InsertRun
  <1>2. CASE Running # {}
    <2>1. /\ runs' = runs /\ replica' \in [Replicas -> Replica]
          /\ replica'[w].phase = "idle"
          /\ \A v \in Replicas \ {w} : replica'[v] = replica[v]
      <3>1. runs' = runs /\ replica' = [replica EXCEPT ![w] = Idle]  BY <1>2 DEF InsertRun
      <3>2. Idle \in Replica /\ Idle.phase = "idle"  BY DEF Idle, Replica
      <3> QED BY <3>1, <3>2 DEF CleanupInv, CleanupTypeOK
    <2> QED BY <1>1, <2>1 DEF CleanupInv, CleanupTypeOK, RunIds, HasRun, LockHeld
  <1>3. CASE Running = {}
    <2>1. row \in RunRows  BY <1>1 DEF RunRows, RunStatuses, Replica
    <2>2. runs' = Append(runs, row)  BY <1>3 DEF InsertRun
    <2>3. /\ runs' \in Seq(RunRows) /\ Len(runs') = Len(runs) + 1
          /\ runs'[Len(runs) + 1] = row /\ \A j \in RunIds : runs'[j] = runs[j]
      BY <1>1, <2>1, <2>2 DEF RunIds
    <2>4. /\ RunIds' = RunIds \cup {Len(runs) + 1} /\ Len(runs) + 1 \notin RunIds
      BY <1>1, <2>3 DEF RunIds
    <2>5. /\ replica' \in [Replicas -> Replica]
          /\ replica'[w] = [replica[w] EXCEPT !.phase = "running", !.run = Len(runs) + 1]
          /\ \A v \in Replicas \ {w} : replica'[v] = replica[v]
      <3> DEFINE r == [replica[w] EXCEPT !.phase = "running", !.run = Len(runs) + 1]
      <3>1. replica' = [replica EXCEPT ![w] = r]  BY <1>3 DEF InsertRun
      <3>2. [replica[w] EXCEPT !.phase = "running"] \in Replica  BY <1>1 DEF Replica
      <3>3. Len(runs) + 1 \in Nat  BY <1>1
      <3>4. r \in Replica  BY <3>2, <3>3 DEF Replica
      <3> QED BY <3>1, <3>4 DEF CleanupInv, CleanupTypeOK
    <2>6. /\ replica'[w].run = Len(runs) + 1 /\ replica'[w].time = replica[w].time
      BY <1>1, <2>5 DEF Replica
    <2>7. CleanupTypeOK'  BY <1>1, <2>3, <2>4, <2>5, <2>6 DEF CleanupInv, CleanupTypeOK
    <2>8. \A j \in RunIds : runs'[j].status # "running"
      BY <1>3, <2>3 DEF Running
    <2>9. \A j, k \in RunIds' : runs'[j].status = "running" /\ runs'[k].status = "running" => j = k
      BY <2>4, <2>8
    <2>10. \A v \in Replicas : HasRun(v) => replica[v].run \in RunIds
      BY DEF CleanupInv, CleanupTypeOK, HasRun
    <2>11. \A u, v \in Replicas :
              HasRun(u)' /\ HasRun(v)' /\ replica'[u].run = replica'[v].run => u = v
      <3>1. \A v \in Replicas \ {w} : HasRun(v)' => HasRun(v) /\ replica'[v].run = replica[v].run
        BY <2>5 DEF HasRun
      <3>2. \A v \in Replicas \ {w} : HasRun(v)' => replica'[v].run # Len(runs) + 1
        BY <2>4, <2>10, <3>1
      <3> QED BY <2>6, <3>1, <3>2 DEF CleanupInv
    <2>12. ASSUME NEW v \in Replicas PROVE LockHeld(v)'
      <3>1. CASE v = w  BY <2>3, <2>6, <3>1 DEF LockHeld
      <3>2. CASE v # w
        BY <1>1, <2>3, <2>5, <2>10, <3>2, SMTT(20) DEF LockHeld, CleanupInv, HasRun
      <3> QED BY <3>1, <3>2
    <2> QED BY <2>7, <2>9, <2>11, <2>12 DEF CleanupInv
  <1> QED BY <1>2, <1>3

(* Completing a run by its id: no other replica has that row.              *)
LEMMA CompleteKeeps == ASSUME CleanupInv, NEW w \in Replicas, Complete(w) PROVE CleanupInv'
  <1> DEFINE k == replica[w].run
             row == [status |-> replica[w].phase, lock |-> 0]
  <1>1. /\ k \in RunIds /\ row \in RunRows /\ row.status # "running" /\ HasRun(w)
        /\ runs \in Seq(RunRows) /\ clock' = clock
    BY DEF Complete, CleanupInv, CleanupTypeOK, RunRows, RunStatuses, HasRun
  <1>2. /\ runs' \in Seq(RunRows) /\ RunIds' = RunIds
        /\ \A j \in RunIds : runs'[j] = IF j = k THEN row ELSE runs[j]
    BY <1>1 DEF Complete, RunIds
  <1>3. /\ replica' \in [Replicas -> Replica] /\ replica'[w].phase = "idle"
        /\ \A v \in Replicas \ {w} : replica'[v] = replica[v]
    BY DEF Complete, CleanupInv, CleanupTypeOK, Idle, Replica
  <1>4. CleanupTypeOK'  BY <1>1, <1>2, <1>3 DEF CleanupInv, CleanupTypeOK
  <1>5. \A i, j \in RunIds' : runs'[i].status = "running" /\ runs'[j].status = "running" => i = j
    BY <1>1, <1>2 DEF CleanupInv
  <1>6. \A u, v \in Replicas : HasRun(u)' /\ HasRun(v)' /\ replica'[u].run = replica'[v].run => u = v
    BY <1>3 DEF CleanupInv, HasRun
  <1>7. ASSUME NEW v \in Replicas PROVE LockHeld(v)'
    <2> SUFFICES ASSUME replica'[v].phase = "running", ~(replica[v].time + LockTTL < clock)
                 PROVE  runs'[replica[v].run] = [status |-> "running", lock |-> replica[v].time + LockTTL]
      BY <1>1, <1>3 DEF LockHeld
    <2>1. v # w /\ replica[v].phase = "running" /\ HasRun(v)  BY <1>3 DEF HasRun
    <2>2. replica[v].run \in RunIds /\ replica[v].run # k
      BY <1>1, <2>1 DEF CleanupInv, CleanupTypeOK, HasRun
    <2> QED BY <1>2, <2>1, <2>2 DEF CleanupInv, LockHeld
  <1> QED BY <1>4, <1>5, <1>6, <1>7 DEF CleanupInv

(* The end of a task, whatever its result.                                 *)
LEMMA TaskEndsKeeps == ASSUME CleanupInv, NEW w \in Replicas, TaskEnds(w) PROVE CleanupInv'
  <1>1. PICK status \in {"succeeded", "failed"} : replica' = [replica EXCEPT ![w].phase = status]
    BY DEF TaskEnds
  <1>2. /\ replica' \in [Replicas -> Replica] /\ replica'[w].phase = status
        /\ replica'[w].run = replica[w].run
        /\ \A v \in Replicas \ {w} : replica'[v] = replica[v]
    BY <1>1 DEF CleanupInv, CleanupTypeOK, Replica
  <1>3. HasRun(w) /\ UNCHANGED <<runs, clock, RunIds>>  BY DEF TaskEnds, HasRun, RunIds
  <1>4. CleanupTypeOK'  BY <1>2, <1>3 DEF CleanupInv, CleanupTypeOK, HasRun
  <1>5. \A u, v \in Replicas : HasRun(u)' /\ HasRun(v)' /\ replica'[u].run = replica'[v].run => u = v
    BY <1>2, <1>3 DEF CleanupInv, HasRun
  <1>6. \A v \in Replicas : LockHeld(v)'  BY <1>2, <1>3 DEF CleanupInv, LockHeld
  <1> QED BY <1>3, <1>4, <1>5, <1>6 DEF CleanupInv

(* A replica that dies leaves its row as it is.                            *)
LEMMA ReplicaFailsKeeps == ASSUME CleanupInv, NEW w \in Replicas, ReplicaFails(w) PROVE CleanupInv'
  <1>1. /\ replica' \in [Replicas -> Replica] /\ replica'[w].phase = "idle"
        /\ \A v \in Replicas \ {w} : replica'[v] = replica[v]
        /\ UNCHANGED <<runs, clock, RunIds>>
    BY DEF ReplicaFails, CleanupInv, CleanupTypeOK, Idle, Replica, RunIds
  <1> QED BY <1>1 DEF CleanupInv, CleanupTypeOK, HasRun, LockHeld

(* Time passes: a held lock stays held or ends.                            *)
LEMMA ClockTicksKeeps == ASSUME CleanupInv, ClockTicks PROVE CleanupInv'
  <1>1. clock \in Nat /\ clock' = clock + 1 /\ UNCHANGED <<runs, replica, RunIds>>
    BY DEF ClockTicks, CleanupInv, CleanupTypeOK, RunIds
  <1>2. \A w \in Replicas : replica[w].time + LockTTL \in Nat
    <2> SUFFICES ASSUME NEW w \in Replicas PROVE replica[w].time + LockTTL \in Nat
      OBVIOUS
    <2>1. replica[w] \in Replica  BY DEF CleanupInv, CleanupTypeOK
    <2>2. replica[w].time \in Nat  BY <2>1 DEF Replica
    <2> QED BY <2>2, CleanupAssumption
  <1> QED BY <1>1, <1>2 DEF CleanupInv, CleanupTypeOK, HasRun, LockHeld

(* The inductive invariant holds of the cleanup runs.                      *)
THEOREM CleanupInvariant == CleanupSpec => []CleanupInv
  <1>1. CleanupInit => CleanupInv
    BY DEF CleanupInit, CleanupInv, CleanupTypeOK, RunIds, HasRun, LockHeld, Idle, Replica
  <1>2. CleanupInv /\ [CleanupNext]_cleanupVars => CleanupInv'
    <2> SUFFICES ASSUME CleanupInv, [CleanupNext]_cleanupVars PROVE CleanupInv'
      OBVIOUS
    <2>1. CASE UNCHANGED cleanupVars
      BY <2>1 DEF cleanupVars, CleanupInv, CleanupTypeOK, RunIds, HasRun, LockHeld
    <2> QED BY <2>1, StartKeeps, InsertRunKeeps, TaskEndsKeeps, CompleteKeeps, ReplicaFailsKeeps,
               ClockTicksKeeps DEF CleanupNext
  <1> QED BY <1>1, <1>2, PTL DEF CleanupSpec

(* Two replicas execute a cleanup task at once only when one of them has   *)
(* outlived the lock it took (Start, Complete of the cleanup run           *)
(* repository), for every number of replicas and runs.                     *)
THEOREM OverlapsOutlive == CleanupSpec => []OverlapsOutliveTheirLock
  <1>1. CleanupInv => OverlapsOutliveTheirLock
    <2> SUFFICES ASSUME CleanupInv, NEW v \in Replicas, NEW w \in Replicas, v # w,
                        replica[v].phase = "running", replica[w].phase = "running",
                        \A u \in {v, w} : ~(replica[u].time + LockTTL < clock)
                 PROVE  FALSE
      BY DEF OverlapsOutliveTheirLock
    <2>1. /\ HasRun(v) /\ HasRun(w) /\ replica[v].run \in RunIds /\ replica[w].run \in RunIds
      BY DEF CleanupInv, CleanupTypeOK, HasRun
    <2>2. runs[replica[v].run].status = "running" /\ runs[replica[w].run].status = "running"
      <3>1. ASSUME NEW u \in {v, w} PROVE runs[replica[u].run].status = "running"
        <4>1. u \in Replicas /\ LockHeld(u)  BY DEF CleanupInv
        <4> QED BY <4>1 DEF LockHeld
      <3> QED BY <3>1
    <2> QED BY <2>1, <2>2 DEF CleanupInv
  <1> QED BY <1>1, CleanupInvariant, PTL

-----------------------------------------------------------------------------
Holds(p) == pass[p].phase # "none"

(* What a pass in possession of a batch knows and has done.                *)
PassInv(p) ==
    LET row == batches[pass[p].batch] IN
    /\ Holds(p) \/ pass[p] = IdlePass
    /\ Holds(p) =>
          /\ row.status = "processing"
          /\ pass[p].phase \in {"loaded", "delivered"} => pass[p].items = row.items
          /\ \A e \in row.items :
                IF pass[p].phase = "delivered" THEN sends[e] > 0
                ELSE pass[p].batch \in unsure \/ sends[e] = 0

(* What the status of a batch says of the events in it.                    *)
BatchInv(k) ==
    \A e \in batches[k].items :
        /\ scheduled[e] = Queued
        /\ batches[k].status = "sent" => sends[e] > 0
        /\ batches[k].status = "pending" => k \in unsure \/ sends[e] = 0
        /\ k \in unsure \/ sends[e] =< 1

(* The inductive invariant.  An event is in one batch at most, and not     *)
(* sent before it is in one; a batch in processing is held by one pass at  *)
(* most, and no other batch is held.                                       *)
DigestInv ==
    /\ DigestTypeOK /\ hour =< MaxHour + 1
    /\ \A j, k \in BatchIds : \A e \in Events :
          e \in batches[j].items /\ e \in batches[k].items => j = k
    /\ \A e \in Events : scheduled[e] = Queued \/ sends[e] = 0
    /\ \A p, q \in Processors : Holds(p) /\ Holds(q) /\ pass[p].batch = pass[q].batch => p = q
    /\ \A p \in Processors : PassInv(p)
    /\ \A k \in BatchIds : BatchInv(k)
    /\ \A k \in BatchIds \ stranded :
          batches[k].status = "processing" => \E p \in Processors : Holds(p) /\ pass[p].batch = k

(* The facts about types that the steps below use.                         *)
LEMMA DigestFacts ==
    ASSUME DigestInv
    PROVE  /\ hour \in Nat /\ MaxHour \in Nat /\ Len(batches) \in Nat /\ Queued = MaxHour + 2
           /\ \A k \in BatchIds : batches[k] \in BatchRows /\ batches[k].items \subseteq Events
           /\ \A p \in Processors : pass[p] \in PassStates /\ (Holds(p) => pass[p].batch \in BatchIds)
           /\ \A e \in Events : sends[e] \in Nat
           /\ 0 \notin BatchIds /\ batches \in Seq(BatchRows)
  <1>1. batches \in Seq(BatchRows) /\ hour \in Nat /\ Queued = MaxHour + 2 /\ MaxHour \in Nat
        /\ pass \in [Processors -> PassStates] /\ sends \in [Events -> Nat]
        /\ \A p \in Processors : Holds(p) => pass[p].batch \in BatchIds
    BY DigestAssumption DEF DigestInv, DigestTypeOK, Queued, Holds
  <1>2. Len(batches) \in Nat /\ 0 \notin BatchIds  BY <1>1 DEF BatchIds
  <1>3. \A k \in BatchIds : batches[k] \in BatchRows  BY <1>1 DEF BatchIds
  <1>4. \A k \in BatchIds : batches[k].items \subseteq Events  BY <1>3 DEF BatchRows
  <1> QED BY <1>1, <1>2, <1>3, <1>4

-----------------------------------------------------------------------------
(* A statement on one batch that leaves its items alone.                   *)
RowStep(k, status) ==
    /\ batches' \in Seq(BatchRows) /\ BatchIds' = BatchIds
    /\ \A j \in BatchIds : /\ batches'[j].items = batches[j].items
                           /\ batches'[j].status = IF j = k THEN status ELSE batches[j].status

(* An update of one row that keeps its items is such a statement.          *)
LEMMA RowStepOf ==
    ASSUME DigestInv, NEW k \in BatchIds, NEW row \in BatchRows, row.items = batches[k].items,
           batches' = [batches EXCEPT ![k] = row]
    PROVE  RowStep(k, row.status)
  <1>1. batches' \in Seq(BatchRows) /\ Len(batches') = Len(batches)
    BY DigestFacts DEF BatchIds
  <1>2. \A j \in BatchIds : batches'[j] = IF j = k THEN row ELSE batches[j]
    BY DigestFacts DEF BatchIds
  <1> QED BY <1>1, <1>2 DEF RowStep, BatchIds

(* The statement of a claim, a mark or a retry, as a row of its own.       *)
LEMMA RowOfStep ==
    ASSUME DigestInv, NEW k \in BatchIds, NEW status \in BatchStatuses, NEW attempts \in Nat, NEW due \in Nat
    PROVE  /\ [batches[k] EXCEPT !.status = status] \in BatchRows
           /\ [batches[k] EXCEPT !.status = status, !.attempts = attempts] \in BatchRows
           /\ [batches[k] EXCEPT !.status = status, !.due = due] \in BatchRows
  <1>1. batches[k] \in BatchRows  BY DigestFacts
  <1>2. [batches[k] EXCEPT !.status = status] \in BatchRows  BY <1>1 DEF BatchRows
  <1> QED BY <1>2 DEF BatchRows

(* A pass gives up its batch, which is marked or stranded.                 *)
LEMMA PassEndsTyped ==
    ASSUME DigestInv, NEW p \in Processors, PassEnds(p)
    PROVE  /\ pass' \in [Processors -> PassStates]
           /\ ~Holds(p)' /\ pass'[p] = IdlePass /\ \A q \in Processors \ {p} : pass'[q] = pass[q]
  <1>1. IdlePass \in PassStates /\ IdlePass.phase = "none"  BY DEF IdlePass, PassStates
  <1> QED BY <1>1 DEF PassEnds, Holds, DigestInv, DigestTypeOK

(* A pass takes its next step on the same batch.                           *)
LEMMA GoOnTyped ==
    ASSUME DigestInv, NEW p \in Processors, NEW phase \in {"loaded", "delivered", "undelivered"},
           Holds(p), GoOn(p, phase)
    PROVE  /\ pass' \in [Processors -> PassStates]
           /\ pass'[p].phase = phase /\ pass'[p].batch = pass[p].batch
           /\ pass'[p].items = pass[p].items
           /\ \A q \in Processors \ {p} : pass'[q] = pass[q]
  <1>1. pass[p] \in PassStates  BY DigestFacts
  <1>2. [pass[p] EXCEPT !.phase = phase] \in PassStates  BY <1>1 DEF PassStates
  <1>3. pass' = [pass EXCEPT ![p] = [pass[p] EXCEPT !.phase = phase]]  BY DEF GoOn
  <1>4. /\ [pass[p] EXCEPT !.phase = phase].phase = phase
        /\ [pass[p] EXCEPT !.phase = phase].batch = pass[p].batch
        /\ [pass[p] EXCEPT !.phase = phase].items = pass[p].items
    BY <1>1 DEF PassStates
  <1> QED BY <1>2, <1>3, <1>4 DEF DigestInv, DigestTypeOK

-----------------------------------------------------------------------------
(* Scheduling an event: it is in no batch yet.                             *)
LEMMA ScheduleKeeps == ASSUME DigestInv, NEW e \in Events, Schedule(e) PROVE DigestInv'
  <1>1. hour \in Nat /\ MaxHour \in Nat /\ Queued = MaxHour + 2 /\ hour =< MaxHour + 1
    BY DigestFacts DEF DigestInv
  <1>2. hour + 1 \in 0..Queued  BY <1>1
  <1>3. scheduled' \in [Events -> 0..Queued]
    BY <1>2 DEF Schedule, DigestInv, DigestTypeOK
  <1>4. \A f \in Events : f # e => scheduled'[f] = scheduled[f]
    BY DEF Schedule, DigestInv, DigestTypeOK
  <1>5. scheduled[e] # Queued  BY <1>1 DEF Schedule
  <1>6. UNCHANGED <<batches, hour, pass, sends, unsure, stranded, digestFaults, BatchIds, Queued>>
    BY DEF Schedule, BatchIds, Queued
  <1>7. DigestTypeOK'  BY <1>3, <1>6 DEF DigestInv, DigestTypeOK
  <1>8. \A k \in BatchIds' : BatchInv(k)'
    BY <1>4, <1>5, <1>6, DigestFacts DEF DigestInv, BatchInv
  <1>9. \A p \in Processors : PassInv(p)'  BY <1>6 DEF DigestInv, PassInv, Holds
  <1>10. \A f \in Events : (scheduled[f] = Queued \/ sends[f] = 0)'
    BY <1>4, <1>5, <1>6 DEF DigestInv
  <1> QED BY <1>6, <1>7, <1>8, <1>9, <1>10 DEF DigestInv, Holds

(* Queueing an item: it joins a pending batch or opens a new one, and no   *)
(* pass has either.                                                        *)
LEMMA QueueKeeps == ASSUME DigestInv, NEW e \in Events, QueueDigestItem(e) PROVE DigestInv'
  <1>1. hour \in Nat /\ MaxHour \in Nat /\ Queued = MaxHour + 2 /\ Queued' = Queued
        /\ scheduled[e] \in 1..(MaxHour + 1) /\ scheduled[e] # Queued /\ Queued \in 0..Queued
    BY DigestFacts DEF QueueDigestItem, Queued
  <1>2. /\ scheduled' \in [Events -> 0..Queued] /\ scheduled'[e] = Queued
        /\ \A f \in Events : f # e => scheduled'[f] = scheduled[f]
    BY <1>1 DEF QueueDigestItem, DigestInv, DigestTypeOK
  <1>3. sends[e] = 0 /\ \A k \in BatchIds : e \notin batches[k].items
    BY <1>1 DEF DigestInv, BatchInv
  <1>4. PICK k \in Nat \ {0} :
           /\ batches' \in Seq(BatchRows) /\ BatchIds' = BatchIds \cup {k}
           /\ \A j \in BatchIds \ {k} : batches'[j] = batches[j]
           /\ batches'[k].status = "pending"
           /\ IF k \in BatchIds
              THEN batches[k].status = "pending" /\ batches'[k].items = batches[k].items \cup {e}
              ELSE batches'[k].items = {e}
    <2>1. CASE \E k \in BatchIds : Joinable(k, scheduled[e])
      <3>1. PICK k \in BatchIds : /\ Joinable(k, scheduled[e])
                                  /\ batches' = [batches EXCEPT ![k].items = @ \cup {e}]
        BY <2>1 DEF QueueDigestItem
      <3> DEFINE row == [batches[k] EXCEPT !.items = @ \cup {e}]
      <3>2. row \in BatchRows /\ row.status = batches[k].status /\ row.items = batches[k].items \cup {e}
        BY DigestFacts DEF BatchRows
      <3>3. batches' = [batches EXCEPT ![k] = row]  BY <3>1
      <3>4. batches' \in Seq(BatchRows) /\ Len(batches') = Len(batches)
            /\ \A j \in BatchIds : batches'[j] = IF j = k THEN row ELSE batches[j]
        BY <3>2, <3>3, DigestFacts DEF BatchIds
      <3>5. k \in Nat \ {0} /\ BatchIds' = BatchIds \cup {k}
        BY <3>4, DigestFacts DEF BatchIds
      <3> QED BY <3>1, <3>2, <3>4, <3>5 DEF Joinable
    <2>2. CASE ~(\E k \in BatchIds : Joinable(k, scheduled[e]))
      <3> DEFINE row == [slot |-> scheduled[e], status |-> "pending", attempts |-> 0,
                         due |-> scheduled[e], items |-> {e}]
                 k == Len(batches) + 1
      <3>1. row \in BatchRows /\ row.status = "pending" /\ row.items = {e}
        BY <1>1 DEF BatchRows, BatchStatuses
      <3>2. batches' = Append(batches, row)  BY <2>2 DEF QueueDigestItem
      <3>3. /\ batches' \in Seq(BatchRows) /\ Len(batches') = Len(batches) + 1
            /\ batches'[k] = row /\ \A j \in BatchIds : batches'[j] = batches[j]
        BY <3>1, <3>2, DigestFacts DEF BatchIds
      <3>4. k \in Nat \ {0} /\ k \notin BatchIds /\ BatchIds' = BatchIds \cup {k}
        BY <3>3, DigestFacts DEF BatchIds
      <3> HIDE DEF k, row
      <3> QED BY <3>1, <3>3, <3>4
    <2> QED BY <2>1, <2>2
  <1>5. UNCHANGED <<hour, pass, sends, unsure, stranded, digestFaults>>  BY DEF QueueDigestItem
  <1>6. DigestTypeOK'  BY <1>1, <1>2, <1>4, <1>5 DEF DigestInv, DigestTypeOK
  <1>7. \A i, j \in BatchIds' : \A f \in Events :
           f \in batches'[i].items /\ f \in batches'[j].items => i = j
    BY <1>3, <1>4 DEF DigestInv
  <1>8. \A f \in Events : (scheduled[f] = Queued \/ sends[f] = 0)'
    BY <1>1, <1>2, <1>5 DEF DigestInv
  <1>9. ASSUME NEW p \in Processors PROVE PassInv(p)'
    <2>1. CASE Holds(p)
      <3>1. pass[p].batch \in BatchIds /\ pass[p].batch # k
        BY <1>4, <2>1, DigestFacts DEF DigestInv, PassInv
      <3>2. batches'[pass[p].batch] = batches[pass[p].batch]  BY <1>4, <3>1
      <3> QED BY <1>5, <3>2 DEF DigestInv, PassInv, Holds
    <2>2. CASE ~Holds(p)  BY <1>5, <2>2 DEF DigestInv, PassInv, Holds
    <2> QED BY <2>1, <2>2
  <1>10. ASSUME NEW j \in BatchIds' PROVE BatchInv(j)'
    <2>1. CASE j # k
      <3>1. j \in BatchIds /\ batches'[j] = batches[j]  BY <1>4, <2>1
      <3>2. \A f \in batches[j].items : f \in Events /\ f # e /\ scheduled'[f] = scheduled[f]
        BY <1>2, <1>3, <3>1, DigestFacts
      <3> QED BY <1>1, <1>5, <3>1, <3>2 DEF DigestInv, BatchInv
    <2>2. CASE j = k
      <3>1. CASE k \in BatchIds
        <4>1. \A f \in batches[k].items : f \in Events /\ f # e /\ scheduled'[f] = scheduled[f]
          BY <1>2, <1>3, <3>1, DigestFacts
        <4> QED BY <1>1, <1>2, <1>3, <1>4, <1>5, <2>2, <3>1, <4>1 DEF DigestInv, BatchInv
      <3>2. CASE k \notin BatchIds
        BY <1>1, <1>2, <1>3, <1>4, <1>5, <2>2, <3>2 DEF BatchInv
      <3> QED BY <3>1, <3>2
    <2> QED BY <2>1, <2>2
  <1>11. \A j \in (BatchIds \ stranded)' : batches'[j].status = "processing" =>
            \E p \in Processors : (Holds(p) /\ pass[p].batch = j)'
    BY <1>4, <1>5 DEF DigestInv, Holds
  <1> QED BY <1>5, <1>6, <1>7, <1>8, <1>9, <1>10, <1>11 DEF DigestInv, Holds

(* A claim takes a pending batch, which no pass holds.                     *)
LEMMA ClaimKeeps == ASSUME DigestInv, NEW p \in Processors, ClaimDueDigestBatch(p) PROVE DigestInv'
  <1>1. PICK k \in BatchIds :
           /\ batches[k].status = "pending"
           /\ batches' = [batches EXCEPT ![k].status = "processing", ![k].attempts = @ + 1]
           /\ pass' = [pass EXCEPT ![p] = [phase |-> "claimed", batch |-> k, items |-> {}]]
    BY DEF ClaimDueDigestBatch, Claimable
  <1>2. ~Holds(p)  BY DEF ClaimDueDigestBatch, Holds, IdlePass
  <1>3. RowStep(k, "processing")
    <2> DEFINE row == [batches[k] EXCEPT !.status = "processing", !.attempts = @ + 1]
    <2>1. batches[k].attempts + 1 \in Nat  BY DigestFacts DEF BatchRows
    <2>2. row \in BatchRows  BY <2>1, RowOfStep DEF BatchStatuses
    <2>3. row.items = batches[k].items /\ row.status = "processing"  BY DigestFacts DEF BatchRows
    <2>4. batches' = [batches EXCEPT ![k] = row]  BY <1>1, DigestFacts DEF BatchIds
    <2> QED BY <2>2, <2>3, <2>4, RowStepOf
  <1>4. /\ pass' \in [Processors -> PassStates] /\ pass'[p].phase = "claimed" /\ pass'[p].batch = k
        /\ \A q \in Processors \ {p} : pass'[q] = pass[q]
    <2>1. [phase |-> "claimed", batch |-> k, items |-> {}] \in PassStates
      BY DigestFacts DEF PassStates, BatchIds
    <2> QED BY <1>1, <2>1 DEF DigestInv, DigestTypeOK
  <1>5. UNCHANGED <<hour, scheduled, sends, unsure, stranded, digestFaults, Queued>>
    BY DEF ClaimDueDigestBatch, Queued
  <1>6. \A q \in Processors \ {p} : Holds(q)' = Holds(q) /\ (Holds(q) => pass[q].batch # k)
    BY <1>1, <1>4 DEF DigestInv, PassInv, Holds
  <1>7. DigestTypeOK'  BY <1>3, <1>4, <1>5 DEF DigestInv, DigestTypeOK, RowStep, Holds
  <1>8. \A i, j \in BatchIds' : \A f \in Events :
           f \in batches'[i].items /\ f \in batches'[j].items => i = j
    BY <1>3 DEF DigestInv, RowStep
  <1>9. \A q, r \in Processors : (Holds(q) /\ Holds(r) /\ pass[q].batch = pass[r].batch => q = r)'
    BY <1>4, <1>6 DEF DigestInv
  <1>10. ASSUME NEW q \in Processors PROVE PassInv(q)'
    <2>1. CASE q = p
      BY <1>1, <1>3, <1>4, <1>5, <2>1 DEF DigestInv, PassInv, BatchInv, RowStep, Holds
    <2>2. CASE q # p
      BY <1>3, <1>4, <1>5, <1>6, <2>2, DigestFacts, SMTT(20) DEF DigestInv, PassInv, RowStep
    <2> QED BY <2>1, <2>2
  <1>11. \A j \in BatchIds' : BatchInv(j)'
    BY <1>3, <1>5 DEF DigestInv, BatchInv, RowStep
  <1>12. ASSUME NEW j \in (BatchIds \ stranded)', batches'[j].status = "processing"
         PROVE  \E q \in Processors : (Holds(q) /\ pass[q].batch = j)'
    <2>1. CASE j = k  BY <1>4, <2>1 DEF Holds
    <2>2. CASE j # k
      <3>1. PICK q \in Processors : Holds(q) /\ pass[q].batch = j
        BY <1>3, <1>5, <1>12, <2>2 DEF DigestInv, RowStep
      <3> QED BY <1>2, <1>4, <1>6, <3>1
    <2> QED BY <2>1, <2>2
  <1> QED BY <1>5, <1>7, <1>8, <1>9, <1>10, <1>11, <1>12 DEF DigestInv

(* Loading the items, or failing to.                                       *)
LEMMA LoadKeeps == ASSUME DigestInv, NEW p \in Processors, GetDigestBatchByID(p) PROVE DigestInv'
  <1>1. Holds(p) /\ pass[p].phase = "claimed" /\ pass[p].batch \in BatchIds /\ pass[p] \in PassStates
    BY DigestFacts DEF GetDigestBatchByID, Holds
  <1>2. /\ pass' \in [Processors -> PassStates] /\ pass'[p].batch = pass[p].batch
        /\ \A q \in Processors \ {p} : pass'[q] = pass[q]
        /\ \/ pass'[p].phase = "loaded" /\ pass'[p].items = batches[pass[p].batch].items
           \/ pass'[p].phase = "undelivered"
        /\ digestFaults' \in Nat
    <2>1. CASE GoOn(p, "undelivered") /\ Fault
      BY <1>1, <2>1, GoOnTyped DEF Fault, DigestInv, DigestTypeOK
    <2>2. CASE /\ UNCHANGED digestFaults
               /\ pass' = [pass EXCEPT ![p].phase = "loaded", ![p].items = batches[pass[p].batch].items]
      <3> DEFINE items == batches[pass[p].batch].items
                 state == [pass[p] EXCEPT !.phase = "loaded", !.items = items]
      <3>1. items \in SUBSET Events  BY <1>1, DigestFacts
      <3>2. [pass[p] EXCEPT !.phase = "loaded"] \in PassStates  BY <1>1 DEF PassStates
      <3>3. state \in PassStates /\ state.phase = "loaded" /\ state.items = items
            /\ state.batch = pass[p].batch
        BY <3>1, <3>2 DEF PassStates
      <3>4. pass' = [pass EXCEPT ![p] = state]  BY <2>2 DEF DigestInv, DigestTypeOK
      <3> QED BY <2>2, <3>3, <3>4 DEF DigestInv, DigestTypeOK
    <2> QED BY <2>1, <2>2 DEF GetDigestBatchByID
  <1>3. UNCHANGED <<batches, hour, scheduled, sends, unsure, stranded, BatchIds, Queued>>
    BY DEF GetDigestBatchByID, BatchIds, Queued
  <1>4. Holds(p)' /\ \A q \in Processors : Holds(q)' = Holds(q) /\ pass'[q].batch = pass[q].batch
    BY <1>1, <1>2 DEF Holds
  <1>5. DigestTypeOK'  BY <1>2, <1>3, <1>4 DEF DigestInv, DigestTypeOK, Holds
  <1>6. ASSUME NEW q \in Processors PROVE PassInv(q)'
    <2>1. CASE q = p  BY <1>1, <1>2, <1>3, <1>4, <2>1 DEF DigestInv, PassInv
    <2>2. CASE q # p  BY <1>2, <1>3, <2>2 DEF DigestInv, PassInv, Holds
    <2> QED BY <2>1, <2>2
  <1>7. \A k \in BatchIds' : BatchInv(k)'  BY <1>3 DEF DigestInv, BatchInv
  <1> QED BY <1>3, <1>4, <1>5, <1>6, <1>7 DEF DigestInv

(* The deliveries of a batch's items reach events of that batch alone.     *)
LEMMA SendsTyped ==
    ASSUME DigestInv, NEW items \in SUBSET Events, Sends(items)
    PROVE  /\ sends' \in [Events -> Nat]
           /\ \A e \in Events : sends'[e] = IF e \in items THEN sends[e] + 1 ELSE sends[e]
  BY DigestFacts DEF Sends

(* The delivery of a batch, certain or not: its events, and no others, are *)
(* sent once more.                                                         *)
LEMMA DeliverKeeps == ASSUME DigestInv, NEW p \in Processors, Deliver(p) PROVE DigestInv'
  <1> DEFINE k == pass[p].batch
  <1>1. /\ Holds(p) /\ pass[p].phase = "loaded" /\ k \in BatchIds /\ pass[p] \in PassStates
        /\ pass[p].items = batches[k].items /\ pass[p].items \subseteq Events
    BY DigestFacts DEF Deliver, Holds, DigestInv, PassInv
  <1>2. /\ pass' \in [Processors -> PassStates] /\ pass'[p].batch = k
        /\ pass'[p].phase \in {"delivered", "undelivered"}
        /\ \A q \in Processors \ {p} : pass'[q] = pass[q]
    BY <1>1, GoOnTyped DEF Deliver
  <1>3. UNCHANGED <<batches, hour, scheduled, stranded, BatchIds, Queued>>
    BY DEF Deliver, BatchIds, Queued
  <1>4. /\ digestFaults' \in Nat
        /\ \/ Sends(pass[p].items) /\ pass'[p].phase = "delivered" /\ unsure' = unsure
           \/ sends' = sends /\ pass'[p].phase = "undelivered" /\ unsure' = unsure
           \/ Sends(pass[p].items) /\ pass'[p].phase = "undelivered" /\ unsure' = unsure \cup {k}
    <2>1. CASE Sends(pass[p].items) /\ GoOn(p, "delivered") /\ UNCHANGED <<unsure, digestFaults>>
      BY <1>1, <2>1, GoOnTyped DEF DigestInv, DigestTypeOK
    <2>2. CASE Fault /\ GoOn(p, "undelivered") /\ UNCHANGED <<sends, unsure>>
      BY <1>1, <2>2, GoOnTyped DEF DigestInv, DigestTypeOK, Fault
    <2>3. CASE Fault /\ GoOn(p, "undelivered") /\ Sends(pass[p].items)
               /\ unsure' = unsure \cup {pass[p].batch}
      BY <1>1, <2>3, GoOnTyped DEF DigestInv, DigestTypeOK, Fault
    <2> QED BY <2>1, <2>2, <2>3 DEF Deliver
  <1>5. /\ sends' \in [Events -> Nat] /\ unsure \subseteq unsure' /\ unsure' \subseteq BatchIds
        /\ \A e \in Events \ batches[k].items : sends'[e] = sends[e]
        /\ \A e \in batches[k].items : sends'[e] \in {sends[e], sends[e] + 1}
    BY <1>1, <1>4, SendsTyped DEF DigestInv, DigestTypeOK
  <1>6. Holds(p)' /\ \A q \in Processors : Holds(q)' = Holds(q) /\ pass'[q].batch = pass[q].batch
    BY <1>1, <1>2 DEF Holds
  <1>7. DigestTypeOK'  BY <1>2, <1>3, <1>4, <1>5, <1>6 DEF DigestInv, DigestTypeOK, Holds
  <1>8. \A j \in BatchIds \ {k} : \A e \in batches[j].items : e \in Events /\ sends'[e] = sends[e]
    BY <1>1, <1>5, DigestFacts DEF DigestInv
  <1>9. \A j \in BatchIds \ {k} : (j \in unsure') = (j \in unsure)  BY <1>4
  <1>10. \A e \in batches[k].items : /\ e \in Events /\ sends[e] \in Nat
                                     /\ k \in unsure \/ sends[e] = 0
    BY <1>1, DigestFacts DEF DigestInv, PassInv
  <1>11. \A e \in batches[k].items :
            /\ IF pass'[p].phase = "delivered" THEN sends'[e] > 0 ELSE k \in unsure' \/ sends'[e] = 0
            /\ k \in unsure' \/ sends'[e] =< 1
    BY <1>1, <1>4, <1>10, SendsTyped
  <1>12. ASSUME NEW q \in Processors PROVE PassInv(q)'
    <2>1. CASE q = p  BY <1>1, <1>2, <1>3, <1>6, <1>11, <2>1, GoOnTyped DEF DigestInv, PassInv, Deliver
    <2>2. CASE q # p /\ Holds(q)
      <3>1. pass[q].batch \in BatchIds \ {k}  BY <1>1, <2>2, DigestFacts DEF DigestInv
      <3> QED BY <1>2, <1>3, <1>6, <1>8, <1>9, <2>2, <3>1 DEF DigestInv, PassInv
    <2>3. CASE ~Holds(q)  BY <1>1, <1>2, <1>6, <2>3 DEF DigestInv, PassInv
    <2> QED BY <2>1, <2>2, <2>3
  <1>13. ASSUME NEW j \in BatchIds' PROVE BatchInv(j)'
    <2>1. CASE j = k
      <3>1. batches[k].status = "processing"  BY <1>1 DEF DigestInv, PassInv
      <3> QED BY <1>1, <1>3, <1>11, <2>1, <3>1 DEF DigestInv, BatchInv
    <2>2. CASE j # k  BY <1>3, <1>8, <1>9, <2>2 DEF DigestInv, BatchInv
    <2> QED BY <2>1, <2>2
  <1>14. \A e \in Events : (scheduled[e] = Queued \/ sends[e] = 0)'
    BY <1>1, <1>3, <1>5 DEF DigestInv, BatchInv
  <1> QED BY <1>3, <1>6, <1>7, <1>12, <1>13, <1>14 DEF DigestInv

(* A pass lets go of its batch, which keeps its items.                     *)
LEMMA LetGoKeeps ==
    ASSUME DigestInv, NEW p \in Processors, Holds(p), PassEnds(p),
           NEW status \in BatchStatuses, RowStep(pass[p].batch, status),
           stranded \subseteq stranded', stranded' \subseteq BatchIds,
           status = "processing" => pass[p].batch \in stranded',
           status = "sent" => pass[p].phase = "delivered",
           status = "pending" => pass[p].phase # "delivered",
           digestFaults' \in Nat, UNCHANGED <<hour, scheduled, sends, unsure>>
    PROVE  DigestInv'
  <1> DEFINE k == pass[p].batch
  <1>1. /\ pass' \in [Processors -> PassStates] /\ ~Holds(p)'
        /\ pass'[p] = IdlePass /\ \A q \in Processors \ {p} : pass'[q] = pass[q]
    BY PassEndsTyped
  <1>2. /\ BatchIds' = BatchIds /\ Queued' = Queued /\ k \in BatchIds
        /\ \A j \in BatchIds : batches'[j].items = batches[j].items
        /\ \A j \in BatchIds \ {k} : batches'[j].status = batches[j].status
        /\ batches'[k].status = status
    BY DigestFacts DEF RowStep, Queued
  <1>3. \A q \in Processors : Holds(q)' => q # p /\ Holds(q) /\ pass'[q].batch = pass[q].batch
    BY <1>1 DEF Holds
  <1>4. DigestTypeOK'
    BY <1>1, <1>2, <1>3, DigestFacts DEF DigestInv, DigestTypeOK, RowStep, Holds
  <1>5. ASSUME NEW q \in Processors PROVE PassInv(q)'
    <2>1. CASE Holds(q)'
      <3>1. q # p /\ Holds(q) /\ pass[q].batch \in BatchIds \ {k} /\ pass'[q] = pass[q]
        BY <1>1, <1>3, <2>1, DigestFacts DEF DigestInv
      <3> QED BY <1>2, <2>1, <3>1 DEF DigestInv, PassInv
    <2>2. CASE ~Holds(q)'  BY <1>1, <2>2 DEF DigestInv, PassInv, Holds
    <2> QED BY <2>1, <2>2
  <1>6. ASSUME NEW j \in BatchIds' PROVE BatchInv(j)'
    <2>1. CASE j = k
      BY <1>2, <2>1 DEF DigestInv, BatchInv, PassInv
    <2>2. CASE j # k  BY <1>2, <2>2 DEF DigestInv, BatchInv
    <2> QED BY <2>1, <2>2
  <1>7. ASSUME NEW j \in (BatchIds \ stranded)', batches'[j].status = "processing"
        PROVE  \E q \in Processors : (Holds(q) /\ pass[q].batch = j)'
    <2>1. j # k /\ j \in BatchIds \ stranded /\ batches[j].status = "processing"  BY <1>2, <1>7
    <2>2. PICK q \in Processors : Holds(q) /\ pass[q].batch = j  BY <2>1 DEF DigestInv
    <2> QED BY <1>1, <2>1, <2>2 DEF Holds
  <1> QED BY <1>2, <1>3, <1>4, <1>5, <1>6, <1>7 DEF DigestInv

(* A batch that keeps its row keeps its status.                            *)
LEMMA NoRowStep ==
    ASSUME DigestInv, NEW k \in BatchIds, UNCHANGED batches
    PROVE  RowStep(k, batches[k].status) /\ batches[k].status \in BatchStatuses
  BY DigestFacts DEF RowStep, BatchIds, BatchRows

(* Marking a delivered batch.                                              *)
LEMMA MarkSentKeeps == ASSUME DigestInv, NEW p \in Processors, MarkDigestBatchSent(p) PROVE DigestInv'
  <1> DEFINE k == pass[p].batch
             row == [batches[k] EXCEPT !.status = "sent"]
  <1>1. Holds(p) /\ k \in BatchIds /\ pass[p].phase = "delivered" /\ batches[k].status = "processing"
    BY DigestFacts DEF MarkDigestBatchSent, Holds, DigestInv, PassInv
  <1>2. row \in BatchRows /\ row.items = batches[k].items /\ row.status = "sent"
    BY <1>1, DigestFacts DEF BatchRows, BatchStatuses
  <1>3. batches' = [batches EXCEPT ![k] = row]  BY <1>1 DEF MarkDigestBatchSent
  <1>4. RowStep(k, "sent")  BY <1>1, <1>2, <1>3, RowStepOf
  <1> QED BY <1>1, <1>4, LetGoKeeps DEF MarkDigestBatchSent, BatchStatuses, DigestInv, DigestTypeOK

(* Marking a batch whose delivery failed: it waits for another attempt,    *)
(* fails for good, or is stranded when another batch took its slot.        *)
LEMMA MarkFailedKeeps ==
    ASSUME DigestInv, NEW p \in Processors, MarkDigestBatchFailed(p) PROVE DigestInv'
  <1> DEFINE k == pass[p].batch
             retry == batches[k].attempts < MaxAttempts
             taken == \E j \in BatchIds \ {k} : Joinable(j, batches[k].slot)
  <1>1. /\ Holds(p) /\ k \in BatchIds /\ pass[p].phase = "undelivered"
        /\ batches[k].status = "processing" /\ PassEnds(p)
        /\ UNCHANGED <<hour, scheduled, sends, unsure, digestFaults>>
    BY DigestFacts DEF MarkDigestBatchFailed, Holds, DigestInv, PassInv
  <1>2. stranded \subseteq BatchIds /\ digestFaults' \in Nat
    BY <1>1 DEF DigestInv, DigestTypeOK
  <1>3. CASE retry /\ taken
    <2>1. stranded' = stranded \cup {k} /\ UNCHANGED batches
      BY <1>3 DEF MarkDigestBatchFailed
    <2>2. RowStep(k, "processing")  BY <1>1, <2>1, NoRowStep
    <2> QED BY <1>1, <1>2, <2>1, <2>2, LetGoKeeps DEF BatchStatuses
  <1>4. CASE ~(retry /\ taken) /\ retry
    <2> DEFINE row == [batches[k] EXCEPT !.status = "pending", !.due = hour + 1]
    <2>1. /\ batches' = [batches EXCEPT ![k].status = "pending", ![k].due = hour + 1]
          /\ stranded' = stranded
      BY <1>1, <1>4 DEF MarkDigestBatchFailed, Retryable
    <2>2. hour + 1 \in Nat /\ 0 \in Nat /\ "pending" \in BatchStatuses
      BY DigestFacts DEF BatchStatuses
    <2>3. row \in BatchRows  BY <1>1, <2>2, RowOfStep
    <2>4. row.items = batches[k].items /\ row.status = "pending"
      BY <1>1, DigestFacts DEF BatchRows
    <2>5. batches' = [batches EXCEPT ![k] = row]  BY <1>1, <2>1, DigestFacts DEF BatchIds
    <2>6. RowStep(k, "pending")  BY <1>1, <2>3, <2>4, <2>5, RowStepOf
    <2> QED BY <1>1, <1>2, <2>1, <2>6, LetGoKeeps DEF BatchStatuses
  <1>5. CASE ~(retry /\ taken) /\ ~retry
    <2> DEFINE row == [batches[k] EXCEPT !.status = "failed"]
    <2>1. batches' = [batches EXCEPT ![k] = row] /\ stranded' = stranded
      BY <1>1, <1>5 DEF MarkDigestBatchFailed, Retryable
    <2>2. row \in BatchRows /\ row.items = batches[k].items /\ row.status = "failed"
      BY <1>1, DigestFacts DEF BatchRows, BatchStatuses
    <2>3. RowStep(k, "failed")  BY <1>1, <2>1, <2>2, RowStepOf
    <2> QED BY <1>1, <1>2, <2>1, <2>3, LetGoKeeps DEF BatchStatuses
  <1> QED BY <1>3, <1>4, <1>5

(* A pass that stops strands its batch.                                    *)
LEMMA PassFailsKeeps == ASSUME DigestInv, NEW p \in Processors, PassFails(p) PROVE DigestInv'
  <1> DEFINE k == pass[p].batch
  <1>1. Holds(p) /\ k \in BatchIds /\ batches[k].status = "processing"
    BY DigestFacts DEF PassFails, DigestInv, PassInv
  <1>2. RowStep(k, "processing")  BY <1>1, NoRowStep DEF PassFails
  <1>3. stranded \subseteq BatchIds /\ digestFaults' \in Nat
    BY DEF PassFails, Fault, DigestInv, DigestTypeOK
  <1>4. stranded' = stranded \cup {k} /\ PassEnds(p) /\ UNCHANGED <<hour, scheduled, sends, unsure>>
    BY DEF PassFails
  <1> QED BY <1>1, <1>2, <1>3, <1>4, LetGoKeeps DEF BatchStatuses

(* An hour passes.                                                         *)
LEMMA HourKeeps == ASSUME DigestInv, HourPasses PROVE DigestInv'
  <1>1. hour' \in Nat /\ hour' =< MaxHour + 1  BY DigestFacts DEF HourPasses
  <1>2. UNCHANGED <<batches, scheduled, pass, sends, unsure, stranded, digestFaults, BatchIds, Queued>>
    BY DEF HourPasses, BatchIds, Queued
  <1> QED BY <1>1, <1>2 DEF DigestInv, DigestTypeOK, PassInv, BatchInv, Holds

(* Nothing is scheduled, queued or held initially.                         *)
LEMMA DigestInitially == DigestInit => DigestInv
  <1> SUFFICES ASSUME DigestInit PROVE DigestInv
    OBVIOUS
  <1>1. batches = << >> /\ BatchIds = {} /\ hour = 1  BY DEF DigestInit, BatchIds
  <1>2. MaxHour \in Nat /\ Queued = MaxHour + 2 /\ 0 \in 0..Queued
    BY DigestAssumption DEF Queued
  <1>3. IdlePass \in PassStates /\ IdlePass.phase = "none"  BY DEF IdlePass, PassStates
  <1>4. \A p \in Processors : pass[p] = IdlePass /\ ~Holds(p)  BY <1>3 DEF DigestInit, Holds
  <1>5. DigestTypeOK  BY <1>1, <1>2, <1>3, <1>4 DEF DigestInit, DigestTypeOK, Holds
  <1>6. \A p \in Processors : PassInv(p)  BY <1>4 DEF PassInv
  <1> QED BY <1>1, <1>2, <1>4, <1>5, <1>6 DEF DigestInit, DigestInv

(* Every step of a pass, a producer or the clock keeps the invariant.      *)
LEMMA DigestStep == DigestInv /\ [DigestNext]_digestVars => DigestInv'
  <1> SUFFICES ASSUME DigestInv, [DigestNext]_digestVars PROVE DigestInv'
    OBVIOUS
  <1>1. CASE UNCHANGED digestVars
    BY <1>1 DEF digestVars, DigestInv, DigestTypeOK, PassInv, BatchInv, Holds, BatchIds, Queued
  <1> QED BY <1>1, ScheduleKeeps, QueueKeeps, ClaimKeeps, LoadKeeps, DeliverKeeps, MarkSentKeeps,
             MarkFailedKeeps, PassFailsKeeps, HourKeeps DEF DigestNext

(* The inductive invariant holds of the digests, for every number of       *)
(* processors, events, attempts and faults.                                *)
THEOREM DigestInvariant == DigestSpec => []DigestInv
  BY DigestInitially, DigestStep, PTL DEF DigestSpec

(* A batch marked sent was delivered, and no event is delivered twice      *)
(* unless the answer of a delivery of its batch was lost (digest           *)
(* processor, ClaimDueDigestBatch, MarkDigestBatchSent).                   *)
THEOREM DigestsDeliverOnce == DigestSpec => []DeliveredOnce
  <1>1. DigestInv => DeliveredOnce
    <2> SUFFICES ASSUME DigestInv, NEW k \in BatchIds, NEW e \in batches[k].items
                 PROVE  /\ batches[k].status = "sent" => sends[e] > 0
                        /\ k \notin unsure => sends[e] =< 1
      BY DEF DeliveredOnce
    <2> QED BY DEF DigestInv, BatchInv
  <1> QED BY <1>1, DigestInvariant, PTL

(* A batch in processing is in the hands of a pass unless a pass stopped   *)
(* or could not give it back (MarkDigestBatchFailed): nothing else leaves  *)
(* a batch where no later pass claims it.                                  *)
THEOREM DigestsAreAttended == DigestSpec => []ProcessingIsAttended
  <1>1. DigestInv => ProcessingIsAttended  BY DEF DigestInv, ProcessingIsAttended
  <1> QED BY <1>1, DigestInvariant, PTL

-----------------------------------------------------------------------------
HasInHand(p, k) == k \in passes[p].rest \/ passes[p].current = k
Awaits(p, k) == passes[p].current = k /\ passes[p].answer = "waiting"

Rearmable(row) == row.status = "pending" /\ ~row.deleted

(* Its notification has gone out, or is about to, or a report of it came   *)
(* to none.  Nothing takes this back.                                      *)
Reported(k) == reminders[k].notified > 0 \/ reminders[k].claim = "open" \/ k \in silent

ReportingInv(p) ==
    /\ passes[p].current \notin passes[p].rest
    /\ passes[p].current = 0 <=> passes[p].answer = "none"
    /\ passes[p].answer = "yes" => Reported(passes[p].current)

(* Only a claim over the window lets a second report through.              *)
RowInv(k) ==
    /\ reminders[k].armed > 0
    /\ reminders[k].claim # "free" => Reported(k)
    /\ reminders[k].status = "sent" => Reported(k)
    /\ k \notin expired =>
          /\ reminders[k].notified =< 1
          /\ reminders[k].claim \in {"free", "open"} => reminders[k].notified = 0

(* A reminder whose notifications are still counted: one pass at most has  *)
(* it in hand, and as long as a pass may yet report it, or awaits the      *)
(* answer, it has gone out less often than it was made pending.            *)
CountedInv(k) ==
    /\ reminders[k].notified =< reminders[k].armed
    /\ \A p \in Passes :
          k \in passes[p].rest \/ Awaits(p, k) => reminders[k].notified < reminders[k].armed
    /\ reminders[k].claim = "open" => \E p \in Passes : Awaits(p, k)
    /\ Rearmable(reminders[k]) /\ (\A p \in Passes : ~HasInHand(p, k)) =>
          reminders[k].notified < reminders[k].armed
    /\ \A p, q \in Passes : HasInHand(p, k) /\ HasInHand(q, k) => p = q

(* A generation that no other has met still knows what has no reminder.    *)
GenerationsInv ==
    /\ \A g, h \in UnderWay : g # h => generators[g].crossed
    /\ \A g \in Generators :
          generators[g].phase = "creating" /\ ~generators[g].crossed =>
              \A key \in generators[g].left : ~duplicate(key)
    /\ OneReminderEach

(* The inductive invariant.                                                *)
ReminderInv ==
    /\ ReminderTypeOK
    /\ DecisionsStand
    /\ \A p \in Passes : ReportingInv(p)
    /\ \A k \in ReminderIds : RowInv(k)
    /\ \A k \in ReminderIds \ resent : CountedInv(k)
    /\ GenerationsInv

PassRows == [rest : SUBSET ReminderIds, current : {0} \cup ReminderIds,
             answer : {"none", "waiting", "yes", "no"}]
GeneratorRows ==
    [phase : {"none", "begun", "listing", "creating"}, left : SUBSET Keys, crossed : BOOLEAN]

(* The facts about types that the steps below use.                         *)
LEMMA ReminderFacts ==
    ASSUME ReminderInv
    PROVE  /\ reminders \in Seq(ReminderRows) /\ Len(reminders) \in Nat /\ 0 \notin ReminderIds
           /\ \A k \in ReminderIds : /\ reminders[k] \in ReminderRows
                                     /\ reminders[k].notified \in Nat /\ reminders[k].armed \in Nat
           /\ passes \in [Passes -> PassRows] /\ generators \in [Generators -> GeneratorRows]
           /\ \A p \in Passes : passes[p] \in PassRows
           /\ clicks \in Nat /\ doubled \subseteq Keys
           /\ resent \subseteq ReminderIds /\ expired \subseteq ReminderIds /\ silent \subseteq ReminderIds
  <1>1. /\ reminders \in Seq(ReminderRows) /\ passes \in [Passes -> PassRows]
        /\ generators \in [Generators -> GeneratorRows]
        /\ clicks \in Nat /\ doubled \subseteq Keys
        /\ resent \subseteq ReminderIds /\ expired \subseteq ReminderIds /\ silent \subseteq ReminderIds
    BY DEF ReminderInv, ReminderTypeOK, PassRows, GeneratorRows
  <1>2. Len(reminders) \in Nat /\ 0 \notin ReminderIds  BY <1>1 DEF ReminderIds
  <1>3. \A k \in ReminderIds : reminders[k] \in ReminderRows  BY <1>1 DEF ReminderIds
  <1>4. \A k \in ReminderIds : reminders[k].notified \in Nat /\ reminders[k].armed \in Nat
    BY <1>3 DEF ReminderRows
  <1> QED BY <1>1, <1>2, <1>3, <1>4

(* A statement on one row.                                                 *)
LEMMA RowIsSet ==
    ASSUME ReminderInv, NEW k \in ReminderIds, NEW row \in ReminderRows, SetReminder(k, row)
    PROVE  /\ reminders' \in Seq(ReminderRows) /\ ReminderIds' = ReminderIds
           /\ \A j \in ReminderIds : reminders'[j] = IF j = k THEN row ELSE reminders[j]
  BY ReminderFacts DEF SetReminder, ReminderIds

(* Where no generation takes a step, rows keep what they are about and the *)
(* deleted ones stay so, generations find what they found.                 *)
LEMMA GenerationsKept ==
    ASSUME ReminderInv, ReminderIds' = ReminderIds, UNCHANGED <<generators, doubled>>,
           \A k \in ReminderIds : /\ reminders'[k].key = reminders[k].key
                                  /\ reminders[k].deleted => reminders'[k].deleted
    PROVE  GenerationsInv'
  <1>1. UnderWay' = UnderWay  BY DEF UnderWay
  <1>2. \A key : duplicate(key)' => duplicate(key)  BY DEF duplicate
  <1>3. OneReminderEach'  BY DEF OneReminderEach, ReminderInv, GenerationsInv
  <1> QED BY <1>1, <1>2, <1>3 DEF ReminderInv, GenerationsInv

(* The statements that send nothing and mark nothing sent, and make a      *)
(* reminder pending only by arming it anew; and a claim that is over.      *)
RowKept(k) ==
    LET old == reminders[k]
        new == reminders'[k]
    IN  /\ new.decided # "pending" => new.status = new.decided
        /\ new.notified = old.notified
        /\ old.armed =< new.armed
        /\ new.status = "sent" => old.status = "sent"
        /\ k \notin resent' => ~Rearmable(new) \/ Rearmable(old) \/ old.armed < new.armed
        /\ \/ new.claim = old.claim
           \/ old.claim # "open" /\ new.claim = "free" /\ k \in expired'

(* Such statements keep the invariant: they change neither what passes     *)
(* have in hand nor what was notified.                                     *)
LEMMA StatementKeeps ==
    ASSUME ReminderInv, reminders' \in Seq(ReminderRows), ReminderIds' = ReminderIds,
           \A k \in ReminderIds : RowKept(k),
           UNCHANGED <<passes, silent>>, generators' \in [Generators -> GeneratorRows],
           clicks' \in Nat, doubled' \subseteq Keys,
           resent \subseteq resent', resent' \subseteq ReminderIds,
           expired \subseteq expired', expired' \subseteq ReminderIds, GenerationsInv'
    PROVE  ReminderInv'
  <1>1. ReminderTypeOK'  BY ReminderFacts DEF ReminderTypeOK, PassRows, GeneratorRows
  <1>2. \A k \in ReminderIds : reminders'[k] \in ReminderRows /\ reminders'[k].armed \in Nat
    <2>1. \A k \in ReminderIds : reminders'[k] \in ReminderRows  BY DEF ReminderIds
    <2> QED BY <2>1 DEF ReminderRows
  <1>3. DecisionsStand'  BY DEF DecisionsStand, RowKept
  <1>4. \A k \in ReminderIds : Reported(k) => Reported(k)'  BY DEF RowKept, Reported
  <1>5. \A p \in Passes : ReportingInv(p)'
    <2> SUFFICES ASSUME NEW p \in Passes PROVE ReportingInv(p)'
      OBVIOUS
    <2>1. passes[p].current \in {0} \cup ReminderIds  BY ReminderFacts DEF PassRows
    <2> QED BY <1>4, <2>1 DEF ReminderInv, ReportingInv
  <1>6. ASSUME NEW k \in ReminderIds' PROVE RowInv(k)'
    <2>1. RowKept(k) /\ RowInv(k) /\ (Reported(k) => Reported(k)')  BY <1>4, <1>6 DEF ReminderInv
    <2>2. reminders[k].armed \in Nat /\ reminders'[k].armed \in Nat  BY <1>2, <1>6, ReminderFacts
    <2> QED BY <2>1, <2>2 DEF RowKept, RowInv
  <1>7. ASSUME NEW k \in (ReminderIds \ resent)' PROVE CountedInv(k)'
    <2>1. k \in ReminderIds /\ CountedInv(k) /\ RowKept(k)  BY <1>7 DEF ReminderInv
    <2>2. /\ reminders[k].notified \in Nat /\ reminders[k].armed \in Nat
          /\ reminders'[k].armed \in Nat /\ reminders'[k].notified = reminders[k].notified
          /\ reminders[k].armed =< reminders'[k].armed
          /\ reminders'[k].claim = "open" => reminders[k].claim = "open"
      BY <1>2, <2>1, ReminderFacts DEF RowKept
    <2>3. \A p \in Passes : HasInHand(p, k)' = HasInHand(p, k) /\ Awaits(p, k)' = Awaits(p, k)
      BY DEF HasInHand, Awaits
    <2>4. Rearmable(reminders'[k]) => Rearmable(reminders[k]) \/ reminders[k].armed < reminders'[k].armed
      BY <1>7, <2>1 DEF RowKept
    <2> QED BY <2>1, <2>2, <2>3, <2>4 DEF CountedInv
  <1> QED BY <1>1, <1>3, <1>5, <1>6, <1>7 DEF ReminderInv

(* A row that stays is one of them.                                        *)
LEMMA SameRowKept ==
    ASSUME ReminderInv, NEW k \in ReminderIds, reminders'[k] = reminders[k]
    PROVE  RowKept(k)
  BY ReminderFacts DEF RowKept, ReminderInv, DecisionsStand

(* A pass takes its next step.                                             *)
LEMMA PassTyped ==
    ASSUME ReminderInv, NEW p \in Passes, NEW row \in PassRows, passes' = [passes EXCEPT ![p] = row]
    PROVE  /\ passes' \in [Passes -> PassRows] /\ passes'[p] = row
           /\ \A q \in Passes : q # p => passes'[q] = passes[q]
  BY ReminderFacts

(* A step of passes that touches no row.                                   *)
LEMMA PassesKeep ==
    ASSUME ReminderInv, UNCHANGED <<reminders, generators, clicks, reportVars, doubled>>,
           passes' \in [Passes -> PassRows], resent' \subseteq ReminderIds,
           \A p \in Passes : ReportingInv(p)', \A k \in ReminderIds \ resent' : CountedInv(k)'
    PROVE  ReminderInv'
  <1>1. /\ ReminderIds' = ReminderIds /\ silent' = silent /\ expired' = expired
        /\ generators' = generators /\ clicks' = clicks /\ doubled' = doubled
    BY DEF ReminderIds, reportVars
  <1>2. ReminderTypeOK'  BY <1>1, ReminderFacts DEF ReminderTypeOK, PassRows, GeneratorRows
  <1>3. GenerationsInv'  BY <1>1, GenerationsKept
  <1>4. \A k \in ReminderIds' : RowInv(k)'  BY <1>1 DEF ReminderInv, RowInv, Reported
  <1> QED BY <1>1, <1>2, <1>3, <1>4 DEF ReminderInv, DecisionsStand

-----------------------------------------------------------------------------
(* A generation begins or ends, or takes its own next step: those that     *)
(* meet know it afterwards.                                                *)
LEMMA GenerationKeeps ==
    ASSUME ReminderInv, NEW g \in Generators,
           \/ BeginGeneration(g) \/ ListTripRemindersByTrip(g) \/ GenerationEnds(g)
           \/ DeleteGeneratedPendingRemindersForTrip(g)
    PROVE  ReminderInv'
  <1>1. PICK row \in GeneratorRows :
           /\ \/ generators' = [generators EXCEPT ![g] = row]
              \/ BeginGeneration(g)
           /\ row.phase = "creating" => \A key \in row.left : ~duplicate(key)
           /\ row.phase # "none" =>
                 generators[g].phase # "none" /\ row.crossed = generators[g].crossed
    <2>1. generators[g] \in GeneratorRows  BY ReminderFacts
    <2>2. CASE BeginGeneration(g)
      <3>1. NoGeneration \in GeneratorRows /\ NoGeneration.phase = "none"
        BY DEF NoGeneration, GeneratorRows
      <3> QED BY <2>2, <3>1
    <2>3. CASE ListTripRemindersByTrip(g)
      <3> DEFINE keys == {key \in Keys : ~duplicate(key)}
                 row == [generators[g] EXCEPT !.phase = "creating", !.left = keys]
      <3>1. keys \in SUBSET Keys /\ \A key \in keys : ~duplicate(key)  OBVIOUS
      <3>2. generators' = [generators EXCEPT ![g] = row] /\ generators[g].phase # "none"
        BY <2>3 DEF ListTripRemindersByTrip
      <3> HIDE DEF keys
      <3>3. /\ row \in GeneratorRows /\ row.left = keys
            /\ row.phase = "creating" /\ row.crossed = generators[g].crossed
        BY <2>1, <3>1 DEF GeneratorRows
      <3> HIDE DEF row
      <3> QED BY <3>1, <3>2, <3>3
    <2>4. CASE GenerationEnds(g)
      <3>1. NoGeneration \in GeneratorRows /\ NoGeneration.phase = "none"
        BY DEF NoGeneration, GeneratorRows
      <3> QED BY <2>4, <3>1 DEF GenerationEnds
    <2>5. CASE DeleteGeneratedPendingRemindersForTrip(g)
      <3> DEFINE row == [generators[g] EXCEPT !.phase = "listing"]
      <3>1. row \in GeneratorRows /\ row.phase = "listing" /\ row.crossed = generators[g].crossed
        BY <2>1 DEF GeneratorRows
      <3>2. generators' = [generators EXCEPT ![g] = row] /\ generators[g].phase # "none"
        BY <2>5 DEF DeleteGeneratedPendingRemindersForTrip
      <3> HIDE DEF row
      <3> QED BY <3>1, <3>2
    <2> QED BY <2>2, <2>3, <2>4, <2>5
  <1>2. generators' \in [Generators -> GeneratorRows]
    <2>1. CASE generators' = [generators EXCEPT ![g] = row]  BY <2>1, ReminderFacts
    <2>2. CASE BeginGeneration(g)
      <3>1. \A h \in Generators : [generators[h] EXCEPT !.crossed = TRUE] \in GeneratorRows
        BY ReminderFacts DEF GeneratorRows
      <3>2. [NoGeneration EXCEPT !.phase = "begun", !.crossed = UnderWay # {}] \in GeneratorRows
        BY DEF NoGeneration, GeneratorRows
      <3>3. \A h \in Generators : generators[h] \in GeneratorRows  BY ReminderFacts
      <3> QED BY <2>2, <3>1, <3>2, <3>3 DEF BeginGeneration
    <2> QED BY <1>1, <2>1, <2>2
  <1>3. /\ reminders' \in Seq(ReminderRows) /\ ReminderIds' = ReminderIds
        /\ \A k \in ReminderIds : /\ RowKept(k)
                                  /\ reminders'[k].key = reminders[k].key
                                  /\ reminders[k].deleted => reminders'[k].deleted
    <2>1. CASE UNCHANGED reminders
      <3>1. ReminderIds' = ReminderIds  BY <2>1 DEF ReminderIds
      <3> QED BY <2>1, <3>1, ReminderFacts, SameRowKept
    <2>2. CASE DeleteGeneratedPendingRemindersForTrip(g)
      <3>1. PICK replace \in BOOLEAN :
               reminders' = [k \in ReminderIds |->
                  IF replace /\ reminders[k].status = "pending"
                  THEN [reminders[k] EXCEPT !.deleted = TRUE] ELSE reminders[k]]
        BY <2>2 DEF DeleteGeneratedPendingRemindersForTrip
      <3>2. \A k \in ReminderIds :
               /\ [reminders[k] EXCEPT !.deleted = TRUE] \in ReminderRows
               /\ reminders[k] \in ReminderRows
        BY ReminderFacts DEF ReminderRows
      <3>3. reminders' \in [ReminderIds -> ReminderRows]  BY <3>1, <3>2
      <3>4. reminders' \in Seq(ReminderRows) /\ ReminderIds' = ReminderIds
        BY <3>3, ReminderFacts, SMTT(20) DEF ReminderIds
      <3>5. ASSUME NEW k \in ReminderIds
            PROVE  /\ RowKept(k)
                   /\ reminders'[k].key = reminders[k].key
                   /\ reminders[k].deleted => reminders'[k].deleted
        <4>1. CASE replace /\ reminders[k].status = "pending"
          <5>1. reminders'[k] = [reminders[k] EXCEPT !.deleted = TRUE]  BY <3>1, <4>1
          <5> QED BY <5>1, ReminderFacts
                  DEF RowKept, Rearmable, ReminderRows, ReminderInv, DecisionsStand
        <4>2. CASE ~(replace /\ reminders[k].status = "pending")
          <5>1. reminders'[k] = reminders[k]  BY <3>1, <4>2
          <5> QED BY <5>1, SameRowKept
        <4> QED BY <4>1, <4>2
      <3> QED BY <3>4, <3>5
    <2> QED BY <2>1, <2>2 DEF BeginGeneration, ListTripRemindersByTrip, GenerationEnds
  <1>4. UNCHANGED <<passes, clicks, resent, expired, silent, doubled>>
    BY DEF BeginGeneration, ListTripRemindersByTrip, GenerationEnds,
           DeleteGeneratedPendingRemindersForTrip, reportVars
  <1>5. OneReminderEach'  BY <1>3, <1>4 DEF OneReminderEach, ReminderInv, GenerationsInv
  <1>6. \A key : duplicate(key)' => duplicate(key)  BY <1>3 DEF duplicate
  <1>7. /\ \A f, h \in UnderWay' : f # h => generators'[f].crossed
        /\ \A h \in Generators :
              generators'[h].phase = "creating" /\ ~generators'[h].crossed =>
                  \A key \in generators'[h].left : ~duplicate(key)
    <2>1. CASE generators' = [generators EXCEPT ![g] = row]
      <3>1. \A h \in Generators : generators'[h] = IF h = g THEN row ELSE generators[h]
        BY <2>1, ReminderFacts
      <3>2. \A h \in UnderWay' : /\ h \in UnderWay
                                 /\ generators'[h].crossed = generators[h].crossed
        BY <1>1, <3>1 DEF UnderWay
      <3> QED BY <1>1, <3>1, <3>2 DEF ReminderInv, GenerationsInv
    <2>2. CASE BeginGeneration(g)
      <3> DEFINE begun == [NoGeneration EXCEPT !.phase = "begun", !.crossed = UnderWay # {}]
      <3>1. begun.phase = "begun" /\ (begun.crossed <=> UnderWay # {})  BY DEF NoGeneration
      <3>2. \A h \in Generators :
               generators'[h] = IF h = g THEN begun
                                ELSE IF h \in UnderWay THEN [generators[h] EXCEPT !.crossed = TRUE]
                                ELSE generators[h]
        BY <2>2 DEF BeginGeneration
      <3>3. \A h \in Generators : generators[h] \in GeneratorRows  BY ReminderFacts
      <3>4. \A h \in UnderWay : [generators[h] EXCEPT !.crossed = TRUE].crossed
        BY <3>3 DEF GeneratorRows, UnderWay
      <3> HIDE DEF begun
      <3>5. \A h \in UnderWay' : h = g \/ h \in UnderWay  BY <3>2 DEF UnderWay
      <3>6. ASSUME NEW f \in UnderWay', NEW h \in UnderWay', f # h PROVE generators'[f].crossed
        <4>1. f \in Generators  BY DEF UnderWay
        <4>2. CASE f = g  BY <3>1, <3>2, <3>5, <3>6, <4>1, <4>2
        <4>3. CASE f # g  BY <3>2, <3>4, <3>5, <4>1, <4>3
        <4> QED BY <4>2, <4>3
      <3>7. ASSUME NEW h \in Generators, generators'[h].phase = "creating", ~generators'[h].crossed
            PROVE  FALSE
        <4>1. h # g  BY <3>1, <3>2, <3>7
        <4>2. h \notin UnderWay  BY <3>2, <3>4, <3>7, <4>1
        <4> QED BY <3>2, <3>7, <4>1, <4>2 DEF UnderWay
      <3> QED BY <3>6, <3>7
    <2> QED BY <1>1, <2>1, <2>2
  <1>8. GenerationsInv'  BY <1>5, <1>6, <1>7 DEF GenerationsInv
  <1> QED BY <1>2, <1>3, <1>4, <1>8, StatementKeeps, ReminderFacts

(* A generation inserts a reminder, which no pass has in hand.             *)
LEMMA CreateKeeps ==
    ASSUME ReminderInv, NEW g \in Generators, BatchCreateTripReminders(g)
    PROVE  ReminderInv'
  <1> PICK n \in Nat : n = Len(reminders) + 1
    BY ReminderFacts
  <1>1. PICK key \in generators[g].left :
           /\ reminders' = Append(reminders, NewReminder(key))
           /\ generators' = [generators EXCEPT ![g] = [generators[g] EXCEPT !.left = @ \ {key}]]
           /\ doubled' = IF generators[g].crossed THEN doubled \cup {key} ELSE doubled
    BY DEF BatchCreateTripReminders
  <1>2. generators[g] \in GeneratorRows /\ key \in Keys /\ doubled' \subseteq Keys
    BY <1>1, ReminderFacts DEF GeneratorRows
  <1> DEFINE row == [generators[g] EXCEPT !.left = @ \ {key}]
  <1>3. /\ row \in GeneratorRows /\ row.phase = generators[g].phase
        /\ row.left = generators[g].left \ {key} /\ row.crossed = generators[g].crossed
    BY <1>2 DEF GeneratorRows
  <1>4. /\ generators' \in [Generators -> GeneratorRows]
        /\ \A h \in Generators : generators'[h] = IF h = g THEN row ELSE generators[h]
    BY <1>1, <1>3, ReminderFacts
  <1> HIDE DEF row
  <1>5. NewReminder(key) \in ReminderRows  BY <1>2 DEF NewReminder, ReminderRows, ReminderStatuses
  <1>6. /\ reminders' \in Seq(ReminderRows) /\ Len(reminders') = n
        /\ reminders'[n] = NewReminder(key) /\ \A k \in ReminderIds : reminders'[k] = reminders[k]
    BY <1>1, <1>5, ReminderFacts DEF ReminderIds
  <1>7. ReminderIds' = ReminderIds \cup {n} /\ n \notin ReminderIds /\ n # 0
    BY <1>6, ReminderFacts DEF ReminderIds
  <1>8. UNCHANGED <<passes, clicks, resent, expired, silent>>
    BY DEF BatchCreateTripReminders, reportVars
  <1>9. ReminderTypeOK'
    <2>1. PassRows \subseteq PassRows'  BY <1>7 DEF PassRows
    <2>2. passes' \in [Passes -> PassRows']  BY <1>8, <2>1, ReminderFacts
    <2> QED BY <1>2, <1>4, <1>6, <1>7, <1>8, <2>2, ReminderFacts
            DEF ReminderTypeOK, PassRows, GeneratorRows
  <1>10. DecisionsStand'  BY <1>6, <1>7 DEF NewReminder, ReminderInv, DecisionsStand
  <1>11. \A p \in Passes : /\ passes[p].current \in {0} \cup ReminderIds
                           /\ passes[p].rest \subseteq ReminderIds
    BY ReminderFacts DEF PassRows
  <1>12. \A p \in Passes : ~HasInHand(p, n)' /\ ~Awaits(p, n)'
    <2>1. \A p \in Passes : n \notin passes[p].rest /\ passes[p].current # n  BY <1>7, <1>11
    <2> QED BY <1>8, <2>1 DEF HasInHand, Awaits
  <1>13. \A k \in ReminderIds : Reported(k)' = Reported(k)  BY <1>6, <1>8 DEF Reported
  <1>14. \A p \in Passes : ReportingInv(p)'
    <2> SUFFICES ASSUME NEW p \in Passes PROVE ReportingInv(p)'
      OBVIOUS
    <2> QED BY <1>8, <1>11, <1>13 DEF ReminderInv, ReportingInv
  <1>15. \A k \in ReminderIds' : RowInv(k)'
    <2>1. RowInv(n)'  BY <1>6 DEF NewReminder, RowInv
    <2>2. \A k \in ReminderIds : RowInv(k)'  BY <1>6, <1>8, <1>13 DEF ReminderInv, RowInv
    <2> QED BY <1>7, <2>1, <2>2
  <1>16. ASSUME NEW k \in (ReminderIds \ resent)' PROVE CountedInv(k)'
    <2>1. CASE k = n
      <3>1. reminders'[k].notified = 0 /\ reminders'[k].armed = 1 /\ reminders'[k].claim = "free"
        BY <1>6, <2>1 DEF NewReminder
      <3>2. \A p \in Passes : ~HasInHand(p, k)' /\ k \notin passes'[p].rest /\ ~Awaits(p, k)'
        BY <1>12, <2>1 DEF HasInHand
      <3> QED BY <3>1, <3>2 DEF CountedInv
    <2>2. CASE k # n
      <3>1. k \in ReminderIds \ resent /\ reminders'[k] = reminders[k]  BY <1>6, <1>7, <1>8, <1>16, <2>2
      <3> QED BY <1>8, <3>1 DEF ReminderInv, CountedInv, HasInHand, Awaits
    <2> QED BY <2>1, <2>2
  <1>17. /\ UnderWay' = UnderWay /\ g \in UnderWay
         /\ \A h \in Generators : generators'[h].crossed = generators[h].crossed
                                  /\ generators'[h].phase = generators[h].phase
    BY <1>3, <1>4 DEF UnderWay, BatchCreateTripReminders
  <1>18. ~generators[g].crossed => ~duplicate(key)
    BY <1>1 DEF ReminderInv, GenerationsInv, BatchCreateTripReminders
  <1>19. OneReminderEach'
    <2> SUFFICES ASSUME NEW j \in ReminderIds', NEW k \in ReminderIds',
                        reminders'[j].key = reminders'[k].key,
                        ~reminders'[j].deleted, ~reminders'[k].deleted,
                        reminders'[k].key \notin doubled'
                 PROVE  j = k
      BY DEF OneReminderEach
    <2>1. CASE j # n /\ k # n
      BY <1>1, <1>6, <1>7, <2>1 DEF ReminderInv, GenerationsInv, OneReminderEach
    <2>2. CASE j = n \/ k = n
      <3>1. reminders'[n].key = key  BY <1>6 DEF NewReminder
      <3>2. ~duplicate(key)  BY <1>1, <1>18, <2>2, <3>1
      <3> QED BY <1>6, <1>7, <2>2, <3>1, <3>2 DEF duplicate
    <2> QED BY <2>1, <2>2
  <1>20. \A x : duplicate(x)' => duplicate(x) \/ x = key
    BY <1>6, <1>7 DEF duplicate, NewReminder
  <1>21. \A h \in Generators :
            generators'[h].phase = "creating" /\ ~generators'[h].crossed =>
                \A x \in generators'[h].left : ~duplicate(x)'
    <2> SUFFICES ASSUME NEW h \in Generators, generators[h].phase = "creating",
                        ~generators[h].crossed, NEW x \in generators'[h].left
                 PROVE  ~duplicate(x)'
      BY <1>17
    <2>1. h = g  BY <1>17 DEF UnderWay, ReminderInv, GenerationsInv
    <2>2. x \in generators[g].left /\ x # key  BY <1>3, <1>4, <2>1
    <2> QED BY <1>20, <2>1, <2>2 DEF ReminderInv, GenerationsInv
  <1>22. GenerationsInv'  BY <1>17, <1>19, <1>21 DEF ReminderInv, GenerationsInv, UnderWay
  <1> QED BY <1>9, <1>10, <1>14, <1>15, <1>16, <1>22 DEF ReminderInv

-----------------------------------------------------------------------------
(* A pass lists the due reminders: those that another pass has in hand are *)
(* counted no more.                                                        *)
LEMMA ListDueKeeps == ASSUME ReminderInv, NEW p \in Passes, ListDueTripReminders(p) PROVE ReminderInv'
  <1> DEFINE due == {k \in ReminderIds : Due(reminders[k])}
  <1>1. /\ passes[p] = NoPass
        /\ passes' = [passes EXCEPT ![p] = [passes[p] EXCEPT !.rest = due]]
        /\ resent' = resent \cup {k \in due : InHand(k)}
        /\ UNCHANGED <<reminders, generators, clicks, reportVars, doubled>>
    BY DEF ListDueTripReminders
  <1>2. /\ [passes[p] EXCEPT !.rest = due] \in PassRows
        /\ [passes[p] EXCEPT !.rest = due].rest = due
        /\ [passes[p] EXCEPT !.rest = due].current = 0
        /\ [passes[p] EXCEPT !.rest = due].answer = "none"
    <2>1. due \in SUBSET ReminderIds  OBVIOUS
    <2> HIDE DEF due
    <2>2. passes[p] \in PassRows  BY ReminderFacts
    <2>3. passes[p].current = 0 /\ passes[p].answer = "none"
      <3>1. passes[p] = NoPass  BY <1>1
      <3> QED BY <3>1 DEF NoPass
    <2> QED BY <2>1, <2>2, <2>3 DEF PassRows
  <1>3. /\ passes' \in [Passes -> PassRows]
        /\ passes'[p].rest = due /\ passes'[p].current = 0 /\ passes'[p].answer = "none"
        /\ \A q \in Passes : q # p => passes'[q] = passes[q]
    BY <1>1, <1>2, PassTyped
  <1>4. resent' \subseteq ReminderIds  BY <1>1, ReminderFacts
  <1>5. \A q \in Passes : ReportingInv(q)'
    <2>1. ReportingInv(p)'  BY <1>3, ReminderFacts DEF ReportingInv
    <2>2. \A q \in Passes : q # p => ReportingInv(q)'
      BY <1>1, <1>3 DEF ReminderInv, ReportingInv, Reported, reportVars
    <2> QED BY <2>1, <2>2
  <1>6. ASSUME NEW k \in ReminderIds \ resent' PROVE CountedInv(k)'
    <2>1. k \in ReminderIds /\ k \notin resent /\ CountedInv(k) /\ (k \in due => ~InHand(k))
      BY <1>1, <1>6 DEF ReminderInv
    <2>2. ~HasInHand(p, k) /\ ~Awaits(p, k) /\ ~Awaits(p, k)'
      BY <1>1, <1>3, <2>1, ReminderFacts DEF HasInHand, Awaits, NoPass
    <2>3. HasInHand(p, k)' <=> k \in due
      BY <1>3, <2>1, ReminderFacts DEF HasInHand
    <2>4. \A q \in Passes : q # p => HasInHand(q, k)' = HasInHand(q, k) /\ Awaits(q, k)' = Awaits(q, k)
      BY <1>3 DEF HasInHand, Awaits
    <2>5. CASE k \in due
      <3>1. \A q \in Passes : ~HasInHand(q, k) /\ ~Awaits(q, k)
        BY <2>1, <2>5 DEF InHand, HasInHand, Awaits
      <3>2. reminders[k].notified < reminders[k].armed
        BY <2>1, <2>5, <3>1 DEF CountedInv, Due, Rearmable
      <3>3. \A q, r \in Passes : HasInHand(q, k)' /\ HasInHand(r, k)' => q = r
        BY <2>4, <3>1
      <3>4. reminders[k].claim # "open"  BY <2>1, <3>1 DEF CountedInv
      <3>5. \E q \in Passes : HasInHand(q, k)'  BY <2>3, <2>5
      <3> QED BY <1>1, <2>1, <3>2, <3>3, <3>4, <3>5, ReminderFacts DEF CountedInv
    <2>6. CASE k \notin due
      <3>1. \A q \in Passes : HasInHand(q, k)' <=> HasInHand(q, k)
        <4> SUFFICES ASSUME NEW q \in Passes PROVE HasInHand(q, k)' <=> HasInHand(q, k)
          OBVIOUS
        <4>1. CASE q = p  BY <2>2, <2>3, <2>6, <4>1
        <4>2. CASE q # p  BY <2>4, <4>2
        <4> QED BY <4>1, <4>2
      <3>2. \A q \in Passes : k \in passes'[q].rest => k \in passes[q].rest
        BY <1>3, <2>6
      <3>3. \A q \in Passes : Awaits(q, k)' <=> Awaits(q, k)  BY <2>2, <2>4
      <3> QED BY <1>1, <2>1, <3>1, <3>2, <3>3 DEF CountedInv
    <2> QED BY <2>5, <2>6
  <1> QED BY <1>1, <1>3, <1>4, <1>5, <1>6, PassesKeep

(* A pass reports one reminder: nobody hears of it, or it is claimed, or   *)
(* dropped as a duplicate of what was reported before.                     *)
LEMMA NotifyKeeps == ASSUME ReminderInv, NEW p \in Passes, CreateNotifications(p) PROVE ReminderInv'
  <1>1. PICK k \in passes[p].rest, answer \in {"no", "waiting", "yes"} :
           /\ answer = "waiting" => reminders[k].claim = "free"
           /\ answer = "yes" => reminders[k].claim # "free"
           /\ passes' = [passes EXCEPT ![p] = [rest |-> passes[p].rest \ {k}, current |-> k,
                                               answer |-> answer]]
           /\ IF answer = "waiting" THEN SetReminder(k, [reminders[k] EXCEPT !.claim = "open"])
              ELSE UNCHANGED reminders
    BY ReminderFacts DEF CreateNotifications
  <1>2. k \in ReminderIds /\ k # 0 /\ passes[p].rest \subseteq ReminderIds
    BY ReminderFacts DEF PassRows
  <1>3. [rest |-> passes[p].rest \ {k}, current |-> k, answer |-> answer] \in PassRows
    BY <1>2 DEF PassRows
  <1>4. /\ passes' \in [Passes -> PassRows] /\ passes'[p].rest = passes[p].rest \ {k}
        /\ passes'[p].current = k /\ passes'[p].answer = answer
        /\ \A q \in Passes : q # p => passes'[q] = passes[q]
    BY <1>1, <1>3, PassTyped
  <1> DEFINE row == [reminders[k] EXCEPT !.claim = "open"]
  <1>5. /\ row \in ReminderRows /\ row.notified = reminders[k].notified /\ row.key = reminders[k].key
        /\ row.armed = reminders[k].armed /\ row.status = reminders[k].status
        /\ row.decided = reminders[k].decided /\ row.deleted = reminders[k].deleted
        /\ row.claim = "open"
    BY <1>2, ReminderFacts DEF ReminderRows
  <1>6. /\ reminders' \in Seq(ReminderRows) /\ ReminderIds' = ReminderIds
        /\ \A j \in ReminderIds : reminders'[j] = IF answer = "waiting" /\ j = k THEN row ELSE reminders[j]
    <2>1. CASE answer = "waiting"
      <3>1. SetReminder(k, row)  BY <1>1, <2>1
      <3> QED BY <1>2, <1>5, <2>1, <3>1, RowIsSet
    <2>2. CASE answer # "waiting"  BY <1>1, <2>2, ReminderFacts DEF ReminderIds
    <2> QED BY <2>1, <2>2
  <1> HIDE DEF row
  <1>7. \A j \in ReminderIds :
           /\ reminders'[j].notified = reminders[j].notified /\ reminders'[j].key = reminders[j].key
           /\ reminders'[j].armed = reminders[j].armed /\ reminders'[j].status = reminders[j].status
           /\ reminders'[j].decided = reminders[j].decided
           /\ reminders'[j].deleted = reminders[j].deleted
           /\ \/ reminders'[j].claim = reminders[j].claim
              \/ /\ j = k /\ answer = "waiting"
                 /\ reminders[j].claim = "free" /\ reminders'[j].claim = "open"
    BY <1>1, <1>2, <1>5, <1>6
  <1>8. UNCHANGED <<generators, clicks, resent, expired, silent, doubled>> /\ PassRows' = PassRows
    BY <1>6 DEF CreateNotifications, PassRows, reportVars
  <1>9. ReminderTypeOK'
    BY <1>4, <1>6, <1>8, ReminderFacts DEF ReminderTypeOK, PassRows, GeneratorRows
  <1>10. DecisionsStand'  BY <1>6, <1>7 DEF ReminderInv, DecisionsStand
  <1>11. \A j \in ReminderIds : /\ Reported(j) => Reported(j)'
                                /\ RowInv(j)
    BY <1>7, <1>8 DEF Reported, ReminderInv
  <1>12. ASSUME NEW q \in Passes PROVE ReportingInv(q)'
    <2>1. CASE q = p
      <3>1. answer = "yes" => Reported(k)'  BY <1>1, <1>2, <1>11 DEF RowInv
      <3> QED BY <1>2, <1>4, <2>1, <3>1 DEF ReportingInv
    <2>2. CASE q # p
      <3>1. passes[q].current \in {0} \cup ReminderIds /\ ReportingInv(q)
        BY ReminderFacts DEF PassRows, ReminderInv
      <3> QED BY <1>4, <1>11, <2>2, <3>1 DEF ReportingInv
    <2> QED BY <2>1, <2>2
  <1>13. \A j \in ReminderIds' : RowInv(j)'
    <2> SUFFICES ASSUME NEW j \in ReminderIds PROVE RowInv(j)'
      BY <1>6
    <2>1. reminders'[j].claim = "open" => Reported(j)'  BY DEF Reported
    <2> QED BY <1>7, <1>8, <1>11, <2>1 DEF RowInv
  <1>14. ASSUME NEW j \in (ReminderIds \ resent)' PROVE CountedInv(j)'
    <2>1. j \in ReminderIds /\ j \notin resent /\ CountedInv(j) /\ j # 0
      BY <1>6, <1>8, <1>14, ReminderFacts DEF ReminderInv
    <2>2. HasInHand(p, k) /\ passes[p].current = 0  BY DEF HasInHand, CreateNotifications
    <2>3. ASSUME NEW q \in Passes PROVE HasInHand(q, j)' <=> HasInHand(q, j)
      <3>1. CASE q # p  BY <1>4, <3>1 DEF HasInHand
      <3>2. CASE q = p  BY <1>4, <2>1, <2>2, <3>2 DEF HasInHand
      <3> QED BY <3>1, <3>2
    <2>4. \A q \in Passes : j \in passes'[q].rest => j \in passes[q].rest  BY <1>4
    <2>5. \A q \in Passes : Awaits(q, j) => HasInHand(q, j) /\ q # p
      BY <2>1, <2>2 DEF Awaits, HasInHand
    <2>6. CASE j = k
      <3>1. reminders[k].notified < reminders[k].armed  BY <2>1, <2>6 DEF CountedInv
      <3>2. \A q \in Passes : ~Awaits(q, k)  BY <2>1, <2>2, <2>5, <2>6 DEF CountedInv
      <3>3. reminders[k].claim # "open"  BY <2>1, <2>6, <3>2 DEF CountedInv
      <3>4. answer = "waiting" => Awaits(p, k)'  BY <1>4 DEF Awaits
      <3> QED BY <1>7, <2>1, <2>2, <2>3, <2>6, <3>1, <3>3, <3>4, ReminderFacts
              DEF CountedInv, Rearmable
    <2>7. CASE j # k
      <3>1. reminders'[j] = reminders[j]  BY <1>6, <2>1, <2>7
      <3>2. \A q \in Passes : Awaits(q, j)' <=> Awaits(q, j)
        BY <1>4, <2>1, <2>2, <2>7 DEF Awaits
      <3> QED BY <2>1, <2>3, <2>4, <3>1, <3>2 DEF CountedInv
    <2> QED BY <2>6, <2>7
  <1>15. GenerationsInv'  BY <1>6, <1>7, <1>8, GenerationsKept
  <1> QED BY <1>6, <1>9, <1>10, <1>12, <1>13, <1>14, <1>15 DEF ReminderInv

(* The report that holds the claim comes to its end.                       *)
LEMMA InsertKeeps ==
    ASSUME ReminderInv, NEW k \in ReminderIds, InsertNotification(k) PROVE ReminderInv'
  <1> DEFINE sent == [reminders[k] EXCEPT !.notified = @ + 1, !.claim = "delivered"]
             none == [reminders[k] EXCEPT !.claim = "empty"]
  <1>1. PICK answer \in {"yes", "no"}, row \in {sent, none} :
           /\ AnswerTo(k, answer) /\ SetReminder(k, row)
           /\ \/ row = sent /\ silent' = silent
              \/ row = none /\ silent' = silent \cup {k}
    <2>1. CASE SetReminder(k, sent) /\ AnswerTo(k, "yes") /\ UNCHANGED silent  BY <2>1
    <2>2. CASE /\ SetReminder(k, none) /\ \E answer \in {"yes", "no"} : AnswerTo(k, answer)
               /\ silent' = silent \cup {k}
      BY <2>2
    <2> QED BY <2>1, <2>2 DEF InsertNotification
  <1>2. reminders[k].claim = "open" /\ UNCHANGED <<generators, clicks, resent, expired, doubled>>
    BY DEF InsertNotification
  <1>3. reminders[k] \in ReminderRows /\ reminders[k].notified \in Nat  BY ReminderFacts
  <1>4. /\ sent \in ReminderRows /\ sent.notified = reminders[k].notified + 1
        /\ sent.claim = "delivered" /\ sent.key = reminders[k].key
        /\ sent.armed = reminders[k].armed /\ sent.status = reminders[k].status
        /\ sent.decided = reminders[k].decided /\ sent.deleted = reminders[k].deleted
    <2>1. reminders[k].notified + 1 \in Nat  BY <1>3
    <2> QED BY <1>3, <2>1 DEF ReminderRows
  <1>5. /\ none \in ReminderRows /\ none.notified = reminders[k].notified
        /\ none.claim = "empty" /\ none.key = reminders[k].key
        /\ none.armed = reminders[k].armed /\ none.status = reminders[k].status
        /\ none.decided = reminders[k].decided /\ none.deleted = reminders[k].deleted
    BY <1>3 DEF ReminderRows
  <1> HIDE DEF sent, none
  <1>6. /\ reminders' \in Seq(ReminderRows) /\ ReminderIds' = ReminderIds
        /\ \A j \in ReminderIds : reminders'[j] = IF j = k THEN row ELSE reminders[j]
    BY <1>1, <1>4, <1>5, RowIsSet
  <1>7. \A j \in ReminderIds :
           /\ reminders'[j].key = reminders[j].key
           /\ reminders'[j].armed = reminders[j].armed /\ reminders'[j].status = reminders[j].status
           /\ reminders'[j].decided = reminders[j].decided
           /\ reminders'[j].deleted = reminders[j].deleted
    BY <1>1, <1>4, <1>5, <1>6
  <1>8. /\ reminders'[k].claim \in {"delivered", "empty"}
        /\ \/ /\ reminders'[k].notified = reminders[k].notified + 1
              /\ reminders'[k].claim = "delivered"
           \/ /\ reminders'[k].notified = reminders[k].notified
              /\ k \in silent'
    BY <1>1, <1>4, <1>5, <1>6
  <1>9. silent \subseteq silent' /\ silent' \subseteq ReminderIds  BY <1>1, ReminderFacts
  <1>10. \A q \in Passes :
            /\ passes[q] \in PassRows /\ [passes[q] EXCEPT !.answer = answer] \in PassRows
            /\ [passes[q] EXCEPT !.answer = answer].answer = answer
            /\ [passes[q] EXCEPT !.answer = answer].current = passes[q].current
            /\ [passes[q] EXCEPT !.answer = answer].rest = passes[q].rest
    <2> SUFFICES ASSUME NEW q \in Passes
                 PROVE  /\ passes[q] \in PassRows /\ [passes[q] EXCEPT !.answer = answer] \in PassRows
                        /\ [passes[q] EXCEPT !.answer = answer].answer = answer
                        /\ [passes[q] EXCEPT !.answer = answer].current = passes[q].current
                        /\ [passes[q] EXCEPT !.answer = answer].rest = passes[q].rest
      OBVIOUS
    <2>1. passes[q] \in PassRows  BY ReminderFacts
    <2> QED BY <2>1 DEF PassRows
  <1>11. /\ passes' \in [Passes -> PassRows]
         /\ \A q \in Passes : /\ passes'[q].rest = passes[q].rest
                              /\ passes'[q].current = passes[q].current
                              /\ passes'[q].answer = IF Awaits(q, k) THEN answer ELSE passes[q].answer
    BY <1>1, <1>10 DEF AnswerTo, Awaits
  <1>12. PassRows' = PassRows  BY <1>6 DEF PassRows
  <1>13. ReminderTypeOK'
    BY <1>2, <1>6, <1>9, <1>11, <1>12, ReminderFacts DEF ReminderTypeOK, PassRows, GeneratorRows
  <1>14. DecisionsStand'  BY <1>6, <1>7 DEF ReminderInv, DecisionsStand
  <1>15. Reported(k)'  BY <1>3, <1>8 DEF Reported
  <1>16. \A j \in ReminderIds : j # k => /\ reminders'[j] = reminders[j]
                                         /\ Reported(j) => Reported(j)'
    BY <1>6, <1>9 DEF Reported
  <1>17. ASSUME NEW q \in Passes PROVE ReportingInv(q)'
    <2>1. passes[q].current \in {0} \cup ReminderIds /\ ReportingInv(q)
      BY ReminderFacts DEF PassRows, ReminderInv
    <2>2. CASE Awaits(q, k)  BY <1>11, <1>15, <2>1, <2>2, ReminderFacts DEF ReportingInv, Awaits
    <2>3. CASE ~Awaits(q, k)  BY <1>11, <1>15, <1>16, <2>1, <2>3 DEF ReportingInv
    <2> QED BY <2>2, <2>3
  <1>18. \A j \in ReminderIds' : RowInv(j)'
    <2> SUFFICES ASSUME NEW j \in ReminderIds PROVE RowInv(j)'
      BY <1>6
    <2>1. RowInv(j)  BY DEF ReminderInv
    <2>2. CASE j = k
      <3>1. k \notin expired => reminders[k].notified = 0  BY <1>2, <2>1, <2>2 DEF RowInv
      <3> QED BY <1>2, <1>7, <1>8, <1>15, <2>1, <2>2, <3>1 DEF RowInv
    <2>3. CASE j # k  BY <1>2, <1>16, <2>1, <2>3 DEF RowInv
    <2> QED BY <2>2, <2>3
  <1>19. ASSUME NEW j \in (ReminderIds \ resent)' PROVE CountedInv(j)'
    <2>1. j \in ReminderIds /\ CountedInv(j)  BY <1>2, <1>6, <1>19 DEF ReminderInv
    <2>2. \A q \in Passes : HasInHand(q, j)' <=> HasInHand(q, j)  BY <1>11 DEF HasInHand
    <2>3. CASE j = k
      <3>1. PICK q \in Passes : Awaits(q, k)  BY <1>2, <2>1, <2>3 DEF CountedInv
      <3>2. HasInHand(q, k) /\ k \notin passes[q].rest
        BY <3>1 DEF Awaits, HasInHand, ReminderInv, ReportingInv
      <3>3. \A r \in Passes : k \notin passes'[r].rest /\ ~Awaits(r, k)'
        BY <1>11, <2>1, <2>3, <3>2 DEF CountedInv, HasInHand, Awaits
      <3>4. reminders'[k].notified =< reminders'[k].armed
        BY <1>7, <1>8, <2>1, <2>3, <3>1, ReminderFacts DEF CountedInv
      <3>5. HasInHand(q, k)'  BY <2>2, <2>3, <3>2
      <3>6. reminders'[k].claim # "open"  BY <1>8
      <3> QED BY <2>1, <2>2, <2>3, <3>3, <3>4, <3>5, <3>6 DEF CountedInv
    <2>4. CASE j # k
      <3>1. \A q \in Passes : Awaits(q, j)' <=> Awaits(q, j)  BY <1>11, <2>4 DEF Awaits
      <3>2. \A q \in Passes : j \in passes'[q].rest <=> j \in passes[q].rest  BY <1>11
      <3> QED BY <1>16, <2>1, <2>2, <2>4, <3>1, <3>2 DEF CountedInv
    <2> QED BY <2>3, <2>4
  <1>20. GenerationsInv'  BY <1>2, <1>6, <1>7, GenerationsKept
  <1> QED BY <1>6, <1>13, <1>14, <1>17, <1>18, <1>19, <1>20 DEF ReminderInv

(* The answer is lost, or late; or the marking fails.                      *)
LEMMA FailureKeeps ==
    ASSUME ReminderInv, NEW p \in Passes, ReportTimesOut(p) \/ MarkFails(p) PROVE ReminderInv'
  <1> DEFINE k == passes[p].current
             late == [passes[p] EXCEPT !.answer = "no"]
             free == [passes[p] EXCEPT !.current = 0, !.answer = "none"]
  <1>1. PICK row \in {late, free} :
           /\ passes[p].answer # "none" /\ passes' = [passes EXCEPT ![p] = row]
           /\ resent' = resent \cup {k}
           /\ UNCHANGED <<reminders, generators, clicks, reportVars, doubled>>
    BY DEF ReportTimesOut, MarkFails
  <1>2. passes[p] \in PassRows /\ ReportingInv(p)  BY ReminderFacts DEF ReminderInv
  <1>3. /\ late \in PassRows /\ late.rest = passes[p].rest /\ late.current = k /\ late.answer = "no"
        /\ free \in PassRows /\ free.rest = passes[p].rest /\ free.current = 0 /\ free.answer = "none"
        /\ k \in ReminderIds
    BY <1>1, <1>2 DEF PassRows, ReportingInv
  <1> HIDE DEF late, free
  <1>4. /\ passes' \in [Passes -> PassRows] /\ passes'[p] = row
        /\ \A q \in Passes : q # p => passes'[q] = passes[q]
    BY <1>1, <1>3, PassTyped
  <1>5. ReminderIds' = ReminderIds /\ resent' \subseteq ReminderIds
    BY <1>1, <1>3, ReminderFacts DEF ReminderIds
  <1>6. \A q \in Passes : ReportingInv(q)'
    <2>1. ReportingInv(p)'  BY <1>1, <1>2, <1>3, <1>4, ReminderFacts DEF ReportingInv, PassRows
    <2>2. \A q \in Passes : q # p => ReportingInv(q)'
      BY <1>1, <1>4 DEF ReminderInv, ReportingInv, Reported, reportVars
    <2> QED BY <2>1, <2>2
  <1>7. ASSUME NEW j \in ReminderIds \ resent' PROVE CountedInv(j)'
    <2>1. j \in ReminderIds /\ j # k /\ j # 0 /\ CountedInv(j)
      BY <1>1, <1>7, ReminderFacts DEF ReminderInv
    <2>2. ASSUME NEW q \in Passes
          PROVE  /\ HasInHand(q, j)' <=> HasInHand(q, j)
                 /\ Awaits(q, j)' <=> Awaits(q, j)
                 /\ j \in passes'[q].rest <=> j \in passes[q].rest
      <3>1. CASE q = p  BY <1>1, <1>3, <1>4, <2>1, <3>1 DEF HasInHand, Awaits
      <3>2. CASE q # p  BY <1>4, <3>2 DEF HasInHand, Awaits
      <3> QED BY <3>1, <3>2
    <2> QED BY <1>1, <2>1, <2>2 DEF CountedInv
  <1> QED BY <1>1, <1>4, <1>5, <1>6, <1>7, PassesKeep

(* A pass marks the reminder it reported, unless it is no longer pending.  *)
LEMMA MarkKeeps == ASSUME ReminderInv, NEW p \in Passes, MarkTripReminder(p) PROVE ReminderInv'
  <1> DEFINE k == passes[p].current
             status == StatusAfter(passes[p].answer)
             row == Marked(reminders[k], status)
             free == [passes[p] EXCEPT !.current = 0, !.answer = "none"]
  <1>1. /\ passes[p].answer \in {"yes", "no"}
        /\ SetReminder(k, row) /\ passes' = [passes EXCEPT ![p] = free]
        /\ UNCHANGED <<generators, clicks, resent, expired, silent, doubled>>
    BY DEF MarkTripReminder, reportVars
  <1>2. passes[p] \in PassRows /\ ReportingInv(p)  BY ReminderFacts DEF ReminderInv
  <1>3. /\ k \in ReminderIds /\ k # 0
        /\ free \in PassRows /\ free.rest = passes[p].rest /\ free.current = 0 /\ free.answer = "none"
    BY <1>1, <1>2 DEF PassRows, ReportingInv
  <1> HIDE DEF free
  <1>4. /\ passes' \in [Passes -> PassRows] /\ passes'[p].rest = passes[p].rest
        /\ passes'[p].current = 0 /\ passes'[p].answer = "none"
        /\ \A q \in Passes : q # p => passes'[q] = passes[q]
    BY <1>1, <1>3, PassTyped
  <1>5. status \in {"sent", "failed"} /\ (status = "sent" => Reported(k))
    BY <1>2 DEF StatusAfter, ReportingInv
  <1> HIDE DEF status
  <1>6. /\ row \in ReminderRows /\ row.notified = reminders[k].notified
        /\ row.armed = reminders[k].armed /\ row.decided = reminders[k].decided
        /\ row.claim = reminders[k].claim /\ row.key = reminders[k].key
        /\ row.deleted = reminders[k].deleted
        /\ \/ row.status = reminders[k].status /\ ~Rearmable(reminders[k])
           \/ row.status = status /\ reminders[k].status = "pending"
        /\ ~Rearmable(row)
    <2>1. reminders[k] \in ReminderRows /\ status \in ReminderStatuses
      BY <1>3, <1>5, ReminderFacts DEF ReminderStatuses
    <2>2. CASE reminders[k].status = "pending" /\ ~reminders[k].deleted
      <3>1. row = [reminders[k] EXCEPT !.status = status]  BY <2>2 DEF Marked
      <3> QED BY <1>5, <2>1, <2>2, <3>1 DEF ReminderRows, Rearmable
    <2>3. CASE ~(reminders[k].status = "pending" /\ ~reminders[k].deleted)
      <3>1. row = reminders[k]  BY <2>3 DEF Marked
      <3> QED BY <2>1, <2>3, <3>1 DEF Rearmable
    <2> QED BY <2>2, <2>3
  <1>7. /\ reminders' \in Seq(ReminderRows) /\ ReminderIds' = ReminderIds
        /\ \A j \in ReminderIds : reminders'[j] = IF j = k THEN row ELSE reminders[j]
    BY <1>1, <1>3, <1>6, RowIsSet
  <1> HIDE DEF row
  <1>8. PassRows' = PassRows  BY <1>7 DEF PassRows
  <1>9. ReminderTypeOK'
    BY <1>1, <1>4, <1>7, <1>8, ReminderFacts DEF ReminderTypeOK, PassRows, GeneratorRows
  <1>10. DecisionsStand'  BY <1>6, <1>7 DEF ReminderInv, DecisionsStand
  <1>11. \A j \in ReminderIds :
            /\ reminders'[j].notified = reminders[j].notified /\ reminders'[j].armed = reminders[j].armed
            /\ reminders'[j].claim = reminders[j].claim /\ reminders'[j].key = reminders[j].key
            /\ reminders'[j].deleted = reminders[j].deleted
    BY <1>6, <1>7
  <1>12. \A j \in ReminderIds : Reported(j)' <=> Reported(j)  BY <1>1, <1>11 DEF Reported
  <1>13. ASSUME NEW q \in Passes PROVE ReportingInv(q)'
    <2>1. passes[q].current \in {0} \cup ReminderIds /\ passes[q].rest \subseteq ReminderIds /\ ReportingInv(q)
      BY ReminderFacts DEF PassRows, ReminderInv
    <2>2. CASE q = p  BY <1>4, <2>1, <2>2, ReminderFacts DEF ReportingInv
    <2>3. CASE q # p  BY <1>4, <1>12, <2>1, <2>3 DEF ReportingInv
    <2> QED BY <2>2, <2>3
  <1>14. ASSUME NEW j \in ReminderIds' PROVE RowInv(j)'
    <2>1. RowInv(j) /\ j \in ReminderIds  BY <1>7, <1>14 DEF ReminderInv
    <2>2. reminders'[j].status = "sent" => Reported(j)'  BY <1>5, <1>6, <1>7, <1>12, <2>1 DEF RowInv
    <2> QED BY <1>1, <1>11, <1>12, <2>1, <2>2 DEF RowInv
  <1>15. ASSUME NEW j \in (ReminderIds \ resent)' PROVE CountedInv(j)'
    <2>1. j \in ReminderIds /\ CountedInv(j) /\ j # 0  BY <1>1, <1>7, <1>15, ReminderFacts DEF ReminderInv
    <2>2. \A q \in Passes : HasInHand(q, j)' => HasInHand(q, j)  BY <1>4, <2>1 DEF HasInHand
    <2>3. \A q \in Passes : j \in passes'[q].rest => j \in passes[q].rest  BY <1>4
    <2>4. ASSUME NEW q \in Passes PROVE Awaits(q, j)' <=> Awaits(q, j)
      <3>1. CASE q = p  BY <1>1, <1>4, <3>1 DEF Awaits
      <3>2. CASE q # p  BY <1>4, <3>2 DEF Awaits
      <3> QED BY <3>1, <3>2
    <2>5. CASE j = k
      <3>1. ~Rearmable(reminders'[j])  BY <1>6, <1>7, <2>1, <2>5
      <3> QED BY <1>11, <2>1, <2>2, <2>3, <2>4, <3>1 DEF CountedInv
    <2>6. CASE j # k
      <3>1. reminders'[j] = reminders[j]  BY <1>7, <2>1, <2>6
      <3>2. \A q \in Passes : HasInHand(q, j) => HasInHand(q, j)'
        BY <1>4, <2>6 DEF HasInHand
      <3> QED BY <2>1, <2>2, <2>3, <2>4, <3>1, <3>2 DEF CountedInv
    <2> QED BY <2>5, <2>6
  <1>16. GenerationsInv'  BY <1>1, <1>7, <1>11, GenerationsKept
  <1> QED BY <1>7, <1>9, <1>10, <1>13, <1>14, <1>15, <1>16 DEF ReminderInv

(* A pass that stops or is over has nothing in hand.                       *)
LEMMA PassGoneKeeps ==
    ASSUME ReminderInv, NEW p \in Passes, PassStops(p) \/ PassOver(p) PROVE ReminderInv'
  <1>1. NoPass \in PassRows  BY DEF NoPass, PassRows
  <1>2. /\ passes' = [passes EXCEPT ![p] = NoPass]
        /\ UNCHANGED <<reminders, generators, clicks, reportVars, doubled>>
    BY DEF PassStops, PassOver
  <1>3. /\ passes' \in [Passes -> PassRows] /\ passes'[p] = NoPass
        /\ \A q \in Passes : q # p => passes'[q] = passes[q]
    BY <1>1, <1>2, PassTyped
  <1>4. /\ resent \subseteq resent' /\ resent' \subseteq ReminderIds
        /\ passes[p].current # 0 => passes[p].current \in resent'
    BY ReminderFacts DEF PassStops, PassOver, PassRows
  <1>5. \A q \in Passes : ReportingInv(q)'
    <2>1. ReportingInv(p)'  BY <1>3 DEF ReportingInv, NoPass
    <2>2. \A q \in Passes : q # p => ReportingInv(q)'
      BY <1>2, <1>3 DEF ReminderInv, ReportingInv, Reported, reportVars
    <2> QED BY <2>1, <2>2
  <1>6. ASSUME NEW k \in ReminderIds \ resent' PROVE CountedInv(k)'
    <2>1. k \in ReminderIds /\ k \notin resent' /\ CountedInv(k) /\ k # 0
      BY <1>4, <1>6, ReminderFacts DEF ReminderInv
    <2>2. ~HasInHand(p, k)' /\ ~Awaits(p, k)' /\ ~Awaits(p, k)
      BY <1>3, <1>4, <2>1 DEF HasInHand, Awaits, NoPass
    <2>3. \A q \in Passes : q # p => HasInHand(q, k)' = HasInHand(q, k) /\ Awaits(q, k)' = Awaits(q, k)
      BY <1>3 DEF HasInHand, Awaits
    <2>4. \A q \in Passes : k \in passes'[q].rest => k \in passes[q].rest
      BY <1>3 DEF NoPass
    <2>5. HasInHand(p, k) => reminders[k].notified < reminders[k].armed
      BY <1>4, <2>1 DEF HasInHand, CountedInv
    <2>6. reminders[k].claim = "open" => \E q \in Passes : Awaits(q, k)'
      BY <2>1, <2>2, <2>3 DEF CountedInv
    <2> QED BY <1>2, <2>1, <2>2, <2>3, <2>4, <2>5, <2>6 DEF CountedInv
  <1> QED BY <1>2, <1>3, <1>4, <1>5, <1>6, PassesKeep

-----------------------------------------------------------------------------
(* The users' decisions, and time.                                         *)
LEMMA ClickKeeps ==
    ASSUME ReminderInv, NEW k \in ReminderIds,
           \/ CompleteTripReminder(k) \/ DisableTripReminder(k) \/ RearmTripReminder(k)
           \/ SoftDeleteTripReminder(k) \/ PostponeTripReminder(k) \/ TriggerTimeComes(k)
           \/ ClaimExpires(k)
    PROVE  ReminderInv'
  <1> DEFINE old == reminders[k]
  <1>1. old \in ReminderRows /\ old.armed \in Nat /\ (old.decided # "pending" => old.status = old.decided)
    BY ReminderFacts DEF ReminderInv, DecisionsStand
  <1>2. PICK row \in ReminderRows :
           /\ SetReminder(k, row) /\ (SetReminder(k, row) => RowKept(k))
           /\ row.key = old.key /\ (old.deleted => row.deleted)
    <2> SUFFICES \E row \in ReminderRows :
                    /\ SetReminder(k, row)
                    /\ row.decided # "pending" => row.status = row.decided
                    /\ row.notified = old.notified /\ old.armed =< row.armed
                    /\ row.status = "sent" => old.status = "sent"
                    /\ k \notin resent' => ~Rearmable(row) \/ Rearmable(old) \/ old.armed < row.armed
                    /\ \/ row.claim = old.claim
                       \/ old.claim # "open" /\ row.claim = "free" /\ k \in expired'
                    /\ row.key = old.key /\ (old.deleted => row.deleted)
      BY RowIsSet DEF RowKept
    <2>1. CASE CompleteTripReminder(k)
      <3> DEFINE row == [old EXCEPT !.status = "completed", !.decided = "completed"]
      <3>1. [old EXCEPT !.status = "completed"] \in ReminderRows
        BY <1>1 DEF ReminderRows, ReminderStatuses
      <3>2. row \in ReminderRows  BY <3>1 DEF ReminderRows
      <3>3. SetReminder(k, row)  BY <2>1 DEF CompleteTripReminder, Click
      <3>4. /\ row.status = "completed" /\ row.decided = "completed"
            /\ row.notified = old.notified /\ row.armed = old.armed
            /\ row.claim = old.claim /\ row.key = old.key /\ row.deleted = old.deleted
        BY <1>1 DEF ReminderRows
      <3> HIDE DEF row
      <3> QED BY <1>1, <3>2, <3>3, <3>4 DEF Rearmable
    <2>2. CASE DisableTripReminder(k)
      <3> DEFINE row == [old EXCEPT !.status = "disabled", !.decided = "disabled"]
      <3>1. [old EXCEPT !.status = "disabled"] \in ReminderRows
        BY <1>1 DEF ReminderRows, ReminderStatuses
      <3>2. row \in ReminderRows  BY <3>1 DEF ReminderRows
      <3>3. SetReminder(k, row)  BY <2>2 DEF DisableTripReminder, Click
      <3>4. /\ row.status = "disabled" /\ row.decided = "disabled"
            /\ row.notified = old.notified /\ row.armed = old.armed
            /\ row.claim = old.claim /\ row.key = old.key /\ row.deleted = old.deleted
        BY <1>1 DEF ReminderRows
      <3> HIDE DEF row
      <3> QED BY <1>1, <3>2, <3>3, <3>4 DEF Rearmable
    <2>3. CASE RearmTripReminder(k)
      <3> DEFINE row == [old EXCEPT !.status = "pending", !.decided = "pending", !.armed = @ + 1]
      <3>1. [old EXCEPT !.status = "pending"] \in ReminderRows
        BY <1>1 DEF ReminderRows, ReminderStatuses
      <3>2. [old EXCEPT !.status = "pending", !.decided = "pending"] \in ReminderRows
        BY <3>1 DEF ReminderRows
      <3>3. old.armed + 1 \in Nat  BY <1>1
      <3>4. row \in ReminderRows  BY <3>2, <3>3 DEF ReminderRows
      <3>5. SetReminder(k, row)  BY <2>3 DEF RearmTripReminder, Click
      <3>6. /\ row.status = "pending" /\ row.decided = "pending"
            /\ row.notified = old.notified /\ row.armed = old.armed + 1
            /\ row.claim = old.claim /\ row.key = old.key /\ row.deleted = old.deleted
        BY <1>1 DEF ReminderRows
      <3> HIDE DEF row
      <3> QED BY <1>1, <3>4, <3>5, <3>6 DEF Rearmable
    <2>4. CASE SoftDeleteTripReminder(k)
      <3> DEFINE row == [old EXCEPT !.deleted = TRUE]
      <3>1. row \in ReminderRows  BY <1>1 DEF ReminderRows
      <3>2. SetReminder(k, row)  BY <2>4 DEF SoftDeleteTripReminder, Click
      <3>3. /\ row.status = old.status /\ row.decided = old.decided /\ row.deleted
            /\ row.notified = old.notified /\ row.armed = old.armed
            /\ row.claim = old.claim /\ row.key = old.key
        BY <1>1 DEF ReminderRows
      <3> HIDE DEF row
      <3> QED BY <1>1, <3>1, <3>2, <3>3 DEF Rearmable
    <2>5. CASE PostponeTripReminder(k) \/ TriggerTimeComes(k)
      <3>1. PICK due \in BOOLEAN : SetReminder(k, [old EXCEPT !.due = due])
        BY <2>5 DEF PostponeTripReminder, TriggerTimeComes, Click
      <3> DEFINE row == [old EXCEPT !.due = due]
      <3>2. row \in ReminderRows  BY <1>1 DEF ReminderRows
      <3>3. /\ row.status = old.status /\ row.decided = old.decided /\ row.deleted = old.deleted
            /\ row.notified = old.notified /\ row.armed = old.armed
            /\ row.claim = old.claim /\ row.key = old.key
        BY <1>1 DEF ReminderRows
      <3>4. SetReminder(k, row)  BY <3>1
      <3> HIDE DEF row
      <3> QED BY <1>1, <3>2, <3>3, <3>4 DEF Rearmable
    <2>6. CASE ClaimExpires(k)
      <3> DEFINE row == [old EXCEPT !.claim = "free"]
      <3>1. row \in ReminderRows  BY <1>1 DEF ReminderRows
      <3>2. /\ row.status = old.status /\ row.decided = old.decided /\ row.deleted = old.deleted
            /\ row.notified = old.notified /\ row.armed = old.armed
            /\ row.claim = "free" /\ row.key = old.key
        BY <1>1 DEF ReminderRows
      <3>3. SetReminder(k, row) /\ old.claim # "open" /\ k \in expired'
        BY <2>6 DEF ClaimExpires
      <3> HIDE DEF row
      <3> QED BY <1>1, <3>1, <3>2, <3>3 DEF Rearmable
    <2> QED BY <2>1, <2>2, <2>3, <2>4, <2>5, <2>6
  <1>3. /\ reminders' \in Seq(ReminderRows) /\ ReminderIds' = ReminderIds
        /\ \A j \in ReminderIds : /\ j # k => reminders'[j] = reminders[j]
                                  /\ reminders'[j].key = reminders[j].key
                                  /\ reminders[j].deleted => reminders'[j].deleted
    BY <1>2, RowIsSet
  <1>4. \A j \in ReminderIds : RowKept(j)  BY <1>2, <1>3, SameRowKept
  <1>5. /\ UNCHANGED <<passes, generators, silent, doubled>> /\ clicks' \in Nat
        /\ resent \subseteq resent' /\ resent' \subseteq ReminderIds
        /\ expired \subseteq expired' /\ expired' \subseteq ReminderIds
    BY ReminderFacts DEF CompleteTripReminder, DisableTripReminder, RearmTripReminder,
           SoftDeleteTripReminder, PostponeTripReminder, TriggerTimeComes, ClaimExpires, Click,
           reportVars
  <1>6. GenerationsInv'  BY <1>3, <1>5, GenerationsKept
  <1> QED BY <1>3, <1>4, <1>5, <1>6, StatementKeeps, ReminderFacts

-----------------------------------------------------------------------------
(* There are no reminders initially.                                       *)
LEMMA ReminderInitially == ReminderInit => ReminderInv
  <1> SUFFICES ASSUME ReminderInit PROVE ReminderInv
    OBVIOUS
  <1>1. /\ reminders = << >> /\ ReminderIds = {} /\ clicks = 0
        /\ resent = {} /\ expired = {} /\ silent = {} /\ doubled = {}
    BY DEF ReminderInit, ReminderIds
  <1>2. NoPass \in PassRows /\ NoGeneration \in GeneratorRows
    BY DEF NoPass, PassRows, NoGeneration, GeneratorRows
  <1>3. ReminderTypeOK
    BY <1>1, <1>2 DEF ReminderInit, ReminderTypeOK, PassRows, GeneratorRows
  <1>4. \A p \in Passes : ReportingInv(p)  BY DEF ReminderInit, NoPass, ReportingInv
  <1>5. GenerationsInv
    <2>1. UnderWay = {} /\ \A g \in Generators : generators[g].phase = "none"
      BY DEF ReminderInit, UnderWay, NoGeneration
    <2> QED BY <1>1, <2>1 DEF GenerationsInv, OneReminderEach
  <1> QED BY <1>1, <1>3, <1>4, <1>5 DEF ReminderInv, DecisionsStand

(* Every step of a pass, a generation, a report, a user or the clock keeps *)
(* the invariant.                                                          *)
LEMMA ReminderStep == ReminderInv /\ [ReminderNext]_reminderVars => ReminderInv'
  <1> SUFFICES ASSUME ReminderInv, [ReminderNext]_reminderVars PROVE ReminderInv'
    OBVIOUS
  <1>1. CASE UNCHANGED reminderVars
    <2>1. /\ ReminderIds' = ReminderIds /\ UNCHANGED <<reminders, passes, generators, clicks, resent>>
          /\ UNCHANGED <<expired, silent, doubled>>
      BY <1>1 DEF reminderVars, ReminderIds
    <2> QED BY <2>1, SameRowKept, StatementKeeps, GenerationsKept, ReminderFacts
  <1> QED BY <1>1, GenerationKeeps, CreateKeeps, ListDueKeeps, NotifyKeeps, InsertKeeps, FailureKeeps,
             MarkKeeps, PassGoneKeeps, ClickKeeps DEF ReminderNext

(* The inductive invariant holds of the reminders, for every number of     *)
(* passes, generations, reminders and clicks.                              *)
THEOREM ReminderInvariant == ReminderSpec => []ReminderInv
  BY ReminderInitially, ReminderStep, PTL DEF ReminderSpec

(* What a user last decided about a reminder stands: no pass with an older *)
(* list, and no generation, undoes it (MarkTripReminder, its WHERE         *)
(* clause).                                                                *)
THEOREM RemindersObeyTheirUsers == ReminderSpec => []DecisionsStand
  <1>1. ReminderInv => DecisionsStand  BY DEF ReminderInv
  <1> QED BY <1>1, ReminderInvariant, PTL

(* What is marked sent has gone out or is about to, unless a report of it  *)
(* was muted or failed after its claim; a reminder goes out at most once   *)
(* for every time it was made pending, unless it was resent and its claim  *)
(* was over; and nothing has two live reminders but what overlapping       *)
(* generations inserted (ProcessDueTripReminders, GenerateTripReminders).  *)
THEOREM RemindersNotifyOnce == ReminderSpec => []NotifiedOnceUnlessOverlapped
  <1>1. ReminderInv => NotifiedOnceUnlessOverlapped
    <2> SUFFICES ASSUME ReminderInv PROVE NotifiedOnceUnlessOverlapped
      OBVIOUS
    <2>1. SentHasGoneOut  BY DEF ReminderInv, RowInv, Reported, SentHasGoneOut
    <2>2. GoesOutOnce
      <3> SUFFICES ASSUME NEW k \in ReminderIds, k \notin resent \cap expired
                   PROVE  reminders[k].notified =< reminders[k].armed
        BY DEF GoesOutOnce
      <3>1. CASE k \notin resent  BY <3>1 DEF ReminderInv, CountedInv
      <3>2. CASE k \notin expired  BY <3>2, ReminderFacts DEF ReminderInv, RowInv
      <3> QED BY <3>1, <3>2
    <2> QED BY <2>1, <2>2 DEF ReminderInv, GenerationsInv, NotifiedOnceUnlessOverlapped
  <1> QED BY <1>1, ReminderInvariant, PTL

-----------------------------------------------------------------------------
ExporterRows == [phase : {"none", "building", "saved"}, job : Nat]
SweepRows == [rest : SUBSET (Nat \ {0}), current : Nat]

Busy(x) == exporter[x].phase # "none"
Swept(s, k) == k \in sweep[s].rest \/ sweep[s].current = k

(* What a job says of its package, and the package of its job.             *)
ExportInv(k) ==
    /\ exports[k].overdue => exports[k].status \in {"completed", "expired"}
    /\ exports[k].status = "completed" /\ ~exports[k].overdue => exports[k].file \/ k \in misreported
    /\ exports[k].file =>
          \/ exports[k].status = "completed"
          \/ \E x \in Exporters : exporter[x].phase = "saved" /\ exporter[x].job = k
          \/ k \in forgotten

(* The inductive invariant.  A job that is being built is queued and in    *)
(* the hands of one request, and a sweep touches none but overdue jobs.    *)
ExportsInv ==
    /\ exports \in Seq(ExportRows)
    /\ exporter \in [Exporters -> ExporterRows]
    /\ sweep \in [Sweeps -> SweepRows]
    /\ \A x \in Exporters : Busy(x) \/ exporter[x] = NoExport
    /\ \A x \in Exporters :
          Busy(x) => /\ At(x) \in ExportIds /\ exports[At(x)].status = "queued"
                     /\ exporter[x].phase = "building" => ~exports[At(x)].file
                     /\ exporter[x].phase = "saved" => exports[At(x)].file
    /\ \A x, y \in Exporters : Busy(x) /\ Busy(y) /\ At(x) = At(y) => x = y
    /\ \A s \in Sweeps, k \in Nat \ {0} : Swept(s, k) => k \in ExportIds /\ exports[k].overdue
    /\ \A k \in ExportIds : ExportInv(k)

(* The facts about types that the steps below use.                         *)
LEMMA ExportFacts ==
    ASSUME ExportsInv
    PROVE  /\ Len(exports) \in Nat /\ 0 \notin ExportIds
           /\ \A k \in ExportIds : k \in Nat \ {0} /\ exports[k] \in ExportRows
           /\ \A x \in Exporters : exporter[x] \in ExporterRows
           /\ \A s \in Sweeps : sweep[s] \in SweepRows
  BY DEF ExportsInv, ExportIds

(* Statements that change one row, or none.                                *)
ExportRowStep(k, row) ==
    /\ exports' \in Seq(ExportRows) /\ ExportIds' = ExportIds
    /\ \A j \in ExportIds : exports'[j] = IF j = k THEN row ELSE exports[j]

(* An update of one row.                                                   *)
LEMMA ExportRowIsSet ==
    ASSUME ExportsInv, NEW k \in ExportIds, NEW row \in ExportRows, exports' = [exports EXCEPT ![k] = row]
    PROVE  ExportRowStep(k, row)
  BY ExportFacts DEF ExportsInv, ExportIds, ExportRowStep

(* No update at all.                                                       *)
LEMMA ExportRowStays ==
    ASSUME ExportsInv, NEW k \in ExportIds, UNCHANGED exports
    PROVE  ExportRowStep(k, exports[k])
  BY DEF ExportsInv, ExportIds, ExportRowStep

(* A request takes its next step.                                          *)
LEMMA ExporterTyped ==
    ASSUME ExportsInv, NEW x \in Exporters, NEW row \in ExporterRows,
           exporter' = [exporter EXCEPT ![x] = row]
    PROVE  /\ exporter' \in [Exporters -> ExporterRows] /\ exporter'[x] = row
           /\ \A y \in Exporters : y # x => exporter'[y] = exporter[y]
  BY DEF ExportsInv

-----------------------------------------------------------------------------
(* A new job is queued, has no file, and is in the hands of its request    *)
(* alone.                                                                  *)
LEMMA CreateJobKeeps == ASSUME ExportsInv, NEW x \in Exporters, CreateDataExportJob(x) PROVE ExportsInv'
  <1> DEFINE new == [status |-> "queued", overdue |-> FALSE, file |-> FALSE]
  <1>1. PICK n \in Nat : n = Len(exports) + 1  BY ExportFacts
  <1>2. new \in ExportRows  BY DEF ExportRows
  <1>3. /\ exports' = Append(exports, new)
        /\ exporter' = [exporter EXCEPT ![x] = [phase |-> "building", job |-> n]]
        /\ UNCHANGED <<sweep, forgotten, misreported>> /\ ~Busy(x)
    BY <1>1 DEF CreateDataExportJob, NoExport, Busy
  <1>4. /\ exports' \in Seq(ExportRows) /\ ExportIds' = ExportIds \cup {n}
        /\ n \notin ExportIds /\ n # 0
        /\ exports'[n] = new /\ \A k \in ExportIds : exports'[k] = exports[k]
    BY <1>1, <1>2, <1>3, ExportFacts DEF ExportsInv, ExportIds
  <1>5. [phase |-> "building", job |-> n] \in ExporterRows  BY DEF ExporterRows
  <1>6. /\ exporter' \in [Exporters -> ExporterRows] /\ exporter'[x].phase = "building"
        /\ exporter'[x].job = n
        /\ \A y \in Exporters : y # x => exporter'[y] = exporter[y]
    BY <1>3, <1>5, ExporterTyped
  <1>7. \A y \in Exporters : y # x /\ Busy(y)' => Busy(y) /\ At(y)' = At(y) /\ At(y) \in ExportIds
    BY <1>6 DEF Busy, At, ExportsInv
  <1>8. ASSUME NEW y \in Exporters, Busy(y)'
        PROVE  /\ At(y)' \in ExportIds' /\ exports'[At(y)'].status = "queued"
               /\ exporter'[y].phase = "building" => ~exports'[At(y)'].file
               /\ exporter'[y].phase = "saved" => exports'[At(y)'].file
    <2>1. CASE y = x  BY <1>4, <1>6, <2>1 DEF At
    <2>2. CASE y # x  BY <1>4, <1>6, <1>7, <1>8, <2>2 DEF ExportsInv
    <2> QED BY <2>1, <2>2
  <1>9. \A y, z \in Exporters : Busy(y)' /\ Busy(z)' /\ At(y)' = At(z)' => y = z
    BY <1>4, <1>6, <1>7 DEF ExportsInv, At
  <1>10. \A s \in Sweeps, k \in Nat \ {0} : Swept(s, k)' => k \in ExportIds' /\ exports'[k].overdue
    BY <1>3, <1>4 DEF ExportsInv, Swept
  <1>11. ASSUME NEW k \in ExportIds' PROVE ExportInv(k)'
    <2>1. CASE k = n  BY <1>4, <2>1 DEF ExportInv
    <2>2. CASE k # n
      <3>1. k \in ExportIds /\ exports'[k] = exports[k] /\ ExportInv(k)
        BY <1>4, <2>2 DEF ExportsInv
      <3>2. \A y \in Exporters : exporter[y].phase = "saved" => exporter'[y] = exporter[y]
        BY <1>3, <1>6 DEF Busy
      <3> QED BY <1>3, <3>1, <3>2 DEF ExportInv
    <2> QED BY <2>1, <2>2
  <1>12. \A y \in Exporters : Busy(y)' \/ exporter'[y] = NoExport
    BY <1>6 DEF ExportsInv, Busy
  <1> QED BY <1>3, <1>4, <1>6, <1>8, <1>9, <1>10, <1>11, <1>12 DEF ExportsInv

(* A request takes its next step on its job, or leaves it.                 *)
LEMMA JobStepKeeps ==
    ASSUME ExportsInv, NEW x \in Exporters, Busy(x), NEW k \in ExportIds, k = At(x),
           NEW row \in ExportRows, ExportRowStep(k, row), UNCHANGED sweep, ~row.overdue,
           NEW state \in ExporterRows, exporter' = [exporter EXCEPT ![x] = state],
           \/ state = NoExport
           \/ state.phase = "saved" /\ state.job = k /\ row.status = "queued" /\ row.file,
           forgotten \subseteq forgotten', misreported \subseteq misreported',
           row.status = "completed" => row.file \/ k \in misreported',
           row.file => row.status = "completed" \/ state.phase = "saved" \/ k \in forgotten'
    PROVE  ExportsInv'
  <1>1. /\ exporter' \in [Exporters -> ExporterRows] /\ exporter'[x] = state
        /\ \A y \in Exporters : y # x => exporter'[y] = exporter[y]
    BY ExporterTyped
  <1>2. /\ exports' \in Seq(ExportRows) /\ ExportIds' = ExportIds /\ exports'[k] = row
        /\ \A j \in ExportIds : j # k => exports'[j] = exports[j]
    BY DEF ExportRowStep
  <1>3. /\ exports[k].status = "queued" /\ ~exports[k].overdue
        /\ \A y \in Exporters : y # x /\ Busy(y) => At(y) # k
    BY DEF ExportsInv, ExportInv
  <1>4. \A y \in Exporters : y # x /\ Busy(y)' =>
           Busy(y) /\ At(y)' = At(y) /\ At(y) \in ExportIds \ {k}
    BY <1>1, <1>3 DEF Busy, At, ExportsInv
  <1>5. ASSUME NEW y \in Exporters, Busy(y)'
        PROVE  /\ At(y)' \in ExportIds' /\ exports'[At(y)'].status = "queued"
               /\ exporter'[y].phase = "building" => ~exports'[At(y)'].file
               /\ exporter'[y].phase = "saved" => exports'[At(y)'].file
    <2>1. CASE y = x  BY <1>1, <1>2, <1>5, <2>1 DEF At, Busy, NoExport
    <2>2. CASE y # x  BY <1>1, <1>2, <1>4, <1>5, <2>2 DEF ExportsInv
    <2> QED BY <2>1, <2>2
  <1>6. \A y, z \in Exporters : Busy(y)' /\ Busy(z)' /\ At(y)' = At(z)' => y = z
    BY <1>1, <1>4 DEF ExportsInv, At, Busy, NoExport
  <1>7. \A s \in Sweeps, j \in Nat \ {0} : Swept(s, j)' => j \in ExportIds' /\ exports'[j].overdue
    BY <1>2, <1>3 DEF ExportsInv, Swept
  <1>8. ASSUME NEW j \in ExportIds' PROVE ExportInv(j)'
    <2>1. CASE j = k  BY <1>1, <1>2, <2>1 DEF ExportInv, NoExport
    <2>2. CASE j # k
      <3>1. j \in ExportIds /\ exports'[j] = exports[j] /\ ExportInv(j)
        BY <1>2, <2>2 DEF ExportsInv
      <3>2. \A y \in Exporters : exporter[y].phase = "saved" /\ exporter[y].job = j =>
               exporter'[y] = exporter[y]
        BY <1>1, <2>2 DEF At
      <3> QED BY <3>1, <3>2 DEF ExportInv
    <2> QED BY <2>1, <2>2
  <1>9. \A y \in Exporters : Busy(y)' \/ exporter'[y] = NoExport
    BY <1>1 DEF ExportsInv, Busy
  <1> QED BY <1>1, <1>2, <1>5, <1>6, <1>7, <1>8, <1>9 DEF ExportsInv

(* The request builds, saves, completes, fails or stops.                   *)
LEMMA RequestKeeps ==
    ASSUME ExportsInv, NEW x \in Exporters,
           \/ FailDataExportJob(x) \/ SaveFile(x) \/ CompleteDataExportJob(x) \/ ExporterStops(x)
    PROVE  ExportsInv'
  <1>1. Busy(x)
    BY DEF FailDataExportJob, SaveFile, CompleteDataExportJob, ExporterStops, Busy, ExportsInv
  <1>2. PICK k \in ExportIds : k = At(x)  BY <1>1 DEF ExportsInv
  <1> DEFINE old == exports[k]
  <1>3. /\ old \in ExportRows /\ old.status = "queued" /\ ~old.overdue
        /\ exporter[x] \in ExporterRows /\ NoExport \in ExporterRows /\ NoExport.phase = "none"
        /\ exporter[x].phase = "building" => ~old.file
        /\ exporter[x].phase = "saved" => old.file
    BY <1>1, <1>2, ExportFacts DEF ExportsInv, ExportInv, NoExport, ExporterRows
  <1>4. CASE FailDataExportJob(x)
    <2> DEFINE row == [old EXCEPT !.status = "failed"]
    <2>1. /\ row \in ExportRows /\ row.file = old.file /\ row.overdue = old.overdue
          /\ row.status = "failed"
      BY <1>3 DEF ExportRows
    <2>2. ExportRowStep(k, row) \/ ExportRowStep(k, old)
      <3>1. CASE exports' = [exports EXCEPT ![At(x)].status = "failed"]
        <4>1. exports' = [exports EXCEPT ![k] = row]  BY <1>2, <3>1
        <4> QED BY <2>1, <4>1, ExportRowIsSet
      <3>2. CASE exports' = exports  BY <3>2, ExportRowStays
      <3> QED BY <1>4, <3>1, <3>2 DEF FailDataExportJob
    <2>3. /\ exporter' = [exporter EXCEPT ![x] = NoExport] /\ ~old.file
          /\ UNCHANGED <<sweep, forgotten, misreported>>
      BY <1>3, <1>4 DEF FailDataExportJob, JobDone
    <2> HIDE DEF row
    <2> QED BY <1>1, <1>2, <1>3, <2>1, <2>2, <2>3, JobStepKeeps
  <1>5. CASE SaveFile(x)
    <2> DEFINE row == [old EXCEPT !.file = TRUE]
               state == [exporter[x] EXCEPT !.phase = "saved"]
    <2>1. row \in ExportRows /\ row.file /\ ~row.overdue /\ row.status = "queued"
      BY <1>3 DEF ExportRows
    <2>2. exports' = [exports EXCEPT ![k] = row]  BY <1>2, <1>5 DEF SaveFile
    <2>3. state \in ExporterRows /\ state.phase = "saved" /\ state.job = k
      BY <1>2, <1>3 DEF ExporterRows, At
    <2>4. /\ exporter' = [exporter EXCEPT ![x] = state]
          /\ UNCHANGED <<sweep, forgotten, misreported>>
      BY <1>5 DEF SaveFile
    <2>5. ExportRowStep(k, row)  BY <2>1, <2>2, ExportRowIsSet
    <2> HIDE DEF row, state
    <2> QED BY <1>1, <1>2, <2>1, <2>3, <2>4, <2>5, JobStepKeeps
  <1>6. CASE CompleteDataExportJob(x)
    <2>1. /\ exporter' = [exporter EXCEPT ![x] = NoExport] /\ UNCHANGED sweep /\ old.file
      BY <1>3, <1>6 DEF CompleteDataExportJob, JobDone
    <2>2. CASE /\ exports' = [exports EXCEPT ![k].status = "completed"]
               /\ UNCHANGED <<forgotten, misreported>>
      <3> DEFINE row == [old EXCEPT !.status = "completed"]
      <3>1. row \in ExportRows /\ row.file /\ ~row.overdue /\ row.status = "completed"
        BY <1>3, <2>1 DEF ExportRows
      <3>2. exports' = [exports EXCEPT ![k] = row]  BY <2>2
      <3>3. ExportRowStep(k, row)  BY <3>1, <3>2, ExportRowIsSet
      <3> HIDE DEF row
      <3> QED BY <1>1, <1>2, <1>3, <2>1, <2>2, <3>1, <3>3, JobStepKeeps
    <2>3. ASSUME NEW effect \in BOOLEAN, NEW deleted \in BOOLEAN,
                 /\ exports' = [exports EXCEPT ![k].status = IF effect THEN "completed" ELSE @,
                                               ![k].file = ~deleted]
                 /\ misreported' = IF effect THEN misreported \cup {k} ELSE misreported
                 /\ forgotten' = IF ~effect /\ ~deleted THEN forgotten \cup {k} ELSE forgotten
          PROVE  ExportsInv'
      <3>1. PICK status \in {"queued", "completed"} :
               status = IF effect THEN "completed" ELSE old.status
        BY <1>3
      <3> DEFINE mid == [old EXCEPT !.status = status]
                 row == [mid EXCEPT !.file = ~deleted]
      <3>2. mid \in ExportRows /\ mid.status = status /\ ~mid.overdue  BY <1>3 DEF ExportRows
      <3>3. exports' = [exports EXCEPT ![k] = row]  BY <2>3, <3>1 DEF ExportsInv, ExportIds
      <3> HIDE DEF mid
      <3>4. row \in ExportRows /\ row.file = ~deleted /\ row.status = status /\ ~row.overdue
        BY <3>2 DEF ExportRows
      <3>5. ExportRowStep(k, row)  BY <3>3, <3>4, ExportRowIsSet
      <3> HIDE DEF row
      <3> QED BY <1>1, <1>2, <1>3, <2>1, <2>3, <3>1, <3>4, <3>5, JobStepKeeps
    <2> QED BY <1>2, <1>6, <2>2, <2>3 DEF CompleteDataExportJob
  <1>7. CASE ExporterStops(x)
    <2>1. /\ exporter' = [exporter EXCEPT ![x] = NoExport] /\ UNCHANGED <<exports, sweep, misreported>>
          /\ forgotten \subseteq forgotten' /\ (old.file => k \in forgotten')
      BY <1>1, <1>2, <1>3, <1>7 DEF ExporterStops, JobDone, ExporterRows, Busy
    <2>2. ExportRowStep(k, old)  BY <2>1, ExportRowStays
    <2> QED BY <1>1, <1>2, <1>3, <2>1, <2>2, JobStepKeeps
  <1> QED BY <1>4, <1>5, <1>6, <1>7

-----------------------------------------------------------------------------
(* A step on a job that is over: its retention ends, its file is deleted   *)
(* or the job expires.  Only an overdue job may lose its file.             *)
OverStep(k, row) ==
    /\ exports[k].status \in {"completed", "expired"}
    /\ ExportRowStep(k, row) /\ UNCHANGED <<exporter, misreported>> /\ forgotten \subseteq forgotten'
    /\ row.status \in {"completed", "expired"}
    /\ row.overdue \/ row = exports[k]
    /\ row.file => exports[k].file /\ (row.status = exports[k].status \/ k \in forgotten')

(* Such a step keeps the invariant: no request has the job in hand.        *)
LEMMA OverStepKeeps ==
    ASSUME ExportsInv, NEW k \in ExportIds, NEW row \in ExportRows, OverStep(k, row),
           sweep' \in [Sweeps -> SweepRows],
           \A s \in Sweeps, j \in Nat \ {0} : Swept(s, j)' => Swept(s, j)
    PROVE  ExportsInv'
  <1>1. /\ exports' \in Seq(ExportRows) /\ ExportIds' = ExportIds /\ exports'[k] = row
        /\ \A j \in ExportIds : j # k => exports'[j] = exports[j]
        /\ UNCHANGED <<exporter, misreported>> /\ forgotten \subseteq forgotten'
    BY DEF OverStep, ExportRowStep
  <1>2. \A x \in Exporters : Busy(x) => At(x) # k /\ At(x) \in ExportIds
    BY DEF ExportsInv, OverStep
  <1>3. ASSUME NEW x \in Exporters, Busy(x)'
        PROVE  /\ At(x)' \in ExportIds' /\ exports'[At(x)'].status = "queued"
               /\ exporter'[x].phase = "building" => ~exports'[At(x)'].file
               /\ exporter'[x].phase = "saved" => exports'[At(x)'].file
    BY <1>1, <1>2, <1>3 DEF ExportsInv, Busy, At
  <1>4. \A s \in Sweeps, j \in Nat \ {0} : Swept(s, j)' => j \in ExportIds' /\ exports'[j].overdue
    <2> SUFFICES ASSUME NEW s \in Sweeps, NEW j \in Nat \ {0}, Swept(s, j)'
                 PROVE  j \in ExportIds' /\ exports'[j].overdue
      OBVIOUS
    <2>1. j \in ExportIds /\ exports[j].overdue  BY DEF ExportsInv
    <2> QED BY <1>1, <2>1 DEF OverStep
  <1>5. ASSUME NEW j \in ExportIds' PROVE ExportInv(j)'
    <2>1. j \in ExportIds /\ ExportInv(j)  BY <1>1, <1>5 DEF ExportsInv
    <2>2. CASE j = k
      <3>1. \A x \in Exporters : exporter[x].phase = "saved" => exporter[x].job # k
        BY <1>2 DEF Busy, At
      <3>2. row.status \in {"completed", "expired"} /\ exports[k].status \in {"completed", "expired"}
        BY DEF OverStep
      <3>3. ~row.overdue => row = exports[k]  BY DEF OverStep
      <3>4. row.file => exports[k].file /\ (row.status = exports[k].status \/ k \in forgotten')
        BY DEF OverStep
      <3>5. exports[k].file => exports[k].status = "completed" \/ k \in forgotten
        BY <2>1, <2>2, <3>1 DEF ExportInv
      <3>6. row.file => row.status = "completed" \/ k \in forgotten'
        BY <1>1, <3>4, <3>5
      <3>7. row.status = "completed" /\ ~row.overdue => row.file \/ k \in misreported'
        BY <1>1, <2>1, <2>2, <3>3 DEF ExportInv
      <3> QED BY <1>1, <2>2, <3>2, <3>6, <3>7 DEF ExportInv
    <2>3. CASE j # k  BY <1>1, <2>1, <2>3 DEF ExportInv
    <2> QED BY <2>2, <2>3
  <1> QED BY <1>1, <1>3, <1>4, <1>5 DEF ExportsInv, Busy, At

(* The statement that expires a job, as such a step.                       *)
LEMMA ExpireTyped ==
    ASSUME ExportsInv, NEW k \in ExportIds, exports[k].overdue, ExpireDataExportJob(k)
    PROVE  /\ exports[k].status \in {"completed", "expired"}
           /\ forgotten \subseteq forgotten'
           /\ \E row \in ExportRows :
                 /\ ExportRowStep(k, row) /\ row.overdue /\ row.status \in {"completed", "expired"}
                 /\ row.file => exports[k].file /\ (row.status = exports[k].status \/ k \in forgotten')
  <1>1. exports[k].status \in {"completed", "expired"} /\ exports[k] \in ExportRows
    BY ExportFacts DEF ExportsInv, ExportInv
  <1>2. CASE exports[k].status = "completed"
    <2> DEFINE row == [exports[k] EXCEPT !.status = "expired"]
    <2>1. /\ row \in ExportRows /\ row.overdue /\ row.status = "expired"
          /\ row.file = exports[k].file
      BY <1>1 DEF ExportRows
    <2>2. /\ exports' = [exports EXCEPT ![k] = row]
          /\ forgotten' = IF exports[k].file THEN forgotten \cup {k} ELSE forgotten
      BY <1>2 DEF ExpireDataExportJob
    <2>3. ExportRowStep(k, row)  BY <2>1, <2>2, ExportRowIsSet
    <2> HIDE DEF row
    <2> QED BY <1>1, <1>2, <2>1, <2>2, <2>3
  <1>3. CASE exports[k].status # "completed"
    <2>1. UNCHANGED <<exports, forgotten>>  BY <1>3 DEF ExpireDataExportJob
    <2>2. ExportRowStep(k, exports[k])  BY <2>1, ExportRowStays
    <2> QED BY <1>1, <1>3, <2>1, <2>2
  <1> QED BY <1>2, <1>3

(* The retention of a job ends, or a read expires it.                      *)
LEMMA ReadKeeps ==
    ASSUME ExportsInv, NEW k \in ExportIds, RetentionEnds(k) \/ expireJobIfNeeded(k)
    PROVE  ExportsInv'
  <1>1. sweep' = sweep /\ sweep \in [Sweeps -> SweepRows]
        /\ UNCHANGED <<exporter, misreported>>
        /\ \A s \in Sweeps, j \in Nat \ {0} : Swept(s, j)' => Swept(s, j)
    BY DEF RetentionEnds, expireJobIfNeeded, Swept, ExportsInv
  <1>2. CASE RetentionEnds(k)
    <2> DEFINE row == [exports[k] EXCEPT !.overdue = TRUE]
    <2>1. /\ row \in ExportRows /\ row.overdue /\ row.status = "completed"
          /\ row.file = exports[k].file
      BY <1>2, ExportFacts DEF RetentionEnds, ExportRows
    <2>2. exports' = [exports EXCEPT ![k] = row] /\ forgotten' = forgotten
          /\ exports[k].status = "completed"
      BY <1>2 DEF RetentionEnds
    <2>3. ExportRowStep(k, row)  BY <2>1, <2>2, ExportRowIsSet
    <2> HIDE DEF row
    <2>4. OverStep(k, row)  BY <1>1, <2>1, <2>2, <2>3 DEF OverStep
    <2> QED BY <1>1, <2>1, <2>4, OverStepKeeps
  <1>3. CASE expireJobIfNeeded(k)
    <2>1. exports[k].overdue /\ ExpireDataExportJob(k)  BY <1>3 DEF expireJobIfNeeded
    <2>2. PICK row \in ExportRows : OverStep(k, row)
      BY <1>1, <2>1, ExpireTyped DEF OverStep
    <2> QED BY <1>1, <2>2, OverStepKeeps
  <1> QED BY <1>2, <1>3

(* A sweep takes its next step.                                            *)
LEMMA SweepTyped ==
    ASSUME ExportsInv, NEW s \in Sweeps, NEW row \in SweepRows, sweep' = [sweep EXCEPT ![s] = row]
    PROVE  /\ sweep' \in [Sweeps -> SweepRows] /\ sweep'[s] = row
           /\ \A r \in Sweeps : r # s => sweep'[r] = sweep[r]
  BY DEF ExportsInv

(* A sweep lists or stops: the jobs stay.                                  *)
LEMMA ListKeeps ==
    ASSUME ExportsInv, NEW s \in Sweeps, ListExpiredDataExportJobs(s) \/ SweepStops(s)
    PROVE  ExportsInv'
  <1>1. PICK row \in SweepRows :
           /\ sweep' = [sweep EXCEPT ![s] = row]
           /\ row.current = 0 /\ row.rest \subseteq Overdue
    <2>1. CASE ListExpiredDataExportJobs(s)
      <3> DEFINE row == [sweep[s] EXCEPT !.rest = Overdue]
      <3>1. sweep[s] \in SweepRows /\ sweep[s].current = 0
        <4>1. sweep[s] = NoSweep  BY <2>1 DEF ListExpiredDataExportJobs
        <4> QED BY <4>1, ExportFacts DEF NoSweep
      <3>2. Overdue \in SUBSET (Nat \ {0})  BY ExportFacts DEF Overdue
      <3>3. row \in SweepRows /\ row.current = 0 /\ row.rest = Overdue
        BY <3>1, <3>2 DEF SweepRows
      <3>4. sweep' = [sweep EXCEPT ![s] = row]  BY <2>1 DEF ListExpiredDataExportJobs
      <3> QED BY <3>3, <3>4
    <2>2. CASE SweepStops(s)
      <3>1. NoSweep \in SweepRows /\ NoSweep.current = 0 /\ NoSweep.rest = {}
        BY DEF NoSweep, SweepRows
      <3> QED BY <2>2, <3>1 DEF SweepStops
    <2> QED BY <2>1, <2>2
  <1>2. UNCHANGED <<exports, exporter, forgotten, misreported, ExportIds>>
    BY DEF ListExpiredDataExportJobs, SweepStops, ExportIds
  <1>3. /\ sweep' \in [Sweeps -> SweepRows] /\ sweep'[s] = row
        /\ \A r \in Sweeps : r # s => sweep'[r] = sweep[r]
    BY <1>1, SweepTyped
  <1>4. \A r \in Sweeps, j \in Nat \ {0} : Swept(r, j)' => j \in ExportIds /\ exports[j].overdue
    BY <1>1, <1>3 DEF ExportsInv, Swept, Overdue
  <1> QED BY <1>2, <1>3, <1>4 DEF ExportsInv, ExportInv, Busy, At

(* A sweep deletes the file of an overdue job, or fails to.                *)
LEMMA DeleteKeeps == ASSUME ExportsInv, NEW s \in Sweeps, DeleteFile(s) PROVE ExportsInv'
  <1>1. PICK k \in sweep[s].rest :
           /\ exports' \in {[exports EXCEPT ![k].file = FALSE], exports}
           /\ sweep' = [sweep EXCEPT ![s] = [rest |-> @.rest \ {k}, current |-> k]]
    BY DEF DeleteFile
  <1>2. k \in Nat \ {0} /\ sweep[s].rest \in SUBSET (Nat \ {0})  BY ExportFacts DEF SweepRows
  <1>3. [rest |-> sweep[s].rest \ {k}, current |-> k] \in SweepRows  BY <1>2 DEF SweepRows
  <1>4. /\ sweep' \in [Sweeps -> SweepRows] /\ sweep'[s].rest = sweep[s].rest \ {k}
        /\ sweep'[s].current = k
        /\ \A r \in Sweeps : r # s => sweep'[r] = sweep[r]
    BY <1>1, <1>3, SweepTyped
  <1>5. \A r \in Sweeps, j \in Nat \ {0} : Swept(r, j)' => Swept(r, j)
    BY <1>4 DEF Swept
  <1>6. UNCHANGED <<exporter, forgotten, misreported>>  BY DEF DeleteFile
  <1>7. k \in ExportIds /\ exports[k].overdue
    BY <1>1, <1>2 DEF ExportsInv, Swept
  <1>8. exports[k].status \in {"completed", "expired"} /\ exports[k] \in ExportRows
    BY <1>7, ExportFacts DEF ExportsInv, ExportInv
  <1> DEFINE row == [exports[k] EXCEPT !.file = FALSE]
  <1>9. /\ row \in ExportRows /\ ~row.file /\ row.overdue /\ row.status = exports[k].status
    BY <1>7, <1>8 DEF ExportRows
  <1>10. ExportRowStep(k, row) \/ ExportRowStep(k, exports[k])
    <2>1. CASE exports' = [exports EXCEPT ![k].file = FALSE]
      <3>1. exports' = [exports EXCEPT ![k] = row]  BY <2>1
      <3> QED BY <1>7, <1>9, <3>1, ExportRowIsSet
    <2>2. CASE exports' = exports  BY <1>7, <2>2, ExportRowStays
    <2> QED BY <1>1, <2>1, <2>2
  <1> HIDE DEF row
  <1>11. CASE ExportRowStep(k, row)
    <2>1. OverStep(k, row)  BY <1>6, <1>8, <1>9, <1>11 DEF OverStep
    <2> QED BY <1>4, <1>5, <1>7, <1>9, <2>1, OverStepKeeps
  <1>12. CASE ExportRowStep(k, exports[k])
    <2>1. OverStep(k, exports[k])  BY <1>6, <1>8, <1>12 DEF OverStep
    <2> QED BY <1>4, <1>5, <1>7, <1>8, <2>1, OverStepKeeps
  <1> QED BY <1>10, <1>11, <1>12

(* A sweep expires the job whose file it deleted.                          *)
LEMMA ExpireSweptKeeps == ASSUME ExportsInv, NEW s \in Sweeps, ExpireSwept(s) PROVE ExportsInv'
  <1>1. PICK k \in Nat \ {0} : k = sweep[s].current
    BY ExportFacts DEF ExpireSwept, SweepRows
  <1>2. k \in ExportIds /\ exports[k].overdue  BY <1>1 DEF ExportsInv, Swept
  <1>3. /\ ExpireDataExportJob(k) /\ UNCHANGED <<exporter, misreported>>
        /\ sweep' = [sweep EXCEPT ![s] = [sweep[s] EXCEPT !.current = 0]]
    BY <1>1 DEF ExpireSwept
  <1>4. /\ [sweep[s] EXCEPT !.current = 0] \in SweepRows
        /\ [sweep[s] EXCEPT !.current = 0].rest = sweep[s].rest
        /\ [sweep[s] EXCEPT !.current = 0].current = 0
    BY ExportFacts DEF SweepRows
  <1>5. /\ sweep' \in [Sweeps -> SweepRows] /\ sweep'[s].rest = sweep[s].rest
        /\ sweep'[s].current = 0 /\ \A r \in Sweeps : r # s => sweep'[r] = sweep[r]
    BY <1>3, <1>4, SweepTyped
  <1>6. \A r \in Sweeps, j \in Nat \ {0} : Swept(r, j)' => Swept(r, j)
    BY <1>5 DEF Swept
  <1>7. PICK row \in ExportRows : OverStep(k, row)
    BY <1>2, <1>3, ExpireTyped DEF OverStep
  <1> QED BY <1>2, <1>5, <1>6, <1>7, OverStepKeeps

-----------------------------------------------------------------------------
(* There are no jobs initially.                                            *)
LEMMA ExportInitially == ExportInit => ExportsInv
  <1> SUFFICES ASSUME ExportInit PROVE ExportsInv
    OBVIOUS
  <1>1. exports = << >> /\ ExportIds = {}  BY DEF ExportInit, ExportIds
  <1>2. NoExport \in ExporterRows /\ NoSweep \in SweepRows
    BY DEF NoExport, ExporterRows, NoSweep, SweepRows
  <1>3. \A x \in Exporters : exporter[x] = NoExport /\ ~Busy(x)
    BY DEF ExportInit, NoExport, Busy
  <1>4. \A s \in Sweeps, k \in Nat \ {0} : ~Swept(s, k)  BY DEF ExportInit, NoSweep, Swept
  <1> QED BY <1>1, <1>2, <1>3, <1>4 DEF ExportInit, ExportsInv

(* Every step of a request, a sweep or the clock keeps the invariant.      *)
LEMMA ExportStep == ExportsInv /\ [ExportNext]_exportVars => ExportsInv'
  <1> SUFFICES ASSUME ExportsInv, [ExportNext]_exportVars PROVE ExportsInv'
    OBVIOUS
  <1>1. CASE UNCHANGED exportVars
    BY <1>1 DEF exportVars, ExportsInv, ExportInv, ExportIds, Busy, At, Swept
  <1> QED BY <1>1, CreateJobKeeps, RequestKeeps, ReadKeeps, ListKeeps, DeleteKeeps, ExpireSweptKeeps
          DEF ExportNext

(* The inductive invariant holds of the exports, for every number of       *)
(* requests, sweeps and jobs.                                              *)
THEOREM ExportInvariant == ExportSpec => []ExportsInv
  BY ExportInitially, ExportStep, PTL DEF ExportSpec

(* What the marks of forgotten packages and false failures name: jobs.     *)
MarksNameJobs == forgotten \subseteq ExportIds /\ misreported \subseteq ExportIds

(* Jobs are added, never dropped, and only jobs are marked.                *)
LEMMA MarksGrow ==
    ASSUME MarksNameJobs, Len(exports) \in Nat, Len(exports') \in Nat, Len(exports) =< Len(exports'),
           forgotten' \subseteq forgotten \cup ExportIds,
           misreported' \subseteq misreported \cup ExportIds
    PROVE  MarksNameJobs'
  BY DEF MarksNameJobs, ExportIds

LEMMA MarksFollow ==
    ASSUME ExportsInv, ExportsInv', MarksNameJobs, ExportNext
    PROVE  MarksNameJobs'
  <1>1. Len(exports) \in Nat /\ Len(exports') \in Nat
    BY DEF ExportsInv
  <1>2. ASSUME NEW x \in Exporters, CreateDataExportJob(x)
        PROVE  MarksNameJobs'
    <2>1. Len(exports') = Len(exports) + 1 /\ UNCHANGED <<forgotten, misreported>>
      BY <1>2 DEF CreateDataExportJob, ExportsInv
    <2> QED BY <1>1, <2>1, MarksGrow
  <1>3. ASSUME NEW x \in Exporters,
               FailDataExportJob(x) \/ SaveFile(x) \/ CompleteDataExportJob(x) \/ ExporterStops(x)
        PROVE  MarksNameJobs'
    <2>1. Busy(x)
      BY <1>3 DEF FailDataExportJob, SaveFile, CompleteDataExportJob, ExporterStops, ExportsInv, Busy
    <2>2. At(x) \in ExportIds
      BY <2>1 DEF ExportsInv
    <2>3. DOMAIN exports' = DOMAIN exports
      BY <1>3 DEF FailDataExportJob, SaveFile, CompleteDataExportJob, ExporterStops
    <2>4. forgotten' \subseteq forgotten \cup ExportIds /\ misreported' \subseteq misreported \cup ExportIds
      BY <1>3, <2>2 DEF FailDataExportJob, SaveFile, CompleteDataExportJob, ExporterStops
    <2>5. Len(exports') = Len(exports)
      BY <2>3 DEF ExportsInv
    <2> QED BY <1>1, <2>4, <2>5, MarksGrow
  <1>4. ASSUME NEW k \in ExportIds, ExpireDataExportJob(k), UNCHANGED misreported
        PROVE  MarksNameJobs'
    <2>1. Len(exports') = Len(exports)
      BY <1>1, <1>4 DEF ExpireDataExportJob, ExportsInv
    <2>2. forgotten' \subseteq forgotten \cup ExportIds
      BY <1>4 DEF ExpireDataExportJob
    <2> QED BY <1>1, <1>4, <2>1, <2>2, MarksGrow
  <1>5. ASSUME NEW k \in ExportIds, RetentionEnds(k) \/ expireJobIfNeeded(k)
        PROVE  MarksNameJobs'
    <2>1. CASE RetentionEnds(k)
      <3>1. Len(exports') = Len(exports) /\ UNCHANGED <<forgotten, misreported>>
        BY <1>1, <2>1 DEF RetentionEnds, ExportsInv
      <3> QED BY <1>1, <3>1, MarksGrow
    <2>2. CASE expireJobIfNeeded(k)
      BY <1>4, <2>2 DEF expireJobIfNeeded
    <2> QED BY <1>5, <2>1, <2>2
  <1>6. ASSUME NEW s \in Sweeps,
               ListExpiredDataExportJobs(s) \/ DeleteFile(s) \/ SweepStops(s)
        PROVE  MarksNameJobs'
    <2>1. Len(exports') = Len(exports) /\ UNCHANGED <<forgotten, misreported>>
      BY <1>1, <1>6 DEF ListExpiredDataExportJobs, DeleteFile, SweepStops, ExportsInv
    <2> QED BY <1>1, <2>1, MarksGrow
  <1>7. ASSUME NEW s \in Sweeps, ExpireSwept(s)
        PROVE  MarksNameJobs'
    <2>1. sweep[s].current \in Nat \ {0}
      BY <1>7 DEF ExpireSwept, ExportsInv, SweepRows
    <2>2. sweep[s].current \in ExportIds
      BY <2>1 DEF ExportsInv, Swept
    <2> QED BY <1>4, <1>7, <2>2 DEF ExpireSwept
  <1> QED BY <1>2, <1>3, <1>5, <1>6, <1>7 DEF ExportNext

(* The types hold in every reachable state: what a request or a sweep is   *)
(* at, and what the marks name, are jobs.                                  *)
THEOREM ExportTypesHold == ExportSpec => []ExportTypeOK
  <1>1. ExportInit => MarksNameJobs
    BY DEF ExportInit, MarksNameJobs
  <1>2. ExportsInv /\ ExportsInv' /\ MarksNameJobs /\ [ExportNext]_exportVars => MarksNameJobs'
    <2>1. UNCHANGED exportVars /\ MarksNameJobs => MarksNameJobs'
      BY DEF exportVars, MarksNameJobs, ExportIds
    <2> QED BY <2>1, MarksFollow
  <1>3. ExportsInv /\ MarksNameJobs => ExportTypeOK
    <2> SUFFICES ASSUME ExportsInv, MarksNameJobs PROVE ExportTypeOK
      OBVIOUS
    <2>1. Len(exports) \in Nat /\ ExportIds \subseteq 0..Len(exports) /\ 0 \in 0..Len(exports)
      BY DEF ExportsInv, ExportIds
    <2>2. ASSUME NEW x \in Exporters
          PROVE  exporter[x] \in [phase : {"none", "building", "saved"}, job : 0..Len(exports)]
      <3>1. exporter[x] \in ExporterRows
        BY DEF ExportsInv
      <3>2. CASE Busy(x)
        BY <2>1, <3>1, <3>2 DEF ExportsInv, ExporterRows, At
      <3>3. CASE ~Busy(x)
        <4>1. exporter[x] = [phase |-> "none", job |-> 0]
          BY <3>3 DEF ExportsInv, NoExport
        <4> QED BY <2>1, <4>1
      <3> QED BY <3>2, <3>3
    <2>3. ASSUME NEW s \in Sweeps
          PROVE  sweep[s] \in [rest : SUBSET ExportIds, current : 0..Len(exports)]
      <3>1. sweep[s] \in SweepRows
        BY DEF ExportsInv
      <3>2. \A k \in Nat \ {0} : Swept(s, k) => k \in ExportIds
        BY DEF ExportsInv
      <3>3. sweep[s].rest \subseteq ExportIds /\ sweep[s].current \in 0..Len(exports)
        BY <2>1, <3>1, <3>2 DEF SweepRows, Swept
      <3> QED BY <3>1, <3>3 DEF SweepRows
    <2> QED BY <2>2, <2>3 DEF ExportsInv, MarksNameJobs, ExportTypeOK
  <1> QED BY <1>1, <1>2, <1>3, ExportInvariant, PTL DEF ExportSpec

(* A download link leads to a package and every package can be found by    *)
(* its job, whatever requests, sweeps and reads cross: but for a           *)
(* completion reported as failed, and packages nobody knows of any more    *)
(* (CompleteDataExportJob, CleanupExpired).                                *)
THEOREM ExportFilesFollow == ExportSpec => []FilesFollowTheirJobs
  <1>1. ExportsInv => FilesFollowTheirJobs
    <2> SUFFICES ASSUME ExportsInv, NEW k \in ExportIds
                 PROVE  /\ exports[k].status = "completed" /\ ~exports[k].overdue =>
                              exports[k].file \/ k \in misreported
                        /\ exports[k].file =>
                              \/ exports[k].status = "completed"
                              \/ \E x \in Exporters : exporter[x] = [phase |-> "saved", job |-> k]
                              \/ k \in forgotten
      BY DEF FilesFollowTheirJobs
    <2>1. ExportInv(k)  BY DEF ExportsInv
    <2>2. \A x \in Exporters : exporter[x].phase = "saved" /\ exporter[x].job = k =>
             exporter[x] = [phase |-> "saved", job |-> k]
      BY ExportFacts DEF ExporterRows
    <2> QED BY <2>1, <2>2 DEF ExportInv
  <1> QED BY <1>1, ExportInvariant, PTL

-----------------------------------------------------------------------------
(* The clock stays within a request's delay of the batches under way, the  *)
(* ledger's time never falls further than that behind a delivery, and it   *)
(* links to no notification that is gone.                                  *)
ClockInv ==
    /\ minute > 0 /\ ledger.latest =< minute
    /\ \A c \in Callers : batch[c] # NoBatch =>
          batch[c].time > 0 /\ batch[c].time =< minute /\ minute =< batch[c].time + ClaimDelay

WinsInv ==
    \A i \in 1..Len(wins) :
        wins[i] =< minute /\ ledger.latest > 0 /\ wins[i] =< ledger.latest + ClaimDelay

DedupeInv == DedupeTypeOK /\ ClockInv /\ WinsInv /\ OneDeliveryPerWindow

(* A batch keeps its time while it is under way.                           *)
BatchSteps(c) ==
    \/ batch' = batch
    \/ \E phase \in {"arrived", "won", "duplicate", "related", "linking", "creating",
                     "binding", "closing"}, row \in 0..Len(notifications') :
          batch' = [batch EXCEPT ![c] = [batch[c] EXCEPT !.phase = phase, !.row = row]]
    \/ Answered(c)

LEMMA BatchStepsKeep ==
    ASSUME DedupeInv, NEW c \in Callers, batch[c] # NoBatch, BatchSteps(c),
           minute' = minute, Len(notifications) =< Len(notifications'),
           notifications' \in Seq(NotificationRows)
    PROVE  /\ batch' \in [Callers -> Batches]
           /\ \A d \in Callers : batch'[d].row \in 0..Len(notifications')
           /\ \A d \in Callers : batch'[d] # NoBatch =>
                 batch'[d].time > 0 /\ batch'[d].time =< minute'
                 /\ minute' =< batch'[d].time + ClaimDelay
  <1>1. /\ batch \in [Callers -> Batches] /\ notifications \in Seq(NotificationRows)
        /\ \A d \in Callers : batch[d].row \in 0..Len(notifications)
        /\ \A d \in Callers : batch[d] # NoBatch =>
              batch[d].time > 0 /\ batch[d].time =< minute /\ minute =< batch[d].time + ClaimDelay
    BY DEF DedupeInv, DedupeTypeOK, ClockInv
  <1>2. Len(notifications) \in Nat /\ Len(notifications') \in Nat
    BY <1>1
  <1>3. \A d \in Callers : batch[d].row \in 0..Len(notifications')
    BY <1>1, <1>2
  <1>4. CASE batch' = batch
    BY <1>1, <1>3, <1>4
  <1>5. CASE Answered(c)
    <2>1. NoBatch \in Batches /\ NoBatch.row = 0
      BY DEF NoBatch, Batches
    <2>2. batch' = [batch EXCEPT ![c] = NoBatch]
      BY <1>5 DEF Answered
    <2> HIDE DEF NoBatch
    <2> QED BY <1>1, <1>2, <1>3, <2>1, <2>2
  <1>6. ASSUME NEW phase \in {"arrived", "won", "duplicate", "related", "linking", "creating",
                              "binding", "closing"}, NEW row \in 0..Len(notifications'),
               batch' = [batch EXCEPT ![c] = [batch[c] EXCEPT !.phase = phase, !.row = row]]
        PROVE  /\ batch' \in [Callers -> Batches]
               /\ \A d \in Callers : batch'[d].row \in 0..Len(notifications')
               /\ \A d \in Callers : batch'[d] # NoBatch =>
                     batch'[d].time > 0 /\ batch'[d].time =< minute'
                     /\ minute' =< batch'[d].time + ClaimDelay
    <2> DEFINE mid == [batch[c] EXCEPT !.phase = phase]
               next == [mid EXCEPT !.row = row]
    <2>1. batch[c] \in Batches /\ row \in Nat
      BY <1>1, <1>2
    <2>2. mid \in Batches /\ mid.time = batch[c].time
      BY <2>1 DEF Batches
    <2>3. next \in Batches /\ next.time = batch[c].time /\ next.row = row
      BY <2>1, <2>2 DEF Batches
    <2>4. batch' = [batch EXCEPT ![c] = next]
      BY <1>6
    <2> HIDE DEF next, mid
    <2> QED BY <1>1, <1>3, <2>3, <2>4
  <1> QED BY <1>4, <1>5, <1>6 DEF BatchSteps

(* Changing the phase alone, and dropping the event, are such steps.       *)
LEMMA PassOnSteps ==
    ASSUME DedupeTypeOK, NEW c \in Callers, Len(notifications') = Len(notifications),
           NEW phase \in {"arrived", "won", "duplicate", "related", "linking", "creating",
                          "binding", "closing"},
           PassOn(c, phase) \/ Dropped(c)
    PROVE  BatchSteps(c)
  <1>1. /\ batch[c] \in Batches /\ batch[c].row \in 0..Len(notifications')
        /\ batch \in [Callers -> Batches]
        /\ Len(notifications') \in Nat
    BY DEF DedupeTypeOK
  <1>2. CASE PassOn(c, phase)
    <2> DEFINE mid == [batch[c] EXCEPT !.phase = phase]
               next == [mid EXCEPT !.row = batch[c].row]
    <2>1. next = mid
      BY <1>1 DEF Batches
    <2>2. batch' = [batch EXCEPT ![c] = mid]
      BY <1>1, <1>2 DEF PassOn
    <2>3. batch' = [batch EXCEPT ![c] = [batch[c] EXCEPT !.phase = phase, !.row = batch[c].row]]
      BY <2>1, <2>2
    <2> QED BY <1>1, <2>3 DEF BatchSteps
  <1>3. CASE Dropped(c)
    <2>1. CASE Answered(c)
      BY <2>1 DEF BatchSteps
    <2>2. CASE batch' = [batch EXCEPT ![c].phase = "arrived", ![c].row = 0]
      <3>1. batch' = [batch EXCEPT ![c] = [batch[c] EXCEPT !.phase = "arrived", !.row = 0]]
        BY <1>1, <2>2
      <3>2. 0 \in 0..Len(notifications')
        BY <1>1
      <3> QED BY <3>1, <3>2 DEF BatchSteps
    <2> QED BY <1>3, <2>1, <2>2 DEF Dropped
  <1> QED BY <1>2, <1>3

(* Counting an event at a notification keeps what is known of the list.    *)
LEMMA TouchedKeeps ==
    ASSUME DedupeTypeOK, NEW c \in Callers, notifications' = Touched(c)
    PROVE  /\ notifications' \in Seq(NotificationRows)
           /\ Len(notifications') = Len(notifications)
           /\ \A k \in 1..Len(notifications) : notifications'[k].deleted = notifications[k].deleted
  <1>1. /\ notifications \in Seq(NotificationRows) /\ batch[c].time \in Nat
        /\ batch[c].row \in 0..Len(notifications) /\ Len(notifications) \in Nat
    BY DEF DedupeTypeOK, Batches
  <1>2. CASE notifications' = notifications
    BY <1>1, <1>2
  <1>3. ASSUME NEW k \in 0..Len(notifications), k = batch[c].row,
               notifications' = [notifications EXCEPT ![k].latest = batch[c].time]
        PROVE  /\ notifications' \in Seq(NotificationRows)
               /\ Len(notifications') = Len(notifications)
               /\ \A j \in 1..Len(notifications) :
                     notifications'[j].deleted = notifications[j].deleted
    <2>1. CASE k = 0
      <3>1. notifications' = notifications
        BY <1>1, <1>3, <2>1
      <3> QED BY <1>1, <3>1
    <2>2. CASE k # 0
      <3> DEFINE next == [notifications[k] EXCEPT !.latest = batch[c].time]
      <3>1. k \in 1..Len(notifications) /\ notifications[k] \in NotificationRows
        BY <1>1, <1>3, <2>2
      <3>2. next \in NotificationRows /\ next.deleted = notifications[k].deleted
        BY <1>1, <3>1 DEF NotificationRows
      <3>3. notifications' = [notifications EXCEPT ![k] = next]
        BY <1>3
      <3> HIDE DEF next
      <3> QED BY <1>1, <3>1, <3>2, <3>3
    <2> QED BY <2>1, <2>2
  <1> QED BY <1>1, <1>2, <1>3 DEF Touched

(* A batch that steps on without a claim of its own, over a list in which  *)
(* every notification stays as it was, keeps the invariant, if the ledger  *)
(* stays or is linked to a notification that is there.                     *)
LEMMA DedupeKept ==
    ASSUME DedupeAssumption, DedupeInv, NEW c \in Callers, batch[c] # NoBatch, BatchSteps(c),
           UNCHANGED <<minute, received, wins>>,
           notifications' \in Seq(NotificationRows), Len(notifications) =< Len(notifications'),
           \A k \in 1..Len(notifications) : notifications'[k].deleted = notifications[k].deleted,
           \/ ledger' = ledger
           \/ \E k \in 0..Len(notifications) :
                 /\ ledger' = [ledger EXCEPT !.link = k]
                 /\ k # 0 => ~notifications[k].deleted
    PROVE  DedupeInv'
  <1>1. /\ ledger \in [latest : Nat, link : 0..Len(notifications)]
        /\ ledger.link # 0 => ~notifications[ledger.link].deleted
        /\ Len(notifications) \in Nat /\ Len(notifications') \in Nat
    BY DEF DedupeInv, DedupeTypeOK, OneDeliveryPerWindow
  <1>2. /\ ledger' \in [latest : Nat, link : 0..Len(notifications)]
        /\ ledger'.latest = ledger.latest
        /\ ledger'.link # 0 => ~notifications[ledger'.link].deleted
    <2>1. CASE ledger' = ledger
      BY <1>1, <2>1
    <2>2. ASSUME NEW k \in 0..Len(notifications), ledger' = [ledger EXCEPT !.link = k],
                 k # 0 => ~notifications[k].deleted
          PROVE  <1>2
      BY <1>1, <2>2
    <2> QED BY <2>1, <2>2
  <1>3. /\ ledger' \in [latest : Nat, link : 0..Len(notifications')]
        /\ ledger'.link # 0 => ~notifications'[ledger'.link].deleted
    BY <1>1, <1>2
  <1>4. DedupeTypeOK'
    BY <1>3, BatchStepsKeep DEF DedupeInv, DedupeTypeOK
  <1>5. ClockInv'
    BY <1>2, BatchStepsKeep DEF DedupeInv, ClockInv
  <1>6. WinsInv'
    BY <1>2 DEF DedupeInv, WinsInv
  <1>7. OneDeliveryPerWindow'
    BY <1>3 DEF DedupeInv, OneDeliveryPerWindow
  <1> QED BY <1>4, <1>5, <1>6, <1>7 DEF DedupeInv

(* What a claim leaves in the ledger: its own time, at most the delay of a *)
(* request behind any delivery, and a link only where there was one.       *)
LEMMA ClaimedLedger ==
    ASSUME DedupeAssumption, DedupeInv, NEW c \in Callers, batch[c] # NoBatch,
           ledger' = Claimed(batch[c].time)
    PROVE  /\ ledger' \in [latest : Nat, link : 0..Len(notifications)]
           /\ ledger'.latest = batch[c].time
           /\ ledger'.latest > 0 /\ ledger'.latest =< minute
           /\ minute =< ledger'.latest + ClaimDelay
           /\ \A i \in 1..Len(wins) : wins[i] =< ledger'.latest + ClaimDelay
           /\ ledger'.link \in {0, ledger.link}
  <1>1. /\ ledger \in [latest : Nat, link : 0..Len(notifications)]
        /\ Len(notifications) \in Nat /\ minute \in Nat /\ wins \in Seq(Nat)
        /\ batch[c].time \in Nat
    BY DEF DedupeInv, DedupeTypeOK, Batches
  <1>2. ledger' = [latest |-> batch[c].time, link |-> IF IsDuplicate(batch[c].time) THEN ledger.link ELSE 0]
    BY DEF Claimed
  <1>3. batch[c].time > 0 /\ batch[c].time =< minute /\ minute =< batch[c].time + ClaimDelay
    BY DEF DedupeInv, ClockInv
  <1>4. \A i \in 1..Len(wins) : wins[i] \in Nat /\ wins[i] =< minute
    BY <1>1 DEF DedupeInv, WinsInv
  <1>5. ClaimDelay \in Nat
    BY DEF DedupeAssumption
  <1>6. ledger'.latest = batch[c].time
        /\ ledger'.link = (IF IsDuplicate(batch[c].time) THEN ledger.link ELSE 0)
    BY <1>2
  <1>7. ledger'.link \in 0..Len(notifications) /\ ledger'.link \in {0, ledger.link}
    BY <1>1, <1>6
  <1>8. \A i \in 1..Len(wins) : wins[i] =< batch[c].time + ClaimDelay
    BY <1>1, <1>3, <1>4, <1>5
  <1>9. ledger' \in [latest : Nat, link : 0..Len(notifications)]
    BY <1>1, <1>2, <1>6, <1>7
  <1> QED BY <1>3, <1>6, <1>7, <1>8, <1>9

(* A claim keeps the invariant, whether it wins or not: one that wins      *)
(* finds no claim at all, or one older than the window.                    *)
LEMMA DedupeClaimKeeps ==
    ASSUME DedupeAssumption, DedupeInv, NEW c \in Callers, batch[c] # NoBatch, BatchSteps(c),
           ledger' = Claimed(batch[c].time), UNCHANGED <<minute, notifications, received>>,
           \/ wins' = wins
           \/ ~IsDuplicate(batch[c].time) /\ wins' = Append(wins, batch[c].time)
    PROVE  DedupeInv'
  <1> DEFINE time == batch[c].time
  <1>1. /\ ledger \in [latest : Nat, link : 0..Len(notifications)]
        /\ Len(notifications) \in Nat /\ minute \in Nat /\ wins \in Seq(Nat) /\ Len(wins) \in Nat
        /\ time \in Nat /\ notifications \in Seq(NotificationRows)
    BY DEF DedupeInv, DedupeTypeOK, Batches
  <1>2. DedupeWindow \in Nat /\ ClaimDelay \in Nat
    BY DEF DedupeAssumption
  <1>3. time > 0 /\ time =< minute
    BY DEF DedupeInv, ClockInv
  <1>4. \A i \in 1..Len(wins) :
           wins[i] \in Nat /\ wins[i] =< minute /\ ledger.latest > 0
           /\ wins[i] =< ledger.latest + ClaimDelay
    BY <1>1 DEF DedupeInv, WinsInv
  <1>5. \A i, j \in 1..Len(wins) : i < j => wins[j] + ClaimDelay > wins[i] + DedupeWindow
    BY DEF DedupeInv, OneDeliveryPerWindow
  <1>6. /\ wins' \in Seq(Nat)
        /\ \A i \in 1..Len(wins') : wins'[i] =< minute /\ wins'[i] =< ledger'.latest + ClaimDelay
        /\ \A i, j \in 1..Len(wins') : i < j => wins'[j] + ClaimDelay > wins'[i] + DedupeWindow
    <2>1. CASE wins' = wins
      BY <1>1, <1>4, <1>5, <2>1, ClaimedLedger
    <2>2. CASE ~IsDuplicate(time) /\ wins' = Append(wins, time)
      <3>1. ledger # Unclaimed => ledger.latest < time - DedupeWindow
        BY <1>1, <1>2, <2>2 DEF IsDuplicate, Recent
      <3>2. \A i \in 1..Len(wins) : ledger # Unclaimed
        BY <1>4 DEF Unclaimed
      <3>3. \A i \in 1..Len(wins) : time + ClaimDelay > wins[i] + DedupeWindow
        <4> TAKE i \in 1..Len(wins)
        <4>1. ledger.latest < time - DedupeWindow /\ ledger.latest \in Nat /\ time \in Nat
          BY <1>1, <3>1, <3>2
        <4>2. wins[i] \in Nat /\ wins[i] =< ledger.latest + ClaimDelay
          BY <1>4
        <4> HIDE DEF time
        <4> QED BY <1>2, <4>1, <4>2
      <3>4. /\ wins' \in Seq(Nat) /\ Len(wins') = Len(wins) + 1
            /\ \A i \in 1..Len(wins) : wins'[i] = wins[i]
            /\ wins'[Len(wins) + 1] = time
        BY <1>1, <2>2
      <3>5. \A i \in 1..Len(wins') : wins'[i] =< minute /\ wins'[i] =< ledger'.latest + ClaimDelay
        <4> TAKE i \in 1..Len(wins')
        <4>1. CASE i = Len(wins) + 1
          BY <1>1, <1>2, <1>3, <3>4, <4>1, ClaimedLedger
        <4>2. CASE i \in 1..Len(wins)
          BY <1>4, <3>4, <4>2, ClaimedLedger
        <4> QED BY <1>1, <3>4, <4>1, <4>2
      <3>6. ASSUME NEW i \in 1..Len(wins'), NEW j \in 1..Len(wins'), i < j
            PROVE  wins'[j] + ClaimDelay > wins'[i] + DedupeWindow
        <4>1. i \in 1..Len(wins)
          BY <1>1, <3>4, <3>6
        <4>2. CASE j = Len(wins) + 1
          BY <3>3, <3>4, <4>1, <4>2
        <4>3. CASE j \in 1..Len(wins)
          BY <1>5, <3>4, <3>6, <4>1, <4>3
        <4> QED BY <1>1, <3>4, <4>2, <4>3
      <3> QED BY <3>4, <3>5, <3>6
    <2> QED BY <2>1, <2>2
  <1>7. ledger'.link # 0 => ~notifications'[ledger'.link].deleted
    BY ClaimedLedger DEF DedupeInv, OneDeliveryPerWindow
  <1>8. DedupeTypeOK'
    BY <1>1, <1>6, ClaimedLedger, BatchStepsKeep DEF DedupeInv, DedupeTypeOK
  <1>9. ClockInv'
    BY <1>1, ClaimedLedger, BatchStepsKeep DEF DedupeInv, ClockInv
  <1>10. WinsInv'
    BY <1>6, ClaimedLedger DEF WinsInv
  <1>11. OneDeliveryPerWindow'
    BY <1>6, <1>7 DEF OneDeliveryPerWindow
  <1> QED BY <1>8, <1>9, <1>10, <1>11 DEF DedupeInv

(* A batch arrives with the clock's time and nothing else.                 *)
LEMMA CreateBatchKeeps ==
    ASSUME DedupeAssumption, DedupeInv, NEW c \in Callers, CreateBatch(c)
    PROVE  DedupeInv'
  <1>1. PICK groupable \in BOOLEAN :
           batch' = [batch EXCEPT ![c] = [phase |-> "arrived", time |-> minute,
                                          groupable |-> groupable, row |-> 0]]
    BY DEF CreateBatch
  <1> DEFINE new == [phase |-> "arrived", time |-> minute, groupable |-> groupable, row |-> 0]
  <1>2. UNCHANGED <<minute, ledger, notifications, wins>> /\ received' = received + 1
    BY DEF CreateBatch
  <1>3. /\ minute \in Nat /\ minute > 0 /\ batch \in [Callers -> Batches]
        /\ Len(notifications) \in Nat /\ ClaimDelay \in Nat
    BY DEF DedupeInv, DedupeTypeOK, ClockInv, DedupeAssumption
  <1>4. new \in Batches /\ new.time = minute /\ new.row = 0
    BY <1>3 DEF Batches
  <1>5. batch' = [batch EXCEPT ![c] = new]
    BY <1>1
  <1> HIDE DEF new
  <1>6. DedupeTypeOK'
    BY <1>2, <1>3, <1>4, <1>5 DEF DedupeInv, DedupeTypeOK
  <1>7. ClockInv'
    BY <1>2, <1>3, <1>4, <1>5 DEF DedupeInv, ClockInv
  <1> QED BY <1>2, <1>6, <1>7 DEF DedupeInv, WinsInv, OneDeliveryPerWindow

(* A batch at work holds an event, and steps of its phase and row are the  *)
(* steps it may take.                                                      *)
LEMMA BatchRowStep ==
    ASSUME DedupeTypeOK, NEW c \in Callers, NEW row \in 0..Len(notifications'),
           NEW phase \in {"arrived", "won", "duplicate", "related", "linking", "creating",
                          "binding", "closing"},
           batch' = [batch EXCEPT ![c].phase = phase, ![c].row = row]
    PROVE  BatchSteps(c)
  <1>1. batch \in [Callers -> Batches]
    BY DEF DedupeTypeOK
  <1>2. batch' = [batch EXCEPT ![c] = [batch[c] EXCEPT !.phase = phase, !.row = row]]
    BY <1>1
  <1> QED BY <1>2 DEF BatchSteps

LEMMA AtWork ==
    ASSUME NEW c \in Callers, batch[c].phase # "none"
    PROVE  batch[c] # NoBatch
  BY DEF NoBatch

LEMMA ClaimNotificationDedupeKeeps ==
    ASSUME DedupeAssumption, DedupeInv, NEW c \in Callers,
           ClaimNotificationDedupe(c) \/ ClaimAgain(c)
    PROVE  DedupeInv'
  <1>1. DedupeTypeOK
    BY DEF DedupeInv
  <1>2. batch[c] # NoBatch
    BY AtWork DEF ClaimNotificationDedupe, ClaimAgain
  <1>3. CASE ClaimAgain(c)
    BY <1>2, <1>3, DedupeClaimKeeps DEF ClaimAgain, BatchSteps
  <1>4. CASE ClaimNotificationDedupe(c)
    <2>1. /\ ledger' = Claimed(batch[c].time)
          /\ UNCHANGED <<minute, notifications, received>>
      BY <1>4 DEF ClaimNotificationDedupe
    <2>2. CASE ~IsDuplicate(batch[c].time)
      <3>1. PassOn(c, "won") /\ wins' = Append(wins, batch[c].time)
        BY <1>4, <2>2 DEF ClaimNotificationDedupe
      <3>2. BatchSteps(c)
        BY <1>1, <2>1, <3>1, PassOnSteps
      <3> QED BY <1>2, <2>1, <2>2, <3>1, <3>2, DedupeClaimKeeps
    <2>3. CASE IsDuplicate(batch[c].time) /\ ledger.link = 0
      <3>1. Dropped(c) /\ wins' = wins
        BY <1>4, <2>3 DEF ClaimNotificationDedupe
      <3>2. BatchSteps(c)
        BY <1>1, <2>1, <3>1, PassOnSteps
      <3> QED BY <1>2, <2>1, <3>1, <3>2, DedupeClaimKeeps
    <2>4. CASE IsDuplicate(batch[c].time) /\ ledger.link # 0
      <3>1. /\ batch' = [batch EXCEPT ![c].phase = "duplicate", ![c].row = ledger.link]
            /\ wins' = wins
        BY <1>4, <2>4 DEF ClaimNotificationDedupe
      <3>2. ledger.link \in 0..Len(notifications')
        BY <1>1, <2>1 DEF DedupeTypeOK
      <3>3. BatchSteps(c)
        BY <1>1, <3>1, <3>2, BatchRowStep
      <3> QED BY <1>2, <2>1, <3>1, <3>3, DedupeClaimKeeps
    <2> QED BY <2>2, <2>3, <2>4
  <1> QED BY <1>3, <1>4

(* Counting the event at a notification, for a duplicate or as one of its  *)
(* kind.                                                                   *)
LEMMA GroupsKeep ==
    ASSUME DedupeAssumption, DedupeInv, NEW c \in Callers,
           GroupNotification(c) \/ GroupRelatedNotification(c)
    PROVE  DedupeInv'
  <1>1. DedupeTypeOK /\ Len(notifications) \in Nat
    BY DEF DedupeInv, DedupeTypeOK
  <1>2. batch[c] # NoBatch
    BY AtWork DEF GroupNotification, GroupRelatedNotification
  <1>3. UNCHANGED <<minute, ledger, received, wins>> /\ notifications' = Touched(c)
    BY DEF GroupNotification, GroupRelatedNotification
  <1>4. /\ notifications' \in Seq(NotificationRows)
        /\ Len(notifications') = Len(notifications)
        /\ \A k \in 1..Len(notifications) : notifications'[k].deleted = notifications[k].deleted
    BY <1>1, <1>3, TouchedKeeps
  <1>5. Answered(c) \/ Dropped(c) \/ PassOn(c, "linking")
    BY DEF GroupNotification, GroupRelatedNotification
  <1>6. BatchSteps(c)
    <2>1. CASE Answered(c)
      BY <2>1 DEF BatchSteps
    <2>2. CASE Dropped(c) \/ PassOn(c, "linking")
      BY <1>1, <1>4, <2>2, PassOnSteps
    <2> QED BY <1>5, <2>1, <2>2
  <1> QED BY <1>1, <1>2, <1>3, <1>4, <1>6, DedupeKept

LEMMA FindRecentKeeps ==
    ASSUME DedupeAssumption, DedupeInv, NEW c \in Callers, FindRecentNotificationByDigestKey(c)
    PROVE  DedupeInv'
  <1>1. DedupeTypeOK /\ Len(notifications) \in Nat /\ notifications \in Seq(NotificationRows)
    BY DEF DedupeInv, DedupeTypeOK
  <1>2. batch[c] # NoBatch
    BY AtWork DEF FindRecentNotificationByDigestKey
  <1>3. UNCHANGED <<minute, ledger, notifications, received, wins>>
    BY DEF FindRecentNotificationByDigestKey
  <1>4. \/ PassOn(c, "closing")
        \/ PassOn(c, "creating")
        \/ \E k \in 1..Len(notifications) :
              batch' = [batch EXCEPT ![c].phase = "related", ![c].row = k]
    BY DEF FindRecentNotificationByDigestKey, RecentOfDigestKey, NotificationIds
  <1>5. CASE PassOn(c, "closing") \/ PassOn(c, "creating")
    <2>1. BatchSteps(c)
      BY <1>1, <1>3, <1>5, PassOnSteps
    <2> QED BY <1>1, <1>2, <1>3, <2>1, DedupeKept
  <1>6. ASSUME NEW k \in 1..Len(notifications),
               batch' = [batch EXCEPT ![c].phase = "related", ![c].row = k]
        PROVE  DedupeInv'
    <2>1. k \in 0..Len(notifications')
      BY <1>1, <1>3
    <2>2. BatchSteps(c)
      BY <1>1, <1>6, <2>1, BatchRowStep
    <2> QED BY <1>1, <1>2, <1>3, <2>2, DedupeKept
  <1> QED BY <1>4, <1>5, <1>6

LEMMA CreateNotificationKeeps ==
    ASSUME DedupeAssumption, DedupeInv, NEW c \in Callers, CreateNotification(c)
    PROVE  DedupeInv'
  <1>1. /\ DedupeTypeOK /\ Len(notifications) \in Nat
        /\ notifications \in Seq(NotificationRows) /\ batch[c].time \in Nat
        /\ batch[c].groupable \in BOOLEAN
    BY DEF DedupeInv, DedupeTypeOK, Batches
  <1>2. batch[c] # NoBatch
    BY AtWork DEF CreateNotification
  <1>3. /\ UNCHANGED <<minute, ledger, received, wins>>
        /\ batch' = [batch EXCEPT ![c].phase = "binding", ![c].row = Len(notifications) + 1]
    BY DEF CreateNotification
  <1> DEFINE new == [latest |-> batch[c].time, groupable |-> batch[c].groupable, deleted |-> FALSE]
  <1>4. new \in NotificationRows
    BY <1>1 DEF NotificationRows
  <1>5. notifications' = Append(notifications, new)
    BY DEF CreateNotification
  <1> HIDE DEF new
  <1>6. /\ notifications' \in Seq(NotificationRows)
        /\ Len(notifications') = Len(notifications) + 1
        /\ \A k \in 1..Len(notifications) : notifications'[k] = notifications[k]
    BY <1>1, <1>4, <1>5
  <1>7. Len(notifications) + 1 \in 0..Len(notifications')
    BY <1>1, <1>6
  <1>8. BatchSteps(c)
    BY <1>1, <1>3, <1>7, BatchRowStep
  <1> QED BY <1>1, <1>2, <1>3, <1>6, <1>8, DedupeKept

LEMMA BindKeeps ==
    ASSUME DedupeAssumption, DedupeInv, NEW c \in Callers, BindNotificationDedupe(c)
    PROVE  DedupeInv'
  <1>1. /\ DedupeTypeOK /\ Len(notifications) \in Nat /\ notifications \in Seq(NotificationRows)
        /\ batch[c].row \in 0..Len(notifications)
    BY DEF DedupeInv, DedupeTypeOK
  <1>2. batch[c] # NoBatch
    BY AtWork DEF BindNotificationDedupe
  <1>3. UNCHANGED <<minute, notifications, received, wins>>
    BY DEF BindNotificationDedupe
  <1>4. \/ ledger' = ledger
        \/ \E k \in 0..Len(notifications) :
              /\ ledger' = [ledger EXCEPT !.link = k]
              /\ k # 0 => ~notifications[k].deleted
    BY <1>1 DEF BindNotificationDedupe
  <1>5. BatchSteps(c)
    <2>1. CASE Answered(c)
      BY <2>1 DEF BatchSteps
    <2>2. CASE PassOn(c, "closing")
      BY <1>1, <1>3, <2>2, PassOnSteps
    <2> QED BY <2>1, <2>2 DEF BindNotificationDedupe
  <1> QED BY <1>1, <1>2, <1>3, <1>4, <1>5, DedupeKept

LEMMA BatchEndsKeeps ==
    ASSUME DedupeAssumption, DedupeInv, NEW c \in Callers, BatchEnds(c)
    PROVE  DedupeInv'
  <1>1. Len(notifications) \in Nat /\ notifications \in Seq(NotificationRows)
    BY DEF DedupeInv, DedupeTypeOK
  <1>2. BatchSteps(c)
    BY DEF BatchEnds, BatchSteps
  <1> QED BY <1>1, <1>2, DedupeKept DEF BatchEnds

(* The cleanup unlinks what it deletes.                                    *)
LEMMA CleanupNotificationsKeeps ==
    ASSUME DedupeInv, NEW k \in NotificationIds, CleanupNotifications(k)
    PROVE  DedupeInv'
  <1>1. /\ k \in 1..Len(notifications) /\ Len(notifications) \in Nat
        /\ notifications \in Seq(NotificationRows)
        /\ ledger \in [latest : Nat, link : 0..Len(notifications)]
        /\ ledger.link # 0 => ~notifications[ledger.link].deleted
    BY DEF DedupeInv, DedupeTypeOK, OneDeliveryPerWindow, NotificationIds
  <1> DEFINE gone == [notifications[k] EXCEPT !.deleted = TRUE]
  <1>2. gone \in NotificationRows
    <2>1. notifications[k] \in NotificationRows
      BY <1>1
    <2> QED BY <2>1 DEF NotificationRows
  <1>3. notifications' = [notifications EXCEPT ![k] = gone]
    BY DEF CleanupNotifications
  <1> HIDE DEF gone
  <1>4. /\ notifications' \in Seq(NotificationRows) /\ Len(notifications') = Len(notifications)
        /\ \A j \in 1..Len(notifications) : j # k => notifications'[j] = notifications[j]
    BY <1>1, <1>2, <1>3
  <1>5. /\ ledger' \in [latest : Nat, link : 0..Len(notifications)]
        /\ ledger'.latest = ledger.latest
        /\ ledger'.link # 0 => ledger'.link = ledger.link /\ ledger.link # k
    <2>1. CASE ledger.link = k
      <3>1. ledger' = [ledger EXCEPT !.link = 0]
        BY <2>1 DEF CleanupNotifications
      <3> QED BY <1>1, <3>1
    <2>2. CASE ledger.link # k
      <3>1. ledger' = ledger
        BY <2>2 DEF CleanupNotifications
      <3> QED BY <1>1, <2>2, <3>1
    <2> QED BY <2>1, <2>2
  <1>6. UNCHANGED <<minute, batch, received, wins>>
    BY DEF CleanupNotifications
  <1>7. ledger'.link # 0 => ~notifications'[ledger'.link].deleted
    BY <1>1, <1>4, <1>5
  <1>8. DedupeTypeOK'
    BY <1>4, <1>5, <1>6 DEF DedupeInv, DedupeTypeOK
  <1>9. ClockInv' /\ WinsInv'
    BY <1>5, <1>6 DEF DedupeInv, ClockInv, WinsInv
  <1> QED BY <1>6, <1>7, <1>8, <1>9 DEF DedupeInv, OneDeliveryPerWindow

LEMMA MinuteKeeps ==
    ASSUME DedupeAssumption, DedupeInv, MinutePasses
    PROVE  DedupeInv'
  <1>1. /\ minute \in Nat /\ ClaimDelay \in Nat /\ batch \in [Callers -> Batches]
        /\ ledger.latest \in Nat /\ wins \in Seq(Nat)
    BY DEF DedupeInv, DedupeTypeOK, DedupeAssumption
  <1>2. \A c \in Callers : batch[c].time \in Nat
    BY <1>1 DEF Batches
  <1>3. UNCHANGED <<ledger, notifications, batch, received, wins>> /\ minute' = minute + 1
    BY DEF MinutePasses
  <1>4. DedupeTypeOK'
    BY <1>1, <1>3 DEF DedupeInv, DedupeTypeOK
  <1>5. ClockInv'
    BY <1>1, <1>2, <1>3 DEF DedupeInv, ClockInv, MinutePasses
  <1>6. WinsInv'
    BY <1>1, <1>3 DEF DedupeInv, WinsInv
  <1> QED BY <1>3, <1>4, <1>5, <1>6 DEF DedupeInv, OneDeliveryPerWindow

(* The inductive invariant: the ledger is never further behind a delivery  *)
(* than a request takes, though late batches move its time back.           *)
THEOREM DedupeInvariant == DedupeSpec => []DedupeInv
  <1> USE DedupeAssumption
  <1>1. DedupeInit => DedupeInv
    <2> SUFFICES ASSUME DedupeInit PROVE DedupeInv
      OBVIOUS
    <2>1. NoBatch \in Batches /\ NoBatch.row = 0
      BY DEF NoBatch, Batches
    <2>2. /\ minute = 1 /\ ledger = [latest |-> 0, link |-> 0] /\ notifications = << >>
          /\ batch = [c \in Callers |-> NoBatch] /\ received = 0 /\ wins = << >>
      BY DEF DedupeInit, Unclaimed
    <2> HIDE DEF NoBatch
    <2>3. DedupeTypeOK
      BY <2>1, <2>2 DEF DedupeTypeOK
    <2>4. ClockInv /\ WinsInv /\ OneDeliveryPerWindow
      BY <2>2 DEF ClockInv, WinsInv, OneDeliveryPerWindow
    <2> QED BY <2>3, <2>4 DEF DedupeInv
  <1>2. DedupeInv /\ [DedupeNext]_dedupeVars => DedupeInv'
    <2> SUFFICES ASSUME DedupeInv, [DedupeNext]_dedupeVars PROVE DedupeInv'
      OBVIOUS
    <2>1. CASE UNCHANGED dedupeVars
      BY <2>1 DEF dedupeVars, DedupeInv, DedupeTypeOK, ClockInv, WinsInv, OneDeliveryPerWindow
    <2>2. ASSUME NEW c \in Callers, CreateBatch(c) PROVE DedupeInv'
      BY <2>2, CreateBatchKeeps
    <2>3. ASSUME NEW c \in Callers, ClaimNotificationDedupe(c) \/ ClaimAgain(c) PROVE DedupeInv'
      BY <2>3, ClaimNotificationDedupeKeeps
    <2>4. ASSUME NEW c \in Callers, GroupNotification(c) \/ GroupRelatedNotification(c)
          PROVE  DedupeInv'
      BY <2>4, GroupsKeep
    <2>5. ASSUME NEW c \in Callers, FindRecentNotificationByDigestKey(c) PROVE DedupeInv'
      BY <2>5, FindRecentKeeps
    <2>6. ASSUME NEW c \in Callers, CreateNotification(c) PROVE DedupeInv'
      BY <2>6, CreateNotificationKeeps
    <2>7. ASSUME NEW c \in Callers, BindNotificationDedupe(c) PROVE DedupeInv'
      BY <2>7, BindKeeps
    <2>8. ASSUME NEW c \in Callers, BatchEnds(c) PROVE DedupeInv'
      BY <2>8, BatchEndsKeeps
    <2>9. ASSUME NEW k \in NotificationIds, CleanupNotifications(k) PROVE DedupeInv'
      BY <2>9, CleanupNotificationsKeeps
    <2>10. CASE MinutePasses
      BY <2>10, MinuteKeeps
    <2> QED BY <2>1, <2>2, <2>3, <2>4, <2>5, <2>6, <2>7, <2>8, <2>9, <2>10 DEF DedupeNext
  <1> QED BY <1>1, <1>2, PTL DEF DedupeSpec

(* However many callers report one event at once, two deliveries of it are *)
(* a deduplication window apart, less the delay of a request, and the      *)
(* ledger links to no notification that is gone.                           *)
THEOREM DeliveriesAreApart == DedupeSpec => []OneDeliveryPerWindow
  <1>1. DedupeInv => OneDeliveryPerWindow
    BY DEF DedupeInv
  <1> QED BY <1>1, DedupeInvariant, PTL

-----------------------------------------------------------------------------
(* Dead letters: one place is a set with one member.                       *)
Lone(S) == \E x : S = {x}

(* Message m is in one place: the four kinds of places.                    *)
Rest(o, m) == Positions(action[o].rest, m)
NoHands(m) == \A o \in Operators : Rest(o, m) = {}
Once(m) ==
    \/ /\ Lone(Positions(dead, m)) /\ Positions(main, m) = {}
       /\ NoHands(m) /\ m \notin done
    \/ /\ Positions(dead, m) = {} /\ Lone(Positions(main, m))
       /\ NoHands(m) /\ m \notin done
    \/ /\ Positions(dead, m) = {} /\ Positions(main, m) = {}
       /\ NoHands(m) /\ m \in done
    \/ /\ Positions(dead, m) = {} /\ Positions(main, m) = {} /\ m \notin done
       /\ \E o \in Operators : /\ Lone(Rest(o, m))
                               /\ \A p \in Operators \ {o} : Rest(p, m) = {}

LettersInv ==
    /\ DeadLetterTypeOK
    /\ \A o \in Operators : action[o].phase # "move" => action[o].rest = << >>
    /\ \A m \in Letters \ dropped : Once(m)

-----------------------------------------------------------------------------
(* Queues.                                                                 *)

(* A message put at the end has one position more, the others none.        *)
LEMMA AppendPositions ==
    ASSUME NEW S, NEW q \in Seq(S), NEW x \in S, NEW m
    PROVE  /\ x # m => Positions(Append(q, x), m) = Positions(q, m)
           /\ x = m /\ Positions(q, m) = {} => Lone(Positions(Append(q, x), m))
  <1>1. /\ DOMAIN Append(q, x) = DOMAIN q \cup {Len(q) + 1} /\ Len(q) + 1 \notin DOMAIN q
        /\ \A k \in DOMAIN q : Append(q, x)[k] = q[k]
        /\ Append(q, x)[Len(q) + 1] = x
    OBVIOUS
  <1>2. ASSUME x = m, Positions(q, m) = {}
        PROVE  Positions(Append(q, x), m) = {Len(q) + 1}
    BY <1>1, <1>2 DEF Positions
  <1>3. ASSUME x # m
        PROVE  Positions(Append(q, x), m) = Positions(q, m)
    BY <1>1, <1>3 DEF Positions
  <1> QED BY <1>2, <1>3 DEF Lone

(* Cutting a queue in two puts a message in one half or the other.         *)
LEMMA SplitPositions ==
    ASSUME NEW S, NEW q \in Seq(S), NEW n \in 0..Len(q), NEW m
    PROVE  LET front == Positions(SubSeq(q, 1, n), m)
               back == Positions(SubSeq(q, n + 1, Len(q)), m)
           IN /\ Positions(q, m) = {} => front = {} /\ back = {}
              /\ Lone(Positions(q, m)) =>
                    \/ Lone(front) /\ back = {}
                    \/ front = {} /\ Lone(back)
  <1> DEFINE left == SubSeq(q, 1, n)
             right == SubSeq(q, n + 1, Len(q))
             front == Positions(left, m)
             back == Positions(right, m)
  <1>1. /\ Len(q) \in Nat /\ DOMAIN q = 1..Len(q)
        /\ DOMAIN left = 1..n /\ \A k \in 1..n : left[k] = q[k]
        /\ DOMAIN right = 1..(Len(q) - n) /\ \A k \in 1..(Len(q) - n) : right[k] = q[n + k]
    OBVIOUS
  <1> HIDE DEF left, right
  <1>2. \A k \in front : k \in 1..n /\ k \in Positions(q, m)
    BY <1>1 DEF Positions
  <1>3. \A k \in back : k \in 1..(Len(q) - n) /\ n + k \in Positions(q, m)
    BY <1>1 DEF Positions
  <1>4. \A k \in Positions(q, m) : k \in 1..Len(q) /\ (k \in front \/ (k > n /\ k - n \in back))
    <2> SUFFICES ASSUME NEW k \in 1..Len(q), q[k] = m
                 PROVE  k \in front \/ (k > n /\ k - n \in back)
      BY <1>1 DEF Positions
    <2>1. CASE k =< n
      <3>1. k \in 1..n  BY <2>1
      <3> QED BY <1>1, <3>1 DEF Positions
    <2>2. CASE k > n
      <3>1. k - n \in 1..(Len(q) - n) /\ n + (k - n) = k  BY <1>1, <2>2
      <3> QED BY <1>1, <2>2, <3>1 DEF Positions
    <2> QED BY <2>1, <2>2
  <1>5. ASSUME Lone(Positions(q, m))
        PROVE  \/ Lone(front) /\ back = {}
               \/ front = {} /\ Lone(back)
    <2>1. PICK k : Positions(q, m) = {k}
      BY <1>5 DEF Lone
    <2>2. k \in 1..Len(q)
      BY <1>4, <2>1
    <2> HIDE DEF front, back
    <2>3. CASE k \in front
      <3>1. k =< n  BY <1>2, <2>3
      <3>2. back = {}  BY <1>1, <1>3, <2>1, <2>2, <3>1
      <3>3. front = {k}  BY <1>2, <2>1, <2>3
      <3> QED BY <3>2, <3>3 DEF Lone
    <2>4. CASE k \notin front
      <3>1. k - n \in back  BY <1>4, <2>1, <2>4
      <3>2. front = {}  BY <1>2, <2>1, <2>4
      <3>3. \A l \in back : l = k - n  BY <1>1, <1>3, <2>1, <2>2
      <3>4. back = {k - n}  BY <3>1, <3>3
      <3> QED BY <3>2, <3>4 DEF Lone
    <2> QED BY <2>3, <2>4
  <1>6. ASSUME Positions(q, m) = {}
        PROVE  front = {} /\ back = {}
    BY <1>2, <1>3, <1>6
  <1> QED BY <1>5, <1>6 DEF left, right

(* Without its first message: that one loses a position.                   *)
LEMMA TailPositions ==
    ASSUME NEW S, NEW q \in Seq(S), q # << >>, NEW m
    PROVE  /\ Positions(q, m) = {} => Head(q) # m /\ Positions(Tail(q), m) = {}
           /\ Lone(Positions(q, m)) =>
                 \/ Head(q) = m /\ Positions(Tail(q), m) = {}
                 \/ Head(q) # m /\ Lone(Positions(Tail(q), m))
  <1>1. /\ Len(q) \in Nat \ {0} /\ DOMAIN q = 1..Len(q) /\ Head(q) = q[1]
        /\ DOMAIN Tail(q) = 1..(Len(q) - 1)
        /\ \A k \in 1..(Len(q) - 1) : Tail(q)[k] = q[k + 1]
    OBVIOUS
  <1>2. \A k \in Positions(Tail(q), m) : k \in 1..(Len(q) - 1) /\ k + 1 \in Positions(q, m)
    BY <1>1 DEF Positions
  <1>3. \A k \in Positions(q, m) : k \in 1..Len(q) /\ (k = 1 \/ k - 1 \in Positions(Tail(q), m))
    <2> SUFFICES ASSUME NEW k \in 1..Len(q), q[k] = m, k # 1
                 PROVE  k - 1 \in Positions(Tail(q), m)
      BY <1>1 DEF Positions
    <2>1. k - 1 \in 1..(Len(q) - 1) /\ (k - 1) + 1 = k  BY <1>1
    <2> QED BY <1>1, <2>1 DEF Positions
  <1>4. Head(q) = m <=> 1 \in Positions(q, m)
    BY <1>1 DEF Positions
  <1>5. ASSUME NEW k, Positions(q, m) = {k}
        PROVE  \/ Head(q) = m /\ Positions(Tail(q), m) = {}
               \/ Head(q) # m /\ Positions(Tail(q), m) = {k - 1}
    <2>1. k \in 1..Len(q)  BY <1>3, <1>5
    <2>2. \A l \in Positions(Tail(q), m) : l + 1 = k /\ l \in 1..(Len(q) - 1)
      BY <1>2, <1>5
    <2>3. CASE k = 1
      <3>1. Positions(Tail(q), m) = {}  BY <1>1, <2>2, <2>3
      <3> QED BY <1>4, <1>5, <2>3, <3>1
    <2>4. CASE k # 1
      <3>1. k - 1 \in Positions(Tail(q), m)  BY <1>3, <1>5, <2>4
      <3>2. \A l \in Positions(Tail(q), m) : l = k - 1  BY <1>1, <2>1, <2>2
      <3> QED BY <1>4, <1>5, <2>4, <3>1, <3>2
    <2> QED BY <2>3, <2>4
  <1>6. ASSUME Positions(q, m) = {}
        PROVE  Head(q) # m /\ Positions(Tail(q), m) = {}
    BY <1>2, <1>4, <1>6
  <1>7. ASSUME Lone(Positions(q, m))
        PROVE  \/ Head(q) = m /\ Positions(Tail(q), m) = {}
               \/ Head(q) # m /\ Lone(Positions(Tail(q), m))
    <2>1. PICK k : Positions(q, m) = {k}  BY <1>7 DEF Lone
    <2> QED BY <1>5, <2>1 DEF Lone
  <1> QED BY <1>6, <1>7

(* Nothing is in an empty sequence, and its members have a position.       *)
LEMMA PositionFacts ==
    ASSUME NEW S, NEW q \in Seq(S), NEW m
    PROVE  /\ Positions(<< >>, m) = {}
           /\ \A k \in DOMAIN q : q[k] = m => Positions(q, m) # {}
  BY DEF Positions

-----------------------------------------------------------------------------
(* The steps.                                                              *)
LEMMA LetterFacts ==
    ASSUME LettersInv
    PROVE  /\ dead \in Seq(Letters) /\ main \in Seq(Letters)
           /\ \A o \in Operators : action[o] \in Actions /\ action[o].rest \in Seq(Letters)
           /\ action \in [Operators -> Actions]
  BY DEF LettersInv, DeadLetterTypeOK, Actions

(* Places depend on the queues, the pages in hand and what is done.        *)
LEMMA OnceStays ==
    ASSUME NEW m, Once(m), Positions(dead', m) = Positions(dead, m),
           Positions(main', m) = Positions(main, m), m \in done' <=> m \in done,
           \A p \in Operators : Rest(p, m)' = Rest(p, m)
    PROVE  Once(m)'
  <1>1. NoHands(m)' = NoHands(m)
    BY DEF NoHands
  <1> QED BY <1>1 DEF Once

LEMMA AppendStaysTyped ==
    ASSUME LettersInv, NEW x \in Letters
    PROVE  Append(dead, x) \in Seq(Letters) /\ Append(main, x) \in Seq(Letters)
  <1>1. dead \in Seq(Letters) /\ main \in Seq(Letters)
    BY LetterFacts
  <1> QED BY <1>1

(* A request that takes row as its state: types, and what it has in hand.  *)
LEMMA ActKeepsTypes ==
    ASSUME LettersInv, NEW o \in Operators, NEW row \in Actions, Act(o, row),
           row.phase # "move" => row.rest = << >>,
           dead' \in Seq(Letters), main' \in Seq(Letters), done' \subseteq Letters,
           dropped' \subseteq Letters, actions' \in Nat, letterFaults' \in Nat
    PROVE  /\ DeadLetterTypeOK'
           /\ \A p \in Operators : action'[p].phase # "move" => action'[p].rest = << >>
           /\ \A p \in Operators : action'[p] = IF p = o THEN row ELSE action[p]
  <1>1. action' = [action EXCEPT ![o] = row]
    BY DEF Act
  <1>2. \A p \in Operators : action'[p] = IF p = o THEN row ELSE action[p]
    BY <1>1, LetterFacts
  <1>3. action' \in [Operators -> Actions]
    BY <1>1, LetterFacts
  <1> QED BY <1>2, <1>3 DEF LettersInv, DeadLetterTypeOK

(* A request that ends has nothing in hand.                                *)
LEMMA NoActionRests ==
    /\ NoAction.phase = "none" /\ NoAction.rest = << >> /\ NoAction \in Actions
    /\ \A m : Positions(NoAction.rest, m) = {}
  BY DEF NoAction, Actions, Positions

LEMMA RequestActionKeeps ==
    ASSUME LettersInv, NEW o \in Operators, RequestAction(o)
    PROVE  LettersInv'
  <1>1. PICK act \in {"requeue", "discard"}, m \in Letters :
            Act(o, [NoAction EXCEPT !.phase = "get", !.act = act, !.target = m])
    BY DEF RequestAction
  <1> DEFINE row == [NoAction EXCEPT !.phase = "get", !.act = act, !.target = m]
  <1>2. row \in Actions /\ row.phase = "get" /\ row.rest = << >>
    <2>1. PICK none \in Actions : none = NoAction /\ none.rest = << >>
      BY NoActionRests
    <2>2. PICK get \in Actions : /\ get = [none EXCEPT !.phase = "get"]
                                 /\ get.phase = "get" /\ get.rest = << >>
      <3>1. \A r \in Actions : /\ [r EXCEPT !.phase = "get"] \in Actions
                               /\ [r EXCEPT !.phase = "get"].rest = r.rest
                               /\ [r EXCEPT !.phase = "get"].phase = "get"
        BY DEF Actions
      <3> QED BY <2>1, <3>1
    <2>3. PICK asked \in Actions : /\ asked = [get EXCEPT !.act = act]
                                   /\ asked.phase = "get" /\ asked.rest = << >>
      <3>1. \A r \in Actions : /\ [r EXCEPT !.act = act] \in Actions
                               /\ [r EXCEPT !.act = act].rest = r.rest
                               /\ [r EXCEPT !.act = act].phase = r.phase
        BY DEF Actions
      <3> QED BY <2>2, <3>1
    <2>4. PICK aimed \in Actions : /\ aimed = [asked EXCEPT !.target = m]
                                   /\ aimed.phase = "get" /\ aimed.rest = << >>
      <3>1. \A r \in Actions : /\ [r EXCEPT !.target = m] \in Actions
                               /\ [r EXCEPT !.target = m].rest = r.rest
                               /\ [r EXCEPT !.target = m].phase = r.phase
        BY DEF Actions
      <3> QED BY <2>3, <3>1
    <2>5. row = aimed
      BY <2>1, <2>2, <2>3, <2>4
    <2> QED BY <2>4, <2>5
  <1>3. /\ action[o].rest = << >> /\ actions' \in Nat
        /\ UNCHANGED <<dead, main, done, dropped, letterFaults>>
    BY NoActionRests DEF RequestAction, LettersInv, DeadLetterTypeOK
  <1> HIDE DEF row
  <1>4. /\ DeadLetterTypeOK'
        /\ \A p \in Operators : action'[p].phase # "move" => action'[p].rest = << >>
        /\ \A p \in Operators : action'[p] = IF p = o THEN row ELSE action[p]
    <2>1. Act(o, row)  BY <1>1 DEF row
    <2> QED BY <1>2, <1>3, <2>1, ActKeepsTypes DEF LettersInv, DeadLetterTypeOK
  <1>5. \A p \in Operators : action'[p].rest = action[p].rest
    BY <1>2, <1>3, <1>4
  <1>6. \A l \in Letters \ dropped' : Once(l)'
    BY <1>3, <1>5, OnceStays DEF LettersInv, Rest
  <1> QED BY <1>4, <1>6 DEF LettersInv

LEMMA AnswerActionKeeps ==
    ASSUME LettersInv, NEW o \in Operators, AnswerAction(o)
    PROVE  LettersInv'
  <1>1. /\ action[o].rest = << >> /\ Act(o, NoAction)
        /\ UNCHANGED <<dead, main, done, actions, dropped, letterFaults>>
    BY DEF AnswerAction
  <1>2. /\ DeadLetterTypeOK'
        /\ \A p \in Operators : action'[p].phase # "move" => action'[p].rest = << >>
        /\ \A p \in Operators : action'[p] = IF p = o THEN NoAction ELSE action[p]
    BY <1>1, NoActionRests, ActKeepsTypes DEF LettersInv, DeadLetterTypeOK
  <1>3. \A p \in Operators : action'[p].rest = action[p].rest
    BY <1>1, <1>2, NoActionRests
  <1>4. \A l \in Letters \ dropped' : Once(l)'
    BY <1>1, <1>3, OnceStays DEF LettersInv, Rest
  <1> QED BY <1>2, <1>4 DEF LettersInv

(* The page that a request takes leaves the queue.                         *)
LEMMA GetMessagesKeeps ==
    ASSUME LettersInv, NEW o \in Operators, GetMessages(o)
    PROVE  LettersInv'
  <1> DEFINE n == Min({PageSize, Len(dead)})
             page == SubSeq(dead, 1, n)
             others == SubSeq(dead, n + 1, Len(dead))
             row == [action[o] EXCEPT !.phase = "move", !.rest = page]
  <1>1. n \in 0..Len(dead)
    <2>1. Len(dead) \in Nat /\ PageSize \in Nat  BY LetterFacts, DeadLetterAssumption
    <2> QED BY <2>1 DEF Min
  <1>2. page \in Seq(Letters) /\ others \in Seq(Letters)
    <2> HIDE DEF n
    <2>1. dead \in Seq(Letters) /\ Len(dead) \in Nat
      BY LetterFacts
    <2>2. page \in Seq(Letters)
      BY <1>1, <2>1
    <2>3. others \in Seq(Letters)
      BY <1>1, <2>1
    <2> QED BY <2>2, <2>3
  <1>3. /\ dead' = others /\ UNCHANGED <<main, done, actions>>
        /\ \/ Act(o, row) /\ UNCHANGED <<dropped, letterFaults>>
           \/ Fails /\ Act(o, NoAction) /\ dropped' = dropped \cup ToSet(page)
        /\ action[o].phase = "get"
    BY DEF GetMessages
  <1>4. action[o].rest = << >>
    BY <1>3 DEF LettersInv
  <1>5. row \in Actions /\ row.phase = "move" /\ row.rest = page
    BY <1>2, LetterFacts DEF Actions
  <1>6. \A m : \/ Positions(dead, m) = {} /\ Positions(page, m) = {} /\ Positions(others, m) = {}
               \/ Lone(Positions(dead, m)) /\ Lone(Positions(page, m)) /\ Positions(others, m) = {}
               \/ Lone(Positions(dead, m)) /\ Positions(page, m) = {} /\ Lone(Positions(others, m))
               \/ ~Lone(Positions(dead, m)) /\ Positions(dead, m) # {}
    BY <1>1, LetterFacts, SplitPositions
  <1>7. ToSet(page) \subseteq Letters /\ \A m : m \notin ToSet(page) => Positions(page, m) = {}
    <2> HIDE DEF page
    <2>1. \A k \in DOMAIN page : page[k] \in Letters
      BY <1>2
    <2> QED BY <2>1 DEF ToSet, Positions
  <1> HIDE DEF n, page, others, row
  <1>8. CASE Act(o, row) /\ UNCHANGED <<dropped, letterFaults>>
    <2>1. /\ DeadLetterTypeOK'
          /\ \A p \in Operators : action'[p].phase # "move" => action'[p].rest = << >>
          /\ \A p \in Operators : action'[p] = IF p = o THEN row ELSE action[p]
      BY <1>2, <1>3, <1>5, <1>8, ActKeepsTypes DEF LettersInv, DeadLetterTypeOK
    <2>2. ASSUME NEW m \in Letters \ dropped
          PROVE  Once(m)'
      <3>1. /\ Rest(o, m) = {} /\ Rest(o, m)' = Positions(page, m)
            /\ \A p \in Operators \ {o} : Rest(p, m)' = Rest(p, m)
        BY <1>4, <1>5, <2>1, LetterFacts, PositionFacts DEF Rest
      <3>2. Once(m)  BY DEF LettersInv
      <3>3. CASE Lone(Positions(dead, m)) /\ Positions(main, m) = {} /\ NoHands(m) /\ m \notin done
        <4>1. CASE Lone(Positions(page, m)) /\ Positions(others, m) = {}
          <5>1. \A p \in Operators \ {o} : Rest(p, m)' = {}  BY <3>1, <3>3 DEF NoHands
          <5> QED BY <1>3, <3>1, <3>3, <4>1, <5>1 DEF Once
        <4>2. CASE Positions(page, m) = {} /\ Lone(Positions(others, m))
          <5>1. NoHands(m)'  BY <3>1, <3>3, <4>2 DEF NoHands
          <5> QED BY <1>3, <3>3, <4>2, <5>1 DEF Once
        <4> QED BY <1>6, <3>3, <4>1, <4>2 DEF Lone
      <3>4. CASE Positions(dead, m) = {}
        <4>1. Positions(page, m) = {} /\ Positions(others, m) = {}  BY <1>6, <3>4 DEF Lone
        <4>2. \A p \in Operators : Rest(p, m)' = Rest(p, m)  BY <3>1, <4>1
        <4> QED BY <1>3, <3>2, <3>4, <4>1, <4>2 DEF Once, NoHands, Lone
      <3> QED BY <3>2, <3>3, <3>4 DEF Once
    <2> QED BY <1>8, <2>1, <2>2 DEF LettersInv
  <1>9. CASE Fails /\ Act(o, NoAction) /\ dropped' = dropped \cup ToSet(page)
    <2>1. /\ DeadLetterTypeOK'
          /\ \A p \in Operators : action'[p].phase # "move" => action'[p].rest = << >>
          /\ \A p \in Operators : action'[p] = IF p = o THEN NoAction ELSE action[p]
      BY <1>2, <1>3, <1>7, <1>9, NoActionRests, ActKeepsTypes
         DEF LettersInv, DeadLetterTypeOK, Fails
    <2>2. ASSUME NEW m \in Letters \ dropped'
          PROVE  Once(m)'
      <3>1. \A p \in Operators : Rest(p, m)' = Rest(p, m)
        BY <1>4, <2>1, NoActionRests DEF Rest
      <3>2. Once(m) /\ Positions(page, m) = {}
        BY <1>7, <1>9 DEF LettersInv
      <3>3. \/ Positions(dead, m) = {} /\ Positions(others, m) = {}
            \/ Lone(Positions(dead, m)) /\ Lone(Positions(others, m))
        BY <1>6, <3>2 DEF Once, Lone
      <3> QED BY <1>3, <3>1, <3>2, <3>3 DEF Once, NoHands, Lone
    <2> QED BY <2>1, <2>2 DEF LettersInv
  <1> QED BY <1>3, <1>8, <1>9

(* One turn of the loop: the first message of the page goes where it must. *)
LEMMA MoveMessageKeeps ==
    ASSUME LettersInv, NEW o \in Operators, MoveMessage(o)
    PROVE  LettersInv'
  <1> DEFINE head == Head(action[o].rest)
  <1>1. PICK rest : rest = action[o].rest
    OBVIOUS
  <1>2. /\ rest \in Seq(Letters) /\ rest # << >> /\ Head(rest) \in Letters
        /\ Tail(rest) \in Seq(Letters) /\ action[o].phase = "move" /\ head = Head(rest)
    BY <1>1, LetterFacts DEF MoveMessage
  <1>3. PICK found \in BOOLEAN : Act(o, Moved(o, found))
    BY LetterFacts DEF MoveMessage, Actions
  <1>4. /\ Moved(o, found) \in Actions /\ Moved(o, found).rest = Tail(rest)
        /\ Moved(o, found).phase = "move"
    BY <1>1, <1>2, LetterFacts DEF Moved, Actions
  <1>5. /\ UNCHANGED <<actions, dropped, letterFaults>>
        /\ \/ dead' = Append(dead, Head(rest)) /\ UNCHANGED <<main, done>>
           \/ main' = Append(main, Head(rest)) /\ UNCHANGED <<dead, done>>
           \/ done' = done \cup {Head(rest)} /\ UNCHANGED <<dead, main>>
    BY <1>1 DEF MoveMessage, Preserve
  <1>6. /\ DeadLetterTypeOK'
        /\ \A p \in Operators : action'[p].phase # "move" => action'[p].rest = << >>
        /\ \A p \in Operators : action'[p] = IF p = o THEN Moved(o, found) ELSE action[p]
    <2>1. /\ dead' \in Seq(Letters) /\ main' \in Seq(Letters) /\ done' \subseteq Letters
      BY <1>2, <1>5, AppendStaysTyped DEF LettersInv, DeadLetterTypeOK
    <2> QED BY <1>2, <1>3, <1>4, <1>5, <2>1, ActKeepsTypes DEF LettersInv, DeadLetterTypeOK
  <1>7. ASSUME NEW m \in Letters \ dropped
        PROVE  Once(m)'
    <2>1. /\ Rest(o, m) = Positions(rest, m) /\ Rest(o, m)' = Positions(Tail(rest), m)
          /\ \A p \in Operators \ {o} : Rest(p, m)' = Rest(p, m)
      BY <1>1, <1>4, <1>6 DEF Rest
    <2>2. Once(m)  BY DEF LettersInv
    <2>3. CASE Head(rest) = m
      <3>1. Positions(rest, m) # {}
        BY <1>2, <2>3, TailPositions
      <3>2. /\ Lone(Rest(o, m)) /\ \A p \in Operators \ {o} : Rest(p, m) = {}
            /\ Positions(dead, m) = {} /\ Positions(main, m) = {} /\ m \notin done
        BY <2>1, <2>2, <3>1 DEF Once, NoHands
      <3>3. Positions(Tail(rest), m) = {}
        BY <1>2, <2>1, <2>3, <3>2, TailPositions
      <3>4. NoHands(m)'
        BY <2>1, <3>2, <3>3 DEF NoHands
      <3>5. CASE dead' = Append(dead, Head(rest)) /\ UNCHANGED <<main, done>>
        <4>1. Lone(Positions(dead', m))
          BY <1>2, <2>3, <3>2, <3>5, LetterFacts, AppendPositions
        <4> QED BY <3>2, <3>4, <3>5, <4>1 DEF Once
      <3>6. CASE main' = Append(main, Head(rest)) /\ UNCHANGED <<dead, done>>
        <4>1. Lone(Positions(main', m))
          BY <1>2, <2>3, <3>2, <3>6, LetterFacts, AppendPositions
        <4> QED BY <3>2, <3>4, <3>6, <4>1 DEF Once
      <3>7. CASE done' = done \cup {Head(rest)} /\ UNCHANGED <<dead, main>>
        BY <2>3, <3>2, <3>4, <3>7 DEF Once
      <3> QED BY <1>5, <3>5, <3>6, <3>7
    <2>4. CASE Head(rest) # m
      <3>1. /\ Positions(dead', m) = Positions(dead, m) /\ Positions(main', m) = Positions(main, m)
            /\ m \in done' <=> m \in done
        <4>1. /\ Positions(Append(dead, Head(rest)), m) = Positions(dead, m)
              /\ Positions(Append(main, Head(rest)), m) = Positions(main, m)
          BY <1>2, <2>4, LetterFacts, AppendPositions
        <4> QED BY <1>5, <2>4, <4>1
      <3>2. /\ Rest(o, m) = {} => Rest(o, m)' = {}
            /\ Lone(Rest(o, m)) => Lone(Rest(o, m)')
        BY <1>2, <2>1, <2>4, TailPositions
      <3>3. NoHands(m) => NoHands(m)'
        BY <2>1, <3>2 DEF NoHands
      <3>4. ASSUME NEW p \in Operators, Lone(Rest(p, m)), \A q \in Operators \ {p} : Rest(q, m) = {}
            PROVE  Lone(Rest(p, m)') /\ \A q \in Operators \ {p} : Rest(q, m)' = {}
        BY <2>1, <3>2, <3>4
      <3> QED BY <2>2, <3>1, <3>3, <3>4 DEF Once
    <2> QED BY <2>3, <2>4
  <1> QED BY <1>5, <1>6, <1>7 DEF LettersInv

(* The error drops the rest of the page, which may be back in part.        *)
LEMMA MoveFailsKeeps ==
    ASSUME LettersInv, NEW o \in Operators, MoveFails(o)
    PROVE  LettersInv'
  <1>1. PICK rest : rest = action[o].rest
    OBVIOUS
  <1>2. /\ rest \in Seq(Letters) /\ rest # << >> /\ Head(rest) \in Letters
        /\ Head(rest) \in ToSet(rest) /\ ToSet(rest) \subseteq Letters
    BY <1>1, LetterFacts DEF MoveFails, ToSet
  <1>3. /\ Act(o, NoAction) /\ Fails /\ dropped' = dropped \cup ToSet(rest)
        /\ UNCHANGED <<done, actions>>
        /\ dead' \in {dead, Append(dead, Head(rest))} /\ main' \in {main, Append(main, Head(rest))}
    BY <1>1 DEF MoveFails, Preserve
  <1>4. /\ DeadLetterTypeOK'
        /\ \A p \in Operators : action'[p].phase # "move" => action'[p].rest = << >>
        /\ \A p \in Operators : action'[p] = IF p = o THEN NoAction ELSE action[p]
    <2>1. dead' \in Seq(Letters) /\ main' \in Seq(Letters)
      BY <1>2, <1>3, LetterFacts, AppendStaysTyped
    <2> QED BY <1>2, <1>3, <2>1, NoActionRests, ActKeepsTypes
            DEF LettersInv, DeadLetterTypeOK, Fails
  <1>5. ASSUME NEW m \in Letters \ dropped'
        PROVE  Once(m)'
    <2>1. m \notin ToSet(rest) /\ Head(rest) # m /\ Once(m)
      BY <1>2, <1>3 DEF LettersInv
    <2>2. Rest(o, m) = {}
      BY <1>1, <2>1 DEF Rest, Positions, ToSet
    <2>3. \A p \in Operators : Rest(p, m)' = Rest(p, m)
      BY <1>4, <2>2, NoActionRests DEF Rest
    <2>4. Positions(dead', m) = Positions(dead, m) /\ Positions(main', m) = Positions(main, m)
      <3>1. /\ Positions(Append(dead, Head(rest)), m) = Positions(dead, m)
            /\ Positions(Append(main, Head(rest)), m) = Positions(main, m)
        BY <1>2, <2>1, LetterFacts, AppendPositions
      <3> QED BY <1>3, <3>1
    <2> QED BY <1>3, <2>1, <2>3, <2>4, OnceStays
  <1> QED BY <1>4, <1>5 DEF LettersInv

LEMMA WorkerHandlesKeeps ==
    ASSUME LettersInv, WorkerHandles
    PROVE  LettersInv'
  <1>1. /\ main # << >> /\ Head(main) \in Letters /\ main' = Tail(main)
        /\ Tail(main) \in Seq(Letters)
        /\ \/ dead' = Append(dead, Head(main)) /\ UNCHANGED done
           \/ done' = done \cup {Head(main)} /\ UNCHANGED dead
        /\ UNCHANGED <<action, actions, dropped, letterFaults>>
    BY LetterFacts DEF WorkerHandles
  <1>2. DeadLetterTypeOK'
    <2>1. dead' \in Seq(Letters) /\ main' \in Seq(Letters) /\ done' \subseteq Letters
      BY <1>1, LetterFacts, AppendStaysTyped DEF LettersInv, DeadLetterTypeOK
    <2> QED BY <1>1, <2>1 DEF LettersInv, DeadLetterTypeOK
  <1>3. ASSUME NEW m \in Letters \ dropped
        PROVE  Once(m)'
    <2>1. Once(m) /\ \A p \in Operators : Rest(p, m)' = Rest(p, m)
      BY <1>1 DEF LettersInv, Rest
    <2>2. NoHands(m)' = NoHands(m)
      BY <2>1 DEF NoHands
    <2>3. CASE Head(main) = m
      <3>1. Positions(main, m) # {}
        BY <1>1, <2>3, LetterFacts, TailPositions
      <3>2. /\ Lone(Positions(main, m)) /\ Positions(dead, m) = {} /\ NoHands(m) /\ m \notin done
        BY <2>1, <3>1 DEF Once
      <3>3. Positions(main', m) = {}
        BY <1>1, <2>3, <3>2, LetterFacts, TailPositions
      <3>4. CASE dead' = Append(dead, Head(main)) /\ UNCHANGED done
        <4>1. Lone(Positions(dead', m))
          BY <1>1, <2>3, <3>2, <3>4, LetterFacts, AppendPositions
        <4> QED BY <2>2, <3>2, <3>3, <3>4, <4>1 DEF Once
      <3>5. CASE done' = done \cup {Head(main)} /\ UNCHANGED dead
        BY <2>2, <2>3, <3>2, <3>3, <3>5 DEF Once
      <3> QED BY <1>1, <3>4, <3>5
    <2>4. CASE Head(main) # m
      <3>1. Positions(dead', m) = Positions(dead, m) /\ (m \in done' <=> m \in done)
        <4>1. Positions(Append(dead, Head(main)), m) = Positions(dead, m)
          BY <1>1, <2>4, LetterFacts, AppendPositions
        <4> QED BY <1>1, <2>4, <4>1
      <3>2. /\ Positions(main, m) = {} => Positions(main', m) = {}
            /\ Lone(Positions(main, m)) => Lone(Positions(main', m))
        BY <1>1, <2>4, LetterFacts, TailPositions
      <3> QED BY <2>1, <2>2, <3>1, <3>2 DEF Once
    <2> QED BY <2>3, <2>4
  <1> QED BY <1>1, <1>2, <1>3 DEF LettersInv

(* At first the dead-letter queue holds every message, in some order.      *)
LEMMA DeadLettersStart ==
    ASSUME DeadLetterInit
    PROVE  LettersInv
  <1> DEFINE n == Cardinality(Letters)
  <1>1. n \in Nat /\ ExistsBijection(1..n, Letters)
    <2>1. IsFiniteSet(Letters)
      BY DeadLetterAssumption
    <2> QED BY <2>1, FS_CardinalityType
  <1>2. \E f \in [1..n -> Letters] : IsInjective(f)
    BY <1>1 DEF ExistsBijection, Bijection, Injection, IsInjective
  <1>3. dead \in [1..n -> Letters] /\ IsInjective(dead)
    <2>1. dead = CHOOSE f \in [1..n -> Letters] : IsInjective(f)
      BY DEF DeadLetterInit, SetToSeq
    <2> QED BY <1>2, <2>1
  <1>4. dead \in Surjection(1..n, Letters)
    <2>1. dead \in Injection(1..n, Letters)
      BY <1>3 DEF Injection
    <2>2. IsFiniteSet(1..n) /\ Cardinality(1..n) = n
      BY <1>1, FS_Interval
    <2>3. IsFiniteSet(Letters)
      BY DeadLetterAssumption
    <2> HIDE DEF n
    <2>4. Cardinality(Letters) = n
      BY DEF n
    <2> QED BY <2>1, <2>2, <2>3, <2>4, FS_Injection
  <1>5. \A m \in Letters : Lone(Positions(dead, m))
    <2> SUFFICES ASSUME NEW m \in Letters
                 PROVE  Lone(Positions(dead, m))
      OBVIOUS
    <2>1. PICK k \in 1..n : dead[k] = m
      BY <1>4 DEF Surjection
    <2>2. Positions(dead, m) = {k}
      BY <1>3, <2>1 DEF Positions, IsInjective
    <2> QED BY <2>2 DEF Lone
  <1>6. dead \in Seq(Letters)
    BY <1>1, <1>3
  <1>7. \A m \in Letters : Positions(main, m) = {} /\ NoHands(m) /\ m \notin done
    BY NoActionRests DEF DeadLetterInit, NoHands, Rest, Positions
  <1> QED BY <1>5, <1>6, <1>7, NoActionRests
          DEF LettersInv, DeadLetterInit, DeadLetterTypeOK, Once

(* One position is one place.                                              *)
LEMMA OnceIsOnePlace ==
    ASSUME NEW m, Once(m)
    PROVE  Cardinality(Places(m)) = 1
  <1> SUFFICES \E place : Places(m) = {place}
    BY FS_Singleton
  <1>1. NoHands(m) => Hands(m) = {}
    BY DEF NoHands, Hands, Rest
  <1>2. CASE Lone(Positions(dead, m)) /\ Positions(main, m) = {} /\ NoHands(m) /\ m \notin done
    <2>1. PICK k : Positions(dead, m) = {k}  BY <1>2 DEF Lone
    <2>2. Places(m) = {<<"dead", k>>}  BY <1>1, <1>2, <2>1 DEF Places
    <2> QED BY <2>2
  <1>3. CASE Positions(dead, m) = {} /\ Lone(Positions(main, m)) /\ NoHands(m) /\ m \notin done
    <2>1. PICK k : Positions(main, m) = {k}  BY <1>3 DEF Lone
    <2>2. Places(m) = {<<"main", k>>}  BY <1>1, <1>3, <2>1 DEF Places
    <2> QED BY <2>2
  <1>4. CASE Positions(dead, m) = {} /\ Positions(main, m) = {} /\ NoHands(m) /\ m \in done
    <2>1. Places(m) = {<<"done", m>>}  BY <1>1, <1>4 DEF Places
    <2> QED BY <2>1
  <1>5. CASE /\ Positions(dead, m) = {} /\ Positions(main, m) = {} /\ m \notin done
             /\ \E o \in Operators : /\ Lone(Rest(o, m))
                                     /\ \A p \in Operators \ {o} : Rest(p, m) = {}
    <2>1. PICK o \in Operators : /\ Lone(Rest(o, m))
                                 /\ \A p \in Operators \ {o} : Rest(p, m) = {}
      BY <1>5
    <2>2. PICK k : Rest(o, m) = {k}  BY <2>1 DEF Lone
    <2>3. Hands(m) = {<<o, k>>}
      BY <2>1, <2>2 DEF Hands, Rest
    <2>4. Places(m) = {<<"hand", <<o, k>>>>}  BY <1>5, <2>3 DEF Places
    <2> QED BY <2>4
  <1> QED BY <1>2, <1>3, <1>4, <1>5 DEF Once

(* The inductive invariant holds of the dead letters.                      *)
THEOREM LettersInvariant == DeadLetterSpec => []LettersInv
  <1>1. LettersInv /\ [DeadLetterNext]_letterVars => LettersInv'
    <2>1. ASSUME LettersInv, UNCHANGED letterVars
          PROVE  LettersInv'
      BY <2>1 DEF LettersInv, letterVars, DeadLetterTypeOK, Once, NoHands, Rest, Lone
    <2> QED BY <2>1, RequestActionKeeps, GetMessagesKeeps, MoveMessageKeeps, MoveFailsKeeps,
               AnswerActionKeeps, WorkerHandlesKeeps DEF DeadLetterNext
  <1> QED BY <1>1, DeadLettersStart, PTL DEF DeadLetterSpec

(* No message is lost or doubled by operators who requeue and discard dead *)
(* letters at the same time, but what a failed request had in hand         *)
(* (moveDLQMessage).                                                       *)
THEOREM LettersAreNotLost == DeadLetterSpec => []EachLetterOnce
  <1>1. LettersInv => EachLetterOnce
    BY OnceIsOnePlace DEF LettersInv, EachLetterOnce
  <1> QED BY <1>1, LettersInvariant, PTL
=============================================================================
