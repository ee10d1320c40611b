----------------------------- MODULE DataExports -----------------------------
(***************************************************************************)
(* The export packages of Trip Service and User Service.  A request        *)
(* inserts a job, builds the package, writes it to a file and completes    *)
(* the job with its path; a read of an overdue job expires it, and a loop  *)
(* deletes the files of overdue jobs and expires them.  File and row are   *)
(* changed in steps of their own, by processes that do not know of each    *)
(* other.  Both services follow this pattern; one of them is modelled.     *)
(***************************************************************************)
EXTENDS Integers, Sequences

CONSTANTS
    Exporters,      \* requests under way at a time
    Sweeps,         \* cleanup loops, one in each replica
    MaxJobs         \* bound: jobs ever inserted

ASSUME ExportAssumption == MaxJobs \in Nat

VARIABLES
    exports,        \* the rows of data_export_jobs, each with its file
    exporter,       \* the job and the step of each of Exporters
    sweep,          \* what each sweep has listed, and the job it is at
    forgotten,      \* history: jobs that let go of a file that exists
    misreported     \* history: jobs completed under a reported error

exportVars == <<exports, exporter, sweep, forgotten, misreported>>

(* overdue: expires_at has passed.  file: the package is in the storage.   *)
ExportRows == [status : {"queued", "completed", "failed", "expired"},
               overdue : BOOLEAN, file : BOOLEAN]
ExportIds == 1..Len(exports)

NoExport == [phase |-> "none", job |-> 0]
NoSweep == [rest |-> {}, current |-> 0]

ExportInit ==
    /\ exports = << >>
    /\ exporter = [x \in Exporters |-> NoExport]
    /\ sweep = [s \in Sweeps |-> NoSweep]
    /\ forgotten = {}
    /\ misreported = {}

JobDone(x) == exporter' = [exporter EXCEPT ![x] = NoExport]
At(x) == exporter[x].job

-----------------------------------------------------------------------------
(* CreateTripArchiveExport, CreateAccountExport.                           *)

CreateDataExportJob(x) ==
    /\ exporter[x] = NoExport
    /\ Len(exports) < MaxJobs
    /\ exports' = Append(exports, [status |-> "queued", overdue |-> FALSE, file |-> FALSE])
    /\ exporter' = [exporter EXCEPT ![x] = [phase |-> "building", job |-> Len(exports) + 1]]
    /\ UNCHANGED <<sweep, forgotten, misreported>>

(* Not built, too large, not stored; the error of this statement is        *)
(* ignored.                                                                *)
FailDataExportJob(x) ==
    /\ exporter[x].phase = "building"
    /\ exports' \in {[exports EXCEPT ![At(x)].status = "failed"], exports}
    /\ JobDone(x)
    /\ UNCHANGED <<sweep, forgotten, misreported>>

SaveFile(x) ==
    /\ exporter[x].phase = "building"
    /\ exports' = [exports EXCEPT ![At(x)].file = TRUE]
    /\ exporter' = [exporter EXCEPT ![x].phase = "saved"]
    /\ UNCHANGED <<sweep, forgotten, misreported>>

(* After an error, which may follow the effect, the file is deleted, best  *)
(* effort.                                                                 *)
CompleteDataExportJob(x) ==
    LET k == At(x) IN
    /\ exporter[x].phase = "saved"
    /\ \/ /\ exports' = [exports EXCEPT ![k].status = "completed"]
          /\ UNCHANGED <<forgotten, misreported>>
       \/ \E effect, deleted \in BOOLEAN :
             /\ exports' = [exports EXCEPT ![k].status = IF effect THEN "completed" ELSE @,
                                           ![k].file = ~deleted]
             /\ misreported' = IF effect THEN misreported \cup {k} ELSE misreported
             /\ forgotten' = IF ~effect /\ ~deleted THEN forgotten \cup {k} ELSE forgotten
    /\ JobDone(x)
    /\ UNCHANGED sweep

(* The process stops: nothing takes up a queued job again.                 *)
ExporterStops(x) ==
    /\ exporter[x] # NoExport
    /\ forgotten' = IF exporter[x].phase = "saved" THEN forgotten \cup {At(x)} ELSE forgotten
    /\ JobDone(x)
    /\ UNCHANGED <<exports, sweep, misreported>>

-----------------------------------------------------------------------------
RetentionEnds(k) ==
    /\ exports[k].status = "completed" /\ ~exports[k].overdue
    /\ exports' = [exports EXCEPT ![k].overdue = TRUE]
    /\ UNCHANGED <<exporter, sweep, forgotten, misreported>>

(* WHERE id AND status = completed; the path goes with the status, and     *)
(* with it all that leads to the file.                                     *)
ExpireDataExportJob(k) ==
    IF exports[k].status = "completed"
    THEN /\ exports' = [exports EXCEPT ![k].status = "expired"]
         /\ forgotten' = IF exports[k].file THEN forgotten \cup {k} ELSE forgotten
    ELSE UNCHANGED <<exports, forgotten>>

(* GetTripExport and GetAccountExport expire the row alone.                *)
expireJobIfNeeded(k) ==
    /\ exports[k].status = "completed" /\ exports[k].overdue
    /\ ExpireDataExportJob(k)
    /\ UNCHANGED <<exporter, sweep, misreported>>

(* A broken variant, not part of the specification.                        *)
AllCompleted == {k \in ExportIds : exports[k].status = "completed"}

Overdue == {k \in ExportIds : exports[k].status = "completed" /\ exports[k].overdue}

ListExpiredDataExportJobs(s) ==
    /\ sweep[s] = NoSweep
    /\ Overdue # {}
    /\ sweep' = [sweep EXCEPT ![s].rest = Overdue]
    /\ UNCHANGED <<exports, exporter, forgotten, misreported>>

(* The error of the deletion is ignored.                                   *)
DeleteFile(s) ==
    /\ sweep[s].current = 0
    /\ \E k \in sweep[s].rest :
          /\ exports' \in {[exports EXCEPT ![k].file = FALSE], exports}
          /\ sweep' = [sweep EXCEPT ![s] = [rest |-> @.rest \ {k}, current |-> k]]
    /\ UNCHANGED <<exporter, forgotten, misreported>>

ExpireSwept(s) ==
    /\ sweep[s].current # 0
    /\ ExpireDataExportJob(sweep[s].current)
    /\ sweep' = [sweep EXCEPT ![s].current = 0]
    /\ UNCHANGED <<exporter, misreported>>

(* A statement fails, or the loop stops.                                   *)
SweepStops(s) ==
    /\ sweep[s] # NoSweep
    /\ sweep' = [sweep EXCEPT ![s] = NoSweep]
    /\ UNCHANGED <<exports, exporter, forgotten, misreported>>

ExportNext ==
    \/ \E x \in Exporters :
          \/ CreateDataExportJob(x) \/ FailDataExportJob(x) \/ SaveFile(x)
          \/ CompleteDataExportJob(x) \/ ExporterStops(x)
    \/ \E k \in ExportIds : RetentionEnds(k) \/ expireJobIfNeeded(k)
    \/ \E s \in Sweeps :
          \/ ListExpiredDataExportJobs(s) \/ DeleteFile(s) \/ ExpireSwept(s) \/ SweepStops(s)

ExportSpec == ExportInit /\ [][ExportNext]_exportVars

-----------------------------------------------------------------------------
ExportTypeOK ==
    /\ exports \in Seq(ExportRows)
    /\ exporter \in [Exporters -> [phase : {"none", "building", "saved"},
                                   job : 0..Len(exports)]]
    /\ sweep \in [Sweeps -> [rest : SUBSET ExportIds, current : 0..Len(exports)]]
    /\ forgotten \subseteq ExportIds /\ misreported \subseteq ExportIds

(* A package and its job belong together: a job within its retention has   *)
(* its file, unless its completion was reported as failed, and a file      *)
(* belongs to a completed job, from whose path the cleanup will find it,   *)
(* or to a request about to complete it.  Files are forgotten in the ways  *)
(* the actions name, a read that comes before the cleanup among them.      *)
FilesFollowTheirJobs ==
    \A k \in ExportIds :
        /\ exports[k].status = "completed" /\ ~exports[k].overdue =>
              exports[k].file \/ k \in misreported
        /\ exports[k].file =>
              \/ exports[k].status = "completed"
              \/ \E x \in Exporters : exporter[x] = [phase |-> "saved", job |-> k]
              \/ k \in forgotten
==============================================================================
