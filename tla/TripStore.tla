------------------------------ MODULE TripStore ------------------------------
(***************************************************************************)
(* The rows of table trips (and of itinerary_versions) that the itinerary  *)
(* writers of Trip Service share, with the SQL statements they run.  Each  *)
(* operator is one statement or one transaction of                         *)
(* infrastructure/repository/postgres/trip.go: a function from the row to  *)
(* the row after it.  The module has no behaviour of its own: the modules   *)
(* that extend it drive it.                                                *)
(*                                                                         *)
(* A version is [writer, base]: who wrote it and the revision of the       *)
(* itinerary it was computed from.  Version numbers are positions in the   *)
(* sequence: COALESCE(MAX(version_number), 0) + 1 is read inside the       *)
(* transaction that holds the trip row's lock.                             *)
(***************************************************************************)
EXTENDS Integers, Sequences

CONSTANT Trips

VARIABLE trips

TripStatuses == {"DRAFT", "PROCESSING", "COMPLETED", "FAILED"}

TripRows(Writers) ==
    [revision : Nat,
     status   : TripStatuses,
     versions : Seq([writer : Writers, base : Nat])]

NewTrip == [revision |-> 0, status |-> "DRAFT", versions |-> << >>]

InitTrips == trips = [t \in Trips |-> NewTrip]

(* Broken variants, not part of the specification: the checks must notice  *)
(* each of them when it takes the place of the definition it resembles.    *)
RevisionMatchesNotOlder(row, expected) == row.revision >= expected

(* The WHERE clause itinerary_revision = expected of the guarded update.   *)
RevisionMatches(row, expected) == row.revision = expected

(* The committed transaction: the guarded UPDATE bumps the revision, sets  *)
(* the status COMPLETED, and the version row is inserted beside it.        *)
UpdateItineraryAndCreateVersion(row, writer, base) ==
    [revision |-> row.revision + 1,
     status   |-> "COMPLETED",
     versions |-> Append(row.versions, [writer |-> writer, base |-> base])]

(* Status update by owner: no condition on revision or current status.     *)
UpdateStatusByUserID(row, status) == [row EXCEPT !.status = status]

-----------------------------------------------------------------------------
(* No lost update: the version numbered k was computed from revision k-1,  *)
(* so no writer replaced an itinerary that it had not read.                *)
NoLostUpdate ==
    \A t \in Trips :
        /\ trips[t].revision = Len(trips[t].versions)
        /\ \A k \in 1..Len(trips[t].versions) : trips[t].versions[k].base = k - 1
=============================================================================
