----------------------------- MODULE TripApproval -----------------------------
(***************************************************************************)
(* The approval workflow of workspace trips: submit, approve, request      *)
(* changes and cancel, beside the itinerary edits whose success withdraws  *)
(* a pending or granted approval.                                          *)
(*                                                                         *)
(* Every approval request is three database steps that no lock joins: it   *)
(* reads the trip, reads the approval columns and checks the status it     *)
(* read, then writes all approval columns by id alone.  An edit commits    *)
(* the itinerary under its revision and withdraws the approval in a second *)
(* statement, whose failure is only logged.  Approval events, activity and *)
(* notifications are written after the row and read by none of these       *)
(* handlers: they are left out.                                            *)
(***************************************************************************)
EXTENDS TripStore

CONSTANTS
    Editors,        \* users who may edit the trips and submit them
    Approvers,      \* owners and admins of the workspace
    Nobody,         \* a NULL user column
    MaxRevision,    \* bound: revisions of one itinerary
    MaxFaults       \* bound: lost withdrawals in a behaviour

Users == Editors \cup Approvers

ASSUME ApprovalAssumption ==
    /\ MaxRevision \in Nat
    /\ MaxFaults \in Nat
    /\ Nobody \notin Users

VARIABLES
    approvals,      \* the approval columns of each trip
    requests,       \* the request each user has running, if any
    overtaken,      \* history: a write since the last submission acted on
                    \* a row or an itinerary that had already changed, or
                    \* a withdrawal was lost
    faults          \* withdrawals lost so far

vars == <<trips, approvals, requests, overtaken, faults>>

-----------------------------------------------------------------------------
(* The approval columns.                                                   *)

Statuses == {"draft", "pending_approval", "changes_requested", "approved", "cancelled"}

(* submittedAt stands for the submission's timestamp: the revision of the  *)
(* itinerary whose checklist and policy the submission passed.             *)
ApprovalRows ==
    [status      : Statuses,
     submittedAt : Nat,
     submittedBy : Users \cup {Nobody},
     approvedBy  : Users \cup {Nobody},
     changesBy   : Users \cup {Nobody},
     cancelledBy : Users \cup {Nobody}]

(* A workspace trip is created as an approval draft.                       *)
initialApprovalStatus == "draft"

NewApproval ==
    [status |-> initialApprovalStatus, submittedAt |-> 0, submittedBy |-> Nobody,
     approvedBy |-> Nobody, changesBy |-> Nobody, cancelledBy |-> Nobody]

(* What a request may act on, by the status it has read.                   *)
AllowedFrom(act) ==
    IF act = "submit" THEN {"draft", "changes_requested", "cancelled"}
                      ELSE {"pending_approval"}

(* The rows that the handlers compute from the row they have read.         *)
Submitted(fields, u, revision) ==
    [status |-> "pending_approval", submittedAt |-> revision, submittedBy |-> u,
     approvedBy |-> Nobody, changesBy |-> Nobody, cancelledBy |-> Nobody]

Decided(fields, u, act) ==
    IF act = "approve"
    THEN [fields EXCEPT !.status = "approved", !.approvedBy = u]
    ELSE [fields EXCEPT !.status = "changes_requested", !.changesBy = u]

Cancelled(fields, u) == [fields EXCEPT !.status = "cancelled", !.cancelledBy = u]

NewRow(u, r) ==
    CASE r.act = "submit" -> Submitted(r.fields, u, r.seen)
      [] r.act = "cancel" -> Cancelled(r.fields, u)
      [] OTHER            -> Decided(r.fields, u, r.act)

(* Broken variants, not part of the specification: the checks must notice  *)
(* each of them when it takes the place of the definition it resembles.    *)
UpdateSetColumns(t, row) ==
    approvals' = [approvals EXCEPT ![t] =
        [c \in DOMAIN row |-> IF row[c] = Nobody THEN approvals[t][c] ELSE row[c]]]
ActiveIfApproved == {"approved"}

(* The UPDATE writes every approval column and names the row by id alone.  *)
UpdateTripApprovalStatus(t, row) == approvals' = [approvals EXCEPT ![t] = row]

(* The statuses that a material change withdraws.                          *)
Active == {"pending_approval", "approved"}

ResetApprovalStatusForTripIfActive(t) ==
    approvals' = IF approvals[t].status \in Active
                 THEN [approvals EXCEPT ![t].status = "draft"]
                 ELSE approvals

-----------------------------------------------------------------------------
(* Requests.                                                               *)

Decisions == {"approve", "request_changes"}
Reviews   == Decisions \cup {"submit", "cancel"}

NoRequest == [phase |-> "none"]

(* opened: the trip is read.  checked: the approval row is read too, and   *)
(* the request is allowed.  resetting: an edit is saved, and its approval  *)
(* is still to be withdrawn.                                               *)
OpenedRequests ==
    [phase : {"opened"}, act : Reviews \cup {"edit"}, trip : Trips, seen : Nat]
CheckedRequests ==
    [phase : {"checked"}, act : Reviews, trip : Trips, seen : Nat, fields : ApprovalRows]
SavedEdits == [phase : {"resetting"}, trip : Trips]

MayOpen(u, act) ==
    \/ act \in {"submit", "edit"} /\ u \in Editors
    \/ act \in Decisions /\ u \in Approvers
    \/ act = "cancel"

(* Only the submitter and the approvers may cancel.                        *)
MayCancel(u, fields) == fields.submittedBy = u \/ u \in Approvers

(* A trip without an itinerary fails the one blocking item of the          *)
(* checklist.  The workspace policy may refuse any submission besides.     *)
CanSubmit(r) == r.seen > 0

Become(u, r) == requests' = [requests EXCEPT ![u] = r]

Init ==
    /\ InitTrips
    /\ approvals = [t \in Trips |-> NewApproval]
    /\ requests = [u \in Users |-> NoRequest]
    /\ overtaken = [t \in Trips |-> FALSE]
    /\ faults = 0

(* A request is authorised and reads its trip.                             *)
Open(u) ==
    /\ requests[u] = NoRequest
    /\ \E t \in Trips, act \in Reviews \cup {"edit"} :
          /\ MayOpen(u, act)
          /\ Become(u, [phase |-> "opened", act |-> act, trip |-> t,
                        seen |-> trips[t].revision])
    /\ UNCHANGED <<trips, approvals, overtaken, faults>>

(* A review request reads the approval row and passes its checks.          *)
Check(u) ==
    LET r == requests[u]
    IN  /\ r.phase = "opened"
        /\ r.act \in Reviews
        /\ LET fields == approvals[r.trip]
           IN  /\ fields.status \in AllowedFrom(r.act)
               /\ r.act = "submit" => CanSubmit(r)
               /\ r.act = "cancel" => MayCancel(u, fields)
               /\ Become(u, [phase |-> "checked", act |-> r.act, trip |-> r.trip,
                             seen |-> r.seen, fields |-> fields])
        /\ UNCHANGED <<trips, approvals, overtaken, faults>>

(* A request ends without an effect: a check or the policy refuses it, the *)
(* client sent an old revision, a statement fails, or the process stops.   *)
Refuse(u) ==
    /\ requests[u].phase \in {"opened", "checked"}
    /\ Become(u, NoRequest)
    /\ UNCHANGED <<trips, approvals, overtaken, faults>>

(* The checked request writes the row that it computed from its copy.      *)
Write(u) ==
    LET r == requests[u]
    IN  /\ r.phase = "checked"
        /\ UpdateTripApprovalStatus(r.trip, NewRow(u, r))
        /\ overtaken' = [overtaken EXCEPT ![r.trip] =
              IF r.act = "submit" THEN r.seen # trips[r.trip].revision
                                  ELSE @ \/ r.fields # approvals[r.trip]]
        /\ Become(u, NoRequest)
        /\ UNCHANGED <<trips, faults>>

(* An edit commits: the client sent the revision that the request read.    *)
Save(u) ==
    LET r == requests[u]
    IN  /\ r.phase = "opened"
        /\ r.act = "edit"
        /\ trips[r.trip].revision < MaxRevision
        /\ RevisionMatches(trips[r.trip], r.seen)
        /\ trips' = [trips EXCEPT ![r.trip] =
              UpdateItineraryAndCreateVersion(@, u, r.seen)]
        /\ Become(u, [phase |-> "resetting", trip |-> r.trip])
        /\ UNCHANGED <<approvals, overtaken, faults>>

(* The saved edit withdraws the approval.                                  *)
ResetApprovalIfApproved(u) ==
    /\ requests[u].phase = "resetting"
    /\ ResetApprovalStatusForTripIfActive(requests[u].trip)
    /\ Become(u, NoRequest)
    /\ UNCHANGED <<trips, overtaken, faults>>

(* The withdrawal fails, or the process stops before it: a log line.       *)
LoseReset(u) ==
    /\ faults < MaxFaults
    /\ requests[u].phase = "resetting"
    /\ overtaken' = [overtaken EXCEPT ![requests[u].trip] = TRUE]
    /\ faults' = faults + 1
    /\ Become(u, NoRequest)
    /\ UNCHANGED <<trips, approvals>>

Next ==
    \E u \in Users :
        \/ Open(u)
        \/ Check(u)
        \/ Refuse(u)
        \/ Write(u)
        \/ Save(u)
        \/ ResetApprovalIfApproved(u)
        \/ LoseReset(u)

Spec == Init /\ [][Next]_vars

(* A saved edit runs on to its withdrawal unless that is lost.             *)
FairSpec == Spec /\ \A u \in Users : WF_vars(ResetApprovalIfApproved(u))

-----------------------------------------------------------------------------
(* Properties.                                                             *)

(* Rows, copies and requests hold values of their types; a workspace trip  *)
(* is never "not_required" (dto.initialApprovalStatus).                    *)
TypeOK ==
    /\ trips \in [Trips -> TripRows(Users)]
    /\ approvals \in [Trips -> ApprovalRows]
    /\ requests \in [Users -> {NoRequest} \cup OpenedRequests
                                \cup CheckedRequests \cup SavedEdits]
    /\ overtaken \in [Trips -> BOOLEAN]
    /\ faults \in 0..MaxFaults

(* The decision columns that a status lets a row carry.  A draft may be a  *)
(* withdrawn approval and still name its approver.                         *)
OneStory(row) ==
    /\ row.status # "draft" => row.submittedBy \in Users /\ row.submittedAt > 0
    /\ (row.approvedBy \in Users) => row.status \in {"approved", "draft"}
    /\ (row.changesBy \in Users) <=> row.status = "changes_requested"
    /\ (row.cancelledBy \in Users) <=> row.status = "cancelled"
    /\ row.status = "approved" => row.approvedBy \in Users

(* Two reviewers, a canceller and a submitter who interleave their reads   *)
(* and full-row writes (decide, SubmitTripApproval, CancelTripApproval)    *)
(* never leave the columns of two decisions in one row.                    *)
RowTellsOneStory == \A t \in Trips : OneStory(approvals[t])

Stale(t) ==
    /\ approvals[t].status \in Active
    /\ approvals[t].submittedAt # trips[t].revision

BeingReset(t) ==
    \E u \in Users : requests[u].phase = "resetting" /\ requests[u].trip = t

(* A plan that is under review or approved is the one that passed the      *)
(* checks of its submission, but for the moment between an edit's commit   *)
(* and its withdrawal; unless a write was overtaken or a withdrawal lost,  *)
(* which are then the only ways to a stale approval.                       *)
CurrentUnlessOvertaken ==
    \A t \in Trips : Stale(t) /\ ~overtaken[t] => BeingReset(t)

(* An edit of a plan under review or approved is followed by the           *)
(* withdrawal of the approval (saveItineraryWithVersion), unless           *)
(* overtaken.                                                              *)
StaleReviewsEnd ==
    \A t \in Trips : (Stale(t) /\ ~overtaken[t]) ~> (~Stale(t) \/ overtaken[t])

(* approval_reset.go: "so a stale plan is never left approved".            *)
ApprovedPlanIsCurrent ==
    \A t \in Trips :
        Stale(t) /\ approvals[t].status = "approved" => BeingReset(t)
=============================================================================
