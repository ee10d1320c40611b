---------------------------- MODULE Collaboration ----------------------------
(***************************************************************************)
(* Who may open a personal trip: its owner, and the users whose row in     *)
(* trip_collaborators is accepted.  Two ways lead to such a row, each with *)
(* routes of its own: the row itself, pending until its user accepts it,   *)
(* and a row in trip_invitations, whose acceptance writes the collaborator *)
(* row too.  Every handler checks first and writes later, one statement at *)
(* a time; only the transfer of the ownership is a transaction.            *)
(*                                                                         *)
(* One trip is modelled: trips share no row.  Roles, messages, activity    *)
(* and notifications decide none of these steps and are left out.          *)
(***************************************************************************)
EXTENDS Integers, Sequences

CONSTANTS
    Members,          \* users, the owner among them
    FirstOwner,
    Handlers,         \* requests under way at a time
    MaxInvitations,   \* bound: invitations ever created
    MaxHandled        \* bound: requests ever begun

ASSUME CollabAssumption ==
    /\ FirstOwner \in Members
    /\ MaxInvitations \in Nat /\ MaxHandled \in Nat

VARIABLES
    owner,            \* trips.user_id
    collaborator,     \* the status of each user's row, "none" without a row
    invitations,      \* the rows of trip_invitations, ever created
    handling,         \* what each of Handlers is doing
    handled,          \* requests begun so far
    entitled,         \* history: who accepted, or was made the owner, and
                      \* has not been removed nor left since
    shutOut           \* history: removed while a member, not invited since

collabVars == <<owner, collaborator, invitations, handling, handled, entitled, shutOut>>
histories  == <<entitled, shutOut>>

CollaboratorStatuses == {"none", "pending", "accepted", "declined", "removed"}
InvitationStatuses   == {"pending", "accepted", "declined", "revoked", "expired"}
InvitationRows == [user : Members, status : InvitationStatuses, overdue : BOOLEAN]
InvitationIds  == 1..Len(invitations)

(* A handler works for a user, on another user or on an invitation.        *)
NoWork == [task |-> "none", by |-> FirstOwner, on |-> FirstOwner, inv |-> 0]
Tasks  == {"none", "invite", "upsert", "remove", "transfer", "leave", "resend", "revoke",
           "revoked", "withdraw", "expire", "add", "accept", "mark", "decline", "declined"}
Works  == [task : Tasks, by : Members, on : Members, inv : 0..MaxInvitations]

CollabInit ==
    /\ owner = FirstOwner
    /\ collaborator = [u \in Members |-> "none"]
    /\ invitations = << >>
    /\ handling = [h \in Handlers |-> NoWork]
    /\ handled = 0
    /\ entitled = {FirstOwner}
    /\ shutOut = {}

WithAccess == {owner} \cup {u \in Members : collaborator[u] = "accepted"}

Begin(h, task, by, on, inv) ==
    /\ handling[h] = NoWork
    /\ handled < MaxHandled
    /\ handled' = handled + 1
    /\ handling' = [handling EXCEPT ![h] = [task |-> task, by |-> by, on |-> on, inv |-> inv]]
    /\ UNCHANGED <<owner, collaborator, invitations, histories>>

Goto(h, task) ==
    /\ handling' = [handling EXCEPT ![h].task = task]
    /\ UNCHANGED handled
Finish(h) ==
    /\ handling' = [handling EXCEPT ![h] = NoWork]
    /\ UNCHANGED handled

-----------------------------------------------------------------------------
(* The statements.                                                         *)

(* A broken variant, not part of the specification.                        *)
UpsertPending(u) == collaborator' = [collaborator EXCEPT ![u] = "pending"]

(* INSERT ... ON CONFLICT (trip_id, user_id): an accepted row stays so.    *)
UpsertTripCollaborator(u) ==
    collaborator' = [collaborator EXCEPT ![u] = IF @ = "accepted" THEN @ ELSE "pending"]

AcceptTripCollaborator(u) ==
    /\ collaborator[u] = "pending"
    /\ collaborator' = [collaborator EXCEPT ![u] = "accepted"]
    /\ entitled' = entitled \cup {u}
    /\ UNCHANGED shutOut

(* By id alone, and under the name of a declined row.                      *)
RemoveTripCollaborator(u) ==
    /\ collaborator' = [collaborator EXCEPT ![u] = IF @ = "none" THEN @ ELSE "declined"]
    /\ entitled' = entitled \ ({u} \ {owner})

(* The WHERE clause of the UPDATE of trips.                                *)
StillOwner(by) == owner = by

(* The transaction: the new owner's row is given up whatever its status.   *)
TransferTripOwnership(by, next) ==
    /\ StillOwner(by)
    /\ owner' = next
    /\ collaborator' = [collaborator EXCEPT ![by] = "accepted",
                                            ![next] = IF @ = "none" THEN @ ELSE "removed"]
    /\ entitled' = entitled \cup {next}
    /\ shutOut' = shutOut \ {next}

(* Two partial unique indexes admit one pending invitation of a user.      *)
NonePending(u) ==
    \A i \in InvitationIds : invitations[i].user = u => invitations[i].status # "pending"

UpdateTripInvitationStatus(i, status) ==
    invitations' = [invitations EXCEPT ![i].status = status]

-----------------------------------------------------------------------------
(* Requests pass their checks.                                             *)

BeginAsOwner(h) ==
    \E u \in Members :
        \/ u # owner /\ Begin(h, "invite", owner, u, 0)
        \/ u # owner /\ Begin(h, "upsert", owner, u, 0)
        \/ collaborator[u] # "none" /\ Begin(h, "remove", owner, u, 0)
        \/ u # owner /\ collaborator[u] = "accepted" /\ Begin(h, "transfer", owner, u, 0)

BeginOnInvitation(h) ==
    \E i \in InvitationIds :
        LET inv == invitations[i] IN
        \/ inv.status # "accepted" /\ Begin(h, "resend", owner, inv.user, i)
        \/ inv.status \notin {"accepted", "revoked"} /\ Begin(h, "revoke", owner, inv.user, i)
        \/ /\ inv.status = "pending"
           /\ Begin(h, IF inv.overdue THEN "expire" ELSE "add", inv.user, inv.user, i)
        \/ inv.status = "pending" /\ Begin(h, "decline", inv.user, inv.user, i)

BeginToLeave(h) ==
    \E u \in WithAccess \ {owner} : Begin(h, "leave", u, u, 0)

-----------------------------------------------------------------------------
(* The owner's requests write.                                             *)

CreateTripInvitation(h) ==
    LET w == handling[h] IN
    /\ w.task = "invite"
    /\ NonePending(w.on)
    /\ Len(invitations) < MaxInvitations
    /\ invitations' = Append(invitations,
                             [user |-> w.on, status |-> "pending", overdue |-> FALSE])
    /\ shutOut' = shutOut \ {w.on}
    /\ Goto(h, "upsert")
    /\ UNCHANGED <<owner, collaborator, entitled>>

InviteTripCollaborator(h) ==
    LET w == handling[h] IN
    /\ w.task = "upsert"
    /\ UpsertTripCollaborator(w.on)
    /\ shutOut' = shutOut \ {w.on}
    /\ Finish(h)
    /\ UNCHANGED <<owner, invitations, entitled>>

RemoveCollaborator(h) ==
    LET u == handling[h].on IN
    /\ handling[h].task = "remove"
    /\ RemoveTripCollaborator(u)
    /\ shutOut' = IF u \in WithAccess \ {owner} THEN shutOut \cup {u} ELSE shutOut
    /\ Finish(h)
    /\ UNCHANGED <<owner, invitations>>

TransferOwnership(h) ==
    /\ handling[h].task = "transfer"
    /\ TransferTripOwnership(handling[h].by, handling[h].on)
    /\ Finish(h)
    /\ UNCHANGED invitations

ResendTripInvitation(h) ==
    LET w == handling[h] IN
    /\ w.task = "resend"
    /\ invitations[w.inv].status # "accepted"
    /\ invitations[w.inv].status = "pending" \/ NonePending(w.on)
    /\ invitations' = [invitations EXCEPT ![w.inv].status = "pending", ![w.inv].overdue = FALSE]
    /\ shutOut' = shutOut \ {w.on}
    /\ Finish(h)
    /\ UNCHANGED <<owner, collaborator, entitled>>

(* The revocation overwrites the status, then reads the collaborator row,  *)
(* and removes it if it was pending then.                                  *)
RevokeTripInvitation(h) ==
    \/ /\ handling[h].task = "revoke"
       /\ UpdateTripInvitationStatus(handling[h].inv, "revoked")
       /\ Goto(h, "revoked")
       /\ UNCHANGED <<owner, collaborator, histories>>
    \/ /\ handling[h].task = "revoked"
       /\ IF collaborator[handling[h].on] = "pending" THEN Goto(h, "withdraw") ELSE Finish(h)
       /\ UNCHANGED <<owner, collaborator, invitations, histories>>
    \/ /\ handling[h].task = "withdraw"
       /\ RemoveTripCollaborator(handling[h].on)
       /\ Finish(h)
       /\ UNCHANGED <<owner, invitations, shutOut>>

-----------------------------------------------------------------------------
(* The invited user's requests write.                                      *)

(* An acceptance makes the collaborator row pending if it is not accepted, *)
(* accepts it, and then marks the invitation.                              *)
AddCollaborator(h) ==
    LET u == handling[h].by IN
    /\ handling[h].task = "add"
    /\ UpsertTripCollaborator(u)
    /\ Goto(h, IF collaborator[u] = "accepted" THEN "mark" ELSE "accept")
    /\ UNCHANGED <<owner, invitations, histories>>

AcceptAdded(h) ==
    /\ handling[h].task = "accept"
    /\ AcceptTripCollaborator(handling[h].by)
    /\ Goto(h, "mark")
    /\ UNCHANGED <<owner, invitations>>

MarkInvitation(h) ==
    /\ handling[h].task \in {"mark", "expire"}
    /\ UpdateTripInvitationStatus(handling[h].inv,
                                  IF handling[h].task = "mark" THEN "accepted" ELSE "expired")
    /\ Finish(h)
    /\ UNCHANGED <<owner, collaborator, histories>>

DeclineTripInvitation(h) ==
    LET u == handling[h].by IN
    \/ /\ handling[h].task = "decline"
       /\ UpdateTripInvitationStatus(handling[h].inv, "declined")
       /\ Goto(h, "declined")
       /\ UNCHANGED <<owner, collaborator, histories>>
    \/ /\ handling[h].task = "declined"
       /\ collaborator' = [collaborator EXCEPT ![u] = IF @ = "pending" THEN "removed" ELSE @]
       /\ Finish(h)
       /\ UNCHANGED <<owner, invitations, histories>>

LeaveTrip(h) ==
    LET u == handling[h].by IN
    /\ handling[h].task = "leave"
    /\ collaborator[u] \notin {"none", "removed"}
    /\ collaborator' = [collaborator EXCEPT ![u] = "removed"]
    /\ entitled' = entitled \ ({u} \ {owner})
    /\ Finish(h)
    /\ UNCHANGED <<owner, invitations, shutOut>>

(* The routes of the collaborator row itself are one statement each.       *)
AcceptOwnRow(u) ==
    /\ AcceptTripCollaborator(u)
    /\ UNCHANGED <<owner, invitations, handling, handled>>

DeclineTripCollaborator(u) ==
    /\ collaborator[u] = "pending"
    /\ collaborator' = [collaborator EXCEPT ![u] = "removed"]
    /\ UNCHANGED <<owner, invitations, handling, handled, histories>>

(* A statement finds no row or fails, or the process stops.                *)
GiveUp(h) ==
    /\ handling[h] # NoWork
    /\ Finish(h)
    /\ UNCHANGED <<owner, collaborator, invitations, histories>>

InvitationIsOverdue(i) ==
    /\ ~invitations[i].overdue
    /\ invitations[i].status = "pending"
    /\ invitations' = [invitations EXCEPT ![i].overdue = TRUE]
    /\ UNCHANGED <<owner, collaborator, handling, handled, histories>>

(* Listing one's invitations marks the overdue ones.                       *)
ListCollaborationInvitations(i) ==
    /\ invitations[i].status = "pending" /\ invitations[i].overdue
    /\ UpdateTripInvitationStatus(i, "expired")
    /\ UNCHANGED <<owner, collaborator, handling, handled, histories>>

CollabNext ==
    \/ \E h \in Handlers :
          \/ BeginAsOwner(h) \/ BeginOnInvitation(h) \/ BeginToLeave(h)
          \/ CreateTripInvitation(h) \/ InviteTripCollaborator(h) \/ RemoveCollaborator(h)
          \/ TransferOwnership(h) \/ ResendTripInvitation(h) \/ RevokeTripInvitation(h)
          \/ AddCollaborator(h) \/ AcceptAdded(h) \/ MarkInvitation(h)
          \/ DeclineTripInvitation(h) \/ LeaveTrip(h) \/ GiveUp(h)
    \/ \E u \in Members : AcceptOwnRow(u) \/ DeclineTripCollaborator(u)
    \/ \E i \in InvitationIds : InvitationIsOverdue(i) \/ ListCollaborationInvitations(i)

CollabSpec == CollabInit /\ [][CollabNext]_collabVars

-----------------------------------------------------------------------------
CollabTypeOK ==
    /\ owner \in Members
    /\ collaborator \in [Members -> CollaboratorStatuses]
    /\ invitations \in Seq(InvitationRows)
    /\ handling \in [Handlers -> Works]
    /\ \A h \in Handlers : handling[h].inv \in 0..Len(invitations)
    /\ handled \in Nat
    /\ entitled \subseteq Members
    /\ shutOut \subseteq Members

(* Through every race of two invitations, acceptances, removals and        *)
(* transfers, exactly those have access who accepted or were made the      *)
(* owner, and were not removed and did not leave since: nobody is let in   *)
(* unasked, and nobody drops out (UpsertTripCollaborator,                  *)
(* TransferTripOwnership).                                                 *)
AccessIsEarned == WithAccess = entitled

(* docs/permissions.md: removed collaborators "do not have private trip    *)
(* access"; the removal tells them so.                                     *)
RemovedStaysOut == shutOut \cap WithAccess = {}
=============================================================================
