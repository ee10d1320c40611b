-------------------------- MODULE ServicesProofs ---------------------------
(***************************************************************************)
(* Theorems about the services' components that share the trip or its      *)
(* people, for every set of users and every number of requests, and about  *)
(* the instance that gathers all components.                               *)
(*                                                                         *)
(* Collaboration and Workspaces: the two routes into a trip, their races   *)
(* and their failures let exactly those in who accepted; a workspace has   *)
(* one owner, and no admin whom the owner did not make one.  Proposals: a  *)
(* proposal changes the itinerary once, and its status tells whether it    *)
(* did.  MCServices: each of its behaviours is one of every component.     *)
(***************************************************************************)
EXTENDS MCServices, BackgroundProofs, ExpensesProofs, FiniteSetTheorems, TLAPS

(* A function on the indices of a sequence is one.                         *)
LEMMA FunctionIsSeq ==
    ASSUME NEW S, NEW n \in Nat, NEW t \in [1..n -> S]
    PROVE  t \in Seq(S) /\ Len(t) = n
  OBVIOUS

(* A sequence is a function on its indices.                                *)
LEMMA SeqIsFunction ==
    ASSUME NEW S, NEW s \in Seq(S)
    PROVE  s \in [1..Len(s) -> S] /\ Len(s) \in Nat
  OBVIOUS

-----------------------------------------------------------------------------
(* The inductive invariant: the invitations stay within their bound, so    *)
(* that a request can name each of them.                                   *)
CollabInv == CollabTypeOK /\ Len(invitations) =< MaxInvitations

(* An invitation whose status or deadline changes remains one.             *)
LEMMA StatusTyped ==
    ASSUME invitations \in Seq(InvitationRows), NEW i \in Int,
           NEW status \in InvitationStatuses
    PROVE  /\ [invitations EXCEPT ![i].status = status] \in Seq(InvitationRows)
           /\ Len([invitations EXCEPT ![i].status = status]) = Len(invitations)
  <1>1. invitations \in [1..Len(invitations) -> InvitationRows] /\ Len(invitations) \in Nat
    BY SeqIsFunction
  <1>2. [invitations EXCEPT ![i].status = status] \in [1..Len(invitations) -> InvitationRows]
    BY <1>1 DEF InvitationRows
  <1> QED BY <1>1, <1>2, FunctionIsSeq

LEMMA DeadlineTyped ==
    ASSUME NEW rows \in Seq(InvitationRows), NEW i \in Int, NEW overdue \in BOOLEAN
    PROVE  /\ [rows EXCEPT ![i].overdue = overdue] \in Seq(InvitationRows)
           /\ Len([rows EXCEPT ![i].overdue = overdue]) = Len(rows)
  <1>1. rows \in [1..Len(rows) -> InvitationRows] /\ Len(rows) \in Nat
    BY SeqIsFunction
  <1>2. [rows EXCEPT ![i].overdue = overdue] \in [1..Len(rows) -> InvitationRows]
    BY <1>1 DEF InvitationRows
  <1> QED BY <1>1, <1>2, FunctionIsSeq

LEMMA InvitationTyped ==
    ASSUME invitations \in Seq(InvitationRows), NEW i \in InvitationIds
    PROVE  invitations[i] \in InvitationRows /\ i \in Int
  BY DEF InvitationIds

(* What a handler works on is typed.                                       *)
LEMMA WorkTyped ==
    ASSUME CollabTypeOK, NEW h \in Handlers
    PROVE  /\ handling[h] \in Works
           /\ handling[h].by \in Members /\ handling[h].on \in Members
           /\ handling[h].inv \in 0..Len(invitations) /\ handling[h].inv \in Int
  BY DEF CollabTypeOK, Works

(* Handlers that begin, go on and finish stay typed.                       *)
HandlingTyped ==
    /\ handling' \in [Handlers -> Works]
    /\ \A h \in Handlers : handling'[h].inv \in 0..Len(invitations)
    /\ handled' \in Nat

LEMMA BeginTyped ==
    ASSUME CollabInv, NEW h \in Handlers, NEW task \in Tasks, NEW by \in Members,
           NEW on \in Members, NEW inv \in 0..Len(invitations), Begin(h, task, by, on, inv)
    PROVE  CollabInv'
  <1>1. handling' \in [Handlers -> Works]
    <2>1. Len(invitations) \in Nat /\ MaxInvitations \in Nat
      BY CollabAssumption DEF CollabInv, CollabTypeOK
    <2>2. inv \in 0..MaxInvitations  BY <2>1 DEF CollabInv
    <2> QED BY <2>2 DEF Begin, CollabInv, CollabTypeOK, Works
  <1>2. \A g \in Handlers : handling'[g].inv \in 0..Len(invitations)
    BY DEF Begin, CollabInv, CollabTypeOK
  <1> QED BY <1>1, <1>2 DEF Begin, CollabInv, CollabTypeOK, histories

LEMMA GotoTyped ==
    ASSUME CollabInv, NEW h \in Handlers, NEW task \in Tasks, Goto(h, task)
    PROVE  HandlingTyped
  BY DEF Goto, HandlingTyped, CollabInv, CollabTypeOK, Works

LEMMA FinishTyped ==
    ASSUME CollabInv, NEW h \in Handlers, Finish(h)
    PROVE  HandlingTyped
  <1>1. FirstOwner \in Members /\ MaxInvitations \in Nat  BY CollabAssumption
  <1>2. NoWork \in Works  BY <1>1 DEF NoWork, Works, Tasks
  <1>3. NoWork.inv = 0 /\ Len(invitations) \in Nat
    BY DEF NoWork, CollabInv, CollabTypeOK
  <1> QED BY <1>2, <1>3 DEF Finish, HandlingTyped, CollabInv, CollabTypeOK

-----------------------------------------------------------------------------
(* A request that passes its checks is typed.                              *)
LEMMA BeginningsTyped ==
    ASSUME CollabInv, NEW h \in Handlers,
           BeginAsOwner(h) \/ BeginOnInvitation(h) \/ BeginToLeave(h)
    PROVE  CollabInv'
  <1>1. owner \in Members /\ 0 \in 0..Len(invitations) /\ WithAccess \subseteq Members
    BY DEF CollabInv, CollabTypeOK, WithAccess
  <1>2. CASE BeginAsOwner(h)
    <2>1. PICK u \in Members, task \in Tasks : Begin(h, task, owner, u, 0)
      BY <1>2 DEF BeginAsOwner, Tasks
    <2> QED BY <1>1, <2>1, BeginTyped
  <1>3. CASE BeginOnInvitation(h)
    <2>1. PICK i \in InvitationIds :
             LET inv == invitations[i] IN
             \/ Begin(h, "resend", owner, inv.user, i)
             \/ Begin(h, "revoke", owner, inv.user, i)
             \/ Begin(h, IF inv.overdue THEN "expire" ELSE "add", inv.user, inv.user, i)
             \/ Begin(h, "decline", inv.user, inv.user, i)
      BY <1>3 DEF BeginOnInvitation
    <2>2. /\ i \in 0..Len(invitations)
          /\ invitations[i].user \in Members /\ invitations[i].overdue \in BOOLEAN
      BY InvitationTyped DEF InvitationIds, CollabInv, CollabTypeOK, InvitationRows
    <2>3. /\ "resend" \in Tasks /\ "revoke" \in Tasks /\ "decline" \in Tasks
          /\ (IF invitations[i].overdue THEN "expire" ELSE "add") \in Tasks
      BY DEF Tasks
    <2> QED BY <1>1, <2>1, <2>2, <2>3, BeginTyped
  <1>4. CASE BeginToLeave(h)
    <2>1. PICK u \in Members : Begin(h, "leave", u, u, 0)
      BY <1>1, <1>4 DEF BeginToLeave
    <2>2. "leave" \in Tasks  BY DEF Tasks
    <2> QED BY <1>1, <2>1, <2>2, BeginTyped
  <1> QED BY <1>2, <1>3, <1>4

(* The rows of collaborators stay typed under every statement.             *)
LEMMA CollaboratorsTyped ==
    ASSUME CollabTypeOK, NEW u \in Members, NEW next \in Members
    PROVE  /\ UpsertTripCollaborator(u) => collaborator' \in [Members -> CollaboratorStatuses]
           /\ AcceptTripCollaborator(u) =>
                 /\ collaborator' \in [Members -> CollaboratorStatuses]
                 /\ entitled' \subseteq Members /\ shutOut' \subseteq Members
           /\ RemoveTripCollaborator(u) =>
                 /\ collaborator' \in [Members -> CollaboratorStatuses]
                 /\ entitled' \subseteq Members
           /\ TransferTripOwnership(u, next) =>
                 /\ collaborator' \in [Members -> CollaboratorStatuses]
                 /\ owner' \in Members
                 /\ entitled' \subseteq Members /\ shutOut' \subseteq Members
  <1>1. collaborator \in [Members -> CollaboratorStatuses] /\ entitled \subseteq Members
        /\ shutOut \subseteq Members
    BY DEF CollabTypeOK
  <1>2. UpsertTripCollaborator(u) => collaborator' \in [Members -> CollaboratorStatuses]
    BY <1>1 DEF UpsertTripCollaborator, CollaboratorStatuses
  <1>3. AcceptTripCollaborator(u) =>
           /\ collaborator' \in [Members -> CollaboratorStatuses]
           /\ entitled' \subseteq Members /\ shutOut' \subseteq Members
    BY <1>1 DEF AcceptTripCollaborator, CollaboratorStatuses
  <1>4. RemoveTripCollaborator(u) =>
           /\ collaborator' \in [Members -> CollaboratorStatuses] /\ entitled' \subseteq Members
    BY <1>1 DEF RemoveTripCollaborator, CollaboratorStatuses
  <1>5. TransferTripOwnership(u, next) =>
           /\ collaborator' \in [Members -> CollaboratorStatuses] /\ owner' \in Members
           /\ entitled' \subseteq Members /\ shutOut' \subseteq Members
    BY <1>1 DEF TransferTripOwnership, CollaboratorStatuses
  <1> QED BY <1>2, <1>3, <1>4, <1>5

(* The owner's requests keep the types.                                    *)
LEMMA OwnerKeepsTypes ==
    ASSUME CollabInv, NEW h \in Handlers,
           \/ CreateTripInvitation(h) \/ InviteTripCollaborator(h) \/ RemoveCollaborator(h)
           \/ TransferOwnership(h) \/ ResendTripInvitation(h) \/ RevokeTripInvitation(h)
    PROVE  CollabInv'
  <1>1. /\ handling[h].by \in Members /\ handling[h].on \in Members
        /\ handling[h].inv \in Int /\ CollabTypeOK
    BY WorkTyped DEF CollabInv
  <1>2. CASE CreateTripInvitation(h)
    <2>1. HandlingTyped  BY <1>2, GotoTyped DEF CreateTripInvitation, Tasks
    <2>2. /\ invitations' \in Seq(InvitationRows) /\ Len(invitations') = Len(invitations) + 1
          /\ Len(invitations') =< MaxInvitations
      <3>1. [user |-> handling[h].on, status |-> "pending", overdue |-> FALSE]
               \in InvitationRows
        BY <1>1 DEF InvitationRows, InvitationStatuses
      <3>2. Len(invitations) \in Nat /\ MaxInvitations \in Nat
        BY <1>1, CollabAssumption DEF CollabTypeOK
      <3> QED BY <1>1, <1>2, <3>1, <3>2 DEF CreateTripInvitation, CollabTypeOK
    <2>3. 0..Len(invitations) \subseteq 0..Len(invitations')
      BY <1>1, <2>2 DEF CollabTypeOK
    <2> QED BY <1>1, <1>2, <2>1, <2>2, <2>3
            DEF CreateTripInvitation, HandlingTyped, CollabInv, CollabTypeOK
  <1>3. CASE InviteTripCollaborator(h)
    <2>1. HandlingTyped  BY <1>3, FinishTyped DEF InviteTripCollaborator
    <2> QED BY <1>1, <1>3, <2>1, CollaboratorsTyped
            DEF InviteTripCollaborator, HandlingTyped, CollabInv, CollabTypeOK
  <1>4. CASE RemoveCollaborator(h)
    <2>1. HandlingTyped  BY <1>4, FinishTyped DEF RemoveCollaborator
    <2> QED BY <1>1, <1>4, <2>1, CollaboratorsTyped
            DEF RemoveCollaborator, HandlingTyped, CollabInv, CollabTypeOK
  <1>5. CASE TransferOwnership(h)
    <2>1. HandlingTyped  BY <1>5, FinishTyped DEF TransferOwnership
    <2>2. /\ collaborator' \in [Members -> CollaboratorStatuses] /\ owner' \in Members
          /\ entitled' \subseteq Members /\ shutOut' \subseteq Members
      BY <1>1, <1>5, CollaboratorsTyped DEF TransferOwnership
    <2> QED BY <1>5, <2>1, <2>2 DEF TransferOwnership, HandlingTyped, CollabInv, CollabTypeOK
  <1>6. CASE ResendTripInvitation(h)
    <2>1. HandlingTyped  BY <1>6, FinishTyped DEF ResendTripInvitation
    <2>2. invitations' \in Seq(InvitationRows) /\ Len(invitations') = Len(invitations)
      <3> DEFINE pending == [invitations EXCEPT ![handling[h].inv].status = "pending"]
      <3>1. pending \in Seq(InvitationRows) /\ Len(pending) = Len(invitations)
        BY <1>1, StatusTyped DEF CollabTypeOK, InvitationStatuses
      <3>2. invitations' = [pending EXCEPT ![handling[h].inv].overdue = FALSE]
        BY <1>6 DEF ResendTripInvitation
      <3> QED BY <1>1, <3>1, <3>2, DeadlineTyped
    <2> QED BY <1>1, <1>6, <2>1, <2>2
            DEF ResendTripInvitation, HandlingTyped, CollabInv, CollabTypeOK
  <1>7. CASE RevokeTripInvitation(h)
    <2>1. HandlingTyped  BY <1>7, GotoTyped, FinishTyped DEF RevokeTripInvitation, Tasks
    <2>2. invitations' \in Seq(InvitationRows) /\ Len(invitations') = Len(invitations)
      <3>1. "revoked" \in InvitationStatuses  BY DEF InvitationStatuses
      <3>2. CASE UpdateTripInvitationStatus(handling[h].inv, "revoked")
        BY <1>1, <3>1, <3>2, StatusTyped DEF UpdateTripInvitationStatus, CollabTypeOK
      <3>3. CASE UNCHANGED invitations  BY <1>1, <3>3 DEF CollabTypeOK
      <3> QED BY <1>7, <3>2, <3>3 DEF RevokeTripInvitation
    <2> QED BY <1>1, <1>7, <2>1, <2>2, CollaboratorsTyped
            DEF RevokeTripInvitation, HandlingTyped, CollabInv, CollabTypeOK, histories
  <1> QED BY <1>2, <1>3, <1>4, <1>5, <1>6, <1>7

(* And so do the requests of the invited user.                             *)
LEMMA UserKeepsTypes ==
    ASSUME CollabInv, NEW h \in Handlers,
           \/ AddCollaborator(h) \/ AcceptAdded(h) \/ MarkInvitation(h)
           \/ DeclineTripInvitation(h) \/ LeaveTrip(h) \/ GiveUp(h)
    PROVE  CollabInv'
  <1>1. /\ handling[h].by \in Members /\ handling[h].inv \in Int /\ CollabTypeOK
    BY WorkTyped DEF CollabInv
  <1>2. CASE AddCollaborator(h)
    <2>1. HandlingTyped  BY <1>2, GotoTyped DEF AddCollaborator, Tasks
    <2> QED BY <1>1, <1>2, <2>1, CollaboratorsTyped
            DEF AddCollaborator, HandlingTyped, CollabInv, CollabTypeOK, histories
  <1>3. CASE AcceptAdded(h)
    <2>1. HandlingTyped  BY <1>3, GotoTyped DEF AcceptAdded, Tasks
    <2> QED BY <1>1, <1>3, <2>1, CollaboratorsTyped
            DEF AcceptAdded, HandlingTyped, CollabInv, CollabTypeOK
  <1>4. CASE MarkInvitation(h)
    <2>1. HandlingTyped  BY <1>4, FinishTyped DEF MarkInvitation
    <2>2. invitations' \in Seq(InvitationRows) /\ Len(invitations') = Len(invitations)
      BY <1>1, <1>4, StatusTyped
      DEF MarkInvitation, UpdateTripInvitationStatus, CollabTypeOK, InvitationStatuses
    <2> QED BY <1>4, <2>1, <2>2
            DEF MarkInvitation, HandlingTyped, CollabInv, CollabTypeOK, histories
  <1>5. CASE DeclineTripInvitation(h)
    <2>1. HandlingTyped  BY <1>5, GotoTyped, FinishTyped DEF DeclineTripInvitation, Tasks
    <2>2. invitations' \in Seq(InvitationRows) /\ Len(invitations') = Len(invitations)
      <3>1. "declined" \in InvitationStatuses  BY DEF InvitationStatuses
      <3>2. CASE UpdateTripInvitationStatus(handling[h].inv, "declined")
        BY <1>1, <3>1, <3>2, StatusTyped DEF UpdateTripInvitationStatus, CollabTypeOK
      <3>3. CASE UNCHANGED invitations  BY <1>1, <3>3 DEF CollabTypeOK
      <3> QED BY <1>5, <3>2, <3>3 DEF DeclineTripInvitation
    <2>3. collaborator' \in [Members -> CollaboratorStatuses]
      BY <1>1, <1>5 DEF DeclineTripInvitation, CollabTypeOK, CollaboratorStatuses
    <2> QED BY <1>5, <2>1, <2>2, <2>3
            DEF DeclineTripInvitation, HandlingTyped, CollabInv, CollabTypeOK, histories
  <1>6. CASE LeaveTrip(h)
    <2>1. HandlingTyped  BY <1>6, FinishTyped DEF LeaveTrip
    <2> QED BY <1>1, <1>6, <2>1
            DEF LeaveTrip, HandlingTyped, CollabInv, CollabTypeOK, CollaboratorStatuses
  <1>7. CASE GiveUp(h)
    <2>1. HandlingTyped  BY <1>7, FinishTyped DEF GiveUp
    <2> QED BY <1>7, <2>1 DEF GiveUp, HandlingTyped, CollabInv, CollabTypeOK, histories
  <1> QED BY <1>2, <1>3, <1>4, <1>5, <1>6, <1>7

(* The types hold in every reachable state.                                *)
THEOREM CollabTypesHold == CollabSpec => []CollabInv
  <1>1. CollabInit => CollabInv
    <2>1. FirstOwner \in Members /\ MaxInvitations \in Nat  BY CollabAssumption
    <2>2. NoWork \in Works /\ NoWork.inv = 0  BY <2>1 DEF NoWork, Works, Tasks
    <2> QED BY <2>1, <2>2 DEF CollabInit, CollabInv, CollabTypeOK, CollaboratorStatuses
  <1>2. CollabInv /\ [CollabNext]_collabVars => CollabInv'
    <2> SUFFICES ASSUME CollabInv, [CollabNext]_collabVars PROVE CollabInv'
      OBVIOUS
    <2>1. ASSUME NEW u \in Members, AcceptOwnRow(u)  PROVE CollabInv'
      BY <2>1, CollaboratorsTyped DEF AcceptOwnRow, CollabInv, CollabTypeOK
    <2>2. ASSUME NEW u \in Members, DeclineTripCollaborator(u)  PROVE CollabInv'
      BY <2>2 DEF DeclineTripCollaborator, CollabInv, CollabTypeOK, CollaboratorStatuses,
                  histories
    <2>3. ASSUME NEW i \in InvitationIds, InvitationIsOverdue(i)  PROVE CollabInv'
      <3>1. invitations' \in Seq(InvitationRows) /\ Len(invitations') = Len(invitations)
        BY <2>3, InvitationTyped, DeadlineTyped DEF InvitationIsOverdue, CollabInv, CollabTypeOK
      <3> QED BY <2>3, <3>1 DEF InvitationIsOverdue, CollabInv, CollabTypeOK, histories
    <2>4. ASSUME NEW i \in InvitationIds, ListCollaborationInvitations(i)  PROVE CollabInv'
      <3>1. invitations' \in Seq(InvitationRows) /\ Len(invitations') = Len(invitations)
        BY <2>4, InvitationTyped, StatusTyped
        DEF ListCollaborationInvitations, UpdateTripInvitationStatus, CollabInv, CollabTypeOK,
            InvitationStatuses
      <3> QED BY <2>4, <3>1 DEF ListCollaborationInvitations, CollabInv, CollabTypeOK, histories
    <2>5. CASE UNCHANGED collabVars
      BY <2>5 DEF collabVars, histories, CollabInv, CollabTypeOK
    <2> QED BY <2>1, <2>2, <2>3, <2>4, <2>5, BeginningsTyped, OwnerKeepsTypes, UserKeepsTypes
            DEF CollabNext
  <1> QED BY <1>1, <1>2, PTL DEF CollabSpec

-----------------------------------------------------------------------------
(* What the statements do to those who have access.                        *)

LEMMA AccessUnchanged ==
    ASSUME AccessIsEarned, owner' = owner, entitled' = entitled,
           \A u \in Members : (collaborator'[u] = "accepted") <=> (collaborator[u] = "accepted")
    PROVE  AccessIsEarned'
  BY DEF AccessIsEarned, WithAccess

LEMMA UpsertKeepsAccess ==
    ASSUME CollabTypeOK, AccessIsEarned, owner' = owner, entitled' = entitled,
           NEW u \in Members, UpsertTripCollaborator(u)
    PROVE  AccessIsEarned'
  <1>1. \A w \in Members : (collaborator'[w] = "accepted") <=> (collaborator[w] = "accepted")
    BY DEF UpsertTripCollaborator, CollabTypeOK
  <1> QED BY <1>1, AccessUnchanged

LEMMA AcceptEarnsAccess ==
    ASSUME CollabTypeOK, AccessIsEarned, owner' = owner,
           NEW u \in Members, AcceptTripCollaborator(u)
    PROVE  AccessIsEarned'
  BY DEF AcceptTripCollaborator, CollabTypeOK, AccessIsEarned, WithAccess

LEMMA RemovalEndsAccess ==
    ASSUME CollabTypeOK, AccessIsEarned, owner' = owner,
           NEW u \in Members, RemoveTripCollaborator(u)
    PROVE  AccessIsEarned'
  BY DEF RemoveTripCollaborator, CollabTypeOK, AccessIsEarned, WithAccess

(* The old owner becomes a collaborator, the new one need not be one.      *)
LEMMA TransferKeepsAccess ==
    ASSUME CollabTypeOK, AccessIsEarned, NEW by \in Members, NEW next \in Members,
           TransferTripOwnership(by, next)
    PROVE  AccessIsEarned'
  BY DEF TransferTripOwnership, StillOwner, CollabTypeOK, AccessIsEarned, WithAccess

(* Through every race of two invitations, acceptances, removals and        *)
(* transfers, exactly those have access who accepted or were made the      *)
(* owner, and were not removed and did not leave since.                    *)
THEOREM AccessHolds == CollabSpec => []AccessIsEarned
  <1>1. CollabInit => AccessIsEarned
    BY CollabAssumption DEF CollabInit, AccessIsEarned, WithAccess
  <1>2. CollabInv /\ AccessIsEarned /\ [CollabNext]_collabVars => AccessIsEarned'
    <2> SUFFICES ASSUME CollabInv, AccessIsEarned, [CollabNext]_collabVars
                 PROVE  AccessIsEarned'
      OBVIOUS
    <2>1. CollabTypeOK  BY DEF CollabInv
    <2>2. ASSUME UNCHANGED <<owner, collaborator, entitled>>  PROVE AccessIsEarned'
      BY <2>2, AccessUnchanged
    <2>3. ASSUME NEW h \in Handlers,
                 \/ BeginAsOwner(h) \/ BeginOnInvitation(h) \/ BeginToLeave(h)
                 \/ CreateTripInvitation(h) \/ ResendTripInvitation(h)
                 \/ MarkInvitation(h) \/ GiveUp(h)
          PROVE  UNCHANGED <<owner, collaborator, entitled>>
      BY <2>3 DEF BeginAsOwner, BeginOnInvitation, BeginToLeave, Begin, CreateTripInvitation,
                  ResendTripInvitation, MarkInvitation, GiveUp, histories
    <2>4. ASSUME NEW h \in Handlers, InviteTripCollaborator(h)  PROVE AccessIsEarned'
      BY <2>1, <2>4, WorkTyped, UpsertKeepsAccess DEF InviteTripCollaborator
    <2>5. ASSUME NEW h \in Handlers, AddCollaborator(h)  PROVE AccessIsEarned'
      BY <2>1, <2>5, WorkTyped, UpsertKeepsAccess DEF AddCollaborator, histories
    <2>6. ASSUME NEW h \in Handlers, RemoveCollaborator(h)  PROVE AccessIsEarned'
      BY <2>1, <2>6, WorkTyped, RemovalEndsAccess DEF RemoveCollaborator
    <2>7. ASSUME NEW h \in Handlers, TransferOwnership(h)  PROVE AccessIsEarned'
      BY <2>1, <2>7, WorkTyped, TransferKeepsAccess DEF TransferOwnership
    <2>8. ASSUME NEW h \in Handlers, RevokeTripInvitation(h)  PROVE AccessIsEarned'
      BY <2>1, <2>2, <2>8, WorkTyped, RemovalEndsAccess DEF RevokeTripInvitation, histories
    <2>9. ASSUME NEW h \in Handlers, AcceptAdded(h)  PROVE AccessIsEarned'
      BY <2>1, <2>9, WorkTyped, AcceptEarnsAccess DEF AcceptAdded
    <2>10. ASSUME NEW h \in Handlers, DeclineTripInvitation(h)  PROVE AccessIsEarned'
      <3>1. \A u \in Members :
               (collaborator'[u] = "accepted") <=> (collaborator[u] = "accepted")
        BY <2>1, <2>10, WorkTyped DEF DeclineTripInvitation, CollabTypeOK
      <3> QED BY <2>10, <3>1, AccessUnchanged DEF DeclineTripInvitation, histories
    <2>11. ASSUME NEW h \in Handlers, LeaveTrip(h)  PROVE AccessIsEarned'
      BY <2>1, <2>11, WorkTyped DEF LeaveTrip, CollabTypeOK, AccessIsEarned, WithAccess
    <2>12. ASSUME NEW u \in Members, AcceptOwnRow(u)  PROVE AccessIsEarned'
      BY <2>1, <2>12, AcceptEarnsAccess DEF AcceptOwnRow
    <2>13. ASSUME NEW u \in Members, DeclineTripCollaborator(u)  PROVE AccessIsEarned'
      <3>1. \A w \in Members :
               (collaborator'[w] = "accepted") <=> (collaborator[w] = "accepted")
        BY <2>1, <2>13 DEF DeclineTripCollaborator, CollabTypeOK
      <3> QED BY <2>13, <3>1, AccessUnchanged DEF DeclineTripCollaborator, histories
    <2>14. ASSUME NEW i \in InvitationIds,
                  InvitationIsOverdue(i) \/ ListCollaborationInvitations(i)
           PROVE  UNCHANGED <<owner, collaborator, entitled>>
      BY <2>14 DEF InvitationIsOverdue, ListCollaborationInvitations, histories
    <2>15. CASE UNCHANGED collabVars  BY <2>2, <2>15 DEF collabVars, histories
    <2> QED BY <2>2, <2>3, <2>4, <2>5, <2>6, <2>7, <2>8, <2>9, <2>10, <2>11, <2>12, <2>13,
               <2>14, <2>15 DEF CollabNext
  <1> QED BY <1>1, <1>2, CollabTypesHold, PTL DEF CollabSpec

-----------------------------------------------------------------------------
OwnerRow == [user |-> Creator, role |-> "owner", status |-> "active"]

(* The first row is the creator's, and the only owner's.                   *)
MembersOK ==
    /\ members \in Seq(MemberRows) /\ Len(members) >= 1
    /\ members[1] = OwnerRow
    /\ \A k \in MemberIds : k # 1 => members[k].role # "owner"
    /\ \A k \in MemberIds : members[k].role = "admin" => members[k].user \in appointed

(* An invitation to be an admin comes from the owner; the creator, whom    *)
(* the lookup always finds to be a member, has none.                       *)
InvitedOK ==
    /\ invited \in [WorkUsers -> GivenRoles \cup {"none"}]
    /\ invited[Creator] = "none"
    /\ \A u \in WorkUsers : invited[u] = "admin" => u \in appointed
    /\ registered \subseteq WorkUsers /\ Creator \in registered

(* What a request that passed its checks may still write.                  *)
SlotOK(r) ==
    /\ r.phase \in {"recording", "adding"} => r.user # Creator
    /\ r.phase \in {"inviting", "recording"} => r.role \in GivenRoles
    /\ r.phase \in {"inviting", "recording", "setting"} /\ r.role = "admin" => r.as = "owner"
    /\ r.phase = "adding" /\ r.role = "admin" => r.user \in appointed
    /\ r.phase \in {"changing", "setting", "removing", "deleting"}
          => r.row \in MemberIds /\ members[r.row].user = r.user
    /\ r.phase \in {"setting", "deleting"} => r.row # 1

SlotsOK ==
    /\ slot \in [Slots -> Requested]
    /\ \A s \in Slots : slot[s].row \in 0..Len(members) /\ SlotOK(slot[s])

CountsOK == archived \in BOOLEAN /\ begun \in Nat /\ appointed \subseteq WorkUsers

WorkspaceInv == MembersOK /\ InvitedOK /\ SlotsOK /\ CountsOK

-----------------------------------------------------------------------------
LEMMA GivenAreNotOwners ==
    /\ Creator \in WorkUsers
    /\ \A role \in GivenRoles \cup {"viewer"} : role \in Roles /\ role # "owner"
  BY WorkspaceAssumption DEF Roles

(* No row is dropped, and none changes its user.                           *)
MembersKept ==
    /\ Len(members') >= Len(members)
    /\ \A k \in MemberIds : members'[k].user = members[k].user
    /\ appointed \subseteq appointed'

(* A change of a row other than the owner's.                               *)
LEMMA MemberChanged ==
    ASSUME MembersOK, NEW k \in MemberIds, k # 1, NEW row \in MemberRows,
           row.user = members[k].user, row.role # "owner",
           row.role = "admin" => row.user \in appointed',
           appointed \subseteq appointed', members' = [members EXCEPT ![k] = row]
    PROVE  MembersOK' /\ MembersKept
  <1>1. members \in [1..Len(members) -> MemberRows] /\ Len(members) \in Nat
        /\ k \in 1..Len(members)
    BY SeqIsFunction DEF MembersOK, MemberIds
  <1>2. members' \in [1..Len(members) -> MemberRows]  BY <1>1
  <1>3. members' \in Seq(MemberRows) /\ Len(members') = Len(members)
    BY <1>1, <1>2, FunctionIsSeq
  <1>4. \A l \in MemberIds : members'[l] = IF l = k THEN row ELSE members[l]
    BY <1>1 DEF MemberIds
  <1>5. MemberIds' = MemberIds /\ 1 \in MemberIds
    BY <1>1, <1>3 DEF MemberIds, MembersOK
  <1> QED BY <1>1, <1>3, <1>4, <1>5 DEF MembersOK, MembersKept

(* A new row.                                                              *)
LEMMA MemberAdded ==
    ASSUME MembersOK, NEW row \in MemberRows, row.role # "owner",
           row.role = "admin" => row.user \in appointed',
           appointed \subseteq appointed', members' = Append(members, row)
    PROVE  MembersOK' /\ MembersKept
  <1>1. members \in Seq(MemberRows) /\ Len(members) \in Nat /\ Len(members) >= 1
    BY DEF MembersOK
  <1>2. /\ members' \in Seq(MemberRows) /\ Len(members') = Len(members) + 1
        /\ members'[Len(members) + 1] = row
        /\ \A l \in 1..Len(members) : members'[l] = members[l]
    BY <1>1
  <1>3. MemberIds' = MemberIds \cup {Len(members) + 1} /\ 1 \in MemberIds
    BY <1>1, <1>2 DEF MemberIds
  <1> QED BY <1>1, <1>2, <1>3 DEF MembersOK, MembersKept, MemberIds

LEMMA MembersStay ==
    ASSUME MembersOK, UNCHANGED members, appointed \subseteq appointed'
    PROVE  MembersOK' /\ MembersKept
  BY DEF MembersOK, MembersKept, MemberIds

(* The upsert meets no row of the owner.                                   *)
LEMMA UpsertKeepsMembers ==
    ASSUME MembersOK, NEW u \in WorkUsers, u # Creator, NEW role \in GivenRoles \cup {"viewer"},
           NEW status \in {"invited", "active"}, UpsertMember(u, role, status),
           appointed \subseteq appointed', role = "admin" => u \in appointed'
    PROVE  MembersOK' /\ MembersKept
  <1>1. role \in Roles /\ role # "owner"  BY GivenAreNotOwners
  <1>2. CASE RowsOf(u) = {}
    <2>1. [user |-> u, role |-> role, status |-> status] \in MemberRows
      BY <1>1 DEF MemberRows
    <2> QED BY <1>1, <1>2, <2>1, MemberAdded DEF UpsertMember
  <1>3. CASE RowsOf(u) # {}
    <2>1. PICK k \in RowsOf(u) :
             members' = [members EXCEPT ![k].role = role,
                            ![k].status = IF @ = "active" THEN "active" ELSE status]
      BY <1>3 DEF UpsertMember
    <2>2. k \in MemberIds /\ members[k].user = u  BY DEF RowsOf
    <2>3. members[k] \in MemberRows /\ k \in DOMAIN members
      BY <2>2, SeqIsFunction DEF MembersOK, MemberIds
    <2>4. k # 1  BY <2>2 DEF MembersOK, OwnerRow
    <2>5. PICK row : row = [members[k] EXCEPT !.role = role,
                              !.status = IF @ = "active" THEN "active" ELSE status]
      OBVIOUS
    <2>6. row \in MemberRows /\ row.user = u /\ row.role = role
      BY <1>1, <2>2, <2>3, <2>5 DEF MemberRows
    <2>7. members' = [members EXCEPT ![k] = row]  BY <2>1, <2>3, <2>5 DEF MemberRows
    <2> QED BY <1>1, <2>2, <2>4, <2>6, <2>7, MemberChanged
  <1> QED BY <1>2, <1>3

-----------------------------------------------------------------------------
(* A request stays in order when other rows are added or changed.          *)
LEMMA SlotStaysOK ==
    ASSUME MembersOK, MembersOK', MembersKept, NEW r \in Requested, SlotOK(r),
           r.row \in 0..Len(members)
    PROVE  SlotOK(r)' /\ r.row \in 0..Len(members')
  <1>1. MemberIds \subseteq MemberIds' /\ Len(members) \in Nat /\ Len(members') \in Nat
    BY DEF MembersOK, MembersKept, MemberIds
  <1> QED BY <1>1 DEF SlotOK, MembersKept

LEMMA SlotsStay ==
    ASSUME MembersOK, MembersOK', MembersKept, SlotsOK, UNCHANGED slot
    PROVE  SlotsOK'
  BY SlotStaysOK DEF SlotsOK

LEMMA SlotChanges ==
    ASSUME MembersOK, MembersOK', MembersKept, SlotsOK, NEW s \in Slots,
           NEW r \in Requested, r.row \in 0..Len(members'), SlotOK(r)',
           slot' = [slot EXCEPT ![s] = r]
    PROVE  SlotsOK'
  <1>1. slot' \in [Slots -> Requested]  BY DEF SlotsOK
  <1>2. \A t \in Slots : slot[t].row \in 0..Len(members)
                         /\ SlotOK(slot[t]) /\ slot[t] \in Requested
    BY DEF SlotsOK
  <1>3. \A t \in Slots : SlotOK(slot[t])' \/ t = s
    BY <1>2, SlotStaysOK DEF SlotsOK
  <1>4. ASSUME NEW t \in Slots PROVE slot'[t].row \in 0..Len(members') /\ SlotOK(slot[t])'
    <2>1. CASE t = s
      <3>1. slot'[t] = r  BY <2>1 DEF SlotsOK
      <3> QED BY <3>1 DEF SlotOK
    <2>2. CASE t # s
      <3>1. slot'[t] = slot[t]  BY <2>2 DEF SlotsOK
      <3>2. PICK q : q = slot[t]  OBVIOUS
      <3>3. SlotOK(q)' /\ q.row \in 0..Len(members')
        BY <1>2, <3>2, SlotStaysOK
      <3> QED BY <3>1, <3>2, <3>3 DEF SlotOK
    <2> QED BY <2>1, <2>2
  <1> QED BY <1>1, <1>4 DEF SlotsOK

LEMMA LeavingKeepsSlots ==
    ASSUME MembersOK, MembersOK', MembersKept, SlotsOK, NEW s \in Slots, Leave(s)
    PROVE  SlotsOK'
  <1>1. Free \in Requested /\ Free.row = 0 /\ Free.phase = "free"
    BY GivenAreNotOwners DEF Free, Requested, Phases, Roles
  <1>2. 0 \in 0..Len(members')  BY DEF MembersOK
  <1>3. SlotOK(Free)'  BY <1>1 DEF SlotOK, Free
  <1> QED BY <1>1, <1>2, <1>3, SlotChanges DEF Leave

(* The request of a slot, as its action finds it.                          *)
LEMMA SlotTyped ==
    ASSUME SlotsOK, NEW s \in Slots
    PROVE  /\ slot[s] \in Requested /\ SlotOK(slot[s])
           /\ slot[s].user \in WorkUsers /\ slot[s].row \in 0..Len(members)
           /\ slot[s].as \in Roles /\ slot[s].role \in GivenRoles \cup {"viewer"}
  BY DEF SlotsOK, Requested

-----------------------------------------------------------------------------
(* A request begins.                                                       *)
LEMMA AskKeepsInv ==
    ASSUME WorkspaceInv, NEW s \in Slots, NEW phase \in Phases, NEW u \in WorkUsers,
           NEW row \in 0..Len(members), NEW role \in GivenRoles \cup {"viewer"},
           Ask(s, phase, u, row, role),
           phase \in {"inviting", "removing", "changing", "archiving"},
           phase = "inviting" =>
              role \in GivenRoles /\ (role = "admin" => slot'[s].as = "owner"),
           phase \in {"removing", "changing"} => row \in MemberIds /\ members[row].user = u
    PROVE  WorkspaceInv'
  <1>1. /\ MembersOK' /\ MembersKept /\ UNCHANGED <<members, appointed>>
        /\ InvitedOK' /\ CountsOK'
    BY MembersStay DEF Ask, WorkspaceInv, InvitedOK, CountsOK
  <1>2. PICK k \in MemberIds :
           slot' = [slot EXCEPT ![s] = [phase |-> phase, actor |-> members[k].user,
                      as |-> members[k].role, user |-> u, row |-> row, role |-> role]]
    BY DEF Ask
  <1>3. PICK r : r = [phase |-> phase, actor |-> members[k].user,
                      as |-> members[k].role, user |-> u, row |-> row, role |-> role]
    OBVIOUS
  <1>4. members[k] \in MemberRows /\ Len(members) \in Nat
    BY SeqIsFunction DEF WorkspaceInv, MembersOK, MemberIds
  <1>5. r \in Requested /\ slot'[s] = r
    BY <1>2, <1>3, <1>4 DEF Requested, MemberRows, WorkspaceInv, SlotsOK
  <1>6. SlotOK(r)'  BY <1>1, <1>3, <1>5 DEF SlotOK, MemberIds
  <1>7. r.row \in 0..Len(members')  BY <1>1, <1>3
  <1> QED BY <1>1, <1>2, <1>3, <1>5, <1>6, <1>7, SlotChanges DEF WorkspaceInv

LEMMA AsksKeepInv ==
    ASSUME WorkspaceInv, NEW s \in Slots,
           AskToInvite(s) \/ AskToChange(s) \/ AskToRemove(s) \/ AskToArchive(s)
    PROVE  WorkspaceInv'
  <1>0. members \in [1..Len(members) -> MemberRows] /\ Len(members) \in Nat
    BY SeqIsFunction DEF WorkspaceInv, MembersOK
  <1>1. 0 \in 0..Len(members) /\ MemberIds \subseteq 0..Len(members)
        /\ \A k \in MemberIds : members[k].user \in WorkUsers
    BY <1>0 DEF MemberIds, MemberRows
  <1>2. {"inviting", "changing", "removing", "archiving"} \subseteq Phases  BY DEF Phases
  <1>3. CASE AskToInvite(s)
    <2>1. PICK u \in WorkUsers, role \in GivenRoles :
             /\ Ask(s, "inviting", u, 0, role) /\ CanManage(slot'[s].as)
             /\ ~(slot'[s].as = "admin" /\ role = "admin")
      BY <1>3 DEF AskToInvite
    <2>2. role = "admin" => slot'[s].as = "owner"  BY <2>1 DEF CanManage
    <2> QED BY <1>1, <1>2, <2>1, <2>2, AskKeepsInv
  <1>4. CASE AskToChange(s)
    <2>1. PICK k \in MemberIds, role \in GivenRoles :
             Ask(s, "changing", members[k].user, k, role)
      BY <1>4 DEF AskToChange
    <2> QED BY <1>1, <1>2, <2>1, AskKeepsInv
  <1>5. CASE AskToRemove(s)
    <2>1. PICK k \in MemberIds : Ask(s, "removing", members[k].user, k, "viewer")
      BY <1>5 DEF AskToRemove
    <2> QED BY <1>1, <1>2, <2>1, AskKeepsInv
  <1>6. CASE AskToArchive(s)
    <2>1. Ask(s, "archiving", Creator, 0, "viewer")  BY <1>6 DEF AskToArchive
    <2> QED BY <1>1, <1>2, <2>1, AskKeepsInv, GivenAreNotOwners
  <1> QED BY <1>3, <1>4, <1>5, <1>6

(* The owner is the only active owner, so that nobody passes the checks    *)
(* of a removal or a change with the owner's row.                          *)
LEMMA OneOwner ==
    ASSUME MembersOK
    PROVE  ActiveOwners = {1} /\ Cardinality(ActiveOwners) = 1
  <1>1. 1 \in MemberIds  BY DEF MembersOK, MemberIds
  <1>2. ActiveOwners = {1}  BY <1>1 DEF ActiveOwners, MembersOK, OwnerRow
  <1> QED BY <1>2, FS_Singleton

LEMMA OwnerIsSafe ==
    ASSUME MembersOK, NEW r
    PROVE  ~canChangeRole(r, members[1]) /\ ~canRemoveMember(r, members[1])
  <1>1. members[1] = OwnerRow /\ ~(Cardinality(ActiveOwners) > 1)
    BY OneOwner DEF MembersOK
  <1> QED BY <1>1 DEF canChangeRole, canRemoveMember, OwnerRow

(* The checks write nothing but the request.                               *)
LEMMA ChecksKeepInv ==
    ASSUME WorkspaceInv, NEW s \in Slots, CheckInvited(s) \/ CheckChange(s) \/ CheckRemoval(s)
    PROVE  WorkspaceInv'
  <1>1. UNCHANGED <<members, invited, archived, registered, begun, appointed>>
    BY DEF CheckInvited, CheckChange, CheckRemoval
  <1>2. MembersOK /\ MembersOK' /\ MembersKept /\ InvitedOK' /\ CountsOK' /\ SlotsOK
    BY <1>1, MembersStay DEF WorkspaceInv, InvitedOK, CountsOK
  <1>3. /\ slot[s] \in Requested /\ SlotOK(slot[s]) /\ slot[s].row \in 0..Len(members)
        /\ slot \in [Slots -> Requested]
    BY <1>2, SlotTyped DEF SlotsOK
  <1>4. SlotsOK'
    <2>1. CASE Leave(s)  BY <1>2, <2>1, LeavingKeepsSlots
    <2>2. CASE CheckInvited(s) /\ ~Leave(s)
      <3>1. ~(slot[s].user \in registered /\ HasActiveMember(slot[s].user))
        BY <2>2 DEF CheckInvited
      <3>2. HasActiveMember(Creator)
        <4>1. 1 \in ActiveRowsOf(Creator)
          BY <1>2 DEF ActiveRowsOf, RowsOf, MembersOK, MemberIds, OwnerRow
        <4> QED BY <4>1 DEF HasActiveMember
      <3>3. slot[s].user # Creator  BY <3>1, <3>2 DEF WorkspaceInv, InvitedOK
      <3>4. PICK row \in {0, 1} :
               slot' = [slot EXCEPT ![s].phase = "recording", ![s].row = row]
        BY <2>2, <3>1 DEF CheckInvited
      <3>5. PICK r : r = [slot[s] EXCEPT !.phase = "recording", !.row = row]  OBVIOUS
      <3>6. /\ r \in Requested /\ r.phase = "recording" /\ r.row = row
            /\ r.user = slot[s].user /\ r.role = slot[s].role /\ r.as = slot[s].as
        <4>1. PICK q : q = slot[s]  OBVIOUS
        <4>2. q \in Requested /\ row \in Nat /\ "recording" \in Phases
          BY <1>3, <4>1 DEF Phases
        <4>3. r = [q EXCEPT !.phase = "recording", !.row = row]  BY <3>5, <4>1
        <4>4. /\ r \in Requested /\ r.phase = "recording" /\ r.row = row
              /\ r.user = q.user /\ r.role = q.role /\ r.as = q.as
          BY <4>2, <4>3 DEF Requested
        <4> QED BY <4>1, <4>4
      <3>7. slot' = [slot EXCEPT ![s] = r]  BY <1>3, <3>4, <3>5 DEF Requested
      <3>8. r.row \in 0..Len(members')  BY <1>2, <3>6 DEF MembersOK
      <3>9. SlotOK(r)'
        <4>1. slot[s].phase = "inviting"  BY <2>2 DEF CheckInvited
        <4> QED BY <1>3, <3>3, <3>6, <4>1 DEF SlotOK
      <3> QED BY <1>2, <3>6, <3>7, <3>8, <3>9, SlotChanges
    <2>3. CASE CheckChange(s) /\ ~Leave(s)
      <3>1. /\ slot[s].phase = "changing" /\ canChangeRole(slot[s], members[slot[s].row])
            /\ To(s, "setting")
        BY <2>3 DEF CheckChange
      <3>2. slot[s].row # 1  BY <1>2, <3>1, OwnerIsSafe
      <3>3. slot[s].role = "admin" => slot[s].as = "owner"
        BY <3>1 DEF canChangeRole, CanManage
      <3>4. PICK r : r = [slot[s] EXCEPT !.phase = "setting"]  OBVIOUS
      <3>5. /\ r \in Requested /\ r.phase = "setting" /\ r.row = slot[s].row
            /\ r.user = slot[s].user /\ r.role = slot[s].role /\ r.as = slot[s].as
        BY <1>3, <3>4 DEF Requested, Phases
      <3>6. slot' = [slot EXCEPT ![s] = r]  BY <1>3, <3>1, <3>4 DEF Requested, To
      <3>7. SlotOK(r)'
        BY <1>1, <1>3, <3>1, <3>2, <3>3, <3>5 DEF SlotOK, MemberIds
      <3> QED BY <1>1, <1>2, <1>3, <3>5, <3>6, <3>7, SlotChanges
    <2>4. CASE CheckRemoval(s) /\ ~Leave(s)
      <3>1. /\ slot[s].phase = "removing" /\ canRemoveMember(slot[s], members[slot[s].row])
            /\ To(s, "deleting")
        BY <2>4 DEF CheckRemoval
      <3>2. slot[s].row # 1  BY <1>2, <3>1, OwnerIsSafe
      <3>3. PICK r : r = [slot[s] EXCEPT !.phase = "deleting"]  OBVIOUS
      <3>4. /\ r \in Requested /\ r.phase = "deleting" /\ r.row = slot[s].row
            /\ r.user = slot[s].user
        BY <1>3, <3>3 DEF Requested, Phases
      <3>5. slot' = [slot EXCEPT ![s] = r]  BY <1>3, <3>1, <3>3 DEF Requested, To
      <3>6. SlotOK(r)'  BY <1>1, <1>3, <3>1, <3>2, <3>4 DEF SlotOK, MemberIds
      <3> QED BY <1>1, <1>2, <1>3, <3>4, <3>5, <3>6, SlotChanges
    <2> QED BY <2>1, <2>2, <2>3, <2>4
  <1> QED BY <1>2, <1>4 DEF WorkspaceInv

(* What the owner gives is recorded; nothing is taken back.                *)
LEMMA AppointTyped ==
    ASSUME WorkspaceInv, NEW s \in Slots, NEW u \in WorkUsers, NEW role, Appoint(s, u, role)
    PROVE  /\ appointed \subseteq appointed' /\ appointed' \subseteq WorkUsers
           /\ slot[s].as = "owner" /\ role = "admin" => u \in appointed'
  BY DEF Appoint, WorkspaceInv, CountsOK

LEMMA InvitationKeepsInv ==
    ASSUME WorkspaceInv, NEW s \in Slots, UpsertInvitation(s)
    PROVE  WorkspaceInv'
  <1> DEFINE r == slot[s]
  <1>1. /\ r \in Requested /\ SlotOK(r) /\ r.user \in WorkUsers
        /\ r.phase = "recording" /\ r.row \in 0..Len(members)
        /\ MembersOK /\ SlotsOK /\ InvitedOK /\ CountsOK
    BY SlotTyped DEF WorkspaceInv, UpsertInvitation
  <1>2. r.user # Creator /\ (r.role = "admin" => r.as = "owner")  BY <1>1 DEF SlotOK
  <1>3. /\ appointed \subseteq appointed' /\ appointed' \subseteq WorkUsers
        /\ r.role = "admin" => r.user \in appointed'
    BY <1>1, <1>2, AppointTyped DEF UpsertInvitation
  <1>4. MembersOK' /\ MembersKept
    BY <1>1, <1>3, MembersStay DEF UpsertInvitation
  <1>5. r.row = 1 => r.phase # "free"  BY <1>1
  <1>6. InvitedOK'
    <2>1. r.role \in GivenRoles  BY <1>1 DEF SlotOK
    <2> QED BY <1>1, <1>2, <1>3, <2>1 DEF UpsertInvitation, InvitedOK
  <1>7. SlotsOK'
    <2>1. CASE Leave(s)  BY <1>1, <1>4, <2>1, LeavingKeepsSlots
    <2>2. CASE To(s, "adding")
      <3>1. PICK q : q = [r EXCEPT !.phase = "adding"]  OBVIOUS
      <3>2. /\ q \in Requested /\ q.phase = "adding" /\ q.row = r.row
            /\ q.user = r.user /\ q.role = r.role
        BY <1>1, <3>1 DEF Requested, Phases
      <3>3. slot' = [slot EXCEPT ![s] = q]  BY <1>1, <2>2, <3>1 DEF Requested, To, SlotsOK
      <3>4. SlotOK(q)'  BY <1>2, <1>3, <3>2 DEF SlotOK
      <3>5. q.row \in 0..Len(members')  BY <1>1, <3>2 DEF UpsertInvitation
      <3> QED BY <1>1, <1>4, <3>2, <3>3, <3>4, <3>5, SlotChanges
    <2> QED BY <2>1, <2>2 DEF UpsertInvitation
  <1>8. CountsOK'  BY <1>1, <1>3 DEF UpsertInvitation, CountsOK
  <1> QED BY <1>4, <1>6, <1>7, <1>8 DEF WorkspaceInv

LEMMA InvitedMemberKeepsInv ==
    ASSUME WorkspaceInv, NEW s \in Slots, UpsertInvitedMember(s)
    PROVE  WorkspaceInv'
  <1> DEFINE r == slot[s]
  <1>1. /\ r.user \in WorkUsers /\ r.role \in GivenRoles \cup {"viewer"} /\ SlotOK(r)
        /\ r.phase = "adding" /\ MembersOK /\ SlotsOK
    BY SlotTyped DEF WorkspaceInv, UpsertInvitedMember
  <1>2. r.user # Creator /\ (r.role = "admin" => r.user \in appointed)  BY <1>1 DEF SlotOK
  <1>3. UNCHANGED <<invited, archived, registered, begun, appointed>>
    BY DEF UpsertInvitedMember
  <1>4. MembersOK' /\ MembersKept
    BY <1>1, <1>2, <1>3, UpsertKeepsMembers DEF UpsertInvitedMember
  <1>5. SlotsOK'  BY <1>1, <1>4, LeavingKeepsSlots DEF UpsertInvitedMember
  <1> QED BY <1>3, <1>4, <1>5 DEF WorkspaceInv, InvitedOK, CountsOK

LEMMA AcceptanceKeepsInv ==
    ASSUME WorkspaceInv, NEW u \in WorkUsers, AcceptInvitation(u)
    PROVE  WorkspaceInv'
  <1>1. u # Creator /\ invited[u] \in GivenRoles /\ (invited[u] = "admin" => u \in appointed)
    BY DEF AcceptInvitation, WorkspaceInv, InvitedOK
  <1>2. MembersOK' /\ MembersKept
    BY <1>1, UpsertKeepsMembers DEF AcceptInvitation, WorkspaceInv
  <1>3. SlotsOK'  BY <1>2, SlotsStay DEF AcceptInvitation, WorkspaceInv
  <1>4. InvitedOK' /\ CountsOK'
    BY DEF AcceptInvitation, WorkspaceInv, InvitedOK, CountsOK
  <1> QED BY <1>2, <1>3, <1>4 DEF WorkspaceInv

(* A change or a removal of a row that is not the owner's.                 *)
LEMMA RoleChangeKeepsInv ==
    ASSUME WorkspaceInv, NEW s \in Slots, UpdateMemberRole(s)
    PROVE  WorkspaceInv'
  <1> DEFINE r == slot[s]
  <1>1. /\ r.user \in WorkUsers /\ r.role \in GivenRoles \cup {"viewer"} /\ SlotOK(r)
        /\ r.phase = "setting" /\ MembersOK /\ SlotsOK /\ InvitedOK /\ CountsOK
    BY SlotTyped DEF WorkspaceInv, UpdateMemberRole
  <1>2. /\ r.row \in MemberIds /\ r.row # 1 /\ members[r.row].user = r.user
        /\ r.role = "admin" => r.as = "owner"
    BY <1>1 DEF SlotOK
  <1>3. /\ appointed \subseteq appointed' /\ appointed' \subseteq WorkUsers
        /\ r.role = "admin" => r.user \in appointed'
    BY <1>1, <1>2, AppointTyped DEF UpdateMemberRole
  <1>4. MembersOK' /\ MembersKept
    <2>1. CASE UNCHANGED members  BY <1>1, <1>3, <2>1, MembersStay
    <2>2. CASE members' = [members EXCEPT ![r.row].role = r.role]
      <3>1. members[r.row] \in MemberRows  BY <1>1, <1>2, SeqIsFunction DEF MembersOK, MemberIds
      <3>2. PICK row : row = [members[r.row] EXCEPT !.role = r.role]  OBVIOUS
      <3>3. r.role \in Roles /\ r.role # "owner"  BY <1>1, GivenAreNotOwners
      <3>4. row \in MemberRows /\ row.user = r.user /\ row.role = r.role
        BY <1>2, <3>1, <3>2, <3>3 DEF MemberRows
      <3>5. members' = [members EXCEPT ![r.row] = row]  BY <2>2, <3>2
      <3> QED BY <1>1, <1>2, <1>3, <3>3, <3>4, <3>5, MemberChanged
    <2> QED BY <2>1, <2>2 DEF UpdateMemberRole
  <1>5. SlotsOK'  BY <1>1, <1>4, LeavingKeepsSlots DEF UpdateMemberRole
  <1>6. InvitedOK' /\ CountsOK'
    BY <1>1, <1>3 DEF UpdateMemberRole, InvitedOK, CountsOK
  <1> QED BY <1>4, <1>5, <1>6 DEF WorkspaceInv

LEMMA RemovalKeepsInv ==
    ASSUME WorkspaceInv, NEW s \in Slots, RemoveMember(s)
    PROVE  WorkspaceInv'
  <1> DEFINE r == slot[s]
  <1>1. SlotOK(r) /\ r.phase = "deleting" /\ MembersOK /\ SlotsOK
    BY SlotTyped DEF WorkspaceInv, RemoveMember
  <1>2. r.row \in MemberIds /\ r.row # 1  BY <1>1 DEF SlotOK
  <1>3. UNCHANGED <<invited, archived, registered, begun, appointed>>  BY DEF RemoveMember
  <1>4. MembersOK' /\ MembersKept
    <2>1. members[r.row] \in MemberRows  BY <1>1, <1>2, SeqIsFunction DEF MembersOK, MemberIds
    <2>2. PICK row : row = [members[r.row] EXCEPT !.status = "removed"]  OBVIOUS
    <2>3. row \in MemberRows /\ row.user = members[r.row].user /\ row.role = members[r.row].role
      BY <2>1, <2>2 DEF MemberRows
    <2>4. members' = [members EXCEPT ![r.row] = row]  BY <2>2 DEF RemoveMember
    <2> QED BY <1>1, <1>2, <1>3, <2>3, <2>4, MemberChanged DEF MembersOK
  <1>5. SlotsOK'  BY <1>1, <1>4, LeavingKeepsSlots DEF RemoveMember
  <1> QED BY <1>3, <1>4, <1>5 DEF WorkspaceInv, InvitedOK, CountsOK

(* The other steps leave the members as they are.                          *)
LEMMA RestKeepsInv ==
    ASSUME WorkspaceInv,
           \/ \E s \in Slots : ArchiveWorkspace(s) \/ AbandonRequest(s)
           \/ \E u \in WorkUsers : DeclineInvitation(u) \/ RegisterUser(u)
           \/ UNCHANGED workspaceVars
    PROVE  WorkspaceInv'
  <1>1. /\ UNCHANGED <<members, appointed>>
        /\ UNCHANGED slot \/ \E s \in Slots : Leave(s)
    BY DEF ArchiveWorkspace, AbandonRequest, DeclineInvitation, RegisterUser, workspaceVars
  <1>2. MembersOK' /\ MembersKept  BY <1>1, MembersStay DEF WorkspaceInv
  <1>3. SlotsOK'  BY <1>1, <1>2, SlotsStay, LeavingKeepsSlots DEF WorkspaceInv
  <1>4. InvitedOK' /\ CountsOK'
    BY <1>1 DEF WorkspaceInv, InvitedOK, CountsOK, ArchiveWorkspace, AbandonRequest,
                DeclineInvitation, RegisterUser, workspaceVars
  <1> QED BY <1>2, <1>3, <1>4 DEF WorkspaceInv

-----------------------------------------------------------------------------
(* The invariant of a workspace is inductive.                              *)
THEOREM WorkspaceInvariant == WorkspaceSpec => []WorkspaceInv
  <1>1. WorkspaceInit => WorkspaceInv
    <2> SUFFICES ASSUME WorkspaceInit PROVE WorkspaceInv
      OBVIOUS
    <2>1. Creator \in WorkUsers  BY WorkspaceAssumption
    <2>2. OwnerRow \in MemberRows /\ members = <<OwnerRow>>
      BY <2>1 DEF WorkspaceInit, OwnerRow, MemberRows, Roles
    <2>3. Free \in Requested /\ Free.row = 0 /\ Free.phase = "free"
      BY <2>1 DEF Free, Requested, Phases, Roles
    <2>4. MembersOK
      <3>1. Len(members) = 1 /\ members[1] = OwnerRow /\ members \in Seq(MemberRows)
        BY <2>2
      <3>2. MemberIds = {1}  BY <3>1 DEF MemberIds
      <3> QED BY <3>1, <3>2 DEF MembersOK, OwnerRow
    <2>5. InvitedOK  BY <2>1, WorkspaceAssumption DEF WorkspaceInit, InvitedOK
    <2>6. SlotsOK  BY <2>3, <2>4 DEF WorkspaceInit, SlotsOK, SlotOK, MembersOK
    <2> QED BY <2>4, <2>5, <2>6 DEF WorkspaceInit, WorkspaceInv, CountsOK
  <1>2. WorkspaceInv /\ [WorkspaceNext]_workspaceVars => WorkspaceInv'
    BY AsksKeepInv, ChecksKeepInv, InvitationKeepsInv, InvitedMemberKeepsInv,
       AcceptanceKeepsInv, RoleChangeKeepsInv, RemovalKeepsInv, RestKeepsInv
    DEF WorkspaceNext
  <1> QED BY <1>1, <1>2, PTL DEF WorkspaceSpec

(* Whatever invitations, acceptances, role changes and removals cross, the *)
(* creator stays the one owner, and every admin was made one by the owner. *)
THEOREM RolesHold == WorkspaceSpec => []RolesComeFromTheOwner
  <1>1. WorkspaceInv => RolesComeFromTheOwner
    <2> SUFFICES ASSUME WorkspaceInv PROVE RolesComeFromTheOwner
      OBVIOUS
    <2>1. /\ ActiveOwners = {1} /\ Cardinality(ActiveOwners) = 1
          /\ members[1].user = Creator
      BY OneOwner DEF WorkspaceInv, MembersOK, OwnerRow
    <2> QED BY <2>1 DEF RolesComeFromTheOwner, WorkspaceInv, MembersOK
  <1> QED BY <1>1, WorkspaceInvariant, PTL

-----------------------------------------------------------------------------
(* Proposals.                                                              *)

VersionRows == [writer : Nat, base : Nat]
ItineraryRows == [revision : Nat, status : TripStatuses, versions : Seq(VersionRows)]

SavedBy(u, k) == applying[u].phase = "saved" /\ applying[u].proposal = k

(* A proposal that no two requests have handled at once, and whose mark    *)
(* was not lost: one request at most is at it, it has changed the          *)
(* itinerary once at most, and its status and the step of that request     *)
(* tell whether it has.                                                    *)
FollowedInv(k) ==
    /\ \A u, v \in Appliers : applying[u].proposal = k /\ applying[v].proposal = k => u = v
    /\ \A i, j \in VersionsOf(k) : i = j
    /\ \A u \in Appliers : applying[u].proposal = k =>
          /\ applying[u].phase \in {"ready", "stale"} =>
                proposals[k].status = "pending" /\ VersionsOf(k) = {}
          /\ applying[u].phase = "saved" => proposals[k].status = "pending" /\ VersionsOf(k) # {}
          /\ applying[u].phase = "tidying" => proposals[k].status = "applied"
    /\ (\A u \in Appliers : ~SavedBy(u, k)) =>
          (proposals[k].status = "applied" <=> VersionsOf(k) # {})

(* The inductive invariant.  A proposal with a base is written at most     *)
(* where it was computed: as the revision after its base.                  *)
ProposalInv ==
    /\ trips \in [Trips -> ItineraryRows]
    /\ proposals \in Seq(ProposalRows)
    /\ applying \in [Appliers -> Applies]
    /\ raced \subseteq ProposalIds
    /\ \A u \in Appliers : \/ applying[u] = NoApply
                           \/ applying[u].phase # "none" /\ applying[u].proposal \in ProposalIds
    /\ \A t \in Trips : /\ trips[t].revision = Len(trips[t].versions)
                        /\ \A i \in DOMAIN trips[t].versions :
                              trips[t].versions[i].writer =< Len(proposals)
    /\ \A u \in Appliers :
          applying[u].phase = "ready" => BaseIsCurrent(ProposalOf(u), applying[u].seen)
    /\ \A k \in ProposalIds : \A i \in VersionsOf(k) :
          proposals[k].kind # "suggestion" => i = proposals[k].base + 1
    /\ \A k \in ProposalIds \ raced : FollowedInv(k)

(* The facts about types that the steps below use.                         *)
LEMMA ProposalFacts ==
    ASSUME ProposalInv
    PROVE  /\ Len(proposals) \in Nat /\ 0 \notin ProposalIds
           /\ \A k \in ProposalIds : /\ k \in Nat /\ proposals[k] \in ProposalRows
                                     /\ proposals[k].trip \in Trips /\ proposals[k].base \in Nat
           /\ \A u \in Appliers : /\ applying[u] \in Applies
                                  /\ applying[u].proposal \in {0} \cup ProposalIds
                                  /\ applying[u].seen \in Nat
                                  /\ applying[u].phase # "none" => applying[u].proposal \in ProposalIds
           /\ \A t \in Trips : /\ trips[t] \in ItineraryRows /\ trips[t].revision \in Nat
                               /\ trips[t].versions \in Seq(VersionRows)
  <1>1. Len(proposals) \in Nat /\ 0 \notin ProposalIds  BY DEF ProposalInv, ProposalIds
  <1>2. \A k \in ProposalIds : k \in Nat /\ proposals[k] \in ProposalRows
    BY DEF ProposalInv, ProposalIds
  <1>3. \A k \in ProposalIds : proposals[k].trip \in Trips /\ proposals[k].base \in Nat
    BY <1>2 DEF ProposalRows
  <1>4. \A u \in Appliers : /\ applying[u] \in Applies
                            /\ applying[u].proposal \in {0} \cup ProposalIds
                            /\ applying[u].phase # "none" => applying[u].proposal \in ProposalIds
    BY DEF ProposalInv, NoApply
  <1>5. \A u \in Appliers : applying[u].seen \in Nat  BY <1>4 DEF Applies
  <1>6. \A t \in Trips : trips[t] \in ItineraryRows  BY DEF ProposalInv
  <1>7. \A t \in Trips : trips[t].revision \in Nat /\ trips[t].versions \in Seq(VersionRows)
    BY <1>6 DEF ItineraryRows
  <1> QED BY <1>1, <1>2, <1>3, <1>4, <1>5, <1>6, <1>7

-----------------------------------------------------------------------------
(* Where the itineraries and a proposal's trip stay, so do its versions.   *)
LEMMA VersionsKept ==
    ASSUME NEW k, UNCHANGED trips, proposals'[k].trip = proposals[k].trip
    PROVE  VersionsOf(k)' = VersionsOf(k)
  BY DEF VersionsOf

(* One guarded write appends one version, of the proposal it names.        *)
LEMMA WriteAppends ==
    ASSUME ProposalInv, NEW t \in Trips, NEW seen \in Nat, NEW origin \in 0..Len(proposals),
           WriteItinerary(t, seen, origin), UNCHANGED proposals
    PROVE  /\ seen = trips[t].revision
           /\ trips' \in [Trips -> ItineraryRows]
           /\ \A s \in Trips : /\ trips'[s].revision = Len(trips'[s].versions)
                               /\ \A i \in DOMAIN trips'[s].versions :
                                     trips'[s].versions[i].writer =< Len(proposals)
           /\ \A k \in ProposalIds :
                 VersionsOf(k)' = IF k = origin /\ proposals[k].trip = t
                                  THEN VersionsOf(k) \cup {seen + 1} ELSE VersionsOf(k)
  <1> DEFINE version == [writer |-> origin, base |-> seen]
             row == UpdateItineraryAndCreateVersion(trips[t], origin, seen)
  <1>1. trips[t].revision = seen /\ trips' = [trips EXCEPT ![t] = row]
    BY DEF WriteItinerary, RevisionMatches
  <1>2. /\ trips[t].versions \in Seq(VersionRows) /\ Len(trips[t].versions) = seen
        /\ version \in VersionRows /\ version.writer = origin /\ Len(proposals) \in Nat
        /\ origin \in Nat /\ origin =< Len(proposals)
    BY <1>1, ProposalFacts DEF ProposalInv, VersionRows
  <1>3. /\ row.revision = seen + 1 /\ row.status = "COMPLETED"
        /\ row.versions = Append(trips[t].versions, version)
    BY <1>1 DEF UpdateItineraryAndCreateVersion
  <1>4. /\ row.versions \in Seq(VersionRows) /\ Len(row.versions) = seen + 1
        /\ DOMAIN row.versions = DOMAIN trips[t].versions \cup {seen + 1}
        /\ seen + 1 \notin DOMAIN trips[t].versions
        /\ row.versions[seen + 1] = version
        /\ \A i \in DOMAIN trips[t].versions : row.versions[i] = trips[t].versions[i]
    BY <1>2, <1>3
  <1>5. row \in ItineraryRows
    BY <1>1, <1>2, <1>4 DEF ItineraryRows, UpdateItineraryAndCreateVersion, TripStatuses
  <1> HIDE DEF row, version
  <1>6. /\ trips' \in [Trips -> ItineraryRows] /\ trips'[t] = row
        /\ \A s \in Trips : s # t => trips'[s] = trips[s]
    BY <1>1, <1>5 DEF ProposalInv
  <1>7. \A s \in Trips : /\ trips'[s].revision = Len(trips'[s].versions)
                         /\ \A i \in DOMAIN trips'[s].versions :
                               trips'[s].versions[i].writer =< Len(proposals)
    BY <1>2, <1>3, <1>4, <1>6 DEF ProposalInv
  <1>8. ASSUME NEW k \in ProposalIds
        PROVE  VersionsOf(k)' = IF k = origin /\ proposals[k].trip = t
                                THEN VersionsOf(k) \cup {seen + 1} ELSE VersionsOf(k)
    <2>1. CASE proposals[k].trip # t
      BY <1>6, <2>1, ProposalFacts DEF VersionsOf
    <2>2. CASE proposals[k].trip = t
      <3>1. VersionsOf(k)' = {i \in DOMAIN row.versions : row.versions[i].writer = k}
        BY <1>6, <2>2 DEF VersionsOf
      <3>2. VersionsOf(k) = {i \in DOMAIN trips[t].versions : trips[t].versions[i].writer = k}
        BY <2>2 DEF VersionsOf
      <3> QED BY <1>2, <1>4, <2>2, <3>1, <3>2
    <2> QED BY <2>1, <2>2
  <1> QED BY <1>1, <1>6, <1>7, <1>8

(* A request takes its next step, or ends.                                 *)
LEMMA ApplyTyped ==
    ASSUME ProposalInv, NEW u \in Appliers, NEW row \in Applies, applying' = [applying EXCEPT ![u] = row]
    PROVE  /\ applying' \in [Appliers -> Applies] /\ applying'[u] = row
           /\ \A v \in Appliers : v # u => applying'[v] = applying[v]
  BY DEF ProposalInv

(* A request in its next phase.                                            *)
LEMMA PhaseTyped ==
    ASSUME ProposalInv, NEW u \in Appliers,
           NEW phase \in {"opened", "stale", "ready", "saved", "tidying"}
    PROVE  /\ [applying[u] EXCEPT !.phase = phase] \in Applies
           /\ [applying[u] EXCEPT !.phase = phase].phase = phase
           /\ [applying[u] EXCEPT !.phase = phase].proposal = applying[u].proposal
           /\ [applying[u] EXCEPT !.phase = phase].seen = applying[u].seen
           /\ NoApply \in Applies
  BY ProposalFacts DEF Applies, NoApply

-----------------------------------------------------------------------------
(* A new proposal has written nothing.                                     *)
LEMMA CreateProposalKeeps == ASSUME ProposalInv, CreateProposal PROVE ProposalInv'
  <1>1. PICK t \in Trips, kind \in ProposalKinds :
           \E base \in IF kind = "suggestion" THEN {0} ELSE 1..trips[t].revision :
              proposals' = Append(proposals, [trip |-> t, kind |-> kind, base |-> base,
                                              status |-> "pending"])
    BY DEF CreateProposal
  <1>2. PICK base \in Nat :
           proposals' = Append(proposals, [trip |-> t, kind |-> kind, base |-> base,
                                           status |-> "pending"])
    BY <1>1, ProposalFacts
  <1> DEFINE row == [trip |-> t, kind |-> kind, base |-> base, status |-> "pending"]
  <1>3. row \in ProposalRows /\ row.status = "pending"
    BY ProposalAssumption DEF ProposalRows
  <1>4. PICK n \in Nat : n = Len(proposals) + 1  BY ProposalFacts
  <1> HIDE DEF row
  <1>5. /\ proposals' \in Seq(ProposalRows) /\ Len(proposals') = n
        /\ proposals'[n] = row /\ \A k \in ProposalIds : proposals'[k] = proposals[k]
        /\ ProposalIds' = ProposalIds \cup {n} /\ n \notin ProposalIds /\ n # 0
    BY <1>2, <1>3, <1>4, ProposalFacts DEF ProposalInv, ProposalIds, row
  <1>6. UNCHANGED <<trips, applying, raced>>  BY DEF CreateProposal
  <1>7. \A k \in ProposalIds : VersionsOf(k)' = VersionsOf(k)  BY <1>5, <1>6, VersionsKept
  <1>8. VersionsOf(n)' = {}
    <2>1. proposals'[n].trip \in Trips  BY <1>3, <1>5 DEF ProposalRows
    <2>2. \A s \in Trips : \A i \in DOMAIN trips[s].versions : trips[s].versions[i].writer # n
      <3> SUFFICES ASSUME NEW s \in Trips, NEW i \in DOMAIN trips[s].versions
                   PROVE  trips[s].versions[i].writer # n
        OBVIOUS
      <3>1. trips[s].versions[i] \in VersionRows  BY ProposalFacts
      <3>2. trips[s].versions[i].writer \in Nat  BY <3>1 DEF VersionRows
      <3>3. trips[s].versions[i].writer =< Len(proposals)  BY DEF ProposalInv
      <3> QED BY <1>4, <3>2, <3>3, ProposalFacts
    <2> QED BY <1>6, <2>1, <2>2 DEF VersionsOf
  <1>9. \A u \in Appliers : applying[u].proposal # n  BY <1>5, ProposalFacts
  <1>10. \A s \in Trips : \A i \in DOMAIN trips[s].versions :
            trips[s].versions[i].writer =< Len(proposals')
    <2> SUFFICES ASSUME NEW s \in Trips, NEW i \in DOMAIN trips[s].versions
                 PROVE  trips[s].versions[i].writer =< n
      BY <1>5
    <2>1. trips[s].versions[i] \in VersionRows  BY ProposalFacts
    <2>2. trips[s].versions[i].writer \in Nat  BY <2>1 DEF VersionRows
    <2> QED BY <1>4, <2>2, ProposalFacts DEF ProposalInv
  <1>11. \A k \in (ProposalIds \ raced)' : FollowedInv(k)'
    <2> SUFFICES ASSUME NEW k \in (ProposalIds \ raced)' PROVE FollowedInv(k)'
      OBVIOUS
    <2>1. CASE k = n
      BY <1>3, <1>5, <1>6, <1>8, <1>9, <2>1 DEF FollowedInv
    <2>2. CASE k # n
      BY <1>5, <1>6, <1>7, <2>2 DEF ProposalInv, FollowedInv, SavedBy
    <2> QED BY <2>1, <2>2
  <1>12. \A u \in Appliers :
            applying'[u].phase = "ready" => BaseIsCurrent(ProposalOf(u), applying[u].seen)'
    <2> SUFFICES ASSUME NEW u \in Appliers, applying[u].phase = "ready"
                 PROVE  BaseIsCurrent(ProposalOf(u), applying[u].seen)'
      BY <1>6
    <2>1. applying[u].proposal \in ProposalIds  BY ProposalFacts
    <2> QED BY <1>5, <1>6, <2>1 DEF ProposalInv, ProposalOf, BaseIsCurrent
  <1>13. \A k \in ProposalIds' : \A i \in VersionsOf(k)' :
            proposals'[k].kind # "suggestion" => i = proposals'[k].base + 1
    BY <1>5, <1>7, <1>8 DEF ProposalInv
  <1>14. \A u \in Appliers : \/ applying'[u] = NoApply
                             \/ applying'[u].phase # "none" /\ applying'[u].proposal \in ProposalIds'
    BY <1>5, <1>6 DEF ProposalInv
  <1> QED BY <1>5, <1>6, <1>10, <1>11, <1>12, <1>13, <1>14 DEF ProposalInv

(* An edit appends a version that no proposal wrote.                       *)
LEMMA EditKeeps == ASSUME ProposalInv, EditItinerary PROVE ProposalInv'
  <1>1. PICK t \in Trips : WriteItinerary(t, trips[t].revision, 0)  BY DEF EditItinerary
  <1>2. UNCHANGED <<proposals, applying, raced, ProposalIds>>  BY DEF EditItinerary, ProposalIds
  <1>3. 0 \in 0..Len(proposals) /\ trips[t].revision \in Nat  BY ProposalFacts
  <1>4. /\ trips' \in [Trips -> ItineraryRows]
        /\ \A s \in Trips : /\ trips'[s].revision = Len(trips'[s].versions)
                            /\ \A i \in DOMAIN trips'[s].versions :
                                  trips'[s].versions[i].writer =< Len(proposals)
        /\ \A k \in ProposalIds : VersionsOf(k)' = VersionsOf(k)
    BY <1>1, <1>2, <1>3, WriteAppends, ProposalFacts
  <1>5. \A k \in (ProposalIds \ raced)' : FollowedInv(k)'
    BY <1>2, <1>4 DEF ProposalInv, FollowedInv, SavedBy
  <1>6. \A k \in ProposalIds' : \A i \in VersionsOf(k)' :
            proposals'[k].kind # "suggestion" => i = proposals'[k].base + 1
    BY <1>2, <1>4 DEF ProposalInv
  <1> QED BY <1>2, <1>4, <1>5, <1>6 DEF ProposalInv, ProposalOf, BaseIsCurrent

(* A step of a request that leaves the itineraries and the proposals.      *)
LEMMA OpenKeeps == ASSUME ProposalInv, NEW u \in Appliers, OpenApply(u) PROVE ProposalInv'
  <1>1. PICK k \in ProposalIds :
           /\ applying' = [applying EXCEPT ![u] =
                 [phase |-> "opened", proposal |-> k, seen |-> trips[proposals[k].trip].revision]]
           /\ raced' = IF BeingApplied(k) THEN raced \cup {k} ELSE raced
    BY DEF OpenApply
  <1>2. applying[u].proposal = 0 /\ UNCHANGED <<trips, proposals, ProposalIds>>
    BY DEF OpenApply, NoApply, ProposalIds
  <1>3. [phase |-> "opened", proposal |-> k, seen |-> trips[proposals[k].trip].revision] \in Applies
    BY ProposalFacts DEF Applies
  <1>4. /\ applying' \in [Appliers -> Applies] /\ applying'[u].phase = "opened"
        /\ applying'[u].proposal = k /\ \A v \in Appliers : v # u => applying'[v] = applying[v]
    BY <1>1, <1>3, ApplyTyped
  <1>5. \A j \in ProposalIds : VersionsOf(j)' = VersionsOf(j)  BY <1>2, VersionsKept
  <1>6. ASSUME NEW j \in (ProposalIds \ raced)' PROVE FollowedInv(j)'
    <2>1. j \in ProposalIds /\ FollowedInv(j) /\ (j = k => ~BeingApplied(k)) /\ j # 0
      BY <1>1, <1>2, <1>6, ProposalFacts DEF ProposalInv
    <2>2. CASE j = k
      <3>1. \A v \in Appliers : applying[v].proposal # k  BY <2>1, <2>2 DEF BeingApplied
      <3>2. \A v \in Appliers : v # u => applying'[v].proposal # k  BY <1>4, <3>1
      <3> QED BY <1>2, <1>4, <1>5, <2>1, <2>2, <3>1, <3>2 DEF FollowedInv, SavedBy
    <2>3. CASE j # k
      <3>1. \A v \in Appliers : applying'[v].proposal = j =>
               applying[v].proposal = j /\ applying'[v] = applying[v]
        BY <1>4, <2>3
      <3>2. \A v \in Appliers : SavedBy(v, j) => SavedBy(v, j)'
        BY <1>2, <1>4, <2>1 DEF SavedBy
      <3> QED BY <1>2, <1>5, <2>1, <3>1, <3>2 DEF FollowedInv
    <2> QED BY <2>2, <2>3
  <1>7. \A v \in Appliers :
           applying'[v].phase = "ready" => BaseIsCurrent(ProposalOf(v), applying[v].seen)'
    BY <1>2, <1>4 DEF ProposalInv, ProposalOf
  <1>8. \A v \in Appliers : \/ applying'[v] = NoApply
                            \/ applying'[v].phase # "none" /\ applying'[v].proposal \in ProposalIds'
    BY <1>2, <1>4 DEF ProposalInv
  <1>9. raced' \subseteq ProposalIds'  BY <1>1, <1>2 DEF ProposalInv
  <1>10. \A j \in ProposalIds' : \A i \in VersionsOf(j)' :
            proposals'[j].kind # "suggestion" => i = proposals'[j].base + 1
    BY <1>2, <1>5 DEF ProposalInv
  <1> QED BY <1>2, <1>4, <1>6, <1>7, <1>8, <1>9, <1>10 DEF ProposalInv

(* The check of a proposal: a request is ready only with a pending         *)
(* proposal whose base is current.                                         *)
LEMMA CheckKeeps == ASSUME ProposalInv, NEW u \in Appliers, CheckProposal(u) PROVE ProposalInv'
  <1>1. PICK k \in ProposalIds : k = applying[u].proposal
    BY ProposalFacts DEF CheckProposal
  <1>2. applying[u].phase = "opened" /\ UNCHANGED <<trips, proposals, raced, ProposalIds>>
    BY DEF CheckProposal, ProposalIds
  <1>3. /\ applying' \in [Appliers -> Applies]
        /\ \A v \in Appliers : v # u => applying'[v] = applying[v]
        /\ \/ applying'[u] = NoApply
           \/ /\ applying'[u].phase = "stale" /\ applying'[u].proposal = k
              /\ proposals[k].status = "pending"
           \/ /\ applying'[u].phase = "ready" /\ applying'[u].proposal = k
              /\ applying'[u].seen = applying[u].seen
              /\ proposals[k].status = "pending" /\ BaseIsCurrent(proposals[k], applying[u].seen)
    <2>1. CASE ~IsPending(ProposalOf(u))
      <3>1. applying' = [applying EXCEPT ![u] = NoApply]  BY <2>1 DEF CheckProposal, EndApply
      <3> QED BY <3>1, ApplyTyped, PhaseTyped
    <2>2. CASE IsPending(ProposalOf(u)) /\ BaseIsCurrent(ProposalOf(u), applying[u].seen)
      <3>1. applying' = [applying EXCEPT ![u] = [applying[u] EXCEPT !.phase = "ready"]]
        BY <2>2 DEF CheckProposal, Step
      <3> QED BY <1>1, <2>2, <3>1, ApplyTyped, PhaseTyped DEF ProposalOf, IsPending
    <2>3. CASE IsPending(ProposalOf(u)) /\ ~BaseIsCurrent(ProposalOf(u), applying[u].seen)
      <3>1. applying' = [applying EXCEPT ![u] = [applying[u] EXCEPT !.phase = "stale"]]
        BY <2>3 DEF CheckProposal, Step
      <3> QED BY <1>1, <2>3, <3>1, ApplyTyped, PhaseTyped DEF ProposalOf, IsPending
    <2> QED BY <2>1, <2>2, <2>3
  <1>4. \A j \in ProposalIds : VersionsOf(j)' = VersionsOf(j)  BY <1>2, VersionsKept
  <1>5. NoApply.proposal = 0 /\ NoApply.phase = "none"  BY DEF NoApply
  <1>6. ASSUME NEW j \in (ProposalIds \ raced)' PROVE FollowedInv(j)'
    <2>1. j \in ProposalIds /\ FollowedInv(j) /\ j # 0
      BY <1>2, <1>6, ProposalFacts DEF ProposalInv
    <2>2. \A v \in Appliers : applying'[v].proposal = j => applying[v].proposal = j
      BY <1>1, <1>3, <1>5, <2>1
    <2>3. \A v \in Appliers : SavedBy(v, j) <=> SavedBy(v, j)'
      BY <1>2, <1>3, <1>5 DEF SavedBy
    <2>4. applying'[u].proposal = j => proposals[j].status = "pending" /\ VersionsOf(j) = {}
      <3> SUFFICES ASSUME applying'[u].proposal = j
                   PROVE  proposals[j].status = "pending" /\ VersionsOf(j) = {}
        OBVIOUS
      <3>1. j = k /\ proposals[j].status = "pending"  BY <1>3, <1>5, <2>1
      <3>2. \A v \in Appliers : ~SavedBy(v, j)  BY <1>1, <1>2, <2>1, <3>1 DEF FollowedInv, SavedBy
      <3> QED BY <2>1, <3>1, <3>2 DEF FollowedInv
    <2>5. applying'[u].phase \notin {"saved", "tidying"}  BY <1>3, <1>5
    <2>6. \A v \in Appliers : applying'[v].proposal = j =>
             /\ applying'[v].phase \in {"ready", "stale"} =>
                   proposals[j].status = "pending" /\ VersionsOf(j) = {}
             /\ applying'[v].phase = "saved" => proposals[j].status = "pending" /\ VersionsOf(j) # {}
             /\ applying'[v].phase = "tidying" => proposals[j].status = "applied"
      <3> SUFFICES ASSUME NEW v \in Appliers, applying'[v].proposal = j
                   PROVE  /\ applying'[v].phase \in {"ready", "stale"} =>
                                proposals[j].status = "pending" /\ VersionsOf(j) = {}
                          /\ applying'[v].phase = "saved" =>
                                proposals[j].status = "pending" /\ VersionsOf(j) # {}
                          /\ applying'[v].phase = "tidying" => proposals[j].status = "applied"
        OBVIOUS
      <3>1. CASE v = u  BY <2>4, <2>5, <3>1
      <3>2. CASE v # u  BY <1>3, <2>1, <3>2 DEF FollowedInv
      <3> QED BY <3>1, <3>2
    <2> QED BY <1>2, <1>4, <2>1, <2>2, <2>3, <2>6 DEF FollowedInv
  <1>7. \A v \in Appliers :
           applying'[v].phase = "ready" => BaseIsCurrent(ProposalOf(v), applying[v].seen)'
    BY <1>2, <1>3, <1>5 DEF ProposalInv, ProposalOf
  <1>8. \A v \in Appliers : \/ applying'[v] = NoApply
                            \/ applying'[v].phase # "none" /\ applying'[v].proposal \in ProposalIds'
    BY <1>2, <1>3 DEF ProposalInv
  <1>9. \A j \in ProposalIds' : \A i \in VersionsOf(j)' :
            proposals'[j].kind # "suggestion" => i = proposals'[j].base + 1
    BY <1>2, <1>4 DEF ProposalInv
  <1> QED BY <1>2, <1>3, <1>6, <1>7, <1>8, <1>9 DEF ProposalInv

-----------------------------------------------------------------------------
(* Statements on the status of proposals: a proposal whose request is over *)
(* or just marked it, and the requests of the others go on as they were.   *)
StatusesChange(u) ==
    /\ proposals' \in Seq(ProposalRows) /\ ProposalIds' = ProposalIds
    /\ \A k \in ProposalIds : /\ proposals'[k].trip = proposals[k].trip
                              /\ proposals'[k].kind = proposals[k].kind
                              /\ proposals'[k].base = proposals[k].base
    /\ UNCHANGED trips
    /\ applying' \in [Appliers -> Applies]
    /\ \A v \in Appliers : v # u => applying'[v] = applying[v]
    /\ \/ applying'[u] = NoApply
       \/ applying'[u].phase = "tidying" /\ applying'[u].proposal = applying[u].proposal
    /\ raced \subseteq raced' /\ raced' \subseteq ProposalIds

(* Such a statement keeps the invariant when it keeps what is said of the  *)
(* proposals that are not raced.                                           *)
LEMMA StatusesKeep ==
    ASSUME ProposalInv, NEW u \in Appliers, StatusesChange(u), applying[u].phase # "none",
           \A k \in ProposalIds \ raced' : FollowedInv(k) => FollowedInv(k)'
    PROVE  ProposalInv'
  <1>1. \A j \in ProposalIds : VersionsOf(j)' = VersionsOf(j)
    BY VersionsKept DEF StatusesChange
  <1>2. Len(proposals') = Len(proposals)
    <2>1. 1..Len(proposals') = 1..Len(proposals) /\ Len(proposals') \in Nat /\ Len(proposals) \in Nat
      BY ProposalFacts DEF StatusesChange, ProposalIds
    <2> QED BY <2>1
  <1>3. \A k \in (ProposalIds \ raced)' : FollowedInv(k)'
    BY DEF StatusesChange, ProposalInv
  <1>4. NoApply.phase = "none"  BY DEF NoApply
  <1>5. \A v \in Appliers :
           applying'[v].phase = "ready" => BaseIsCurrent(ProposalOf(v), applying[v].seen)'
    <2> SUFFICES ASSUME NEW v \in Appliers, applying'[v].phase = "ready"
                 PROVE  BaseIsCurrent(ProposalOf(v), applying[v].seen)'
      OBVIOUS
    <2>1. v # u /\ applying'[v] = applying[v] /\ applying[v].proposal \in ProposalIds
      BY <1>4, ProposalFacts DEF StatusesChange
    <2> QED BY <2>1 DEF StatusesChange, ProposalInv, ProposalOf, BaseIsCurrent
  <1>6. \A v \in Appliers : \/ applying'[v] = NoApply
                            \/ applying'[v].phase # "none" /\ applying'[v].proposal \in ProposalIds'
    BY ProposalFacts DEF StatusesChange, ProposalInv
  <1>7. \A j \in ProposalIds' : \A i \in VersionsOf(j)' :
            proposals'[j].kind # "suggestion" => i = proposals'[j].base + 1
    BY <1>1 DEF StatusesChange, ProposalInv
  <1> QED BY <1>2, <1>3, <1>5, <1>6, <1>7 DEF StatusesChange, ProposalInv

(* A request ends.                                                         *)
LEMMA EndTyped ==
    ASSUME ProposalInv, NEW u \in Appliers, EndApply(u)
    PROVE  /\ applying' \in [Appliers -> Applies] /\ applying'[u] = NoApply
           /\ \A v \in Appliers : v # u => applying'[v] = applying[v]
  <1>1. applying' = [applying EXCEPT ![u] = NoApply] /\ NoApply \in Applies
    BY DEF EndApply, NoApply, Applies
  <1> QED BY <1>1, ApplyTyped

(* Expiring stale or competing proposals: one that another request has     *)
(* opened is raced from then on.                                           *)
LEMMA ExpireKeeps ==
    ASSUME ProposalInv, NEW u \in Appliers, ExpireStale(u) \/ ExpireOtherRepairs(u)
    PROVE  ProposalInv'
  <1> DEFINE gone == Expired(applying[u].proposal, applying[u].seen)
  <1>1. /\ applying[u].phase \in {"stale", "tidying"} /\ EndApply(u) /\ UNCHANGED trips
        /\ proposals' = [j \in ProposalIds |->
              IF j \in gone THEN [proposals[j] EXCEPT !.status = "expired"] ELSE proposals[j]]
        /\ raced' = raced \cup ({applying[v].proposal : v \in Appliers \ {u}} \cap gone)
    BY DEF ExpireStale, ExpireOtherRepairs, Expire
  <1>2. gone \subseteq ProposalIds /\ \A j \in gone : proposals[j].status = "pending"
    BY DEF Expired, IsPending
  <1> HIDE DEF gone
  <1>3. ASSUME NEW j \in ProposalIds
        PROVE  /\ proposals'[j] \in ProposalRows /\ proposals'[j].trip = proposals[j].trip
               /\ proposals'[j].kind = proposals[j].kind /\ proposals'[j].base = proposals[j].base
               /\ proposals'[j].status = IF j \in gone THEN "expired" ELSE proposals[j].status
    <2>1. CASE j \in gone
      <3>1. proposals'[j] = [proposals[j] EXCEPT !.status = "expired"]  BY <1>1, <2>1
      <3> QED BY <2>1, <3>1, ProposalFacts DEF ProposalRows
    <2>2. CASE j \notin gone
      <3>1. proposals'[j] = proposals[j]  BY <1>1, <2>2
      <3> QED BY <2>2, <3>1, ProposalFacts
    <2> QED BY <2>1, <2>2
  <1>4. proposals' \in Seq(ProposalRows) /\ ProposalIds' = ProposalIds
    <2>1. proposals' \in [1..Len(proposals) -> ProposalRows]  BY <1>1, <1>3 DEF ProposalIds
    <2>2. proposals' \in Seq(ProposalRows) /\ Len(proposals') = Len(proposals)
      BY <2>1, ProposalFacts
    <2> QED BY <2>2 DEF ProposalIds
  <1>5. /\ applying' \in [Appliers -> Applies] /\ applying'[u] = NoApply
        /\ \A v \in Appliers : v # u => applying'[v] = applying[v]
    BY <1>1, EndTyped
  <1>6. NoApply.phase = "none" /\ NoApply.proposal = 0  BY DEF NoApply
  <1>7. StatusesChange(u)
    BY <1>1, <1>2, <1>3, <1>4, <1>5 DEF StatusesChange, ProposalInv
  <1>8. ASSUME NEW k \in ProposalIds \ raced', FollowedInv(k) PROVE FollowedInv(k)'
    <2>1. VersionsOf(k)' = VersionsOf(k)  BY <1>1, <1>3, VersionsKept
    <2>2. k # 0 /\ \A v \in Appliers : applying'[v].proposal = k =>
                      v # u /\ applying[v].proposal = k /\ applying'[v] = applying[v]
      BY <1>5, <1>6, ProposalFacts
    <2>3. \A v \in Appliers : SavedBy(v, k) => SavedBy(v, k)'
      BY <1>1, <1>5 DEF SavedBy
    <2>4. CASE k \in gone
      <3>1. \A v \in Appliers : v # u => applying[v].proposal # k  BY <1>1, <1>8, <2>4
      <3>2. \A v \in Appliers : ~SavedBy(v, k)  BY <1>1, <3>1 DEF SavedBy
      <3>3. VersionsOf(k) = {}  BY <1>2, <1>8, <2>4, <3>2 DEF FollowedInv
      <3>4. \A v \in Appliers : applying'[v].proposal # k  BY <2>2, <3>1
      <3>5. proposals'[k].status = "expired"  BY <1>3, <2>4
      <3> QED BY <2>1, <3>3, <3>4, <3>5 DEF FollowedInv
    <2>5. CASE k \notin gone
      <3>1. proposals'[k].status = proposals[k].status  BY <1>3, <2>5
      <3> QED BY <1>8, <2>1, <2>2, <2>3, <3>1 DEF FollowedInv
    <2> QED BY <2>4, <2>5
  <1> QED BY <1>1, <1>7, <1>8, StatusesKeep

(* The guarded write of a proposal: the revision it was computed from is   *)
(* the current one.                                                        *)
LEMMA SaveKeeps == ASSUME ProposalInv, NEW u \in Appliers, SaveProposal(u) PROVE ProposalInv'
  <1>1. PICK k \in ProposalIds, t \in Trips, seen \in Nat :
           /\ k = applying[u].proposal /\ t = proposals[k].trip /\ seen = applying[u].seen
    BY ProposalFacts DEF SaveProposal
  <1>2. /\ applying[u].phase = "ready" /\ WriteItinerary(t, seen, k)
        /\ applying' = [applying EXCEPT ![u].phase = "saved", ![u].seen = trips[t].revision + 1]
        /\ UNCHANGED <<proposals, raced, ProposalIds>>
    BY <1>1 DEF SaveProposal, ProposalOf, ProposalIds
  <1>3. k \in 0..Len(proposals)  BY ProposalFacts DEF ProposalIds
  <1>4. /\ seen = trips[t].revision /\ trips' \in [Trips -> ItineraryRows]
        /\ \A s \in Trips : /\ trips'[s].revision = Len(trips'[s].versions)
                            /\ \A i \in DOMAIN trips'[s].versions :
                                  trips'[s].versions[i].writer =< Len(proposals)
        /\ VersionsOf(k)' = VersionsOf(k) \cup {seen + 1}
        /\ \A j \in ProposalIds : j # k => VersionsOf(j)' = VersionsOf(j)
    BY <1>1, <1>2, <1>3, WriteAppends
  <1>5. /\ applying' \in [Appliers -> Applies] /\ applying'[u].phase = "saved"
        /\ applying'[u].proposal = k /\ \A v \in Appliers : v # u => applying'[v] = applying[v]
    <2> DEFINE mid == [applying[u] EXCEPT !.phase = "saved"]
               row == [mid EXCEPT !.seen = trips[t].revision + 1]
    <2>1. mid \in Applies /\ mid.phase = "saved" /\ mid.proposal = k  BY <1>1, PhaseTyped
    <2> HIDE DEF mid
    <2>2. trips[t].revision + 1 \in Nat  BY <1>4, <1>1
    <2>3. row \in Applies /\ row.phase = "saved" /\ row.proposal = k  BY <2>1, <2>2 DEF Applies
    <2>4. applying' = [applying EXCEPT ![u] = row]  BY <1>2 DEF mid, ProposalInv
    <2> QED BY <2>3, <2>4, ApplyTyped
  <1>6. \A v \in Appliers : applying'[v].proposal = applying[v].proposal  BY <1>1, <1>5
  <1>7. ASSUME NEW j \in (ProposalIds \ raced)' PROVE FollowedInv(j)'
    <2>1. j \in ProposalIds /\ FollowedInv(j)  BY <1>2, <1>7 DEF ProposalInv
    <2>2. CASE j = k
      <3>1. proposals[k].status = "pending" /\ VersionsOf(k) = {}
        BY <1>1, <1>2, <2>1, <2>2 DEF FollowedInv
      <3>2. \A v \in Appliers : applying'[v].proposal = k => v = u
        BY <1>1, <1>6, <2>1, <2>2 DEF FollowedInv
      <3>3. SavedBy(u, k)'  BY <1>5 DEF SavedBy
      <3> QED BY <1>2, <1>4, <1>5, <2>2, <3>1, <3>2, <3>3 DEF FollowedInv
    <2>3. CASE j # k
      <3>1. \A v \in Appliers : applying'[v].proposal = j =>
               applying[v].proposal = j /\ applying'[v] = applying[v]
        BY <1>5, <1>6, <2>3
      <3>2. \A v \in Appliers : SavedBy(v, j) => SavedBy(v, j)'  BY <1>5, <1>6 DEF SavedBy
      <3> QED BY <1>2, <1>4, <2>1, <2>3, <3>1, <3>2 DEF FollowedInv
    <2> QED BY <2>2, <2>3
  <1>8. \A v \in Appliers :
           applying'[v].phase = "ready" => BaseIsCurrent(ProposalOf(v), applying[v].seen)'
    BY <1>2, <1>5 DEF ProposalInv, ProposalOf
  <1>9. \A v \in Appliers : \/ applying'[v] = NoApply
                            \/ applying'[v].phase # "none" /\ applying'[v].proposal \in ProposalIds'
    BY <1>2, <1>5 DEF ProposalInv
  <1>10. proposals[k].kind # "suggestion" => seen = proposals[k].base
    BY <1>1, <1>2 DEF ProposalInv, BaseIsCurrent, ProposalOf
  <1>11. \A j \in ProposalIds' : \A i \in VersionsOf(j)' :
            proposals'[j].kind # "suggestion" => i = proposals'[j].base + 1
    BY <1>2, <1>4, <1>10 DEF ProposalInv
  <1> QED BY <1>2, <1>4, <1>5, <1>7, <1>8, <1>9, <1>11 DEF ProposalInv

(* One row of the proposals' tables gets a status.                         *)
LEMMA StatusIsSet ==
    ASSUME ProposalInv, NEW k \in ProposalIds, NEW status \in {"pending", "applied", "discarded", "expired"},
           proposals' = [proposals EXCEPT ![k].status = status]
    PROVE  /\ proposals' \in Seq(ProposalRows) /\ ProposalIds' = ProposalIds
           /\ \A j \in ProposalIds :
                 /\ proposals'[j].trip = proposals[j].trip /\ proposals'[j].kind = proposals[j].kind
                 /\ proposals'[j].base = proposals[j].base
                 /\ proposals'[j].status = IF j = k THEN status ELSE proposals[j].status
  <1> DEFINE row == [proposals[k] EXCEPT !.status = status]
  <1>1. /\ row \in ProposalRows /\ row.trip = proposals[k].trip /\ row.kind = proposals[k].kind
        /\ row.base = proposals[k].base /\ row.status = status
    BY ProposalFacts DEF ProposalRows
  <1>2. proposals' = [proposals EXCEPT ![k] = row]  OBVIOUS
  <1> HIDE DEF row
  <1>3. /\ proposals' \in Seq(ProposalRows) /\ Len(proposals') = Len(proposals)
        /\ \A j \in ProposalIds : proposals'[j] = IF j = k THEN row ELSE proposals[j]
    BY <1>1, <1>2, SMTT(20) DEF ProposalInv, ProposalIds
  <1> QED BY <1>1, <1>3 DEF ProposalIds

(* Marking the proposal that was saved.                                    *)
LEMMA MarkAppliedKeeps == ASSUME ProposalInv, NEW u \in Appliers, MarkApplied(u) PROVE ProposalInv'
  <1>1. PICK k \in ProposalIds : k = applying[u].proposal  BY ProposalFacts DEF MarkApplied
  <1>2. applying[u].phase = "saved" /\ UNCHANGED <<trips, raced>>  BY DEF MarkApplied
  <1>3. NoApply.phase = "none" /\ NoApply.proposal = 0  BY DEF NoApply
  <1>4. /\ applying' \in [Appliers -> Applies]
        /\ \A v \in Appliers : v # u => applying'[v] = applying[v]
        /\ \/ applying'[u] = NoApply
           \/ applying'[u].phase = "tidying" /\ applying'[u].proposal = k /\ IsPending(proposals[k])
    <2>1. CASE EndApply(u)  BY <2>1, EndTyped
    <2>2. CASE Step(u, "tidying") /\ IsPending(proposals[k])
      <3>1. applying' = [applying EXCEPT ![u] = [applying[u] EXCEPT !.phase = "tidying"]]
        BY <2>2 DEF Step
      <3> QED BY <1>1, <2>2, <3>1, PhaseTyped, ApplyTyped
    <2> QED BY <1>1, <2>1, <2>2 DEF MarkApplied
  <1>5. /\ proposals' \in Seq(ProposalRows) /\ ProposalIds' = ProposalIds
        /\ \A j \in ProposalIds :
              /\ proposals'[j].trip = proposals[j].trip /\ proposals'[j].kind = proposals[j].kind
              /\ proposals'[j].base = proposals[j].base
              /\ proposals'[j].status = IF j = k /\ IsPending(proposals[k]) THEN "applied"
                                        ELSE proposals[j].status
    <2>1. CASE IsPending(proposals[k])
      <3>1. proposals' = [proposals EXCEPT ![k].status = "applied"]
        BY <1>1, <2>1 DEF MarkApplied
      <3>2. /\ proposals' \in Seq(ProposalRows) /\ ProposalIds' = ProposalIds
            /\ \A j \in ProposalIds :
                  /\ proposals'[j].trip = proposals[j].trip /\ proposals'[j].kind = proposals[j].kind
                  /\ proposals'[j].base = proposals[j].base
                  /\ proposals'[j].status = IF j = k THEN "applied" ELSE proposals[j].status
        BY <3>1, StatusIsSet
      <3> QED BY <2>1, <3>2
    <2>2. CASE ~IsPending(proposals[k])
      <3>1. UNCHANGED proposals  BY <1>1, <2>2 DEF MarkApplied
      <3> QED BY <2>2, <3>1 DEF ProposalInv, ProposalIds
    <2> QED BY <2>1, <2>2
  <1>6. StatusesChange(u)  BY <1>1, <1>2, <1>4, <1>5 DEF StatusesChange, ProposalInv
  <1>7. ASSUME NEW j \in ProposalIds \ raced', FollowedInv(j) PROVE FollowedInv(j)'
    <2>1. VersionsOf(j)' = VersionsOf(j) /\ j # 0  BY <1>2, <1>5, VersionsKept, ProposalFacts
    <2>2. \A v \in Appliers : applying'[v].proposal = j => applying[v].proposal = j
      BY <1>1, <1>3, <1>4, <2>1
    <2>3. CASE j = k
      <3>1. proposals[k].status = "pending" /\ VersionsOf(k) # {}
        BY <1>1, <1>2, <1>7, <2>3 DEF FollowedInv
      <3>2. proposals'[k].status = "applied"  BY <1>5, <3>1 DEF IsPending
      <3>3. \A v \in Appliers : applying'[v].proposal = k => v = u /\ applying'[u].phase = "tidying"
        BY <1>1, <1>3, <1>4, <1>7, <2>1, <2>2, <2>3 DEF FollowedInv
      <3> QED BY <1>7, <2>1, <2>3, <3>1, <3>2, <3>3 DEF FollowedInv
    <2>4. CASE j # k
      <3>1. proposals'[j].status = proposals[j].status  BY <1>5, <2>4
      <3>2. \A v \in Appliers : applying'[v].proposal = j => applying'[v] = applying[v]
        BY <1>1, <1>3, <1>4, <2>1, <2>4
      <3>3. \A v \in Appliers : SavedBy(v, j) => SavedBy(v, j)'
        BY <1>1, <1>4, <2>4 DEF SavedBy
      <3> QED BY <1>7, <2>1, <2>2, <3>1, <3>2, <3>3 DEF FollowedInv
    <2> QED BY <2>3, <2>4
  <1> QED BY <1>2, <1>6, <1>7, StatusesKeep

(* A request fails; after its write, its proposal keeps the status it had. *)
LEMMA ApplyFailsKeeps == ASSUME ProposalInv, NEW u \in Appliers, ApplyFails(u) PROVE ProposalInv'
  <1>1. PICK k \in ProposalIds : k = applying[u].proposal
    BY ProposalFacts DEF ApplyFails, ProposalInv
  <1>2. /\ applying[u].phase # "none" /\ EndApply(u) /\ UNCHANGED <<trips, proposals, ProposalIds>>
        /\ raced' = IF applying[u].phase = "saved" THEN raced \cup {k} ELSE raced
    BY <1>1 DEF ApplyFails, ProposalInv, ProposalIds
  <1>3. NoApply.phase = "none" /\ NoApply.proposal = 0  BY DEF NoApply
  <1>4. /\ applying' \in [Appliers -> Applies] /\ applying'[u] = NoApply
        /\ \A v \in Appliers : v # u => applying'[v] = applying[v]
    BY <1>2, EndTyped
  <1>5. StatusesChange(u)  BY <1>1, <1>2, <1>4 DEF StatusesChange, ProposalInv
  <1>6. ASSUME NEW j \in ProposalIds \ raced', FollowedInv(j) PROVE FollowedInv(j)'
    <2>1. VersionsOf(j)' = VersionsOf(j) /\ j # 0  BY <1>2, VersionsKept, ProposalFacts
    <2>2. \A v \in Appliers : applying'[v].proposal = j =>
             applying[v].proposal = j /\ applying'[v] = applying[v]
      BY <1>3, <1>4, <2>1
    <2>3. \A v \in Appliers : SavedBy(v, j) => SavedBy(v, j)'
      BY <1>1, <1>2, <1>4, <1>6 DEF SavedBy
    <2> QED BY <1>2, <1>6, <2>1, <2>2, <2>3 DEF FollowedInv
  <1> QED BY <1>2, <1>5, <1>6, StatusesKeep

(* Discarding a pending proposal.                                          *)
LEMMA DiscardKeeps == ASSUME ProposalInv, NEW k \in ProposalIds, DiscardProposal(k) PROVE ProposalInv'
  <1>1. /\ proposals[k].status = "pending" /\ UNCHANGED <<trips, applying>>
        /\ proposals' = [proposals EXCEPT ![k].status = "discarded"]
        /\ raced' = IF BeingApplied(k) THEN raced \cup {k} ELSE raced
    BY DEF DiscardProposal
  <1>2. /\ proposals' \in Seq(ProposalRows) /\ ProposalIds' = ProposalIds
        /\ \A j \in ProposalIds :
              /\ proposals'[j].trip = proposals[j].trip /\ proposals'[j].kind = proposals[j].kind
              /\ proposals'[j].base = proposals[j].base
              /\ proposals'[j].status = IF j = k THEN "discarded" ELSE proposals[j].status
    BY <1>1, StatusIsSet
  <1>3. \A j \in ProposalIds : VersionsOf(j)' = VersionsOf(j)  BY <1>1, <1>2, VersionsKept
  <1>4. ASSUME NEW j \in (ProposalIds \ raced)' PROVE FollowedInv(j)'
    <2>1. j \in ProposalIds /\ FollowedInv(j) /\ (j = k => ~BeingApplied(k))
      BY <1>1, <1>2, <1>4 DEF ProposalInv
    <2>2. \A v \in Appliers : SavedBy(v, j)' = SavedBy(v, j)  BY <1>1 DEF SavedBy
    <2>3. CASE j = k
      <3>1. \A v \in Appliers : applying[v].proposal # k /\ ~SavedBy(v, k)
        BY <2>1, <2>3 DEF BeingApplied, SavedBy
      <3>2. VersionsOf(k) = {}  BY <1>1, <2>1, <2>3, <3>1 DEF FollowedInv
      <3> QED BY <1>1, <1>2, <1>3, <2>3, <3>1, <3>2 DEF FollowedInv
    <2>4. CASE j # k
      BY <1>1, <1>2, <1>3, <2>1, <2>2, <2>4 DEF FollowedInv
    <2> QED BY <2>3, <2>4
  <1>5. Len(proposals') = Len(proposals)
    <2>1. 1..Len(proposals') = 1..Len(proposals) /\ Len(proposals') \in Nat /\ Len(proposals) \in Nat
      BY <1>2, ProposalFacts DEF ProposalIds
    <2> QED BY <2>1
  <1>6. \A v \in Appliers :
           applying'[v].phase = "ready" => BaseIsCurrent(ProposalOf(v), applying[v].seen)'
    <2> SUFFICES ASSUME NEW v \in Appliers, applying[v].phase = "ready"
                 PROVE  BaseIsCurrent(ProposalOf(v), applying[v].seen)'
      BY <1>1
    <2>1. applying[v].proposal \in ProposalIds  BY ProposalFacts
    <2> QED BY <1>1, <1>2, <2>1 DEF ProposalInv, ProposalOf, BaseIsCurrent
  <1>7. \A j \in ProposalIds' : \A i \in VersionsOf(j)' :
            proposals'[j].kind # "suggestion" => i = proposals'[j].base + 1
    BY <1>2, <1>3 DEF ProposalInv
  <1>8. raced' \subseteq ProposalIds'  BY <1>1, <1>2 DEF ProposalInv
  <1> QED BY <1>1, <1>2, <1>4, <1>5, <1>6, <1>7, <1>8 DEF ProposalInv

-----------------------------------------------------------------------------
(* There are no proposals and no requests initially.                       *)
LEMMA ProposalInitially == ProposalInit => ProposalInv
  <1> SUFFICES ASSUME ProposalInit PROVE ProposalInv
    OBVIOUS
  <1>1. proposals = << >> /\ ProposalIds = {} /\ raced = {}  BY DEF ProposalInit, ProposalIds
  <1>2. \A u \in Appliers : applying[u] = NoApply  BY DEF ProposalInit
  <1>3. applying \in [Appliers -> Applies] /\ NoApply.phase = "none"
    BY DEF ProposalInit, NoApply, Applies
  <1>4. /\ NewTrip \in ItineraryRows /\ NewTrip.revision = Len(NewTrip.versions)
        /\ DOMAIN NewTrip.versions = {}
    BY DEF NewTrip, ItineraryRows, TripStatuses
  <1>5. trips \in [Trips -> ItineraryRows] /\ \A t \in Trips : trips[t] = NewTrip
    BY <1>4 DEF ProposalInit, InitTrips
  <1> QED BY <1>1, <1>2, <1>3, <1>4, <1>5 DEF ProposalInv

(* Every step of a request, an editor or a user keeps the invariant.       *)
LEMMA ProposalStep == ProposalInv /\ [ProposalNext]_proposalVars => ProposalInv'
  <1> SUFFICES ASSUME ProposalInv, [ProposalNext]_proposalVars PROVE ProposalInv'
    OBVIOUS
  <1>1. CASE UNCHANGED proposalVars
    <2>1. UNCHANGED <<trips, proposals, applying, raced, ProposalIds>>
      BY <1>1 DEF proposalVars, ProposalIds
    <2>2. \A k \in ProposalIds : VersionsOf(k)' = VersionsOf(k)  BY <2>1, VersionsKept
    <2>3. \A k \in (ProposalIds \ raced)' : FollowedInv(k)'
      BY <2>1, <2>2 DEF ProposalInv, FollowedInv, SavedBy
    <2> QED BY <2>1, <2>2, <2>3 DEF ProposalInv, ProposalOf, BaseIsCurrent
  <1> QED BY <1>1, CreateProposalKeeps, EditKeeps, OpenKeeps, CheckKeeps, ExpireKeeps, SaveKeeps,
             MarkAppliedKeeps, ApplyFailsKeeps, DiscardKeeps DEF ProposalNext

(* The inductive invariant holds of the proposals, for every number of     *)
(* trips, requests, proposals and writes.                                  *)
THEOREM ProposalInvariant == ProposalSpec => []ProposalInv
  BY ProposalInitially, ProposalStep, PTL DEF ProposalSpec

(* However many requests apply a proposal, it changes the itinerary once:  *)
(* one with a base because of the revision check, a suggestion unless two  *)
(* requests raced (ApplyProposal, UpdateItineraryAndCreateVersion).        *)
THEOREM ProposalsApplyOnce == ProposalSpec => []AppliedOnce
  <1>1. ProposalInv => AppliedOnce
    <2> SUFFICES ASSUME ProposalInv, NEW k \in ProposalIds,
                        ~(proposals[k].kind = "suggestion" /\ k \in raced)
                 PROVE  Cardinality(VersionsOf(k)) =< 1
      BY DEF AppliedOnce
    <2>1. \A i, j \in VersionsOf(k) : i = j
      <3>1. CASE k \in raced
        <4>1. proposals[k].kind # "suggestion"  BY <3>1
        <4> QED BY <4>1 DEF ProposalInv
      <3>2. CASE k \notin raced  BY <3>2 DEF ProposalInv, FollowedInv
      <3> QED BY <3>1, <3>2
    <2>2. CASE VersionsOf(k) = {}  BY <2>2, FS_EmptySet
    <2>3. CASE VersionsOf(k) # {}
      <3>1. PICK i : VersionsOf(k) = {i}  BY <2>1, <2>3
      <3> QED BY <3>1, FS_Singleton
    <2> QED BY <2>2, <2>3
  <1> QED BY <1>1, ProposalInvariant, PTL

(* The status of a proposal tells whether it changed the itinerary, unless *)
(* requests raced or one failed between its write and its mark.            *)
THEOREM ProposalsTellEffect == ProposalSpec => []StatusTellsEffect
  <1>1. ProposalInv => StatusTellsEffect
    BY DEF ProposalInv, StatusTellsEffect, FollowedInv, SavedBy
  <1> QED BY <1>1, ProposalInvariant, PTL

-----------------------------------------------------------------------------
(* The instance that gathers the components.                               *)

(* The types of proposals: the versions of a trip name proposals.          *)
THEOREM ProposalTypesHold == ProposalSpec => []ProposalTypeOK
  <1>1. ProposalInv => ProposalTypeOK
    <2> SUFFICES ASSUME ProposalInv PROVE ProposalTypeOK
      OBVIOUS
    <2>1. Len(proposals) \in Nat /\ ProposalIds \subseteq 0..Len(proposals) /\ 0 \in 0..Len(proposals)
      BY DEF ProposalInv, ProposalIds
    <2>2. ASSUME NEW t \in Trips
          PROVE  trips[t] \in TripRows(0..Len(proposals))
      <3> DEFINE Written == [writer : 0..Len(proposals), base : Nat]
      <3>1. PICK rows \in Seq(VersionRows) : rows = trips[t].versions
        BY DEF ProposalInv, ItineraryRows
      <3>2. \A i \in 1..Len(rows) : rows[i] \in Written
        <4> SUFFICES ASSUME NEW i \in 1..Len(rows) PROVE rows[i] \in Written
          OBVIOUS
        <4>1. rows[i] \in VersionRows
          BY <3>1
        <4>2. rows[i].writer =< Len(proposals)
          BY <3>1 DEF ProposalInv
        <4> QED BY <4>1, <4>2, <2>1 DEF VersionRows
      <3>3. rows \in Seq(Written)
        <4>1. rows \in [1..Len(rows) -> Written] /\ Len(rows) \in Nat
          BY <3>2, SeqIsFunction
        <4> QED BY <4>1, FunctionIsSeq
      <3>4. trips[t] \in ItineraryRows
        BY DEF ProposalInv
      <3> QED BY <3>1, <3>3, <3>4 DEF ItineraryRows, TripRows
    <2>3. trips \in [Trips -> TripRows(0..Len(proposals))]
      BY <2>2 DEF ProposalInv
    <2>4. \A u \in Appliers : applying[u].proposal \in 0..Len(proposals)
      <3> SUFFICES ASSUME NEW u \in Appliers PROVE applying[u].proposal \in 0..Len(proposals)
        OBVIOUS
      <3>1. applying[u] = NoApply \/ applying[u].proposal \in ProposalIds
        BY DEF ProposalInv
      <3>2. NoApply.proposal = 0
        BY DEF NoApply
      <3> QED BY <2>1, <3>1, <3>2
    <2> QED BY <2>3, <2>4 DEF ProposalInv, ProposalTypeOK
  <1> QED BY <1>1, ProposalInvariant, PTL

(* A behaviour of the instance is one of every component: it starts in the *)
(* component's initial states, and its steps are the component's or leave  *)
(* it alone.                                                               *)
LEMMA CleanupGathered == ServicesSpec => CleanupSpec
  <1>1. ServicesInit => CleanupInit
    BY DEF ServicesInit
  <1>2. [ServicesNext]_serviceVars => [CleanupNext]_cleanupVars
    BY DEF ServicesNext, serviceVars
  <1> QED BY <1>1, <1>2, PTL DEF ServicesSpec, CleanupSpec

LEMMA CollabGathered == ServicesSpec => CollabSpec
  <1>1. ServicesInit => CollabInit
    BY DEF ServicesInit
  <1>2. [ServicesNext]_serviceVars => [CollabNext]_collabVars
    BY DEF ServicesNext, serviceVars
  <1> QED BY <1>1, <1>2, PTL DEF ServicesSpec, CollabSpec

LEMMA ExportsGathered == ServicesSpec => ExportSpec
  <1>1. ServicesInit => ExportInit
    BY DEF ServicesInit
  <1>2. [ServicesNext]_serviceVars => [ExportNext]_exportVars
    BY DEF ServicesNext, serviceVars
  <1> QED BY <1>1, <1>2, PTL DEF ServicesSpec, ExportSpec

LEMMA LettersGathered == ServicesSpec => DeadLetterSpec
  <1>1. ServicesInit => DeadLetterInit
    BY DEF ServicesInit
  <1>2. [ServicesNext]_serviceVars => [DeadLetterNext]_letterVars
    BY DEF ServicesNext, serviceVars
  <1> QED BY <1>1, <1>2, PTL DEF ServicesSpec, DeadLetterSpec

LEMMA DigestsGathered == ServicesSpec => DigestSpec
  <1>1. ServicesInit => DigestInit
    BY DEF ServicesInit
  <1>2. [ServicesNext]_serviceVars => [DigestNext]_digestVars
    BY DEF ServicesNext, serviceVars
  <1> QED BY <1>1, <1>2, PTL DEF ServicesSpec, DigestSpec

LEMMA ExpensesGathered == ServicesSpec => ExpenseSpec
  <1>1. ServicesInit => ExpenseInit
    BY DEF ServicesInit
  <1>2. [ServicesNext]_serviceVars => [ExpenseNext]_expenseVars
    BY DEF ServicesNext, serviceVars
  <1> QED BY <1>1, <1>2, PTL DEF ServicesSpec, ExpenseSpec

LEMMA DedupeGathered == ServicesSpec => DedupeSpec
  <1>1. ServicesInit => DedupeInit
    BY DEF ServicesInit
  <1>2. [ServicesNext]_serviceVars => [DedupeNext]_dedupeVars
    BY DEF ServicesNext, serviceVars
  <1> QED BY <1>1, <1>2, PTL DEF ServicesSpec, DedupeSpec

LEMMA ProposalsGathered == ServicesSpec => ProposalSpec
  <1>1. ServicesInit => ProposalInit
    BY DEF ServicesInit
  <1>2. [ServicesNext]_serviceVars => [ProposalNext]_proposalVars
    BY DEF ServicesNext, serviceVars
  <1> QED BY <1>1, <1>2, PTL DEF ServicesSpec, ProposalSpec

LEMMA RemindersGathered == ServicesSpec => ReminderSpec
  <1>1. ServicesInit => ReminderInit
    BY DEF ServicesInit
  <1>2. [ServicesNext]_serviceVars => [ReminderNext]_reminderVars
    BY DEF ServicesNext, serviceVars
  <1> QED BY <1>1, <1>2, PTL DEF ServicesSpec, ReminderSpec

LEMMA WorkspacesGathered == ServicesSpec => WorkspaceSpec
  <1>1. ServicesInit => WorkspaceInit
    BY DEF ServicesInit
  <1>2. [ServicesNext]_serviceVars => [WorkspaceNext]_workspaceVars
    BY DEF ServicesNext, serviceVars
  <1> QED BY <1>1, <1>2, PTL DEF ServicesSpec, WorkspaceSpec

(* Every component's state holds values of its types, whichever component  *)
(* moves, for every instance.                                              *)
THEOREM ServicesTyped == ServicesSpec => []ServicesTypeOK
  <1>1. ServicesSpec => []CleanupTypeOK
    <2>1. CleanupInv => CleanupTypeOK
      BY DEF CleanupInv
    <2> QED BY <2>1, CleanupInvariant, CleanupGathered, PTL
  <1>2. ServicesSpec => []CollabTypeOK
    <2>1. CollabInv => CollabTypeOK
      BY DEF CollabInv
    <2> QED BY <2>1, CollabTypesHold, CollabGathered, PTL
  <1>3. ServicesSpec => []ExportTypeOK
    BY ExportTypesHold, ExportsGathered, PTL
  <1>4. ServicesSpec => []DeadLetterTypeOK
    <2>1. LettersInv => DeadLetterTypeOK
      BY DEF LettersInv
    <2> QED BY <2>1, LettersInvariant, LettersGathered, PTL
  <1>5. ServicesSpec => []DigestTypeOK
    <2>1. DigestInv => DigestTypeOK
      BY DEF DigestInv
    <2> QED BY <2>1, DigestInvariant, DigestsGathered, PTL
  <1>6. ServicesSpec => []ExpenseTypeOK
    BY ExpensesTyped, ExpensesGathered, PTL
  <1>7. ServicesSpec => []DedupeTypeOK
    <2>1. DedupeInv => DedupeTypeOK
      BY DEF DedupeInv
    <2> QED BY <2>1, DedupeInvariant, DedupeGathered, PTL
  <1>8. ServicesSpec => []ProposalTypeOK
    BY ProposalTypesHold, ProposalsGathered, PTL
  <1>9. ServicesSpec => []ReminderTypeOK
    <2>1. ReminderInv => ReminderTypeOK
      BY DEF ReminderInv
    <2> QED BY <2>1, ReminderInvariant, RemindersGathered, PTL
  <1>10. ServicesSpec => []WorkspaceTypeOK
    <2>1. WorkspaceInv => WorkspaceTypeOK
      BY DEF WorkspaceInv, MembersOK, InvitedOK, SlotsOK, CountsOK, WorkspaceTypeOK
    <2> QED BY <2>1, WorkspaceInvariant, WorkspacesGathered, PTL
  <1> QED BY <1>1, <1>2, <1>3, <1>4, <1>5, <1>6, <1>7, <1>8, <1>9, <1>10, PTL DEF ServicesTypeOK
=============================================================================
