------------------------------ MODULE Workspaces ------------------------------
(***************************************************************************)
(* The members of one workspace in User Service.  A row of                 *)
(* workspace_members is invited, active or removed, and a partial unique   *)
(* index admits one row of a user that is not removed; an invitation       *)
(* belongs to an email address, registered or not yet.  A request reads    *)
(* the row of its actor, then the row of its target, and writes in         *)
(* statements of their own; only an acceptance is a transaction.           *)
(***************************************************************************)
EXTENDS Integers, Sequences, FiniteSets

CONSTANTS
    WorkUsers,             \* users of the platform, each with an email address
    Creator,            \* who created the workspace
    GivenRoles,         \* roles that invitations and role changes give
    Slots,              \* requests under way at a time
    MaxRows,            \* bound: rows ever inserted
    MaxWorkRequests     \* bound: requests ever begun

ASSUME WorkspaceAssumption ==
    /\ Creator \in WorkUsers
    /\ GivenRoles \subseteq {"admin", "member", "viewer"}
    /\ MaxRows \in Nat /\ MaxWorkRequests \in Nat

VARIABLES
    members,            \* the rows of workspace_members, ever inserted
    invited,            \* each user's row of workspace_invitations that is
                        \* pending: its role, or "none"
    archived,
    registered,         \* users whom the lookup by email finds
    slot,               \* the request in each of Slots
    begun,              \* requests begun so far
    appointed           \* history: users to whom the owner gave "admin"

workspaceVars == <<members, invited, archived, registered, slot, begun, appointed>>

Roles == {"owner", "admin", "member", "viewer"}
MemberRows == [user : WorkUsers, role : Roles, status : {"invited", "active", "removed"}]
MemberIds == 1..Len(members)

(* actor and as: who asks, and the role that was read.                     *)
Free == [phase |-> "free", actor |-> Creator, as |-> "owner", user |-> Creator,
         row |-> 0, role |-> "viewer"]
Phases == {"free", "inviting", "recording", "adding", "changing", "setting",
           "removing", "deleting", "archiving"}
Requested == [phase : Phases, actor : WorkUsers, as : Roles, user : WorkUsers,
              row : Nat, role : GivenRoles \cup {"viewer"}]

(* CreateWorkspaceWithOwner is one transaction.                            *)
WorkspaceInit ==
    /\ members = <<[user |-> Creator, role |-> "owner", status |-> "active"]>>
    /\ invited = [u \in WorkUsers |-> "none"]
    /\ archived = FALSE
    /\ registered = {Creator}
    /\ slot = [s \in Slots |-> Free]
    /\ begun = 0
    /\ appointed = {}

To(s, phase) == slot' = [slot EXCEPT ![s].phase = phase]
Leave(s) == slot' = [slot EXCEPT ![s] = Free]

RowsOf(u) == {k \in MemberIds : members[k].user = u /\ members[k].status # "removed"}
ActiveRowsOf(u) == {k \in RowsOf(u) : members[k].status = "active"}

CanManage(role) == role \in {"owner", "admin"}

(* INSERT ... ON CONFLICT (workspace_id, user_id) WHERE status IN          *)
(* ('active', 'invited') DO UPDATE, with the role of the statement.        *)
UpsertMember(u, role, status) ==
    IF RowsOf(u) = {}
    THEN /\ Len(members) < MaxRows
         /\ members' = Append(members, [user |-> u, role |-> role, status |-> status])
    ELSE \E k \in RowsOf(u) :
            members' = [members EXCEPT ![k].role = role,
                          ![k].status = IF @ = "active" THEN "active" ELSE status]

Appoint(s, u, role) ==
    appointed' = IF slot[s].as = "owner" /\ role = "admin" THEN appointed \cup {u} ELSE appointed

-----------------------------------------------------------------------------
(* requireActiveMember: the workspace is not archived, the actor active.   *)
Ask(s, phase, u, row, role) ==
    /\ slot[s] = Free
    /\ begun < MaxWorkRequests
    /\ begun' = begun + 1
    /\ ~archived
    /\ \E k \in MemberIds :
          /\ members[k].status = "active"
          /\ slot' = [slot EXCEPT ![s] = [phase |-> phase, actor |-> members[k].user,
                as |-> members[k].role, user |-> u, row |-> row, role |-> role]]
    /\ UNCHANGED <<members, invited, archived, registered, appointed>>

(* InviteMember: an admin invites no admin, nobody invites himself.        *)
AskToInvite(s) ==
    \E u \in WorkUsers, role \in GivenRoles :
        /\ Ask(s, "inviting", u, 0, role)
        /\ CanManage(slot'[s].as)
        /\ ~(slot'[s].as = "admin" /\ role = "admin")
        /\ slot'[s].actor # u

(* A broken variant, not part of the specification.                        *)
NeverActive(u) == FALSE

HasActiveMember(u) == ActiveRowsOf(u) # {}

(* A user whom the lookup finds may be a member already.                   *)
CheckInvited(s) ==
    LET u == slot[s].user IN
    /\ slot[s].phase = "inviting"
    /\ IF u \in registered /\ HasActiveMember(u) THEN Leave(s)
       ELSE slot' = [slot EXCEPT ![s].phase = "recording",
                                 ![s].row = IF u \in registered THEN 1 ELSE 0]
    /\ UNCHANGED <<members, invited, archived, registered, begun, appointed>>

(* A pending invitation of the same address gets the new role.             *)
UpsertInvitation(s) ==
    LET r == slot[s] IN
    /\ r.phase = "recording"
    /\ invited' = [invited EXCEPT ![r.user] = r.role]
    /\ IF r.row = 1 THEN To(s, "adding") ELSE Leave(s)
    /\ Appoint(s, r.user, r.role)
    /\ UNCHANGED <<members, archived, registered, begun>>

UpsertInvitedMember(s) ==
    LET r == slot[s] IN
    /\ r.phase = "adding"
    /\ UpsertMember(r.user, r.role, "invited")
    /\ Leave(s)
    /\ UNCHANGED <<invited, archived, registered, begun, appointed>>

(* One transaction; whether the workspace is archived is not asked.        *)
AcceptInvitation(u) ==
    /\ u \in registered
    /\ invited[u] # "none"
    /\ invited' = [invited EXCEPT ![u] = "none"]
    /\ UpsertMember(u, invited[u], "active")
    /\ UNCHANGED <<archived, registered, slot, begun, appointed>>

DeclineInvitation(u) ==
    /\ u \in registered
    /\ invited[u] # "none"
    /\ invited' = [invited EXCEPT ![u] = "none"]
    /\ UNCHANGED <<members, archived, registered, slot, begun, appointed>>

-----------------------------------------------------------------------------
AskToChange(s) ==
    \E k \in MemberIds, role \in GivenRoles : Ask(s, "changing", members[k].user, k, role)

canChangeRole(r, target) ==
    /\ CanManage(r.as)
    /\ target.role # "owner"
    /\ ~(r.as = "admin" /\ "admin" \in {target.role, r.role})

CheckChange(s) ==
    LET r == slot[s] IN
    /\ r.phase = "changing"
    /\ IF members[r.row].status # "removed" /\ canChangeRole(r, members[r.row])
       THEN To(s, "setting") ELSE Leave(s)
    /\ UNCHANGED <<members, invited, archived, registered, begun, appointed>>

UpdateMemberRole(s) ==
    LET r == slot[s] IN
    /\ r.phase = "setting"
    /\ members' = IF members[r.row].status = "removed" THEN members
                  ELSE [members EXCEPT ![r.row].role = r.role]
    /\ Appoint(s, r.user, r.role)
    /\ Leave(s)
    /\ UNCHANGED <<invited, archived, registered, begun>>

AskToRemove(s) == \E k \in MemberIds : Ask(s, "removing", members[k].user, k, "viewer")

ActiveOwners == {k \in MemberIds : members[k].role = "owner" /\ members[k].status = "active"}

canRemoveMember(r, target) ==
    IF r.actor = target.user
    THEN target.role = "owner" => Cardinality(ActiveOwners) > 1
    ELSE /\ CanManage(r.as)
         /\ target.role # "owner"
         /\ ~(r.as = "admin" /\ target.role = "admin")

CheckRemoval(s) ==
    LET r == slot[s] IN
    /\ r.phase = "removing"
    /\ IF members[r.row].status # "removed" /\ canRemoveMember(r, members[r.row])
       THEN To(s, "deleting") ELSE Leave(s)
    /\ UNCHANGED <<members, invited, archived, registered, begun, appointed>>

(* The invitation of a member who was only invited stays pending.          *)
RemoveMember(s) ==
    /\ slot[s].phase = "deleting"
    /\ members' = [members EXCEPT ![slot[s].row].status = "removed"]
    /\ Leave(s)
    /\ UNCHANGED <<invited, archived, registered, begun, appointed>>

AskToArchive(s) == Ask(s, "archiving", Creator, 0, "viewer") /\ slot'[s].as = "owner"

ArchiveWorkspace(s) ==
    /\ slot[s].phase = "archiving"
    /\ archived' = TRUE
    /\ Leave(s)
    /\ UNCHANGED <<members, invited, registered, begun, appointed>>

(* A statement fails, or the process stops.                                *)
AbandonRequest(s) ==
    /\ slot[s] # Free
    /\ Leave(s)
    /\ UNCHANGED <<members, invited, archived, registered, begun, appointed>>

RegisterUser(u) ==
    /\ u \notin registered
    /\ registered' = registered \cup {u}
    /\ UNCHANGED <<members, invited, archived, slot, begun, appointed>>

WorkspaceNext ==
    \/ \E s \in Slots :
          \/ AskToInvite(s) \/ AskToChange(s) \/ AskToRemove(s) \/ AskToArchive(s)
          \/ CheckInvited(s) \/ CheckChange(s) \/ CheckRemoval(s)
          \/ UpsertInvitation(s) \/ UpsertInvitedMember(s)
          \/ UpdateMemberRole(s) \/ RemoveMember(s) \/ ArchiveWorkspace(s)
          \/ AbandonRequest(s)
    \/ \E u \in WorkUsers : AcceptInvitation(u) \/ DeclineInvitation(u) \/ RegisterUser(u)

WorkspaceSpec == WorkspaceInit /\ [][WorkspaceNext]_workspaceVars

-----------------------------------------------------------------------------
WorkspaceTypeOK ==
    /\ members \in Seq(MemberRows)
    /\ invited \in [WorkUsers -> GivenRoles \cup {"none"}]
    /\ archived \in BOOLEAN
    /\ registered \subseteq WorkUsers
    /\ slot \in [Slots -> Requested]
    /\ \A s \in Slots : slot[s].row \in 0..Len(members)
    /\ begun \in Nat
    /\ appointed \subseteq WorkUsers

(* Whatever invitations, acceptances, role changes and removals cross, the *)
(* workspace keeps exactly one active owner, its creator, and no admin     *)
(* makes another: every admin was made one by the owner (UpsertInvitation, *)
(* UpsertInvitedMember and AcceptInvitation overwrite the role of the row  *)
(* they meet).                                                             *)
RolesComeFromTheOwner ==
    /\ {members[k].user : k \in ActiveOwners} = {Creator}
    /\ Cardinality(ActiveOwners) = 1
    /\ \A k \in MemberIds : members[k].role = "admin" => members[k].user \in appointed
===============================================================================
