------------------------------ MODULE Proposals ------------------------------
(***************************************************************************)
(* Changes to the itinerary that wait for somebody's consent: the budget   *)
(* optimisations and policy repairs that generation jobs propose, and the  *)
(* suggestions of travel companions.  To apply one is two steps that no    *)
(* transaction joins: the guarded write of the itinerary, and the update   *)
(* that marks the proposal.  A suggestion is applied to the itinerary of   *)
(* the moment; the other two replace the itinerary they were computed      *)
(* from.  Suggestions that change no itinerary item are left out.          *)
(*                                                                         *)
(* The withdrawal of the approval that follows every itinerary write is    *)
(* the subject of TripApproval and left out here.                          *)
(***************************************************************************)
EXTENDS TripStore, FiniteSets

CONSTANTS
    Appliers,          \* requests under way at a time
    ProposalKinds,     \* which of "budget", "repair", "suggestion"
    MaxProposals,      \* bound: proposals ever created
    MaxWrites          \* bound: revisions of one itinerary

ASSUME ProposalAssumption ==
    /\ ProposalKinds \subseteq {"budget", "repair", "suggestion"}
    /\ MaxProposals \in Nat /\ MaxWrites \in Nat

VARIABLES
    proposals,         \* the rows of the three tables
    applying,          \* the request each of Appliers has running
    raced              \* history: proposals that two requests handled at
                       \* once, or whose mark was lost after the save

proposalVars == <<trips, proposals, applying, raced>>

ProposalRows == [trip : Trips, kind : ProposalKinds, base : Nat,
                 status : {"pending", "applied", "discarded", "expired"}]
ProposalIds == 1..Len(proposals)

NoApply == [phase |-> "none", proposal |-> 0, seen |-> 0]
Applies == [phase : {"none", "opened", "stale", "ready", "saved", "tidying"},
            proposal : Nat, seen : Nat]

ProposalInit ==
    /\ InitTrips
    /\ proposals = << >>
    /\ applying = [u \in Appliers |-> NoApply]
    /\ raced = {}

Step(u, phase) == applying' = [applying EXCEPT ![u].phase = phase]
EndApply(u) == applying' = [applying EXCEPT ![u] = NoApply]

ProposalOf(u) == proposals[applying[u].proposal]
BeingApplied(k) == \E u \in Appliers : applying[u].proposal = k

(* One guarded write of the itinerary, of a request that saw revision      *)
(* seen; the version's writer is the proposal behind it, 0 for an edit.    *)
WriteItinerary(t, seen, origin) ==
    /\ trips[t].revision < MaxWrites
    /\ RevisionMatches(trips[t], seen)
    /\ trips' = [trips EXCEPT ![t] = UpdateItineraryAndCreateVersion(@, origin, seen)]

-----------------------------------------------------------------------------
(* A job's proposal names the revision that its computation read, some     *)
(* time ago; a suggestion names none.                                      *)
CreateProposal ==
    /\ Len(proposals) < MaxProposals
    /\ \E t \in Trips, kind \in ProposalKinds :
          \E base \in IF kind = "suggestion" THEN {0} ELSE 1..trips[t].revision :
             proposals' = Append(proposals, [trip |-> t, kind |-> kind, base |-> base,
                                             status |-> "pending"])
    /\ UNCHANGED <<trips, applying, raced>>

(* Any other writer of the itinerary.                                      *)
EditItinerary ==
    /\ \E t \in Trips : WriteItinerary(t, trips[t].revision, 0)
    /\ UNCHANGED <<proposals, applying, raced>>

(* The request reads the trip and checks the client's revision ...         *)
OpenApply(u) ==
    /\ applying[u] = NoApply
    /\ \E k \in ProposalIds :
          /\ applying' = [applying EXCEPT ![u] =
              [phase |-> "opened", proposal |-> k, seen |-> trips[proposals[k].trip].revision]]
          /\ raced' = IF BeingApplied(k) THEN raced \cup {k} ELSE raced
    /\ UNCHANGED <<trips, proposals>>

(* Broken variants, not part of the specification: the checks must notice  *)
(* each of them when it takes the place of the definition it resembles.    *)
AnyBase(row, seen) == TRUE
NotExpired(row) == row.status # "expired"

(* ... then the proposal and its base.                                     *)
BaseIsCurrent(row, seen) == row.kind = "suggestion" \/ row.base = seen
IsPending(row) == row.status = "pending"

CheckProposal(u) ==
    /\ applying[u].phase = "opened"
    /\ IF ~IsPending(ProposalOf(u)) THEN EndApply(u)
       ELSE Step(u, IF BaseIsCurrent(ProposalOf(u), applying[u].seen) THEN "ready" ELSE "stale")
    /\ UNCHANGED <<trips, proposals, raced>>

(* A budget proposal expires alone; pending repairs of the trip expire     *)
(* together when their base is not the revision that was read or written.  *)
Expired(k, revision) ==
    {j \in ProposalIds :
        /\ IsPending(proposals[j])
        /\ IF proposals[k].kind = "budget" THEN j = k
           ELSE /\ proposals[j].kind = "repair"
                /\ proposals[j].trip = proposals[k].trip
                /\ proposals[j].base # revision}

Expire(u) ==
    LET gone == Expired(applying[u].proposal, applying[u].seen) IN
    /\ proposals' = [j \in ProposalIds |->
          IF j \in gone THEN [proposals[j] EXCEPT !.status = "expired"] ELSE proposals[j]]
    /\ raced' = raced \cup ({applying[v].proposal : v \in Appliers \ {u}} \cap gone)
    /\ EndApply(u)
    /\ UNCHANGED <<trips>>

ExpireStale(u) == applying[u].phase = "stale" /\ Expire(u)

SaveProposal(u) ==
    LET t == ProposalOf(u).trip IN
    /\ applying[u].phase = "ready"
    /\ WriteItinerary(t, applying[u].seen, applying[u].proposal)
    /\ applying' = [applying EXCEPT ![u].phase = "saved", ![u].seen = trips[t].revision + 1]
    /\ UNCHANGED <<proposals, raced>>

(* WHERE status = pending; no row is an error.                             *)
MarkApplied(u) ==
    LET k == applying[u].proposal IN
    /\ applying[u].phase = "saved"
    /\ IF IsPending(proposals[k])
       THEN /\ proposals' = [proposals EXCEPT ![k].status = "applied"]
            /\ IF proposals[k].kind = "repair" THEN Step(u, "tidying") ELSE EndApply(u)
       ELSE EndApply(u) /\ UNCHANGED proposals
    /\ UNCHANGED <<trips, raced>>

ExpireOtherRepairs(u) == applying[u].phase = "tidying" /\ Expire(u)

(* A check or a statement fails, or the process stops.                     *)
ApplyFails(u) ==
    /\ applying[u] # NoApply
    /\ raced' = IF applying[u].phase = "saved" THEN raced \cup {applying[u].proposal} ELSE raced
    /\ EndApply(u)
    /\ UNCHANGED <<trips, proposals>>

(* Discarded, rejected or resolved: WHERE status = pending.                *)
DiscardProposal(k) ==
    /\ proposals[k].status = "pending"
    /\ proposals' = [proposals EXCEPT ![k].status = "discarded"]
    /\ raced' = IF BeingApplied(k) THEN raced \cup {k} ELSE raced
    /\ UNCHANGED <<trips, applying>>

ProposalNext ==
    \/ CreateProposal \/ EditItinerary
    \/ \E u \in Appliers :
          \/ OpenApply(u) \/ CheckProposal(u) \/ ExpireStale(u) \/ SaveProposal(u)
          \/ MarkApplied(u) \/ ExpireOtherRepairs(u) \/ ApplyFails(u)
    \/ \E k \in ProposalIds : DiscardProposal(k)

ProposalSpec == ProposalInit /\ [][ProposalNext]_proposalVars

-----------------------------------------------------------------------------
ProposalTypeOK ==
    /\ trips \in [Trips -> TripRows(0..Len(proposals))]
    /\ proposals \in Seq(ProposalRows)
    /\ applying \in [Appliers -> Applies]
    /\ \A u \in Appliers : applying[u].proposal \in 0..Len(proposals)
    /\ raced \subseteq ProposalIds

VersionsOf(k) ==
    LET versions == trips[proposals[k].trip].versions IN
    {i \in DOMAIN versions : versions[i].writer = k}

(* Two editors who apply the same proposal, or one who applies it again,   *)
(* change the itinerary once.  Only a suggestion, which names no base, is  *)
(* saved twice, when two requests handle it at once or its mark is lost.   *)
AppliedOnce ==
    \A k \in ProposalIds :
        \/ Cardinality(VersionsOf(k)) =< 1
        \/ proposals[k].kind = "suggestion" /\ k \in raced

(* The status tells whether the itinerary was changed: an applied proposal *)
(* was saved, and one that is open, discarded or expired was not, unless a *)
(* request is about to mark it, or two requests crossed, or the mark was   *)
(* lost (MarkBudgetOptimizationProposalApplied and its like).              *)
StatusTellsEffect ==
    \A k \in ProposalIds :
        (proposals[k].status = "applied" <=> VersionsOf(k) # {})
            \/ k \in raced
            \/ \E u \in Appliers : applying[u].phase = "saved" /\ applying[u].proposal = k
=============================================================================
