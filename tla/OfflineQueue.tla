----------------------------- MODULE OfflineQueue -----------------------------
(***************************************************************************)
(* The offline queue of the web application: changes that a user saves     *)
(* while offline are records of the IndexedDB store pendingMutations,      *)
(* shared by all tabs of the browser, and a sync pass replays them to Trip *)
(* Service when the tab is online again.                                   *)
(*                                                                         *)
(* A record is changed by a get and a put that no transaction joins, the   *)
(* pass sends the copy it got, and the only lock (syncLocks) is memory of  *)
(* one tab.  So a pass and the saves, discards and merges of the same or   *)
(* of another tab interleave between any two of these steps, answers get   *)
(* lost, and a tab may be closed at any time.                              *)
(*                                                                         *)
(* An itinerary edit is a number, in the order in which edits were saved;  *)
(* a draft is named by the last edit in it.  Companion changes that create *)
(* an entity (checklist item, reminder, expense) are of kind "create"; the *)
(* other companion changes set a field and may be repeated freely.         *)
(***************************************************************************)
EXTENDS TripStore, FiniteSets

CONSTANTS
    Tabs,            \* open tabs: each may run a sync pass
    Pages,           \* the tabs among them that their user works in
    Elsewhere,       \* the writer of versions saved by other clients
    Merged,          \* the writer of versions saved from the merge dialog
    MaxRecords,      \* bound: records in pendingMutations
    MaxEdits,        \* bound: itinerary edits saved offline
    MaxOnline,       \* bound: versions saved by merges and other clients
    MAX_AUTOMATIC_ATTEMPTS,
    MaxClosedTabs    \* bound: tabs closed in the middle of something

ASSUME OfflineAssumption ==
    /\ MaxRecords \in Nat /\ MaxEdits \in Nat /\ MaxOnline \in Nat
    /\ MAX_AUTOMATIC_ATTEMPTS \in Nat \ {0} /\ MaxClosedTabs \in Nat
    /\ Pages \subseteq Tabs
    /\ Elsewhere # Merged
    /\ {Elsewhere, Merged} \cap Nat = {}

VARIABLES
    pending,     \* pendingMutations: a sequence of records, in creation order
    entities,    \* how many entities Trip Service created for each record:
                 \* none, one, or 2 for more
    edits,       \* itinerary edits saved so far
    passes,      \* the sync pass of each tab
    dialogs,     \* what the page of each tab does to a record
    closedTabs,
    history      \* what has happened to edits and records; guards nothing

offlineVars == <<trips, pending, entities, edits, passes, dialogs, closedTabs, history>>

ACTIVE_STATUSES == {"pending", "syncing", "conflict", "failed"}
FINAL_STATUSES == {"synced", "discarded"}

Mutation ==
    [kind : {"itinerary", "create"}, trip : Trips, base : Nat, draft : Nat,
     status : ACTIVE_STATUSES \cup FINAL_STATUSES, attemptCount : Nat]

Ids == 1..Len(pending)
NoCopy == [status |-> "none"]
IdlePass == [phase |-> "idle", listed |-> << >>, at |-> 0, copy |-> NoCopy, outcome |-> "none"]
IdleDialog == [phase |-> "idle", at |-> 0, copy |-> NoCopy, patch |-> "none"]

OfflineInit ==
    /\ InitTrips
    /\ pending = << >>
    /\ entities = << >>
    /\ edits = 0
    /\ passes = [b \in Tabs |-> IdlePass]
    /\ dialogs = [b \in Pages |-> IdleDialog]
    /\ closedTabs = 0
    /\ history = [raced |-> {}, decided |-> {}, unsure |-> {}, abandoned |-> {}]

Put(m, record) == pending' = [pending EXCEPT ![m] = record]
Add(record) ==
    /\ Len(pending) < MaxRecords
    /\ pending' = Append(pending, record)
    /\ entities' = Append(entities, 0)
SetPass(b, pass) == passes' = [passes EXCEPT ![b] = pass]
SetDialog(b, dialog) == dialogs' = [dialogs EXCEPT ![b] = dialog]

(* Somebody has read record m, or sent it, and has not written it yet.     *)
InFlight(m, others) ==
    \/ \E b \in Tabs : passes[b].at = m
    \/ \E b \in others : dialogs[b].at = m

-----------------------------------------------------------------------------
(* The page: saving edits and companion changes, discarding, merging.      *)

ActiveItineraryOf(t) ==
    {m \in Ids : pending[m].kind = "itinerary" /\ pending[m].trip = t
                 /\ pending[m].status \in ACTIVE_STATUSES}

(* enqueueItineraryUpdate reads the active record of the trip, if any ...  *)
BeginSave(b, t) ==
    /\ dialogs[b].phase = "idle"
    /\ edits < MaxEdits
    /\ \/ \E m \in ActiveItineraryOf(t) :
             SetDialog(b, [phase |-> "saving", at |-> m, copy |-> pending[m], patch |-> "pending"])
       \/ /\ ActiveItineraryOf(t) = {}
          /\ \E base \in 0..trips[t].revision :
                SetDialog(b, [phase |-> "creating", at |-> 0, patch |-> "pending",
                              copy |-> [kind |-> "itinerary", trip |-> t, base |-> base,
                                        draft |-> 0, status |-> "pending", attemptCount |-> 0]])
    /\ UNCHANGED <<trips, pending, entities, edits, passes, closedTabs, history>>

(* ... and puts it back with the new draft, keeping its base and attempts. *)
FinishSave(b) ==
    /\ dialogs[b].phase \in {"saving", "creating"}
    /\ edits' = edits + 1
    /\ edits < MaxEdits
    /\ LET m == dialogs[b].at
           record == [dialogs[b].copy EXCEPT !.draft = edits + 1, !.status = "pending"]
       IN IF dialogs[b].phase = "creating"
          THEN Add(record) /\ UNCHANGED history
          ELSE /\ Put(m, record)
               /\ history' =
                    [history EXCEPT
                        !.decided = @ \cup {dialogs[b].copy.draft},
                        !.raced = IF InFlight(m, Pages \ {b}) THEN @ \cup {edits + 1} ELSE @]
               /\ UNCHANGED entities
    /\ SetDialog(b, IdleDialog)
    /\ UNCHANGED <<trips, passes, closedTabs>>

enqueueCompanionMutation(t) ==
    /\ Add([kind |-> "create", trip |-> t, base |-> 0, draft |-> 0,
            status |-> "pending", attemptCount |-> 0])
    /\ UNCHANGED <<trips, edits, passes, dialogs, closedTabs, history>>

BeginDiscard(b, m) ==
    /\ dialogs[b].phase = "idle"
    /\ pending[m].status \in ACTIVE_STATUSES
    /\ SetDialog(b, [phase |-> "patching", at |-> m, copy |-> pending[m], patch |-> "discarded"])
    /\ UNCHANGED <<trips, pending, entities, edits, passes, closedTabs, history>>

OpenMerge(b, m) ==
    /\ dialogs[b].phase = "idle"
    /\ pending[m].status = "conflict"
    /\ SetDialog(b, [phase |-> "merging", at |-> m, copy |-> pending[m], patch |-> "synced"])
    /\ UNCHANGED <<trips, pending, entities, edits, passes, closedTabs, history>>

CloseMerge(b) ==
    /\ dialogs[b].phase = "merging"
    /\ SetDialog(b, IdleDialog)
    /\ UNCHANGED <<trips, pending, entities, edits, passes, closedTabs, history>>

SavedOnline(t) ==
    Cardinality({k \in 1..Len(trips[t].versions) :
                    trips[t].versions[k].writer \in {Elsewhere, Merged}})

(* The merge is saved on the latest revision; a conflict merges anew.      *)
ApplyMerge(b) ==
    /\ dialogs[b].phase = "merging"
    /\ LET t == dialogs[b].copy.trip IN
       /\ SavedOnline(t) < MaxOnline
       /\ trips' = [trips EXCEPT ![t] = UpdateItineraryAndCreateVersion(@, Merged, @.revision)]
    /\ SetDialog(b, [dialogs[b] EXCEPT !.phase = "merged"])
    /\ history' = [history EXCEPT !.decided = @ \cup {dialogs[b].copy.draft}]
    /\ UNCHANGED <<pending, entities, edits, passes, closedTabs>>

(* updateMutationRecord reads the record as it is now ...                  *)
ReadMerged(b) ==
    /\ dialogs[b].phase = "merged"
    /\ SetDialog(b, [dialogs[b] EXCEPT !.phase = "patching", !.copy = pending[dialogs[b].at]])
    /\ UNCHANGED <<trips, pending, entities, edits, passes, closedTabs, history>>

(* ... and puts it back patched: the end of a discard or of a merge.       *)
Patch(b) ==
    /\ dialogs[b].phase = "patching"
    /\ Put(dialogs[b].at, [dialogs[b].copy EXCEPT !.status = dialogs[b].patch])
    /\ SetDialog(b, IdleDialog)
    /\ history' = IF dialogs[b].patch = "discarded"
                  THEN [history EXCEPT !.decided = @ \cup {dialogs[b].copy.draft}]
                  ELSE history
    /\ UNCHANGED <<trips, entities, edits, passes, closedTabs>>

-----------------------------------------------------------------------------
(* The sync pass of a tab.                                                 *)

(* A broken variant, not part of the specification.                        *)
DueUnlessFinal == {m \in Ids : pending[m].status \notin FINAL_STATUSES}

DueForSync == {m \in Ids : /\ pending[m].status = "pending"
                           /\ pending[m].attemptCount < MAX_AUTOMATIC_ATTEMPTS}

(* The records of a pass, with their attempts, are listed once, at its     *)
(* start; companion changes go before itineraries, older before newer.     *)
StartPass(b) ==
    /\ passes[b].phase = "idle"
    /\ DueForSync # {}
    /\ SetPass(b, [IdlePass EXCEPT !.phase = "listed",
                      !.listed = [m \in DueForSync |-> pending[m].attemptCount]])
    /\ history' = [history EXCEPT !.unsure =
          @ \cup {m \in DueForSync : \E c \in Tabs : m \in DOMAIN passes[c].listed}]
    /\ UNCHANGED <<trips, pending, entities, edits, dialogs, closedTabs>>

Before(m, n) ==
    IF pending[m].kind = pending[n].kind THEN m <= n ELSE pending[m].kind = "create"

ReadNext(b) ==
    /\ passes[b].phase = "listed"
    /\ \E m \in DOMAIN passes[b].listed :
          /\ \A n \in DOMAIN passes[b].listed : Before(m, n)
          /\ SetPass(b, [passes[b] EXCEPT !.phase = "marking", !.at = m, !.copy = pending[m]])
    /\ UNCHANGED <<trips, pending, entities, edits, dialogs, closedTabs, history>>

MarkSyncing(b) ==
    LET m == passes[b].at
        record == [passes[b].copy EXCEPT !.status = "syncing",
                                         !.attemptCount = passes[b].listed[m] + 1]
    IN /\ passes[b].phase = "marking"
       /\ Put(m, record)
       /\ SetPass(b, [passes[b] EXCEPT !.phase = "sending", !.copy = record])
       /\ UNCHANGED <<trips, entities, edits, dialogs, closedTabs, history>>

(* A broken variant, not part of the specification.                        *)
AnswerWithoutOutcome(b, outcome) ==
    SetPass(b, [passes[b] EXCEPT !.phase = "answered", !.copy = NoCopy])

SyncAnswer(b, outcome) ==
    SetPass(b, [passes[b] EXCEPT !.phase = "answered", !.copy = NoCopy, !.outcome = outcome])

(* No connection, or an error that changed nothing on the server.          *)
SendFails(b) ==
    /\ passes[b].phase = "sending"
    /\ \E outcome \in {"pending", "failed"} : SyncAnswer(b, outcome)
    /\ UNCHANGED <<trips, pending, entities, edits, dialogs, closedTabs, history>>

(* A broken variant, not part of the specification.                        *)
AnsweredBeforeSaved(b) ==
    /\ passes[b].phase = "sending"
    /\ passes[b].copy.kind = "itinerary"
    /\ UNCHANGED trips
    /\ SyncAnswer(b, "synced")
    /\ UNCHANGED <<pending, entities, edits, dialogs, closedTabs, history>>

(* PUT /trips/{id}/itinerary with expectedItineraryRevision: saved, with   *)
(* the answer received or lost, or a conflict.                             *)
SendItinerary(b) ==
    LET copy == passes[b].copy
        row == trips[copy.trip]
    IN /\ passes[b].phase = "sending"
       /\ copy.kind = "itinerary"
       /\ IF RevisionMatches(row, copy.base)
          THEN /\ trips' = [trips EXCEPT ![copy.trip] =
                              UpdateItineraryAndCreateVersion(row, copy.draft, copy.base)]
               /\ \E outcome \in {"synced", "pending"} : SyncAnswer(b, outcome)
          ELSE UNCHANGED trips /\ SyncAnswer(b, "conflict")
       /\ UNCHANGED <<pending, entities, edits, dialogs, closedTabs, history>>

(* POST of a companion entity.  The server makes nothing of the metadata   *)
(* that names the record: each request that arrives creates an entity.     *)
SendCreate(b) ==
    LET m == passes[b].at IN
    /\ passes[b].phase = "sending"
    /\ passes[b].copy.kind = "create"
    /\ entities' = [entities EXCEPT ![m] = IF @ = 0 THEN 1 ELSE 2]
    /\ \E outcome \in {"synced", "pending"} :
          /\ SyncAnswer(b, outcome)
          /\ history' = IF outcome = "pending"
                        THEN [history EXCEPT !.unsure = @ \cup {m}] ELSE history
    /\ UNCHANGED <<trips, pending, edits, dialogs, closedTabs>>

ReadSent(b) ==
    /\ passes[b].phase = "answered"
    /\ SetPass(b, [passes[b] EXCEPT !.phase = "settling", !.copy = pending[passes[b].at]])
    /\ UNCHANGED <<trips, pending, entities, edits, dialogs, closedTabs, history>>

(* A broken variant, not part of the specification.                        *)
SettleUnlessOffline(b) ==
    /\ passes[b].phase = "settling"
    /\ passes[b].outcome = "pending"
    /\ SetPass(b, IdlePass)
    /\ UNCHANGED <<trips, pending, entities, edits, dialogs, closedTabs, history>>

(* The record gets its outcome; the pass goes on to the next one listed,   *)
(* unless the connection was lost.                                         *)
Settle(b) ==
    LET m == passes[b].at
        rest == [n \in DOMAIN passes[b].listed \ {m} |-> passes[b].listed[n]]
    IN /\ passes[b].phase = "settling"
       /\ Put(m, [passes[b].copy EXCEPT !.status = passes[b].outcome])
       /\ SetPass(b, IF passes[b].outcome = "pending" \/ DOMAIN rest = {} THEN IdlePass
                     ELSE [IdlePass EXCEPT !.phase = "listed", !.listed = rest])
       /\ UNCHANGED <<trips, entities, edits, dialogs, closedTabs, history>>

(* The tab is closed or reloaded: what it was doing is gone.               *)
CloseTab(b) ==
    /\ passes[b].phase # "idle" \/ (b \in Pages /\ dialogs[b].phase # "idle")
    /\ closedTabs < MaxClosedTabs
    /\ closedTabs' = closedTabs + 1
    /\ SetPass(b, IdlePass)
    /\ IF b \in Pages THEN SetDialog(b, IdleDialog) ELSE UNCHANGED dialogs
    /\ history' = [history EXCEPT !.abandoned = @ \cup ({passes[b].at} \ {0})]
    /\ UNCHANGED <<trips, pending, entities, edits>>

UpdateElsewhere(t) ==
    /\ SavedOnline(t) < MaxOnline
    /\ trips' = [trips EXCEPT ![t] = UpdateItineraryAndCreateVersion(@, Elsewhere, @.revision)]
    /\ UNCHANGED <<pending, entities, edits, passes, dialogs, closedTabs, history>>

OfflineNext ==
    \/ \E t \in Trips : enqueueCompanionMutation(t) \/ UpdateElsewhere(t)
    \/ \E b \in Pages :
          \/ \E t \in Trips : BeginSave(b, t)
          \/ \E m \in Ids : BeginDiscard(b, m) \/ OpenMerge(b, m)
          \/ FinishSave(b) \/ CloseMerge(b) \/ ApplyMerge(b) \/ ReadMerged(b) \/ Patch(b)
    \/ \E b \in Tabs :
          \/ StartPass(b) \/ ReadNext(b) \/ MarkSyncing(b)
          \/ SendFails(b) \/ SendItinerary(b) \/ SendCreate(b)
          \/ ReadSent(b) \/ Settle(b) \/ CloseTab(b)

OfflineSpec == OfflineInit /\ [][OfflineNext]_offlineVars

-----------------------------------------------------------------------------
OfflineTypeOK ==
    /\ trips \in [Trips -> TripRows(Nat \cup {Elsewhere, Merged})]
    /\ pending \in Seq(Mutation)
    /\ entities \in [Ids -> 0..2]
    /\ edits \in 0..MaxEdits
    /\ \A b \in Tabs : passes[b].at \in Ids \cup {0}
    /\ \A b \in Pages : dialogs[b].at \in Ids \cup {0}

OnServer(e) ==
    \E t \in Trips : \E k \in 1..Len(trips[t].versions) : trips[t].versions[k].writer = e

(* Edit e is still to be sent or waits for its user.                       *)
Queued(e) ==
    \E m \in Ids : pending[m].kind = "itinerary" /\ pending[m].draft = e
                   /\ pending[m].status \in ACTIVE_STATUSES

(* TripDetailPageContent.tsx tells the user who saved an edit: "Saved      *)
(* offline. Will sync when you are back online."  The edit stays in the    *)
(* queue until it is on the server, or until its user saved over it,       *)
(* merged it or discarded it.                                              *)
SavedEditsAreKept ==
    \A e \in 1..edits : OnServer(e) \/ Queued(e) \/ e \in history.decided

(* Lost answers, retries, conflicts, closed tabs and two tabs at the same  *)
(* queue lose no edit: the only way to lose one is to save it while its    *)
(* record is between a get and a put (enqueueItineraryUpdate,              *)
(* updateMutationRecord).                                                  *)
KeptUnlessRaced ==
    \A e \in 1..edits \ history.raced : OnServer(e) \/ Queued(e) \/ e \in history.decided

(* A replayed change takes effect once, however often the passes of any    *)
(* tab send it: an edit always, a creation unless an answer was lost or    *)
(* two tabs had listed the same record (syncMutation; syncLocks is per     *)
(* tab).                                                                   *)
DuplicatesExplained ==
    /\ \A t \in Trips : \A k, l \in 1..Len(trips[t].versions) :
          /\ trips[t].versions[k].writer \in Nat
          /\ trips[t].versions[k].writer = trips[t].versions[l].writer
          => k = l
    /\ \A m \in Ids : entities[m] > 1 => m \in history.unsure

(* A record says "syncing", and so is skipped by every pass and waits for  *)
(* nobody's decision, only while a pass is at it or when a tab was closed  *)
(* in the middle.                                                          *)
SyncingIsAttended ==
    \A m \in Ids : pending[m].status = "syncing" =>
        \/ \E b \in Tabs : passes[b].at = m
        \/ m \in history.abandoned
=============================================================================
