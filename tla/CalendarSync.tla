----------------------------- MODULE CalendarSync -----------------------------
(***************************************************************************)
(* A trip in its user's Google calendar.  Trip Service keeps a row per     *)
(* itinerary item that has a time, naming the event that stands for it; a  *)
(* sync deletes the events of items without a time, then updates or        *)
(* creates the others, through External Integrations Service, and only     *)
(* then writes its rows.  Nothing keeps the requests of two tabs apart.    *)
(* One trip and one user are modelled: rows and calendars are per user.    *)
(***************************************************************************)
EXTENDS CalendarConnections, FiniteSetsExt

CONSTANTS
    SyncKeys,          \* places in the itinerary (day-1-item-0, ...), in order
    MaxPlanRevision,   \* bound: edits of the itinerary
    MaxSyncs           \* bound: requests

ASSUME SyncAssumption ==
    /\ SyncKeys \subseteq Nat \ {0} /\ IsFiniteSet(SyncKeys)
    /\ MaxPlanRevision \in Nat /\ MaxSyncs \in Nat

VARIABLES
    plan,              \* the itinerary: its revision, the places with a time
    calendarRows,      \* the rows of trip_calendar_syncs
    events,            \* the events in Google's calendars, ever created
    syncs,             \* the requests under way
    syncCount,
    astray,            \* history: events that a fault, a refusal, another
                       \* account or overlapping requests may have lost
    partial            \* history: revisions whose sync was not completed alone

calendarVars == <<connectionVars, plan, calendarRows, events, syncs, syncCount,
                  astray, partial>>
tripVars == <<plan, calendarRows, events, syncs, syncCount, astray, partial>>

EventIds == 1..Len(events)
NoRow == [status |-> "none", event |-> 0, revision |-> 0]
SyncRows == [status : {"none", "active", "deleted"}, event : Nat, revision : Nat]
CalendarEvents == [key : SyncKeys, account : Accounts, revision : Nat, alive : BOOLEAN]

IdleSync == [kind |-> "none", phase |-> "none", call |-> "none", revision |-> 0, timed |-> {},
             seen |-> [k \in SyncKeys |-> 0], left |-> {}, results |-> [k \in SyncKeys |-> 0],
             crossed |-> FALSE]
SyncStates == [kind : {"none", "sync", "remove", "freebusy"},
               phase : {"none", "read", "calling", "answered"},
               call : {"none", "delete", "write", "freebusy"},
               revision : Nat, timed : SUBSET SyncKeys, seen : [SyncKeys -> Nat],
               left : SUBSET SyncKeys, results : [SyncKeys -> Nat], crossed : BOOLEAN]

CalendarInit ==
    /\ ConnectionInit
    /\ plan \in [revision : {1}, timed : SUBSET SyncKeys]
    /\ calendarRows = [k \in SyncKeys |-> NoRow]
    /\ events = << >>
    /\ syncs = [r \in CalendarRequests |-> IdleSync]
    /\ syncCount = 0
    /\ astray = {}
    /\ partial = {}

Active(k) == calendarRows[k].status = "active"

(* A broken variant, not part of the specification.                        *)
OutdatedOnly(s) == {k \in SyncKeys : s.seen[k] # 0 /\ k \notin s.timed}

(* The listed rows whose items have a time no more; a removal takes all.   *)
Outdated(s) ==
    {k \in SyncKeys : s.seen[k] # 0 /\ (s.kind = "remove" \/ k \notin s.timed)}

(* What a request has changed in the calendar and not yet in its rows, or  *)
(* is about to.                                                            *)
InHand(r) ==
    {syncs[r].results[k] : k \in SyncKeys} \cup {syncs[r].seen[k] : k \in Outdated(syncs[r])}

Busy == {r \in CalendarRequests : syncs[r].kind \in {"sync", "remove"}}

Incomplete(r) == partial' = partial \cup {syncs[r].revision}
SyncEnds(r) ==
    /\ syncs' = [syncs EXCEPT ![r] = IdleSync]
    /\ fetches' = [fetches EXCEPT ![r] = NoFetch]
    /\ UNCHANGED <<connection, flows, expiries>>

(* The request calls External Integrations, which fetches a token first.   *)
Calls(r, s, call, keys) ==
    /\ syncs' = [syncs EXCEPT ![r] = [s EXCEPT !.phase = "calling", !.call = call, !.left = keys]]
    /\ fetches' = [fetches EXCEPT ![r] = [phase |-> "asked", account |-> NoAccount]]
    /\ UNCHANGED <<connection, flows, expiries, calendarFaults>>

-----------------------------------------------------------------------------
(* The trip, and the requests.                                             *)

(* An edit of the itinerary may give items a time, or take it away.        *)
EditPlan ==
    /\ plan.revision < MaxPlanRevision
    /\ \E timed \in SUBSET SyncKeys :
          plan' = [revision |-> plan.revision + 1, timed |-> timed]
    /\ UNCHANGED <<connectionVars, calendarRows, events, syncs, syncCount, astray, partial>>

(* The page asks for the revision it shows, and so the one that is read,   *)
(* or is refused.                                                          *)
BeginSync(r, kind) ==
    /\ syncs[r].kind = "none"
    /\ syncCount < MaxSyncs
    /\ syncCount' = syncCount + 1
    /\ syncs' = [q \in CalendarRequests |->
          CASE q = r -> [IdleSync EXCEPT !.kind = kind, !.phase = "read",
                                         !.revision = plan.revision, !.timed = plan.timed,
                                         !.crossed = Busy # {}]
            [] q \in Busy -> [syncs[q] EXCEPT !.crossed = TRUE]
            [] OTHER -> syncs[q]]
    /\ astray' = astray \cup UNION {InHand(q) : q \in Busy}
    /\ partial' = IF Busy = {} THEN partial
                  ELSE partial \cup {plan.revision} \cup {syncs[q].revision : q \in Busy}
    /\ UNCHANGED <<connectionVars, plan, calendarRows, events>>

(* A broken variant, not part of the specification.                        *)
NewItems(s) == {k \in s.timed : s.seen[k] = 0}

(* BuildEvents: every item with a time, whether it has an event or not.    *)
ItemsToWrite(s) == s.timed

(* After the deletions, or without any.                                    *)
GoOnWriting(r, s) ==
    IF s.kind = "sync" /\ s.timed # {}
    THEN Calls(r, s, "write", ItemsToWrite(s))
    ELSE SyncEnds(r) /\ UNCHANGED calendarFaults

ListTripCalendarSyncs(r) ==
    LET listed == [syncs[r] EXCEPT !.seen =
            [k \in SyncKeys |-> IF Active(k) THEN calendarRows[k].event ELSE 0]]
    IN /\ syncs[r].phase = "read"
       /\ IF Outdated(listed) # {} THEN Calls(r, listed, "delete", Outdated(listed))
          ELSE IF syncs[r].kind = "sync" THEN GoOnWriting(r, listed)
          ELSE /\ syncs' = [syncs EXCEPT ![r] = [listed EXCEPT !.phase = "answered", !.call = "delete"]]
               /\ UNCHANGED connectionVars
       /\ UNCHANGED <<plan, calendarRows, events, syncCount, astray, partial>>

(* Without a token the whole call is refused, and the request ends.        *)
CallRefused(r) ==
    /\ r \in Busy
    /\ syncs[r].phase = "calling" /\ fetches[r].phase = "failed"
    /\ SyncEnds(r)
    /\ Incomplete(r)
    /\ UNCHANGED <<plan, calendarRows, events, syncCount, astray, calendarFaults>>

-----------------------------------------------------------------------------
(* External Integrations: the items of a call, one after the other.        *)

AtItem(r, call, k) ==
    /\ syncs[r].phase = "calling" /\ syncs[r].call = call
    /\ fetches[r].phase = "have"
    /\ syncs[r].left # {}
    /\ k = Min(syncs[r].left)

Reachable(r, e) == events[e].alive /\ events[e].account = fetches[r].account
Astray(r, lost, e) == astray' = IF lost \/ syncs[r].crossed THEN astray \cup {e} ELSE astray

(* 404 and 410 count as deleted, also where the event is another           *)
(* account's.  A limit, or the provider, may refuse.                       *)
DeleteEvent(r, k) ==
    LET e == syncs[r].seen[k] IN
    /\ AtItem(r, "delete", k)
    /\ syncs' = [syncs EXCEPT ![r].left = @ \ {k}]
    /\ \/ /\ events' = IF Reachable(r, e) THEN [events EXCEPT ![e].alive = FALSE] ELSE events
          /\ Astray(r, events[e].account # fetches[r].account, e)
          /\ UNCHANGED calendarFaults
       \/ /\ CalendarFault
          /\ UNCHANGED events
          /\ Astray(r, TRUE, e)
    /\ UNCHANGED <<connection, flows, fetches, expiries, plan, calendarRows, syncCount, partial>>

(* A refused item is reported as failed, and an answer may be lost.        *)
ItemFails(r, k) ==
    /\ CalendarFault
    /\ syncs' = [syncs EXCEPT ![r].left = @ \ {k}]
    /\ Incomplete(r)

UpdateEvent(r, k) ==
    LET e == syncs[r].seen[k] IN
    /\ AtItem(r, "write", k) /\ e # 0
    /\ \/ /\ Reachable(r, e)
          /\ events' = [events EXCEPT ![e].revision = syncs[r].revision]
          /\ \/ /\ syncs' = [syncs EXCEPT ![r].left = @ \ {k}, ![r].results[k] = e]
                /\ UNCHANGED <<partial, calendarFaults>>
             \/ ItemFails(r, k)
       \/ ItemFails(r, k) /\ UNCHANGED events
       \/ /\ ~Reachable(r, e)
          /\ syncs' = [syncs EXCEPT ![r].left = @ \ {k}]
          /\ Incomplete(r)
          /\ UNCHANGED <<events, calendarFaults>>
    /\ UNCHANGED <<connection, flows, fetches, expiries, plan, calendarRows, syncCount, astray>>

CreateEvent(r, k) ==
    LET e == Len(events) + 1
        created == Append(events, [key |-> k, account |-> fetches[r].account,
                                   revision |-> syncs[r].revision, alive |-> TRUE])
    IN /\ AtItem(r, "write", k) /\ syncs[r].seen[k] = 0
       /\ \/ /\ events' = created
             /\ syncs' = [syncs EXCEPT ![r].left = @ \ {k}, ![r].results[k] = e]
             /\ Astray(r, FALSE, e)
             /\ UNCHANGED <<partial, calendarFaults>>
          \/ ItemFails(r, k) /\ events' = created /\ Astray(r, TRUE, e)
          \/ ItemFails(r, k) /\ UNCHANGED <<events, astray>>
       /\ UNCHANGED <<connection, flows, fetches, expiries, plan, calendarRows, syncCount>>

Answer(r) ==
    /\ syncs[r].phase = "calling" /\ syncs[r].call \in {"delete", "write"}
    /\ fetches[r].phase = "have" /\ syncs[r].left = {}
    /\ syncs' = [syncs EXCEPT ![r].phase = "answered", ![r].left =
          IF syncs[r].call = "delete" THEN Outdated(syncs[r])
          ELSE {k \in SyncKeys : syncs[r].results[k] # 0}]
    /\ fetches' = [fetches EXCEPT ![r] = NoFetch]
    /\ UNCHANGED <<connection, flows, expiries, calendarFaults, plan, calendarRows, events,
                   syncCount, astray, partial>>

-----------------------------------------------------------------------------
(* Trip Service: the rows, after the answer.                               *)

(* Whatever was answered for the event.                                    *)
MarkTripCalendarSyncDeleted(r, k) ==
    /\ syncs[r].phase = "answered" /\ syncs[r].call = "delete" /\ syncs[r].kind = "sync"
    /\ syncs[r].left # {} /\ k = Min(syncs[r].left)
    /\ calendarRows' = [calendarRows EXCEPT ![k].status = "deleted"]
    /\ LET rest == [syncs[r] EXCEPT !.left = @ \ {k}] IN
       IF rest.left # {} THEN syncs' = [syncs EXCEPT ![r] = rest] /\ UNCHANGED connectionVars
       ELSE GoOnWriting(r, rest)
    /\ UNCHANGED <<plan, events, syncCount, astray, partial>>

(* All active rows, also those written since the rows were listed.         *)
MarkAllTripCalendarSyncsDeleted(r) ==
    /\ syncs[r].phase = "answered" /\ syncs[r].kind = "remove"
    /\ calendarRows' = [k \in SyncKeys |->
          IF Active(k) THEN [calendarRows[k] EXCEPT !.status = "deleted"] ELSE calendarRows[k]]
    /\ SyncEnds(r)
    /\ UNCHANGED <<plan, events, syncCount, astray, partial, calendarFaults>>

UpsertTripCalendarSync(r, k) ==
    /\ syncs[r].phase = "answered" /\ syncs[r].call = "write"
    /\ syncs[r].left # {} /\ k = Min(syncs[r].left)
    /\ calendarRows' = [calendarRows EXCEPT ![k] =
          [status |-> "active", event |-> syncs[r].results[k], revision |-> syncs[r].revision]]
    /\ syncs' = [syncs EXCEPT ![r].left = @ \ {k}, ![r].results[k] = 0]
    /\ UNCHANGED <<connectionVars, plan, events, syncCount, astray, partial>>

SyncReturns(r) ==
    /\ syncs[r].phase = "answered" /\ syncs[r].call = "write" /\ syncs[r].left = {}
    /\ SyncEnds(r)
    /\ UNCHANGED <<plan, calendarRows, events, syncCount, astray, partial, calendarFaults>>

(* A statement fails, the answer of the call is lost or late, or a process *)
(* stops.                                                                  *)
SyncFails(r) ==
    /\ r \in Busy
    /\ CalendarFault
    /\ SyncEnds(r)
    /\ Incomplete(r)
    /\ astray' = astray \cup InHand(r)
    /\ UNCHANGED <<plan, calendarRows, events, syncCount>>

-----------------------------------------------------------------------------
(* A look at the user's free and busy times uses the same connection; a    *)
(* refused token (401, 403) disconnects it.                                *)

BeginFreeBusy(r) ==
    /\ syncs[r].kind = "none"
    /\ syncCount < MaxSyncs
    /\ syncCount' = syncCount + 1
    /\ Calls(r, [IdleSync EXCEPT !.kind = "freebusy"], "freebusy", {})
    /\ UNCHANGED <<plan, calendarRows, events, astray, partial>>

GetFreeBusy(r) ==
    /\ syncs[r].call = "freebusy"
    /\ fetches[r].phase \in {"have", "failed"}
    /\ syncs' = [syncs EXCEPT ![r] = IdleSync]
    /\ fetches' = [fetches EXCEPT ![r] = NoFetch]
    /\ \/ UNCHANGED <<connection, calendarFaults>>
       \/ fetches[r].phase = "have" /\ CalendarFault /\ connection' = Disconnected
    /\ UNCHANGED <<flows, expiries, plan, calendarRows, events, syncCount, astray, partial>>

CalendarNext ==
    \/ ConnectionNext /\ UNCHANGED tripVars
    \/ EditPlan
    \/ \E r \in CalendarRequests :
          \/ BeginSync(r, "sync") \/ BeginSync(r, "remove") \/ ListTripCalendarSyncs(r)
          \/ CallRefused(r) \/ Answer(r) \/ SyncReturns(r) \/ SyncFails(r)
          \/ MarkAllTripCalendarSyncsDeleted(r) \/ BeginFreeBusy(r) \/ GetFreeBusy(r)
          \/ \E k \in SyncKeys :
                \/ DeleteEvent(r, k) \/ UpdateEvent(r, k) \/ CreateEvent(r, k)
                \/ MarkTripCalendarSyncDeleted(r, k) \/ UpsertTripCalendarSync(r, k)

CalendarSpec == CalendarInit /\ [][CalendarNext]_calendarVars

-----------------------------------------------------------------------------
CalendarTypeOK ==
    /\ ConnectionTypeOK
    /\ plan \in [revision : Nat, timed : SUBSET SyncKeys]
    /\ calendarRows \in [SyncKeys -> SyncRows]
    /\ events \in Seq(CalendarEvents)
    /\ syncs \in [CalendarRequests -> SyncStates]
    /\ \A k \in SyncKeys : calendarRows[k].event \in {0} \cup EventIds

(* Every event in the user's calendars is one that its item's row leads    *)
(* to, or that a request is about to record or remove; and an active row   *)
(* leads to an event that exists.  The exceptions are the events touched   *)
(* by overlapping requests, by a failed one, or through another account    *)
(* (SyncTripToGoogleCalendar, RemoveTripGoogleCalendarSync).               *)
EventsAreKnown ==
    LET handled == astray \cup UNION {InHand(r) : r \in Busy} IN
    /\ \A e \in EventIds \ handled : events[e].alive =>
          LET row == calendarRows[events[e].key] IN row.status = "active" /\ row.event = e
    /\ \A k \in SyncKeys : Active(k) =>
          calendarRows[k].event \in handled \/ events[calendarRows[k].event].alive

SyncedRevision == Max({calendarRows[k].revision : k \in {j \in SyncKeys : Active(j)}})

(* A trip that the page shows as synced and not out of date has an event   *)
(* with the current content for every item with a time, unless the sync of *)
(* that revision reported failures or overlapped another request           *)
(* (GetTripCalendarSyncStatus takes the largest revision).  It has no      *)
(* other event but those astray: what a refused or failed deletion, a      *)
(* lost answer, overlapping requests or another account left behind, which *)
(* the page does not know of (MarkTripCalendarSyncDeleted).                *)
InSyncMeansSynced ==
    /\ Busy = {}
    /\ \E k \in SyncKeys : Active(k)
    /\ SyncedRevision >= plan.revision
    /\ plan.revision \notin partial
    => /\ {k \in SyncKeys : Active(k)} = plan.timed
       /\ \A k \in plan.timed :
             LET e == events[calendarRows[k].event] IN e.alive /\ e.revision = plan.revision
       /\ \A e \in EventIds \ astray : events[e].alive =>
             events[e].key \in plan.timed /\ calendarRows[events[e].key].event = e
=============================================================================
