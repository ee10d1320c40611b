------------------------------ MODULE Reminders ------------------------------
(***************************************************************************)
(* The reminders of one trip: editors generate them from the plan, travel  *)
(* companions complete, reopen, disable and enable them, and Worker        *)
(* Service polls for the due ones, which Trip Service reports one by one   *)
(* to Notification Service and marks sent or failed.  No lock joins a pass *)
(* to another pass, or a generation to another.  Notification Service      *)
(* claims each report before it inserts the notification, and drops what   *)
(* is claimed already (NotificationDedupe); the recipients of a reminder   *)
(* are taken as one, who may have muted its notifications.                 *)
(***************************************************************************)
EXTENDS Integers, Sequences, FiniteSets

CONSTANTS
    Keys,              \* what a reminder is about (reminderDuplicateKey)
    Passes,            \* passes of ProcessDueTripReminders under way
    Generators,        \* editors who generate at a time
    MaxReminders,      \* bound: rows ever inserted
    MaxClicks,         \* bound: decisions of users
    MaxNotified        \* bound: notifications of one reminder

ASSUME ReminderAssumption ==
    MaxReminders \in Nat /\ MaxClicks \in Nat /\ MaxNotified \in Nat

VARIABLES
    reminders,         \* the rows of trip_reminders
    passes,            \* what each pass still has to handle
    generators,        \* what each generation is doing
    clicks,            \* decisions of users so far
    resent,            \* history: rows that may be reported once more, since
                       \* two passes had them in hand or a pass failed
    expired,           \* history: rows whose claim was over the window once
    silent,            \* history: rows claimed by a report that came to no
                       \* notification: it was muted, or failed afterwards
    doubled            \* history: keys inserted by a generation that overlapped
                       \* another
reminderVars == <<reminders, passes, generators, clicks, resent, expired, silent, doubled>>
reportVars == <<expired, silent>>

ReminderStatuses == {"pending", "sent", "failed", "completed", "disabled"}

(* due: its trigger time has come.  decided: history, the status a user    *)
(* last gave it.  armed, notified: history, how often it was made pending  *)
(* and how often its notification went out.  claim: what Notification      *)
(* Service has in its ledger for the reminder and its recipient.           *)
ReminderRows ==
    [key : Keys, status : ReminderStatuses, due : BOOLEAN, deleted : BOOLEAN,
     decided : {"pending", "completed", "disabled"}, armed : Nat, notified : Nat,
     claim : {"free", "open", "delivered", "empty"}]
ReminderIds == 1..Len(reminders)

NewReminder(key) ==
    [key |-> key, status |-> "pending", due |-> FALSE, deleted |-> FALSE,
     decided |-> "pending", armed |-> 1, notified |-> 0, claim |-> "free"]

NoPass == [rest |-> {}, current |-> 0, answer |-> "none"]
NoGeneration == [phase |-> "none", left |-> {}, crossed |-> FALSE]

ReminderInit ==
    /\ reminders = << >>
    /\ passes = [p \in Passes |-> NoPass]
    /\ generators = [g \in Generators |-> NoGeneration]
    /\ clicks = 0
    /\ resent = {} /\ expired = {} /\ silent = {} /\ doubled = {}

SetReminder(k, row) == reminders' = [reminders EXCEPT ![k] = row]

-----------------------------------------------------------------------------
(* GenerateTripReminders.                                                  *)

UnderWay == {g \in Generators : generators[g].phase # "none"}

BeginGeneration(g) ==
    /\ generators[g] = NoGeneration
    /\ Len(reminders) < MaxReminders
    /\ generators' = [h \in Generators |->
          IF h = g THEN [NoGeneration EXCEPT !.phase = "begun", !.crossed = UnderWay # {}]
          ELSE IF h \in UnderWay THEN [generators[h] EXCEPT !.crossed = TRUE]
          ELSE generators[h]]
    /\ UNCHANGED <<reminders, passes, clicks, resent, reportVars, doubled>>

(* Replacing gives up the pending ones first.                              *)
DeleteGeneratedPendingRemindersForTrip(g) ==
    /\ generators[g].phase = "begun"
    /\ \E replace \in BOOLEAN :
          reminders' = [k \in ReminderIds |->
              IF replace /\ reminders[k].status = "pending"
              THEN [reminders[k] EXCEPT !.deleted = TRUE] ELSE reminders[k]]
    /\ generators' = [generators EXCEPT ![g].phase = "listing"]
    /\ UNCHANGED <<passes, clicks, resent, reportVars, doubled>>

(* mergeReminderCandidates drops what a live reminder is already about,    *)
(* whatever its status.                                                    *)
duplicate(key) == \E k \in ReminderIds : reminders[k].key = key /\ ~reminders[k].deleted

ListTripRemindersByTrip(g) ==
    /\ generators[g].phase = "listing"
    /\ generators' = [generators EXCEPT ![g].phase = "creating",
                                         ![g].left = {key \in Keys : ~duplicate(key)}]
    /\ UNCHANGED <<reminders, passes, clicks, resent, reportVars, doubled>>

BatchCreateTripReminders(g) ==
    /\ generators[g].phase = "creating"
    /\ \E key \in generators[g].left :
          /\ Len(reminders) < MaxReminders
          /\ reminders' = Append(reminders, NewReminder(key))
          /\ generators' = [generators EXCEPT ![g].left = @ \ {key}]
          /\ doubled' = IF generators[g].crossed THEN doubled \cup {key} ELSE doubled
    /\ UNCHANGED <<passes, clicks, resent, reportVars>>

(* All created, or a statement failed: those created so far stay.          *)
GenerationEnds(g) ==
    /\ generators[g].phase # "none"
    /\ generators' = [generators EXCEPT ![g] = NoGeneration]
    /\ UNCHANGED <<reminders, passes, clicks, resent, reportVars, doubled>>

-----------------------------------------------------------------------------
(* ProcessDueTripReminders.                                                *)

(* Broken variants, not part of the specification: the checks must notice  *)
(* each of them when it takes the place of the definition it resembles.    *)
DueAgain(row) == row.status \in {"pending", "sent"} /\ row.due /\ ~row.deleted
MarkedAnyway(row, status) == IF row.deleted THEN row ELSE [row EXCEPT !.status = status]

Due(row) == row.status = "pending" /\ row.due /\ ~row.deleted

InHand(k) == \E p \in Passes : k \in passes[p].rest \/ passes[p].current = k

ListDueTripReminders(p) ==
    LET due == {k \in ReminderIds : Due(reminders[k])}
    IN /\ passes[p] = NoPass
       /\ due # {}
       /\ passes' = [passes EXCEPT ![p].rest = due]
       /\ resent' = resent \cup {k \in due : InHand(k)}
       /\ UNCHANGED <<reminders, generators, clicks, reportVars, doubled>>

(* processOneDueReminder: Notification Service is not reached (or there is *)
(* no recipient, or its answer is lost), or it claims the report, or drops *)
(* it as a duplicate, which is an answer like any other.                   *)
CreateNotifications(p) ==
    /\ passes[p].current = 0
    /\ \E k \in passes[p].rest :
          \E answer \in {"no", IF reminders[k].claim = "free" THEN "waiting" ELSE "yes"} :
             /\ passes' = [passes EXCEPT ![p] = [rest |-> @.rest \ {k}, current |-> k,
                                                 answer |-> answer]]
             /\ IF answer = "waiting" THEN SetReminder(k, [reminders[k] EXCEPT !.claim = "open"])
                ELSE UNCHANGED reminders
    /\ UNCHANGED <<generators, clicks, resent, reportVars, doubled>>

AnswerTo(k, answer) ==
    passes' = [p \in Passes |-> IF passes[p].current = k /\ passes[p].answer = "waiting"
                                THEN [passes[p] EXCEPT !.answer = answer] ELSE passes[p]]

(* After the claim: the notification is inserted, kept back by the         *)
(* recipient's preferences, or its statement fails.                        *)
InsertNotification(k) ==
    /\ reminders[k].claim = "open"
    /\ \/ /\ reminders[k].notified < MaxNotified
          /\ SetReminder(k, [reminders[k] EXCEPT !.notified = @ + 1, !.claim = "delivered"])
          /\ AnswerTo(k, "yes")
          /\ UNCHANGED silent
       \/ /\ SetReminder(k, [reminders[k] EXCEPT !.claim = "empty"])
          /\ \E answer \in {"yes", "no"} : AnswerTo(k, answer)
          /\ silent' = silent \cup {k}
    /\ UNCHANGED <<generators, clicks, resent, expired, doubled>>

(* The request times out, or its answer is lost; the report goes on.       *)
ReportTimesOut(p) ==
    /\ passes[p].answer = "waiting"
    /\ passes' = [passes EXCEPT ![p].answer = "no"]
    /\ resent' = resent \cup {passes[p].current}
    /\ UNCHANGED <<reminders, generators, clicks, reportVars, doubled>>

(* No report for the length of the window; a report takes far less.        *)
ClaimExpires(k) ==
    /\ reminders[k].claim \in {"delivered", "empty"}
    /\ SetReminder(k, [reminders[k] EXCEPT !.claim = "free"])
    /\ expired' = expired \cup {k}
    /\ UNCHANGED <<passes, generators, clicks, resent, silent, doubled>>

(* A broken variant, not part of the specification.                        *)
SentAnyway(answer) == "sent"

StatusAfter(answer) == IF answer = "yes" THEN "sent" ELSE "failed"

(* WHERE status = pending AND deleted_at IS NULL.                          *)
Marked(row, status) ==
    IF row.status = "pending" /\ ~row.deleted THEN [row EXCEPT !.status = status] ELSE row

MarkTripReminder(p) ==
    LET k == passes[p].current IN
    /\ passes[p].answer \in {"yes", "no"}
    /\ SetReminder(k, Marked(reminders[k], StatusAfter(passes[p].answer)))
    /\ passes' = [passes EXCEPT ![p].current = 0, ![p].answer = "none"]
    /\ UNCHANGED <<generators, clicks, resent, reportVars, doubled>>

(* A marking that fails is logged, and the pass goes on: the reminder is   *)
(* due again.                                                              *)
MarkFails(p) ==
    /\ passes[p].answer \in {"yes", "no"}
    /\ resent' = resent \cup {passes[p].current}
    /\ passes' = [passes EXCEPT ![p].current = 0, ![p].answer = "none"]
    /\ UNCHANGED <<reminders, generators, clicks, reportVars, doubled>>

(* The process ends, and what the pass had in hand is due again.           *)
PassStops(p) ==
    /\ passes[p] # NoPass
    /\ resent' = IF passes[p].current = 0 THEN resent ELSE resent \cup {passes[p].current}
    /\ passes' = [passes EXCEPT ![p] = NoPass]
    /\ UNCHANGED <<reminders, generators, clicks, reportVars, doubled>>

PassOver(p) ==
    /\ passes[p] # NoPass
    /\ passes[p].rest = {} /\ passes[p].current = 0
    /\ passes' = [passes EXCEPT ![p] = NoPass]
    /\ UNCHANGED <<reminders, generators, clicks, resent, reportVars, doubled>>

-----------------------------------------------------------------------------
(* Users decide; each decision is one statement, by id alone.              *)

Click(k, row) ==
    /\ clicks < MaxClicks
    /\ clicks' = clicks + 1
    /\ ~reminders[k].deleted
    /\ SetReminder(k, row)
    /\ UNCHANGED <<passes, generators, reportVars, doubled>>

CompleteTripReminder(k) ==
    /\ Click(k, [reminders[k] EXCEPT !.status = "completed", !.decided = "completed"])
    /\ UNCHANGED resent
DisableTripReminder(k) ==
    /\ Click(k, [reminders[k] EXCEPT !.status = "disabled", !.decided = "disabled"])
    /\ UNCHANGED resent

(* Reopening and enabling make any reminder pending, a sent one included.  *)
RearmTripReminder(k) ==
    /\ Click(k, [reminders[k] EXCEPT !.status = "pending", !.decided = "pending", !.armed = @ + 1])
    /\ resent' = IF InHand(k) THEN resent \cup {k} ELSE resent

SoftDeleteTripReminder(k) ==
    /\ Click(k, [reminders[k] EXCEPT !.deleted = TRUE])
    /\ UNCHANGED resent

(* The trigger date is changed to a later one.                             *)
PostponeTripReminder(k) ==
    /\ reminders[k].due
    /\ Click(k, [reminders[k] EXCEPT !.due = FALSE])
    /\ UNCHANGED resent

TriggerTimeComes(k) ==
    /\ ~reminders[k].due /\ ~reminders[k].deleted
    /\ SetReminder(k, [reminders[k] EXCEPT !.due = TRUE])
    /\ UNCHANGED <<passes, generators, clicks, resent, reportVars, doubled>>

ReminderNext ==
    \/ \E g \in Generators :
          \/ BeginGeneration(g) \/ DeleteGeneratedPendingRemindersForTrip(g)
          \/ ListTripRemindersByTrip(g) \/ BatchCreateTripReminders(g) \/ GenerationEnds(g)
    \/ \E p \in Passes :
          \/ ListDueTripReminders(p) \/ CreateNotifications(p) \/ MarkTripReminder(p)
          \/ ReportTimesOut(p) \/ MarkFails(p) \/ PassStops(p) \/ PassOver(p)
    \/ \E k \in ReminderIds :
          \/ InsertNotification(k) \/ ClaimExpires(k)
          \/ CompleteTripReminder(k) \/ DisableTripReminder(k) \/ RearmTripReminder(k)
          \/ SoftDeleteTripReminder(k) \/ PostponeTripReminder(k) \/ TriggerTimeComes(k)

ReminderSpec == ReminderInit /\ [][ReminderNext]_reminderVars

-----------------------------------------------------------------------------
ReminderTypeOK ==
    /\ reminders \in Seq(ReminderRows)
    /\ passes \in [Passes -> [rest : SUBSET ReminderIds, current : {0} \cup ReminderIds,
                              answer : {"none", "waiting", "yes", "no"}]]
    /\ generators \in [Generators -> [phase : {"none", "begun", "listing", "creating"},
                                      left : SUBSET Keys, crossed : BOOLEAN]]
    /\ clicks \in Nat
    /\ resent \subseteq ReminderIds /\ expired \subseteq ReminderIds
    /\ silent \subseteq ReminderIds /\ doubled \subseteq Keys

(* A pass that notified while the user completed or disabled the reminder  *)
(* does not overwrite the decision (MarkTripReminderSent).                 *)
DecisionsStand ==
    \A k \in ReminderIds :
        reminders[k].decided # "pending" => reminders[k].status = reminders[k].decided

(* A reminder that is marked sent has gone out, or is about to, unless a   *)
(* report of it was muted or failed after its claim, which also swallows   *)
(* the reports that follow within the window: duplicates are answered like *)
(* notifications (ProcessDueTripReminders, and Notification Service's      *)
(* CreateNotifications).                                                   *)
SentHasGoneOut ==
    \A k \in ReminderIds :
        reminders[k].status = "sent" /\ k \notin silent =>
            reminders[k].notified > 0 \/ reminders[k].claim = "open"

(* It goes out at most once for each time it was made pending.  More takes *)
(* both: two passes had it in hand or a report or its mark failed, and a   *)
(* claim of it was over the window.                                        *)
GoesOutOnce ==
    \A k \in ReminderIds :
        k \in resent \cap expired \/ reminders[k].notified =< reminders[k].armed

(* Nothing has two live reminders, unless it was generated by editors at   *)
(* the same time (mergeReminderCandidates).                                *)
OneReminderEach ==
    \A j, k \in ReminderIds :
        /\ reminders[j].key = reminders[k].key
        /\ ~reminders[j].deleted /\ ~reminders[k].deleted
        /\ reminders[k].key \notin doubled
        => j = k

(* What travel companions are reminded of is neither lost nor repeated,    *)
(* but for these (GenerateTripReminders, ProcessDueTripReminders).         *)
NotifiedOnceUnlessOverlapped == SentHasGoneOut /\ GoesOutOnce /\ OneReminderEach
=============================================================================
