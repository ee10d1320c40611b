-------------------------- MODULE NotificationDedupe --------------------------
(***************************************************************************)
(* How Notification Service keeps an event that several callers report, or *)
(* report again, to one notification: a batch claims the event's dedupe    *)
(* key in the ledger notification_event_dedupes, then groups the event     *)
(* with a recent notification or inserts one, and links the ledger to it.  *)
(* These are statements of their own, and their times are the clock as it  *)
(* was when the batch arrived.  The ledger of one user and key is          *)
(* modelled, with the notifications of its digest key.                     *)
(***************************************************************************)
EXTENDS Integers, Sequences

CONSTANTS
    Callers,          \* batches under way at a time
    DedupeWindow,
    GroupingWindow,
    ClaimDelay,       \* how long a batch takes at most: the callers'
                      \* request timeout, far below the windows
    MaxMinute,        \* bound: the clock
    MaxBatches,       \* bound: batches ever received
    MaxNotifications  \* bound: notifications ever inserted

ASSUME DedupeAssumption ==
    /\ DedupeWindow \in Nat \ {0} /\ GroupingWindow \in Nat \ {0} /\ ClaimDelay \in Nat
    /\ MaxMinute \in Nat /\ MaxBatches \in Nat /\ MaxNotifications \in Nat

VARIABLES
    minute,
    ledger,           \* the key's row, or Unclaimed; its link is 0 for none
    notifications,    \* the notifications of the digest key, ever inserted
    batch,            \* the batch of each of Callers
    received,         \* batches so far
    wins              \* history: the times of the claims that were no
                      \* duplicates: each is delivered in-app or by email

dedupeVars == <<minute, ledger, notifications, batch, received, wins>>

Unclaimed == [latest |-> 0, link |-> 0]
NotificationRows == [latest : Nat, groupable : BOOLEAN, deleted : BOOLEAN]
NotificationIds == 1..Len(notifications)

NoBatch == [phase |-> "none", time |-> 0, groupable |-> FALSE, row |-> 0]
Batches == [phase : {"none", "arrived", "won", "duplicate", "related", "linking", "creating", "binding", "closing"},
            time : Nat, groupable : BOOLEAN, row : Nat]

DedupeInit ==
    /\ minute = 1
    /\ ledger = Unclaimed
    /\ notifications = << >>
    /\ batch = [c \in Callers |-> NoBatch]
    /\ received = 0
    /\ wins = << >>

PassOn(c, phase) == batch' = [batch EXCEPT ![c].phase = phase]
Answered(c) == batch' = [batch EXCEPT ![c] = NoBatch]

(* A duplicate that was dropped leaves no trace in the batch, which may    *)
(* hold the event once more.                                               *)
Dropped(c) == Answered(c) \/ batch' = [batch EXCEPT ![c].phase = "arrived", ![c].row = 0]

-----------------------------------------------------------------------------
(* A batch with the event arrives, of a priority that may be grouped or    *)
(* not; the clock is read once.                                            *)
CreateBatch(c) ==
    /\ batch[c] = NoBatch
    /\ received < MaxBatches
    /\ received' = received + 1
    /\ \E groupable \in BOOLEAN :
          batch' = [batch EXCEPT ![c] = [phase |-> "arrived", time |-> minute,
                                         groupable |-> groupable, row |-> 0]]
    /\ UNCHANGED <<minute, ledger, notifications, wins>>

(* A broken variant, not part of the specification.                        *)
RecentExclusive(latest, time) == latest > time - DedupeWindow

(* CASE WHEN latest_event_at < $4 THEN NULL.                               *)
Recent(latest, time) == latest >= time - DedupeWindow

IsDuplicate(time) == ledger # Unclaimed /\ Recent(ledger.latest, time)
Claimed(time) == [latest |-> time, link |-> IF IsDuplicate(time) THEN ledger.link ELSE 0]

(* The claim commits at once, whatever becomes of its batch.  A duplicate  *)
(* of a notification is counted there, any other is dropped.               *)
ClaimNotificationDedupe(c) ==
    LET time == batch[c].time IN
    /\ batch[c].phase = "arrived"
    /\ ledger' = Claimed(time)
    /\ IF ~IsDuplicate(time)
       THEN PassOn(c, "won") /\ wins' = Append(wins, time)
       ELSE /\ UNCHANGED wins
            /\ IF ledger.link = 0 THEN Dropped(c)
               ELSE batch' = [batch EXCEPT ![c].phase = "duplicate", ![c].row = ledger.link]
    /\ UNCHANGED <<minute, notifications, received>>

(* The batch holds the event again: it is claimed again and merged in      *)
(* memory, whatever the claim says.                                        *)
ClaimAgain(c) ==
    /\ batch[c].phase \in {"creating", "closing"}
    /\ ledger' = Claimed(batch[c].time)
    /\ UNCHANGED <<minute, notifications, batch, received, wins>>

(* A notification that was deleted meanwhile is an error.                  *)
Touched(c) ==
    LET k == batch[c].row IN
    IF notifications[k].deleted THEN notifications
    ELSE [notifications EXCEPT ![k].latest = batch[c].time]

GroupNotification(c) ==
    /\ batch[c].phase = "duplicate"
    /\ notifications' = Touched(c)
    /\ IF notifications[batch[c].row].deleted THEN Answered(c) ELSE Dropped(c)
    /\ UNCHANGED <<minute, ledger, received, wins>>

RecentOfDigestKey(time) ==
    {k \in NotificationIds : /\ ~notifications[k].deleted /\ notifications[k].groupable
                             /\ notifications[k].latest >= time - GroupingWindow}

(* The user's preferences may keep the event out of the list; a groupable  *)
(* one joins the latest recent notification of its digest key.             *)
FindRecentNotificationByDigestKey(c) ==
    LET recent == RecentOfDigestKey(batch[c].time) IN
    /\ batch[c].phase = "won"
    /\ \/ PassOn(c, "closing")
       \/ IF batch[c].groupable /\ recent # {}
          THEN \E k \in recent :
                  /\ \A j \in recent : notifications[j].latest =< notifications[k].latest
                  /\ batch' = [batch EXCEPT ![c].phase = "related", ![c].row = k]
          ELSE PassOn(c, "creating")
    /\ UNCHANGED <<minute, ledger, notifications, received, wins>>

GroupRelatedNotification(c) ==
    /\ batch[c].phase = "related"
    /\ notifications' = Touched(c)
    /\ IF notifications[batch[c].row].deleted THEN Answered(c) ELSE PassOn(c, "linking")
    /\ UNCHANGED <<minute, ledger, received, wins>>

CreateNotification(c) ==
    /\ batch[c].phase = "creating"
    /\ Len(notifications) < MaxNotifications
    /\ notifications' = Append(notifications,
          [latest |-> batch[c].time, groupable |-> batch[c].groupable, deleted |-> FALSE])
    /\ batch' = [batch EXCEPT ![c].phase = "binding", ![c].row = Len(notifications) + 1]
    /\ UNCHANGED <<minute, ledger, received, wins>>

(* Best effort: WHERE latest_event_at >= $4; a link to a notification that *)
(* was deleted meanwhile is refused by the foreign key.                    *)
BindNotificationDedupe(c) ==
    /\ batch[c].phase \in {"binding", "linking"}
    /\ ledger' = IF IsDuplicate(batch[c].time) /\ ~notifications[batch[c].row].deleted
                 THEN [ledger EXCEPT !.link = batch[c].row] ELSE ledger
    /\ IF batch[c].phase = "linking" THEN PassOn(c, "closing") ELSE Answered(c)
    /\ UNCHANGED <<minute, notifications, received, wins>>

(* The batch is done, a statement fails, or the service stops: the claim   *)
(* stays.                                                                  *)
BatchEnds(c) ==
    /\ batch[c] # NoBatch
    /\ Answered(c)
    /\ UNCHANGED <<minute, ledger, notifications, received, wins>>

(* ON DELETE SET NULL.                                                     *)
CleanupNotifications(k) ==
    /\ ~notifications[k].deleted
    /\ notifications' = [notifications EXCEPT ![k].deleted = TRUE]
    /\ ledger' = IF ledger.link = k THEN [ledger EXCEPT !.link = 0] ELSE ledger
    /\ UNCHANGED <<minute, batch, received, wins>>

MinutePasses ==
    /\ minute < MaxMinute
    /\ \A c \in Callers : batch[c] # NoBatch => minute < batch[c].time + ClaimDelay
    /\ minute' = minute + 1
    /\ UNCHANGED <<ledger, notifications, batch, received, wins>>

DedupeNext ==
    \/ \E c \in Callers :
          \/ CreateBatch(c) \/ ClaimNotificationDedupe(c) \/ ClaimAgain(c)
          \/ GroupNotification(c) \/ FindRecentNotificationByDigestKey(c)
          \/ GroupRelatedNotification(c) \/ CreateNotification(c)
          \/ BindNotificationDedupe(c) \/ BatchEnds(c)
    \/ \E k \in NotificationIds : CleanupNotifications(k)
    \/ MinutePasses

DedupeSpec == DedupeInit /\ [][DedupeNext]_dedupeVars

-----------------------------------------------------------------------------
DedupeTypeOK ==
    /\ minute \in Nat
    /\ ledger \in [latest : Nat, link : 0..Len(notifications)]
    /\ notifications \in Seq(NotificationRows)
    /\ batch \in [Callers -> Batches]
    /\ \A c \in Callers : batch[c].row \in 0..Len(notifications)
    /\ received \in Nat
    /\ wins \in Seq(Nat)

(* However many callers report one event at once, and though each works    *)
(* with the time of its arrival, which may move the ledger's time back, it *)
(* is delivered once in a window, less the delay of a request; and the     *)
(* ledger never links to a notification that is gone.                      *)
OneDeliveryPerWindow ==
    /\ \A i, j \in 1..Len(wins) : i < j => wins[j] + ClaimDelay > wins[i] + DedupeWindow
    /\ ledger.link # 0 => ~notifications[ledger.link].deleted
===============================================================================
