------------------------------ MODULE EditLocks ------------------------------
(***************************************************************************)
(* Soft edit locks: Trip Service keeps, in the memory of one process, at   *)
(* most one lock for a trip's itinerary, with a time to live, and the trip *)
(* page of the web application acquires it, renews it on a timer and       *)
(* releases it.  Locks of different trips share nothing: one is modelled.  *)
(*                                                                         *)
(* Requests travel on their own and overtake each other; the manager reads *)
(* the clock before it takes its mutex and the cleanup loop is handed the  *)
(* time of its tick, so every critical section works with a time that may  *)
(* be older than now.                                                      *)
(***************************************************************************)
EXTENDS Integers, FiniteSets

CONSTANTS
    LockEditors,    \* users who may edit the trip
    MaxVisits,      \* bound: visits of an editor to the trip page (tabs, reloads)
    TTL,
    MaxTime,        \* bound: the clock
    MaxRestarts,    \* bound: restarts of Trip Service
    MaxCalls        \* bound: requests and answers under way

ASSUME LockAssumption ==
    /\ MaxVisits \in Nat /\ MaxTime \in Nat /\ MaxRestarts \in Nat /\ MaxCalls \in Nat
    /\ TTL \in Nat \ {0}

VARIABLES
    lock,         \* the lock of the trip, [holder, expires], or NoLock
    now,
    visits,       \* each visit: its page, and the refs of useTripEditLock
    calls,        \* requests under way and answers on their way back
    restarts,
    granted       \* history: when the lock an editor was granted ends

lockVars == <<lock, now, visits, calls, restarts, granted>>

NoLock == [holder |-> "nobody", expires |-> 0]
Locks == {NoLock} \cup [holder : LockEditors, expires : Nat]
Visits == LockEditors \X (1..MaxVisits)
EditorOf(v) == v[1]

Kinds == {"acquire", "renew", "release"}
LockCall == [visit : Visits, kind : Kinds, sent : Nat,
         phase : {"sent", "checked", "granted", "blocked", "failed"}]

Held(time) == lock # NoLock /\ lock.expires > time
Waiting(v, kind) == \E c \in calls : c.visit = v /\ c.kind = kind

LockInit ==
    /\ lock = NoLock
    /\ now = 1
    /\ visits = [v \in Visits |-> [page |-> "open", editing |-> FALSE,
                                   owns |-> FALSE, timer |-> FALSE]]
    /\ calls = {}
    /\ restarts = 0
    /\ granted = [u \in LockEditors |-> 0]

SendCall(v, kind) ==
    /\ Cardinality(calls) < MaxCalls
    /\ calls' = calls \cup {[visit |-> v, kind |-> kind, sent |-> now, phase |-> "sent"]}
AnswerCall(c, phase) == calls' = (calls \ {c}) \cup {[c EXCEPT !.phase = phase]}

-----------------------------------------------------------------------------
(* The manager.  A section that began when its call was sent works with a  *)
(* time between that moment and now.                                       *)

AcquireOrRenew(c, time) ==
    IF Held(time) /\ lock.holder # EditorOf(c.visit)
    THEN AnswerCall(c, "blocked") /\ UNCHANGED <<lock, granted>>
    ELSE /\ lock' = [holder |-> EditorOf(c.visit), expires |-> time + TTL]
         /\ granted' = [granted EXCEPT ![EditorOf(c.visit)] = time + TTL]
         /\ AnswerCall(c, "granted")

HandleAcquire(c) ==
    /\ c.phase = "sent"
    /\ c.kind \in {"acquire", "renew"}
    /\ \E time \in c.sent..now : AcquireOrRenew(c, time)
    /\ UNCHANGED <<now, visits, restarts>>

(* ReleaseEditLock asks for the lock first, in a section of its own ...    *)
CheckOwner(c) ==
    /\ c.phase = "sent"
    /\ c.kind = "release"
    /\ \E time \in c.sent..now :
          /\ lock' = IF Held(time) THEN lock ELSE NoLock
          /\ AnswerCall(c, IF Held(time) /\ lock.holder # EditorOf(c.visit)
                       THEN "failed" ELSE "checked")
    /\ UNCHANGED <<now, visits, restarts, granted>>

(* A broken variant, not part of the specification.                        *)
MayReleaseChecked(c) == TRUE

MayRelease(c) == lock.holder = EditorOf(c.visit)
Expired(time) == lock.expires =< time

(* ... and releases it in another.                                         *)
Release(c) ==
    /\ c.phase = "checked"
    /\ \E time \in c.sent..now :
          IF Held(time) /\ ~MayRelease(c)
          THEN UNCHANGED <<lock, granted>>
          ELSE /\ lock' = NoLock
               /\ granted' = [granted EXCEPT ![EditorOf(c.visit)] = 0]
    /\ AnswerCall(c, "granted")
    /\ UNCHANGED <<now, visits, restarts>>

CleanupExpired ==
    /\ lock # NoLock
    /\ \E tick \in 0..now : Expired(tick)
    /\ lock' = NoLock
    /\ UNCHANGED <<now, visits, calls, restarts, granted>>

(* A request or its answer is lost.                                        *)
CallFails(c) ==
    /\ c.phase # "failed"
    /\ AnswerCall(c, "failed")
    /\ UNCHANGED <<lock, now, visits, restarts, granted>>

RestartLocks ==
    /\ restarts < MaxRestarts
    /\ restarts' = restarts + 1
    /\ lock' = NoLock
    /\ granted' = [u \in LockEditors |-> 0]
    /\ UNCHANGED <<now, visits, calls>>

LockTimePasses ==
    /\ now < MaxTime
    /\ now' = now + 1
    /\ UNCHANGED <<lock, visits, calls, restarts, granted>>

-----------------------------------------------------------------------------
(* The page and its hook.                                                  *)

SetVisit(v, visit) == visits' = [visits EXCEPT ![v] = visit]
EditFree == UNCHANGED <<lock, now, restarts, granted>>

ClickEdit(v) ==
    /\ visits[v].page = "open" /\ ~visits[v].editing
    /\ \A kind \in Kinds : ~Waiting(v, kind)
    /\ SendCall(v, "acquire")
    /\ EditFree /\ UNCHANGED visits

Renew(v) ==
    /\ visits[v].timer
    /\ ~Waiting(v, "renew")
    /\ SendCall(v, "renew")
    /\ EditFree /\ UNCHANGED visits

(* A broken variant, not part of the specification.                        *)
StopEditingSilently(v) ==
    /\ visits[v].page = "open" /\ visits[v].editing
    /\ SetVisit(v, [visits[v] EXCEPT !.timer = FALSE, !.editing = FALSE])
    /\ EditFree /\ UNCHANGED calls

(* Another.                                                                *)
ReleaseAndRenew(v) ==
    /\ visits[v].page = "open" /\ visits[v].editing /\ visits[v].owns
    /\ ~Waiting(v, "release")
    /\ SendCall(v, "release")
    /\ EditFree /\ UNCHANGED visits

(* Save, cancel: the timer stops at once, the page leaves edit mode when   *)
(* the release is answered.                                                *)
StopEditing(v) ==
    /\ visits[v].page = "open" /\ visits[v].editing
    /\ ~Waiting(v, "release")
    /\ IF visits[v].owns
       THEN SetVisit(v, [visits[v] EXCEPT !.timer = FALSE]) /\ SendCall(v, "release")
       ELSE SetVisit(v, [visits[v] EXCEPT !.timer = FALSE, !.editing = FALSE])
            /\ UNCHANGED calls
    /\ EditFree

LeavePage(v) ==
    /\ visits[v].page = "open"
    /\ SetVisit(v, [page |-> "left", editing |-> FALSE, owns |-> FALSE, timer |-> FALSE])
    /\ IF visits[v].owns THEN SendCall(v, "release") ELSE UNCHANGED calls
    /\ EditFree

(* An answer changes the refs of the hook, mounted or not.                 *)
AnswerArrives(c) ==
    LET v == c.visit
        open == visits[v].page = "open"
    IN /\ c.phase \in {"granted", "blocked", "failed"}
       /\ \/ /\ c.kind = "acquire" /\ c.phase = "granted"
             /\ SetVisit(v, [visits[v] EXCEPT !.owns = TRUE, !.timer = TRUE, !.editing = open])
          \/ /\ c.kind = "acquire" /\ c.phase = "blocked"
             /\ \E anyway \in BOOLEAN :
                   SetVisit(v, [visits[v] EXCEPT !.owns = FALSE, !.editing = open /\ anyway])
          \/ /\ c.kind = "renew" /\ c.phase = "blocked"
             /\ SetVisit(v, [visits[v] EXCEPT !.owns = FALSE, !.timer = FALSE])
          \/ /\ c.kind = "release"
             /\ SetVisit(v, [visits[v] EXCEPT !.owns = FALSE, !.editing = FALSE])
          \/ /\ \/ c.kind = "renew" /\ c.phase # "blocked"
                \/ c.kind = "acquire" /\ c.phase = "failed"
             /\ UNCHANGED visits
       /\ calls' = calls \ {c}
       /\ EditFree

LockNext ==
    \/ \E v \in Visits :
          ClickEdit(v) \/ Renew(v) \/ StopEditing(v) \/ LeavePage(v)
    \/ \E c \in calls :
          HandleAcquire(c) \/ CheckOwner(c) \/ Release(c) \/ CallFails(c) \/ AnswerArrives(c)
    \/ CleanupExpired \/ RestartLocks \/ LockTimePasses

LockSpec == LockInit /\ [][LockNext]_lockVars

-----------------------------------------------------------------------------
LockTypeOK ==
    /\ lock \in Locks
    /\ now \in Nat
    /\ visits \in [Visits -> [page : {"open", "left"}, editing : BOOLEAN,
                              owns : BOOLEAN, timer : BOOLEAN]]
    /\ calls \subseteq LockCall
    /\ \A c \in calls : c.sent =< now
    /\ restarts \in Nat
    /\ granted \in [LockEditors -> Nat]

(* Until it expires or its editor releases it, a granted lock is in the    *)
(* manager: no other editor is granted one, no late cleanup tick, stale    *)
(* clock reading or overtaken release takes it away (manager.go).          *)
GrantsAreHonoured ==
    \A u \in LockEditors : granted[u] > now => lock = [holder |-> u, expires |-> granted[u]]

(* So the grants of two editors never overlap.                             *)
OneGrantAtATime ==
    \A u, w \in LockEditors : granted[u] > now /\ granted[w] > now => u = w

(* The page of an editor who goes on editing keeps renewing, or knows that *)
(* it does not own the lock; and nobody renews who has stopped or does not *)
(* own it, but a page that was left before its acquisition was answered    *)
(* (useTripEditLock).                                                      *)
OwnersRenew ==
    \A v \in Visits :
        /\ visits[v].owns => visits[v].timer \/ Waiting(v, "release")
        /\ visits[v].timer => visits[v].owns /\ (visits[v].editing \/ visits[v].page = "left")
=============================================================================
