--------------------------- MODULE ClientsProofs ---------------------------
(***************************************************************************)
(* Theorems about the protocols between the browser and the services: the  *)
(* edit locks, for every set of editors, every time to live, and every     *)
(* number of visits, requests and restarts; the sessions, for every number *)
(* of requests, logins and tokens; and presence, for every number of       *)
(* viewers and streams, and every size of the queues.                      *)
(***************************************************************************)
EXTENDS MCClients, OfflineProofs, CalendarProofs, TLAPS

(* A function on the indices of a sequence is one.                         *)
LEMMA FunctionIsSeq ==
    ASSUME NEW S, NEW n \in Nat, NEW t \in [1..n -> S]
    PROVE  t \in Seq(S) /\ Len(t) = n
  OBVIOUS

(* A sequence is a function on its indices.                                *)
LEMMA SeqIsFunction ==
    ASSUME NEW S, NEW s \in Seq(S)
    PROVE  s \in [1..Len(s) -> S] /\ Len(s) \in Nat
  OBVIOUS

-----------------------------------------------------------------------------
(* A request or its answer stays typed when its phase changes.             *)
LEMMA AnswerTyped ==
    ASSUME NEW c \in LockCall,
           NEW phase \in {"sent", "checked", "granted", "blocked", "failed"}
    PROVE  [c EXCEPT !.phase = phase] \in LockCall
  BY DEF LockCall

(* The calls after an answer: typed, and none of them sent in the future.  *)
LEMMA AnswerKeepsCalls ==
    ASSUME LockTypeOK, NEW c \in calls,
           NEW phase \in {"sent", "checked", "granted", "blocked", "failed"},
           AnswerCall(c, phase)
    PROVE  calls' \subseteq LockCall /\ \A d \in calls' : d.sent =< now
  <1>1. c \in LockCall  BY DEF LockTypeOK
  <1>2. [c EXCEPT !.phase = phase] \in LockCall  BY <1>1, AnswerTyped
  <1>3. [c EXCEPT !.phase = phase].sent = c.sent  BY <1>1 DEF LockCall
  <1> QED BY <1>2, <1>3 DEF AnswerCall, LockTypeOK

(* A request is sent now.                                                  *)
LEMMA SendKeepsCalls ==
    ASSUME LockTypeOK, NEW v \in Visits, NEW kind \in Kinds, SendCall(v, kind)
    PROVE  calls' \subseteq LockCall /\ \A d \in calls' : d.sent =< now
  <1> DEFINE sent == [visit |-> v, kind |-> kind, sent |-> now, phase |-> "sent"]
  <1>1. now \in Nat  BY DEF LockTypeOK
  <1>2. sent \in LockCall /\ sent.sent = now  BY <1>1 DEF LockCall
  <1> QED BY <1>1, <1>2 DEF SendCall, LockTypeOK

(* A visit stays typed when the page or its hook changes it.               *)
LEMMA VisitTyped ==
    ASSUME LockTypeOK, NEW v \in Visits,
           NEW visit \in [page : {"open", "left"}, editing : BOOLEAN,
                          owns : BOOLEAN, timer : BOOLEAN],
           SetVisit(v, visit)
    PROVE  visits' \in [Visits -> [page : {"open", "left"}, editing : BOOLEAN,
                                   owns : BOOLEAN, timer : BOOLEAN]]
  BY DEF LockTypeOK, SetVisit

(* The manager's sections work with the time of a clock reading.           *)
LEMMA ReadingIsPast ==
    ASSUME LockTypeOK, NEW c \in calls, NEW time \in c.sent..now
    PROVE  time \in Nat /\ time =< now
  BY DEF LockTypeOK, LockCall

-----------------------------------------------------------------------------
(* Every step of the page and its hook keeps the types.                    *)
LEMMA PageKeepsTypes ==
    ASSUME LockTypeOK, NEW v \in Visits,
           ClickEdit(v) \/ Renew(v) \/ StopEditing(v) \/ LeavePage(v)
    PROVE  LockTypeOK'
  <1>1. /\ visits[v] \in [page : {"open", "left"}, editing : BOOLEAN,
                          owns : BOOLEAN, timer : BOOLEAN]
        /\ {"acquire", "renew", "release"} = Kinds
    BY DEF LockTypeOK, Kinds
  <1>2. CASE ClickEdit(v)
    <2>1. calls' \subseteq LockCall /\ \A d \in calls' : d.sent =< now
      BY <1>1, <1>2, SendKeepsCalls DEF ClickEdit
    <2> QED BY <1>2, <2>1 DEF ClickEdit, EditFree, LockTypeOK
  <1>3. CASE Renew(v)
    <2>1. calls' \subseteq LockCall /\ \A d \in calls' : d.sent =< now
      BY <1>1, <1>3, SendKeepsCalls DEF Renew
    <2> QED BY <1>3, <2>1 DEF Renew, EditFree, LockTypeOK
  <1>4. CASE StopEditing(v)
    <2>1. calls' \subseteq LockCall /\ \A d \in calls' : d.sent =< now
      <3>1. CASE visits[v].owns  BY <1>1, <1>4, <3>1, SendKeepsCalls DEF StopEditing
      <3>2. CASE ~visits[v].owns  BY <1>4, <3>2 DEF StopEditing, LockTypeOK
      <3> QED BY <3>1, <3>2
    <2>2. visits' \in [Visits -> [page : {"open", "left"}, editing : BOOLEAN,
                                  owns : BOOLEAN, timer : BOOLEAN]]
      <3>1. CASE visits[v].owns
        <4>1. SetVisit(v, [visits[v] EXCEPT !.timer = FALSE])
          BY <1>4, <3>1 DEF StopEditing
        <4> QED BY <1>1, <4>1, VisitTyped
      <3>2. CASE ~visits[v].owns
        <4>1. SetVisit(v, [visits[v] EXCEPT !.timer = FALSE, !.editing = FALSE])
          BY <1>4, <3>2 DEF StopEditing
        <4> QED BY <1>1, <4>1, VisitTyped
      <3> QED BY <3>1, <3>2
    <2> QED BY <1>4, <2>1, <2>2 DEF StopEditing, EditFree, LockTypeOK
  <1>5. CASE LeavePage(v)
    <2>1. calls' \subseteq LockCall /\ \A d \in calls' : d.sent =< now
      <3>1. CASE visits[v].owns  BY <1>1, <1>5, <3>1, SendKeepsCalls DEF LeavePage
      <3>2. CASE ~visits[v].owns  BY <1>5, <3>2 DEF LeavePage, LockTypeOK
      <3> QED BY <3>1, <3>2
    <2>2. visits' \in [Visits -> [page : {"open", "left"}, editing : BOOLEAN,
                                  owns : BOOLEAN, timer : BOOLEAN]]
      BY <1>5, VisitTyped DEF LeavePage
    <2> QED BY <1>5, <2>1, <2>2 DEF LeavePage, EditFree, LockTypeOK
  <1> QED BY <1>2, <1>3, <1>4, <1>5

(* And so does every step of a call.                                       *)
LEMMA CallKeepsTypes ==
    ASSUME LockTypeOK, NEW c \in calls,
           HandleAcquire(c) \/ CheckOwner(c) \/ Release(c) \/ CallFails(c) \/ AnswerArrives(c)
    PROVE  LockTypeOK'
  <1> DEFINE v == c.visit
  <1>1. /\ c \in LockCall /\ v \in Visits /\ EditorOf(v) \in LockEditors
        /\ TTL \in Nat /\ lock \in Locks /\ granted \in [LockEditors -> Nat]
        /\ visits[v] \in [page : {"open", "left"}, editing : BOOLEAN,
                          owns : BOOLEAN, timer : BOOLEAN]
    BY LockAssumption DEF LockTypeOK, LockCall, Visits, EditorOf
  <1>2. CASE HandleAcquire(c)
    <2>1. PICK time \in c.sent..now : AcquireOrRenew(c, time)  BY <1>2 DEF HandleAcquire
    <2>2. time + TTL \in Nat  BY <1>1, <2>1, ReadingIsPast
    <2>3. AnswerCall(c, "blocked") \/ AnswerCall(c, "granted")
      BY <2>1 DEF AcquireOrRenew
    <2>4. calls' \subseteq LockCall /\ \A d \in calls' : d.sent =< now
      BY <2>3, AnswerKeepsCalls
    <2>5. lock' \in Locks /\ granted' \in [LockEditors -> Nat]
      BY <1>1, <2>1, <2>2 DEF AcquireOrRenew, Locks
    <2> QED BY <1>2, <2>4, <2>5 DEF HandleAcquire, LockTypeOK
  <1>3. CASE CheckOwner(c)
    <2>1. AnswerCall(c, "failed") \/ AnswerCall(c, "checked")  BY <1>3 DEF CheckOwner
    <2>2. calls' \subseteq LockCall /\ \A d \in calls' : d.sent =< now
      BY <2>1, AnswerKeepsCalls
    <2>3. lock' \in Locks  BY <1>1, <1>3 DEF CheckOwner, Locks
    <2> QED BY <1>3, <2>2, <2>3 DEF CheckOwner, LockTypeOK
  <1>4. CASE Release(c)
    <2>1. calls' \subseteq LockCall /\ \A d \in calls' : d.sent =< now
      BY <1>4, AnswerKeepsCalls DEF Release
    <2>2. lock' \in Locks /\ granted' \in [LockEditors -> Nat]
      BY <1>1, <1>4 DEF Release, Locks
    <2> QED BY <1>4, <2>1, <2>2 DEF Release, LockTypeOK
  <1>5. CASE CallFails(c)
    <2>1. calls' \subseteq LockCall /\ \A d \in calls' : d.sent =< now
      BY <1>5, AnswerKeepsCalls DEF CallFails
    <2> QED BY <1>5, <2>1 DEF CallFails, LockTypeOK
  <1>6. CASE AnswerArrives(c)
    <2>1. visits' \in [Visits -> [page : {"open", "left"}, editing : BOOLEAN,
                                  owns : BOOLEAN, timer : BOOLEAN]]
      <3> DEFINE open == visits[v].page = "open"
      <3>1. CASE SetVisit(v, [visits[v] EXCEPT !.owns = TRUE, !.timer = TRUE,
                                               !.editing = open])
        BY <1>1, <3>1, VisitTyped
      <3>2. CASE \E anyway \in BOOLEAN :
                    SetVisit(v, [visits[v] EXCEPT !.owns = FALSE, !.editing = open /\ anyway])
        BY <1>1, <3>2, VisitTyped
      <3>3. CASE SetVisit(v, [visits[v] EXCEPT !.owns = FALSE, !.timer = FALSE])
        BY <1>1, <3>3, VisitTyped
      <3>4. CASE SetVisit(v, [visits[v] EXCEPT !.owns = FALSE, !.editing = FALSE])
        BY <1>1, <3>4, VisitTyped
      <3>5. CASE UNCHANGED visits  BY <3>5 DEF LockTypeOK
      <3> QED BY <1>6, <3>1, <3>2, <3>3, <3>4, <3>5 DEF AnswerArrives
    <2> QED BY <1>6, <2>1 DEF AnswerArrives, EditFree, LockTypeOK
  <1> QED BY <1>2, <1>3, <1>4, <1>5, <1>6

-----------------------------------------------------------------------------
(* LockTypeOK holds in every reachable state, for any number of editors.   *)
THEOREM LockTypesHold == LockSpec => []LockTypeOK
  <1>1. LockInit => LockTypeOK  BY DEF LockInit, LockTypeOK, Locks
  <1>2. LockTypeOK /\ [LockNext]_lockVars => LockTypeOK'
    <2> SUFFICES ASSUME LockTypeOK, [LockNext]_lockVars PROVE LockTypeOK'
      OBVIOUS
    <2>1. ASSUME NEW v \in Visits, ClickEdit(v) \/ Renew(v) \/ StopEditing(v) \/ LeavePage(v)
          PROVE  LockTypeOK'
      BY <2>1, PageKeepsTypes
    <2>2. ASSUME NEW c \in calls, HandleAcquire(c) \/ CheckOwner(c) \/ Release(c)
                                  \/ CallFails(c) \/ AnswerArrives(c)
          PROVE  LockTypeOK'
      BY <2>2, CallKeepsTypes
    <2>3. CASE CleanupExpired  BY <2>3 DEF CleanupExpired, LockTypeOK, Locks
    <2>4. CASE RestartLocks  BY <2>4 DEF RestartLocks, LockTypeOK, Locks
    <2>5. CASE LockTimePasses
      <3>1. \A c \in calls : c \in LockCall /\ c.sent \in Nat
        BY DEF LockTypeOK, LockCall
      <3> QED BY <2>5, <3>1 DEF LockTimePasses, LockTypeOK
    <2>6. CASE UNCHANGED lockVars  BY <2>6 DEF lockVars, LockTypeOK
    <2> QED BY <2>1, <2>2, <2>3, <2>4, <2>5, <2>6 DEF LockNext
  <1> QED BY <1>1, <1>2, PTL DEF LockSpec

-----------------------------------------------------------------------------
(* A granted lock is in the manager, so whatever the manager does at a     *)
(* time that is not after now finds it held.                               *)
LEMMA GrantIsHeld ==
    ASSUME LockTypeOK, GrantsAreHonoured, NEW u \in LockEditors, granted[u] > now,
           NEW time \in Nat, time =< now
    PROVE  Held(time) /\ lock.holder = u
  <1>1. granted[u] \in Nat /\ now \in Nat /\ granted[u] # 0  BY DEF LockTypeOK
  <1>2. lock = [holder |-> u, expires |-> granted[u]]  BY DEF GrantsAreHonoured
  <1>3. lock.expires # NoLock.expires  BY <1>1, <1>2 DEF NoLock
  <1> QED BY <1>1, <1>2, <1>3 DEF Held

(* Until its time has come or its editor lets go of it, a granted lock is  *)
(* in the manager, whatever late requests, answers, ticks and restarts     *)
(* there are.                                                              *)
THEOREM GrantsHold == LockSpec => []GrantsAreHonoured
  <1>1. LockInit => GrantsAreHonoured  BY DEF LockInit, GrantsAreHonoured
  <1>2. LockTypeOK /\ GrantsAreHonoured /\ [LockNext]_lockVars => GrantsAreHonoured'
    <2> SUFFICES ASSUME LockTypeOK, GrantsAreHonoured, [LockNext]_lockVars,
                        NEW u \in LockEditors, granted'[u] > now'
                 PROVE  lock' = [holder |-> u, expires |-> granted'[u]]
      BY DEF GrantsAreHonoured
    <2>1. now \in Nat /\ granted \in [LockEditors -> Nat]  BY DEF LockTypeOK
    <2>2. ASSUME UNCHANGED <<lock, now, granted>>
          PROVE  lock' = [holder |-> u, expires |-> granted'[u]]
      BY <2>2 DEF GrantsAreHonoured
    <2>3. ASSUME NEW c \in calls, HandleAcquire(c)
          PROVE  lock' = [holder |-> u, expires |-> granted'[u]]
      <3>1. PICK time \in c.sent..now : AcquireOrRenew(c, time)  BY <2>3 DEF HandleAcquire
      <3>2. time \in Nat /\ time =< now  BY ReadingIsPast
      <3>3. now' = now  BY <2>3 DEF HandleAcquire
      <3>4. CASE u = EditorOf(c.visit)
        BY <2>1, <2>2, <3>1, <3>3, <3>4 DEF AcquireOrRenew
      <3>5. CASE u # EditorOf(c.visit)
        <4>1. granted'[u] = granted[u]  BY <2>1, <3>1, <3>5 DEF AcquireOrRenew
        <4>2. Held(time) /\ lock.holder = u  BY <3>2, <3>3, <4>1, GrantIsHeld
        <4>3. UNCHANGED <<lock, granted>>  BY <3>1, <3>5, <4>2 DEF AcquireOrRenew
        <4> QED BY <2>2, <3>3, <4>3
      <3> QED BY <3>4, <3>5
    <2>4. ASSUME NEW c \in calls, CheckOwner(c)
          PROVE  lock' = [holder |-> u, expires |-> granted'[u]]
      <3>1. PICK time \in c.sent..now : lock' = IF Held(time) THEN lock ELSE NoLock
        BY <2>4 DEF CheckOwner
      <3>2. time \in Nat /\ time =< now  BY ReadingIsPast
      <3>3. UNCHANGED <<now, granted>>  BY <2>4 DEF CheckOwner
      <3>4. Held(time)  BY <3>2, <3>3, GrantIsHeld
      <3> QED BY <2>2, <3>1, <3>3, <3>4
    <2>5. ASSUME NEW c \in calls, Release(c)
          PROVE  lock' = [holder |-> u, expires |-> granted'[u]]
      <3>1. PICK time \in c.sent..now :
               IF Held(time) /\ ~MayRelease(c)
               THEN UNCHANGED <<lock, granted>>
               ELSE /\ lock' = NoLock
                    /\ granted' = [granted EXCEPT ![EditorOf(c.visit)] = 0]
        BY <2>5 DEF Release
      <3>2. time \in Nat /\ time =< now  BY ReadingIsPast
      <3>3. now' = now  BY <2>5 DEF Release
      <3>4. CASE Held(time) /\ ~MayRelease(c)  BY <2>2, <3>1, <3>3, <3>4
      <3>5. CASE ~(Held(time) /\ ~MayRelease(c))
        <4>1. granted' = [granted EXCEPT ![EditorOf(c.visit)] = 0]  BY <3>1, <3>5
        <4>2. u # EditorOf(c.visit)  BY <2>1, <3>3, <4>1
        <4>3. granted'[u] = granted[u]  BY <2>1, <4>1, <4>2
        <4>4. Held(time) /\ lock.holder = u  BY <3>2, <3>3, <4>3, GrantIsHeld
        <4> QED BY <3>5, <4>2, <4>4 DEF MayRelease
      <3> QED BY <3>4, <3>5
    <2>6. CASE CleanupExpired
      <3>1. PICK tick \in 0..now : Expired(tick)  BY <2>6 DEF CleanupExpired
      <3>2. tick \in Nat /\ tick =< now  BY <2>1, <3>1
      <3>3. UNCHANGED <<now, granted>>  BY <2>6 DEF CleanupExpired
      <3>4. lock = [holder |-> u, expires |-> granted[u]]
        BY <3>3 DEF GrantsAreHonoured
      <3> QED BY <2>1, <3>1, <3>2, <3>3, <3>4 DEF Expired
    <2>7. CASE RestartLocks  BY <2>1, <2>7 DEF RestartLocks
    <2>8. CASE LockTimePasses
      <3>1. granted[u] > now  BY <2>1, <2>8 DEF LockTimePasses
      <3> QED BY <2>8, <3>1 DEF LockTimePasses, GrantsAreHonoured
    <2>9. ASSUME NEW v \in Visits, ClickEdit(v) \/ Renew(v) \/ StopEditing(v) \/ LeavePage(v)
          PROVE  UNCHANGED <<lock, now, granted>>
      BY <2>9 DEF ClickEdit, Renew, StopEditing, LeavePage, EditFree
    <2>10. ASSUME NEW c \in calls, CallFails(c) \/ AnswerArrives(c)
           PROVE  UNCHANGED <<lock, now, granted>>
      BY <2>10 DEF CallFails, AnswerArrives, EditFree
    <2>11. CASE UNCHANGED lockVars  BY <2>2, <2>11 DEF lockVars
    <2> QED BY <2>2, <2>3, <2>4, <2>5, <2>6, <2>7, <2>8, <2>9, <2>10, <2>11 DEF LockNext
  <1> QED BY <1>1, <1>2, LockTypesHold, PTL DEF LockSpec

(* So no two editors hold grants at a time.                                *)
THEOREM GrantsNeverOverlap == LockSpec => []OneGrantAtATime
  <1>1. GrantsAreHonoured => OneGrantAtATime
    <2> SUFFICES ASSUME GrantsAreHonoured, NEW u \in LockEditors, NEW w \in LockEditors,
                        granted[u] > now, granted[w] > now
                 PROVE  u = w
      BY DEF OneGrantAtATime
    <2>1. /\ lock = [holder |-> u, expires |-> granted[u]]
          /\ lock = [holder |-> w, expires |-> granted[w]]
      BY DEF GrantsAreHonoured
    <2>2. lock.holder = u /\ lock.holder = w  BY <2>1
    <2> QED BY <2>2
  <1> QED BY <1>1, GrantsHold, PTL

-----------------------------------------------------------------------------
VisitRows == [page : {"open", "left"}, editing : BOOLEAN, owns : BOOLEAN, timer : BOOLEAN]

(* What the refs of a page and its calls tell of each other: a page that   *)
(* waits for an acquisition owns nothing and has nothing to release, and   *)
(* one that waits for a release has stopped its timer.                     *)
RenewalInv(v) ==
    /\ visits[v].owns => visits[v].timer \/ Waiting(v, "release")
    /\ visits[v].timer => visits[v].owns /\ (visits[v].editing \/ visits[v].page = "left")
    /\ Waiting(v, "acquire") => ~visits[v].owns /\ ~Waiting(v, "release")
    /\ Waiting(v, "release") => ~visits[v].timer

OneAcquisition ==
    \A c, d \in calls : c.kind = "acquire" /\ d.kind = "acquire" /\ c.visit = d.visit => c = d

(* The inductive invariant.                                                *)
RenewingInv == LockTypeOK /\ OneAcquisition /\ \A v \in Visits : RenewalInv(v)

(* A call that goes from one phase to another still waits for its answer.  *)
LEMMA AnswerKeepsWaiting ==
    ASSUME RenewingInv, NEW c \in calls,
           NEW phase \in {"sent", "checked", "granted", "blocked", "failed"},
           AnswerCall(c, phase)
    PROVE  OneAcquisition' /\ \A v, kind : Waiting(v, kind)' <=> Waiting(v, kind)
  <1> DEFINE e == [c EXCEPT !.phase = phase]
  <1>1. c \in LockCall  BY DEF RenewingInv, LockTypeOK
  <1>2. e.visit = c.visit /\ e.kind = c.kind  BY <1>1 DEF LockCall
  <1>3. calls' = (calls \ {c}) \cup {e}  BY DEF AnswerCall
  <1> HIDE DEF e
  <1> QED BY <1>2, <1>3 DEF RenewingInv, OneAcquisition, Waiting

(* A page that sends a call waits for it.                                  *)
LEMMA SendWaits ==
    ASSUME RenewingInv, NEW w \in Visits, NEW sent \in Kinds, SendCall(w, sent),
           sent = "acquire" => ~Waiting(w, "acquire")
    PROVE  /\ OneAcquisition'
           /\ \A v, kind : Waiting(v, kind)' <=> Waiting(v, kind) \/ (v = w /\ kind = sent)
  <1> DEFINE e == [visit |-> w, kind |-> sent, sent |-> now, phase |-> "sent"]
  <1>1. calls' = calls \cup {e} /\ e.visit = w /\ e.kind = sent  BY DEF SendCall
  <1> HIDE DEF e
  <1> QED BY <1>1 DEF RenewingInv, OneAcquisition, Waiting

(* An answer that arrives is waited for no more.                           *)
LEMMA ArrivalWaits ==
    ASSUME RenewingInv, NEW c \in calls, calls' = calls \ {c}
    PROVE  /\ OneAcquisition'
           /\ \A v, kind : Waiting(v, kind)' => Waiting(v, kind)
           /\ \A v, kind : v # c.visit \/ kind # c.kind => (Waiting(v, kind)' <=> Waiting(v, kind))
           /\ c.kind = "acquire" => ~Waiting(c.visit, "acquire")'
  BY DEF RenewingInv, OneAcquisition, Waiting

(* Where nothing that is waited for changes, the pages keep what they      *)
(* know.                                                                   *)
LEMMA SameWaiting ==
    ASSUME RenewingInv, OneAcquisition', UNCHANGED visits,
           \A v, kind : Waiting(v, kind)' <=> Waiting(v, kind)
    PROVE  OneAcquisition' /\ \A v \in Visits : RenewalInv(v)'
  BY DEF RenewingInv, RenewalInv

(* The page sends a call, or changes its refs, or both.                    *)
LEMMA PageKeepsRenewing ==
    ASSUME RenewingInv, NEW w \in Visits,
           ClickEdit(w) \/ Renew(w) \/ StopEditing(w) \/ LeavePage(w)
    PROVE  OneAcquisition' /\ \A v \in Visits : RenewalInv(v)'
  <1>1. visits \in [Visits -> VisitRows] /\ RenewalInv(w) /\ visits[w] \in VisitRows
    BY DEF RenewingInv, LockTypeOK, VisitRows
  <1>2. CASE ClickEdit(w)
    <2>1. /\ SendCall(w, "acquire") /\ UNCHANGED visits /\ visits[w].page = "open"
          /\ ~visits[w].editing /\ ~Waiting(w, "acquire") /\ ~Waiting(w, "release")
      BY <1>2 DEF ClickEdit, Kinds
    <2>2. ~visits[w].owns  BY <1>1, <2>1 DEF RenewalInv
    <2>3. OneAcquisition'
          /\ \A v, kind : Waiting(v, kind)' <=> Waiting(v, kind) \/ (v = w /\ kind = "acquire")
      BY <2>1, SendWaits DEF Kinds
    <2> QED BY <2>1, <2>2, <2>3 DEF RenewingInv, RenewalInv
  <1>3. CASE Renew(w)
    <2>1. SendCall(w, "renew") /\ UNCHANGED visits  BY <1>3 DEF Renew
    <2>2. OneAcquisition'
          /\ \A v, kind : Waiting(v, kind)' <=> Waiting(v, kind) \/ (v = w /\ kind = "renew")
      BY <2>1, SendWaits DEF Kinds
    <2> QED BY <2>1, <2>2 DEF RenewingInv, RenewalInv
  <1>4. CASE (StopEditing(w) \/ LeavePage(w)) /\ visits[w].owns
    <2>1. PICK row \in VisitRows :
             /\ SetVisit(w, row) /\ ~row.timer /\ SendCall(w, "release")
      <3>1. [visits[w] EXCEPT !.timer = FALSE] \in VisitRows
            /\ ~[visits[w] EXCEPT !.timer = FALSE].timer
        BY <1>1 DEF VisitRows
      <3>2. [page |-> "left", editing |-> FALSE, owns |-> FALSE, timer |-> FALSE] \in VisitRows
        BY DEF VisitRows
      <3> QED BY <1>4, <3>1, <3>2 DEF StopEditing, LeavePage
    <2>2. visits' = [visits EXCEPT ![w] = row]  BY <2>1 DEF SetVisit
    <2>3. visits'[w] = row /\ \A v \in Visits : v # w => visits'[v] = visits[v]  BY <1>1, <2>2
    <2>4. OneAcquisition'
          /\ \A v, kind : Waiting(v, kind)' <=> Waiting(v, kind) \/ (v = w /\ kind = "release")
      BY <2>1, SendWaits DEF Kinds
    <2>5. ~Waiting(w, "acquire")  BY <1>1, <1>4 DEF RenewalInv
    <2>6. RenewalInv(w)'  BY <2>1, <2>3, <2>4, <2>5 DEF RenewalInv
    <2>7. \A v \in Visits : v # w => RenewalInv(v)'  BY <2>3, <2>4 DEF RenewingInv, RenewalInv
    <2> QED BY <2>4, <2>6, <2>7
  <1>5. CASE (StopEditing(w) \/ LeavePage(w)) /\ ~visits[w].owns
    <2>1. PICK row \in VisitRows : SetVisit(w, row) /\ ~row.timer /\ ~row.owns
      <3>1. /\ [visits[w] EXCEPT !.timer = FALSE, !.editing = FALSE] \in VisitRows
            /\ ~[visits[w] EXCEPT !.timer = FALSE, !.editing = FALSE].timer
            /\ ~[visits[w] EXCEPT !.timer = FALSE, !.editing = FALSE].owns
        BY <1>1, <1>5 DEF VisitRows
      <3>2. [page |-> "left", editing |-> FALSE, owns |-> FALSE, timer |-> FALSE] \in VisitRows
        BY DEF VisitRows
      <3> QED BY <1>5, <3>1, <3>2 DEF StopEditing, LeavePage
    <2>2. visits' = [visits EXCEPT ![w] = row] /\ UNCHANGED calls
      BY <1>5, <2>1 DEF SetVisit, StopEditing, LeavePage
    <2>3. visits'[w] = row /\ \A v \in Visits : v # w => visits'[v] = visits[v]  BY <1>1, <2>2
    <2>4. OneAcquisition' /\ \A v, kind : Waiting(v, kind)' <=> Waiting(v, kind)
      BY <2>2 DEF RenewingInv, OneAcquisition, Waiting
    <2>5. RenewalInv(w)'  BY <1>1, <2>1, <2>3, <2>4 DEF RenewalInv
    <2>6. \A v \in Visits : v # w => RenewalInv(v)'  BY <2>3, <2>4 DEF RenewingInv, RenewalInv
    <2> QED BY <2>4, <2>5, <2>6
  <1> QED BY <1>2, <1>3, <1>4, <1>5

(* An answer changes the refs of its page.                                 *)
LEMMA ArrivalKeepsRenewing ==
    ASSUME RenewingInv, NEW c \in calls, AnswerArrives(c)
    PROVE  OneAcquisition' /\ \A v \in Visits : RenewalInv(v)'
  <1> DEFINE w == c.visit
  <1>1. c \in LockCall /\ w \in Visits  BY DEF RenewingInv, LockTypeOK, LockCall
  <1>2. visits \in [Visits -> VisitRows] /\ visits[w] \in VisitRows /\ RenewalInv(w) /\ Waiting(w, c.kind)
    BY <1>1 DEF RenewingInv, LockTypeOK, VisitRows, Waiting
  <1>3. calls' = calls \ {c}  BY DEF AnswerArrives
  <1>4. /\ OneAcquisition' /\ \A v, kind : Waiting(v, kind)' => Waiting(v, kind)
        /\ \A v, kind : v # w \/ kind # c.kind => (Waiting(v, kind)' <=> Waiting(v, kind))
        /\ c.kind = "acquire" => ~Waiting(w, "acquire")'
    BY <1>3, ArrivalWaits
  <1>5. PICK row \in VisitRows :
           /\ SetVisit(w, row)
           /\ \/ c.kind = "acquire" /\ row.owns /\ row.timer /\ (row.editing \/ row.page = "left")
              \/ c.kind = "acquire" /\ ~row.owns /\ row.timer = visits[w].timer
              \/ c.kind = "renew" /\ ~row.owns /\ ~row.timer
              \/ c.kind = "release" /\ ~row.owns /\ row.timer = visits[w].timer
              \/ c.kind # "release" /\ row = visits[w]
    <2> DEFINE open == visits[w].page = "open"
    <2>1. CASE c.kind = "acquire" /\ SetVisit(w, [visits[w] EXCEPT !.owns = TRUE, !.timer = TRUE,
                                                                  !.editing = open])
      <3> DEFINE row == [visits[w] EXCEPT !.owns = TRUE, !.timer = TRUE, !.editing = open]
      <3>1. row \in VisitRows /\ row.owns /\ row.timer /\ (row.editing \/ row.page = "left")
        BY <1>2 DEF VisitRows
      <3> QED BY <2>1, <3>1
    <2>2. ASSUME NEW anyway \in BOOLEAN, c.kind = "acquire",
                 SetVisit(w, [visits[w] EXCEPT !.owns = FALSE, !.editing = open /\ anyway])
          PROVE  \E row \in VisitRows :
                    /\ SetVisit(w, row)
                    /\ c.kind = "acquire" /\ ~row.owns /\ row.timer = visits[w].timer
      <3> DEFINE row == [visits[w] EXCEPT !.owns = FALSE, !.editing = open /\ anyway]
      <3>1. row \in VisitRows /\ ~row.owns /\ row.timer = visits[w].timer
        BY <1>2 DEF VisitRows
      <3> QED BY <2>2, <3>1
    <2>3. CASE c.kind = "renew" /\ SetVisit(w, [visits[w] EXCEPT !.owns = FALSE, !.timer = FALSE])
      <3> DEFINE row == [visits[w] EXCEPT !.owns = FALSE, !.timer = FALSE]
      <3>1. row \in VisitRows /\ ~row.owns /\ ~row.timer  BY <1>2 DEF VisitRows
      <3> QED BY <2>3, <3>1
    <2>4. CASE c.kind = "release" /\ SetVisit(w, [visits[w] EXCEPT !.owns = FALSE, !.editing = FALSE])
      <3> DEFINE row == [visits[w] EXCEPT !.owns = FALSE, !.editing = FALSE]
      <3>1. row \in VisitRows /\ ~row.owns /\ row.timer = visits[w].timer  BY <1>2 DEF VisitRows
      <3> QED BY <2>4, <3>1
    <2>5. CASE c.kind # "release" /\ UNCHANGED visits
      <3>1. SetVisit(w, visits[w])  BY <1>2, <2>5 DEF SetVisit
      <3> QED BY <1>2, <2>5, <3>1
    <2> QED BY <2>1, <2>2, <2>3, <2>4, <2>5 DEF AnswerArrives
  <1>6. visits' = [visits EXCEPT ![w] = row]  BY <1>5 DEF SetVisit
  <1>7. visits'[w] = row /\ \A v \in Visits : v # w => visits'[v] = visits[v]  BY <1>1, <1>2, <1>6
  <1>8. \A v \in Visits : v # w => RenewalInv(v)'  BY <1>4, <1>7 DEF RenewingInv, RenewalInv
  <1>9. RenewalInv(w)'
    <2>1. CASE c.kind = "acquire"
      <3>1. ~visits[w].owns /\ ~visits[w].timer /\ ~Waiting(w, "release")'
        BY <1>2, <1>4, <2>1 DEF RenewalInv
      <3> QED BY <1>4, <1>5, <1>7, <2>1, <3>1 DEF RenewalInv
    <2>2. CASE c.kind = "renew"  BY <1>2, <1>4, <1>5, <1>7, <2>2 DEF RenewalInv
    <2>3. CASE c.kind = "release"
      <3>1. ~visits[w].timer /\ ~Waiting(w, "acquire")'
        BY <1>2, <1>4, <2>3 DEF RenewalInv
      <3> QED BY <1>4, <1>5, <1>7, <2>3, <3>1 DEF RenewalInv
    <2> QED BY <1>1, <2>1, <2>2, <2>3 DEF LockCall, Kinds
  <1> QED BY <1>4, <1>8, <1>9

(* The page of an editor who goes on editing renews, or has its release    *)
(* under way, and who has stopped, or owns no lock, renews no more, unless *)
(* the page was left before its acquisition was answered: whatever         *)
(* overtakes what.                                                         *)
THEOREM OwnersGoOnRenewing == LockSpec => []OwnersRenew
  <1>1. LockInit /\ LockTypeOK => RenewingInv
    BY DEF LockInit, RenewingInv, OneAcquisition, RenewalInv, Waiting
  <1>2. RenewingInv /\ LockTypeOK' /\ [LockNext]_lockVars => RenewingInv'
    <2> SUFFICES ASSUME RenewingInv, [LockNext]_lockVars
                 PROVE  OneAcquisition' /\ \A v \in Visits : RenewalInv(v)'
      BY DEF RenewingInv
    <2>1. ASSUME NEW c \in calls, HandleAcquire(c) \/ CheckOwner(c) \/ Release(c) \/ CallFails(c)
          PROVE  OneAcquisition' /\ \A v \in Visits : RenewalInv(v)'
      <3>1. PICK phase \in {"sent", "checked", "granted", "blocked", "failed"} :
               AnswerCall(c, phase)
        <4>1. CASE HandleAcquire(c)  BY <4>1 DEF HandleAcquire, AcquireOrRenew
        <4>2. CASE CheckOwner(c)  BY <4>2 DEF CheckOwner
        <4>3. CASE Release(c)  BY <4>3 DEF Release
        <4>4. CASE CallFails(c)  BY <4>4 DEF CallFails
        <4> QED BY <2>1, <4>1, <4>2, <4>3, <4>4
      <3>2. UNCHANGED visits  BY <2>1 DEF HandleAcquire, CheckOwner, Release, CallFails
      <3> QED BY <3>1, <3>2, AnswerKeepsWaiting, SameWaiting
    <2>2. CASE CleanupExpired \/ RestartLocks \/ LockTimePasses \/ UNCHANGED lockVars
      <3>1. UNCHANGED <<visits, calls>>
        BY <2>2 DEF CleanupExpired, RestartLocks, LockTimePasses, lockVars
      <3>2. OneAcquisition' /\ \A v, kind : Waiting(v, kind)' <=> Waiting(v, kind)
        BY <3>1 DEF RenewingInv, OneAcquisition, Waiting
      <3> QED BY <3>1, <3>2, SameWaiting
    <2> QED BY <2>1, <2>2, PageKeepsRenewing, ArrivalKeepsRenewing DEF LockNext
  <1>3. RenewingInv => OwnersRenew  BY DEF RenewingInv, RenewalInv, OwnersRenew
  <1> QED BY <1>1, <1>2, <1>3, LockTypesHold, PTL DEF LockSpec

-----------------------------------------------------------------------------
(* A session that ended has no token left that a rotation would accept;    *)
(* expired ones included, whose expiry the rotation does not test.         *)
EndedAreRevoked == \A k \in TokenIds : tokens[k].login \in ended => tokens[k].revoked

SessionInv == SessionTypeOK /\ OneTokenPerSession /\ EndedAreRevoked

-----------------------------------------------------------------------------
(* Rows change, none is dropped.                                           *)

(* One row gets another field, its session stays.                          *)
SameSessions(new, rows) ==
    /\ new \in Seq(TokenRow) /\ Len(new) = Len(rows)
    /\ \A l \in 1..Len(rows) : /\ new[l].login = rows[l].login
                               /\ rows[l].revoked => new[l].revoked

LEMMA RowRevoked ==
    ASSUME NEW rows \in Seq(TokenRow), NEW k \in 1..Len(rows),
           NEW new, new = [rows EXCEPT ![k].revoked = TRUE]
    PROVE  /\ SameSessions(new, rows) /\ new[k].revoked
           /\ \A l \in 1..Len(rows) : l # k => new[l] = rows[l]
  <1>1. rows \in [1..Len(rows) -> TokenRow] /\ Len(rows) \in Nat  BY SeqIsFunction
  <1>2. new \in [1..Len(rows) -> TokenRow]  BY <1>1 DEF TokenRow
  <1>3. new \in Seq(TokenRow) /\ Len(new) = Len(rows)  BY <1>1, <1>2, FunctionIsSeq
  <1> QED BY <1>1, <1>3 DEF SameSessions, TokenRow

LEMMA RowAged ==
    ASSUME NEW rows \in Seq(TokenRow), NEW k \in 1..Len(rows), NEW new,
           \/ new = [rows EXCEPT ![k].expired = TRUE]
           \/ new = [rows EXCEPT ![k].deleted = TRUE]
    PROVE  SameSessions(new, rows)
  <1>1. rows \in [1..Len(rows) -> TokenRow] /\ Len(rows) \in Nat  BY SeqIsFunction
  <1>2. new \in [1..Len(rows) -> TokenRow]  BY <1>1, ZenonT(30) DEF TokenRow
  <1>3. new \in Seq(TokenRow) /\ Len(new) = Len(rows)  BY <1>1, <1>2, FunctionIsSeq
  <1>4. \A l \in 1..Len(rows) :
           new[l].login = rows[l].login /\ new[l].revoked = rows[l].revoked
    <2>1. CASE new = [rows EXCEPT ![k].expired = TRUE]  BY <1>1, <2>1 DEF TokenRow
    <2>2. CASE new = [rows EXCEPT ![k].deleted = TRUE]  BY <1>1, <2>2 DEF TokenRow
    <2> QED BY <2>1, <2>2
  <1> QED BY <1>3, <1>4 DEF SameSessions

(* One row is appended.                                                    *)
LEMMA RowInserted ==
    ASSUME NEW rows \in Seq(TokenRow), NEW login \in Nat
    PROVE  LET new == Append(rows, Inserted(login)) IN
           /\ new \in Seq(TokenRow) /\ Len(new) = Len(rows) + 1
           /\ new[Len(rows) + 1] = Inserted(login)
           /\ \A l \in 1..Len(rows) : new[l] = rows[l]
  <1>1. Inserted(login) \in TokenRow  BY DEF Inserted, TokenRow
  <1> QED BY <1>1

(* A request in hand is typed.                                             *)
LEMMA RequestTyped ==
    ASSUME SessionTypeOK, NEW r \in Requests
    PROVE  /\ requests[r] \in RequestStates
           /\ requests[r].phase \in {"asked", "checked", "refused", "leaving"}
                 => requests[r].token \in TokenIds
           /\ requests[r].phase = "answered" => requests[r].successor \in TokenIds
           /\ requests[r].token \in TokenIds \cup {NoToken}
  BY DEF SessionTypeOK, RequestStates

LEMMA TokenTyped ==
    ASSUME SessionTypeOK, NEW k \in TokenIds
    PROVE  /\ tokens[k] \in TokenRow /\ tokens[k].login \in 1..logins
           /\ k \in 1..Len(tokens) /\ tokens \in Seq(TokenRow)
  BY DEF SessionTypeOK, TokenIds

-----------------------------------------------------------------------------
(* The fields that requests change, and the rest.                          *)

RequestsOK ==
    /\ requests \in [Requests -> RequestStates]
    /\ \A r \in Requests :
          /\ requests[r].phase \in {"asked", "checked", "refused", "leaving"}
                => requests[r].token \in TokenIds
          /\ requests[r].phase = "answered" => requests[r].successor \in TokenIds

LEMMA GoTyped ==
    ASSUME SessionTypeOK, NEW r \in Requests, NEW request \in RequestStates,
           Go(r, request), UNCHANGED tokens,
           request.phase \in {"asked", "checked", "refused", "leaving"}
              => request.token \in TokenIds,
           request.phase = "answered" => request.successor \in TokenIds
    PROVE  RequestsOK'
  BY DEF Go, SessionTypeOK, RequestsOK, RequestStates, TokenIds

LEMMA GoIdleTyped ==
    ASSUME SessionTypeOK, NEW r \in Requests, Go(r, IdleRequest), UNCHANGED tokens
    PROVE  RequestsOK'
  <1>1. IdleRequest \in RequestStates /\ IdleRequest.phase = "idle"
    BY DEF IdleRequest, RequestStates
  <1> QED BY <1>1, GoTyped

LEMMA GoToTyped ==
    ASSUME SessionTypeOK, NEW r \in Requests,
           NEW phase \in {"checked", "refused", "left"},
           GoTo(r, phase), UNCHANGED tokens, requests[r].token \in TokenIds
    PROVE  RequestsOK'
  BY DEF GoTo, SessionTypeOK, RequestsOK, RequestStates, TokenIds

(* A request that is answered with a new token, or not; the token is the   *)
(* last of the new rows.                                                   *)
LEMMA GrowTyped ==
    ASSUME SessionTypeOK, NEW r \in Requests,
           tokens' \in Seq(TokenRow), Len(tokens') = Len(tokens) + 1,
           requests[r].token \in TokenIds \cup {NoToken},
           NEW token \in TokenIds \cup {NoToken},
           \/ Go(r, [phase |-> "answered", token |-> token, successor |-> Len(tokens) + 1])
           \/ GoTo(r, "refused") /\ requests[r].token \in TokenIds
    PROVE  RequestsOK'
  <1>1. Len(tokens) \in Nat /\ TokenIds \subseteq TokenIds' /\ Len(tokens) + 1 \in TokenIds'
    BY DEF SessionTypeOK, TokenIds
  <1>2. requests \in [Requests -> RequestStates']
    BY <1>1 DEF SessionTypeOK, RequestStates
  <1>3. CASE Go(r, [phase |-> "answered", token |-> token, successor |-> Len(tokens) + 1])
    BY <1>1, <1>2, <1>3 DEF Go, SessionTypeOK, RequestsOK, RequestStates
  <1>4. CASE GoTo(r, "refused") /\ requests[r].token \in TokenIds
    BY <1>1, <1>2, <1>4, SMTT(20) DEF GoTo, SessionTypeOK, RequestsOK, RequestStates
  <1> QED BY <1>3, <1>4

(* Types after a step that changes neither the rows nor the sessions ...   *)
LEMMA TypesAfterRequest ==
    ASSUME SessionTypeOK, RequestsOK', UNCHANGED <<tokens, logins, ended>>,
           stored' \in TokenIds \cup {NoToken}, accessValid' \in BOOLEAN
    PROVE  SessionTypeOK'
  BY DEF SessionTypeOK, RequestsOK, TokenIds

(* ... and after one that changes a row.                                   *)
LEMMA TypesAfterChange ==
    ASSUME SessionTypeOK, SameSessions(tokens', tokens), ended' \subseteq 1..logins,
           UNCHANGED <<stored, accessValid, logins>>, RequestsOK'
    PROVE  SessionTypeOK'
  <1>1. /\ tokens' \in Seq(TokenRow) /\ TokenIds' = TokenIds
        /\ \A k \in TokenIds : tokens'[k].login = tokens[k].login
    BY DEF SameSessions, TokenIds
  <1> QED BY <1>1 DEF SessionTypeOK, RequestsOK

LEMMA RequestsKept ==
    ASSUME SessionTypeOK, UNCHANGED requests, Len(tokens') = Len(tokens)
    PROVE  RequestsOK'
  BY DEF SessionTypeOK, RequestsOK, RequestStates, TokenIds

-----------------------------------------------------------------------------
(* What the steps do to the rows: a step that inserts none leaves each row *)
(* with its session, and revocations stand.                                *)

LEMMA RevokingIsSafe ==
    ASSUME SessionInv, SameSessions(tokens', tokens), UNCHANGED ended
    PROVE  OneTokenPerSession' /\ EndedAreRevoked'
  <1>1. TokenIds' = TokenIds /\ TokenIds = 1..Len(tokens)
    BY DEF SameSessions, TokenIds
  <1>2. OneTokenPerSession'
    <2> SUFFICES ASSUME NEW k \in TokenIds, NEW l \in TokenIds,
                        ~tokens'[k].revoked, ~tokens'[l].revoked,
                        tokens'[k].login = tokens'[l].login
                 PROVE  k = l
      BY <1>1 DEF OneTokenPerSession
    <2>1. ~tokens[k].revoked /\ ~tokens[l].revoked /\ tokens[k].login = tokens[l].login
      BY <1>1 DEF SameSessions
    <2> QED BY <2>1 DEF SessionInv, OneTokenPerSession
  <1>3. EndedAreRevoked'
    BY <1>1 DEF SessionInv, EndedAreRevoked, SameSessions
  <1> QED BY <1>2, <1>3

LEMMA RowsUnchanged ==
    ASSUME SessionInv, UNCHANGED <<tokens, ended>>
    PROVE  OneTokenPerSession' /\ EndedAreRevoked'
  <1>1. SameSessions(tokens', tokens)  BY DEF SameSessions, SessionInv, SessionTypeOK
  <1> QED BY <1>1, RevokingIsSafe

(* A first token: its session is new.                                      *)
LEMMA LoginKeepsInv ==
    ASSUME SessionInv, NEW r \in Requests, Login(r)
    PROVE  SessionInv'
  <1>1. SessionTypeOK /\ logins \in Nat /\ logins + 1 \in Nat
    BY DEF SessionInv, SessionTypeOK
  <1>2. tokens \in Seq(TokenRow) /\ Len(tokens) \in Nat  BY <1>1 DEF SessionTypeOK
  <1>3. /\ tokens' \in Seq(TokenRow) /\ Len(tokens') = Len(tokens) + 1
        /\ tokens'[Len(tokens) + 1] = Inserted(logins + 1)
        /\ \A l \in 1..Len(tokens) : tokens'[l] = tokens[l]
    BY <1>1, <1>2, RowInserted DEF Login
  <1>4. TokenIds' = TokenIds \cup {Len(tokens) + 1}  BY <1>2, <1>3 DEF TokenIds
  <1>5. RequestsOK'
    BY <1>1, <1>3, RequestTyped, GrowTyped DEF Login
  <1>6. \A k \in TokenIds' : tokens'[k].login \in 1..(logins + 1)
    <2>1. Inserted(logins + 1).login = logins + 1  BY DEF Inserted
    <2>2. \A k \in TokenIds : tokens[k].login \in 1..logins  BY <1>1 DEF SessionTypeOK
    <2> QED BY <1>1, <1>3, <1>4, <2>1, <2>2 DEF TokenIds
  <1>7. SessionTypeOK'
    <2>1. stored' \in TokenIds' \cup {NoToken} /\ accessValid' \in BOOLEAN
      BY <1>1, <1>4 DEF Login, SessionTypeOK
    <2>2. logins' = logins + 1 /\ logins' \in Nat /\ ended' \subseteq 1..logins'
      BY <1>1 DEF Login, SessionTypeOK
    <2> QED BY <1>3, <1>5, <1>6, <2>1, <2>2 DEF SessionTypeOK, RequestsOK
  <1>8. \A k \in TokenIds : /\ tokens'[k] = tokens[k]
                            /\ tokens[k].login # logins + 1
    BY <1>1, <1>3 DEF SessionTypeOK, TokenIds
  <1>9. OneTokenPerSession'
    BY <1>3, <1>4, <1>8 DEF SessionInv, OneTokenPerSession, Inserted
  <1>10. EndedAreRevoked'
    <2>1. logins + 1 \notin ended  BY <1>1 DEF SessionTypeOK
    <2>2. ended' = ended /\ tokens'[Len(tokens) + 1].login = logins + 1
      BY <1>3 DEF Login, Inserted
    <2>3. \A k \in TokenIds : tokens[k].login \in ended => tokens[k].revoked
      BY DEF SessionInv, EndedAreRevoked
    <2> QED BY <1>4, <1>8, <2>1, <2>2, <2>3 DEF EndedAreRevoked
  <1> QED BY <1>7, <1>9, <1>10 DEF SessionInv

(* The rotation: of several requests with one token the first revokes it,  *)
(* and with it the one token of its session that another could present.    *)
LEMMA RotationKeepsInv ==
    ASSUME SessionInv, NEW r \in Requests, RotateRefreshToken(r)
    PROVE  SessionInv'
  <1> DEFINE k == requests[r].token
  <1>1. SessionTypeOK /\ k \in TokenIds
    BY RequestTyped DEF SessionInv, RotateRefreshToken
  <1>2. CASE UNCHANGED tokens
    <2>1. Len(tokens) + 1 # Len(tokens) /\ GoTo(r, "refused")
      <3>1. Len(tokens) \in Nat  BY <1>1 DEF SessionTypeOK
      <3>2. Len(tokens) + 1 # Len(tokens)  BY <3>1
      <3>3. ASSUME tokens' = Append([tokens EXCEPT ![k].revoked = TRUE],
                                    Inserted(tokens[k].login))
            PROVE  FALSE
        <4> DEFINE spent == [tokens EXCEPT ![k].revoked = TRUE]
        <4>1. tokens[k].login \in Nat /\ tokens \in Seq(TokenRow) /\ k \in 1..Len(tokens)
          BY <1>1, TokenTyped DEF TokenRow
        <4>2. spent \in Seq(TokenRow) /\ Len(spent) = Len(tokens)
          <5>1. PICK new : new = spent  OBVIOUS
          <5> QED BY <4>1, <5>1, RowRevoked DEF SameSessions
        <4>3. Len(tokens') = Len(tokens) + 1  BY <3>3, <4>1, <4>2, RowInserted
        <4> QED BY <1>2, <3>2, <4>3
      <3> QED BY <3>2, <3>3 DEF RotateRefreshToken
    <2>2. RequestsOK'  BY <1>1, <1>2, <2>1, GoToTyped
    <2>3. SessionTypeOK'
      BY <1>1, <1>2, <2>2, TypesAfterRequest DEF RotateRefreshToken, SessionTypeOK
    <2> QED BY <1>2, <2>3, RowsUnchanged DEF RotateRefreshToken, SessionInv
  <1>3. CASE ~UNCHANGED tokens
    <2> DEFINE next == Len(tokens) + 1
    <2>1. /\ tokens[k] \in TokenRow /\ tokens \in Seq(TokenRow) /\ k \in 1..Len(tokens)
          /\ tokens[k].login \in 1..logins /\ tokens[k].login \in Nat
          /\ Len(tokens) \in Nat
      BY <1>1, TokenTyped DEF TokenRow
    <2>2. PICK spent : spent = [tokens EXCEPT ![k].revoked = TRUE]  OBVIOUS
    <2>3. /\ NotYetRevoked(k)
          /\ tokens' = Append(spent, Inserted(tokens[k].login))
          /\ \/ Go(r, [phase |-> "answered", token |-> k, successor |-> next])
             \/ GoTo(r, "refused")
          /\ UNCHANGED <<stored, accessValid, logins, ended>>
      BY <1>3, <2>2 DEF RotateRefreshToken
    <2>4. /\ spent \in Seq(TokenRow) /\ Len(spent) = Len(tokens)
          /\ spent[k].revoked
          /\ \A l \in 1..Len(tokens) : /\ spent[l].login = tokens[l].login
                                       /\ l # k => spent[l] = tokens[l]
      BY <2>1, <2>2, RowRevoked DEF SameSessions
    <2>5. /\ tokens' \in Seq(TokenRow) /\ Len(tokens') = next
          /\ tokens'[next] = Inserted(tokens[k].login)
          /\ \A l \in 1..Len(tokens) : tokens'[l] = spent[l]
      BY <2>3, <2>1, <2>4, RowInserted
    <2>6. TokenIds' = TokenIds \cup {next}  BY <2>1, <2>5 DEF TokenIds
    <2>7. RequestsOK'  BY <1>1, <2>3, <2>5, GrowTyped
    <2>8. \A l \in TokenIds' : tokens'[l].login \in 1..logins
      <3>1. Inserted(tokens[k].login).login = tokens[k].login  BY DEF Inserted
      <3>2. \A l \in TokenIds : tokens[l].login \in 1..logins  BY <1>1 DEF SessionTypeOK
      <3> QED BY <2>1, <2>4, <2>5, <2>6, <3>1, <3>2 DEF TokenIds
    <2>9. SessionTypeOK'
      BY <1>1, <2>3, <2>5, <2>6, <2>7, <2>8 DEF SessionTypeOK, RequestsOK
    <2>10. \A l \in TokenIds :
              /\ tokens'[l].login = tokens[l].login
              /\ ~tokens'[l].revoked => ~tokens[l].revoked /\ l # k
      BY <2>1, <2>2, <2>4, <2>5 DEF TokenIds
    <2>11. \A l \in TokenIds : ~tokens'[l].revoked => tokens[l].login # tokens[k].login
      BY <1>1, <2>3, <2>10 DEF SessionInv, OneTokenPerSession, NotYetRevoked
    <2>12. tokens'[next].login = tokens[k].login /\ ~tokens'[next].revoked
      BY <2>5 DEF Inserted
    <2>13. OneTokenPerSession'
      <3> SUFFICES ASSUME NEW i \in TokenIds', NEW j \in TokenIds',
                          ~tokens'[i].revoked, ~tokens'[j].revoked,
                          tokens'[i].login = tokens'[j].login
                   PROVE  i = j
        BY DEF OneTokenPerSession
      <3>1. CASE i \in TokenIds /\ j \in TokenIds
        BY <2>10, <3>1 DEF SessionInv, OneTokenPerSession
      <3>2. CASE i = next \/ j = next
        BY <2>6, <2>10, <2>11, <2>12, <3>2
      <3> QED BY <2>6, <3>1, <3>2
    <2>14. EndedAreRevoked'
      <3>1. tokens[k].login \notin ended
        BY <1>1, <2>3 DEF SessionInv, EndedAreRevoked, NotYetRevoked
      <3>2. \A l \in TokenIds : tokens[l].login \in ended => tokens'[l].revoked
        BY <2>10 DEF SessionInv, EndedAreRevoked
      <3> QED BY <2>3, <2>6, <2>10, <2>12, <3>1, <3>2 DEF EndedAreRevoked
    <2> QED BY <2>9, <2>13, <2>14 DEF SessionInv
  <1> QED BY <1>2, <1>3

(* A logout: the token it revokes was the only one of its session.         *)
LEMMA LogoutKeepsInv ==
    ASSUME SessionInv, NEW r \in Requests, Logout(r)
    PROVE  SessionInv'
  <1> DEFINE k == requests[r].token
  <1>1. SessionTypeOK /\ k \in TokenIds
    BY RequestTyped DEF SessionInv, Logout
  <1>2. /\ tokens[k] \in TokenRow /\ tokens \in Seq(TokenRow) /\ k \in 1..Len(tokens)
        /\ tokens[k].login \in 1..logins
    BY <1>1, TokenTyped
  <1>3. PICK spent : spent = [tokens EXCEPT ![k].revoked = TRUE]  OBVIOUS
  <1>4. SameSessions(spent, tokens) /\ spent[k].revoked
    BY <1>2, <1>3, RowRevoked
  <1>5. CASE UNCHANGED <<tokens, ended>>
    <2>1. RequestsOK'  BY <1>1, <1>5, GoToTyped DEF Logout
    <2>2. SessionTypeOK'
      BY <1>1, <1>5, <2>1, TypesAfterRequest DEF Logout, SessionTypeOK
    <2> QED BY <1>5, <2>2, RowsUnchanged DEF SessionInv
  <1>6. CASE tokens[k].deleted /\ tokens' = tokens /\ ~UNCHANGED ended
    BY <1>6 DEF Logout, Usable
  <1>7. CASE /\ tokens' = spent
             /\ ended' = IF Usable(k) THEN ended \cup {tokens[k].login} ELSE ended
    <2>1. RequestsOK'
      <3>1. GoTo(r, "left")  BY DEF Logout
      <3>2. TokenIds' = TokenIds  BY <1>4, <1>7 DEF SameSessions, TokenIds
      <3>3. RequestStates' = RequestStates  BY <3>2 DEF RequestStates
      <3> QED BY <1>1, <3>1, <3>2, <3>3 DEF GoTo, SessionTypeOK, RequestsOK, RequestStates
    <2>2. ended' \subseteq 1..logins  BY <1>1, <1>2, <1>7 DEF SessionTypeOK
    <2>3. SessionTypeOK'
      BY <1>1, <1>4, <1>7, <2>1, <2>2, TypesAfterChange DEF Logout
    <2>4. SameSessions(tokens', tokens)  BY <1>4, <1>7
    <2>5. CASE ~Usable(k)
      BY <1>7, <2>3, <2>4, <2>5, RevokingIsSafe DEF SessionInv
    <2>6. CASE Usable(k)
      <3>1. TokenIds' = TokenIds  BY <2>4 DEF SameSessions, TokenIds
      <3>2. \A l \in TokenIds : tokens[l].login = tokens[k].login => tokens'[l].revoked
        <4> SUFFICES ASSUME NEW l \in TokenIds, tokens[l].login = tokens[k].login
                     PROVE  tokens'[l].revoked
          OBVIOUS
        <4>1. CASE l = k  BY <1>4, <1>7, <4>1
        <4>2. CASE l # k
          <5>1. tokens[l].revoked
            BY <1>1, <2>6, <4>2 DEF SessionInv, OneTokenPerSession, Usable
          <5> QED BY <2>4, <5>1 DEF SameSessions, TokenIds
        <4> QED BY <4>1, <4>2
      <3>3. EndedAreRevoked'
        <4> SUFFICES ASSUME NEW l \in TokenIds, tokens'[l].login \in ended'
                     PROVE  tokens'[l].revoked
          BY <3>1 DEF EndedAreRevoked
        <4>1. tokens'[l].login = tokens[l].login  BY <2>4 DEF SameSessions, TokenIds
        <4>2. CASE tokens[l].login = tokens[k].login  BY <3>2, <4>2
        <4>3. CASE tokens[l].login # tokens[k].login
          <5>1. tokens[l].login \in ended  BY <1>7, <2>6, <4>1, <4>3
          <5> QED BY <2>4, <5>1 DEF SessionInv, EndedAreRevoked, SameSessions, TokenIds
        <4> QED BY <4>2, <4>3
      <3>4. OneTokenPerSession'
        BY <2>4, <3>1 DEF SessionInv, OneTokenPerSession, SameSessions, TokenIds
      <3> QED BY <2>3, <3>3, <3>4 DEF SessionInv
    <2> QED BY <2>5, <2>6
  <1> QED BY <1>3, <1>5, <1>6, <1>7 DEF Logout, RevokeRefreshTokenByHash

(* The steps that leave every row as it is.                                *)
LEMMA ClientKeepsInv ==
    ASSUME SessionInv, NEW r \in Requests,
           \/ BeginRefresh(r) \/ GetRefreshTokenByHash(r) \/ saveTokens(r) \/ LoseAnswer(r)
           \/ clearTokens(r) \/ BeginLogout(r) \/ LogoutCompletes(r)
    PROVE  SessionInv'
  <1>1. /\ SessionTypeOK /\ stored \in TokenIds \cup {NoToken} /\ accessValid \in BOOLEAN
        /\ UNCHANGED <<tokens, logins, ended>>
    BY DEF SessionInv, SessionTypeOK, BeginRefresh, GetRefreshTokenByHash, saveTokens,
           LoseAnswer, clearTokens, BeginLogout, LogoutCompletes
  <1>2. RequestsOK'
    <2>1. CASE BeginRefresh(r)
      <3>1. [phase |-> "asked", token |-> stored, successor |-> NoToken] \in RequestStates
        BY <1>1 DEF RequestStates
      <3> QED BY <1>1, <2>1, <3>1, GoTyped DEF BeginRefresh
    <2>2. CASE BeginLogout(r)
      <3>1. [phase |-> "leaving", token |-> stored, successor |-> NoToken] \in RequestStates
        BY <1>1 DEF RequestStates
      <3> QED BY <1>1, <2>2, <3>1, GoTyped DEF BeginLogout
    <2>3. CASE GetRefreshTokenByHash(r)
      BY <1>1, <2>3, RequestTyped, GoToTyped DEF GetRefreshTokenByHash
    <2>4. CASE LoseAnswer(r)
      <3>1. CASE requests[r].token = NoToken
        BY <1>1, <2>4, <3>1, GoIdleTyped DEF LoseAnswer
      <3>2. CASE requests[r].token # NoToken
        BY <1>1, <2>4, <3>2, RequestTyped, GoToTyped DEF LoseAnswer
      <3> QED BY <3>1, <3>2
    <2>5. CASE saveTokens(r) \/ clearTokens(r) \/ LogoutCompletes(r)
      BY <1>1, <2>5, GoIdleTyped DEF saveTokens, clearTokens, LogoutCompletes
    <2> QED BY <2>1, <2>2, <2>3, <2>4, <2>5
  <1>3. stored' \in TokenIds \cup {NoToken} /\ accessValid' \in BOOLEAN
    BY <1>1, RequestTyped
    DEF BeginRefresh, GetRefreshTokenByHash, saveTokens, LoseAnswer, clearTokens,
        BeginLogout, LogoutCompletes
  <1>4. SessionTypeOK'  BY <1>1, <1>2, <1>3, TypesAfterRequest
  <1> QED BY <1>1, <1>4, RowsUnchanged DEF SessionInv

(* Expiry and cleanup revoke nothing.                                      *)
LEMMA TimeKeepsInv ==
    ASSUME SessionInv, NEW k \in TokenIds, RefreshTokenExpires(k) \/ DeleteToken(k)
    PROVE  SessionInv'
  <1>1. SessionTypeOK  BY DEF SessionInv
  <1>2. \/ tokens' = [tokens EXCEPT ![k].expired = TRUE]
        \/ tokens' = [tokens EXCEPT ![k].deleted = TRUE]
    BY DEF RefreshTokenExpires, DeleteToken
  <1>3. SameSessions(tokens', tokens)  BY <1>1, <1>2, TokenTyped, RowAged
  <1>4. UNCHANGED <<stored, accessValid, requests, logins, ended>>
    BY DEF RefreshTokenExpires, DeleteToken
  <1>5. RequestsOK'  BY <1>1, <1>3, <1>4, RequestsKept DEF SameSessions
  <1>6. ended' \subseteq 1..logins  BY <1>1, <1>4 DEF SessionTypeOK
  <1>7. SessionTypeOK'  BY <1>1, <1>3, <1>4, <1>5, <1>6, TypesAfterChange
  <1> QED BY <1>3, <1>4, <1>7, RevokingIsSafe DEF SessionInv

-----------------------------------------------------------------------------
(* The invariant of the sessions is inductive.                             *)
THEOREM SessionInvariant == SessionSpec => []SessionInv
  <1>1. SessionInit => SessionInv
    <2> SUFFICES ASSUME SessionInit PROVE SessionInv
      OBVIOUS
    <2>1. TokenIds = {} /\ tokens \in Seq(TokenRow)  BY DEF SessionInit, TokenIds
    <2>2. IdleRequest \in RequestStates /\ IdleRequest.phase = "idle"
      BY DEF IdleRequest, RequestStates
    <2> QED BY <2>1, <2>2
            DEF SessionInit, SessionInv, SessionTypeOK, OneTokenPerSession, EndedAreRevoked
  <1>2. SessionInv /\ [SessionNext]_sessionVars => SessionInv'
    <2> SUFFICES ASSUME SessionInv, [SessionNext]_sessionVars PROVE SessionInv'
      OBVIOUS
    <2>1. CASE AccessTokenExpires
      <3>1. RequestsOK'
        BY <2>1, RequestsKept DEF AccessTokenExpires, SessionInv
      <3>2. SessionTypeOK'
        BY <2>1, <3>1, TypesAfterRequest DEF AccessTokenExpires, SessionInv, SessionTypeOK
      <3> QED BY <2>1, <3>2, RowsUnchanged DEF AccessTokenExpires, SessionInv
    <2>2. CASE UNCHANGED sessionVars
      BY <2>2 DEF sessionVars, SessionInv, SessionTypeOK, OneTokenPerSession,
                  EndedAreRevoked, TokenIds, RequestStates
    <2> QED BY <2>1, <2>2, LoginKeepsInv, RotationKeepsInv, LogoutKeepsInv, ClientKeepsInv,
               TimeKeepsInv DEF SessionNext
  <1> QED BY <1>1, <1>2, PTL DEF SessionSpec

(* However many requests refresh at once, a session has one token that can *)
(* still be used.                                                          *)
THEOREM TokensAreSingle == SessionSpec => []OneTokenPerSession
  <1>1. SessionInv => OneTokenPerSession  BY DEF SessionInv
  <1> QED BY <1>1, SessionInvariant, PTL

(* No refresh, however late, continues a session that a logout ended.      *)
THEOREM EndsAreFinal == SessionSpec => []EndedStaysEnded
  <1>1. SessionInv => EndedStaysEnded
    BY DEF SessionInv, EndedAreRevoked, EndedStaysEnded, LiveTokens, Usable
  <1> QED BY <1>1, SessionInvariant, PTL

-----------------------------------------------------------------------------
StreamRows ==
    [user : Viewers, state : PresenceStates, registered : BOOLEAN, queue : Seq(Snapshots),
     view : Snapshots, handler : {"streaming", "leaving", "ended"}, offered : Nat,
     missed : BOOLEAN]
Publications ==
    [by : {"stream", "leave", "update", "cleanup"} \X Nat, snapshot : Snapshots, to : SUBSET Nat]

(* The last event that a client was sent or will be, if none is dropped.   *)
Newest(stream) == IF stream.queue = << >> THEN stream.view ELSE stream.queue[Len(stream.queue)]
Seen(stream) == {stream.view} \cup {stream.queue[i] : i \in 1..Len(stream.queue)}

(* An event of age "changes" shows the registry as it is.                  *)
Fresh(snapshot) ==
    /\ snapshot.age =< changes
    /\ snapshot.age = changes => snapshot.users = SnapshotOf(streams, changes).users

(* Every registered stream was offered the newest event, or will be.       *)
InForm(k) ==
    \/ \E p \in publishing : IsDue(p)
    \/ \E p \in publishing : ~IsDue(p) /\ p.snapshot.age = changes /\ k \in p.to
    \/ streams[k].offered = changes

StreamInv(k) ==
    /\ \A event \in Seen(streams[k]) : Fresh(event)
    /\ streams[k].offered =< changes
    /\ streams[k].handler = "streaming" /\ ~streams[k].missed =>
          Newest(streams[k]).age = streams[k].offered
    /\ streams[k].registered => streams[k].handler # "ended" /\ InForm(k)

PresenceInv ==
    /\ streams \in Seq(StreamRows) /\ publishing \subseteq Publications
    /\ changes \in Nat /\ updates \in Nat /\ (streams # << >> => changes > 0)
    /\ \A p \in publishing : ~IsDue(p) => Fresh(p.snapshot) /\ p.to \subseteq StreamIds
    /\ \A k \in StreamIds : StreamInv(k)

LEMMA PresenceFacts ==
    ASSUME PresenceInv
    PROVE  /\ streams \in Seq(StreamRows) /\ Len(streams) \in Nat /\ changes \in Nat
           /\ updates \in Nat /\ publishing \subseteq Publications
           /\ \A k \in StreamIds :
                 /\ streams[k] \in StreamRows /\ streams[k].queue \in Seq(Snapshots)
                 /\ streams[k].view \in Snapshots /\ streams[k].offered \in Nat
                 /\ streams[k].registered \in BOOLEAN /\ streams[k].missed \in BOOLEAN
           /\ \A p \in publishing : p.snapshot \in Snapshots /\ p.snapshot.age \in Nat
  <1>1. /\ streams \in Seq(StreamRows) /\ changes \in Nat /\ updates \in Nat
        /\ publishing \subseteq Publications
    BY DEF PresenceInv
  <1>2. \A k \in StreamIds : streams[k] \in StreamRows
    BY <1>1 DEF StreamIds
  <1>3. \A p \in publishing : p \in Publications
    BY <1>1
  <1>4. \A p \in Publications : p.snapshot \in Snapshots
    BY DEF Publications
  <1>5. \A event \in Snapshots : event.age \in Nat
    BY DEF Snapshots
  <1>6. \A stream \in StreamRows :
           /\ stream.queue \in Seq(Snapshots) /\ stream.view \in Snapshots
           /\ stream.offered \in Nat /\ stream.registered \in BOOLEAN
           /\ stream.missed \in BOOLEAN
    BY DEF StreamRows
  <1> QED BY <1>1, <1>2, <1>3, <1>4, <1>5, <1>6

(* What a snapshot shows depends on who is registered, and how, alone.     *)
StreamsIn(registry, u) ==
    {k \in 1..Len(registry) : registry[k].registered /\ registry[k].user = u}
ShownIn(registry, u) ==
    IF StreamsIn(registry, u) = {} THEN "absent"
    ELSE IF \E k \in StreamsIn(registry, u) : registry[k].state = "editing" THEN "editing"
    ELSE "viewing"

LEMMA SnapshotShows ==
    ASSUME NEW r, NEW a
    PROVE  SnapshotOf(r, a).users = [u \in Viewers |-> ShownIn(r, u)]
  BY DEF SnapshotOf, ShownIn, StreamsIn

LEMMA SameRegistry ==
    ASSUME NEW r, NEW s, NEW a, NEW b, Len(r) = Len(s),
           \A k \in 1..Len(r) : /\ r[k].user = s[k].user /\ r[k].state = s[k].state
                                /\ r[k].registered = s[k].registered
    PROVE  SnapshotOf(r, a).users = SnapshotOf(s, b).users
  <1>1. \A u : StreamsIn(r, u) = StreamsIn(s, u)
    BY DEF StreamsIn
  <1>2. \A u : \A k \in StreamsIn(r, u) : r[k].state = s[k].state
    BY DEF StreamsIn
  <1>3. \A u : ShownIn(r, u) = ShownIn(s, u)
    BY <1>1, <1>2 DEF ShownIn
  <1>4. [u \in Viewers |-> ShownIn(r, u)] = [u \in Viewers |-> ShownIn(s, u)]
    BY <1>3
  <1>5. SnapshotOf(r, a).users = [u \in Viewers |-> ShownIn(r, u)]
    BY SnapshotShows
  <1>6. SnapshotOf(s, b).users = [u \in Viewers |-> ShownIn(s, u)]
    BY SnapshotShows
  <1> QED BY <1>4, <1>5, <1>6

LEMMA SnapshotsAreTyped ==
    ASSUME NEW r, NEW a \in Nat
    PROVE  /\ SnapshotOf(r, a) \in Snapshots
           /\ SnapshotOf(r, a).age = a
           /\ \A b : SnapshotOf(r, b).users = SnapshotOf(r, a).users
  BY DEF SnapshotOf, Snapshots, PresenceStates

LEMMA NothingIsTyped == Nothing \in Snapshots /\ Nothing.age = 0
  BY DEF Nothing, Snapshots

(* A step that keeps who is registered, and how, keeps what is fresh.      *)
LEMMA QuietKeepsFresh ==
    ASSUME PresenceInv, changes' = changes, Len(streams') = Len(streams),
           \A k \in StreamIds : /\ streams'[k].user = streams[k].user
                                /\ streams'[k].state = streams[k].state
                                /\ streams'[k].registered = streams[k].registered,
           NEW event, Fresh(event)
    PROVE  Fresh(event)'
  <1>1. SnapshotOf(streams', changes).users = SnapshotOf(streams, changes).users
    <2>1. Len(streams') = Len(streams) /\ StreamIds = 1..Len(streams')
      BY DEF StreamIds
    <2> QED BY <2>1, SameRegistry
  <1> QED BY <1>1 DEF Fresh

(* A change makes every event known so far an older one.                   *)
LEMMA ChangeKeepsFresh ==
    ASSUME PresenceInv, changes' = changes + 1, NEW event, event.age \in Nat, Fresh(event)
    PROVE  Fresh(event)' /\ event.age < changes'
  BY PresenceFacts DEF Fresh

(* A stream that nothing happens to stays as it should be.                 *)
SameStream(k) == streams'[k] = streams[k]

LEMMA QuietStep ==
    ASSUME PresenceInv, UNCHANGED <<changes, updates>>,
           streams' \in Seq(StreamRows), Len(streams') = Len(streams),
           publishing' \subseteq Publications,
           \A k \in StreamIds : /\ streams'[k].user = streams[k].user
                                /\ streams'[k].state = streams[k].state
                                /\ streams'[k].registered = streams[k].registered,
           \A p \in publishing' : ~IsDue(p) => Fresh(p.snapshot) /\ p.to \subseteq StreamIds,
           \A k \in StreamIds :
              /\ \A event \in Seen(streams'[k]) : Fresh(event)
              /\ streams'[k].offered =< changes
              /\ streams'[k].handler = "streaming" /\ ~streams'[k].missed =>
                    Newest(streams'[k]).age = streams'[k].offered
              /\ streams'[k].registered => streams'[k].handler # "ended" /\ InForm(k)'
    PROVE  PresenceInv'
  <1>1. \A event : Fresh(event) => Fresh(event)'
    BY QuietKeepsFresh
  <1>2. StreamIds' = StreamIds
    BY DEF StreamIds
  <1>3. \A p \in publishing' : ~IsDue(p) => Fresh(p.snapshot)' /\ p.to \subseteq StreamIds'
    BY <1>1, <1>2
  <1>4. \A k \in StreamIds' : StreamInv(k)'
    <2> SUFFICES ASSUME NEW k \in StreamIds PROVE StreamInv(k)'
      BY <1>2
    <2>1. \A event \in Seen(streams'[k]) : Fresh(event)'
      BY <1>1
    <2> QED BY <2>1 DEF StreamInv
  <1>5. changes' \in Nat /\ updates' \in Nat /\ (streams' # << >> => changes' > 0)
    BY PresenceFacts DEF PresenceInv
  <1> QED BY <1>3, <1>4, <1>5 DEF PresenceInv, IsDue

(* A change of the registry: the rows stay but for state and registration, *)
(* or one is added, and a publication is due or has the new snapshot.      *)
LEMMA ChangeStep ==
    ASSUME PresenceInv, changes' = changes + 1, updates' \in Nat,
           streams' \in Seq(StreamRows), Len(streams) =< Len(streams'),
           NEW new \in Publications, publishing' = publishing \cup {new},
           \A k \in StreamIds :
              /\ streams'[k].queue = streams[k].queue /\ streams'[k].view = streams[k].view
              /\ streams'[k].offered = streams[k].offered
              /\ streams'[k].missed = streams[k].missed
              /\ streams'[k].handler = streams[k].handler \/ streams'[k].handler = "ended"
              /\ streams'[k].registered => streams[k].registered /\ streams'[k].handler # "ended",
           \A k \in StreamIds' \ StreamIds :
              /\ streams'[k].queue = << >> /\ streams'[k].view = Nothing
              /\ streams'[k].offered = 0 /\ streams'[k].handler = "streaming",
           \/ IsDue(new)
           \/ /\ new.snapshot = SnapshotOf(streams', changes')
              /\ new.to \subseteq StreamIds'
              /\ \A k \in StreamIds' : streams'[k].registered => k \in new.to
    PROVE  PresenceInv'
  <1>1. /\ changes \in Nat /\ changes' \in Nat /\ StreamIds \subseteq StreamIds'
        /\ Len(streams) \in Nat /\ Len(streams') \in Nat
    BY PresenceFacts DEF StreamIds
  <1>2. \A event \in Snapshots : Fresh(event) => Fresh(event)'
    <2> TAKE event \in Snapshots
    <2>1. event.age \in Nat
      BY DEF Snapshots
    <2> QED BY <2>1, ChangeKeepsFresh
  <1>3. \A p \in publishing' : ~IsDue(p) => Fresh(p.snapshot)' /\ p.to \subseteq StreamIds'
    <2> SUFFICES ASSUME NEW p \in publishing', ~IsDue(p)
                 PROVE  Fresh(p.snapshot)' /\ p.to \subseteq StreamIds'
      OBVIOUS
    <2>1. CASE p \in publishing
      BY <1>1, <1>2, <2>1, PresenceFacts DEF PresenceInv
    <2>2. CASE p = new
      <3>1. new.snapshot = SnapshotOf(streams', changes') /\ new.to \subseteq StreamIds'
        BY <2>2
      <3>2. new.snapshot.age = changes'
        BY <1>1, <3>1, SnapshotsAreTyped
      <3> QED BY <1>1, <2>2, <3>1, <3>2 DEF Fresh
    <2> QED BY <2>1, <2>2
  <1>4. ASSUME NEW k \in StreamIds'
        PROVE  InForm(k)' \/ ~streams'[k].registered
    <2>1. new \in publishing'
      OBVIOUS
    <2>2. CASE IsDue(new)
      BY <2>1, <2>2 DEF InForm, IsDue
    <2>3. CASE ~IsDue(new)
      <3>1. /\ new.snapshot = SnapshotOf(streams', changes')
            /\ streams'[k].registered => k \in new.to
        BY <2>3, <1>4
      <3>2. new.snapshot.age = changes'
        BY <1>1, <3>1, SnapshotsAreTyped
      <3> QED BY <2>1, <2>3, <3>1, <3>2 DEF InForm, IsDue
    <2> QED BY <2>2, <2>3
  <1>5. ASSUME NEW k \in StreamIds
        PROVE  StreamInv(k)'
    <2>1. StreamInv(k) /\ k \in StreamIds'
      BY <1>1 DEF PresenceInv
    <2>2. /\ streams[k].queue \in Seq(Snapshots) /\ streams[k].view \in Snapshots
          /\ streams[k].offered \in Nat
      BY PresenceFacts
    <2>3. Seen(streams'[k]) = Seen(streams[k]) /\ Seen(streams[k]) \subseteq Snapshots
      BY <2>2 DEF Seen
    <2>4. Newest(streams'[k]) = Newest(streams[k])
      BY DEF Newest
    <2>5. \A event \in Seen(streams'[k]) : Fresh(event)'
      BY <1>2, <2>1, <2>3 DEF StreamInv
    <2>6. streams'[k].offered =< changes'
      BY <1>1, <2>1, <2>2 DEF StreamInv
    <2>7. streams'[k].handler = "streaming" /\ ~streams'[k].missed =>
             Newest(streams'[k]).age = streams'[k].offered
      BY <2>1, <2>4 DEF StreamInv
    <2> QED BY <1>4, <2>1, <2>5, <2>6, <2>7 DEF StreamInv
  <1>6. ASSUME NEW k \in StreamIds' \ StreamIds
        PROVE  StreamInv(k)'
    <2>1. Seen(streams'[k]) = {Nothing} /\ Newest(streams'[k]) = Nothing
      BY <1>6 DEF Seen, Newest
    <2>2. Nothing.age = 0 /\ Nothing.age # changes' /\ 0 =< changes'
      BY <1>1, NothingIsTyped, PresenceFacts
    <2>3. Fresh(Nothing)'
      BY <2>2 DEF Fresh
    <2> QED BY <1>4, <1>6, <2>1, <2>2, <2>3 DEF StreamInv
  <1>7. publishing' \subseteq Publications
    BY PresenceFacts
  <1> QED BY <1>1, <1>3, <1>5, <1>6, <1>7 DEF PresenceInv, IsDue

LEMMA InFormStays ==
    ASSUME UNCHANGED <<changes, publishing>>, NEW k \in StreamIds, InForm(k),
           streams'[k].offered = streams[k].offered
    PROVE  InForm(k)'
  BY DEF InForm, IsDue

(* A step at one stream, that publishes nothing.                           *)
LEMMA StreamStep ==
    ASSUME PresenceInv, UNCHANGED <<changes, updates, publishing>>,
           NEW k \in StreamIds, NEW row \in StreamRows, streams' = [streams EXCEPT ![k] = row],
           row.user = streams[k].user, row.state = streams[k].state,
           row.registered = streams[k].registered, row.offered = streams[k].offered,
           \A event \in Seen(row) : Fresh(event),
           row.handler = "streaming" /\ ~row.missed => Newest(row).age = row.offered,
           row.registered => row.handler # "ended"
    PROVE  PresenceInv'
  <1>1. /\ streams' \in Seq(StreamRows) /\ Len(streams') = Len(streams)
        /\ streams'[k] = row
        /\ \A j \in StreamIds : j # k => streams'[j] = streams[j]
    BY PresenceFacts DEF StreamIds
  <1>2. \A p \in publishing' : ~IsDue(p) => Fresh(p.snapshot) /\ p.to \subseteq StreamIds
    BY DEF PresenceInv
  <1>3. publishing' \subseteq Publications
    BY PresenceFacts
  <1>4. \A j \in StreamIds : /\ streams'[j].user = streams[j].user
                             /\ streams'[j].state = streams[j].state
                             /\ streams'[j].registered = streams[j].registered
                             /\ streams'[j].offered = streams[j].offered
    BY <1>1
  <1>5. \A j \in StreamIds : StreamInv(j)
    BY DEF PresenceInv
  <1>6. \A j \in StreamIds : streams[j].registered => InForm(j)'
    BY <1>4, <1>5, InFormStays DEF StreamInv
  <1>7. ASSUME NEW j \in StreamIds
        PROVE  /\ \A event \in Seen(streams'[j]) : Fresh(event)
               /\ streams'[j].offered =< changes
               /\ streams'[j].handler = "streaming" /\ ~streams'[j].missed =>
                     Newest(streams'[j]).age = streams'[j].offered
               /\ streams'[j].registered => streams'[j].handler # "ended" /\ InForm(j)'
    <2>1. CASE j = k
      BY <1>1, <1>4, <1>5, <1>6, <2>1 DEF StreamInv
    <2>2. CASE j # k
      BY <1>1, <1>5, <1>6, <2>2 DEF StreamInv
    <2> QED BY <2>1, <2>2
  <1> HIDE DEF Fresh
  <1> QED BY <1>1, <1>2, <1>3, <1>4, <1>7, QuietStep

LEMMA StreamEndsKeeps ==
    ASSUME PresenceInv, NEW k \in StreamIds, StreamEnds(k)
    PROVE  PresenceInv'
  <1>1. streams[k] \in StreamRows
    BY PresenceFacts
  <1> DEFINE row == [streams[k] EXCEPT !.handler = "leaving", !.queue = << >>, !.view = Nothing]
  <1>2. /\ UNCHANGED <<changes, updates, publishing>>
        /\ streams' = [streams EXCEPT ![k].handler = "leaving", ![k].queue = << >>,
                                      ![k].view = Nothing]
    BY DEF StreamEnds
  <1>3. streams' = [streams EXCEPT ![k] = row]
    BY <1>2, PresenceFacts DEF StreamIds
  <1>4. /\ row \in StreamRows /\ row.user = streams[k].user /\ row.state = streams[k].state
        /\ row.registered = streams[k].registered /\ row.offered = streams[k].offered
        /\ row.handler = "leaving" /\ row.queue = << >> /\ row.view = Nothing
    <2> DEFINE one == [streams[k] EXCEPT !.handler = "leaving"]
               two == [one EXCEPT !.queue = << >>]
               three == [two EXCEPT !.view = Nothing]
    <2>1. one \in StreamRows /\ one.handler = "leaving" /\ one.user = streams[k].user
          /\ one.state = streams[k].state /\ one.registered = streams[k].registered
          /\ one.offered = streams[k].offered
      BY <1>1 DEF StreamRows
    <2> HIDE DEF one
    <2>2. two \in StreamRows /\ two.handler = "leaving" /\ two.user = one.user
          /\ two.state = one.state /\ two.registered = one.registered
          /\ two.offered = one.offered /\ two.queue = << >>
      <3>1. one.queue \in Seq(Snapshots) /\ << >> \in Seq(Snapshots)
        BY <2>1 DEF StreamRows
      <3> QED BY <2>1, <3>1 DEF StreamRows
    <2> HIDE DEF two
    <2>3. three \in StreamRows /\ three.handler = "leaving" /\ three.user = two.user
          /\ three.state = two.state /\ three.registered = two.registered
          /\ three.offered = two.offered /\ three.queue = << >> /\ three.view = Nothing
      BY <2>2, NothingIsTyped DEF StreamRows
    <2> HIDE DEF three
    <2>4. row = three
      BY DEF one, two, three
    <2> QED BY <2>1, <2>2, <2>3, <2>4
  <1> HIDE DEF row
  <1>5. Seen(row) = {Nothing}
    BY <1>4 DEF Seen
  <1>6. Fresh(Nothing)
    <2>1. changes > 0 /\ changes \in Nat
      BY DEF PresenceInv, StreamIds
    <2> QED BY <2>1, NothingIsTyped DEF Fresh
  <1>7. /\ \A event \in Seen(row) : Fresh(event)
        /\ row.handler = "streaming" /\ ~row.missed => Newest(row).age = row.offered
        /\ row.registered => row.handler # "ended"
    BY <1>4, <1>5, <1>6
  <1> HIDE DEF Nothing
  <1> QED BY <1>2, <1>3, <1>4, <1>7, StreamStep

(* Taking an element off a queue.                                          *)
LEMMA Dequeues ==
    ASSUME NEW S, NEW q \in Seq(S), q # << >>
    PROVE  /\ Tail(q) \in Seq(S) /\ q[1] \in S /\ Head(q) = q[1]
           /\ \A i \in 1..Len(Tail(q)) : Tail(q)[i] = q[i + 1] /\ i + 1 \in 1..Len(q)
           /\ Tail(q) = << >> => Len(q) = 1
           /\ Tail(q) # << >> => Tail(q)[Len(Tail(q))] = q[Len(q)]
  <1>1. /\ Len(q) \in Nat \ {0} /\ Tail(q) \in Seq(S) /\ Head(q) = q[1] /\ q[1] \in S
        /\ Len(Tail(q)) = Len(q) - 1 /\ \A i \in 1..Len(q) - 1 : Tail(q)[i] = q[i + 1]
    OBVIOUS
  <1>2. Tail(q) = << >> => Len(q) = 1
    <2>1. \A t \in Seq(S), n \in Nat : t = << >> /\ Len(t) = n - 1 => n = 1
      <3> TAKE t \in Seq(S), n \in Nat
      <3> HAVE t = << >> /\ Len(t) = n - 1
      <3>1. Len(t) = 0
        OBVIOUS
      <3>2. n - 1 = 0
        BY <3>1
      <3> QED BY <3>2
    <2>2. PICK t \in Seq(S), n \in Nat : t = Tail(q) /\ n = Len(q) /\ Len(t) = n - 1
      BY <1>1
    <2> QED BY <2>1, <2>2
  <1>3. Tail(q) # << >> => Tail(q)[Len(Tail(q))] = q[Len(q)]
    <2>1. \A t \in Seq(S) : t # << >> => Len(t) > 0
      OBVIOUS
    <2> QED BY <1>1, <2>1
  <1> QED BY <1>1, <1>2, <1>3

(* The handler writes the event at the head of its queue.                  *)
LEMMA WriteEventKeeps ==
    ASSUME PresenceInv, NEW k \in StreamIds, WriteEvent(k)
    PROVE  PresenceInv'
  <1>1. streams[k] \in StreamRows /\ streams[k].queue \in Seq(Snapshots)
    BY PresenceFacts
  <1> DEFINE queue == streams[k].queue
             one == [streams[k] EXCEPT !.queue = Tail(queue)]
             row == [one EXCEPT !.view = Head(queue)]
  <1>2. /\ UNCHANGED <<changes, updates, publishing>>
        /\ streams' = [streams EXCEPT ![k].queue = Tail(@), ![k].view = Head(streams[k].queue)]
        /\ queue # << >>
    BY DEF WriteEvent
  <1>3. streams' = [streams EXCEPT ![k] = row]
    BY <1>2, PresenceFacts DEF StreamIds
  <1>4. /\ Tail(queue) \in Seq(Snapshots) /\ queue[1] \in Snapshots /\ Head(queue) = queue[1]
        /\ \A i \in 1..Len(Tail(queue)) : Tail(queue)[i] = queue[i + 1] /\ i + 1 \in 1..Len(queue)
        /\ Tail(queue) = << >> => Len(queue) = 1
        /\ Tail(queue) # << >> => Tail(queue)[Len(Tail(queue))] = queue[Len(queue)]
        /\ 1 \in 1..Len(queue)
    <2>1. 1 \in 1..Len(queue)
      BY <1>1, <1>2
    <2> QED BY <1>1, <1>2, <2>1, Dequeues
  <1> HIDE DEF queue
  <1>5. /\ one \in StreamRows /\ one.user = streams[k].user /\ one.state = streams[k].state
        /\ one.registered = streams[k].registered /\ one.offered = streams[k].offered
        /\ one.handler = streams[k].handler /\ one.queue = Tail(queue)
        /\ one.missed = streams[k].missed
    BY <1>1, <1>4 DEF StreamRows
  <1> HIDE DEF one
  <1>6. /\ row \in StreamRows /\ row.user = streams[k].user /\ row.state = streams[k].state
        /\ row.registered = streams[k].registered /\ row.offered = streams[k].offered
        /\ row.handler = streams[k].handler /\ row.queue = Tail(queue)
        /\ row.missed = streams[k].missed /\ row.view = queue[1]
    BY <1>4, <1>5 DEF StreamRows
  <1> HIDE DEF row
  <1>7. Seen(row) \subseteq Seen(streams[k])
    <2> SUFFICES ASSUME NEW event \in Seen(row) PROVE event \in Seen(streams[k])
      OBVIOUS
    <2>1. CASE event = row.view
      BY <1>4, <1>6, <2>1 DEF Seen, queue
    <2>2. CASE event # row.view
      <3>1. PICK i \in 1..Len(Tail(queue)) : event = Tail(queue)[i]
        BY <1>6, <2>2 DEF Seen
      <3>2. i + 1 \in 1..Len(queue) /\ event = queue[i + 1]
        BY <1>4, <3>1
      <3> QED BY <3>2 DEF Seen, queue
    <2> QED BY <2>1, <2>2
  <1>8. Newest(row) = Newest(streams[k])
    <2>1. CASE Tail(queue) = << >>
      BY <1>2, <1>4, <1>6, <2>1 DEF Newest, queue
    <2>2. CASE Tail(queue) # << >>
      BY <1>2, <1>4, <1>6, <2>2 DEF Newest, queue
    <2> QED BY <2>1, <2>2
  <1>9. StreamInv(k)
    BY DEF PresenceInv
  <1>10. /\ \A event \in Seen(row) : Fresh(event)
         /\ row.handler = "streaming" /\ ~row.missed => Newest(row).age = row.offered
         /\ row.registered => row.handler # "ended"
    BY <1>6, <1>7, <1>8, <1>9 DEF StreamInv
  <1> QED BY <1>2, <1>3, <1>6, <1>10, StreamStep

(* A stream that was taken out already just ends.                          *)
LEMMA UnregisterKeeps ==
    ASSUME PresenceInv, NEW k \in StreamIds, Unregister(k)
    PROVE  PresenceInv'
  <1>1. streams[k] \in StreamRows /\ k \in 1..Len(streams) /\ streams \in Seq(StreamRows)
    BY PresenceFacts DEF StreamIds
  <1> DEFINE stopped == [streams[k] EXCEPT !.handler = "ended"]
             out == [stopped EXCEPT !.registered = FALSE]
  <1>2. /\ stopped \in StreamRows /\ stopped.user = streams[k].user /\ stopped.state = streams[k].state
        /\ stopped.registered = streams[k].registered /\ stopped.offered = streams[k].offered
        /\ stopped.queue = streams[k].queue /\ stopped.view = streams[k].view
        /\ stopped.missed = streams[k].missed /\ stopped.handler = "ended"
    BY <1>1 DEF StreamRows
  <1>3. CASE ~streams[k].registered
    <2>1. streams' = [streams EXCEPT ![k] = stopped] /\ UNCHANGED <<publishing, changes, updates>>
      BY <1>1, <1>3 DEF Unregister
    <2>2. Seen(stopped) = Seen(streams[k])
      BY <1>2 DEF Seen
    <2>3. \A event \in Seen(stopped) : Fresh(event)
      BY <2>2 DEF PresenceInv, StreamInv
    <2> HIDE DEF stopped
    <2> QED BY <1>2, <1>3, <2>1, <2>3, StreamStep
  <1>4. CASE streams[k].registered
    <2> DEFINE new == Due(<<"leave", k>>)
    <2>1. /\ streams' = [streams EXCEPT ![k].handler = "ended", ![k].registered = FALSE]
          /\ changes' = changes + 1 /\ publishing' = publishing \cup {new}
          /\ updates' = updates
      BY <1>4 DEF Unregister, Change
    <2>2. streams' = [streams EXCEPT ![k] = out]
      BY <1>1, <2>1
    <2>3. /\ out \in StreamRows /\ out.queue = streams[k].queue /\ out.view = streams[k].view
          /\ out.offered = streams[k].offered /\ out.missed = streams[k].missed
          /\ out.handler = "ended" /\ ~out.registered
      BY <1>2 DEF StreamRows
    <2> HIDE DEF out
    <2>4. /\ streams' \in Seq(StreamRows) /\ Len(streams') = Len(streams)
          /\ streams'[k] = out /\ \A j \in StreamIds : j # k => streams'[j] = streams[j]
      BY <1>1, <2>2, <2>3 DEF StreamIds
    <2>5. \A j \in StreamIds :
              /\ streams'[j].queue = streams[j].queue /\ streams'[j].view = streams[j].view
              /\ streams'[j].offered = streams[j].offered
              /\ streams'[j].missed = streams[j].missed
              /\ streams'[j].handler = streams[j].handler \/ streams'[j].handler = "ended"
              /\ streams'[j].registered => streams[j].registered /\ streams'[j].handler # "ended"
      <3> TAKE j \in StreamIds
      <3>1. StreamInv(j)
        BY DEF PresenceInv
      <3> QED BY <2>3, <2>4, <3>1 DEF StreamInv
    <2>6. new \in Publications /\ IsDue(new)
      BY <1>1, NothingIsTyped DEF Due, IsDue, Publications
    <2>7. StreamIds' = StreamIds /\ Len(streams) =< Len(streams')
      BY <2>4, PresenceFacts DEF StreamIds
    <2>8. updates' \in Nat
      BY <2>1, PresenceFacts
    <2> HIDE DEF new
    <2> QED BY <2>1, <2>4, <2>5, <2>6, <2>7, <2>8, ChangeStep
  <1> QED BY <1>1, <1>3, <1>4 DEF StreamRows

(* UpdateState and the cleanup change rows, and order a publication.       *)
LEMMA RowsChange ==
    ASSUME PresenceInv, changes' = changes + 1, updates' \in Nat,
           NEW new \in Publications, IsDue(new), publishing' = publishing \cup {new},
           NEW rows, streams' = rows,
           rows = [k \in StreamIds |-> rows[k]],
           \A k \in StreamIds :
              /\ rows[k] \in StreamRows
              /\ rows[k].queue = streams[k].queue /\ rows[k].view = streams[k].view
              /\ rows[k].offered = streams[k].offered /\ rows[k].missed = streams[k].missed
              /\ rows[k].handler = streams[k].handler
              /\ rows[k].registered => streams[k].registered
    PROVE  PresenceInv'
  <1>1. rows \in Seq(StreamRows) /\ Len(rows) = Len(streams)
    BY PresenceFacts DEF StreamIds
  <1>2. StreamIds' = StreamIds
    BY <1>1 DEF StreamIds
  <1>3. \A k \in StreamIds :
           rows[k].registered => rows[k].handler # "ended"
    BY DEF PresenceInv, StreamInv
  <1>4. Len(streams) =< Len(streams')
    BY <1>1, PresenceFacts
  <1> QED BY <1>1, <1>2, <1>3, <1>4, ChangeStep

LEMMA UpdateStateKeeps ==
    ASSUME PresenceInv, NEW u \in Viewers, NEW state \in PresenceStates, UpdateState(u, state)
    PROVE  PresenceInv'
  <1>1. updates' = updates + 1 /\ updates' \in Nat
    BY PresenceFacts DEF UpdateState
  <1>2. CASE StreamsOf(u) = {}
    <2>1. UNCHANGED <<streams, publishing, changes>>
      BY <1>2 DEF UpdateState
    <2> QED BY <1>1, <2>1 DEF PresenceInv, StreamInv, InForm, Fresh, StreamIds, IsDue
  <1>3. CASE StreamsOf(u) # {}
    <2> DEFINE new == Due(<<"update", updates + 1>>)
               rows == [k \in StreamIds |-> IF k \in StreamsOf(u)
                          THEN [streams[k] EXCEPT !.state = state] ELSE streams[k]]
    <2>1. /\ streams' = rows /\ changes' = changes + 1 /\ publishing' = publishing \cup {new}
      BY <1>3 DEF UpdateState, Change
    <2>2. new \in Publications /\ IsDue(new)
      BY <1>1, NothingIsTyped DEF Due, IsDue, Publications
    <2>3. ASSUME NEW k \in StreamIds
          PROVE  /\ rows[k] \in StreamRows
                 /\ rows[k].queue = streams[k].queue /\ rows[k].view = streams[k].view
                 /\ rows[k].offered = streams[k].offered /\ rows[k].missed = streams[k].missed
                 /\ rows[k].handler = streams[k].handler
                 /\ rows[k].registered => streams[k].registered
      <3>1. streams[k] \in StreamRows
        BY PresenceFacts
      <3>2. rows[k] = [streams[k] EXCEPT !.state = state] \/ rows[k] = streams[k]
        OBVIOUS
      <3> HIDE DEF rows
      <3>3. CASE rows[k] = streams[k]
        BY <3>1, <3>3
      <3>4. CASE rows[k] = [streams[k] EXCEPT !.state = state]
        BY <3>1, <3>4 DEF StreamRows
      <3> QED BY <3>2, <3>3, <3>4
    <2>4. rows = [k \in StreamIds |-> rows[k]]
      OBVIOUS
    <2> HIDE DEF rows, new
    <2> QED BY <1>1, <2>1, <2>2, <2>3, <2>4, RowsChange
  <1> QED BY <1>2, <1>3

LEMMA CleanupStaleKeeps ==
    ASSUME PresenceInv, CleanupStale
    PROVE  PresenceInv'
  <1>1. PICK removed \in SUBSET Registered :
           Change([k \in StreamIds |-> IF k \in removed
                     THEN [streams[k] EXCEPT !.registered = FALSE] ELSE streams[k]])
    BY DEF CleanupStale
  <1> DEFINE new == Due(<<"cleanup", 0>>)
             rows == [k \in StreamIds |-> IF k \in removed
                        THEN [streams[k] EXCEPT !.registered = FALSE] ELSE streams[k]]
  <1>2. /\ streams' = rows /\ changes' = changes + 1 /\ publishing' = publishing \cup {new}
        /\ updates' = updates
    BY <1>1 DEF CleanupStale, Change
  <1>3. new \in Publications /\ IsDue(new) /\ updates' \in Nat
    BY <1>2, NothingIsTyped, PresenceFacts DEF Due, IsDue, Publications
  <1>4. ASSUME NEW k \in StreamIds
        PROVE  /\ rows[k] \in StreamRows
               /\ rows[k].queue = streams[k].queue /\ rows[k].view = streams[k].view
               /\ rows[k].offered = streams[k].offered /\ rows[k].missed = streams[k].missed
               /\ rows[k].handler = streams[k].handler
               /\ rows[k].registered => streams[k].registered
    <2>1. streams[k] \in StreamRows
      BY PresenceFacts
    <2>2. rows[k] = [streams[k] EXCEPT !.registered = FALSE] \/ rows[k] = streams[k]
      OBVIOUS
    <2> HIDE DEF rows
    <2>3. CASE rows[k] = streams[k]
      BY <2>1, <2>3
    <2>4. CASE rows[k] = [streams[k] EXCEPT !.registered = FALSE]
      BY <2>1, <2>4 DEF StreamRows
    <2> QED BY <2>2, <2>3, <2>4
  <1>5. rows = [k \in StreamIds |-> rows[k]]
    OBVIOUS
  <1> HIDE DEF rows, new
  <1> QED BY <1>2, <1>3, <1>4, <1>5, RowsChange

LEMMA RegisterKeeps ==
    ASSUME PresenceInv, NEW u \in Viewers, Register(u)
    PROVE  PresenceInv'
  <1> DEFINE n == Len(streams) + 1
             stream == [user |-> u, state |-> "viewing", registered |-> TRUE,
                        queue |-> << >>, view |-> Nothing, handler |-> "streaming",
                        offered |-> 0, missed |-> FALSE]
             new == [by |-> <<"stream", n>>, snapshot |-> SnapshotOf(streams', changes + 1),
                     to |-> Registered \cup {n}]
  <1>1. /\ streams' = Append(streams, stream) /\ changes' = changes + 1
        /\ publishing' = publishing \cup {new} /\ updates' = updates
    BY DEF Register, Change
  <1>2. stream \in StreamRows
    BY NothingIsTyped DEF StreamRows, PresenceStates
  <1>3. /\ stream.queue = << >> /\ stream.view = Nothing /\ stream.offered = 0
        /\ stream.handler = "streaming"
    OBVIOUS
  <1> HIDE DEF stream
  <1>4. /\ streams' \in Seq(StreamRows) /\ Len(streams') = n /\ streams'[n] = stream
        /\ \A k \in StreamIds : streams'[k] = streams[k]
        /\ StreamIds' = StreamIds \cup {n} /\ n \in Nat /\ n \notin StreamIds
    BY <1>1, <1>2, PresenceFacts DEF StreamIds
  <1>5. Registered \cup {n} \subseteq StreamIds' /\ Registered \cup {n} \in SUBSET Nat
    BY <1>4, PresenceFacts DEF Registered, StreamIds
  <1>6. new \in Publications
    BY <1>4, <1>5, PresenceFacts, SnapshotsAreTyped DEF Publications
  <1>7. /\ new.snapshot = SnapshotOf(streams', changes') /\ new.to \subseteq StreamIds'
        /\ \A k \in StreamIds' : streams'[k].registered => k \in new.to
    BY <1>1, <1>4, <1>5 DEF Registered
  <1>8. \A k \in StreamIds :
           /\ streams'[k] = streams[k]
           /\ streams'[k].registered => streams[k].registered /\ streams'[k].handler # "ended"
    BY <1>4 DEF PresenceInv, StreamInv
  <1>9. Len(streams) =< Len(streams') /\ updates' \in Nat
    BY <1>1, <1>4, PresenceFacts
  <1>10. \A k \in StreamIds' \ StreamIds : streams'[k] = stream
    BY <1>4
  <1> HIDE DEF new, n
  <1> QED BY <1>1, <1>3, <1>4, <1>6, <1>7, <1>8, <1>9, <1>10, ChangeStep

(* PublishSnapshot gets the newest snapshot, for all who are registered.   *)
LEMMA PublishSnapshotKeeps ==
    ASSUME PresenceInv, NEW p \in publishing, PublishSnapshot(p)
    PROVE  PresenceInv'
  <1> DEFINE one == [p EXCEPT !.snapshot = SnapshotOf(streams, changes)]
             new == [one EXCEPT !.to = Registered]
  <1>1. /\ p \in Publications /\ changes \in Nat
        /\ Registered \in SUBSET Nat /\ Registered \subseteq StreamIds
    BY PresenceFacts DEF Registered, StreamIds
  <1>2. IsDue(p) /\ UNCHANGED <<streams, changes, updates>>
    BY DEF PublishSnapshot
  <1>3. one \in Publications /\ one.snapshot = SnapshotOf(streams, changes)
    BY <1>1, SnapshotsAreTyped DEF Publications
  <1> HIDE DEF one
  <1>4. /\ new \in Publications /\ new.snapshot = SnapshotOf(streams, changes)
        /\ new.to = Registered
    BY <1>1, <1>3 DEF Publications
  <1>5. \/ Registered = {} /\ publishing' = publishing \ {p}
        \/ publishing' = (publishing \ {p}) \cup {new}
    BY DEF PublishSnapshot, one
  <1> HIDE DEF new
  <1>6. publishing' \subseteq Publications
    BY <1>4, <1>5, PresenceFacts
  <1>7. ~IsDue(new) /\ Fresh(new.snapshot)
    <2>1. 0 \notin Registered
      BY DEF Registered, StreamIds
    <2>2. new.snapshot.age = changes
          /\ new.snapshot.users = SnapshotOf(streams, changes).users
      BY <1>1, <1>4, SnapshotsAreTyped
    <2> QED BY <1>1, <1>4, <2>1, <2>2 DEF IsDue, Fresh
  <1>8. \A q \in publishing' : ~IsDue(q) => Fresh(q.snapshot) /\ q.to \subseteq StreamIds
    BY <1>1, <1>4, <1>5, <1>7 DEF PresenceInv
  <1>9. ASSUME NEW k \in StreamIds, streams[k].registered
        PROVE  InForm(k)'
    <2>1. k \in Registered
      BY <1>9 DEF Registered
    <2>2. new \in publishing' /\ k \in new.to
      BY <1>4, <1>5, <2>1
    <2>3. new.snapshot.age = changes'
      BY <1>1, <1>2, <1>4, SnapshotsAreTyped
    <2> QED BY <1>7, <2>2, <2>3 DEF InForm, IsDue
  <1> QED BY <1>2, <1>6, <1>8, <1>9, QuietStep, PresenceFacts DEF PresenceInv, StreamInv

(* What a stream is after an event was offered to it: the newest event it  *)
(* was ever offered is the last in its queue, or the stream missed one.    *)
LEMMA OfferedStream ==
    ASSUME PresenceInv, NEW k \in StreamIds, NEW event \in Snapshots, Fresh(event)
    PROVE  LET row == Offered(streams[k], event) IN
           /\ row \in StreamRows
           /\ row.user = streams[k].user /\ row.state = streams[k].state
           /\ row.registered = streams[k].registered /\ row.handler = streams[k].handler
           /\ \A e \in Seen(row) : Fresh(e)
           /\ row.offered =< changes
           /\ streams[k].offered = changes => row.offered = changes
           /\ streams[k].registered /\ event.age = changes => row.offered = changes
           /\ row.handler = "streaming" /\ ~row.missed => Newest(row).age = row.offered
  <1>1. /\ streams[k] \in StreamRows /\ streams[k].queue \in Seq(Snapshots)
        /\ streams[k].offered \in Nat /\ changes \in Nat /\ event.age \in Nat
        /\ streams[k].registered \in BOOLEAN
        /\ event.age =< changes
    BY PresenceFacts DEF Fresh, Snapshots
  <1>2. StreamInv(k)
    BY DEF PresenceInv
  <1>3. CASE ~streams[k].registered
    BY <1>1, <1>2, <1>3 DEF Offered, StreamInv
  <1>4. CASE streams[k].registered
    <2> DEFINE fits == Len(streams[k].queue) < ClientBufferSize
               newest == event.age >= streams[k].offered
               queue == IF fits THEN Append(streams[k].queue, event) ELSE streams[k].queue
               offered == IF newest THEN event.age ELSE streams[k].offered
               missed == ~fits \/ ~newest
               one == [streams[k] EXCEPT !.queue = queue]
               two == [one EXCEPT !.offered = offered]
               row == [two EXCEPT !.missed = missed]
    <2>1. queue \in Seq(Snapshots) /\ offered \in Nat /\ missed \in BOOLEAN
      BY <1>1
    <2>2. Offered(streams[k], event) = row
      BY <1>1, <1>4 DEF Offered
    <2> HIDE DEF queue, offered, missed
    <2>3. /\ one \in StreamRows /\ one.user = streams[k].user /\ one.state = streams[k].state
          /\ one.registered = streams[k].registered /\ one.handler = streams[k].handler
          /\ one.queue = queue /\ one.view = streams[k].view
      BY <1>1, <2>1 DEF StreamRows
    <2> HIDE DEF one
    <2>4. /\ two \in StreamRows /\ two.user = streams[k].user /\ two.state = streams[k].state
          /\ two.registered = streams[k].registered /\ two.handler = streams[k].handler
          /\ two.queue = queue /\ two.view = streams[k].view /\ two.offered = offered
      BY <2>1, <2>3 DEF StreamRows
    <2> HIDE DEF two
    <2>5. /\ row \in StreamRows /\ row.user = streams[k].user /\ row.state = streams[k].state
          /\ row.registered = streams[k].registered /\ row.handler = streams[k].handler
          /\ row.queue = queue /\ row.view = streams[k].view /\ row.offered = offered
          /\ row.missed = missed
      BY <2>1, <2>4 DEF StreamRows
    <2> HIDE DEF row
    <2>6. Seen(row) \subseteq Seen(streams[k]) \cup {event}
      <3>1. CASE fits
        <4>1. Len(queue) = Len(streams[k].queue) + 1
              /\ \A i \in 1..Len(queue) :
                    queue[i] = event \/ \E j \in 1..Len(streams[k].queue) : queue[i] = streams[k].queue[j]
          BY <1>1, <3>1 DEF queue
        <4> QED BY <2>5, <4>1 DEF Seen
      <3>2. CASE ~fits
        BY <2>5, <3>2 DEF Seen, queue
      <3> QED BY <3>1, <3>2
    <2>7. \A e \in Seen(row) : Fresh(e)
      BY <1>2, <2>6 DEF StreamInv
    <2>8. /\ row.offered =< changes
          /\ streams[k].offered = changes => row.offered = changes
          /\ event.age = changes => row.offered = changes
      BY <1>1, <1>2, <2>5 DEF StreamInv, offered
    <2>9. ~row.missed => Newest(row).age = row.offered
      <3> SUFFICES ASSUME fits, newest PROVE Newest(row).age = row.offered
        BY <2>5 DEF missed
      <3>1. queue = Append(streams[k].queue, event) /\ offered = event.age
        BY DEF queue, offered
      <3>2. Len(queue) = Len(streams[k].queue) + 1 /\ queue[Len(queue)] = event
            /\ queue # << >>
        BY <1>1, <3>1
      <3> QED BY <2>5, <3>1, <3>2 DEF Newest
    <2> HIDE DEF fits, newest
    <2> QED BY <2>2, <2>5, <2>7, <2>8, <2>9
  <1> QED BY <1>1, <1>3, <1>4

LEMMA TrySendKeeps ==
    ASSUME PresenceInv, NEW p \in publishing, NEW k \in StreamIds, TrySend(p, k)
    PROVE  PresenceInv'
  <1> DEFINE row == Offered(streams[k], p.snapshot)
             rest == [p EXCEPT !.to = p.to \ {k}]
  <1>1. /\ p \in Publications /\ ~IsDue(p) /\ Fresh(p.snapshot) /\ p.to \subseteq StreamIds
        /\ p.snapshot \in Snapshots
    BY PresenceFacts DEF TrySend, PresenceInv
  <1>2. /\ streams' = [streams EXCEPT ![k] = row] /\ UNCHANGED <<changes, updates>>
        /\ publishing' = (publishing \ {p}) \cup (IF p.to = {k} THEN {} ELSE {rest})
    BY <1>1 DEF TrySend, Publications
  <1>3. /\ row \in StreamRows
        /\ row.user = streams[k].user /\ row.state = streams[k].state
        /\ row.registered = streams[k].registered /\ row.handler = streams[k].handler
        /\ \A e \in Seen(row) : Fresh(e)
        /\ row.offered =< changes
        /\ streams[k].offered = changes => row.offered = changes
        /\ streams[k].registered /\ p.snapshot.age = changes => row.offered = changes
        /\ row.handler = "streaming" /\ ~row.missed => Newest(row).age = row.offered
    BY <1>1, OfferedStream
  <1> HIDE DEF row
  <1>4. /\ rest \in Publications /\ rest.snapshot = p.snapshot /\ rest.to = p.to \ {k}
    BY <1>1 DEF Publications
  <1> HIDE DEF rest
  <1>5. ~IsDue(rest)
    <2>1. 0 \notin rest.to
      BY <1>1, <1>4 DEF StreamIds
    <2> QED BY <2>1 DEF IsDue
  <1>6. /\ streams' \in Seq(StreamRows) /\ Len(streams') = Len(streams) /\ streams'[k] = row
        /\ \A j \in StreamIds : j # k => streams'[j] = streams[j]
    BY <1>2, <1>3, PresenceFacts DEF StreamIds
  <1>7. publishing' \subseteq Publications
    BY <1>2, <1>4, PresenceFacts
  <1>8. \A q \in publishing' : ~IsDue(q) => Fresh(q.snapshot) /\ q.to \subseteq StreamIds
    BY <1>1, <1>2, <1>4 DEF PresenceInv
  <1>9. ASSUME NEW j \in StreamIds, streams[j].registered
        PROVE  InForm(j)'
    <2>1. InForm(j)
      BY <1>9 DEF PresenceInv, StreamInv
    <2>2. CASE streams[j].offered = changes
      <3>1. streams'[j].offered = changes'
        BY <1>2, <1>3, <1>6, <2>2
      <3> QED BY <3>1 DEF InForm
    <2>3. ASSUME NEW q \in publishing, IsDue(q)
          PROVE  InForm(j)'
      <3>1. q \in publishing'
        BY <1>1, <1>2, <2>3
      <3> QED BY <2>3, <3>1 DEF InForm, IsDue
    <2>4. ASSUME NEW q \in publishing, ~IsDue(q), q.snapshot.age = changes, j \in q.to
          PROVE  InForm(j)'
      <3>1. CASE q # p
        <4>1. q \in publishing'
          BY <1>2, <3>1
        <4> QED BY <1>2, <2>4, <4>1 DEF InForm, IsDue
      <3>2. CASE q = p /\ j = k
        <4>1. streams'[j].offered = changes'
          BY <1>2, <1>3, <1>6, <1>9, <2>4, <3>2
        <4> QED BY <4>1 DEF InForm
      <3>3. CASE q = p /\ j # k
        <4>1. rest \in publishing' /\ j \in rest.to
          BY <1>2, <1>4, <2>4, <3>3
        <4> QED BY <1>2, <1>4, <1>5, <2>4, <3>3, <4>1 DEF InForm, IsDue
      <3> QED BY <3>1, <3>2, <3>3
    <2> QED BY <2>1, <2>2, <2>3, <2>4 DEF InForm
  <1>10. ASSUME NEW j \in StreamIds
         PROVE  /\ streams'[j].user = streams[j].user
                /\ streams'[j].state = streams[j].state
                /\ streams'[j].registered = streams[j].registered
                /\ \A event \in Seen(streams'[j]) : Fresh(event)
                /\ streams'[j].offered =< changes
                /\ streams'[j].handler = "streaming" /\ ~streams'[j].missed =>
                      Newest(streams'[j]).age = streams'[j].offered
                /\ streams'[j].registered => streams'[j].handler # "ended" /\ InForm(j)'
    <2>1. StreamInv(j)
      BY DEF PresenceInv
    <2>2. CASE j = k
      BY <1>3, <1>6, <1>9, <2>1, <2>2 DEF StreamInv
    <2>3. CASE j # k
      BY <1>6, <1>9, <2>1, <2>3 DEF StreamInv
    <2> QED BY <2>2, <2>3
  <1> QED BY <1>2, <1>6, <1>7, <1>8, <1>10, QuietStep

(* The inductive invariant: who is registered was offered the newest state *)
(* of the registry, or a publication is under way that will offer it.      *)
THEOREM PresenceInvariant == PresenceSpec => []PresenceInv
  <1>1. PresenceInit => PresenceInv
    <2> SUFFICES ASSUME PresenceInit PROVE PresenceInv
      OBVIOUS
    <2>1. streams = << >> /\ publishing = {} /\ changes = 0 /\ updates = 0
      BY DEF PresenceInit
    <2>2. StreamIds = {} /\ streams \in Seq(StreamRows)
      BY <2>1 DEF StreamIds
    <2> QED BY <2>1, <2>2 DEF PresenceInv
  <1>2. PresenceInv /\ [PresenceNext]_presenceVars => PresenceInv'
    <2> SUFFICES ASSUME PresenceInv, [PresenceNext]_presenceVars PROVE PresenceInv'
      OBVIOUS
    <2>1. CASE UNCHANGED presenceVars
      BY <2>1 DEF presenceVars, PresenceInv, StreamInv, InForm, Fresh, StreamIds, IsDue
    <2>2. CASE PresenceNext
      BY <2>2, RegisterKeeps, UpdateStateKeeps, StreamEndsKeeps, UnregisterKeeps,
         WriteEventKeeps, PublishSnapshotKeeps, TrySendKeeps, CleanupStaleKeeps
         DEF PresenceNext
    <2> QED BY <2>1, <2>2
  <1> QED BY <1>1, <1>2, PTL DEF PresenceSpec

(* When all is sent and read, a connected client shows who is there now,   *)
(* unless the last event for it was dropped or overtaken, however the      *)
(* publishers, updates, ends of streams and cleanups cross.                *)
THEOREM ViewsBecomeCurrent == PresenceSpec => []ViewsAreCurrent
  <1>1. PresenceInv => ViewsAreCurrent
    <2> SUFFICES ASSUME PresenceInv, NEW k \in Registered
                 PROVE  /\ streams[k].handler # "ended"
                        /\ publishing = {} /\ streams[k].handler = "streaming"
                           /\ streams[k].queue = << >> /\ ~streams[k].missed =>
                              streams[k].view.users = SnapshotOf(streams, changes).users
      BY DEF ViewsAreCurrent
    <2>1. k \in StreamIds /\ streams[k].registered /\ StreamInv(k)
      BY DEF Registered, PresenceInv
    <2>2. streams[k].handler # "ended" /\ InForm(k)
      BY <2>1 DEF StreamInv
    <2>3. ASSUME publishing = {}, streams[k].handler = "streaming", streams[k].queue = << >>,
                 ~streams[k].missed
          PROVE  streams[k].view.users = SnapshotOf(streams, changes).users
      <3>1. streams[k].offered = changes
        BY <2>2, <2>3 DEF InForm
      <3>2. streams[k].view.age = changes
        BY <2>1, <2>3, <3>1 DEF StreamInv, Newest
      <3>3. Fresh(streams[k].view)
        BY <2>1 DEF StreamInv, Seen
      <3> QED BY <3>2, <3>3 DEF Fresh
    <2> QED BY <2>2, <2>3
  <1> QED BY <1>1, PresenceInvariant, PTL

-----------------------------------------------------------------------------
(* The instance that gathers the components.                               *)

(* The types of presence: who is sent an event is a stream, and nobody     *)
(* twice.                                                                  *)
THEOREM PresenceTypesHold == PresenceSpec => []PresenceTypeOK
  <1>1. PresenceInv => PresenceTypeOK
    <2> SUFFICES ASSUME PresenceInv PROVE PresenceTypeOK
      OBVIOUS
    <2>1. \A k \in StreamIds : streams[k] \in StreamRows
      BY DEF PresenceInv, StreamIds
    <2>2. \A p \in publishing : p.snapshot \in Snapshots /\ p.to \subseteq StreamIds \cup {0}
      BY DEF PresenceInv, Publications, IsDue
    <2> QED BY <2>1, <2>2 DEF PresenceInv, PresenceTypeOK, StreamRows
  <1> QED BY <1>1, PresenceInvariant, PTL

(* A behaviour of the instance is one of every component: it starts in the *)
(* component's initial states, and its steps are the component's, though   *)
(* not all of them, or leave it alone.                                     *)
LEMMA OfflineGathered == ClientsSpec => OfflineSpec
  <1>1. ClientsInit => OfflineInit
    BY DEF ClientsInit
  <1>2. [ClientsNext]_clientVars => [OfflineNext]_offlineVars
    BY DEF ClientsNext, clientVars
  <1> QED BY <1>1, <1>2, PTL DEF ClientsSpec, OfflineSpec

LEMMA SessionGathered == ClientsSpec => SessionSpec
  <1>1. ClientsInit => SessionInit
    BY DEF ClientsInit
  <1>2. [ClientsNext]_clientVars => [SessionNext]_sessionVars
    BY DEF ClientsNext, clientVars
  <1> QED BY <1>1, <1>2, PTL DEF ClientsSpec, SessionSpec

LEMMA LockGathered == ClientsSpec => LockSpec
  <1>1. ClientsInit => LockInit
    BY DEF ClientsInit
  <1>2. [ClientsNext]_clientVars => [LockNext]_lockVars
    BY DEF ClientsNext, clientVars
  <1> QED BY <1>1, <1>2, PTL DEF ClientsSpec, LockSpec

LEMMA PresenceGathered == ClientsSpec => PresenceSpec
  <1>1. ClientsInit => PresenceInit
    BY DEF ClientsInit
  <1>2. [ClientsNext]_clientVars => [PresenceNext]_presenceVars
    BY DEF ClientsNext, clientVars
  <1> QED BY <1>1, <1>2, PTL DEF ClientsSpec, PresenceSpec

LEMMA CalendarGathered == ClientsSpec => CalendarSpec
  <1>1. ClientsInit => CalendarInit
    BY DEF ClientsInit
  <1>2. [ClientsNext]_clientVars => [CalendarNext]_calendarVars
    BY DEF ClientsNext, clientVars
  <1> QED BY <1>1, <1>2, PTL DEF ClientsSpec, CalendarSpec

(* Every component's state holds values of its types, whichever component  *)
(* moves, for every instance.                                              *)
THEOREM ClientsTyped == ClientsSpec => []ClientsTypeOK
  <1>1. SessionInv => SessionTypeOK
    BY DEF SessionInv
  <1> QED BY <1>1, OfflineTypesHold, SessionInvariant, LockTypesHold, PresenceTypesHold,
             CalendarTypesHold, OfflineGathered, SessionGathered, LockGathered, PresenceGathered,
             CalendarGathered, PTL DEF ClientsTypeOK
=============================================================================
