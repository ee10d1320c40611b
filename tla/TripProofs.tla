----------------------------- MODULE TripProofs -----------------------------
(***************************************************************************)
(* Theorems about what changes a trip's itinerary and what follows it.     *)
(* TripApproval, for every set of trips and users and every number of      *)
(* revisions and lost withdrawals: no row mixes two decisions, and a stale *)
(* approval has a known cause.                                             *)
(***************************************************************************)
EXTENDS TripApproval, TLAPS

-----------------------------------------------------------------------------
(* The inductive invariant: a row tells one story because every copy that  *)
(* a request carries does, and still has the status that was checked.      *)

CopyOK(r) ==
    /\ OneStory(r.fields)
    /\ r.fields.status \in AllowedFrom(r.act)
    /\ r.act = "submit" => CanSubmit(r)

CopiesOK == \A u \in Users : requests[u].phase = "checked" => CopyOK(requests[u])

IInv == TypeOK /\ RowTellsOneStory /\ CopiesOK /\ CurrentUnlessOvertaken

(* A request in a phase has the fields of that phase.                      *)
LEMMA RequestFields ==
    ASSUME TypeOK, NEW u \in Users
    PROVE  /\ requests[u].phase = "opened" => requests[u] \in OpenedRequests
           /\ requests[u].phase = "checked" => requests[u] \in CheckedRequests
           /\ requests[u].phase = "resetting" => requests[u] \in SavedEdits
  BY DEF TypeOK, NoRequest, OpenedRequests, CheckedRequests, SavedEdits

(* The row that a checked request computes is typed.                       *)
LEMMA NewRowTyped ==
    ASSUME NEW u \in Users, NEW r \in CheckedRequests
    PROVE  NewRow(u, r) \in ApprovalRows
  <1>1. r.act \in Reviews /\ r.seen \in Nat /\ r.fields \in ApprovalRows
    BY DEF CheckedRequests
  <1>2. Submitted(r.fields, u, r.seen) \in ApprovalRows
    BY <1>1 DEF Submitted, ApprovalRows, Statuses
  <1>3. Cancelled(r.fields, u) \in ApprovalRows
    BY <1>1 DEF Cancelled, ApprovalRows, Statuses
  <1>4. Decided(r.fields, u, r.act) \in ApprovalRows
    BY <1>1 DEF Decided, ApprovalRows, Statuses
  <1> QED BY <1>1, <1>2, <1>3, <1>4 DEF NewRow, Reviews, Decisions

(* A checked request computes a row with the decision of one actor.        *)
LEMMA NewRowTellsOneStory ==
    ASSUME NEW u \in Users, NEW r \in CheckedRequests, CopyOK(r)
    PROVE  OneStory(NewRow(u, r))
  <1>1. r.act \in Reviews /\ r.seen \in Nat /\ r.fields \in ApprovalRows
    BY DEF CheckedRequests
  <1>2. Nobody \notin Users  BY ApprovalAssumption
  <1>3. CASE r.act = "submit"
    BY <1>1, <1>2, <1>3 DEF NewRow, Submitted, OneStory, CopyOK, CanSubmit
  <1>4. CASE r.act = "cancel"
    BY <1>1, <1>2, <1>4
    DEF NewRow, Cancelled, OneStory, CopyOK, AllowedFrom, ApprovalRows
  <1>5. CASE r.act \in Decisions
    BY <1>1, <1>2, <1>5
    DEF NewRow, Decided, Decisions, OneStory, CopyOK, AllowedFrom, ApprovalRows
  <1> QED BY <1>1, <1>3, <1>4, <1>5 DEF Reviews, Decisions

-----------------------------------------------------------------------------
(* Types.                                                                  *)

(* The initial state has the types.                                        *)
LEMMA InitTypeOK == Init => TypeOK
  BY ApprovalAssumption
  DEF Init, TypeOK, InitTrips, NewTrip, TripStatuses, TripRows, NewApproval,
      initialApprovalStatus, ApprovalRows, Statuses

(* A committed edit leaves a typed trip row.                               *)
LEMMA SavedTripTyped ==
    ASSUME NEW u \in Users, NEW row \in TripRows(Users), NEW base \in Nat
    PROVE  UpdateItineraryAndCreateVersion(row, u, base) \in TripRows(Users)
  <1>1. [writer |-> u, base |-> base] \in [writer : Users, base : Nat]
    OBVIOUS
  <1>2. row.versions \in Seq([writer : Users, base : Nat]) /\ row.revision \in Nat
    BY DEF TripRows
  <1>3. Append(row.versions, [writer |-> u, base |-> base])
            \in Seq([writer : Users, base : Nat])
    BY <1>1, <1>2
  <1> QED BY <1>2, <1>3 DEF UpdateItineraryAndCreateVersion, TripRows, TripStatuses

(* Every step keeps the types.                                             *)
LEMMA NextTypeOK == TypeOK /\ [Next]_vars => TypeOK'
  <1> SUFFICES ASSUME TypeOK, [Next]_vars PROVE TypeOK'  OBVIOUS
  <1>1. CASE UNCHANGED vars  BY <1>1 DEF TypeOK, vars
  <1>2. ASSUME NEW u \in Users, Open(u) PROVE TypeOK'
    <2> PICK t \in Trips, act \in Reviews \cup {"edit"} :
          Become(u, [phase |-> "opened", act |-> act, trip |-> t,
                     seen |-> trips[t].revision])
      BY <1>2 DEF Open
    <2>1. trips[t].revision \in Nat  BY DEF TypeOK, TripRows
    <2>2. [phase |-> "opened", act |-> act, trip |-> t, seen |-> trips[t].revision]
            \in OpenedRequests
      BY <2>1 DEF OpenedRequests
    <2> QED BY <1>2, <2>2 DEF TypeOK, Open, Become
  <1>3. ASSUME NEW u \in Users, Check(u) PROVE TypeOK'
    <2> DEFINE r == requests[u]
               c == [phase |-> "checked", act |-> r.act, trip |-> r.trip,
                     seen |-> r.seen, fields |-> approvals[r.trip]]
    <2>1. r \in OpenedRequests  BY <1>3, RequestFields DEF Check
    <2>2. approvals[r.trip] \in ApprovalRows  BY <2>1 DEF TypeOK, OpenedRequests
    <2>3. c \in CheckedRequests
      BY <1>3, <2>1, <2>2 DEF Check, OpenedRequests, CheckedRequests
    <2>4. Become(u, c)  BY <1>3 DEF Check
    <2> QED BY <1>3, <2>3, <2>4 DEF TypeOK, Check, Become
  <1>4. ASSUME NEW u \in Users, Refuse(u) PROVE TypeOK'
    BY <1>4 DEF Refuse, Become, TypeOK
  <1>5. ASSUME NEW u \in Users, Write(u) PROVE TypeOK'
    <2> DEFINE r == requests[u]
    <2>1. r \in CheckedRequests  BY <1>5, RequestFields DEF Write
    <2>2. r.trip \in Trips /\ NewRow(u, r) \in ApprovalRows
      BY <2>1, NewRowTyped DEF CheckedRequests
    <2>3. approvals' \in [Trips -> ApprovalRows]
      BY <1>5, <2>2 DEF TypeOK, Write, UpdateTripApprovalStatus
    <2>4. (r.seen # trips[r.trip].revision) \in BOOLEAN
          /\ (overtaken[r.trip] \/ r.fields # approvals[r.trip]) \in BOOLEAN
      OBVIOUS
    <2>5. overtaken' \in [Trips -> BOOLEAN]
      BY <1>5, <2>2, <2>4, Zenon DEF TypeOK, Write
    <2> QED BY <1>5, <2>3, <2>5 DEF TypeOK, Write, Become
  <1>6. ASSUME NEW u \in Users, Save(u) PROVE TypeOK'
    <2> DEFINE r == requests[u]
    <2>1. r \in OpenedRequests  BY <1>6, RequestFields DEF Save
    <2>2. UpdateItineraryAndCreateVersion(trips[r.trip], u, r.seen) \in TripRows(Users)
      BY <2>1, SavedTripTyped DEF TypeOK, OpenedRequests
    <2>3. trips' \in [Trips -> TripRows(Users)]
      BY <1>6, <2>2 DEF TypeOK, Save
    <2>4. [phase |-> "resetting", trip |-> r.trip] \in SavedEdits
      BY <2>1 DEF OpenedRequests, SavedEdits
    <2> QED BY <1>6, <2>3, <2>4 DEF TypeOK, Save, Become
  <1>7. ASSUME NEW u \in Users, ResetApprovalIfApproved(u) PROVE TypeOK'
    <2>1. requests[u] \in SavedEdits
      BY <1>7, RequestFields DEF ResetApprovalIfApproved
    <2>2. approvals' \in [Trips -> ApprovalRows]
      BY <1>7, <2>1, SMTT(20)
      DEF TypeOK, ResetApprovalIfApproved, ResetApprovalStatusForTripIfActive,
          SavedEdits, ApprovalRows, Statuses
    <2> QED BY <1>7, <2>2 DEF TypeOK, ResetApprovalIfApproved, Become
  <1>8. ASSUME NEW u \in Users, LoseReset(u) PROVE TypeOK'
    <2>1. faults' \in 0..MaxFaults
      BY <1>8, ApprovalAssumption DEF TypeOK, LoseReset
    <2>2. overtaken' \in [Trips -> BOOLEAN]
      BY <1>8, Zenon DEF TypeOK, LoseReset
    <2>3. UNCHANGED <<trips, approvals>> /\ Become(u, NoRequest)
      BY <1>8 DEF LoseReset
    <2> QED BY <2>1, <2>2, <2>3 DEF TypeOK, Become
  <1> QED BY <1>1, <1>2, <1>3, <1>4, <1>5, <1>6, <1>7, <1>8 DEF Next

(* Types: TypeOK is inductive.                                             *)
THEOREM ApprovalTypeCorrect == Spec => []TypeOK
  BY InitTypeOK, NextTypeOK, PTL DEF Spec

-----------------------------------------------------------------------------
(* Safety.                                                                 *)

(* The initial state satisfies the inductive invariant.                    *)
LEMMA InitIInv == Init => IInv
  <1> SUFFICES ASSUME Init PROVE IInv  OBVIOUS
  <1>1. RowTellsOneStory
    BY ApprovalAssumption
    DEF Init, RowTellsOneStory, OneStory, NewApproval, initialApprovalStatus
  <1>2. CopiesOK  BY DEF Init, CopiesOK, NoRequest
  <1>3. CurrentUnlessOvertaken
    BY DEF Init, CurrentUnlessOvertaken, Stale, Active, NewApproval,
           initialApprovalStatus
  <1> QED BY <1>1, <1>2, <1>3, InitTypeOK DEF IInv

(* A request that is not resetting can be replaced without ending a reset. *)
LEMMA ResetGoesOn ==
    ASSUME TypeOK, NEW u \in Users, requests[u].phase # "resetting",
           NEW r, Become(u, r), NEW t \in Trips, BeingReset(t)
    PROVE  BeingReset(t)'
  BY DEF TypeOK, Become, BeingReset

(* Every step preserves the story of every row.                            *)
LEMMA NextOneStory == IInv /\ [Next]_vars => RowTellsOneStory'
  <1> SUFFICES ASSUME IInv, [Next]_vars PROVE RowTellsOneStory'  OBVIOUS
  <1> USE DEF IInv
  <1>1. CASE UNCHANGED approvals  BY <1>1 DEF RowTellsOneStory
  <1>2. ASSUME NEW u \in Users, Write(u) PROVE RowTellsOneStory'
    <2> DEFINE r == requests[u]
    <2>1. r \in CheckedRequests  BY <1>2, RequestFields DEF Write
    <2>2. OneStory(NewRow(u, r))
      BY <1>2, <2>1, NewRowTellsOneStory DEF Write, CopiesOK
    <2>3. r.trip \in Trips  BY <2>1 DEF CheckedRequests
    <2> QED BY <1>2, <2>2, <2>3
        DEF Write, UpdateTripApprovalStatus, RowTellsOneStory, TypeOK
  <1>3. ASSUME NEW u \in Users, ResetApprovalIfApproved(u) PROVE RowTellsOneStory'
    <2> SUFFICES ASSUME NEW t \in Trips PROVE OneStory(approvals[t])'
      BY DEF RowTellsOneStory
    <2>1. OneStory(approvals[t]) /\ approvals[t] \in ApprovalRows
      BY DEF RowTellsOneStory, TypeOK
    <2>2. CASE approvals'[t] = approvals[t]  BY <2>1, <2>2 DEF OneStory
    <2>3. CASE /\ approvals[t].status \in Active
               /\ approvals'[t] = [approvals[t] EXCEPT !.status = "draft"]
      BY <2>1, <2>3 DEF OneStory, Active, ApprovalRows
    <2> QED BY <1>3, <2>2, <2>3
        DEF ResetApprovalIfApproved, ResetApprovalStatusForTripIfActive, TypeOK
  <1> QED BY <1>1, <1>2, <1>3 DEF Next, vars, Open, Check, Refuse, Save, LoseReset

(* Every step leaves requests with copies that passed their checks.        *)
LEMMA NextCopiesOK == IInv /\ [Next]_vars => CopiesOK'
  <1> SUFFICES ASSUME IInv, [Next]_vars, NEW v \in Users,
                      requests'[v].phase = "checked"
               PROVE  CopyOK(requests'[v])
    BY DEF CopiesOK, CopyOK, OneStory, CanSubmit
  <1> USE DEF IInv
  <1>1. CASE requests'[v] = requests[v]  BY <1>1 DEF CopiesOK
  <1>2. ASSUME Check(v) PROVE CopyOK(requests'[v])
    <2> DEFINE r == requests[v]
    <2>1. r \in OpenedRequests  BY <1>2, RequestFields DEF Check
    <2>2. OneStory(approvals[r.trip])
      BY <2>1 DEF RowTellsOneStory, OpenedRequests
    <2>3. requests'[v] = [phase |-> "checked", act |-> r.act, trip |-> r.trip,
                          seen |-> r.seen, fields |-> approvals[r.trip]]
      BY <1>2 DEF Check, Become, TypeOK
    <2> QED BY <1>2, <2>2, <2>3 DEF CopyOK, Check, CanSubmit
  <1>3. ASSUME NEW u \in Users, Check(u), u # v PROVE requests'[v] = requests[v]
    BY <1>3 DEF Check, Become, TypeOK
  <1>4. ASSUME NEW u \in Users,
               Open(u) \/ Refuse(u) \/ Write(u) \/ Save(u)
                 \/ ResetApprovalIfApproved(u) \/ LoseReset(u)
        PROVE  requests'[v] = requests[v]
    <2>1. CASE Open(u)
      <3>1. PICK t \in Trips, act \in Reviews \cup {"edit"} :
              Become(u, [phase |-> "opened", act |-> act, trip |-> t,
                         seen |-> trips[t].revision])
        BY <2>1 DEF Open
      <3> QED BY <3>1 DEF Become, TypeOK
    <2>2. CASE Save(u)  BY <2>2 DEF Save, Become, TypeOK
    <2>3. CASE Refuse(u) \/ Write(u) \/ ResetApprovalIfApproved(u) \/ LoseReset(u)
      BY <2>3 DEF Refuse, Write, ResetApprovalIfApproved, LoseReset, NoRequest,
                  Become, TypeOK
    <2> QED BY <1>4, <2>1, <2>2, <2>3
  <1> QED BY <1>1, <1>2, <1>3, <1>4 DEF Next, vars

(* Every step leaves the plans under review or approved current, unless    *)
(* it is overtaken.                                                        *)
LEMMA NextCurrent == IInv /\ [Next]_vars => CurrentUnlessOvertaken'
  <1> SUFFICES ASSUME IInv, [Next]_vars, NEW t \in Trips, Stale(t)', ~overtaken'[t]
               PROVE  BeingReset(t)'
    BY DEF CurrentUnlessOvertaken
  <1> USE DEF IInv
  <1>1. CASE UNCHANGED vars
    BY <1>1 DEF vars, Stale, BeingReset, CurrentUnlessOvertaken
  <1>2. ASSUME NEW u \in Users, Open(u) \/ Check(u) \/ Refuse(u)
        PROVE  BeingReset(t)'
    <2>1. UNCHANGED <<trips, approvals, overtaken>>
      BY <1>2 DEF Open, Check, Refuse
    <2>2. BeingReset(t)  BY <2>1 DEF Stale, CurrentUnlessOvertaken
    <2>3. requests[u].phase # "resetting"
      BY <1>2 DEF Open, Check, Refuse, NoRequest
    <2>4. \E r : Become(u, r)
      BY <1>2, Zenon DEF Open, Check, Refuse
    <2> QED BY <2>2, <2>3, <2>4, ResetGoesOn
  <1>3. ASSUME NEW u \in Users, Write(u) PROVE BeingReset(t)'
    <2> DEFINE r == requests[u]
    <2>1. r \in CheckedRequests /\ r.trip \in Trips
      BY <1>3, RequestFields DEF Write, CheckedRequests
    <2>2. requests[u].phase # "resetting" /\ Become(u, NoRequest)
      BY <1>3 DEF Write
    <2>3. CASE t # r.trip
      <3>1. Stale(t) /\ ~overtaken[t]
        BY <1>3, <2>1, <2>3 DEF Write, UpdateTripApprovalStatus, Stale, TypeOK
      <3> QED BY <3>1, <2>2, ResetGoesOn DEF CurrentUnlessOvertaken
    <2>4. CASE t = r.trip /\ r.act = "submit"
      <3>1. r.seen = trips[t].revision
        BY <1>3, <2>1, <2>4 DEF Write, TypeOK
      <3>2. approvals'[t].submittedAt = r.seen
        BY <1>3, <2>1, <2>4
        DEF Write, UpdateTripApprovalStatus, NewRow, Submitted, TypeOK
      <3> QED BY <1>3, <3>1, <3>2 DEF Write, Stale
    <2>5. CASE t = r.trip /\ r.act # "submit"
      <3>1. r.fields = approvals[t] /\ ~overtaken[t]
        BY <1>3, <2>1, <2>5 DEF Write, TypeOK
      <3>2. approvals'[t] = NewRow(u, r)
        BY <1>3, <2>1, <2>5 DEF Write, UpdateTripApprovalStatus, TypeOK
      <3>3. NewRow(u, r).submittedAt = approvals[t].submittedAt
        BY <2>1, <2>5, <3>1
        DEF NewRow, Cancelled, Decided, CheckedRequests, ApprovalRows
      <3>4. approvals[t].status \in Active
        BY <1>3, <2>1, <2>5, <3>1
        DEF Write, CopiesOK, CopyOK, AllowedFrom, Active
      <3>5. Stale(t)  BY <1>3, <3>2, <3>3, <3>4 DEF Stale, Write
      <3> QED BY <3>1, <3>5, <2>2, ResetGoesOn DEF CurrentUnlessOvertaken
    <2> QED BY <2>3, <2>4, <2>5
  <1>4. ASSUME NEW u \in Users, Save(u) PROVE BeingReset(t)'
    <2> DEFINE r == requests[u]
    <2>1. r.trip \in Trips
      BY <1>4, RequestFields DEF Save, OpenedRequests
    <2>2. requests[u].phase # "resetting"
          /\ Become(u, [phase |-> "resetting", trip |-> r.trip])
      BY <1>4 DEF Save
    <2>3. CASE t = r.trip  BY <2>2, <2>3 DEF Become, BeingReset, TypeOK
    <2>4. CASE t # r.trip
      <3>1. Stale(t) /\ ~overtaken[t]
        BY <1>4, <2>1, <2>4 DEF Save, Stale, TypeOK
      <3> QED BY <3>1, <2>2, ResetGoesOn DEF CurrentUnlessOvertaken
    <2> QED BY <2>3, <2>4
  <1>5. ASSUME NEW u \in Users, ResetApprovalIfApproved(u) PROVE BeingReset(t)'
    <2>1. requests[u].trip \in Trips
      BY <1>5, RequestFields DEF ResetApprovalIfApproved, SavedEdits
    <2>2. requests[u].trip # t
      BY <1>5, <2>1
      DEF ResetApprovalIfApproved, ResetApprovalStatusForTripIfActive, Stale,
          Active, TypeOK, ApprovalRows
    <2>3. Stale(t) /\ ~overtaken[t]
      BY <1>5, <2>1, <2>2
      DEF ResetApprovalIfApproved, ResetApprovalStatusForTripIfActive, Stale, TypeOK
    <2>4. PICK w \in Users : requests[w].phase = "resetting" /\ requests[w].trip = t
      BY <2>3 DEF CurrentUnlessOvertaken, BeingReset
    <2>5. requests'[w] = requests[w]
      BY <1>5, <2>2, <2>4 DEF ResetApprovalIfApproved, Become, TypeOK
    <2> QED BY <2>4, <2>5 DEF BeingReset
  <1>6. ASSUME NEW u \in Users, LoseReset(u) PROVE BeingReset(t)'
    <2>1. requests[u].trip \in Trips
      BY <1>6, RequestFields DEF LoseReset, SavedEdits
    <2>2. requests[u].trip # t  BY <1>6, <2>1 DEF LoseReset, TypeOK
    <2>3. Stale(t) /\ ~overtaken[t]
      BY <1>6, <2>1, <2>2 DEF LoseReset, Stale, TypeOK
    <2>4. PICK w \in Users : requests[w].phase = "resetting" /\ requests[w].trip = t
      BY <2>3 DEF CurrentUnlessOvertaken, BeingReset
    <2>5. requests'[w] = requests[w]
      BY <1>6, <2>2, <2>4 DEF LoseReset, Become, TypeOK
    <2> QED BY <2>4, <2>5 DEF BeingReset
  <1> QED BY <1>1, <1>2, <1>3, <1>4, <1>5, <1>6 DEF Next

(* The inductive invariant holds in every reachable state.                 *)
THEOREM ApprovalInvariant == Spec => []IInv
  <1>1. Init => IInv  BY InitIInv
  <1>2. IInv /\ [Next]_vars => IInv'
    BY NextTypeOK, NextOneStory, NextCopiesOK, NextCurrent DEF IInv
  <1> QED BY <1>1, <1>2, PTL DEF Spec

(* RowTellsOneStory: interleaved reads and full-row writes of the review   *)
(* handlers never mix the columns of two decisions.                        *)
THEOREM DecisionsDoNotMix == Spec => []RowTellsOneStory
  <1>1. IInv => RowTellsOneStory  BY DEF IInv
  <1> QED BY <1>1, ApprovalInvariant, PTL

(* CurrentUnlessOvertaken: between an edit's commit and its withdrawal, by *)
(* an overtaken write, or by a lost withdrawal: there is no other way for  *)
(* a plan under review or approved to differ from the one submitted.       *)
THEOREM StalenessIsExplained == Spec => []CurrentUnlessOvertaken
  <1>1. IInv => CurrentUnlessOvertaken  BY DEF IInv
  <1> QED BY <1>1, ApprovalInvariant, PTL
=============================================================================
