---------------------------- MODULE CalendarProofs ----------------------------
(***************************************************************************)
(* Theorems about CalendarSync, for every set of items, accounts and       *)
(* requests: the events in a user's calendars are known to the rows, and   *)
(* a trip that is shown as in sync is.                                     *)
(*                                                                         *)
(* Whatever overlapping requests do to an event puts it among the events   *)
(* that may have gone astray, so the invariant is about the others: where  *)
(* such an event is seen, it still is in its row (Fits), until the request *)
(* that deletes it alone has done so.                                      *)
(***************************************************************************)
EXTENDS CalendarSync, WellFoundedInduction, TLAPS

(* Least and greatest members exist.                                       *)
LEMMA MinIsMember ==
    ASSUME NEW S \in SUBSET Nat, S # {}
    PROVE  Min(S) \in S /\ \A x \in S : Min(S) =< x
  <1>1. PICK x \in S : \A y \in S : ~ (<<y, x>> \in OpToRel(<, Nat))
    BY NatLessThanWellFounded, WFMin
  <1>2. \A y \in S : x =< y
    <2>1. ASSUME NEW y \in S, y < x PROVE FALSE
      <3>1. <<y, x>> \in Nat \X Nat /\ <<y, x>>[1] < <<y, x>>[2]
        BY <2>1
      <3>2. <<y, x>> \in OpToRel(<, Nat)
        BY <3>1 DEF OpToRel
      <3> QED BY <1>1, <3>2
    <2> QED BY <2>1
  <1> QED BY <1>2 DEF Min

LEMMA MaxIsMember ==
    ASSUME NEW n \in Nat, NEW S \in SUBSET (0..n), S # {}
    PROVE  Max(S) \in S
  <1> DEFINE T == {d \in Nat : n - d \in S}
  <1>1. T \subseteq Nat /\ T # {}
    <2>1. PICK x \in S : TRUE
      OBVIOUS
    <2>2. n - x \in Nat /\ n - (n - x) = x
      OBVIOUS
    <2> QED BY <2>2
  <1>2. Min(T) \in T /\ \A d \in T : Min(T) =< d
    BY <1>1, MinIsMember
  <1>3. \A y \in S : n - y \in T /\ n - Min(T) >= y
    BY <1>2
  <1> QED BY <1>2, <1>3 DEF Max

-----------------------------------------------------------------------------
(* What is inductive.                                                      *)

Events == [key : SyncKeys, account : Accounts \cup {NoAccount}, revision : Nat, alive : BOOLEAN]

CalendarTypes ==
    /\ connection \in Connections /\ flows \in Seq(FlowStates)
    /\ fetches \in [CalendarRequests -> FetchStates]
    /\ plan \in [revision : Nat, timed : SUBSET SyncKeys]
    /\ calendarRows \in [SyncKeys -> SyncRows]
    /\ events \in Seq(Events)
    /\ syncs \in [CalendarRequests -> SyncStates]
    /\ \A r \in CalendarRequests \ Busy :
          syncs[r].phase # "none" => syncs[r].phase = "calling" /\ syncs[r].call = "freebusy"

(* How far a request is; token says how far its call to Google is.         *)
RequestOK(s, token) ==
    /\ s.phase \in {"read", "calling", "answered"}
    /\ s.phase = "read" =>
       /\ s.call = "none"
       /\ \A k \in SyncKeys : s.seen[k] = 0 /\ s.results[k] = 0 /\ k \notin s.left
    /\ s.phase # "read" => s.call \in {"delete", "write"}
    /\ s.phase # "read" /\ s.call = "delete" =>
          /\ s.left \subseteq Outdated(s)
          /\ \A k \in SyncKeys : s.results[k] = 0
          /\ s.phase = "calling" /\ token # "have" => s.left = Outdated(s)
    /\ s.phase # "read" /\ s.call = "write" =>
          /\ s.kind = "sync"
          /\ s.phase = "calling" =>
                /\ s.left \subseteq s.timed
                /\ \A k \in s.left : s.results[k] = 0
                /\ token # "have" => \A k \in SyncKeys : s.results[k] = 0
          /\ s.phase = "answered" => s.left = {k \in SyncKeys : s.results[k] # 0}

Listed(s) == s.phase \in {"calling", "answered"}

(* The request has its turn at item k behind it: it recorded the event, or *)
(* told Google to delete it.                                               *)
Recorded(s, k) == s.call = "write" /\ s.phase = "answered" /\ k \notin s.left
Deleted(s, token, k) ==
    /\ s.call = "delete" /\ k \in Outdated(s)
    /\ \/ s.phase = "calling" /\ token = "have" /\ k \notin s.left
       \/ s.phase = "answered"

InRow(row, e) == row.status = "active" /\ row.event = e

FitsAt(s, token, row, evs, lost, k) ==
    /\ s.seen[k] \in 0..Len(evs) /\ s.results[k] \in 0..Len(evs)
    /\ s.seen[k] # 0 => evs[s.seen[k]].key = k
    /\ s.results[k] # 0 =>
          /\ evs[s.results[k]].key = k
          /\ s.seen[k] = 0 \/ s.seen[k] = s.results[k]
          /\ s.results[k] \in lost \/ evs[s.results[k]].alive
          /\ s.seen[k] = 0 /\ s.crossed => s.results[k] \in lost
    /\ Listed(s) /\ row.status = "active" /\ row.event \notin lost =>
          s.seen[k] = row.event \/ Recorded(s, k)
    /\ s.seen[k] # 0 /\ s.seen[k] \notin lost =>
          \/ InRow(row, s.seen[k])
          \/ ~s.crossed /\ k \in Outdated(s) /\ ~evs[s.seen[k]].alive
    /\ Deleted(s, token, k) /\ s.seen[k] \notin lost =>
          ~s.crossed /\ ~evs[s.seen[k]].alive

Fits(s, token, rows, evs, lost) ==
    \A k \in SyncKeys : FitsAt(s, token, rows[k], evs, lost, k)

RequestsFit ==
    \A r \in Busy : /\ RequestOK(syncs[r], fetches[r].phase)
                    /\ Fits(syncs[r], fetches[r].phase, calendarRows, events, astray)

OverlapsAreKnown == \A q, r \in Busy : q # r => syncs[q].crossed

RowsNameEvents ==
    \A k \in SyncKeys :
       /\ calendarRows[k].event \in 0..Len(events)
       /\ calendarRows[k].event # 0 => events[calendarRows[k].event].key = k
       /\ Active(k) => calendarRows[k].event # 0

(* A new event is in the hands of the request that created it.             *)
LivingAreKnown ==
    \A e \in EventIds \ astray : events[e].alive =>
       \/ InRow(calendarRows[events[e].key], e)
       \/ \E r \in Busy : ~syncs[r].crossed /\ syncs[r].results[events[e].key] = e

(* A row outlives its event only until the request marks it.               *)
Unmarked(s, token, k) ==
    Deleted(s, token, k) /\ (s.phase = "answered" /\ s.kind = "sync" => k \in s.left)
RowsAreTrue ==
    \A k \in SyncKeys : Active(k) /\ calendarRows[k].event \notin astray =>
       \/ events[calendarRows[k].event].alive
       \/ \E r \in Busy : /\ Unmarked(syncs[r], fetches[r].phase, k) /\ ~syncs[r].crossed
                          /\ syncs[r].seen[k] = calendarRows[k].event

CalendarInv ==
    /\ CalendarTypes
    /\ RequestsFit
    /\ OverlapsAreKnown
    /\ RowsNameEvents
    /\ LivingAreKnown
    /\ RowsAreTrue

-----------------------------------------------------------------------------
(* Types.                                                                  *)
LEMMA CalendarFacts ==
    ASSUME CalendarTypes
    PROVE  /\ connection \in Connections /\ flows \in Seq(FlowStates)
           /\ fetches \in [CalendarRequests -> FetchStates]
           /\ plan.revision \in Nat /\ plan.timed \in SUBSET SyncKeys
           /\ calendarRows \in [SyncKeys -> SyncRows]
           /\ events \in Seq(Events) /\ EventIds = 1..Len(events) /\ Len(events) \in Nat
           /\ \A e \in EventIds : events[e] \in Events
           /\ syncs \in [CalendarRequests -> SyncStates]
  BY DEF CalendarTypes, EventIds

LEMMA CalendarDomains ==
    ASSUME CalendarTypes
    PROVE  /\ plan \in [revision : Nat, timed : SUBSET SyncKeys]
           /\ calendarRows \in [SyncKeys -> SyncRows] /\ events \in Seq(Events)
           /\ connection \in Connections /\ flows \in Seq(FlowStates)
  BY DEF CalendarTypes

LEMMA SyncFields ==
    ASSUME NEW s \in SyncStates
    PROVE  /\ s.kind \in {"none", "sync", "remove", "freebusy"}
           /\ s.phase \in {"none", "read", "calling", "answered"}
           /\ s.call \in {"none", "delete", "write", "freebusy"}
           /\ s.revision \in Nat /\ s.timed \in SUBSET SyncKeys
           /\ s.seen \in [SyncKeys -> Nat] /\ s.left \in SUBSET SyncKeys
           /\ s.results \in [SyncKeys -> Nat] /\ s.crossed \in BOOLEAN
  BY DEF SyncStates

LEMMA IdleFacts ==
    /\ IdleSync \in SyncStates /\ IdleSync.kind = "none" /\ NoFetch \in FetchStates
    /\ NoFetch.phase = "none"
  BY DEF IdleSync, SyncStates, NoFetch, FetchStates

(* The parts of a request that only its own reading of the rows, or        *)
(* another request, changes.                                               *)
Kept(t, s) ==
    /\ t.kind = s.kind /\ t.revision = s.revision /\ t.timed = s.timed
    /\ t.crossed = s.crossed

LEMMA WithLeft ==
    ASSUME NEW s \in SyncStates, NEW S \in SUBSET SyncKeys
    PROVE  LET t == [s EXCEPT !.left = S]
           IN /\ t \in SyncStates /\ Kept(t, s) /\ t.phase = s.phase /\ t.call = s.call
              /\ t.seen = s.seen /\ t.results = s.results /\ t.left = S
  BY DEF SyncStates, Kept

LEMMA WithResult ==
    ASSUME NEW s \in SyncStates, NEW k \in SyncKeys, NEW e \in Nat
    PROVE  LET t == [s EXCEPT !.results[k] = e]
           IN /\ t \in SyncStates /\ Kept(t, s) /\ t.phase = s.phase /\ t.call = s.call
              /\ t.seen = s.seen /\ t.results = [s.results EXCEPT ![k] = e] /\ t.left = s.left
  BY DEF SyncStates, Kept

LEMMA WithSeen ==
    ASSUME NEW s \in SyncStates, NEW seen \in [SyncKeys -> Nat]
    PROVE  LET t == [s EXCEPT !.seen = seen]
           IN /\ t \in SyncStates /\ Kept(t, s) /\ t.phase = s.phase /\ t.call = s.call
              /\ t.seen = seen /\ t.results = s.results /\ t.left = s.left
  BY DEF SyncStates, Kept

LEMMA WithPhase ==
    ASSUME NEW s \in SyncStates, NEW phase \in {"calling", "answered"}
    PROVE  LET t == [s EXCEPT !.phase = phase]
           IN /\ t \in SyncStates /\ Kept(t, s) /\ t.phase = phase /\ t.call = s.call
              /\ t.seen = s.seen /\ t.results = s.results /\ t.left = s.left
  BY DEF SyncStates, Kept

LEMMA WithCall ==
    ASSUME NEW s \in SyncStates, NEW call \in {"delete", "write", "freebusy"}
    PROVE  LET t == [s EXCEPT !.call = call]
           IN /\ t \in SyncStates /\ Kept(t, s) /\ t.phase = s.phase /\ t.call = call
              /\ t.seen = s.seen /\ t.results = s.results /\ t.left = s.left
  BY DEF SyncStates, Kept

LEMMA OneChanges ==
    ASSUME CalendarTypes, NEW r \in CalendarRequests, NEW t \in SyncStates,
           syncs' = [syncs EXCEPT ![r] = t]
    PROVE  /\ syncs' \in [CalendarRequests -> SyncStates] /\ syncs'[r] = t
           /\ \A q \in CalendarRequests \ {r} : syncs'[q] = syncs[q]
  BY CalendarFacts

LEMMA OneFetches ==
    ASSUME CalendarTypes, NEW r \in CalendarRequests, NEW f \in FetchStates,
           fetches' = [fetches EXCEPT ![r] = f]
    PROVE  /\ fetches' \in [CalendarRequests -> FetchStates] /\ fetches'[r] = f
           /\ \A q \in CalendarRequests \ {r} : fetches'[q] = fetches[q]
  BY CalendarFacts

(* What the others are doing stays.                                        *)
OthersStay(r) ==
    /\ syncs' \in [CalendarRequests -> SyncStates]
    /\ fetches' \in [CalendarRequests -> FetchStates]
    /\ \A q \in CalendarRequests \ {r} : syncs'[q] = syncs[q] /\ fetches'[q] = fetches[q]

LEMMA TakesItem ==
    ASSUME CalendarTypes, NEW r \in CalendarRequests, NEW k \in SyncKeys,
           syncs' = [syncs EXCEPT ![r].left = @ \ {k}], fetches' = fetches
    PROVE  /\ OthersStay(r) /\ Kept(syncs'[r], syncs[r])
           /\ syncs'[r].phase = syncs[r].phase /\ syncs'[r].call = syncs[r].call
           /\ syncs'[r].seen = syncs[r].seen /\ syncs'[r].results = syncs[r].results
           /\ syncs'[r].left = syncs[r].left \ {k}
  <1> DEFINE t == [syncs[r] EXCEPT !.left = syncs[r].left \ {k}]
  <1>1. syncs[r] \in SyncStates /\ syncs[r].left \ {k} \in SUBSET SyncKeys
    BY CalendarFacts, SyncFields
  <1>2. syncs' = [syncs EXCEPT ![r] = t]
    BY CalendarFacts
  <1>3. /\ t \in SyncStates /\ Kept(t, syncs[r]) /\ t.phase = syncs[r].phase
        /\ t.call = syncs[r].call /\ t.seen = syncs[r].seen /\ t.results = syncs[r].results
        /\ t.left = syncs[r].left \ {k}
    BY <1>1, WithLeft
  <1> HIDE DEF t
  <1>4. /\ syncs' \in [CalendarRequests -> SyncStates] /\ syncs'[r] = t
        /\ \A q \in CalendarRequests \ {r} : syncs'[q] = syncs[q]
    BY <1>2, <1>3, OneChanges
  <1> QED BY <1>3, <1>4, CalendarFacts DEF OthersStay

LEMMA TakesResult ==
    ASSUME CalendarTypes, NEW r \in CalendarRequests, NEW k \in SyncKeys, NEW e \in Nat,
           syncs' = [syncs EXCEPT ![r].left = @ \ {k}, ![r].results[k] = e], fetches' = fetches
    PROVE  /\ OthersStay(r) /\ Kept(syncs'[r], syncs[r])
           /\ syncs'[r].phase = syncs[r].phase /\ syncs'[r].call = syncs[r].call
           /\ syncs'[r].seen = syncs[r].seen
           /\ syncs'[r].results = [syncs[r].results EXCEPT ![k] = e]
           /\ syncs'[r].left = syncs[r].left \ {k}
  <1> DEFINE s == [syncs[r] EXCEPT !.left = syncs[r].left \ {k}]
             t == [s EXCEPT !.results[k] = e]
             mid == [syncs EXCEPT ![r].left = @ \ {k}]
  <1>1. syncs[r] \in SyncStates /\ syncs[r].left \ {k} \in SUBSET SyncKeys
    BY CalendarFacts, SyncFields
  <1>2. mid = [syncs EXCEPT ![r] = s] /\ syncs' = [mid EXCEPT ![r].results[k] = e]
    BY CalendarFacts
  <1>3. /\ s \in SyncStates /\ Kept(s, syncs[r]) /\ s.phase = syncs[r].phase
        /\ s.call = syncs[r].call /\ s.seen = syncs[r].seen /\ s.results = syncs[r].results
        /\ s.left = syncs[r].left \ {k}
    BY <1>1, WithLeft
  <1> HIDE DEF s, mid
  <1>4. /\ t \in SyncStates /\ Kept(t, s) /\ t.phase = s.phase /\ t.call = s.call
        /\ t.seen = s.seen /\ t.results = [s.results EXCEPT ![k] = e] /\ t.left = s.left
    BY <1>3, WithResult
  <1>5. mid \in [CalendarRequests -> SyncStates] /\ mid[r] = s
        /\ \A q \in CalendarRequests \ {r} : mid[q] = syncs[q]
    BY <1>2, <1>3, CalendarFacts
  <1>6. syncs' = [mid EXCEPT ![r] = t]
    BY <1>2, <1>5
  <1> HIDE DEF t
  <1>7. /\ syncs' \in [CalendarRequests -> SyncStates] /\ syncs'[r] = t
        /\ \A q \in CalendarRequests \ {r} : syncs'[q] = syncs[q]
    BY <1>4, <1>5, <1>6, ZenonT(30)
  <1> QED BY <1>3, <1>4, <1>7, CalendarFacts DEF OthersStay, Kept

LEMMA CallsMove ==
    ASSUME CalendarTypes, NEW r \in CalendarRequests, NEW s \in SyncStates,
           NEW call \in {"delete", "write", "freebusy"}, NEW keys \in SUBSET SyncKeys,
           Calls(r, s, call, keys)
    PROVE  /\ OthersStay(r) /\ Kept(syncs'[r], s)
           /\ syncs'[r].phase = "calling" /\ syncs'[r].call = call
           /\ syncs'[r].seen = s.seen /\ syncs'[r].results = s.results
           /\ syncs'[r].left = keys /\ fetches'[r].phase = "asked"
           /\ UNCHANGED <<connection, flows>>
  <1> DEFINE a == [s EXCEPT !.phase = "calling"]
             b == [a EXCEPT !.call = call]
             c == [b EXCEPT !.left = keys]
             f == [phase |-> "asked", account |-> NoAccount]
  <1>1. /\ a \in SyncStates /\ Kept(a, s) /\ a.phase = "calling" /\ a.call = s.call
        /\ a.seen = s.seen /\ a.results = s.results /\ a.left = s.left
    BY WithPhase
  <1>2. c = [s EXCEPT !.phase = "calling", !.call = call, !.left = keys]
    OBVIOUS
  <1> HIDE DEF a
  <1>3. /\ b \in SyncStates /\ Kept(b, a) /\ b.phase = a.phase /\ b.call = call
        /\ b.seen = a.seen /\ b.results = a.results /\ b.left = a.left
    BY <1>1, WithCall
  <1> HIDE DEF b
  <1>4. /\ c \in SyncStates /\ Kept(c, b) /\ c.phase = b.phase /\ c.call = b.call
        /\ c.seen = b.seen /\ c.results = b.results /\ c.left = keys
    BY <1>3, WithLeft
  <1>5. f \in FetchStates /\ f.phase = "asked"
    BY DEF FetchStates
  <1>6. /\ syncs' = [syncs EXCEPT ![r] = c] /\ fetches' = [fetches EXCEPT ![r] = f]
        /\ UNCHANGED <<connection, flows>>
    BY <1>2 DEF Calls
  <1> HIDE DEF c, f
  <1> QED BY <1>1, <1>3, <1>4, <1>5, <1>6, OneChanges, OneFetches DEF OthersStay, Kept

LEMMA EndMoves ==
    ASSUME CalendarTypes, NEW r \in CalendarRequests, SyncEnds(r)
    PROVE  /\ OthersStay(r) /\ syncs'[r] = IdleSync /\ UNCHANGED <<connection, flows>>
  BY IdleFacts, OneChanges, OneFetches DEF SyncEnds, OthersStay

(* The connection and its tokens, with any number of flows.                *)
LEMMA ConnectionMoves ==
    ASSUME CalendarTypes, ConnectionNext
    PROVE  /\ connection' \in Connections /\ flows' \in Seq(FlowStates)
           /\ fetches' \in [CalendarRequests -> FetchStates]
           /\ \A r \in CalendarRequests : fetches[r].phase = "have" => fetches'[r].phase = "have"
  <1>1. /\ connection \in Connections /\ flows \in Seq(FlowStates)
        /\ fetches \in [CalendarRequests -> FetchStates]
        /\ \A s \in 1..Len(flows) : flows[s] \in FlowStates
        /\ Disconnected \in Connections
    <2>1. connection \in Connections
      BY CalendarFacts
    <2>2. Disconnected \in Connections
      BY <2>1 DEF Disconnected, Connections
    <2> QED BY <2>2, CalendarFacts
  <1>2. CASE StartConnect
    <2>1. [phase |-> "open", account |-> NoAccount] \in FlowStates
      BY DEF FlowStates
    <2> QED BY <1>1, <1>2, <2>1 DEF StartConnect
  <1>3. CASE Disconnect
    BY <1>1, <1>3 DEF Disconnect
  <1>4. CASE TokenExpires
    BY <1>1, <1>4 DEF TokenExpires, Connections
  <1>5. ASSUME NEW s \in 1..Len(flows), MarkOAuthStateUsed(s)
        PROVE  flows' \in Seq(FlowStates) /\ UNCHANGED <<connection, fetches>>
    <2>1. PICK phase \in {"used", "ended"} : flows' = [flows EXCEPT ![s].phase = phase]
      BY <1>5 DEF MarkOAuthStateUsed
    <2>2. [flows[s] EXCEPT !.phase = phase] \in FlowStates
      BY <1>1 DEF FlowStates
    <2>3. flows' = [flows EXCEPT ![s] = [flows[s] EXCEPT !.phase = phase]]
      BY <2>1
    <2> QED BY <1>1, <1>5, <2>2, <2>3, SMTT(20) DEF MarkOAuthStateUsed
  <1>6. ASSUME NEW s \in 1..Len(flows), ExchangeCode(s)
        PROVE  flows' \in Seq(FlowStates) /\ UNCHANGED <<connection, fetches>>
    <2>1. CASE \E a \in Accounts :
                  flows' = [flows EXCEPT ![s] = [phase |-> "exchanged", account |-> a]]
      <3>1. \A a \in Accounts : [phase |-> "exchanged", account |-> a] \in FlowStates
        BY DEF FlowStates
      <3> QED BY <1>1, <1>6, <2>1, <3>1 DEF ExchangeCode
    <2>2. CASE flows' = [flows EXCEPT ![s].phase = "ended"]
      <3>1. [flows[s] EXCEPT !.phase = "ended"] \in FlowStates
        BY <1>1 DEF FlowStates
      <3>2. flows' = [flows EXCEPT ![s] = [flows[s] EXCEPT !.phase = "ended"]]
        BY <2>2
      <3> QED BY <1>1, <1>6, <3>1, <3>2 DEF ExchangeCode
    <2> QED BY <1>6, <2>1, <2>2 DEF ExchangeCode
  <1>7. ASSUME NEW s \in 1..Len(flows), UpsertCalendarConnection(s)
        PROVE  /\ flows' \in Seq(FlowStates) /\ connection' \in Connections /\ fetches' = fetches
    <2>1. [flows[s] EXCEPT !.phase = "ended"] \in FlowStates
      BY <1>1 DEF FlowStates
    <2>2. flows' = [flows EXCEPT ![s] = [flows[s] EXCEPT !.phase = "ended"]]
      BY <1>7 DEF UpsertCalendarConnection
    <2>3. connection' \in Connections
      BY <1>1, <1>7 DEF UpsertCalendarConnection, Connections, FlowStates
    <2> QED BY <1>1, <1>7, <2>1, <2>2, <2>3 DEF UpsertCalendarConnection
  <1>8. ASSUME NEW r \in CalendarRequests, GetActiveCalendarConnection(r)
        PROVE  /\ fetches' \in [CalendarRequests -> FetchStates]
               /\ UNCHANGED <<connection, flows>>
               /\ \A q \in CalendarRequests : fetches[q].phase = "have" => fetches'[q] = fetches[q]
    <2>1. PICK f \in FetchStates : fetches' = [fetches EXCEPT ![r] = f]
      <3>1. /\ [phase |-> "failed", account |-> NoAccount] \in FetchStates
            /\ [phase |-> "have", account |-> connection.token] \in FetchStates
            /\ [phase |-> "refreshing", account |-> connection.refresh] \in FetchStates
        BY <1>1 DEF FetchStates, Connections
      <3> QED BY <1>8, <3>1 DEF GetActiveCalendarConnection
    <2> QED BY <1>1, <1>8, <2>1 DEF GetActiveCalendarConnection
  <1>9. ASSUME NEW r \in CalendarRequests, RefreshToken(r) \/ UpdateCalendarTokens(r)
        PROVE  /\ fetches' \in [CalendarRequests -> FetchStates]
               /\ flows' = flows /\ connection' \in Connections
               /\ \A q \in CalendarRequests : fetches[q].phase = "have" => fetches'[q] = fetches[q]
    <2>1. PICK phase \in {"refreshed", "failed", "have"} : fetches' = [fetches EXCEPT ![r].phase = phase]
      BY <1>9 DEF RefreshToken, UpdateCalendarTokens
    <2>2. /\ [fetches[r] EXCEPT !.phase = phase] \in FetchStates
          /\ fetches' = [fetches EXCEPT ![r] = [fetches[r] EXCEPT !.phase = phase]]
      BY <1>1, <2>1 DEF FetchStates
    <2>3. connection' \in Connections
      BY <1>1, <1>9 DEF RefreshToken, UpdateCalendarTokens, Connections, FetchStates
    <2>4. fetches[r].phase # "have" /\ flows' = flows
      BY <1>9 DEF RefreshToken, UpdateCalendarTokens
    <2> QED BY <1>1, <2>2, <2>3, <2>4
  <1> QED BY <1>1, <1>2, <1>3, <1>4, <1>5, <1>6, <1>7, <1>8, <1>9
          DEF ConnectionNext, StartConnect, Disconnect, TokenExpires

-----------------------------------------------------------------------------
(* Steps of one request.                                                   *)
LEMMA BusyFacts ==
    ASSUME CalendarInv, NEW r \in Busy
    PROVE  /\ r \in CalendarRequests /\ syncs[r] \in SyncStates
           /\ syncs[r].kind \in {"sync", "remove"}
           /\ RequestOK(syncs[r], fetches[r].phase)
           /\ Fits(syncs[r], fetches[r].phase, calendarRows, events, astray)
           /\ \A k \in SyncKeys :
                 FitsAt(syncs[r], fetches[r].phase, calendarRows[k], events, astray, k)
  BY CalendarFacts DEF CalendarInv, RequestsFit, Busy, Fits

RowStays(k) ==
    /\ calendarRows'[k].status = calendarRows[k].status
    /\ calendarRows'[k].event = calendarRows[k].event
RowIsAstray(k) ==
    /\ Active(k) => calendarRows[k].event \in astray'
    /\ calendarRows'[k].status = "active" => calendarRows'[k].event \in astray'

EventsFollow ==
    /\ astray \subseteq astray'
    /\ Len(events) \in Nat /\ Len(events') \in Nat /\ Len(events) =< Len(events')
    /\ \A e \in 1..Len(events) : /\ events'[e].key = events[e].key
                                 /\ events'[e].alive => events[e].alive

(* What happens beside an overlapping request concerns it no more.         *)
ChangedElsewhere ==
    /\ \A e \in 1..Len(events) : events[e].alive => events'[e].alive \/ e \in astray'
    /\ \A k \in SyncKeys : RowStays(k) \/ RowIsAstray(k)

LEMMA CrossedStaysFit ==
    ASSUME EventsFollow, ChangedElsewhere, NEW s \in SyncStates, NEW token, s.crossed,
           Fits(s, token, calendarRows, events, astray)
    PROVE  Fits(s, token, calendarRows', events', astray')
  <1> SUFFICES ASSUME NEW k \in SyncKeys
               PROVE  FitsAt(s, token, calendarRows'[k], events', astray', k)
    BY DEF Fits
  <1>1. FitsAt(s, token, calendarRows[k], events, astray, k)
    BY DEF Fits
  <1>2. PICK seen \in Nat, result \in Nat : seen = s.seen[k] /\ result = s.results[k]
    BY SyncFields
  <1>3. /\ seen \in 0..Len(events') /\ result \in 0..Len(events')
        /\ seen # 0 => seen \in 1..Len(events) /\ events'[seen].key = k
        /\ result # 0 => result \in 1..Len(events) /\ events'[result].key = k
    BY <1>1, <1>2 DEF FitsAt, EventsFollow
  <1>4. ASSUME result # 0
        PROVE  /\ seen = 0 \/ seen = result
               /\ result \in astray' \/ events'[result].alive
               /\ seen = 0 => result \in astray'
    BY <1>1, <1>2, <1>3, <1>4 DEF FitsAt, EventsFollow, ChangedElsewhere
  <1>5. ASSUME Listed(s), calendarRows'[k].status = "active", calendarRows'[k].event \notin astray'
        PROVE  seen = calendarRows'[k].event \/ Recorded(s, k)
    <2>1. RowStays(k)
      BY <1>5 DEF ChangedElsewhere, RowIsAstray
    <2> QED BY <1>1, <1>2, <1>5, <2>1 DEF FitsAt, EventsFollow, RowStays
  <1>6. ASSUME seen # 0, seen \notin astray'
        PROVE  InRow(calendarRows'[k], seen)
    <2>1. InRow(calendarRows[k], seen)
      BY <1>1, <1>2, <1>6 DEF FitsAt, EventsFollow
    <2>2. RowStays(k)
      BY <1>6, <2>1 DEF ChangedElsewhere, RowIsAstray, InRow, Active
    <2> QED BY <2>1, <2>2 DEF InRow, RowStays
  <1>7. ~Deleted(s, token, k) \/ seen \in astray'
    BY <1>1, <1>2 DEF FitsAt, EventsFollow
  <1> QED BY <1>2, <1>3, <1>4, <1>5, <1>6, <1>7 DEF FitsAt

LEMMA StepKeeps ==
    ASSUME CalendarInv, NEW r \in Busy, CalendarTypes', OthersStay(r), EventsFollow,
           syncs[r].crossed => ChangedElsewhere,
           r \in Busy' =>
              /\ syncs'[r].crossed = syncs[r].crossed
              /\ RequestOK(syncs'[r], fetches'[r].phase)
              /\ Fits(syncs'[r], fetches'[r].phase, calendarRows', events', astray'),
           RowsNameEvents', LivingAreKnown', RowsAreTrue'
    PROVE  CalendarInv'
  <1>1. /\ r \in CalendarRequests
        /\ \A q \in Busy' \ {r} : /\ q \in Busy /\ q \in CalendarRequests
                                  /\ syncs'[q] = syncs[q] /\ fetches'[q] = fetches[q]
    BY DEF Busy, OthersStay
  <1>2. ASSUME NEW q \in Busy'
        PROVE  /\ RequestOK(syncs'[q], fetches'[q].phase)
               /\ Fits(syncs'[q], fetches'[q].phase, calendarRows', events', astray')
    <2>1. CASE q = r
      BY <1>2, <2>1
    <2>2. CASE q # r
      <3>1. q \in Busy /\ syncs'[q] = syncs[q] /\ fetches'[q] = fetches[q]
        BY <1>1, <1>2, <2>2
      <3>2. syncs[q].crossed /\ syncs[r].crossed
        BY <2>2, <3>1 DEF CalendarInv, OverlapsAreKnown
      <3>3. /\ syncs[q] \in SyncStates /\ RequestOK(syncs[q], fetches[q].phase)
            /\ Fits(syncs[q], fetches[q].phase, calendarRows, events, astray)
        BY <3>1, BusyFacts
      <3>4. Fits(syncs[q], fetches[q].phase, calendarRows', events', astray')
        BY <3>2, <3>3, CrossedStaysFit
      <3> QED BY <3>1, <3>3, <3>4
    <2> QED BY <2>1, <2>2
  <1>3. \A p, q \in Busy' : p # q => syncs'[p].crossed
    <2> SUFFICES ASSUME NEW p \in Busy', NEW q \in Busy', p # q
                 PROVE  syncs'[p].crossed
      OBVIOUS
    <2>1. p \in Busy /\ q \in Busy
      BY <1>1
    <2>2. syncs[p].crossed
      BY <2>1 DEF CalendarInv, OverlapsAreKnown
    <2> QED BY <1>1, <2>2
  <1>4. RequestsFit'
    BY <1>2 DEF RequestsFit
  <1>5. OverlapsAreKnown'
    BY <1>3 DEF OverlapsAreKnown
  <1> QED BY <1>4, <1>5 DEF CalendarInv

(* A step that leaves rows and events alone.                               *)
LEMMA QuietStepKeeps ==
    ASSUME CalendarInv, NEW r \in Busy, CalendarTypes', OthersStay(r),
           UNCHANGED <<calendarRows, events, astray>>,
           r \in Busy' =>
              /\ syncs'[r].crossed = syncs[r].crossed /\ syncs'[r].results = syncs[r].results
              /\ RequestOK(syncs'[r], fetches'[r].phase)
              /\ Fits(syncs'[r], fetches'[r].phase, calendarRows, events, astray),
           r \notin Busy' => \A k \in SyncKeys : syncs[r].results[k] = 0,
           \A k \in SyncKeys :
              Unmarked(syncs[r], fetches[r].phase, k) /\ Active(k)
                 /\ syncs[r].seen[k] = calendarRows[k].event
              => /\ r \in Busy' /\ Unmarked(syncs'[r], fetches'[r].phase, k)
                 /\ syncs'[r].seen[k] = syncs[r].seen[k]
    PROVE  CalendarInv'
  <1>1. EventsFollow /\ ChangedElsewhere
    BY CalendarFacts DEF CalendarInv, EventsFollow, ChangedElsewhere, RowStays
  <1>2. \A q \in Busy \ {r} : q \in Busy' /\ syncs'[q] = syncs[q] /\ fetches'[q] = fetches[q]
    BY DEF Busy, OthersStay
  <1>3. RowsNameEvents'
    BY DEF CalendarInv, RowsNameEvents, Active
  <1>4. LivingAreKnown'
    <2> SUFFICES ASSUME NEW e \in EventIds \ astray, events[e].alive,
                        ~InRow(calendarRows[events[e].key], e)
                 PROVE  \E q \in Busy' : /\ ~syncs'[q].crossed
                                         /\ syncs'[q].results[events[e].key] = e
      BY DEF LivingAreKnown, EventIds
    <2>1. PICK q \in Busy : ~syncs[q].crossed /\ syncs[q].results[events[e].key] = e
      BY DEF CalendarInv, LivingAreKnown
    <2>2. events[e].key \in SyncKeys /\ e # 0
      BY CalendarFacts DEF CalendarInv, Events
    <2>3. CASE q = r
      BY <2>1, <2>2, <2>3
    <2>4. CASE q # r
      BY <1>2, <2>1, <2>4
    <2> QED BY <2>3, <2>4
  <1>5. RowsAreTrue'
    <2> SUFFICES ASSUME NEW k \in SyncKeys, Active(k), calendarRows[k].event \notin astray,
                        ~events[calendarRows[k].event].alive
                 PROVE  \E q \in Busy' : /\ Unmarked(syncs'[q], fetches'[q].phase, k)
                                         /\ ~syncs'[q].crossed
                                         /\ syncs'[q].seen[k] = calendarRows[k].event
      BY DEF RowsAreTrue, Active
    <2>1. PICK q \in Busy : /\ Unmarked(syncs[q], fetches[q].phase, k) /\ ~syncs[q].crossed
                            /\ syncs[q].seen[k] = calendarRows[k].event
      BY DEF CalendarInv, RowsAreTrue
    <2>2. CASE q = r
      BY <2>1, <2>2
    <2>3. CASE q # r
      BY <1>2, <2>1, <2>3
    <2> QED BY <2>2, <2>3
  <1> QED BY <1>1, <1>3, <1>4, <1>5, StepKeeps

(* Tokens may come, and requests that touch no event.                      *)
LEMMA BystandersKeep ==
    ASSUME CalendarInv, CalendarTypes', UNCHANGED <<calendarRows, events, astray>>,
           Busy' = Busy,
           \A r \in Busy : /\ syncs'[r] = syncs[r]
                           /\ fetches[r].phase = "have" => fetches'[r].phase = "have"
    PROVE  CalendarInv'
  <1>1. ASSUME NEW r \in Busy
        PROVE  /\ RequestOK(syncs[r], fetches'[r].phase)
               /\ \A k \in SyncKeys : /\ Deleted(syncs[r], fetches'[r].phase, k)
                                           = Deleted(syncs[r], fetches[r].phase, k)
                                      /\ Unmarked(syncs[r], fetches'[r].phase, k)
                                           = Unmarked(syncs[r], fetches[r].phase, k)
               /\ Fits(syncs[r], fetches'[r].phase, calendarRows, events, astray)
    <2>1. RequestOK(syncs[r], fetches[r].phase)
          /\ Fits(syncs[r], fetches[r].phase, calendarRows, events, astray)
      BY BusyFacts
    <2>2. RequestOK(syncs[r], fetches'[r].phase)
      BY <2>1 DEF RequestOK
    <2>3. \A k \in SyncKeys : Deleted(syncs[r], fetches'[r].phase, k)
                                = Deleted(syncs[r], fetches[r].phase, k)
      BY <2>1 DEF RequestOK, Deleted
    <2>4. Fits(syncs[r], fetches'[r].phase, calendarRows, events, astray)
      BY <2>1, <2>3 DEF Fits, FitsAt
    <2> QED BY <2>2, <2>3, <2>4 DEF Unmarked
  <1>2. RequestsFit'
    BY <1>1 DEF RequestsFit
  <1>3. OverlapsAreKnown' /\ RowsNameEvents' /\ LivingAreKnown'
    BY DEF CalendarInv, OverlapsAreKnown, RowsNameEvents, LivingAreKnown, Active, EventIds
  <1>4. RowsAreTrue'
    BY <1>1 DEF CalendarInv, RowsAreTrue, Active
  <1> QED BY <1>2, <1>3, <1>4 DEF CalendarInv

-----------------------------------------------------------------------------
(* The steps, one after the other.                                         *)
LEMMA TypesStay ==
    ASSUME CalendarTypes, NEW r \in CalendarRequests, OthersStay(r),
           connection' \in Connections, flows' \in Seq(FlowStates),
           plan' \in [revision : Nat, timed : SUBSET SyncKeys],
           calendarRows' \in [SyncKeys -> SyncRows], events' \in Seq(Events),
           \/ r \in Busy' \/ syncs'[r] = IdleSync
           \/ syncs'[r].phase = "calling" /\ syncs'[r].call = "freebusy"
    PROVE  CalendarTypes'
  <1>1. IdleSync.phase = "none"
    BY DEF IdleSync
  <1>2. ASSUME NEW q \in CalendarRequests \ Busy', syncs'[q].phase # "none"
        PROVE  syncs'[q].phase = "calling" /\ syncs'[q].call = "freebusy"
    <2>1. CASE q = r
      BY <1>1, <1>2, <2>1
    <2>2. CASE q # r
      BY <1>2, <2>2 DEF Busy, OthersStay, CalendarTypes
    <2> QED BY <2>1, <2>2
  <1> QED BY <1>2 DEF CalendarTypes, OthersStay

LEMMA InitHolds == CalendarInit => CalendarInv
  <1> SUFFICES ASSUME CalendarInit PROVE CalendarInv
    OBVIOUS
  <1>1. Busy = {} /\ \A r \in CalendarRequests : syncs[r] = IdleSync
    BY IdleFacts DEF CalendarInit, Busy
  <1>2. CalendarTypes
    <2>1. connection \in Connections
      BY DEF CalendarInit, ConnectionInit, Connections
    <2>2. flows \in Seq(FlowStates) /\ fetches \in [CalendarRequests -> FetchStates]
      BY IdleFacts DEF CalendarInit, ConnectionInit
    <2>3. plan \in [revision : Nat, timed : SUBSET SyncKeys]
      BY DEF CalendarInit
    <2>4. calendarRows \in [SyncKeys -> SyncRows] /\ events \in Seq(Events)
      BY DEF CalendarInit, NoRow, SyncRows
    <2>5. syncs \in [CalendarRequests -> SyncStates] /\ IdleSync.phase = "none"
      BY IdleFacts DEF CalendarInit, IdleSync
    <2> QED BY <1>1, <2>1, <2>2, <2>3, <2>4, <2>5 DEF CalendarTypes
  <1>3. \A k \in SyncKeys : calendarRows[k].event = 0 /\ ~Active(k)
    BY DEF CalendarInit, NoRow, Active
  <1>4. EventIds = {} /\ Len(events) = 0
    BY DEF CalendarInit, EventIds
  <1> QED BY <1>1, <1>2, <1>3, <1>4 DEF CalendarInv, RequestsFit, OverlapsAreKnown,
             RowsNameEvents, LivingAreKnown, RowsAreTrue

LEMMA ConnectionKeeps ==
    ASSUME CalendarInv, ConnectionNext, UNCHANGED tripVars
    PROVE  CalendarInv'
  <1>1. /\ connection' \in Connections /\ flows' \in Seq(FlowStates)
        /\ fetches' \in [CalendarRequests -> FetchStates]
        /\ \A r \in CalendarRequests : fetches[r].phase = "have" => fetches'[r].phase = "have"
    BY ConnectionMoves DEF CalendarInv
  <1>2. Busy' = Busy /\ UNCHANGED <<plan, calendarRows, events, syncs, astray>>
    BY DEF Busy, tripVars
  <1>3. CalendarTypes'
    BY <1>1, <1>2 DEF CalendarInv, CalendarTypes
  <1> QED BY <1>1, <1>2, <1>3, BystandersKeep DEF Busy

LEMMA EditPlanKeeps ==
    ASSUME CalendarInv, EditPlan
    PROVE  CalendarInv'
  <1>1. /\ Busy' = Busy
        /\ UNCHANGED <<connection, flows, fetches, calendarRows, events, syncs, astray>>
    BY DEF Busy, EditPlan, connectionVars
  <1>2. plan' \in [revision : Nat, timed : SUBSET SyncKeys]
    BY CalendarFacts DEF CalendarInv, EditPlan
  <1>3. CalendarTypes'
    BY <1>1, <1>2 DEF CalendarInv, CalendarTypes
  <1> QED BY <1>1, <1>3, BystandersKeep

LEMMA BeginFreeBusyKeeps ==
    ASSUME CalendarInv, NEW r \in CalendarRequests, BeginFreeBusy(r)
    PROVE  CalendarInv'
  <1> DEFINE s == [IdleSync EXCEPT !.kind = "freebusy"]
  <1>1. s \in SyncStates /\ s.kind = "freebusy"
    BY IdleFacts DEF SyncStates
  <1>2. Calls(r, s, "freebusy", {}) /\ UNCHANGED <<plan, calendarRows, events, astray>>
    BY DEF BeginFreeBusy
  <1> HIDE DEF s
  <1>3. /\ OthersStay(r) /\ syncs'[r].kind = "freebusy" /\ UNCHANGED <<connection, flows>>
        /\ syncs'[r].phase = "calling" /\ syncs'[r].call = "freebusy"
    BY <1>1, <1>2, CallsMove DEF CalendarInv, Kept
  <1>4. r \notin Busy /\ Busy' = Busy
    BY <1>3 DEF BeginFreeBusy, Busy, OthersStay
  <1>5. CalendarTypes'
    BY <1>2, <1>3, TypesStay, CalendarFacts DEF CalendarInv, CalendarTypes
  <1> QED BY <1>2, <1>3, <1>4, <1>5, BystandersKeep DEF OthersStay, Busy

LEMMA GetFreeBusyKeeps ==
    ASSUME CalendarInv, NEW r \in CalendarRequests, GetFreeBusy(r)
    PROVE  CalendarInv'
  <1>1. r \notin Busy
    BY BusyFacts DEF GetFreeBusy, RequestOK
  <1>2. /\ OthersStay(r) /\ syncs'[r] = IdleSync
        /\ UNCHANGED <<flows, plan, calendarRows, events, astray>>
    BY IdleFacts, OneChanges, OneFetches DEF CalendarInv, GetFreeBusy, OthersStay
  <1>3. connection' \in Connections
    BY CalendarFacts DEF CalendarInv, GetFreeBusy, Disconnected, Connections
  <1>4. Busy' = Busy
    BY <1>1, <1>2, IdleFacts DEF Busy, OthersStay
  <1>5. CalendarTypes'
    BY <1>2, <1>3, TypesStay, CalendarDomains DEF CalendarInv
  <1> QED BY <1>1, <1>2, <1>4, <1>5, BystandersKeep DEF OthersStay, Busy

(* A request that ends has nothing in hand, or leaves it astray.           *)
LEMMA EndKeeps ==
    ASSUME CalendarInv, NEW r \in Busy, SyncEnds(r),
           UNCHANGED <<plan, calendarRows, events>>,
           \/ astray' = astray \cup InHand(r)
           \/ /\ astray' = astray
              /\ \A k \in SyncKeys : /\ syncs[r].results[k] = 0
                                     /\ ~Unmarked(syncs[r], fetches[r].phase, k)
    PROVE  CalendarInv'
  <1>1. r \in CalendarRequests /\ OthersStay(r) /\ syncs'[r] = IdleSync
        /\ UNCHANGED <<connection, flows>>
    BY EndMoves, BusyFacts DEF CalendarInv
  <1>2. Busy' = Busy \ {r} /\ \A q \in Busy' : syncs'[q] = syncs[q] /\ fetches'[q] = fetches[q]
    BY <1>1, IdleFacts DEF Busy, OthersStay
  <1>3. CalendarTypes'
    BY <1>1, TypesStay, CalendarDomains DEF CalendarInv
  <1>4. EventsFollow /\ ChangedElsewhere
    BY CalendarFacts DEF CalendarInv, EventsFollow, ChangedElsewhere, RowStays
  <1>5. RowsNameEvents'
    BY DEF CalendarInv, RowsNameEvents, Active
  <1>6. LivingAreKnown'
    <2> SUFFICES ASSUME NEW e \in EventIds \ astray', events[e].alive,
                        ~InRow(calendarRows[events[e].key], e)
                 PROVE  \E q \in Busy' : /\ ~syncs'[q].crossed
                                         /\ syncs'[q].results[events[e].key] = e
      BY DEF LivingAreKnown, EventIds
    <2>1. PICK q \in Busy : ~syncs[q].crossed /\ syncs[q].results[events[e].key] = e
      BY <1>4 DEF CalendarInv, LivingAreKnown, EventsFollow
    <2>2. events[e].key \in SyncKeys /\ e # 0
      BY CalendarFacts DEF CalendarInv, Events
    <2>3. q # r
      BY <2>1, <2>2 DEF InHand
    <2> QED BY <1>2, <2>1, <2>3
  <1>7. RowsAreTrue'
    <2> SUFFICES ASSUME NEW k \in SyncKeys, Active(k), calendarRows[k].event \notin astray',
                        ~events[calendarRows[k].event].alive
                 PROVE  \E q \in Busy' : /\ Unmarked(syncs'[q], fetches'[q].phase, k)
                                         /\ ~syncs'[q].crossed
                                         /\ syncs'[q].seen[k] = calendarRows[k].event
      BY DEF RowsAreTrue, Active
    <2>1. PICK q \in Busy : /\ Unmarked(syncs[q], fetches[q].phase, k) /\ ~syncs[q].crossed
                            /\ syncs[q].seen[k] = calendarRows[k].event
      BY <1>4 DEF CalendarInv, RowsAreTrue, EventsFollow
    <2>2. q # r
      BY <2>1 DEF InHand, Unmarked, Deleted
    <2> QED BY <1>2, <2>1, <2>2
  <1>8. r \notin Busy'
    BY <1>2
  <1> QED BY <1>1, <1>3, <1>4, <1>5, <1>6, <1>7, <1>8, StepKeeps

LEMMA CallRefusedKeeps ==
    ASSUME CalendarInv, NEW r \in CalendarRequests, CallRefused(r)
    PROVE  CalendarInv'
  <1>1. r \in Busy /\ SyncEnds(r) /\ UNCHANGED <<plan, calendarRows, events, astray>>
    BY DEF CallRefused
  <1>2. \A k \in SyncKeys : syncs[r].results[k] = 0 /\ ~Unmarked(syncs[r], fetches[r].phase, k)
    BY <1>1, BusyFacts DEF CallRefused, RequestOK, Unmarked, Deleted
  <1> QED BY <1>1, <1>2, EndKeeps

LEMMA SyncReturnsKeeps ==
    ASSUME CalendarInv, NEW r \in CalendarRequests, SyncReturns(r)
    PROVE  CalendarInv'
  <1>1. r \in Busy /\ SyncEnds(r) /\ UNCHANGED <<plan, calendarRows, events, astray>>
    BY DEF SyncReturns, CalendarInv, CalendarTypes
  <1>2. \A k \in SyncKeys : syncs[r].results[k] = 0 /\ ~Unmarked(syncs[r], fetches[r].phase, k)
    BY <1>1, BusyFacts DEF SyncReturns, RequestOK, Unmarked, Deleted
  <1> QED BY <1>1, <1>2, EndKeeps

LEMMA SyncFailsKeeps ==
    ASSUME CalendarInv, NEW r \in CalendarRequests, SyncFails(r)
    PROVE  CalendarInv'
  BY EndKeeps DEF SyncFails

LEMMA OutdatedStays ==
    ASSUME NEW s \in SyncStates, NEW t \in SyncStates, Kept(t, s), t.seen = s.seen
    PROVE  Outdated(t) = Outdated(s)
  BY DEF Outdated, Kept

LEMMA AnswerMoves ==
    ASSUME CalendarTypes, NEW r \in CalendarRequests, NEW S \in SUBSET SyncKeys,
           syncs' = [syncs EXCEPT ![r].phase = "answered", ![r].left = S],
           fetches' = [fetches EXCEPT ![r] = NoFetch]
    PROVE  /\ OthersStay(r) /\ Kept(syncs'[r], syncs[r])
           /\ syncs'[r].phase = "answered" /\ syncs'[r].call = syncs[r].call
           /\ syncs'[r].seen = syncs[r].seen /\ syncs'[r].results = syncs[r].results
           /\ syncs'[r].left = S
  <1> DEFINE s == [syncs[r] EXCEPT !.phase = "answered"]
             t == [s EXCEPT !.left = S]
  <1>1. syncs[r] \in SyncStates
    BY CalendarFacts
  <1>2. syncs' = [syncs EXCEPT ![r] = t]
    BY CalendarFacts
  <1>3. /\ s \in SyncStates /\ Kept(s, syncs[r]) /\ s.phase = "answered"
        /\ s.call = syncs[r].call /\ s.seen = syncs[r].seen /\ s.results = syncs[r].results
    BY <1>1, WithPhase
  <1> HIDE DEF s
  <1>4. /\ t \in SyncStates /\ Kept(t, s) /\ t.phase = s.phase /\ t.call = s.call
        /\ t.seen = s.seen /\ t.results = s.results /\ t.left = S
    BY <1>3, WithLeft
  <1> HIDE DEF t
  <1>5. /\ syncs' \in [CalendarRequests -> SyncStates] /\ syncs'[r] = t
        /\ \A q \in CalendarRequests \ {r} : syncs'[q] = syncs[q]
    BY <1>2, <1>4, OneChanges
  <1>6. /\ fetches' \in [CalendarRequests -> FetchStates]
        /\ \A q \in CalendarRequests \ {r} : fetches'[q] = fetches[q]
    BY IdleFacts, OneFetches
  <1> QED BY <1>3, <1>4, <1>5, <1>6 DEF OthersStay, Kept

TokenPhases == {"none", "asked", "refreshing", "refreshed", "have", "failed"}

LEMMA AnswerKeeps ==
    ASSUME CalendarInv, NEW r \in CalendarRequests, Answer(r)
    PROVE  CalendarInv'
  <1>1. /\ r \in Busy /\ syncs[r].phase = "calling" /\ syncs[r].call \in {"delete", "write"}
        /\ fetches[r].phase = "have" /\ syncs[r].left = {}
        /\ UNCHANGED <<connection, flows, plan, calendarRows, events, astray>>
    BY DEF Answer, CalendarInv, CalendarTypes
  <1> DEFINE S == IF syncs[r].call = "delete" THEN Outdated(syncs[r])
                  ELSE {k \in SyncKeys : syncs[r].results[k] # 0}
  <1>2. S \in SUBSET SyncKeys /\ syncs[r] \in SyncStates /\ RequestOK(syncs[r], fetches[r].phase)
    BY <1>1, BusyFacts DEF Outdated
  <1>3. /\ syncs' = [syncs EXCEPT ![r].phase = "answered", ![r].left = S]
        /\ fetches' = [fetches EXCEPT ![r] = NoFetch]
    BY DEF Answer
  <1>4. S = IF syncs[r].call = "delete" THEN Outdated(syncs[r])
            ELSE {k \in SyncKeys : syncs[r].results[k] # 0}
    OBVIOUS
  <1> HIDE DEF S
  <1>5. /\ OthersStay(r) /\ Kept(syncs'[r], syncs[r])
        /\ syncs'[r].phase = "answered" /\ syncs'[r].call = syncs[r].call
        /\ syncs'[r].seen = syncs[r].seen /\ syncs'[r].results = syncs[r].results
        /\ syncs'[r].left = S
    BY <1>2, <1>3, AnswerMoves DEF CalendarInv
  <1>6. PICK t \in SyncStates, token \in TokenPhases : t = syncs'[r] /\ token = fetches'[r].phase
    BY <1>5 DEF OthersStay, FetchStates, TokenPhases
  <1>7. r \in Busy' /\ CalendarTypes'
    <2>1. r \in Busy'
      BY <1>1, <1>5 DEF Busy, Kept
    <2> QED BY <1>1, <1>5, <2>1, TypesStay, CalendarDomains DEF CalendarInv
  <1>8. Outdated(t) = Outdated(syncs[r]) /\ t.crossed = syncs[r].crossed /\ t.kind = syncs[r].kind
    BY <1>2, <1>5, <1>6, OutdatedStays DEF Kept
  <1>9. RequestOK(t, token)
    BY <1>1, <1>2, <1>4, <1>5, <1>6, <1>8 DEF RequestOK
  <1>10. Fits(t, token, calendarRows, events, astray)
    <2> SUFFICES ASSUME NEW k \in SyncKeys
                 PROVE  FitsAt(t, token, calendarRows[k], events, astray, k)
      BY DEF Fits
    <2>1. FitsAt(syncs[r], fetches[r].phase, calendarRows[k], events, astray, k)
      BY <1>1, BusyFacts
    <2>2. ~Recorded(syncs[r], k) /\ Listed(syncs[r])
      BY <1>1 DEF Recorded, Listed
    <2>3. Deleted(t, token, k) => Deleted(syncs[r], fetches[r].phase, k)
      BY <1>1, <1>5, <1>6, <1>8 DEF Deleted
    <2> QED BY <1>5, <1>6, <1>8, <2>1, <2>2, <2>3 DEF FitsAt
  <1>11. \A k \in SyncKeys : Unmarked(syncs[r], fetches[r].phase, k) => Unmarked(t, token, k)
    BY <1>1, <1>4, <1>5, <1>6, <1>8 DEF Unmarked, Deleted
  <1> QED BY <1>1, <1>5, <1>6, <1>7, <1>8, <1>9, <1>10, <1>11, QuietStepKeeps

(* The rows are listed: the request now sees what they name.               *)
LEMMA ListMoves ==
    ASSUME CalendarInv, NEW r \in CalendarRequests, ListTripCalendarSyncs(r)
    PROVE  /\ r \in Busy /\ syncs[r] \in SyncStates /\ syncs[r].phase = "read"
           /\ syncs[r].call = "none" /\ syncs[r].kind \in {"sync", "remove"}
           /\ \A k \in SyncKeys : syncs[r].results[k] = 0
           /\ UNCHANGED <<connection, flows, plan, calendarRows, events, astray, partial>>
           /\ OthersStay(r)
           /\ \/ /\ SyncEnds(r) /\ syncs[r].kind = "sync" /\ syncs[r].timed = {}
                 /\ \A k \in SyncKeys : ~Active(k)
              \/ /\ Kept(syncs'[r], syncs[r]) /\ syncs'[r].results = syncs[r].results
                 /\ syncs'[r].seen =
                       [k \in SyncKeys |-> IF Active(k) THEN calendarRows[k].event ELSE 0]
                 /\ \/ /\ syncs'[r].phase = "calling" /\ fetches'[r].phase = "asked"
                       /\ syncs'[r].call = "delete"
                       /\ syncs'[r].left = Outdated(syncs'[r])
                    \/ /\ syncs'[r].phase = "calling" /\ fetches'[r].phase = "asked"
                       /\ syncs'[r].call = "write" /\ syncs[r].kind = "sync"
                       /\ syncs'[r].left = syncs[r].timed /\ Outdated(syncs'[r]) = {}
                    \/ /\ syncs'[r].phase = "answered" /\ syncs'[r].call = "delete"
                       /\ syncs[r].kind = "remove"
                       /\ syncs'[r].left = {} /\ Outdated(syncs'[r]) = {}
  <1> DEFINE seen == [k \in SyncKeys |-> IF Active(k) THEN calendarRows[k].event ELSE 0]
             listed == [syncs[r] EXCEPT !.seen = seen]
  <1>1. /\ r \in Busy /\ syncs[r].phase = "read"
        /\ UNCHANGED <<plan, calendarRows, events, astray, partial>>
    BY DEF ListTripCalendarSyncs, CalendarInv, CalendarTypes
  <1>2. /\ syncs[r] \in SyncStates /\ syncs[r].call = "none"
        /\ \A k \in SyncKeys : syncs[r].results[k] = 0 /\ k \notin syncs[r].left
        /\ syncs[r].kind \in {"sync", "remove"}
    BY <1>1, BusyFacts DEF RequestOK
  <1>3. seen \in [SyncKeys -> Nat]
    BY CalendarFacts DEF CalendarInv, SyncRows
  <1>4. /\ listed \in SyncStates /\ Kept(listed, syncs[r]) /\ listed.phase = syncs[r].phase
        /\ listed.call = syncs[r].call /\ listed.seen = seen
        /\ listed.results = syncs[r].results /\ listed.left = syncs[r].left
    BY <1>2, <1>3, WithSeen
  <1>5. \/ Calls(r, listed, "delete", Outdated(listed))
        \/ /\ Outdated(listed) = {} /\ listed.kind = "sync"
           /\ Calls(r, listed, "write", listed.timed)
        \/ Outdated(listed) = {} /\ listed.kind = "sync" /\ listed.timed = {} /\ SyncEnds(r)
        \/ /\ Outdated(listed) = {} /\ syncs[r].kind # "sync"
           /\ syncs' = [syncs EXCEPT ![r] = [listed EXCEPT !.phase = "answered", !.call = "delete"]]
           /\ UNCHANGED connectionVars
    BY <1>4 DEF ListTripCalendarSyncs, GoOnWriting, ItemsToWrite, Kept
  <1>6. \A k \in SyncKeys : seen[k] = IF Active(k) THEN calendarRows[k].event ELSE 0
    OBVIOUS
  <1>7. /\ listed.timed \in SUBSET SyncKeys /\ Outdated(listed) \in SUBSET SyncKeys
        /\ listed.kind = syncs[r].kind /\ listed.timed = syncs[r].timed
    BY <1>4, SyncFields DEF Outdated, Kept
  <1>8. seen = [k \in SyncKeys |-> IF Active(k) THEN calendarRows[k].event ELSE 0]
    OBVIOUS
  <1> HIDE DEF seen, listed
  <1>9. CASE Calls(r, listed, "delete", Outdated(listed))
    <2>1. /\ OthersStay(r) /\ Kept(syncs'[r], listed)
          /\ syncs'[r].phase = "calling" /\ syncs'[r].call = "delete"
          /\ syncs'[r].seen = listed.seen /\ syncs'[r].results = listed.results
          /\ syncs'[r].left = Outdated(listed) /\ fetches'[r].phase = "asked"
          /\ UNCHANGED <<connection, flows>>
      BY <1>4, <1>7, <1>9, CallsMove DEF CalendarInv
    <2>2. Outdated(syncs'[r]) = Outdated(listed)
      BY <1>4, <2>1, OutdatedStays DEF OthersStay
    <2>3. Kept(syncs'[r], syncs[r])
      BY <1>4, <2>1 DEF Kept
    <2> QED BY <1>1, <1>2, <1>4, <1>8, <2>1, <2>2, <2>3
  <1>10. CASE /\ Outdated(listed) = {} /\ listed.kind = "sync"
              /\ Calls(r, listed, "write", listed.timed)
    <2>1. /\ OthersStay(r) /\ Kept(syncs'[r], listed)
          /\ syncs'[r].phase = "calling" /\ syncs'[r].call = "write"
          /\ syncs'[r].seen = listed.seen /\ syncs'[r].results = listed.results
          /\ syncs'[r].left = listed.timed /\ fetches'[r].phase = "asked"
          /\ UNCHANGED <<connection, flows>>
      BY <1>4, <1>7, <1>10, CallsMove DEF CalendarInv
    <2>2. Outdated(syncs'[r]) = Outdated(listed)
      BY <1>4, <2>1, OutdatedStays DEF OthersStay
    <2>3. Kept(syncs'[r], syncs[r])
      BY <1>4, <2>1 DEF Kept
    <2> QED BY <1>1, <1>2, <1>4, <1>7, <1>8, <1>10, <2>1, <2>2, <2>3
  <1>11. CASE Outdated(listed) = {} /\ listed.kind = "sync" /\ listed.timed = {} /\ SyncEnds(r)
    <2>1. \A k \in SyncKeys : ~Active(k)
      BY <1>4, <1>6, <1>11 DEF Outdated, CalendarInv, RowsNameEvents
    <2>2. OthersStay(r) /\ UNCHANGED <<connection, flows>>
      BY <1>11, EndMoves DEF CalendarInv
    <2> QED BY <1>1, <1>2, <1>7, <1>11, <2>1, <2>2
  <1>12. CASE /\ Outdated(listed) = {} /\ syncs[r].kind # "sync"
              /\ syncs' = [syncs EXCEPT ![r] = [listed EXCEPT !.phase = "answered",
                                                              !.call = "delete"]]
              /\ UNCHANGED connectionVars
    <2> DEFINE a == [listed EXCEPT !.phase = "answered"]
               b == [a EXCEPT !.call = "delete"]
    <2>1. /\ a \in SyncStates /\ Kept(a, listed) /\ a.phase = "answered" /\ a.call = listed.call
          /\ a.seen = listed.seen /\ a.results = listed.results /\ a.left = listed.left
      BY <1>4, WithPhase
    <2>2. b = [listed EXCEPT !.phase = "answered", !.call = "delete"]
      OBVIOUS
    <2> HIDE DEF a
    <2>3. /\ b \in SyncStates /\ Kept(b, a) /\ b.phase = a.phase /\ b.call = "delete"
          /\ b.seen = a.seen /\ b.results = a.results /\ b.left = a.left
      BY <2>1, WithCall
    <2>4. syncs' = [syncs EXCEPT ![r] = b]
      BY <1>12, <2>2
    <2> HIDE DEF b
    <2>5. OthersStay(r) /\ syncs'[r] = b /\ UNCHANGED <<connection, flows>>
      BY <1>12, <2>3, <2>4, OneChanges, CalendarFacts DEF OthersStay, connectionVars, CalendarInv
    <2>6. Kept(b, listed) /\ b.phase = "answered" /\ Kept(b, syncs[r])
      BY <1>4, <2>1, <2>3 DEF Kept
    <2>7. Outdated(b) = {}
      BY <1>4, <1>12, <2>1, <2>3, <2>6, OutdatedStays
    <2>8. b.left = {}
      BY <1>2, <1>4, <2>1, <2>3, SyncFields
    <2> QED BY <1>1, <1>2, <1>4, <1>8, <1>12, <2>1, <2>3, <2>5, <2>6, <2>7, <2>8
  <1> QED BY <1>5, <1>9, <1>10, <1>11, <1>12

LEMMA ListTripCalendarSyncsKeeps ==
    ASSUME CalendarInv, NEW r \in CalendarRequests, ListTripCalendarSyncs(r)
    PROVE  CalendarInv'
  <1> DEFINE seen == [k \in SyncKeys |-> IF Active(k) THEN calendarRows[k].event ELSE 0]
  <1>1. /\ r \in Busy /\ syncs[r].phase = "read"
        /\ UNCHANGED <<connection, flows, plan, calendarRows, events, astray>>
        /\ OthersStay(r)
    BY ListMoves
  <1>2. /\ syncs[r] \in SyncStates /\ syncs[r].call = "none"
        /\ \A k \in SyncKeys : syncs[r].results[k] = 0
        /\ syncs[r].kind \in {"sync", "remove"}
    BY ListMoves
  <1>3. \A k \in SyncKeys : seen[k] = IF Active(k) THEN calendarRows[k].event ELSE 0
    OBVIOUS
  <1>4. \/ SyncEnds(r)
        \/ /\ Kept(syncs'[r], syncs[r]) /\ syncs'[r].results = syncs[r].results
           /\ syncs'[r].seen = seen
           /\ \/ /\ syncs'[r].phase = "calling" /\ fetches'[r].phase = "asked"
                 /\ syncs'[r].call = "delete" /\ syncs'[r].left = Outdated(syncs'[r])
              \/ /\ syncs'[r].phase = "calling" /\ fetches'[r].phase = "asked"
                 /\ syncs'[r].call = "write" /\ syncs[r].kind = "sync"
                 /\ syncs'[r].left = syncs[r].timed
              \/ /\ syncs'[r].phase = "answered" /\ syncs'[r].call = "delete"
                 /\ syncs'[r].left = Outdated(syncs'[r]) /\ Outdated(syncs'[r]) = {}
    BY ListMoves
  <1> HIDE DEF seen
  <1>5. \A k \in SyncKeys : ~Unmarked(syncs[r], fetches[r].phase, k)
    BY <1>2 DEF Unmarked, Deleted
  <1>6. ASSUME Kept(syncs'[r], syncs[r]),
               syncs'[r].seen = seen, syncs'[r].results = syncs[r].results,
               NEW call \in {"delete", "write"}, syncs'[r].call = call,
               call = "write" => syncs[r].kind = "sync" /\ syncs'[r].left = syncs[r].timed,
               call = "delete" => syncs'[r].left = Outdated(syncs'[r]),
               \/ syncs'[r].phase = "calling" /\ fetches'[r].phase = "asked"
               \/ /\ syncs'[r].phase = "answered" /\ call = "delete"
                  /\ Outdated(syncs'[r]) = {}
        PROVE  CalendarInv'
    <2>1. r \in Busy'
      BY <1>1, <1>6 DEF Busy, Kept
    <2>2. CalendarTypes'
      BY <1>1, <1>6, <2>1, TypesStay, CalendarDomains DEF CalendarInv
    <2>3. PICK t \in SyncStates, token \in TokenPhases : t = syncs'[r] /\ token = fetches'[r].phase
      BY <1>1 DEF OthersStay, FetchStates, TokenPhases
    <2>4. t.crossed = syncs[r].crossed /\ t.kind = syncs[r].kind /\ t.timed = syncs[r].timed
      BY <1>6, <2>3 DEF Kept
    <2>5. RequestOK(t, token)
      <3>1. CASE call = "write"
        BY <1>2, <1>6, <2>3, <2>4, <3>1, SyncFields DEF RequestOK
      <3>2. CASE call = "delete"
        BY <1>2, <1>6, <2>3, <2>4, <3>2 DEF RequestOK
      <3> QED BY <3>1, <3>2
    <2>6. Fits(t, token, calendarRows, events, astray)
      <3> SUFFICES ASSUME NEW k \in SyncKeys
                   PROVE  FitsAt(t, token, calendarRows[k], events, astray, k)
        BY DEF Fits
      <3>1. /\ calendarRows[k].event \in 0..Len(events) /\ Len(events) \in Nat
            /\ calendarRows[k].event # 0 => events[calendarRows[k].event].key = k
            /\ Active(k) => calendarRows[k].event # 0
        BY CalendarFacts DEF CalendarInv, RowsNameEvents
      <3>2. t.seen[k] = (IF Active(k) THEN calendarRows[k].event ELSE 0) /\ t.results[k] = 0
        BY <1>2, <1>3, <1>6, <2>3
      <3>3. ~Deleted(t, token, k)
        BY <1>6, <2>3 DEF Deleted
      <3> QED BY <3>1, <3>2, <3>3 DEF FitsAt, InRow, Active
    <2> QED BY <1>1, <1>5, <1>6, <2>1, <2>2, <2>3, <2>4, <2>5, <2>6, QuietStepKeeps
  <1>7. CASE SyncEnds(r)
    BY <1>1, <1>2, <1>5, <1>7, EndKeeps
  <1> QED BY <1>4, <1>6, <1>7

(* From a new request on, the others are overlapping ones.                 *)
LEMMA BeginSyncKeeps ==
    ASSUME CalendarInv, NEW r \in CalendarRequests, NEW kind \in {"sync", "remove"},
           BeginSync(r, kind)
    PROVE  CalendarInv'
  <1> DEFINE t == [IdleSync EXCEPT !.kind = kind, !.phase = "read", !.revision = plan.revision,
                                   !.timed = plan.timed, !.crossed = Busy # {}]
  <1>1. /\ t \in SyncStates /\ t.kind = kind /\ t.phase = "read" /\ t.call = "none"
        /\ t.crossed = (Busy # {}) /\ t.left = {}
        /\ \A k \in SyncKeys : t.seen[k] = 0 /\ t.results[k] = 0
    BY CalendarFacts DEF CalendarInv, IdleSync, SyncStates
  <1>2. /\ r \notin Busy
        /\ syncs' = [q \in CalendarRequests |->
              CASE q = r -> t [] q \in Busy -> [syncs[q] EXCEPT !.crossed = TRUE]
                [] OTHER -> syncs[q]]
        /\ astray' = astray \cup UNION {InHand(q) : q \in Busy}
        /\ UNCHANGED <<connection, flows, fetches, plan, calendarRows, events>>
    BY DEF BeginSync, Busy, connectionVars
  <1> HIDE DEF t
  <1>3. syncs'[r] = t
    BY <1>2
  <1>4. ASSUME NEW q \in Busy
        PROVE  /\ syncs'[q] \in SyncStates /\ syncs'[q] = [syncs[q] EXCEPT !.crossed = TRUE]
               /\ syncs'[q].kind = syncs[q].kind /\ syncs'[q].phase = syncs[q].phase
               /\ syncs'[q].call = syncs[q].call /\ syncs'[q].timed = syncs[q].timed
               /\ syncs'[q].seen = syncs[q].seen /\ syncs'[q].left = syncs[q].left
               /\ syncs'[q].results = syncs[q].results /\ syncs'[q].crossed
               /\ InHand(q) \subseteq astray'
    <2>1. syncs[q] \in SyncStates /\ q \in CalendarRequests
      BY BusyFacts
    <2>2. q # r /\ syncs'[q] = [syncs[q] EXCEPT !.crossed = TRUE]
      BY <1>2, <2>1
    <2> QED BY <1>2, <2>1, <2>2 DEF SyncStates
  <1>5. \A q \in CalendarRequests : q # r /\ q \notin Busy => syncs'[q] = syncs[q]
    BY <1>2
  <1>6. Busy' = Busy \cup {r}
    BY <1>1, <1>3, <1>4, <1>5 DEF Busy
  <1>7. CalendarTypes'
    <2>1. syncs' \in [CalendarRequests -> SyncStates]
      <3>1. \A q \in CalendarRequests : syncs'[q] \in SyncStates
        BY <1>1, <1>3, <1>4, <1>5, CalendarFacts DEF CalendarInv
      <3> QED BY <1>2, <3>1
    <2> QED BY <1>2, <1>5, <1>6, <2>1 DEF CalendarInv, CalendarTypes
  <1>8. \A e : e \notin astray' => e \notin astray /\ \A q \in Busy : e \notin InHand(q)
    BY <1>2
  <1>9. ASSUME NEW q \in Busy, NEW k \in SyncKeys
        PROVE  /\ syncs[q].results[k] \in astray'
               /\ k \in Outdated(syncs[q]) => syncs[q].seen[k] \in astray'
    BY <1>4 DEF InHand
  <1>10. ASSUME NEW q \in Busy
         PROVE  /\ RequestOK(syncs'[q], fetches[q].phase)
                /\ Fits(syncs'[q], fetches[q].phase, calendarRows, events, astray')
    <2>1. PICK s \in SyncStates, u \in SyncStates : s = syncs[q] /\ u = syncs'[q]
      BY <1>4, BusyFacts
    <2>2. Outdated(u) = Outdated(s)
      BY <1>4, <2>1 DEF Outdated
    <2>3. RequestOK(u, fetches[q].phase)
      <3>1. RequestOK(s, fetches[q].phase)
        BY <2>1, BusyFacts
      <3>2. /\ u.kind = s.kind /\ u.phase = s.phase /\ u.call = s.call /\ u.timed = s.timed
            /\ u.seen = s.seen /\ u.left = s.left /\ u.results = s.results
        BY <1>4, <2>1
      <3> QED BY <2>2, <3>1, <3>2 DEF RequestOK
    <2>4. ASSUME NEW k \in SyncKeys
          PROVE  FitsAt(u, fetches[q].phase, calendarRows[k], events, astray', k)
      <3>1. FitsAt(s, fetches[q].phase, calendarRows[k], events, astray, k)
        BY <2>1, BusyFacts
      <3>2. Recorded(u, k) = Recorded(s, k) /\ Listed(u) = Listed(s)
        BY <1>4, <2>1 DEF Recorded, Listed
      <3>3. Deleted(u, fetches[q].phase, k) => k \in Outdated(s)
        BY <2>2 DEF Deleted
      <3>4. s.results[k] \in astray' /\ (k \in Outdated(s) => s.seen[k] \in astray')
        BY <1>9, <2>1
      <3>5. u.seen = s.seen /\ u.results = s.results
        BY <1>4, <2>1
      <3> QED BY <1>8, <2>2, <3>1, <3>2, <3>3, <3>4, <3>5 DEF FitsAt
    <2> QED BY <2>1, <2>3, <2>4 DEF Fits
  <1>11. RequestOK(t, fetches[r].phase) /\ Fits(t, fetches[r].phase, calendarRows, events, astray')
    <2>1. RequestOK(t, fetches[r].phase)
      BY <1>1 DEF RequestOK
    <2>2. Len(events) \in Nat
      BY CalendarFacts DEF CalendarInv
    <2> QED BY <1>1, <2>1, <2>2 DEF Fits, FitsAt, Listed, Deleted
  <1>12. RequestsFit'
    <2>1. ASSUME NEW q \in Busy'
          PROVE  /\ RequestOK(syncs'[q], fetches'[q].phase)
                 /\ Fits(syncs'[q], fetches'[q].phase, calendarRows', events', astray')
      <3>1. CASE q = r
        BY <1>2, <1>3, <1>11, <3>1
      <3>2. CASE q # r
        BY <1>2, <1>6, <1>10, <3>2
      <3> QED BY <3>1, <3>2
    <2> QED BY <2>1 DEF RequestsFit
  <1>13. OverlapsAreKnown'
    BY <1>1, <1>3, <1>4, <1>6 DEF OverlapsAreKnown
  <1>14. RowsNameEvents'
    BY <1>2 DEF CalendarInv, RowsNameEvents, Active
  <1>15. LivingAreKnown'
    <2> SUFFICES ASSUME NEW e \in EventIds \ astray', events[e].alive
                 PROVE  InRow(calendarRows[events[e].key], e)
      BY <1>2 DEF LivingAreKnown, EventIds
    <2>1. events[e].key \in SyncKeys
      BY CalendarFacts DEF CalendarInv, Events
    <2> QED BY <1>8, <1>9, <2>1 DEF CalendarInv, LivingAreKnown
  <1>16. RowsAreTrue'
    <2> SUFFICES ASSUME NEW k \in SyncKeys, Active(k), calendarRows[k].event \notin astray'
                 PROVE  events[calendarRows[k].event].alive
      BY <1>2 DEF RowsAreTrue, Active
    <2> QED BY <1>8, <1>9 DEF CalendarInv, RowsAreTrue, Unmarked, Deleted
  <1> QED BY <1>7, <1>12, <1>13, <1>14, <1>15, <1>16 DEF CalendarInv

(* The item whose turn it is.                                              *)
LEMMA TurnFacts ==
    ASSUME CalendarInv, NEW r \in CalendarRequests, NEW k \in SyncKeys,
           NEW call \in {"delete", "write"}, AtItem(r, call, k)
    PROVE  /\ r \in Busy /\ syncs[r].phase = "calling" /\ syncs[r].call = call
           /\ fetches[r].phase = "have" /\ k \in syncs[r].left
  <1>1. r \in Busy
    BY DEF AtItem, CalendarInv, CalendarTypes
  <1>2. syncs[r].left \in SUBSET Nat
    BY <1>1, BusyFacts, SyncFields, SyncAssumption
  <1> QED BY <1>1, <1>2, MinIsMember DEF AtItem

LEMMA DeleteEventKeeps ==
    ASSUME CalendarInv, NEW r \in CalendarRequests, NEW k \in SyncKeys, DeleteEvent(r, k)
    PROVE  CalendarInv'
  <1>1. /\ r \in Busy /\ syncs[r].phase = "calling" /\ syncs[r].call = "delete"
        /\ fetches[r].phase = "have" /\ k \in syncs[r].left
    BY TurnFacts DEF DeleteEvent
  <1>2. PICK s \in SyncStates : s = syncs[r]
    BY <1>1, BusyFacts
  <1>3. /\ RequestOK(s, "have") /\ s.left \subseteq Outdated(s)
        /\ \A l \in SyncKeys : s.results[l] = 0 /\ FitsAt(s, "have", calendarRows[l], events, astray, l)
    BY <1>1, <1>2, BusyFacts DEF RequestOK
  <1>4. PICK e \in EventIds : e = s.seen[k] /\ events[e].key = k
    <2>1. s.seen[k] # 0
      BY <1>1, <1>2, <1>3 DEF Outdated
    <2> QED BY <1>3, <2>1 DEF FitsAt, EventIds
  <1>5. /\ \/ events' = events
           \/ events' = [events EXCEPT ![e].alive = FALSE]
        /\ \/ astray' = astray /\ ~s.crossed /\ ~events'[e].alive
           \/ astray' = astray \cup {e}
    BY <1>1, <1>2, <1>4, CalendarFacts DEF DeleteEvent, Astray, Reachable, EventIds, CalendarInv, Events
  <1>6. /\ events' \in Seq(Events) /\ Len(events') = Len(events) /\ Len(events) \in Nat
        /\ \A d \in EventIds : /\ events'[d].key = events[d].key
                               /\ events'[d].alive => events[d].alive
                               /\ d # e => events'[d] = events[d]
    <2>1. CASE events' = events
      BY <2>1, CalendarFacts DEF CalendarInv
    <2>2. CASE events' = [events EXCEPT ![e].alive = FALSE]
      <3>1. /\ events[e] \in Events
            /\ events' = [events EXCEPT ![e] = [events[e] EXCEPT !.alive = FALSE]]
        BY <2>2, CalendarFacts DEF CalendarInv
      <3>2. [events[e] EXCEPT !.alive = FALSE] \in Events
        BY <3>1 DEF Events
      <3> QED BY <2>2, <3>1, <3>2, CalendarFacts DEF CalendarInv, EventIds, Events
    <2> QED BY <1>5, <2>1, <2>2
  <1>7. /\ OthersStay(r) /\ Kept(syncs'[r], s) /\ fetches' = fetches
        /\ syncs'[r].phase = "calling" /\ syncs'[r].call = "delete"
        /\ syncs'[r].seen = s.seen /\ syncs'[r].results = s.results
        /\ syncs'[r].left = s.left \ {k}
        /\ UNCHANGED <<connection, flows, plan, calendarRows>>
    BY <1>1, <1>2, TakesItem DEF DeleteEvent, CalendarInv
  <1>8. PICK t \in SyncStates : t = syncs'[r]
    BY <1>7 DEF OthersStay
  <1>9. r \in Busy' /\ CalendarTypes'
    <2>1. r \in Busy'
      BY <1>1, <1>2, <1>7 DEF Busy, Kept
    <2> QED BY <1>6, <1>7, <2>1, TypesStay, CalendarDomains DEF CalendarInv
  <1>10. Outdated(t) = Outdated(s) /\ t.crossed = s.crossed /\ t.kind = s.kind
    BY <1>7, <1>8, OutdatedStays DEF Kept
  <1>11. RequestOK(t, "have")
    BY <1>3, <1>7, <1>8, <1>10 DEF RequestOK
  <1>12. Fits(t, "have", calendarRows, events', astray')
    <2> SUFFICES ASSUME NEW l \in SyncKeys
                 PROVE  FitsAt(t, "have", calendarRows[l], events', astray', l)
      BY DEF Fits
    <2>1. FitsAt(s, "have", calendarRows[l], events, astray, l)
      BY <1>3
    <2>2. PICK seen \in 0..Len(events) : seen = s.seen[l] /\ seen = t.seen[l]
      BY <1>7, <1>8, <2>1 DEF FitsAt
    <2>3. t.results[l] = 0 /\ ~Recorded(s, l) /\ Listed(s)
      BY <1>1, <1>2, <1>3, <1>7, <1>8 DEF Recorded, Listed
    <2>4. seen # 0 => seen \in EventIds /\ events'[seen].key = l
      BY <1>6, <2>1, <2>2 DEF FitsAt, EventIds
    <2>5. astray \subseteq astray'
      BY <1>5
    <2>6. CASE l = k
      <3>1. k \in Outdated(s)
        BY <1>1, <1>2, <1>3
      <3>2. seen = e /\ seen # 0 /\ k \in Outdated(t)
        <4>1. seen = e
          BY <1>4, <2>2, <2>6
        <4>2. e # 0
          BY <1>6 DEF EventIds
        <4> QED BY <1>10, <3>1, <4>1, <4>2
      <3>3. seen \notin astray' => ~t.crossed /\ ~events'[seen].alive
        BY <1>5, <1>10, <3>2
      <3>4. calendarRows[l].status = "active" /\ calendarRows[l].event \notin astray'
              => seen = calendarRows[l].event
        BY <2>1, <2>2, <2>3, <2>5 DEF FitsAt
      <3> QED BY <1>6, <2>2, <2>3, <2>4, <2>6, <3>2, <3>3, <3>4 DEF FitsAt
    <2>7. CASE l # k
      <3>1. seen # 0 => events'[seen] = events[seen]
        BY <1>4, <1>6, <2>1, <2>2, <2>4, <2>7 DEF FitsAt
      <3>2. Deleted(t, "have", l) => Deleted(s, "have", l)
        BY <1>1, <1>2, <1>7, <1>8, <1>10, <2>7 DEF Deleted
      <3>3. Deleted(s, "have", l) => seen # 0
        BY <2>2 DEF Deleted, Outdated
      <3> QED BY <1>6, <1>10, <2>1, <2>2, <2>3, <2>4, <2>5, <3>1, <3>2, <3>3 DEF FitsAt
    <2> QED BY <2>6, <2>7
  <1>13. EventsFollow
    BY <1>5, <1>6 DEF EventsFollow, EventIds
  <1>14. s.crossed => ChangedElsewhere
    BY <1>5, <1>6, <1>7 DEF ChangedElsewhere, RowStays, EventIds
  <1>15. \A q \in Busy : /\ q \in Busy' /\ syncs'[q].crossed = syncs[q].crossed
                         /\ syncs'[q].results = syncs[q].results
                         /\ syncs'[q].seen = syncs[q].seen
    BY <1>2, <1>3, <1>7, <1>8, <1>9, <1>10 DEF Busy, OthersStay
  <1>16. RowsNameEvents'
    BY <1>6, <1>7 DEF CalendarInv, RowsNameEvents, Active, EventIds
  <1>17. LivingAreKnown'
    <2> SUFFICES ASSUME NEW d \in EventIds \ astray', events'[d].alive,
                        ~InRow(calendarRows[events[d].key], d)
                 PROVE  \E q \in Busy' : /\ ~syncs'[q].crossed
                                         /\ syncs'[q].results[events[d].key] = d
      BY <1>6, <1>7 DEF LivingAreKnown, EventIds
    <2>1. events[d].alive /\ d \notin astray
      BY <1>5, <1>6
    <2> QED BY <1>15, <2>1 DEF CalendarInv, LivingAreKnown
  <1>18. RowsAreTrue'
    <2> SUFFICES ASSUME NEW l \in SyncKeys, Active(l), calendarRows[l].event \notin astray',
                        ~events'[calendarRows[l].event].alive
                 PROVE  \E q \in Busy' : /\ Unmarked(syncs'[q], fetches[q].phase, l)
                                         /\ ~syncs'[q].crossed
                                         /\ syncs'[q].seen[l] = calendarRows[l].event
      BY <1>7 DEF RowsAreTrue, Active
    <2>1. calendarRows[l].event \in EventIds /\ events[calendarRows[l].event].key = l
      BY <1>6 DEF CalendarInv, RowsNameEvents, EventIds
    <2>2. CASE calendarRows[l].event = e
      <3>1. l = k /\ ~s.crossed
        BY <1>4, <1>5, <2>1, <2>2
      <3>2. Unmarked(t, "have", k)
        BY <1>1, <1>2, <1>3, <1>7, <1>8, <1>10 DEF Unmarked, Deleted
      <3> QED BY <1>1, <1>4, <1>7, <1>8, <1>9, <1>10, <2>2, <3>1, <3>2
    <2>3. CASE calendarRows[l].event # e
      <3>1. calendarRows[l].event \notin astray /\ ~events[calendarRows[l].event].alive
        BY <1>5, <1>6, <2>1, <2>3
      <3>2. PICK q \in Busy : /\ Unmarked(syncs[q], fetches[q].phase, l) /\ ~syncs[q].crossed
                              /\ syncs[q].seen[l] = calendarRows[l].event
        BY <3>1 DEF CalendarInv, RowsAreTrue
      <3>3. Unmarked(syncs'[q], fetches[q].phase, l)
        <4>1. CASE q = r
          BY <1>1, <1>2, <1>7, <1>8, <1>10, <3>2, <4>1 DEF Unmarked, Deleted
        <4>2. CASE q # r
          BY <1>7, <3>2, <4>2 DEF OthersStay, Busy
        <4> QED BY <4>1, <4>2
      <3> QED BY <1>15, <3>2, <3>3
    <2> QED BY <2>2, <2>3
  <1> QED BY <1>1, <1>2, <1>7, <1>8, <1>9, <1>10, <1>11, <1>12, <1>13, <1>14, <1>16, <1>17,
             <1>18, StepKeeps

LEMMA UpdateEventKeeps ==
    ASSUME CalendarInv, NEW r \in CalendarRequests, NEW k \in SyncKeys, UpdateEvent(r, k)
    PROVE  CalendarInv'
  <1>1. /\ r \in Busy /\ syncs[r].phase = "calling" /\ syncs[r].call = "write"
        /\ fetches[r].phase = "have" /\ k \in syncs[r].left
    BY TurnFacts DEF UpdateEvent
  <1>2. PICK s \in SyncStates : s = syncs[r]
    BY <1>1, BusyFacts
  <1>3. /\ RequestOK(s, "have") /\ s.left \subseteq s.timed /\ s.kind = "sync"
        /\ \A l \in s.left : s.results[l] = 0
        /\ \A l \in SyncKeys : FitsAt(s, "have", calendarRows[l], events, astray, l)
    BY <1>1, <1>2, BusyFacts DEF RequestOK
  <1>4. PICK e \in EventIds : e = s.seen[k] /\ events[e].key = k
    BY <1>2, <1>3, SMTT(20) DEF UpdateEvent, FitsAt, EventIds
  <1>5. /\ events' = events \/ events' = [events EXCEPT ![e].revision = s.revision]
        /\ fetches' = fetches /\ UNCHANGED <<connection, flows, plan, calendarRows, astray>>
        /\ \/ syncs' = [syncs EXCEPT ![r].left = @ \ {k}]
           \/ /\ syncs' = [syncs EXCEPT ![r].left = @ \ {k}, ![r].results[k] = e]
              /\ events[e].alive
    BY <1>2, <1>4 DEF UpdateEvent, ItemFails, Reachable
  <1>6. /\ events' \in Seq(Events) /\ Len(events') = Len(events) /\ Len(events) \in Nat
        /\ \A d \in EventIds : events'[d].key = events[d].key /\ events'[d].alive = events[d].alive
    <2>1. CASE events' = events
      BY <2>1, CalendarFacts DEF CalendarInv
    <2>2. CASE events' = [events EXCEPT ![e].revision = s.revision]
      <3>1. /\ events[e] \in Events /\ s.revision \in Nat
            /\ events' = [events EXCEPT ![e] = [events[e] EXCEPT !.revision = s.revision]]
        BY <2>2, CalendarFacts, SyncFields DEF CalendarInv
      <3>2. [events[e] EXCEPT !.revision = s.revision] \in Events
        BY <3>1 DEF Events
      <3> QED BY <2>2, <3>1, <3>2, CalendarFacts DEF CalendarInv, EventIds, Events
    <2> QED BY <1>5, <2>1, <2>2
  <1>7. /\ OthersStay(r) /\ Kept(syncs'[r], s)
        /\ syncs'[r].phase = "calling" /\ syncs'[r].call = "write"
        /\ syncs'[r].seen = s.seen /\ syncs'[r].left = s.left \ {k}
        /\ \/ syncs'[r].results = s.results
           \/ /\ syncs'[r].results = [s.results EXCEPT ![k] = e]
              /\ events[e].alive
    <2>1. CASE syncs' = [syncs EXCEPT ![r].left = @ \ {k}]
      BY <1>1, <1>2, <1>5, <2>1, TakesItem, ZenonT(30) DEF CalendarInv
    <2>2. CASE /\ syncs' = [syncs EXCEPT ![r].left = @ \ {k}, ![r].results[k] = e]
               /\ events[e].alive
      <3>1. e \in Nat
        BY <1>6 DEF EventIds
      <3>2. syncs' = [syncs EXCEPT ![r].left = @ \ {k}, ![r].results[k] = e]
        BY <2>2
      <3>3. CalendarTypes /\ fetches' = fetches
        BY <1>5 DEF CalendarInv
      <3>4. /\ OthersStay(r) /\ Kept(syncs'[r], syncs[r])
            /\ syncs'[r].phase = syncs[r].phase /\ syncs'[r].call = syncs[r].call
            /\ syncs'[r].seen = syncs[r].seen
            /\ syncs'[r].results = [syncs[r].results EXCEPT ![k] = e]
            /\ syncs'[r].left = syncs[r].left \ {k}
        BY <3>1, <3>2, <3>3, TakesResult
      <3> QED BY <1>1, <1>2, <2>2, <3>4
    <2> QED BY <1>5, <2>1, <2>2
  <1>8. PICK t \in SyncStates : t = syncs'[r]
    BY <1>7 DEF OthersStay
  <1>9. /\ \A l \in SyncKeys \ {k} : t.results[l] = s.results[l]
        /\ t.results[k] = 0 \/ (t.results[k] = e /\ events[e].alive)
        /\ s.results[k] = 0 /\ t.crossed = s.crossed /\ t.seen = s.seen
    BY <1>1, <1>2, <1>3, <1>7, <1>8, SyncFields DEF Kept
  <1>10. r \in Busy' /\ CalendarTypes'
    <2>1. r \in Busy'
      BY <1>1, <1>2, <1>7 DEF Busy, Kept
    <2> QED BY <1>5, <1>6, <1>7, <2>1, TypesStay, CalendarDomains DEF CalendarInv
  <1>11. RequestOK(t, "have")
    BY <1>3, <1>7, <1>8, <1>9, SyncFields DEF RequestOK, Kept
  <1>12. Fits(t, "have", calendarRows, events', astray)
    <2> SUFFICES ASSUME NEW l \in SyncKeys
                 PROVE  FitsAt(t, "have", calendarRows[l], events', astray, l)
      BY DEF Fits
    <2>1. FitsAt(s, "have", calendarRows[l], events, astray, l)
      BY <1>3
    <2>2. PICK seen \in 0..Len(events) : seen = s.seen[l] /\ seen = t.seen[l]
      BY <1>9, <2>1 DEF FitsAt
    <2>3. /\ ~Recorded(s, l) /\ Listed(s) /\ ~Deleted(t, "have", l)
          /\ k \notin Outdated(s) /\ Outdated(t) = Outdated(s)
      BY <1>1, <1>2, <1>3, <1>7, <1>8, OutdatedStays DEF Recorded, Listed, Deleted, Outdated
    <2>4. \A d \in 0..Len(events) : d # 0 => d \in EventIds
      BY <1>6 DEF EventIds
    <2>5. /\ t.results[l] \in 0..Len(events)
          /\ t.results[l] # 0 =>
               /\ events'[t.results[l]].key = l
               /\ seen = 0 \/ seen = t.results[l]
               /\ t.results[l] \in astray \/ events'[t.results[l]].alive
               /\ seen = 0 /\ t.crossed => t.results[l] \in astray
      <3>1. CASE t.results[l] = s.results[l]
        BY <1>6, <1>9, <2>1, <2>2, <2>4, <3>1 DEF FitsAt
      <3>2. CASE l = k /\ t.results[k] = e /\ events[e].alive
        BY <1>4, <1>6, <2>2, <2>4, <3>2 DEF EventIds
      <3> QED BY <1>9, <3>1, <3>2
    <2> QED BY <1>6, <1>9, <2>1, <2>2, <2>3, <2>4, <2>5 DEF FitsAt
  <1>13. EventsFollow
    BY <1>5, <1>6 DEF EventsFollow, EventIds
  <1>14. ChangedElsewhere
    BY <1>5, <1>6 DEF ChangedElsewhere, RowStays, EventIds
  <1>15. \A q \in Busy \ {r} : q \in Busy' /\ syncs'[q] = syncs[q]
    BY <1>7 DEF Busy, OthersStay
  <1>16. RowsNameEvents'
    BY <1>5, <1>6 DEF CalendarInv, RowsNameEvents, Active, EventIds
  <1>17. LivingAreKnown'
    <2> SUFFICES ASSUME NEW d \in EventIds \ astray, events[d].alive,
                        ~InRow(calendarRows[events[d].key], d)
                 PROVE  \E q \in Busy' : /\ ~syncs'[q].crossed
                                         /\ syncs'[q].results[events[d].key] = d
      BY <1>5, <1>6 DEF LivingAreKnown, EventIds
    <2>1. PICK q \in Busy : ~syncs[q].crossed /\ syncs[q].results[events[d].key] = d
      BY DEF CalendarInv, LivingAreKnown
    <2>2. CASE q = r
      <3>1. events[d].key \in SyncKeys /\ d # 0
        BY <1>6, CalendarFacts DEF CalendarInv, Events, EventIds
      <3>2. events[d].key # k
        BY <1>2, <1>9, <2>1, <2>2, <3>1
      <3> QED BY <1>2, <1>8, <1>9, <1>10, <2>1, <2>2, <3>1, <3>2
    <2>3. CASE q # r
      BY <1>15, <2>1, <2>3
    <2> QED BY <2>2, <2>3
  <1>18. RowsAreTrue'
    <2> SUFFICES ASSUME NEW l \in SyncKeys, Active(l), calendarRows[l].event \notin astray,
                        ~events[calendarRows[l].event].alive
                 PROVE  \E q \in Busy' : /\ Unmarked(syncs'[q], fetches[q].phase, l)
                                         /\ ~syncs'[q].crossed
                                         /\ syncs'[q].seen[l] = calendarRows[l].event
      <3>1. \A l \in SyncKeys : Active(l) => calendarRows[l].event \in EventIds
        BY <1>6 DEF CalendarInv, RowsNameEvents, EventIds
      <3> QED BY <1>5, <1>6, <3>1 DEF RowsAreTrue, Active
    <2>1. PICK q \in Busy : /\ Unmarked(syncs[q], fetches[q].phase, l) /\ ~syncs[q].crossed
                            /\ syncs[q].seen[l] = calendarRows[l].event
      BY DEF CalendarInv, RowsAreTrue
    <2>2. q # r
      BY <1>1, <2>1 DEF Unmarked, Deleted
    <2> QED BY <1>15, <2>1, <2>2
  <1> QED BY <1>1, <1>2, <1>5, <1>7, <1>8, <1>9, <1>10, <1>11, <1>12, <1>13, <1>14, <1>16,
             <1>17, <1>18, StepKeeps

LEMMA CreateEventKeeps ==
    ASSUME CalendarInv, NEW r \in CalendarRequests, NEW k \in SyncKeys, CreateEvent(r, k)
    PROVE  CalendarInv'
  <1> DEFINE e == Len(events) + 1
             event == [key |-> k, account |-> fetches[r].account,
                       revision |-> syncs[r].revision, alive |-> TRUE]
  <1>1. /\ r \in Busy /\ syncs[r].phase = "calling" /\ syncs[r].call = "write"
        /\ fetches[r].phase = "have" /\ k \in syncs[r].left
    BY TurnFacts DEF CreateEvent
  <1>2. PICK s \in SyncStates : s = syncs[r]
    BY <1>1, BusyFacts
  <1>3. /\ RequestOK(s, "have") /\ s.left \subseteq s.timed /\ s.kind = "sync"
        /\ \A l \in s.left : s.results[l] = 0
        /\ \A l \in SyncKeys : FitsAt(s, "have", calendarRows[l], events, astray, l)
        /\ s.seen[k] = 0
    BY <1>1, <1>2, BusyFacts DEF RequestOK, CreateEvent
  <1>4. event \in Events /\ event.key = k /\ event.alive
    BY <1>1, CalendarFacts, SyncFields DEF CalendarInv, Events, FetchStates
  <1>5. /\ fetches' = fetches /\ UNCHANGED <<connection, flows, plan, calendarRows>>
        /\ events' = events \/ events' = Append(events, event)
        /\ \/ syncs' = [syncs EXCEPT ![r].left = @ \ {k}] /\ events' = events /\ astray' = astray
           \/ syncs' = [syncs EXCEPT ![r].left = @ \ {k}] /\ astray' = astray \cup {e}
           \/ /\ syncs' = [syncs EXCEPT ![r].left = @ \ {k}, ![r].results[k] = e]
              /\ events' = Append(events, event)
              /\ astray' = IF s.crossed THEN astray \cup {e} ELSE astray
    BY <1>2 DEF CreateEvent, ItemFails, Astray
  <1>6. /\ Len(events) \in Nat /\ e = Len(events) + 1 /\ events' \in Seq(Events)
        /\ \/ Len(events') = Len(events)
           \/ Len(events') = e /\ events'[e].key = k /\ events'[e].alive
        /\ \A d \in EventIds : events'[d] = events[d]
        /\ e \notin EventIds
    <2>1. /\ Len(events) \in Nat /\ e = Len(events) + 1 /\ events \in Seq(Events)
          /\ e \notin EventIds
      BY CalendarFacts DEF CalendarInv, EventIds
    <2>2. CASE events' = events
      BY <2>1, <2>2
    <2>3. CASE events' = Append(events, event)
      <3>1. \A d \in EventIds : events'[d] = events[d]
        BY <2>1, <2>3 DEF EventIds
      <3>2. events' \in Seq(Events) /\ Len(events') = e /\ events'[e] = event
        BY <1>4, <2>1, <2>3
      <3> QED BY <1>4, <2>1, <3>1, <3>2
    <2> QED BY <1>5, <2>2, <2>3
  <1> HIDE DEF e, event
  <1>7. /\ OthersStay(r) /\ Kept(syncs'[r], s)
        /\ syncs'[r].phase = "calling" /\ syncs'[r].call = "write"
        /\ syncs'[r].seen = s.seen /\ syncs'[r].left = s.left \ {k}
        /\ \/ /\ syncs'[r].results = s.results
              /\ Len(events') = Len(events) \/ e \in astray'
           \/ /\ syncs'[r].results = [s.results EXCEPT ![k] = e]
              /\ Len(events') = e /\ events'[e].key = k /\ events'[e].alive
              /\ s.crossed => e \in astray'
        /\ astray \subseteq astray' /\ astray' \subseteq astray \cup {e}
    <2>1. CASE syncs' = [syncs EXCEPT ![r].left = @ \ {k}] /\ events' = events /\ astray' = astray
      BY <1>1, <1>2, <1>5, <2>1, TakesItem DEF CalendarInv
    <2>2. CASE syncs' = [syncs EXCEPT ![r].left = @ \ {k}] /\ astray' = astray \cup {e}
      BY <1>1, <1>2, <1>5, <2>2, TakesItem, ZenonT(30) DEF CalendarInv
    <2>3. CASE /\ syncs' = [syncs EXCEPT ![r].left = @ \ {k}, ![r].results[k] = e]
               /\ events' = Append(events, event)
               /\ astray' = IF s.crossed THEN astray \cup {e} ELSE astray
      <3>1. e \in Nat /\ Len(events') # Len(events)
        BY <1>6, <2>3, CalendarFacts DEF CalendarInv
      <3>2. /\ OthersStay(r) /\ Kept(syncs'[r], s)
            /\ syncs'[r].phase = "calling" /\ syncs'[r].call = "write"
            /\ syncs'[r].seen = s.seen /\ syncs'[r].left = s.left \ {k}
            /\ syncs'[r].results = [s.results EXCEPT ![k] = e]
        <4>1. syncs' = [syncs EXCEPT ![r].left = @ \ {k}, ![r].results[k] = e]
          BY <2>3
        <4>2. CalendarTypes /\ fetches' = fetches
          BY <1>5 DEF CalendarInv
        <4>3. /\ OthersStay(r) /\ Kept(syncs'[r], syncs[r])
              /\ syncs'[r].phase = syncs[r].phase /\ syncs'[r].call = syncs[r].call
              /\ syncs'[r].seen = syncs[r].seen
              /\ syncs'[r].results = [syncs[r].results EXCEPT ![k] = e]
              /\ syncs'[r].left = syncs[r].left \ {k}
          BY <3>1, <4>1, <4>2, TakesResult
        <4> QED BY <1>1, <1>2, <4>3
      <3> QED BY <1>6, <2>3, <3>1, <3>2
    <2> QED BY <1>5, <2>1, <2>2, <2>3
  <1>8. PICK t \in SyncStates : t = syncs'[r]
    BY <1>7 DEF OthersStay
  <1>9. /\ \A l \in SyncKeys \ {k} : t.results[l] = s.results[l]
        /\ \/ t.results[k] = 0 /\ (Len(events') = Len(events) \/ e \in astray')
           \/ /\ t.results[k] = e /\ Len(events') = e /\ events'[e].key = k /\ events'[e].alive
              /\ s.crossed => e \in astray'
        /\ s.results[k] = 0 /\ t.crossed = s.crossed /\ t.seen = s.seen
    BY <1>1, <1>2, <1>3, <1>7, <1>8, SyncFields DEF Kept
  <1>10. r \in Busy' /\ CalendarTypes'
    <2>1. r \in Busy'
      BY <1>1, <1>2, <1>7 DEF Busy, Kept
    <2> QED BY <1>5, <1>6, <1>7, <2>1, TypesStay, CalendarDomains DEF CalendarInv
  <1>11. RequestOK(t, "have")
    BY <1>3, <1>7, <1>8, <1>9, SyncFields DEF RequestOK, Kept
  <1>12. Fits(t, "have", calendarRows, events', astray')
    <2> SUFFICES ASSUME NEW l \in SyncKeys
                 PROVE  FitsAt(t, "have", calendarRows[l], events', astray', l)
      BY DEF Fits
    <2>1. FitsAt(s, "have", calendarRows[l], events, astray, l)
      BY <1>3
    <2>2. PICK seen \in 0..Len(events) : seen = s.seen[l] /\ seen = t.seen[l]
      BY <1>9, <2>1 DEF FitsAt
    <2>3. /\ ~Recorded(s, l) /\ Listed(s) /\ ~Deleted(t, "have", l)
          /\ Outdated(t) = Outdated(s)
      BY <1>1, <1>2, <1>3, <1>7, <1>8, OutdatedStays DEF Recorded, Listed, Deleted
    <2>4. /\ \A d \in 0..Len(events) : d # 0 => d \in EventIds
          /\ \A d \in 0..Len(events) : d \in 0..Len(events')
      BY <1>6 DEF EventIds
    <2>5. /\ t.results[l] \in 0..Len(events')
          /\ t.results[l] # 0 =>
               /\ events'[t.results[l]].key = l
               /\ seen = 0 \/ seen = t.results[l]
               /\ t.results[l] \in astray' \/ events'[t.results[l]].alive
               /\ seen = 0 /\ t.crossed => t.results[l] \in astray'
      <3>1. CASE t.results[l] = s.results[l]
        <4>1. s.results[l] \in 0..Len(events)
          BY <2>1 DEF FitsAt
        <4> QED BY <1>6, <1>7, <1>9, <2>1, <2>2, <2>4, <3>1, <4>1 DEF FitsAt
      <3>2. CASE l = k /\ t.results[k] # 0
        BY <1>3, <1>6, <1>9, <2>2, <3>2
      <3> QED BY <1>9, <3>1, <3>2
    <2> QED BY <1>6, <1>7, <1>9, <2>1, <2>2, <2>3, <2>4, <2>5 DEF FitsAt
  <1>13. EventsFollow
    BY <1>6, <1>7 DEF EventsFollow, EventIds
  <1>14. ChangedElsewhere
    BY <1>5, <1>6, <1>7 DEF ChangedElsewhere, RowStays, EventIds
  <1>15. \A q \in Busy \ {r} : q \in Busy' /\ syncs'[q] = syncs[q]
    BY <1>7 DEF Busy, OthersStay
  <1>16. \A l \in SyncKeys :
            /\ calendarRows[l].event \in 0..Len(events)
            /\ Active(l) => calendarRows[l].event \in EventIds
            /\ calendarRows[l].event # 0 => calendarRows[l].event \in EventIds
    BY <1>6 DEF CalendarInv, RowsNameEvents, EventIds
  <1>17. RowsNameEvents'
    <2>1. \A d \in 0..Len(events) : d \in 0..Len(events')
      BY <1>6
    <2> QED BY <1>5, <1>6, <1>16, <2>1 DEF CalendarInv, RowsNameEvents, Active
  <1>18. LivingAreKnown'
    <2> SUFFICES ASSUME NEW d \in 1..Len(events'), d \notin astray', events'[d].alive,
                        ~InRow(calendarRows[events'[d].key], d)
                 PROVE  \E q \in Busy' : /\ ~syncs'[q].crossed
                                         /\ syncs'[q].results[events'[d].key] = d
      BY <1>5 DEF LivingAreKnown, EventIds
    <2>1. CASE d \in EventIds
      <3>1. d \notin astray /\ events'[d] = events[d] /\ events[d].key \in SyncKeys /\ d # 0
        BY <1>6, <1>7, <2>1, CalendarFacts DEF CalendarInv, Events, EventIds
      <3>2. PICK q \in Busy : ~syncs[q].crossed /\ syncs[q].results[events[d].key] = d
        BY <2>1, <3>1 DEF CalendarInv, LivingAreKnown
      <3>3. CASE q = r
        <4>1. events[d].key # k
          BY <1>2, <1>9, <3>1, <3>2, <3>3
        <4> QED BY <1>2, <1>8, <1>9, <1>10, <3>1, <3>2, <3>3, <4>1
      <3>4. CASE q # r
        BY <1>15, <3>1, <3>2, <3>4
      <3> QED BY <3>3, <3>4
    <2>2. CASE d \notin EventIds
      <3>1. d = e /\ Len(events') # Len(events)
        BY <1>6, <2>2 DEF EventIds
      <3> QED BY <1>8, <1>9, <1>10, <3>1
    <2> QED BY <2>1, <2>2
  <1>19. RowsAreTrue'
    <2> SUFFICES ASSUME NEW l \in SyncKeys, Active(l), calendarRows[l].event \notin astray,
                        ~events[calendarRows[l].event].alive
                 PROVE  \E q \in Busy' : /\ Unmarked(syncs'[q], fetches[q].phase, l)
                                         /\ ~syncs'[q].crossed
                                         /\ syncs'[q].seen[l] = calendarRows[l].event
      BY <1>5, <1>6, <1>7, <1>16 DEF RowsAreTrue, Active
    <2>1. PICK q \in Busy : /\ Unmarked(syncs[q], fetches[q].phase, l) /\ ~syncs[q].crossed
                            /\ syncs[q].seen[l] = calendarRows[l].event
      BY DEF CalendarInv, RowsAreTrue
    <2>2. q # r
      BY <1>1, <2>1 DEF Unmarked, Deleted
    <2> QED BY <1>15, <2>1, <2>2
  <1> QED BY <1>1, <1>2, <1>5, <1>7, <1>8, <1>9, <1>10, <1>11, <1>12, <1>13, <1>14, <1>17,
             <1>18, <1>19, StepKeeps

(* Once its events are deleted a request that runs alone knows their rows. *)
LEMMA DeletedFacts ==
    ASSUME CalendarInv, NEW r \in Busy, NEW k \in SyncKeys,
           Deleted(syncs[r], fetches[r].phase, k)
    PROVE  /\ Active(k) => \/ calendarRows[k].event \in astray
                           \/ ~syncs[r].crossed /\ ~events[calendarRows[k].event].alive
           /\ \A e \in EventIds \ astray :
                 events[e].alive /\ events[e].key = k => ~InRow(calendarRows[k], e)
  <1>1. PICK s \in SyncStates : s = syncs[r]
    BY BusyFacts
  <1>2. /\ FitsAt(s, fetches[r].phase, calendarRows[k], events, astray, k)
        /\ Deleted(s, fetches[r].phase, k)
    BY <1>1, BusyFacts
  <1>3. Listed(s) /\ ~Recorded(s, k)
    BY <1>2 DEF Deleted, Listed, Recorded
  <1> QED BY <1>1, <1>2, <1>3 DEF FitsAt, Active, InRow

(* The first row is marked: the request goes on with the next one, with    *)
(* the items to write, or ends.                                            *)
LEMMA MarkMoves ==
    ASSUME CalendarInv, NEW r \in CalendarRequests, NEW k \in SyncKeys,
           MarkTripCalendarSyncDeleted(r, k)
    PROVE  /\ r \in Busy /\ syncs[r] \in SyncStates /\ k \in syncs[r].left
           /\ syncs[r].phase = "answered" /\ syncs[r].call = "delete" /\ syncs[r].kind = "sync"
           /\ UNCHANGED <<plan, events, astray, partial, connection, flows>>
           /\ OthersStay(r)
           /\ \/ /\ syncs'[r] = IdleSync /\ syncs[r].left = {k} /\ syncs[r].timed = {}
              \/ /\ Kept(syncs'[r], syncs[r]) /\ syncs'[r].seen = syncs[r].seen
                 /\ syncs'[r].results = syncs[r].results
                 /\ \/ /\ syncs'[r].phase = "answered" /\ syncs'[r].call = "delete"
                       /\ syncs'[r].left = syncs[r].left \ {k}
                    \/ /\ syncs'[r].phase = "calling" /\ syncs'[r].call = "write"
                       /\ syncs'[r].left = syncs[r].timed /\ fetches'[r].phase = "asked"
                       /\ syncs[r].left = {k}
  <1>1. /\ r \in Busy /\ syncs[r].phase = "answered" /\ syncs[r].call = "delete"
        /\ syncs[r].kind = "sync" /\ syncs[r].left # {} /\ k = Min(syncs[r].left)
        /\ UNCHANGED <<plan, events, astray, partial>>
    BY DEF MarkTripCalendarSyncDeleted, Busy
  <1>2. PICK s \in SyncStates : s = syncs[r]
    BY <1>1, BusyFacts
  <1>3. k \in s.left
    BY <1>1, <1>2, SyncFields, SyncAssumption, MinIsMember
  <1>4. PICK rest \in SyncStates :
            /\ Kept(rest, s) /\ rest.phase = s.phase /\ rest.call = s.call
            /\ rest.seen = s.seen /\ rest.results = s.results /\ rest.left = s.left \ {k}
            /\ IF rest.left # {} THEN syncs' = [syncs EXCEPT ![r] = rest] /\ UNCHANGED connectionVars
               ELSE GoOnWriting(r, rest)
    <2> DEFINE rest == [s EXCEPT !.left = s.left \ {k}]
    <2>1. /\ rest \in SyncStates /\ Kept(rest, s) /\ rest.phase = s.phase /\ rest.call = s.call
          /\ rest.seen = s.seen /\ rest.results = s.results /\ rest.left = s.left \ {k}
      BY WithLeft, SyncFields
    <2>2. IF rest.left # {} THEN syncs' = [syncs EXCEPT ![r] = rest] /\ UNCHANGED connectionVars
          ELSE GoOnWriting(r, rest)
      BY <1>2 DEF MarkTripCalendarSyncDeleted
    <2> QED BY <2>1, <2>2
  <1>5. CASE rest.left # {}
    <2>1. OthersStay(r) /\ syncs'[r] = rest /\ UNCHANGED <<connection, flows>>
      BY <1>4, <1>5, OneChanges, CalendarFacts DEF OthersStay, connectionVars, CalendarInv
    <2> QED BY <1>1, <1>2, <1>3, <1>4, <2>1
  <1>6. CASE rest.left = {}
    <2>1. s.left = {k} /\ rest.timed = s.timed /\ rest.timed \in SUBSET SyncKeys
          /\ rest.kind = "sync"
      BY <1>1, <1>2, <1>3, <1>4, <1>6, SyncFields DEF Kept
    <2>2. Calls(r, rest, "write", rest.timed) \/ (SyncEnds(r) /\ rest.timed = {})
      BY <1>4, <1>6, <2>1 DEF GoOnWriting, ItemsToWrite
    <2>3. CASE Calls(r, rest, "write", rest.timed)
      <3>1. /\ OthersStay(r) /\ Kept(syncs'[r], rest)
            /\ syncs'[r].phase = "calling" /\ syncs'[r].call = "write"
            /\ syncs'[r].seen = rest.seen /\ syncs'[r].results = rest.results
            /\ syncs'[r].left = rest.timed /\ fetches'[r].phase = "asked"
            /\ UNCHANGED <<connection, flows>>
        BY <2>1, <2>3, CallsMove DEF CalendarInv
      <3>2. Kept(syncs'[r], s)
        BY <1>4, <3>1 DEF Kept
      <3> QED BY <1>1, <1>2, <1>3, <1>4, <2>1, <3>1, <3>2
    <2>4. CASE SyncEnds(r) /\ rest.timed = {}
      <3>1. OthersStay(r) /\ syncs'[r] = IdleSync /\ UNCHANGED <<connection, flows>>
        BY <2>4, EndMoves DEF CalendarInv
      <3> QED BY <1>1, <1>2, <1>3, <2>1, <2>4, <3>1
    <2> QED BY <2>2, <2>3, <2>4
  <1> QED BY <1>5, <1>6

LEMMA MarkTripCalendarSyncDeletedKeeps ==
    ASSUME CalendarInv, NEW r \in CalendarRequests, NEW k \in SyncKeys,
           MarkTripCalendarSyncDeleted(r, k)
    PROVE  CalendarInv'
  <1>1. /\ r \in Busy /\ syncs[r].phase = "answered" /\ syncs[r].call = "delete"
        /\ syncs[r].kind = "sync" /\ syncs[r].left # {} /\ k = Min(syncs[r].left)
        /\ UNCHANGED <<plan, events, astray>>
    BY DEF MarkTripCalendarSyncDeleted, Busy
  <1>2. PICK s \in SyncStates : s = syncs[r]
    BY <1>1, BusyFacts
  <1>3. k \in s.left
    BY <1>1, <1>2, SyncFields, SyncAssumption, MinIsMember
  <1>4. /\ RequestOK(s, fetches[r].phase) /\ s.left \subseteq Outdated(s)
        /\ \A l \in SyncKeys : /\ s.results[l] = 0
                               /\ FitsAt(s, fetches[r].phase, calendarRows[l], events, astray, l)
        /\ Deleted(s, fetches[r].phase, k)
    BY <1>1, <1>2, <1>3, BusyFacts DEF RequestOK, Deleted
  <1>5. /\ calendarRows' = [calendarRows EXCEPT ![k] = [calendarRows[k] EXCEPT !.status = "deleted"]]
        /\ calendarRows[k] \in SyncRows /\ calendarRows \in [SyncKeys -> SyncRows]
    BY CalendarFacts DEF MarkTripCalendarSyncDeleted, CalendarInv
  <1>6. [calendarRows[k] EXCEPT !.status = "deleted"] \in SyncRows
    BY <1>5 DEF SyncRows
  <1>7. /\ calendarRows' \in [SyncKeys -> SyncRows]
        /\ \A l \in SyncKeys \ {k} : calendarRows'[l] = calendarRows[l]
        /\ calendarRows'[k].status = "deleted" /\ calendarRows'[k].event = calendarRows[k].event
    BY <1>5, <1>6 DEF SyncRows
  <1>8. EventsFollow
    BY <1>1, CalendarFacts DEF EventsFollow, CalendarInv
  <1>9. s.crossed => ChangedElsewhere
    BY <1>1, <1>2, <1>4, <1>7, DeletedFacts DEF ChangedElsewhere, RowStays, RowIsAstray
  <1>10. RowsNameEvents'
    BY <1>1, <1>7 DEF CalendarInv, RowsNameEvents, Active
  <1>11. ASSUME OthersStay(r), UNCHANGED <<connection, flows>>,
                \/ syncs'[r] = IdleSync /\ s.left = {k}
                \/ /\ Kept(syncs'[r], s) /\ syncs'[r].seen = s.seen
                   /\ syncs'[r].results = s.results
                   /\ \/ /\ syncs'[r].phase = "answered" /\ syncs'[r].call = "delete"
                         /\ syncs'[r].left = s.left \ {k}
                      \/ /\ syncs'[r].phase = "calling" /\ syncs'[r].call = "write"
                         /\ syncs'[r].left = s.timed /\ fetches'[r].phase = "asked"
                         /\ s.left = {k}
         PROVE  CalendarInv'
    <2>1. PICK t \in SyncStates, token \in TokenPhases : t = syncs'[r] /\ token = fetches'[r].phase
      BY <1>11 DEF OthersStay, FetchStates, TokenPhases
    <2>2. r \in Busy' => Kept(t, s)
      BY <1>11, <2>1, IdleFacts DEF Busy
    <2>3. CalendarTypes'
      <3>1. r \in Busy' \/ syncs'[r] = IdleSync
        BY <1>1, <1>2, <1>11 DEF Busy, Kept
      <3> QED BY <1>1, <1>7, <1>11, <3>1, TypesStay, CalendarDomains DEF CalendarInv
    <2>4. ASSUME r \in Busy'
          PROVE  /\ t.crossed = s.crossed /\ RequestOK(t, token)
                 /\ Fits(t, token, calendarRows', events, astray)
      <3>1. /\ Kept(t, s) /\ t.seen = s.seen /\ t.results = s.results
            /\ \/ t.phase = "answered" /\ t.call = "delete" /\ t.left = s.left \ {k}
               \/ /\ t.phase = "calling" /\ t.call = "write" /\ t.left = s.timed
                  /\ token = "asked"
        BY <1>11, <2>1, <2>4, IdleFacts DEF Busy
      <3>2. Outdated(t) = Outdated(s) /\ t.crossed = s.crossed /\ t.kind = "sync"
        BY <1>1, <1>2, <3>1, OutdatedStays DEF Kept
      <3>3. RequestOK(t, token)
        <4>1. t.timed = s.timed /\ \A l \in SyncKeys : t.results[l] = 0
          BY <1>4, <3>1 DEF Kept
        <4>2. CASE t.phase = "answered" /\ t.call = "delete" /\ t.left = s.left \ {k}
          BY <1>4, <3>2, <4>1, <4>2 DEF RequestOK
        <4>3. CASE /\ t.phase = "calling" /\ t.call = "write" /\ t.left = s.timed
                   /\ token = "asked"
          BY <3>2, <4>1, <4>3, SyncFields DEF RequestOK
        <4> QED BY <3>1, <4>2, <4>3
      <3>4. ASSUME NEW l \in SyncKeys
            PROVE  FitsAt(t, token, calendarRows'[l], events, astray, l)
        <4>1. FitsAt(s, fetches[r].phase, calendarRows[l], events, astray, l)
          BY <1>4
        <4>2. Listed(s) /\ ~Recorded(s, l) /\ s.results[l] = 0
          BY <1>1, <1>2, <1>4 DEF Listed, Recorded
        <4>3. Deleted(t, token, l) => Deleted(s, fetches[r].phase, l)
          BY <1>1, <1>2, <3>1, <3>2 DEF Deleted
        <4>4. CASE l = k
          BY <1>4, <1>7, <3>1, <3>2, <4>1, <4>2, <4>3, <4>4 DEF FitsAt, Deleted
        <4>5. CASE l # k
          <5>1. calendarRows'[l] = calendarRows[l]
            BY <1>7, <4>5
          <5> QED BY <3>1, <3>2, <4>1, <4>2, <4>3, <5>1 DEF FitsAt
        <4> QED BY <4>4, <4>5
      <3> QED BY <3>2, <3>3, <3>4 DEF Fits
    <2>5. \A q \in Busy \ {r} : /\ q \in Busy' /\ syncs'[q] = syncs[q]
                                /\ fetches'[q] = fetches[q]
      BY <1>11 DEF Busy, OthersStay
    <2>6. LivingAreKnown'
      <3> SUFFICES ASSUME NEW d \in EventIds \ astray, events[d].alive,
                          ~InRow(calendarRows'[events[d].key], d)
                   PROVE  \E q \in Busy' : /\ ~syncs'[q].crossed
                                           /\ syncs'[q].results[events[d].key] = d
        BY <1>1 DEF LivingAreKnown, EventIds
      <3>1. events[d].key \in SyncKeys /\ d # 0
        BY CalendarFacts DEF CalendarInv, Events
      <3>2. ~InRow(calendarRows[events[d].key], d)
        <4>1. CASE events[d].key = k
          BY <1>1, <1>2, <1>4, <4>1, DeletedFacts
        <4>2. CASE events[d].key # k
          BY <1>7, <3>1, <4>2
        <4> QED BY <4>1, <4>2
      <3>3. PICK q \in Busy : ~syncs[q].crossed /\ syncs[q].results[events[d].key] = d
        BY <3>2 DEF CalendarInv, LivingAreKnown
      <3>4. q # r
        BY <1>2, <1>4, <3>1, <3>3
      <3> QED BY <2>5, <3>3, <3>4
    <2>7. RowsAreTrue'
      <3> SUFFICES ASSUME NEW l \in SyncKeys, calendarRows'[l].status = "active",
                          calendarRows'[l].event \notin astray,
                          ~events[calendarRows'[l].event].alive
                   PROVE  \E q \in Busy' : /\ Unmarked(syncs'[q], fetches'[q].phase, l)
                                           /\ ~syncs'[q].crossed
                                           /\ syncs'[q].seen[l] = calendarRows'[l].event
        BY <1>1 DEF RowsAreTrue, Active
      <3>1. l # k /\ calendarRows'[l] = calendarRows[l]
        BY <1>7
      <3>2. PICK q \in Busy : /\ Unmarked(syncs[q], fetches[q].phase, l) /\ ~syncs[q].crossed
                              /\ syncs[q].seen[l] = calendarRows[l].event
        BY <3>1 DEF CalendarInv, RowsAreTrue, Active
      <3>3. CASE q = r
        <4>1. l \in s.left \ {k} /\ l \in Outdated(s)
          BY <1>1, <1>2, <3>1, <3>2, <3>3 DEF Unmarked, Deleted
        <4>2. /\ Kept(t, s) /\ t.seen = s.seen /\ t.phase = "answered" /\ t.call = "delete"
              /\ t.left = s.left \ {k}
          BY <1>11, <2>1, <4>1
        <4>3. Outdated(t) = Outdated(s) /\ r \in Busy'
          BY <1>1, <1>2, <2>1, <4>2, OutdatedStays DEF Busy, Kept
        <4>4. Unmarked(t, token, l)
          BY <4>1, <4>2, <4>3 DEF Unmarked, Deleted
        <4> QED BY <1>2, <2>1, <3>1, <3>2, <3>3, <4>2, <4>3, <4>4 DEF Kept
      <3>4. CASE q # r
        BY <2>5, <3>1, <3>2, <3>4
      <3> QED BY <3>3, <3>4
    <2> QED BY <1>1, <1>2, <1>8, <1>9, <1>10, <1>11, <2>1, <2>3, <2>4, <2>6, <2>7, StepKeeps
  <1> QED BY <1>2, <1>11, MarkMoves

LEMMA MarkAllTripCalendarSyncsDeletedKeeps ==
    ASSUME CalendarInv, NEW r \in CalendarRequests, MarkAllTripCalendarSyncsDeleted(r)
    PROVE  CalendarInv'
  <1>1. /\ r \in Busy /\ syncs[r].phase = "answered" /\ syncs[r].kind = "remove" /\ SyncEnds(r)
        /\ UNCHANGED <<plan, events, astray>>
    BY DEF MarkAllTripCalendarSyncsDeleted, Busy
  <1>2. PICK s \in SyncStates : s = syncs[r]
    BY <1>1, BusyFacts
  <1>3. /\ s.call = "delete"
        /\ \A l \in SyncKeys : /\ s.results[l] = 0
                               /\ FitsAt(s, fetches[r].phase, calendarRows[l], events, astray, l)
    BY <1>1, <1>2, BusyFacts DEF RequestOK
  <1>4. /\ calendarRows' \in [SyncKeys -> SyncRows]
        /\ \A l \in SyncKeys : /\ calendarRows'[l].status # "active"
                               /\ calendarRows'[l].event = calendarRows[l].event
                               /\ ~Active(l) => calendarRows'[l] = calendarRows[l]
    <2>1. \A l \in SyncKeys :
             /\ calendarRows[l] \in SyncRows
             /\ [calendarRows[l] EXCEPT !.status = "deleted"] \in SyncRows
             /\ [calendarRows[l] EXCEPT !.status = "deleted"].status = "deleted"
             /\ [calendarRows[l] EXCEPT !.status = "deleted"].event = calendarRows[l].event
      BY CalendarFacts DEF CalendarInv, SyncRows
    <2> QED BY <2>1 DEF MarkAllTripCalendarSyncsDeleted, Active
  <1>5. ASSUME NEW l \in SyncKeys, Active(l), calendarRows[l].event \notin astray
        PROVE  Deleted(syncs[r], fetches[r].phase, l)
    <2>1. s.seen[l] = calendarRows[l].event
      BY <1>1, <1>2, <1>3, <1>5 DEF FitsAt, Listed, Recorded, Active
    <2>2. calendarRows[l].event # 0
      BY <1>5 DEF CalendarInv, RowsNameEvents
    <2>3. l \in Outdated(s)
      BY <1>1, <1>2, <2>1, <2>2 DEF Outdated
    <2> QED BY <1>1, <1>2, <1>3, <2>3 DEF Deleted
  <1>6. /\ OthersStay(r) /\ syncs'[r] = IdleSync /\ UNCHANGED <<connection, flows>>
        /\ r \notin Busy'
    BY <1>1, EndMoves, IdleFacts DEF CalendarInv, Busy
  <1>7. CalendarTypes'
    BY <1>1, <1>4, <1>6, TypesStay, CalendarDomains DEF CalendarInv
  <1>8. EventsFollow
    BY <1>1, CalendarFacts DEF EventsFollow, CalendarInv
  <1>9. syncs[r].crossed => ChangedElsewhere
    BY <1>1, <1>4, <1>5, DeletedFacts DEF ChangedElsewhere, RowIsAstray
  <1>10. RowsNameEvents' /\ RowsAreTrue'
    BY <1>1, <1>4 DEF CalendarInv, RowsNameEvents, RowsAreTrue, Active
  <1>11. LivingAreKnown'
    <2> SUFFICES ASSUME NEW d \in EventIds \ astray, events[d].alive
                 PROVE  \E q \in Busy' : /\ ~syncs'[q].crossed
                                         /\ syncs'[q].results[events[d].key] = d
      BY <1>1 DEF LivingAreKnown, EventIds
    <2>1. events[d].key \in SyncKeys /\ d # 0
      BY CalendarFacts DEF CalendarInv, Events
    <2>2. ~InRow(calendarRows[events[d].key], d)
      <3>1. SUFFICES ASSUME InRow(calendarRows[events[d].key], d) PROVE FALSE
        OBVIOUS
      <3>2. Deleted(syncs[r], fetches[r].phase, events[d].key)
        BY <1>5, <2>1, <3>1 DEF InRow, Active
      <3> QED BY <1>1, <2>1, <3>1, <3>2, DeletedFacts
    <2>3. PICK q \in Busy : ~syncs[q].crossed /\ syncs[q].results[events[d].key] = d
      BY <2>2 DEF CalendarInv, LivingAreKnown
    <2>4. q # r
      BY <1>2, <1>3, <2>1, <2>3
    <2>5. q \in Busy' /\ syncs'[q] = syncs[q]
      BY <1>6, <2>3, <2>4 DEF Busy, OthersStay
    <2> QED BY <2>3, <2>5
  <1> QED BY <1>1, <1>6, <1>7, <1>8, <1>9, <1>10, <1>11, StepKeeps

LEMMA UpsertTripCalendarSyncKeeps ==
    ASSUME CalendarInv, NEW r \in CalendarRequests, NEW k \in SyncKeys,
           UpsertTripCalendarSync(r, k)
    PROVE  CalendarInv'
  <1>1. /\ r \in Busy /\ syncs[r].phase = "answered" /\ syncs[r].call = "write"
        /\ syncs[r].left # {} /\ k = Min(syncs[r].left)
        /\ UNCHANGED <<connectionVars, plan, events, astray>>
    BY DEF UpsertTripCalendarSync, CalendarInv, CalendarTypes
  <1>2. PICK s \in SyncStates : s = syncs[r]
    BY <1>1, BusyFacts
  <1>3. k \in s.left
    BY <1>1, <1>2, SyncFields, SyncAssumption, MinIsMember
  <1>4. /\ s.kind = "sync" /\ s.left = {l \in SyncKeys : s.results[l] # 0}
        /\ \A l \in SyncKeys : FitsAt(s, fetches[r].phase, calendarRows[l], events, astray, l)
        /\ Listed(s)
    BY <1>1, <1>2, BusyFacts DEF RequestOK, Listed
  <1>5. PICK e \in EventIds :
           /\ e = s.results[k] /\ events[e].key = k
           /\ s.seen[k] = 0 \/ s.seen[k] = e
           /\ e \in astray \/ events[e].alive
           /\ s.seen[k] = 0 /\ s.crossed => e \in astray
    BY <1>3, <1>4 DEF FitsAt, EventIds
  <1>6. e # 0 /\ Len(events) \in Nat /\ e \in Nat
    BY CalendarFacts DEF CalendarInv, EventIds
  <1>7. /\ calendarRows' \in [SyncKeys -> SyncRows]
        /\ \A l \in SyncKeys \ {k} : calendarRows'[l] = calendarRows[l]
        /\ calendarRows'[k].status = "active" /\ calendarRows'[k].event = e
    <2>1. [status |-> "active", event |-> e, revision |-> s.revision] \in SyncRows
      BY <1>6, SyncFields DEF SyncRows
    <2> QED BY <1>2, <1>5, <2>1, CalendarFacts DEF UpsertTripCalendarSync, CalendarInv
  <1>8. /\ OthersStay(r) /\ Kept(syncs'[r], s)
        /\ syncs'[r].phase = "answered" /\ syncs'[r].call = "write"
        /\ syncs'[r].seen = s.seen /\ syncs'[r].results = [s.results EXCEPT ![k] = 0]
        /\ syncs'[r].left = s.left \ {k}
    <2>1. /\ syncs' = [syncs EXCEPT ![r].left = @ \ {k}, ![r].results[k] = 0]
          /\ fetches' = fetches /\ CalendarTypes /\ 0 \in Nat
      BY <1>1 DEF UpsertTripCalendarSync, connectionVars, CalendarInv
    <2>2. /\ OthersStay(r) /\ Kept(syncs'[r], syncs[r])
          /\ syncs'[r].phase = syncs[r].phase /\ syncs'[r].call = syncs[r].call
          /\ syncs'[r].seen = syncs[r].seen
          /\ syncs'[r].results = [syncs[r].results EXCEPT ![k] = 0]
          /\ syncs'[r].left = syncs[r].left \ {k}
      BY <2>1, TakesResult
    <2> QED BY <1>1, <1>2, <2>2
  <1>9. PICK t \in SyncStates, token \in TokenPhases : t = syncs'[r] /\ token = fetches'[r].phase
    BY <1>8 DEF OthersStay, FetchStates, TokenPhases
  <1>10. /\ t.results[k] = 0 /\ \A l \in SyncKeys \ {k} : t.results[l] = s.results[l]
         /\ t.crossed = s.crossed /\ t.seen = s.seen /\ t.kind = s.kind
         /\ Outdated(t) = Outdated(s)
    BY <1>8, <1>9, SyncFields, OutdatedStays DEF Kept
  <1>11. r \in Busy' /\ CalendarTypes'
    <2>1. r \in Busy'
      BY <1>1, <1>2, <1>8 DEF Busy, Kept
    <2> QED BY <1>1, <1>7, <1>8, <2>1, TypesStay, CalendarDomains DEF CalendarInv, connectionVars
  <1>12. RequestOK(t, token)
    BY <1>4, <1>8, <1>9, <1>10 DEF RequestOK
  <1>13. Fits(t, token, calendarRows', events, astray)
    <2> SUFFICES ASSUME NEW l \in SyncKeys
                 PROVE  FitsAt(t, token, calendarRows'[l], events, astray, l)
      BY DEF Fits
    <2>1. FitsAt(s, fetches[r].phase, calendarRows[l], events, astray, l)
      BY <1>4
    <2>2. ~Deleted(t, token, l) /\ Listed(t)
      BY <1>8, <1>9 DEF Deleted, Listed
    <2>3. CASE l = k
      <3>1. Recorded(t, k)
        BY <1>8, <1>9 DEF Recorded
      <3> QED BY <1>5, <1>6, <1>7, <1>10, <2>1, <2>2, <2>3, <3>1 DEF FitsAt, InRow
    <2>4. CASE l # k
      <3>1. /\ calendarRows'[l] = calendarRows[l] /\ t.results[l] = s.results[l]
            /\ Recorded(t, l) = Recorded(s, l)
        BY <1>1, <1>2, <1>7, <1>8, <1>9, <1>10, <2>4 DEF Recorded
      <3> QED BY <1>4, <1>10, <2>1, <2>2, <3>1 DEF FitsAt
    <2> QED BY <2>3, <2>4
  <1>14. EventsFollow
    BY <1>1, CalendarFacts DEF EventsFollow, CalendarInv
  <1>15. Active(k) => \/ calendarRows[k].event \in astray
                      \/ calendarRows[k].event = s.seen[k] /\ s.seen[k] = e
    <2>1. Active(k) => calendarRows[k].event # 0
      BY DEF CalendarInv, RowsNameEvents
    <2>2. ~Recorded(s, k)
      BY <1>3 DEF Recorded
    <2> QED BY <1>4, <1>5, <2>1, <2>2 DEF FitsAt, Active
  <1>16. s.crossed => ChangedElsewhere
    <2> SUFFICES ASSUME s.crossed PROVE RowStays(k) \/ RowIsAstray(k)
      BY <1>1, <1>7 DEF ChangedElsewhere, RowStays
    <2>1. CASE e \in astray
      BY <1>1, <1>7, <1>15, <2>1 DEF RowIsAstray
    <2>2. CASE e \notin astray
      <3>1. s.seen[k] = e
        BY <1>5, <2>2
      <3>2. InRow(calendarRows[k], e)
        BY <1>4, <1>6, <2>2, <3>1 DEF FitsAt
      <3> QED BY <1>7, <3>2 DEF InRow, RowStays
    <2> QED BY <2>1, <2>2
  <1>17. \A q \in Busy \ {r} : /\ q \in Busy' /\ syncs'[q] = syncs[q]
                               /\ fetches'[q] = fetches[q]
    BY <1>8 DEF Busy, OthersStay
  <1>18. RowsNameEvents'
    BY <1>1, <1>5, <1>6, <1>7 DEF CalendarInv, RowsNameEvents, Active, EventIds
  <1>19. LivingAreKnown'
    <2> SUFFICES ASSUME NEW d \in EventIds \ astray, events[d].alive,
                        ~InRow(calendarRows'[events[d].key], d)
                 PROVE  \E q \in Busy' : /\ ~syncs'[q].crossed
                                         /\ syncs'[q].results[events[d].key] = d
      BY <1>1 DEF LivingAreKnown, EventIds
    <2>1. events[d].key \in SyncKeys
      BY CalendarFacts DEF CalendarInv, Events
    <2>2. ~InRow(calendarRows[events[d].key], d)
      <3>1. CASE events[d].key = k
        BY <1>7, <1>15, <3>1 DEF InRow, Active
      <3>2. CASE events[d].key # k
        BY <1>7, <2>1, <3>2
      <3> QED BY <3>1, <3>2
    <2>3. PICK q \in Busy : ~syncs[q].crossed /\ syncs[q].results[events[d].key] = d
      BY <2>2 DEF CalendarInv, LivingAreKnown
    <2>4. CASE q = r
      <3>1. events[d].key # k
        BY <1>2, <1>5, <1>7, <2>3, <2>4 DEF InRow
      <3> QED BY <1>2, <1>9, <1>10, <1>11, <2>1, <2>3, <2>4, <3>1
    <2>5. CASE q # r
      BY <1>17, <2>3, <2>5
    <2> QED BY <2>4, <2>5
  <1>20. RowsAreTrue'
    <2> SUFFICES ASSUME NEW l \in SyncKeys, calendarRows'[l].status = "active",
                        calendarRows'[l].event \notin astray,
                        ~events[calendarRows'[l].event].alive
                 PROVE  \E q \in Busy' : /\ Unmarked(syncs'[q], fetches'[q].phase, l)
                                         /\ ~syncs'[q].crossed
                                         /\ syncs'[q].seen[l] = calendarRows'[l].event
      BY <1>1 DEF RowsAreTrue, Active
    <2>1. l # k /\ calendarRows'[l] = calendarRows[l]
      BY <1>5, <1>7
    <2>2. PICK q \in Busy : /\ Unmarked(syncs[q], fetches[q].phase, l) /\ ~syncs[q].crossed
                            /\ syncs[q].seen[l] = calendarRows[l].event
      BY <2>1 DEF CalendarInv, RowsAreTrue, Active
    <2>3. q # r
      BY <1>1, <2>2 DEF Unmarked, Deleted
    <2> QED BY <1>17, <2>1, <2>2, <2>3
  <1> QED BY <1>1, <1>2, <1>8, <1>9, <1>10, <1>11, <1>12, <1>13, <1>14, <1>16, <1>18, <1>19,
             <1>20, StepKeeps

LEMMA CalendarStepKeeps == CalendarInv /\ [CalendarNext]_calendarVars => CalendarInv'
  <1> SUFFICES ASSUME CalendarInv, [CalendarNext]_calendarVars PROVE CalendarInv'
    OBVIOUS
  <1>1. CASE ConnectionNext /\ UNCHANGED tripVars
    BY <1>1, ConnectionKeeps
  <1>2. CASE EditPlan
    BY <1>2, EditPlanKeeps
  <1>3. ASSUME NEW r \in CalendarRequests,
               \/ BeginSync(r, "sync") \/ BeginSync(r, "remove") \/ ListTripCalendarSyncs(r)
               \/ CallRefused(r) \/ Answer(r) \/ SyncReturns(r) \/ SyncFails(r)
               \/ MarkAllTripCalendarSyncsDeleted(r) \/ BeginFreeBusy(r) \/ GetFreeBusy(r)
        PROVE  CalendarInv'
    BY <1>3, BeginSyncKeeps, ListTripCalendarSyncsKeeps, CallRefusedKeeps, AnswerKeeps,
       SyncReturnsKeeps, SyncFailsKeeps, MarkAllTripCalendarSyncsDeletedKeeps,
       BeginFreeBusyKeeps, GetFreeBusyKeeps
  <1>4. ASSUME NEW r \in CalendarRequests, NEW k \in SyncKeys,
               \/ DeleteEvent(r, k) \/ UpdateEvent(r, k) \/ CreateEvent(r, k)
               \/ MarkTripCalendarSyncDeleted(r, k) \/ UpsertTripCalendarSync(r, k)
        PROVE  CalendarInv'
    BY <1>4, DeleteEventKeeps, UpdateEventKeeps, CreateEventKeeps,
       MarkTripCalendarSyncDeletedKeeps, UpsertTripCalendarSyncKeeps
  <1>5. CASE UNCHANGED calendarVars
    <2>1. /\ UNCHANGED <<connection, flows, fetches, plan, calendarRows, events, syncs, astray>>
          /\ Busy' = Busy
      BY <1>5 DEF calendarVars, connectionVars, Busy
    <2>2. CalendarTypes'
      BY <2>1 DEF CalendarInv, CalendarTypes
    <2> QED BY <2>1, <2>2, BystandersKeep
  <1> QED BY <1>1, <1>2, <1>3, <1>4, <1>5 DEF CalendarNext

LEMMA KnownByInv == CalendarInv => EventsAreKnown
  <1> SUFFICES ASSUME CalendarInv PROVE EventsAreKnown
    OBVIOUS
  <1> DEFINE handled == astray \cup UNION {InHand(r) : r \in Busy}
  <1>1. \A r \in Busy : InHand(r) \subseteq handled
    OBVIOUS
  <1>2. astray \subseteq handled
    OBVIOUS
  <1> HIDE DEF handled
  <1>3. ASSUME NEW e \in EventIds \ handled, events[e].alive
        PROVE  InRow(calendarRows[events[e].key], e)
    <2>1. events[e].key \in SyncKeys
      BY CalendarFacts DEF CalendarInv, Events
    <2>2. \A r \in Busy : syncs[r].results[events[e].key] # e
      BY <1>1, <2>1 DEF InHand
    <2> QED BY <1>2, <1>3, <2>2 DEF CalendarInv, LivingAreKnown
  <1>4. ASSUME NEW k \in SyncKeys, Active(k), calendarRows[k].event \notin handled
        PROVE  events[calendarRows[k].event].alive
    BY <1>1, <1>2, <1>4 DEF CalendarInv, RowsAreTrue, Unmarked, Deleted, InHand
  <1> QED BY <1>3, <1>4 DEF EventsAreKnown, InRow, handled

(* Every event that overlapping, failing or redirected requests have not   *)
(* touched is the one its item's row names, or in the hands of the request *)
(* that is at it; and every active row names an event that exists.         *)
THEOREM EventsStayKnown == CalendarSpec => []EventsAreKnown
  <1>1. CalendarInit => CalendarInv
    BY InitHolds
  <1>2. CalendarInv /\ [CalendarNext]_calendarVars => CalendarInv'
    BY CalendarStepKeeps
  <1>3. CalendarInv => EventsAreKnown
    BY KnownByInv
  <1> QED BY <1>1, <1>2, <1>3, PTL DEF CalendarSpec

-----------------------------------------------------------------------------
(* In sync.                                                                *)

(* Event e has the content that item k has in the plan of this revision.   *)
Written(evs, e, revision) == evs[e].alive /\ evs[e].revision = revision
Synced ==
    \A k \in SyncKeys : /\ Active(k) <=> k \in plan.timed
                        /\ Active(k) => Written(events, calendarRows[k].event, plan.revision)

(* How far a request that runs alone has brought item k to its plan.       *)
WayAt(s, row, evs, k) ==
    /\ s.call = "delete" /\ row.status = "active" =>
          /\ s.seen[k] # 0
          /\ s.phase = "answered" => k \in s.timed \cup s.left
    /\ s.call = "write" =>
          /\ row.status = "active" => k \in s.timed
          /\ s.results[k] # 0 => k \in s.timed /\ Written(evs, s.results[k], s.revision)
          /\ k \in s.timed =>
                \/ s.phase = "calling" /\ k \in s.left
                \/ s.results[k] # 0
                \/ /\ s.phase = "answered" /\ row.status = "active"
                   /\ Written(evs, row.event, s.revision)
OnItsWay(s, rows, evs) == \A k \in SyncKeys : WayAt(s, rows[k], evs, k)

Current(k) == Active(k) /\ calendarRows[k].revision = plan.revision

RevisionsPass ==
    /\ \A k \in SyncKeys : calendarRows[k].revision =< plan.revision
    /\ \A r \in Busy : /\ syncs[r].revision =< plan.revision
                       /\ syncs[r].revision = plan.revision => syncs[r].timed = plan.timed
SyncCompletes ==
    plan.revision \notin partial =>
       /\ (\E k \in SyncKeys : Current(k)) => Synced \/ Busy # {}
       /\ \A r \in Busy :
             IF syncs[r].revision = plan.revision
             THEN /\ ~syncs[r].crossed
                  /\ syncs[r].kind = "sync" => OnItsWay(syncs[r], calendarRows, events)
             ELSE \A k \in SyncKeys : ~Current(k)
SyncInv == RevisionsPass /\ SyncCompletes

(* Where the rows and the busy requests stay, so does what is known.       *)
LEMMA SyncBystanders ==
    ASSUME SyncInv, UNCHANGED <<plan, calendarRows, events, partial>>, Busy' = Busy,
           \A r \in Busy : syncs'[r] = syncs[r]
    PROVE  SyncInv'
  <1>1. RevisionsPass'
    BY DEF SyncInv, RevisionsPass
  <1>2. /\ Synced' = Synced /\ \A k \in SyncKeys : Current(k)' = Current(k)
    BY DEF Synced, Current, Active
  <1>3. SyncCompletes'
    BY <1>2 DEF SyncInv, SyncCompletes
  <1> QED BY <1>1, <1>3 DEF SyncInv

(* An edit makes every row a row of an earlier revision.                   *)
LEMMA EditPlanSyncs ==
    ASSUME CalendarInv, SyncInv, EditPlan
    PROVE  SyncInv'
  <1>1. /\ Busy' = Busy /\ UNCHANGED <<calendarRows, events, syncs, partial>>
        /\ plan.revision \in Nat /\ plan'.revision = plan.revision + 1
    BY CalendarFacts DEF Busy, EditPlan, CalendarInv
  <1>2. /\ \A k \in SyncKeys : calendarRows[k].revision \in Nat
        /\ \A r \in Busy : syncs[r].revision \in Nat
    BY CalendarFacts, BusyFacts, SyncFields DEF CalendarInv, SyncRows
  <1>3. /\ \A k \in SyncKeys : calendarRows[k].revision < plan'.revision
        /\ \A r \in Busy : syncs[r].revision < plan'.revision
    BY <1>1, <1>2 DEF SyncInv, RevisionsPass
  <1>4. RevisionsPass'
    BY <1>1, <1>2, <1>3 DEF RevisionsPass
  <1>5. /\ \A k \in SyncKeys : ~Current(k)'
        /\ \A r \in Busy : syncs[r].revision # plan'.revision
    BY <1>1, <1>2, <1>3 DEF Current
  <1>6. SyncCompletes'
    BY <1>1, <1>5 DEF SyncCompletes
  <1> QED BY <1>4, <1>6 DEF SyncInv

LEMMA BeginSyncSyncs ==
    ASSUME CalendarInv, SyncInv, NEW r \in CalendarRequests, NEW kind \in {"sync", "remove"},
           BeginSync(r, kind)
    PROVE  SyncInv'
  <1>1. /\ r \notin Busy /\ UNCHANGED <<plan, calendarRows, events>>
        /\ syncs'[r].kind = kind /\ syncs'[r].phase = "read" /\ syncs'[r].call = "none"
        /\ syncs'[r].revision = plan.revision /\ syncs'[r].timed = plan.timed
        /\ syncs'[r].crossed = (Busy # {})
    BY DEF BeginSync, Busy, IdleSync
  <1>2. ASSUME NEW q \in Busy
        PROVE  /\ syncs'[q].kind = syncs[q].kind /\ syncs'[q].revision = syncs[q].revision
               /\ syncs'[q].timed = syncs[q].timed
    <2>1. q # r /\ q \in CalendarRequests /\ syncs[q] \in SyncStates
      BY <1>1, BusyFacts
    <2> QED BY <2>1 DEF BeginSync, SyncStates
  <1>3. Busy' = Busy \cup {r}
    BY <1>1, <1>2 DEF Busy, BeginSync
  <1>4. RevisionsPass'
    <2>1. plan.revision \in Nat
      BY CalendarFacts DEF CalendarInv
    <2> QED BY <1>1, <1>2, <1>3, <2>1 DEF SyncInv, RevisionsPass
  <1>5. SyncCompletes'
    <2>1. CASE Busy = {}
      <3>1. partial' = partial /\ Busy' = {r} /\ ~syncs'[r].crossed
        BY <1>1, <1>3, <2>1 DEF BeginSync
      <3>2. OnItsWay(syncs'[r], calendarRows', events')
        BY <1>1 DEF OnItsWay, WayAt
      <3> QED BY <1>1, <3>1, <3>2 DEF SyncCompletes
    <2>2. CASE Busy # {}
      BY <1>1, <2>2 DEF BeginSync, SyncCompletes
    <2> QED BY <2>1, <2>2
  <1> QED BY <1>4, <1>5 DEF SyncInv

(* A step of one busy request: the rows get its revision at most, and what *)
(* it has done alone for the plan's revision brings it on its way.         *)
LEMMA SyncStep ==
    ASSUME CalendarInv, SyncInv, NEW r \in Busy, OthersStay(r), plan' = plan,
           partial \subseteq partial',
           \A k \in SyncKeys : \/ calendarRows'[k].revision = calendarRows[k].revision
                               \/ calendarRows'[k].revision = syncs[r].revision,
           syncs[r].revision # plan.revision =>
              \A k \in SyncKeys : Current(k)' => Current(k),
           r \in Busy' => Kept(syncs'[r], syncs[r]),
           /\ plan.revision \notin partial' /\ syncs[r].revision = plan.revision
           /\ syncs[r].kind = "sync" /\ syncs[r].timed = plan.timed /\ ~syncs[r].crossed
           /\ OnItsWay(syncs[r], calendarRows, events)
           => IF r \in Busy' THEN OnItsWay(syncs'[r], calendarRows', events') ELSE Synced',
           syncs[r].kind = "remove" /\ plan.revision \notin partial'
              /\ r \notin Busy' /\ syncs[r].revision = plan.revision
              => \A k \in SyncKeys : ~Current(k)'
    PROVE  SyncInv'
  <1>1. /\ r \in CalendarRequests /\ syncs[r].kind \in {"sync", "remove"}
        /\ \A q \in Busy' : q # r => q \in Busy /\ syncs'[q] = syncs[q]
        /\ \A q \in Busy : q # r => q \in Busy'
    BY DEF Busy, OthersStay
  <1>2. RevisionsPass'
    <2>1. ASSUME NEW q \in Busy'
          PROVE  /\ syncs'[q].revision =< plan.revision
                 /\ syncs'[q].revision = plan.revision => syncs'[q].timed = plan.timed
      <3>1. CASE q = r
        BY <2>1, <3>1 DEF SyncInv, RevisionsPass, Kept
      <3>2. CASE q # r
        BY <1>1, <2>1, <3>2 DEF SyncInv, RevisionsPass
      <3> QED BY <3>1, <3>2
    <2> QED BY <2>1 DEF SyncInv, RevisionsPass
  <1>3. ASSUME plan.revision \notin partial'
        PROVE  /\ (\E k \in SyncKeys : Current(k)') => Synced' \/ Busy' # {}
               /\ \A q \in Busy' :
                     IF syncs'[q].revision = plan.revision
                     THEN /\ ~syncs'[q].crossed
                          /\ syncs'[q].kind = "sync" =>
                                OnItsWay(syncs'[q], calendarRows', events')
                     ELSE \A k \in SyncKeys : ~Current(k)'
    <2>1. \A q \in Busy :
             IF syncs[q].revision = plan.revision
             THEN /\ ~syncs[q].crossed
                  /\ syncs[q].kind = "sync" => OnItsWay(syncs[q], calendarRows, events)
             ELSE \A k \in SyncKeys : ~Current(k)
      BY <1>3 DEF SyncInv, SyncCompletes
    <2>2. \A p, q \in Busy : p # q => syncs[q].crossed
      BY DEF CalendarInv, OverlapsAreKnown
    <2>3. CASE syncs[r].revision = plan.revision
      <3>1. Busy = {r} /\ ~syncs[r].crossed /\ syncs[r].timed = plan.timed
        BY <2>1, <2>2, <2>3 DEF SyncInv, RevisionsPass
      <3>2. Busy' \subseteq {r}
        BY <1>1, <3>1
      <3>3. CASE r \in Busy'
        <4>1. Kept(syncs'[r], syncs[r])
          BY <3>3
        <4>2. syncs[r].kind = "sync" => OnItsWay(syncs'[r], calendarRows', events')
          BY <1>3, <2>1, <2>3, <3>1, <3>3
        <4> QED BY <2>3, <3>1, <3>2, <3>3, <4>1, <4>2 DEF Kept
      <3>4. CASE r \notin Busy'
        BY <1>1, <1>3, <2>1, <2>3, <3>1, <3>2, <3>4
      <3> QED BY <3>3, <3>4
    <2>4. CASE syncs[r].revision # plan.revision
      <3>1. \A k \in SyncKeys : ~Current(k)'
        BY <2>1, <2>4
      <3>2. \A q \in Busy' : syncs'[q].revision # plan.revision
        <4>1. ASSUME NEW q \in Busy' PROVE syncs'[q].revision # plan.revision
          <5>1. CASE q = r
            BY <2>4, <4>1, <5>1 DEF Kept
          <5>2. CASE q # r
            BY <1>1, <2>1, <2>2, <4>1, <5>2
          <5> QED BY <5>1, <5>2
        <4> QED BY <4>1
      <3> QED BY <3>1, <3>2
    <2> QED BY <2>3, <2>4
  <1>4. SyncCompletes'
    BY <1>3 DEF SyncCompletes
  <1> QED BY <1>2, <1>4 DEF SyncInv

(* A request that ends by failing leaves its revision incomplete.          *)
LEMMA FailureSyncs ==
    ASSUME CalendarInv, SyncInv, NEW r \in Busy, SyncEnds(r), Incomplete(r),
           UNCHANGED <<plan, calendarRows, events>>
    PROVE  SyncInv'
  <1>1. /\ OthersStay(r) /\ r \notin Busy' /\ partial \subseteq partial'
        /\ syncs[r].revision \in partial'
    BY EndMoves, BusyFacts, IdleFacts DEF CalendarInv, Incomplete, Busy
  <1>2. \A k \in SyncKeys : Current(k)' = Current(k)
    BY DEF Current, Active
  <1> QED BY <1>1, <1>2, SyncStep

LEMMA SyncReturnsSyncs ==
    ASSUME CalendarInv, SyncInv, NEW r \in CalendarRequests, SyncReturns(r)
    PROVE  SyncInv'
  <1>1. /\ r \in Busy /\ SyncEnds(r) /\ UNCHANGED <<plan, calendarRows, events, partial>>
        /\ syncs[r].phase = "answered" /\ syncs[r].call = "write" /\ syncs[r].left = {}
    BY DEF SyncReturns, CalendarInv, CalendarTypes
  <1>2. syncs[r].kind = "sync" /\ \A k \in SyncKeys : syncs[r].results[k] = 0
    BY <1>1, BusyFacts DEF RequestOK
  <1>3. OthersStay(r) /\ r \notin Busy'
    BY <1>1, EndMoves, IdleFacts DEF CalendarInv, Busy
  <1>4. \A k \in SyncKeys : Current(k)' = Current(k)
    BY <1>1 DEF Current, Active
  <1>5. ASSUME syncs[r].revision = plan.revision, syncs[r].timed = plan.timed,
               OnItsWay(syncs[r], calendarRows, events)
        PROVE  Synced'
    BY <1>1, <1>2, <1>5 DEF OnItsWay, WayAt, Synced, Active
  <1> QED BY <1>1, <1>2, <1>3, <1>4, <1>5, SyncStep

LEMMA AnswerSyncs ==
    ASSUME CalendarInv, SyncInv, NEW r \in CalendarRequests, Answer(r)
    PROVE  SyncInv'
  <1>1. /\ r \in Busy /\ syncs[r].phase = "calling" /\ syncs[r].call \in {"delete", "write"}
        /\ syncs[r].left = {} /\ UNCHANGED <<plan, calendarRows, events, partial>>
    BY DEF Answer, CalendarInv, CalendarTypes
  <1> DEFINE S == IF syncs[r].call = "delete" THEN Outdated(syncs[r])
                  ELSE {k \in SyncKeys : syncs[r].results[k] # 0}
  <1>2. S \in SUBSET SyncKeys /\ (syncs[r].call = "delete" => S = Outdated(syncs[r]))
    BY DEF Outdated
  <1>3. /\ syncs' = [syncs EXCEPT ![r].phase = "answered", ![r].left = S]
        /\ fetches' = [fetches EXCEPT ![r] = NoFetch]
    BY DEF Answer
  <1> HIDE DEF S
  <1>4. /\ OthersStay(r) /\ Kept(syncs'[r], syncs[r])
        /\ syncs'[r].phase = "answered" /\ syncs'[r].call = syncs[r].call
        /\ syncs'[r].seen = syncs[r].seen /\ syncs'[r].results = syncs[r].results
        /\ syncs'[r].left = S
    BY <1>2, <1>3, AnswerMoves DEF CalendarInv
  <1>5. r \in Busy'
    BY <1>1, <1>4 DEF Busy, Kept
  <1>6. \A k \in SyncKeys : Current(k)' = Current(k)
    BY <1>1 DEF Current, Active
  <1>7. ASSUME OnItsWay(syncs[r], calendarRows, events)
        PROVE  OnItsWay(syncs'[r], calendarRows', events')
    <2> SUFFICES ASSUME NEW k \in SyncKeys
                 PROVE  WayAt(syncs'[r], calendarRows[k], events, k)
      BY <1>1 DEF OnItsWay
    <2>1. WayAt(syncs[r], calendarRows[k], events, k)
      BY <1>7 DEF OnItsWay
    <2>2. CASE syncs[r].call = "delete"
      <3>1. syncs[r].seen[k] # 0 => k \in syncs[r].timed \cup S
        BY <1>2, <2>2 DEF Outdated
      <3> QED BY <1>4, <2>1, <2>2, <3>1 DEF WayAt, Kept
    <2>3. CASE syncs[r].call = "write"
      BY <1>1, <1>4, <2>1, <2>3 DEF WayAt, Kept
    <2> QED BY <1>1, <2>2, <2>3
  <1> QED BY <1>1, <1>4, <1>5, <1>6, <1>7, SyncStep

LEMMA ListTripCalendarSyncsSyncs ==
    ASSUME CalendarInv, SyncInv, NEW r \in CalendarRequests, ListTripCalendarSyncs(r)
    PROVE  SyncInv'
  <1>1. /\ r \in Busy /\ OthersStay(r) /\ syncs[r].kind \in {"sync", "remove"}
        /\ UNCHANGED <<plan, calendarRows, events, partial>>
        /\ \A k \in SyncKeys : syncs[r].results[k] = 0
    BY ListMoves
  <1>2. \A k \in SyncKeys : Current(k)' = Current(k)
    BY <1>1 DEF Current, Active
  <1>3. CASE /\ SyncEnds(r) /\ syncs[r].kind = "sync" /\ syncs[r].timed = {}
             /\ \A k \in SyncKeys : ~Active(k)
    <2>1. r \notin Busy'
      BY <1>1, <1>3, EndMoves, BusyFacts, IdleFacts DEF CalendarInv, Busy
    <2>2. ASSUME syncs[r].timed = plan.timed PROVE Synced'
      BY <1>1, <1>3, <2>2 DEF Synced, Active
    <2> QED BY <1>1, <1>2, <1>3, <2>1, <2>2, SyncStep
  <1>4. ASSUME Kept(syncs'[r], syncs[r]), syncs'[r].results = syncs[r].results,
               \A k \in SyncKeys :
                  syncs'[r].seen[k] = IF Active(k) THEN calendarRows[k].event ELSE 0,
               \/ syncs'[r].phase = "calling" /\ syncs'[r].call = "delete"
               \/ /\ syncs'[r].phase = "calling" /\ syncs'[r].call = "write"
                  /\ syncs'[r].left = syncs[r].timed /\ Outdated(syncs'[r]) = {}
               \/ syncs[r].kind = "remove"
        PROVE  SyncInv'
    <2>1. r \in Busy'
      BY <1>1, <1>4 DEF Busy, Kept
    <2>2. ASSUME syncs[r].kind = "sync" PROVE OnItsWay(syncs'[r], calendarRows', events')
      <3> SUFFICES ASSUME NEW k \in SyncKeys
                   PROVE  WayAt(syncs'[r], calendarRows[k], events, k)
        BY <1>1 DEF OnItsWay
      <3>1. calendarRows[k].status = "active" => syncs'[r].seen[k] # 0
        BY <1>4 DEF CalendarInv, RowsNameEvents, Active
      <3>2. Outdated(syncs'[r]) = {} /\ syncs'[r].seen[k] # 0 => k \in syncs'[r].timed
        BY DEF Outdated
      <3>3. CASE syncs'[r].phase = "calling" /\ syncs'[r].call = "delete"
        BY <3>1, <3>3 DEF WayAt
      <3>4. CASE /\ syncs'[r].phase = "calling" /\ syncs'[r].call = "write"
                 /\ syncs'[r].left = syncs[r].timed /\ Outdated(syncs'[r]) = {}
        BY <1>1, <1>4, <3>1, <3>2, <3>4 DEF WayAt, Kept
      <3> QED BY <1>4, <2>2, <3>3, <3>4
    <2> QED BY <1>1, <1>2, <1>4, <2>1, <2>2, SyncStep
  <1> QED BY <1>3, <1>4, ListMoves

LEMMA DeleteEventSyncs ==
    ASSUME CalendarInv, SyncInv, NEW r \in CalendarRequests, NEW k \in SyncKeys,
           DeleteEvent(r, k)
    PROVE  SyncInv'
  <1>1. /\ r \in Busy /\ syncs[r].phase = "calling" /\ syncs[r].call = "delete"
        /\ UNCHANGED <<plan, calendarRows, partial>>
    BY TurnFacts DEF DeleteEvent
  <1>2. /\ OthersStay(r) /\ Kept(syncs'[r], syncs[r])
        /\ syncs'[r].phase = "calling" /\ syncs'[r].call = "delete"
        /\ syncs'[r].seen = syncs[r].seen
    BY <1>1, TakesItem DEF DeleteEvent, CalendarInv
  <1>3. r \in Busy' /\ \A l \in SyncKeys : Current(l)' = Current(l)
    BY <1>1, <1>2 DEF Busy, Kept, Current, Active
  <1>4. ASSUME OnItsWay(syncs[r], calendarRows, events)
        PROVE  OnItsWay(syncs'[r], calendarRows', events')
    BY <1>1, <1>2, <1>4 DEF OnItsWay, WayAt
  <1> QED BY <1>1, <1>2, <1>3, <1>4, SyncStep

(* A written item has the content of the request's revision; one that is   *)
(* refused leaves the revision incomplete.                                 *)
LEMMA WrittenSyncs ==
    ASSUME CalendarInv, SyncInv, NEW r \in Busy, NEW k \in SyncKeys, NEW e \in Nat,
           syncs[r].phase = "calling", syncs[r].call = "write", k \in syncs[r].left, e # 0,
           UNCHANGED <<plan, calendarRows, fetches>>,
           \/ Incomplete(r) /\ syncs' = [syncs EXCEPT ![r].left = @ \ {k}]
           \/ /\ partial' = partial
              /\ syncs' = [syncs EXCEPT ![r].left = @ \ {k}, ![r].results[k] = e]
              /\ Written(events', e, syncs[r].revision)
              /\ \A d \in EventIds :
                    /\ events'[d].alive = events[d].alive
                    /\ events'[d].revision \in {events[d].revision, syncs[r].revision}
    PROVE  SyncInv'
  <1>1. /\ r \in CalendarRequests /\ syncs[r] \in SyncStates /\ syncs[r].kind = "sync"
        /\ syncs[r].left \subseteq syncs[r].timed
        /\ \A l \in SyncKeys : syncs[r].results[l] \in 0..Len(events)
        /\ Len(events) \in Nat /\ syncs[r].results \in [SyncKeys -> Nat]
    BY BusyFacts, CalendarFacts, SyncFields DEF RequestOK, FitsAt, CalendarInv
  <1>2. \A l \in SyncKeys : Current(l)' = Current(l)
    BY DEF Current, Active
  <1>3. CASE Incomplete(r) /\ syncs' = [syncs EXCEPT ![r].left = @ \ {k}]
    <2>1. OthersStay(r) /\ Kept(syncs'[r], syncs[r])
      BY <1>1, <1>3, TakesItem DEF CalendarInv
    <2>2. r \in Busy'
      BY <1>1, <2>1 DEF Busy, Kept
    <2>3. partial \subseteq partial' /\ syncs[r].revision \in partial'
      BY <1>3 DEF Incomplete
    <2> QED BY <1>1, <1>2, <2>1, <2>2, <2>3, SyncStep
  <1>4. CASE /\ partial' = partial
             /\ syncs' = [syncs EXCEPT ![r].left = @ \ {k}, ![r].results[k] = e]
             /\ Written(events', e, syncs[r].revision)
             /\ \A d \in EventIds :
                    /\ events'[d].alive = events[d].alive
                    /\ events'[d].revision \in {events[d].revision, syncs[r].revision}
    <2>1. CalendarTypes /\ fetches' = fetches
          /\ syncs' = [syncs EXCEPT ![r].left = @ \ {k}, ![r].results[k] = e]
      BY <1>4 DEF CalendarInv
    <2>2. /\ OthersStay(r) /\ Kept(syncs'[r], syncs[r])
          /\ syncs'[r].phase = syncs[r].phase /\ syncs'[r].call = syncs[r].call
          /\ syncs'[r].seen = syncs[r].seen
          /\ syncs'[r].results = [syncs[r].results EXCEPT ![k] = e]
          /\ syncs'[r].left = syncs[r].left \ {k}
      BY <1>1, <2>1, TakesResult
    <2>3. r \in Busy'
      BY <1>1, <2>2 DEF Busy, Kept
    <2>4. ASSUME OnItsWay(syncs[r], calendarRows, events)
          PROVE  OnItsWay(syncs'[r], calendarRows', events')
      <3> SUFFICES ASSUME NEW l \in SyncKeys
                   PROVE  WayAt(syncs'[r], calendarRows[l], events', l)
        BY DEF OnItsWay
      <3>1. WayAt(syncs[r], calendarRows[l], events, l)
        BY <2>4 DEF OnItsWay
      <3>2. /\ syncs'[r].revision = syncs[r].revision /\ syncs'[r].timed = syncs[r].timed
            /\ syncs'[r].results[k] = e
            /\ l # k => syncs'[r].results[l] = syncs[r].results[l]
        BY <1>1, <2>2 DEF Kept
      <3>3. CASE l = k
        BY <1>1, <1>4, <2>2, <3>1, <3>2, <3>3 DEF WayAt
      <3>4. CASE l # k
        <4>1. /\ syncs[r].results[l] # 0 => syncs[r].results[l] \in EventIds
              /\ l \in syncs'[r].left <=> l \in syncs[r].left
          BY <1>1, <2>2, <3>4 DEF EventIds
        <4>2. syncs[r].results[l] # 0 =>
                 Written(events', syncs[r].results[l], syncs[r].revision)
          BY <1>4, <3>1, <4>1 DEF WayAt, Written
        <4> QED BY <2>2, <3>1, <3>2, <3>4, <4>1, <4>2 DEF WayAt
      <3> QED BY <3>3, <3>4
    <2> QED BY <1>1, <1>2, <1>4, <2>2, <2>3, <2>4, SyncStep
  <1> QED BY <1>3, <1>4

LEMMA UpdateEventSyncs ==
    ASSUME CalendarInv, SyncInv, NEW r \in CalendarRequests, NEW k \in SyncKeys,
           UpdateEvent(r, k)
    PROVE  SyncInv'
  <1>1. /\ r \in Busy /\ syncs[r].phase = "calling" /\ syncs[r].call = "write"
        /\ k \in syncs[r].left /\ UNCHANGED <<plan, calendarRows, fetches>>
    BY TurnFacts DEF UpdateEvent
  <1>2. PICK e \in EventIds : e = syncs[r].seen[k]
    BY <1>1, BusyFacts, SMTT(20) DEF UpdateEvent, FitsAt, EventIds
  <1>3. e \in Nat /\ e # 0 /\ events \in Seq(Events) /\ \A d \in EventIds : events[d] \in Events
    BY CalendarFacts DEF CalendarInv, EventIds
  <1>4. \/ Incomplete(r) /\ syncs' = [syncs EXCEPT ![r].left = @ \ {k}]
        \/ /\ partial' = partial /\ events[e].alive
           /\ syncs' = [syncs EXCEPT ![r].left = @ \ {k}, ![r].results[k] = e]
           /\ events' = [events EXCEPT ![e].revision = syncs[r].revision]
    BY <1>2 DEF UpdateEvent, ItemFails, Reachable
  <1>5. CASE /\ partial' = partial /\ events[e].alive
             /\ syncs' = [syncs EXCEPT ![r].left = @ \ {k}, ![r].results[k] = e]
             /\ events' = [events EXCEPT ![e].revision = syncs[r].revision]
    <2>1. \A d \in EventIds :
             /\ events'[d].alive = events[d].alive
             /\ events'[d].revision \in {events[d].revision, syncs[r].revision}
             /\ d = e => events'[d].revision = syncs[r].revision
      BY <1>3, <1>5 DEF Events, EventIds
    <2> QED BY <1>1, <1>3, <1>5, <2>1, WrittenSyncs DEF Written
  <1>6. CASE Incomplete(r) /\ syncs' = [syncs EXCEPT ![r].left = @ \ {k}]
    BY <1>1, <1>3, <1>6, WrittenSyncs
  <1> QED BY <1>4, <1>5, <1>6

LEMMA CreateEventSyncs ==
    ASSUME CalendarInv, SyncInv, NEW r \in CalendarRequests, NEW k \in SyncKeys,
           CreateEvent(r, k)
    PROVE  SyncInv'
  <1> DEFINE e == Len(events) + 1
             event == [key |-> k, account |-> fetches[r].account,
                       revision |-> syncs[r].revision, alive |-> TRUE]
  <1>1. /\ r \in Busy /\ syncs[r].phase = "calling" /\ syncs[r].call = "write"
        /\ k \in syncs[r].left /\ UNCHANGED <<plan, calendarRows, fetches>>
    BY TurnFacts DEF CreateEvent
  <1>2. e \in Nat /\ e # 0 /\ e = Len(events) + 1 /\ events \in Seq(Events)
    BY CalendarFacts DEF CalendarInv
  <1>3. \/ Incomplete(r) /\ syncs' = [syncs EXCEPT ![r].left = @ \ {k}]
        \/ /\ partial' = partial
           /\ syncs' = [syncs EXCEPT ![r].left = @ \ {k}, ![r].results[k] = e]
           /\ events' = Append(events, event)
    BY DEF CreateEvent, ItemFails
  <1>4. event.alive /\ event.revision = syncs[r].revision
    OBVIOUS
  <1> HIDE DEF e, event
  <1>5. CASE /\ partial' = partial
             /\ syncs' = [syncs EXCEPT ![r].left = @ \ {k}, ![r].results[k] = e]
             /\ events' = Append(events, event)
    <2>1. events'[e] = event /\ \A d \in EventIds : events'[d] = events[d]
      BY <1>2, <1>5 DEF EventIds
    <2> QED BY <1>1, <1>2, <1>4, <1>5, <2>1, WrittenSyncs, ZenonT(30) DEF Written
  <1>6. CASE Incomplete(r) /\ syncs' = [syncs EXCEPT ![r].left = @ \ {k}]
    BY <1>1, <1>2, <1>6, WrittenSyncs
  <1> QED BY <1>3, <1>5, <1>6

LEMMA MarkTripCalendarSyncDeletedSyncs ==
    ASSUME CalendarInv, SyncInv, NEW r \in CalendarRequests, NEW k \in SyncKeys,
           MarkTripCalendarSyncDeleted(r, k)
    PROVE  SyncInv'
  <1>1. /\ r \in Busy /\ syncs[r] \in SyncStates /\ syncs[r].phase = "answered"
        /\ syncs[r].call = "delete" /\ syncs[r].kind = "sync"
        /\ OthersStay(r) /\ UNCHANGED <<plan, events, partial>>
    BY MarkMoves
  <1>2. \A l \in SyncKeys : /\ calendarRows'[l].revision = calendarRows[l].revision
                            /\ calendarRows'[l].event = calendarRows[l].event
                            /\ calendarRows'[l].status = "active" => Active(l) /\ l # k
    <2>1. calendarRows \in [SyncKeys -> SyncRows]
      BY CalendarFacts DEF CalendarInv
    <2>2. calendarRows' = [calendarRows EXCEPT ![k].status = "deleted"]
      BY DEF MarkTripCalendarSyncDeleted
    <2> QED BY <2>1, <2>2 DEF SyncRows, Active
  <1>3. \A l \in SyncKeys : Current(l)' => Current(l)
    BY <1>1, <1>2 DEF Current, Active
  <1>4. \A l \in SyncKeys : syncs[r].results[l] = 0
    BY <1>1, BusyFacts DEF RequestOK
  <1>5. ASSUME OnItsWay(syncs[r], calendarRows, events), NEW l \in SyncKeys,
               calendarRows'[l].status = "active"
        PROVE  /\ l # k /\ syncs[r].seen[l] # 0
               /\ l \in syncs[r].timed \cup syncs[r].left
    BY <1>1, <1>2, <1>5 DEF OnItsWay, WayAt, Active
  <1>6. CASE syncs'[r] = IdleSync /\ syncs[r].left = {k} /\ syncs[r].timed = {}
    <2>1. r \notin Busy'
      BY <1>6, IdleFacts DEF Busy
    <2>2. ASSUME OnItsWay(syncs[r], calendarRows, events), syncs[r].timed = plan.timed
          PROVE  Synced'
      BY <1>1, <1>5, <1>6, <2>2 DEF Synced, Active
    <2> QED BY <1>1, <1>2, <1>3, <2>1, <2>2, SyncStep
  <1>7. CASE /\ Kept(syncs'[r], syncs[r]) /\ syncs'[r].seen = syncs[r].seen
             /\ syncs'[r].results = syncs[r].results
             /\ \/ /\ syncs'[r].phase = "answered" /\ syncs'[r].call = "delete"
                   /\ syncs'[r].left = syncs[r].left \ {k}
                \/ /\ syncs'[r].phase = "calling" /\ syncs'[r].call = "write"
                   /\ syncs'[r].left = syncs[r].timed /\ syncs[r].left = {k}
    <2>1. r \in Busy'
      BY <1>1, <1>7 DEF Busy, Kept, OthersStay
    <2>2. ASSUME OnItsWay(syncs[r], calendarRows, events)
          PROVE  OnItsWay(syncs'[r], calendarRows', events')
      <3>1. ASSUME NEW l \in SyncKeys PROVE WayAt(syncs'[r], calendarRows'[l], events', l)
        <4>1. calendarRows'[l].status = "active" =>
                 l # k /\ syncs[r].seen[l] # 0 /\ l \in syncs[r].timed \cup syncs[r].left
          BY <1>5, <2>2
        <4> QED BY <1>4, <1>7, <4>1 DEF WayAt, Kept
      <3> QED BY <3>1 DEF OnItsWay
    <2> QED BY <1>1, <1>2, <1>3, <1>7, <2>1, <2>2, SyncStep
  <1> QED BY <1>6, <1>7, MarkMoves

LEMMA MarkAllTripCalendarSyncsDeletedSyncs ==
    ASSUME CalendarInv, SyncInv, NEW r \in CalendarRequests, MarkAllTripCalendarSyncsDeleted(r)
    PROVE  SyncInv'
  <1>1. /\ r \in Busy /\ syncs[r].kind = "remove" /\ SyncEnds(r)
        /\ UNCHANGED <<plan, events, partial>>
    BY DEF MarkAllTripCalendarSyncsDeleted, Busy
  <1>2. OthersStay(r) /\ r \notin Busy'
    BY <1>1, EndMoves, IdleFacts DEF CalendarInv, Busy
  <1>3. \A l \in SyncKeys : /\ calendarRows'[l].status # "active"
                            /\ calendarRows'[l].revision = calendarRows[l].revision
    <2>1. \A l \in SyncKeys :
             /\ [calendarRows[l] EXCEPT !.status = "deleted"].status = "deleted"
             /\ [calendarRows[l] EXCEPT !.status = "deleted"].revision = calendarRows[l].revision
      BY CalendarFacts DEF CalendarInv, SyncRows
    <2> QED BY <2>1 DEF MarkAllTripCalendarSyncsDeleted, Active
  <1>4. \A l \in SyncKeys : ~Current(l)'
    BY <1>3 DEF Current, Active
  <1> QED BY <1>1, <1>2, <1>3, <1>4, SyncStep

LEMMA UpsertTripCalendarSyncSyncs ==
    ASSUME CalendarInv, SyncInv, NEW r \in CalendarRequests, NEW k \in SyncKeys,
           UpsertTripCalendarSync(r, k)
    PROVE  SyncInv'
  <1>1. /\ r \in Busy /\ r \in CalendarRequests /\ syncs[r].phase = "answered"
        /\ syncs[r].call = "write" /\ syncs[r].left # {} /\ k = Min(syncs[r].left)
        /\ UNCHANGED <<connectionVars, plan, events, partial>>
    BY DEF UpsertTripCalendarSync, CalendarInv, CalendarTypes
  <1>2. /\ syncs[r] \in SyncStates /\ syncs[r].kind = "sync" /\ syncs[r].results[k] # 0
        /\ syncs[r].results[k] \in Nat /\ syncs[r].revision \in Nat
        /\ syncs[r].results \in [SyncKeys -> Nat]
    <2>1. k \in syncs[r].left
      BY <1>1, BusyFacts, SyncFields, SyncAssumption, MinIsMember
    <2> QED BY <1>1, <2>1, BusyFacts, SyncFields DEF RequestOK
  <1>3. PICK e \in Nat \ {0}, revision \in Nat :
           e = syncs[r].results[k] /\ revision = syncs[r].revision
    BY <1>2
  <1>4. /\ \A l \in SyncKeys \ {k} : calendarRows'[l] = calendarRows[l]
        /\ calendarRows'[k] = [status |-> "active", event |-> e, revision |-> revision]
    BY <1>3, CalendarFacts DEF UpsertTripCalendarSync, CalendarInv
  <1>5. /\ OthersStay(r) /\ Kept(syncs'[r], syncs[r])
        /\ syncs'[r].phase = syncs[r].phase /\ syncs'[r].call = syncs[r].call
        /\ syncs'[r].seen = syncs[r].seen
        /\ syncs'[r].results = [syncs[r].results EXCEPT ![k] = 0]
        /\ syncs'[r].left = syncs[r].left \ {k}
    <2>1. /\ syncs' = [syncs EXCEPT ![r].left = @ \ {k}, ![r].results[k] = 0]
          /\ fetches' = fetches /\ CalendarTypes /\ 0 \in Nat
      BY <1>1 DEF UpsertTripCalendarSync, connectionVars, CalendarInv
    <2> QED BY <1>1, <2>1, TakesResult, ZenonT(30)
  <1>6. r \in Busy'
    BY <1>1, <1>2, <1>5 DEF Busy, Kept
  <1>7. \A l \in SyncKeys : /\ \/ calendarRows'[l].revision = calendarRows[l].revision
                               \/ calendarRows'[l].revision = syncs[r].revision
                            /\ syncs[r].revision # plan.revision => (Current(l)' => Current(l))
    BY <1>1, <1>3, <1>4 DEF Current, Active
  <1>8. ASSUME OnItsWay(syncs[r], calendarRows, events)
        PROVE  OnItsWay(syncs'[r], calendarRows', events')
    <2> SUFFICES ASSUME NEW l \in SyncKeys
                 PROVE  WayAt(syncs'[r], calendarRows'[l], events, l)
      BY <1>1 DEF OnItsWay
    <2>1. WayAt(syncs[r], calendarRows[l], events, l)
      BY <1>8 DEF OnItsWay
    <2>2. /\ syncs'[r].revision = syncs[r].revision /\ syncs'[r].timed = syncs[r].timed
          /\ syncs'[r].results[k] = 0
          /\ l # k => syncs'[r].results[l] = syncs[r].results[l]
      BY <1>2, <1>5 DEF Kept
    <2>3. CASE l = k
      <3>1. k \in syncs[r].timed /\ Written(events, e, syncs[r].revision)
        BY <1>1, <1>3, <2>1, <2>3 DEF WayAt
      <3> QED BY <1>1, <1>4, <1>5, <2>2, <2>3, <3>1 DEF WayAt
    <2>4. CASE l # k
      BY <1>1, <1>4, <1>5, <2>1, <2>2, <2>4 DEF WayAt
    <2> QED BY <2>3, <2>4
  <1> QED BY <1>1, <1>2, <1>5, <1>6, <1>7, <1>8, SyncStep

LEMMA SyncStepKeeps ==
    CalendarInv /\ SyncInv /\ [CalendarNext]_calendarVars => SyncInv'
  <1> SUFFICES ASSUME CalendarInv, SyncInv, [CalendarNext]_calendarVars PROVE SyncInv'
    OBVIOUS
  <1>1. CASE (ConnectionNext /\ UNCHANGED tripVars) \/ UNCHANGED calendarVars
    <2>1. UNCHANGED <<plan, calendarRows, events, partial, syncs>> /\ Busy' = Busy
      BY <1>1 DEF tripVars, calendarVars, Busy
    <2> QED BY <2>1, SyncBystanders
  <1>2. CASE EditPlan
    BY <1>2, EditPlanSyncs
  <1>3. ASSUME NEW r \in CalendarRequests, BeginFreeBusy(r) \/ GetFreeBusy(r)
        PROVE  SyncInv'
    <2>1. r \notin Busy
      BY <1>3, BusyFacts DEF BeginFreeBusy, GetFreeBusy, RequestOK, Busy
    <2>2. PICK t \in SyncStates : /\ syncs' = [syncs EXCEPT ![r] = t]
                                  /\ t.kind \notin {"sync", "remove"}
      <3>1. CASE GetFreeBusy(r)
        BY <3>1, IdleFacts DEF GetFreeBusy
      <3>2. CASE BeginFreeBusy(r)
        <4> DEFINE s == [IdleSync EXCEPT !.kind = "freebusy"]
        <4>1. s \in SyncStates /\ s.kind = "freebusy" /\ Calls(r, s, "freebusy", {})
          BY <3>2, IdleFacts DEF BeginFreeBusy, SyncStates
        <4> HIDE DEF s
        <4>2. /\ syncs' = [syncs EXCEPT ![r] = syncs'[r]] /\ Kept(syncs'[r], s)
              /\ syncs'[r] \in SyncStates
          <5>1. OthersStay(r) /\ Kept(syncs'[r], s)
            BY <4>1, CallsMove DEF CalendarInv
          <5>2. PICK u : syncs' = [syncs EXCEPT ![r] = u]
            BY <4>1 DEF Calls
          <5>3. syncs'[r] = u
            BY <5>2, CalendarFacts DEF CalendarInv
          <5> QED BY <5>1, <5>2, <5>3 DEF OthersStay
        <4> QED BY <4>1, <4>2 DEF Kept
      <3> QED BY <1>3, <3>1, <3>2
    <2>3. /\ syncs'[r] = t
          /\ \A q \in CalendarRequests \ {r} : syncs'[q] = syncs[q]
      BY <2>2, OneChanges DEF CalendarInv
    <2>4. Busy' = Busy /\ \A q \in Busy : syncs'[q] = syncs[q]
      BY <2>1, <2>2, <2>3 DEF Busy
    <2>5. UNCHANGED <<plan, calendarRows, events, partial>>
      BY <1>3 DEF BeginFreeBusy, GetFreeBusy
    <2> QED BY <2>4, <2>5, SyncBystanders
  <1>4. ASSUME NEW r \in CalendarRequests, CallRefused(r) \/ SyncFails(r) PROVE SyncInv'
    BY <1>4, FailureSyncs DEF CallRefused, SyncFails
  <1>5. ASSUME NEW r \in CalendarRequests,
               \/ BeginSync(r, "sync") \/ BeginSync(r, "remove") \/ ListTripCalendarSyncs(r)
               \/ Answer(r) \/ SyncReturns(r) \/ MarkAllTripCalendarSyncsDeleted(r)
        PROVE  SyncInv'
    BY <1>5, BeginSyncSyncs, ListTripCalendarSyncsSyncs, AnswerSyncs, SyncReturnsSyncs,
       MarkAllTripCalendarSyncsDeletedSyncs
  <1>6. ASSUME NEW r \in CalendarRequests, NEW k \in SyncKeys,
               \/ DeleteEvent(r, k) \/ UpdateEvent(r, k) \/ CreateEvent(r, k)
               \/ MarkTripCalendarSyncDeleted(r, k) \/ UpsertTripCalendarSync(r, k)
        PROVE  SyncInv'
    BY <1>6, DeleteEventSyncs, UpdateEventSyncs, CreateEventSyncs,
       MarkTripCalendarSyncDeletedSyncs, UpsertTripCalendarSyncSyncs
  <1> QED BY <1>1, <1>2, <1>3, <1>4, <1>5, <1>6 DEF CalendarNext

LEMMA SyncedByInv == CalendarInv /\ SyncInv => InSyncMeansSynced
  <1> SUFFICES ASSUME CalendarInv, SyncInv, Busy = {}, \E k \in SyncKeys : Active(k),
                      SyncedRevision >= plan.revision, plan.revision \notin partial
               PROVE  /\ {k \in SyncKeys : Active(k)} = plan.timed
                      /\ \A k \in plan.timed :
                            LET e == events[calendarRows[k].event]
                            IN e.alive /\ e.revision = plan.revision
                      /\ \A e \in EventIds \ astray : events[e].alive =>
                            /\ events[e].key \in plan.timed
                            /\ calendarRows[events[e].key].event = e
    BY DEF InSyncMeansSynced
  <1> DEFINE R == {calendarRows[k].revision : k \in {j \in SyncKeys : Active(j)}}
  <1>1. \A k \in SyncKeys : calendarRows[k].revision \in 0..plan.revision
    BY CalendarFacts DEF CalendarInv, SyncRows, SyncInv, RevisionsPass
  <1>2. R \in SUBSET (0..plan.revision) /\ R # {} /\ plan.revision \in Nat
    BY <1>1, CalendarFacts DEF CalendarInv
  <1>3. Max(R) \in R /\ Max(R) >= plan.revision
    <2>1. SyncedRevision = Max(R)
      BY DEF SyncedRevision
    <2> HIDE DEF R
    <2> QED BY <1>2, <2>1, MaxIsMember
  <1>4. \E k \in SyncKeys : Current(k)
    <2>1. PICK k \in SyncKeys : Active(k) /\ calendarRows[k].revision >= plan.revision
      BY <1>3
    <2> QED BY <1>1, <1>2, <2>1 DEF Current
  <1>5. Synced
    BY <1>4 DEF SyncInv, SyncCompletes
  <1>6. plan.timed \subseteq SyncKeys
    BY CalendarFacts DEF CalendarInv
  <1>7. ASSUME NEW e \in EventIds \ astray, events[e].alive
        PROVE  events[e].key \in plan.timed /\ calendarRows[events[e].key].event = e
    <2>1. events[e] \in Events
      BY CalendarFacts DEF CalendarInv
    <2>2. events[e].key \in SyncKeys
      BY <2>1 DEF Events, CalendarEvents
    <2>3. e \notin astray \cup UNION {InHand(r) : r \in Busy}
      OBVIOUS
    <2>4. /\ calendarRows[events[e].key].status = "active"
          /\ calendarRows[events[e].key].event = e
      BY <1>7, <2>3, KnownByInv DEF EventsAreKnown
    <2> QED BY <1>5, <2>2, <2>4 DEF Synced, Active
  <1> QED BY <1>5, <1>6, <1>7 DEF Synced, Written

(* A trip that the page shows as synced and up to date has an event with   *)
(* the current content for each item with a time, unless the sync of that  *)
(* revision reported failures or overlapped another request; and every     *)
(* other event it may have is astray: a refused or failed deletion, a lost *)
(* answer, overlapping requests or another account left it behind.         *)
THEOREM InSyncIsSynced == CalendarSpec => []InSyncMeansSynced
  <1>1. CalendarInit => CalendarInv /\ SyncInv
    <2> SUFFICES ASSUME CalendarInit PROVE CalendarInv /\ SyncInv
      OBVIOUS
    <2>1. CalendarInv
      BY InitHolds
    <2>2. /\ Busy = {} /\ plan.revision = 1
          /\ \A k \in SyncKeys : ~Active(k) /\ calendarRows[k].revision = 0
      BY IdleFacts DEF CalendarInit, Busy, NoRow, Active
    <2> QED BY <2>1, <2>2 DEF SyncInv, RevisionsPass, SyncCompletes, Current
  <1>2. CalendarInv /\ SyncInv /\ [CalendarNext]_calendarVars => CalendarInv' /\ SyncInv'
    BY CalendarStepKeeps, SyncStepKeeps
  <1>3. CalendarInv /\ SyncInv => InSyncMeansSynced
    BY SyncedByInv
  <1> QED BY <1>1, <1>2, <1>3, PTL DEF CalendarSpec

-----------------------------------------------------------------------------
(* Types.                                                                  *)

(* Whoever is connected, or has a token, is so with an account.            *)
AccountsKnown ==
    /\ connection.status = "active" =>
          connection.token \in Accounts /\ connection.refresh \in Accounts
    /\ \A s \in 1..Len(flows) : flows[s].phase = "exchanged" => flows[s].account \in Accounts
    /\ \A r \in CalendarRequests :
          fetches[r].phase \in {"refreshing", "refreshed", "have"} =>
             fetches[r].account \in Accounts
    /\ \A e \in EventIds : events[e].account \in Accounts

WithinBounds ==
    /\ Len(flows) =< MaxConnects
    /\ expiries \in 0..MaxExpiries /\ calendarFaults \in 0..MaxCalendarFaults

Known == AccountsKnown /\ WithinBounds

LEMMA FaultsWithinBounds ==
    ASSUME WithinBounds, UNCHANGED <<flows, expiries>>, CalendarFault \/ UNCHANGED calendarFaults
    PROVE  WithinBounds'
  BY ConnectionAssumption DEF WithinBounds, CalendarFault

(* The events that exist have an account; a token is given with one.       *)
TokensStay ==
    \A r \in CalendarRequests :
       fetches'[r] = fetches[r] \/ fetches'[r].phase \in {"none", "asked", "failed"}

LEMMA TokensStayKnown ==
    ASSUME CalendarTypes, AccountsKnown, TokensStay, connection' \in {connection, Disconnected},
           UNCHANGED flows, \A e \in EventIds' : events'[e].account \in Accounts
    PROVE  AccountsKnown'
  <1>1. connection'.status = "active" => connection' = connection
    BY DEF Disconnected, CalendarTypes, Connections
  <1> QED BY <1>1 DEF AccountsKnown, TokensStay

(* The requests of Trip Service call, end and go on.                       *)
LEMMA CallsKeepKnown ==
    ASSUME CalendarTypes, Known, NEW r \in CalendarRequests, NEW f \in FetchStates,
           f.phase \in {"none", "asked", "failed"},
           fetches' = [fetches EXCEPT ![r] = f] \/ UNCHANGED fetches,
           connection' \in {connection, Disconnected},
           UNCHANGED <<flows, expiries, events>>, CalendarFault \/ UNCHANGED calendarFaults
    PROVE  Known'
  <1>1. TokensStay
    BY DEF TokensStay, CalendarTypes
  <1>2. \A e \in EventIds' : events'[e].account \in Accounts
    BY DEF Known, AccountsKnown, EventIds
  <1> QED BY <1>1, <1>2, TokensStayKnown, FaultsWithinBounds DEF Known

(* The calls of External Integrations change events, with the account of   *)
(* their token.                                                            *)
LEMMA EventsKeepKnown ==
    ASSUME CalendarTypes, Known, UNCHANGED <<connection, flows, fetches, expiries>>,
           CalendarFault \/ UNCHANGED calendarFaults,
           \A e \in EventIds' : events'[e].account \in Accounts
    PROVE  Known'
  <1>1. TokensStay
    BY DEF TokensStay
  <1> QED BY <1>1, TokensStayKnown, FaultsWithinBounds DEF Known

(* An event keeps its account, deleted or updated.                         *)
Changed(evs, e, revision) ==
    {[evs EXCEPT ![e].alive = FALSE], [evs EXCEPT ![e].revision = revision], evs}
SameAccounts(new, evs, n) == DOMAIN new = 1..n /\ \A d \in 1..n : new[d].account = evs[d].account

LEMMA AccountsStay ==
    ASSUME NEW n \in Nat, NEW evs \in [1..n -> Events], NEW e, NEW revision,
           NEW new, new \in Changed(evs, e, revision)
    PROVE  SameAccounts(new, evs, n)
  <1> USE DEF Changed, SameAccounts
  <1>1. ASSUME NEW d \in 1..n PROVE new[d].account = evs[d].account
    <2>1. evs[d] \in Events
      OBVIOUS
    <2>2. /\ [evs[d] EXCEPT !.alive = FALSE].account = evs[d].account
          /\ [evs[d] EXCEPT !.revision = revision].account = evs[d].account
      BY <2>1 DEF Events
    <2>3. new[d] \in {[evs[d] EXCEPT !.alive = FALSE], [evs[d] EXCEPT !.revision = revision], evs[d]}
      OBVIOUS
    <2> QED BY <2>2, <2>3
  <1> QED BY <1>1

LEMMA ItemsKeepKnown ==
    ASSUME CalendarTypes, CalendarTypes', Known, NEW r \in CalendarRequests, NEW k \in SyncKeys,
           DeleteEvent(r, k) \/ UpdateEvent(r, k) \/ CreateEvent(r, k)
    PROVE  Known'
  <1>1. PICK n \in Nat : /\ n = Len(events) /\ events \in [1..n -> Events]
                         /\ \A e \in 1..n : events[e].account \in Accounts
    BY SMTT(20) DEF CalendarTypes, Known, AccountsKnown, EventIds
  <1>2. CASE DeleteEvent(r, k)
    <2>1. PICK e, revision :
             events' \in {[events EXCEPT ![e].alive = FALSE], [events EXCEPT ![e].revision = revision], events}
      BY <1>2 DEF DeleteEvent
    <2>2. DOMAIN events' = 1..n /\ \A d \in 1..n : events'[d].account = events[d].account
      <3>1. PICK new : new = events'
        OBVIOUS
      <3>2. new \in Changed(events, e, revision)
        BY <2>1, <3>1 DEF Changed
      <3>3. SameAccounts(new, events, n)
        BY <1>1, <3>2, AccountsStay, Zenon
      <3> QED BY <3>1, <3>3 DEF SameAccounts
    <2>3. EventIds' = 1..n
      BY <2>2 DEF EventIds, CalendarTypes
    <2>4. \A d \in EventIds' : events'[d].account \in Accounts
      BY <1>1, <2>2, <2>3
    <2> QED BY <1>2, <2>4, EventsKeepKnown DEF DeleteEvent
  <1>3. CASE UpdateEvent(r, k)
    <2>1. PICK e, revision :
             events' \in {[events EXCEPT ![e].alive = FALSE], [events EXCEPT ![e].revision = revision], events}
      BY <1>3 DEF UpdateEvent, ItemFails
    <2>2. DOMAIN events' = 1..n /\ \A d \in 1..n : events'[d].account = events[d].account
      <3>1. PICK new : new = events'
        OBVIOUS
      <3>2. new \in Changed(events, e, revision)
        BY <2>1, <3>1 DEF Changed
      <3>3. SameAccounts(new, events, n)
        BY <1>1, <3>2, AccountsStay, Zenon
      <3> QED BY <3>1, <3>3 DEF SameAccounts
    <2>3. EventIds' = 1..n
      BY <2>2 DEF EventIds, CalendarTypes
    <2>4. \A d \in EventIds' : events'[d].account \in Accounts
      BY <1>1, <2>2, <2>3
    <2> QED BY <1>3, <2>4, EventsKeepKnown DEF UpdateEvent, ItemFails
  <1>4. CASE CreateEvent(r, k)
    <2>1. fetches[r].account \in Accounts
      BY <1>4 DEF CreateEvent, AtItem, Known, AccountsKnown
    <2>2. PICK row : /\ row.account = fetches[r].account
                     /\ events' \in {Append(events, row), events}
      BY <1>4 DEF CreateEvent
    <2>3. ASSUME events' = Append(events, row)
          PROVE  \A d \in EventIds' : events'[d].account \in Accounts
      <3>1. /\ Len(events') = n + 1 /\ events'[n + 1] = row
            /\ \A d \in 1..n : events'[d] = events[d]
        <4>1. events \in Seq(Events)
          BY DEF CalendarTypes
        <4> QED BY <1>1, <2>3, <4>1
      <3>2. \A d \in 1..(n + 1) : d \in 1..n \/ d = n + 1
        BY <1>1
      <3>3. EventIds' = 1..(n + 1)
        BY <3>1 DEF EventIds
      <3> QED BY <1>1, <2>1, <2>2, <3>1, <3>2, <3>3
    <2>4. ASSUME events' = events
          PROVE  \A d \in EventIds' : events'[d].account \in Accounts
      BY <1>1, <2>4 DEF EventIds
    <2>5. \A d \in EventIds' : events'[d].account \in Accounts
      BY <2>2, <2>3, <2>4
    <2> QED BY <1>4, <2>5, EventsKeepKnown DEF CreateEvent, ItemFails
  <1> QED BY <1>2, <1>3, <1>4

(* The connection itself.                                                  *)
LEMMA FlowsKeepKnown ==
    ASSUME CalendarTypes, Known, UNCHANGED <<events, expiries, calendarFaults, fetches, connection>>,
           flows' \in Seq(FlowStates), Len(flows') =< MaxConnects,
           \A s \in 1..Len(flows') :
              flows'[s].phase = "exchanged" =>
                 flows'[s].account \in Accounts \/ (s \in 1..Len(flows) /\ flows'[s] = flows[s])
    PROVE  Known'
  <1>1. AccountsKnown'
    BY DEF Known, AccountsKnown, EventIds
  <1> QED BY <1>1 DEF Known, WithinBounds

LEMMA ConnectsKeepKnown ==
    ASSUME CalendarTypes, CalendarTypes', Known,
           StartConnect \/ \E s \in 1..Len(flows) : MarkOAuthStateUsed(s) \/ ExchangeCode(s),
           UNCHANGED events
    PROVE  Known'
  <1>1. /\ flows \in Seq(FlowStates) /\ flows' \in Seq(FlowStates) /\ Len(flows) \in Nat
        /\ Len(flows) =< MaxConnects /\ MaxConnects \in Nat
    BY ConnectionAssumption DEF CalendarTypes, Known, WithinBounds
  <1>2. CASE StartConnect
    <2>1. PICK flow : flow.phase = "open" /\ flows' = Append(flows, flow)
      BY <1>2 DEF StartConnect
    <2>2. /\ Len(flows') = Len(flows) + 1 /\ flows'[Len(flows) + 1] = flow
          /\ \A s \in 1..Len(flows) : flows'[s] = flows[s]
      BY <1>1, <2>1
    <2>3. \A s \in 1..Len(flows') :
             flows'[s].phase = "exchanged" => s \in 1..Len(flows) /\ flows'[s] = flows[s]
      BY <1>1, <2>1, <2>2
    <2>4. Len(flows') =< MaxConnects
      BY <1>1, <1>2, <2>2 DEF StartConnect
    <2> QED BY <1>1, <1>2, <2>3, <2>4, FlowsKeepKnown DEF StartConnect
  <1>3. ASSUME NEW s \in 1..Len(flows), MarkOAuthStateUsed(s) \/ ExchangeCode(s)
        PROVE  Known'
    <2>1. PICK flow : /\ flows' = [flows EXCEPT ![s] = flow]
                      /\ flow.phase = "exchanged" => flow.account \in Accounts
      <3>1. CASE MarkOAuthStateUsed(s)
        <4>1. PICK phase \in {"used", "ended"} : flows' = [flows EXCEPT ![s].phase = phase]
          BY <3>1 DEF MarkOAuthStateUsed
        <4>2. [flows[s] EXCEPT !.phase = phase].phase = phase
          <5>1. flows[s] \in FlowStates
            BY <1>1
          <5> QED BY <5>1 DEF FlowStates
        <4> QED BY <4>1, <4>2
      <3>2. CASE ExchangeCode(s) /\ flows' = [flows EXCEPT ![s].phase = "ended"]
        <4>1. [flows[s] EXCEPT !.phase = "ended"].phase = "ended"
          <5>1. flows[s] \in FlowStates
            BY <1>1
          <5> QED BY <5>1 DEF FlowStates
        <4> QED BY <3>2, <4>1
      <3>3. CASE \E a \in Accounts :
                    flows' = [flows EXCEPT ![s] = [phase |-> "exchanged", account |-> a]]
        <4>1. PICK a \in Accounts :
                 flows' = [flows EXCEPT ![s] = [phase |-> "exchanged", account |-> a]]
          BY <3>3
        <4>2. PICK flow : flow = [phase |-> "exchanged", account |-> a]
          OBVIOUS
        <4>3. flow.account \in Accounts
          BY <4>2
        <4>4. flows' = [flows EXCEPT ![s] = flow]
          BY <4>1, <4>2
        <4> QED BY <4>3, <4>4, Zenon
      <3> QED BY <1>3, <3>1, <3>2, <3>3 DEF ExchangeCode
    <2>2. /\ Len(flows') = Len(flows) /\ flows'[s] = flow
          /\ \A j \in 1..Len(flows) : j # s => flows'[j] = flows[j]
      BY <1>1, <2>1
    <2>3. \A j \in 1..Len(flows') :
             flows'[j].phase = "exchanged" =>
                flows'[j].account \in Accounts \/ (j \in 1..Len(flows) /\ flows'[j] = flows[j])
      <3> SUFFICES ASSUME NEW j \in 1..Len(flows'), flows'[j].phase = "exchanged"
                   PROVE  \/ flows'[j].account \in Accounts
                          \/ j \in 1..Len(flows) /\ flows'[j] = flows[j]
        OBVIOUS
      <3> QED BY <2>1, <2>2
    <2>4. UNCHANGED <<expiries, calendarFaults, fetches, connection>>
      BY <1>3 DEF MarkOAuthStateUsed, ExchangeCode
    <2> QED BY <1>1, <2>2, <2>3, <2>4, FlowsKeepKnown
  <1> QED BY <1>2, <1>3

(* The row of the connection takes the account of an exchanged flow.       *)
LEMMA UpsertKeepsKnown ==
    ASSUME CalendarTypes, Known, NEW s \in 1..Len(flows), UpsertCalendarConnection(s),
           UNCHANGED events
    PROVE  Known'
  <1>1. PICK a \in Accounts : flows[s].account = a
    BY DEF UpsertCalendarConnection, Known, AccountsKnown
  <1>2. connection'.token = a /\ connection'.refresh = a
    BY <1>1 DEF UpsertCalendarConnection
  <1>3. /\ Len(flows') = Len(flows)
        /\ \A j \in 1..Len(flows) : flows'[j].phase = "exchanged" => flows'[j] = flows[j]
    <2>1. flows \in Seq(FlowStates) /\ flows[s] \in FlowStates
      BY DEF CalendarTypes
    <2>2. PICK flow : flow = [flows[s] EXCEPT !.phase = "ended"]
      OBVIOUS
    <2>3. flow.phase = "ended"
      BY <2>1, <2>2 DEF FlowStates
    <2>4. flows' = [flows EXCEPT ![s] = flow]
      BY <2>2 DEF UpsertCalendarConnection
    <2> QED BY <2>1, <2>3, <2>4
  <1>4. AccountsKnown'
    BY <1>2, <1>3 DEF UpsertCalendarConnection, Known, AccountsKnown, EventIds
  <1>5. WithinBounds'
    BY <1>3 DEF UpsertCalendarConnection, Known, WithinBounds
  <1> QED BY <1>4, <1>5 DEF Known

LEMMA TokensKeepKnown ==
    ASSUME CalendarTypes, Known, NEW r \in CalendarRequests,
           GetActiveCalendarConnection(r) \/ RefreshToken(r) \/ UpdateCalendarTokens(r),
           UNCHANGED events
    PROVE  Known'
  <1>1. fetches[r] \in FetchStates /\ fetches \in [CalendarRequests -> FetchStates]
        /\ connection \in Connections
    BY DEF CalendarTypes
  <1>2. CASE GetActiveCalendarConnection(r)
    <2>1. PICK f : /\ fetches' = [fetches EXCEPT ![r] = f]
                   /\ f.phase # "failed" => f.account \in Accounts
      <3>1. CASE connection.status # "active"
        <4>1. PICK f : f = [phase |-> "failed", account |-> NoAccount]
          OBVIOUS
        <4>2. f.phase = "failed"
          BY <4>1
        <4>3. fetches' = [fetches EXCEPT ![r] = f]
          BY <1>2, <3>1, <4>1 DEF GetActiveCalendarConnection
        <4> QED BY <4>2, <4>3, Zenon
      <3>2. CASE connection.status = "active"
        <4>1. connection.token \in Accounts /\ connection.refresh \in Accounts
          BY <3>2 DEF Known, AccountsKnown
        <4>2. PICK f : f = IF connection.fresh THEN [phase |-> "have", account |-> connection.token]
                           ELSE [phase |-> "refreshing", account |-> connection.refresh]
          OBVIOUS
        <4>3. f.account \in Accounts
          BY <4>1, <4>2
        <4>4. fetches' = [fetches EXCEPT ![r] = f]
          BY <1>2, <3>2, <4>2 DEF GetActiveCalendarConnection
        <4> QED BY <4>3, <4>4
      <3> QED BY <3>1, <3>2
    <2>2. AccountsKnown'
      <3>1. \A q \in CalendarRequests : fetches'[q] = IF q = r THEN f ELSE fetches[q]
        BY <1>1, <2>1
      <3> QED BY <1>2, <2>1, <3>1 DEF GetActiveCalendarConnection, Known, AccountsKnown, EventIds
    <2> QED BY <1>2, <2>2, FaultsWithinBounds DEF GetActiveCalendarConnection, Known
  <1>3. CASE RefreshToken(r)
    <2>1. PICK f : fetches' = [fetches EXCEPT ![r] = f] /\ f.account = fetches[r].account
      <3>1. \A phase : [fetches[r] EXCEPT !.phase = phase].account = fetches[r].account
        BY <1>1 DEF FetchStates
      <3> QED BY <1>3, <3>1 DEF RefreshToken
    <2>2. fetches[r].account \in Accounts
      BY <1>3 DEF RefreshToken, Known, AccountsKnown
    <2>3. \A q \in CalendarRequests : fetches'[q] = IF q = r THEN f ELSE fetches[q]
      BY <1>1, <2>1
    <2>4. connection'.status = "active" => connection' = connection
      BY <1>1, <1>3 DEF RefreshToken, Disconnected, Connections
    <2>5. AccountsKnown'
      BY <1>3, <2>1, <2>2, <2>3, <2>4 DEF RefreshToken, Known, AccountsKnown, EventIds
    <2> QED BY <1>3, <2>5, FaultsWithinBounds DEF RefreshToken, Known
  <1>4. CASE UpdateCalendarTokens(r)
    <2>1. PICK a \in Accounts : fetches[r].account = a
      BY <1>4 DEF UpdateCalendarTokens, Known, AccountsKnown
    <2>2. \A q \in CalendarRequests : fetches'[q].account = fetches[q].account
                                      /\ (q # r => fetches'[q] = fetches[q])
      BY <1>1, <1>4 DEF UpdateCalendarTokens, FetchStates
    <2>3. connection'.status = "active" =>
             connection'.token \in Accounts /\ connection'.refresh \in Accounts
      BY <1>1, <1>4, <2>1 DEF UpdateCalendarTokens, Connections, Known, AccountsKnown
    <2>4. AccountsKnown'
      BY <1>4, <2>1, <2>2, <2>3 DEF UpdateCalendarTokens, Known, AccountsKnown, EventIds
    <2> QED BY <1>4, <2>4, FaultsWithinBounds DEF UpdateCalendarTokens, Known
  <1> QED BY <1>2, <1>3, <1>4

LEMMA ConnectionKeepsKnown ==
    ASSUME CalendarTypes, CalendarTypes', Known, ConnectionNext, UNCHANGED events
    PROVE  Known'
  <1>1. CASE Disconnect
    BY <1>1, FaultsWithinBounds DEF Disconnect, Disconnected, CalendarTypes, Connections,
       Known, AccountsKnown, EventIds
  <1>2. CASE TokenExpires
    <2>1. connection' = [connection EXCEPT !.fresh = FALSE] /\ connection \in Connections
      BY <1>2 DEF TokenExpires, CalendarTypes
    <2>2. /\ connection'.status = connection.status /\ connection'.token = connection.token
          /\ connection'.refresh = connection.refresh
      BY <2>1 DEF Connections
    <2>3. AccountsKnown'
      BY <1>2, <2>2 DEF TokenExpires, Known, AccountsKnown, EventIds
    <2>4. WithinBounds'
      BY <1>2, ConnectionAssumption DEF TokenExpires, Known, WithinBounds
    <2> QED BY <2>3, <2>4 DEF Known
  <1> QED BY <1>1, <1>2, ConnectsKeepKnown, UpsertKeepsKnown, TokensKeepKnown DEF ConnectionNext

(* The requests of Trip Service: reads and writes of the rows change none  *)
(* of it, the others end a fetch, begin one or do nothing.                 *)
LEMMA FetchedKnown ==
    ASSUME CalendarTypes, Known, NEW r \in CalendarRequests,
           \/ fetches' = [fetches EXCEPT ![r] = NoFetch]
           \/ fetches' = [fetches EXCEPT ![r] = [phase |-> "asked", account |-> NoAccount]]
           \/ UNCHANGED fetches,
           connection' \in {connection, Disconnected},
           UNCHANGED <<flows, expiries, events>>, CalendarFault \/ UNCHANGED calendarFaults
    PROVE  Known'
  <1>1. PICK f \in FetchStates : /\ f.phase \in {"none", "asked"}
                                 /\ fetches' = [fetches EXCEPT ![r] = f] \/ UNCHANGED fetches
    <2>1. NoFetch \in FetchStates /\ NoFetch.phase = "none"
      BY DEF NoFetch, FetchStates
    <2>2. PICK asked : asked = [phase |-> "asked", account |-> NoAccount]
      OBVIOUS
    <2>3. asked \in FetchStates /\ asked.phase = "asked"
      BY <2>2 DEF FetchStates
    <2> QED BY <2>1, <2>2, <2>3
  <1> QED BY <1>1, CallsKeepKnown

LEMMA RequestsKeepKnown ==
    ASSUME CalendarTypes, Known, NEW r \in CalendarRequests,
           \/ BeginSync(r, "sync") \/ BeginSync(r, "remove") \/ ListTripCalendarSyncs(r)
           \/ CallRefused(r) \/ Answer(r) \/ SyncReturns(r) \/ SyncFails(r)
           \/ MarkAllTripCalendarSyncsDeleted(r) \/ BeginFreeBusy(r) \/ GetFreeBusy(r)
           \/ \E k \in SyncKeys : MarkTripCalendarSyncDeleted(r, k) \/ UpsertTripCalendarSync(r, k)
    PROVE  Known'
  <1> USE DEF SyncEnds, Calls, GoOnWriting, connectionVars
  <1>1. CASE BeginSync(r, "sync") \/ BeginSync(r, "remove")
    <2>1. UNCHANGED <<connection, flows, fetches, expiries, calendarFaults, events>>
      BY <1>1, Zenon DEF BeginSync
    <2> QED BY <2>1, FetchedKnown
  <1>2. CASE ListTripCalendarSyncs(r)
    BY <1>2, FetchedKnown DEF ListTripCalendarSyncs
  <1>3. CASE CallRefused(r) \/ Answer(r) \/ SyncReturns(r) \/ MarkAllTripCalendarSyncsDeleted(r)
    BY <1>3, FetchedKnown DEF CallRefused, Answer, SyncReturns, MarkAllTripCalendarSyncsDeleted
  <1>4. CASE SyncFails(r)
    BY <1>4, FetchedKnown DEF SyncFails
  <1>5. CASE BeginFreeBusy(r)
    BY <1>5, FetchedKnown DEF BeginFreeBusy
  <1>6. CASE GetFreeBusy(r)
    BY <1>6, FetchedKnown DEF GetFreeBusy
  <1>7. ASSUME NEW k \in SyncKeys, MarkTripCalendarSyncDeleted(r, k) \/ UpsertTripCalendarSync(r, k)
        PROVE  Known'
    <2>1. CASE MarkTripCalendarSyncDeleted(r, k)
      <3>1. /\ UNCHANGED <<connection, flows, expiries, events, calendarFaults>>
            /\ \/ fetches' = [fetches EXCEPT ![r] = NoFetch]
               \/ fetches' = [fetches EXCEPT ![r] = [phase |-> "asked", account |-> NoAccount]]
               \/ UNCHANGED fetches
        BY <2>1, Zenon DEF MarkTripCalendarSyncDeleted
      <3> QED BY <3>1, FetchedKnown
    <2>2. CASE UpsertTripCalendarSync(r, k)
      <3>1. UNCHANGED <<connection, flows, fetches, expiries, calendarFaults, events>>
        BY <2>2 DEF UpsertTripCalendarSync
      <3> QED BY <3>1, FetchedKnown
    <2> QED BY <1>7, <2>1, <2>2
  <1> QED BY <1>1, <1>2, <1>3, <1>4, <1>5, <1>6, <1>7

(* The types hold in every reachable state: every event is in the calendar *)
(* of an account, and every row names an event.                            *)
THEOREM CalendarTypesHold == CalendarSpec => []CalendarTypeOK
  <1>1. CalendarInit => CalendarInv /\ Known
    <2> SUFFICES ASSUME CalendarInit PROVE Known
      BY InitHolds
    <2>1. flows = << >> /\ events = << >> /\ expiries = 0 /\ calendarFaults = 0
      BY DEF CalendarInit, ConnectionInit
    <2>2. connection.status = "none" /\ \A r \in CalendarRequests : fetches[r].phase = "none"
      BY DEF CalendarInit, ConnectionInit, NoFetch
    <2> QED BY <2>1, <2>2, ConnectionAssumption DEF Known, AccountsKnown, WithinBounds, EventIds
  <1>2. CalendarInv /\ CalendarInv' /\ Known /\ [CalendarNext]_calendarVars => Known'
    <2> SUFFICES ASSUME CalendarTypes, CalendarTypes', Known, [CalendarNext]_calendarVars PROVE Known'
      BY DEF CalendarInv
    <2>1. CASE UNCHANGED calendarVars
      BY <2>1 DEF calendarVars, connectionVars, Known, AccountsKnown, WithinBounds, EventIds
    <2>2. CASE ConnectionNext /\ UNCHANGED tripVars
      BY <2>2, ConnectionKeepsKnown DEF tripVars
    <2>3. CASE EditPlan
      BY <2>3 DEF EditPlan, connectionVars, Known, AccountsKnown, WithinBounds, EventIds
    <2> QED BY <2>1, <2>2, <2>3, RequestsKeepKnown, ItemsKeepKnown DEF CalendarNext
  <1>3. CalendarInv /\ Known => CalendarTypeOK
    <2> SUFFICES ASSUME CalendarInv, Known PROVE CalendarTypeOK
      OBVIOUS
    <2>1. events \in Seq(CalendarEvents)
      <3>1. PICK n \in Nat : n = Len(events) /\ events \in [1..n -> Events]
        BY DEF CalendarInv, CalendarTypes
      <3>2. \A e \in 1..n : events[e] \in CalendarEvents
        BY <3>1 DEF Known, AccountsKnown, EventIds, Events, CalendarEvents
      <3>3. events \in [1..n -> CalendarEvents]
        BY <3>1, <3>2
      <3> QED BY <3>3
    <2>2. \A k \in SyncKeys : calendarRows[k].event \in {0} \cup EventIds
      BY DEF CalendarInv, CalendarTypes, RowsNameEvents, EventIds
    <2> QED BY <2>1, <2>2 DEF CalendarInv, CalendarTypes, Known, WithinBounds, CalendarTypeOK,
                              ConnectionTypeOK
  <1> QED BY <1>1, <1>2, <1>3, CalendarStepKeeps, PTL DEF CalendarSpec
=============================================================================
