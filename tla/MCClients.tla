------------------------------ MODULE MCClients ------------------------------
(***************************************************************************)
(* Instances of the protocols between the services and what lies outside:  *)
(* the browser, with its offline queue, session, edit lock and presence,   *)
(* and Google Calendar.  They share no state, so a behaviour lets one of   *)
(* them move, chosen initially, and the others rest in an initial state.   *)
(* Two of them have two such instances: the offline queue with all tabs at *)
(* one record, and with one tab at several; the calendar with one account  *)
(* and edits of the itinerary, and with two accounts and one item.  Some   *)
(* rare events are taken one at a time: among several tabs, one that is    *)
(* closed, a second edit, and an edit elsewhere; a calendar fault and a    *)
(* third request.  Two publications of presence may be under way.          *)
(***************************************************************************)
EXTENDS OfflineQueue, RefreshTokens, EditLocks, Presence, CalendarSync, TLC

VARIABLE component

clientVars == <<component, offlineVars, sessionVars, lockVars, presenceVars,
                calendarVars>>

ClientsInit ==
    /\ component \in {"offlineTabs", "offlineRecords", "session", "lock", "presence",
                      "calendarItems", "calendarAccounts"}
    /\ OfflineInit /\ SessionInit /\ LockInit /\ PresenceInit /\ CalendarInit
    /\ component # "calendarItems" => plan.timed = {1}

OneRecord == Len(pending') =< 1
OneIncident ==
    \A t \in Trips :
       closedTabs' + (IF edits' > 1 THEN 1 ELSE 0) + SavedOnline(t)' =< 1
OneTab ==
    /\ \A b \in Tabs \ Pages : passes'[b] = IdlePass
    /\ closedTabs' = 0

OneAccount ==
    /\ Len(flows') =< 1 /\ expiries' = 0
    /\ \A s \in DOMAIN flows' : flows'[s].account \in {NoAccount, CHOOSE a \in Accounts : TRUE}
OneRetry == calendarFaults' > 0 => syncCount' =< 2
OneItem == UNCHANGED plan /\ syncCount' =< 2

TwoPublications == Cardinality(publishing') =< 2

ClientsNext ==
    /\ UNCHANGED component
    /\ CASE component = "offlineTabs" -> OfflineNext /\ OneRecord /\ OneIncident
         [] component = "offlineRecords" -> OfflineNext /\ OneTab
         [] OTHER -> UNCHANGED offlineVars
    /\ IF component = "session" THEN SessionNext ELSE UNCHANGED sessionVars
    /\ IF component = "lock" THEN LockNext ELSE UNCHANGED lockVars
    /\ IF component = "presence" THEN PresenceNext /\ TwoPublications
       ELSE UNCHANGED presenceVars
    /\ CASE component = "calendarItems" -> CalendarNext /\ OneAccount /\ OneRetry
         [] component = "calendarAccounts" -> CalendarNext /\ OneItem
         [] OTHER -> UNCHANGED calendarVars

ClientsSpec == ClientsInit /\ [][ClientsNext]_clientVars

(* Users, and the requests of a browser, are interchangeable; the instance *)
(* gives them the same two names.                                          *)
ClientsSymmetry == Permutations(Viewers)

(* Every component's state holds values of its types.                      *)
ClientsTypeOK ==
    OfflineTypeOK /\ SessionTypeOK /\ LockTypeOK /\ PresenceTypeOK /\ CalendarTypeOK
==============================================================================
