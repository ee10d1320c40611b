-------------------------- MODULE CalendarConnections --------------------------
(***************************************************************************)
(* The connection of one user to Google Calendar, kept by External         *)
(* Integrations Service: a row with an access token, a refresh token and   *)
(* an expiry.  The user connects, possibly to another account than before, *)
(* and disconnects, while calls that want to reach the calendar read the   *)
(* row and refresh its access token.  Google asks for consent at every     *)
(* connection (prompt=consent) and so always gives a refresh token with    *)
(* the access token, and none with a refreshed one.                        *)
(***************************************************************************)
EXTENDS Integers, Sequences, FiniteSets

CONSTANTS
    Accounts,          \* Google accounts of the user
    NoAccount,
    CalendarRequests,  \* requests at the calendar under way at a time
    MaxConnects,       \* bound: OAuth flows
    MaxExpiries,       \* bound: access tokens that expire
    MaxCalendarFaults  \* bound: revoked grants, lost answers, stopped requests

ASSUME ConnectionAssumption ==
    /\ NoAccount \notin Accounts
    /\ MaxConnects \in Nat /\ MaxExpiries \in Nat /\ MaxCalendarFaults \in Nat

VARIABLES
    connection,        \* the row of calendar_connections
    flows,             \* the rows of calendar_oauth_states, and their callbacks
    fetches,           \* the access token of each request, and how far it is
    expiries,
    calendarFaults

connectionVars == <<connection, flows, fetches, expiries, calendarFaults>>

\* token and refresh: the accounts that the two tokens open.
Connections == [status : {"none", "active", "disconnected"}, fresh : BOOLEAN,
                token : Accounts \cup {NoAccount}, refresh : Accounts \cup {NoAccount}]
FlowStates == [phase : {"open", "used", "exchanged", "ended"},
               account : Accounts \cup {NoAccount}]
FetchStates == [phase : {"none", "asked", "refreshing", "refreshed", "have", "failed"},
                account : Accounts \cup {NoAccount}]
NoFetch == [phase |-> "none", account |-> NoAccount]

ConnectionInit ==
    /\ connection = [status |-> "none", fresh |-> FALSE,
                     token |-> NoAccount, refresh |-> NoAccount]
    /\ flows = << >>
    /\ fetches = [r \in CalendarRequests |-> NoFetch]
    /\ expiries = 0
    /\ calendarFaults = 0

CalendarFault ==
    /\ calendarFaults < MaxCalendarFaults
    /\ calendarFaults' = calendarFaults + 1

-----------------------------------------------------------------------------
(* Connecting and disconnecting.                                           *)

StartConnect ==
    /\ Len(flows) < MaxConnects
    /\ flows' = Append(flows, [phase |-> "open", account |-> NoAccount])
    /\ UNCHANGED <<connection, fetches, expiries, calendarFaults>>

(* However often the browser repeats the callback, one passes: WHERE state *)
(* AND used_at IS NULL.  The user may have denied access.                  *)
MarkOAuthStateUsed(s) ==
    /\ flows[s].phase = "open"
    /\ \E phase \in {"used", "ended"} : flows' = [flows EXCEPT ![s].phase = phase]
    /\ UNCHANGED <<connection, fetches, expiries, calendarFaults>>

(* The code is for the account the user picked.                            *)
ExchangeCode(s) ==
    /\ flows[s].phase = "used"
    /\ \/ \E a \in Accounts : flows' = [flows EXCEPT ![s] = [phase |-> "exchanged", account |-> a]]
       \/ flows' = [flows EXCEPT ![s].phase = "ended"]
    /\ UNCHANGED <<connection, fetches, expiries, calendarFaults>>

UpsertCalendarConnection(s) ==
    /\ flows[s].phase = "exchanged"
    /\ flows' = [flows EXCEPT ![s].phase = "ended"]
    /\ connection' = [status |-> "active", fresh |-> TRUE,
                      token |-> flows[s].account, refresh |-> flows[s].account]
    /\ UNCHANGED <<fetches, expiries, calendarFaults>>

(* WHERE user_id AND provider: whichever connection the row now holds.     *)
Disconnected ==
    IF connection.status = "none" THEN connection
    ELSE [connection EXCEPT !.status = "disconnected"]

Disconnect ==
    /\ connection.status = "active"
    /\ connection' = Disconnected
    /\ UNCHANGED <<flows, fetches, expiries, calendarFaults>>

TokenExpires ==
    /\ connection.fresh
    /\ expiries < MaxExpiries
    /\ expiries' = expiries + 1
    /\ connection' = [connection EXCEPT !.fresh = FALSE]
    /\ UNCHANGED <<flows, fetches, calendarFaults>>

-----------------------------------------------------------------------------
(* accessToken, in the statements of one request.                          *)

GetActiveCalendarConnection(r) ==
    /\ fetches[r].phase = "asked"
    /\ fetches' = [fetches EXCEPT ![r] =
          IF connection.status # "active" THEN [phase |-> "failed", account |-> NoAccount]
          ELSE IF connection.fresh THEN [phase |-> "have", account |-> connection.token]
          ELSE [phase |-> "refreshing", account |-> connection.refresh]]
    /\ UNCHANGED <<connection, flows, expiries, calendarFaults>>

(* A grant that Google refuses to refresh disconnects the user.            *)
RefreshToken(r) ==
    /\ fetches[r].phase = "refreshing"
    /\ \/ /\ fetches' = [fetches EXCEPT ![r].phase = "refreshed"]
          /\ UNCHANGED <<connection, calendarFaults>>
       \/ /\ CalendarFault
          /\ fetches' = [fetches EXCEPT ![r].phase = "failed"]
          /\ connection' = Disconnected
    /\ UNCHANGED <<flows, expiries>>

(* WHERE status = 'active'; the refresh token of the row stays (COALESCE), *)
(* whichever connection it belongs to.                                     *)
UpdateCalendarTokens(r) ==
    /\ fetches[r].phase = "refreshed"
    /\ fetches' = [fetches EXCEPT ![r].phase = "have"]
    /\ connection' = IF connection.status = "active"
                     THEN [connection EXCEPT !.token = fetches[r].account, !.fresh = TRUE]
                     ELSE connection
    /\ UNCHANGED <<flows, expiries, calendarFaults>>

ConnectionNext ==
    \/ StartConnect \/ Disconnect \/ TokenExpires
    \/ \E s \in 1..Len(flows) :
          MarkOAuthStateUsed(s) \/ ExchangeCode(s) \/ UpsertCalendarConnection(s)
    \/ \E r \in CalendarRequests :
          GetActiveCalendarConnection(r) \/ RefreshToken(r) \/ UpdateCalendarTokens(r)

ConnectionTypeOK ==
    /\ connection \in Connections
    /\ flows \in Seq(FlowStates) /\ Len(flows) =< MaxConnects
    /\ fetches \in [CalendarRequests -> FetchStates]
    /\ expiries \in 0..MaxExpiries /\ calendarFaults \in 0..MaxCalendarFaults
=============================================================================
