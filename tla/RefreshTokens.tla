---------------------------- MODULE RefreshTokens ----------------------------
(***************************************************************************)
(* Sessions: the refresh tokens of Auth Service and the browser that holds *)
(* one of them in localStorage.  A token is single-use: a refresh revokes  *)
(* it and inserts its successor in one transaction.  Every request of any  *)
(* tab that is answered 401 refreshes on its own, so several refreshes,    *)
(* a logout and the expiry of tokens run beside each other, and answers    *)
(* get lost.  Tokens are numbered in the order of their insertion; all     *)
(* tokens that descend from one login form a session, named by the login.  *)
(***************************************************************************)
EXTENDS Integers, Sequences

CONSTANTS
    Requests,     \* requests the browser's tabs have running at a time
    NoToken,
    MaxTokens,    \* bound: tokens ever inserted
    MaxLogins     \* bound: logins and registrations

ASSUME SessionAssumption ==
    /\ MaxTokens \in Nat /\ MaxLogins \in Nat
    /\ NoToken \notin Nat

VARIABLES
    tokens,         \* the rows of refresh_tokens, ever inserted
    stored,         \* the refresh token in localStorage
    accessValid,    \* the access token beside it is accepted
    requests,       \* the request each of Requests is busy with
    logins,         \* sessions begun
    ended           \* history: sessions whose live token a logout revoked

sessionVars == <<tokens, stored, accessValid, requests, logins, ended>>

TokenRow == [login : Nat, revoked : BOOLEAN, expired : BOOLEAN, deleted : BOOLEAN]
TokenIds == 1..Len(tokens)
Inserted(login) == [login |-> login, revoked |-> FALSE, expired |-> FALSE, deleted |-> FALSE]

IdleRequest == [phase |-> "idle", token |-> NoToken, successor |-> NoToken]

Usable(k) == ~tokens[k].revoked /\ ~tokens[k].expired /\ ~tokens[k].deleted
LiveTokens(login) == {k \in TokenIds : tokens[k].login = login /\ Usable(k)}

SessionInit ==
    /\ tokens = << >>
    /\ stored = NoToken
    /\ accessValid = FALSE
    /\ requests = [r \in Requests |-> IdleRequest]
    /\ logins = 0
    /\ ended = {}

Go(r, request) == requests' = [requests EXCEPT ![r] = request]
GoTo(r, phase) == requests' = [requests EXCEPT ![r].phase = phase]

-----------------------------------------------------------------------------
(* Login and registration insert the first token of a session.             *)
Login(r) ==
    /\ requests[r].phase = "idle"
    /\ stored = NoToken
    /\ logins < MaxLogins
    /\ Len(tokens) < MaxTokens
    /\ logins' = logins + 1
    /\ tokens' = Append(tokens, Inserted(logins + 1))
    /\ Go(r, [phase |-> "answered", token |-> NoToken, successor |-> Len(tokens) + 1])
    /\ UNCHANGED <<stored, accessValid, ended>>

(* A request is refused with 401: the tab reads the token it will send.    *)
BeginRefresh(r) ==
    /\ requests[r].phase = "idle"
    /\ ~accessValid
    /\ stored # NoToken
    /\ Go(r, [phase |-> "asked", token |-> stored, successor |-> NoToken])
    /\ UNCHANGED <<tokens, stored, accessValid, logins, ended>>

(* Refresh reads the row, and the user's row after it.                     *)
GetRefreshTokenByHash(r) ==
    /\ requests[r].phase = "asked"
    /\ GoTo(r, IF Usable(requests[r].token) THEN "checked" ELSE "refused")
    /\ UNCHANGED <<tokens, stored, accessValid, logins, ended>>

(* A broken variant, not part of the specification.                        *)
NotYetReplaced(k) == ~tokens[k].deleted

(* The WHERE clause of the rotation's UPDATE: the expiry is not tested.    *)
NotYetRevoked(k) == ~tokens[k].revoked /\ ~tokens[k].deleted

(* The transaction: one row revoked and its successor inserted, or no      *)
(* effect; a commit may report an error after it took effect.              *)
RotateRefreshToken(r) ==
    LET k == requests[r].token IN
    /\ requests[r].phase = "checked"
    /\ \/ /\ NotYetRevoked(k)
          /\ Len(tokens) < MaxTokens
          /\ tokens' = Append([tokens EXCEPT ![k].revoked = TRUE], Inserted(tokens[k].login))
          /\ \/ Go(r, [phase |-> "answered", token |-> k, successor |-> Len(tokens) + 1])
             \/ GoTo(r, "refused")
       \/ GoTo(r, "refused") /\ UNCHANGED tokens
    /\ UNCHANGED <<stored, accessValid, logins, ended>>

(* The answer of a login or a refresh arrives ...                          *)
saveTokens(r) ==
    /\ requests[r].phase = "answered"
    /\ stored' = requests[r].successor
    /\ accessValid' = TRUE
    /\ Go(r, IdleRequest)
    /\ UNCHANGED <<tokens, logins, ended>>

(* ... or is lost: a failed login shows an error, a failed refresh is an   *)
(* expired session.                                                        *)
LoseAnswer(r) ==
    /\ requests[r].phase = "answered"
    /\ IF requests[r].token = NoToken THEN Go(r, IdleRequest) ELSE GoTo(r, "refused")
    /\ UNCHANGED <<tokens, stored, accessValid, logins, ended>>

(* Every error of a refresh clears the tokens of all tabs, whatever they   *)
(* are by now.                                                             *)
clearTokens(r) ==
    /\ requests[r].phase = "refused"
    /\ stored' = NoToken
    /\ accessValid' = FALSE
    /\ Go(r, IdleRequest)
    /\ UNCHANGED <<tokens, logins, ended>>

BeginLogout(r) ==
    /\ requests[r].phase = "idle"
    /\ stored # NoToken
    /\ Go(r, [phase |-> "leaving", token |-> stored, successor |-> NoToken])
    /\ UNCHANGED <<tokens, stored, accessValid, logins, ended>>

(* A broken variant, not part of the specification.                        *)
RevokeNothing(k) == tokens

RevokeRefreshTokenByHash(k) ==
    IF tokens[k].deleted THEN tokens ELSE [tokens EXCEPT ![k].revoked = TRUE]

Logout(r) ==
    LET k == requests[r].token IN
    /\ requests[r].phase = "leaving"
    /\ \/ /\ tokens' = RevokeRefreshTokenByHash(k)
          /\ ended' = IF Usable(k) THEN ended \cup {tokens[k].login} ELSE ended
       \/ UNCHANGED <<tokens, ended>>
    /\ GoTo(r, "left")
    /\ UNCHANGED <<stored, accessValid, logins>>

LogoutCompletes(r) ==
    /\ requests[r].phase = "left"
    /\ stored' = NoToken
    /\ accessValid' = FALSE
    /\ Go(r, IdleRequest)
    /\ UNCHANGED <<tokens, logins, ended>>

-----------------------------------------------------------------------------
(* Time passes.                                                            *)
AccessTokenExpires ==
    /\ accessValid
    /\ accessValid' = FALSE
    /\ UNCHANGED <<tokens, stored, requests, logins, ended>>

RefreshTokenExpires(k) ==
    /\ ~tokens[k].expired
    /\ tokens' = [tokens EXCEPT ![k].expired = TRUE]
    /\ UNCHANGED <<stored, accessValid, requests, logins, ended>>

(* The cleanup tasks delete what expired or was revoked days ago: no       *)
(* request that has such a row in hand is still running.                   *)
DeleteToken(k) ==
    /\ ~tokens[k].deleted
    /\ tokens[k].revoked \/ tokens[k].expired
    /\ \A r \in Requests : requests[r].token # k
    /\ tokens' = [tokens EXCEPT ![k].deleted = TRUE]
    /\ UNCHANGED <<stored, accessValid, requests, logins, ended>>

SessionNext ==
    \/ \E r \in Requests :
          \/ Login(r) \/ BeginRefresh(r) \/ GetRefreshTokenByHash(r) \/ RotateRefreshToken(r)
          \/ saveTokens(r) \/ LoseAnswer(r) \/ clearTokens(r)
          \/ BeginLogout(r) \/ Logout(r) \/ LogoutCompletes(r)
    \/ AccessTokenExpires
    \/ \E k \in TokenIds : RefreshTokenExpires(k) \/ DeleteToken(k)

SessionSpec == SessionInit /\ [][SessionNext]_sessionVars

-----------------------------------------------------------------------------
RequestStates ==
    [phase : {"idle", "asked", "checked", "answered", "refused", "leaving", "left"},
     token : TokenIds \cup {NoToken}, successor : TokenIds \cup {NoToken}]

SessionTypeOK ==
    /\ tokens \in Seq(TokenRow)
    /\ stored \in TokenIds \cup {NoToken}
    /\ accessValid \in BOOLEAN
    /\ requests \in [Requests -> RequestStates]
    /\ logins \in Nat
    /\ ended \subseteq 1..logins
    /\ \A k \in TokenIds : tokens[k].login \in 1..logins
    /\ \A r \in Requests :
          /\ requests[r].phase \in {"asked", "checked", "refused", "leaving"}
                => requests[r].token \in TokenIds
          /\ requests[r].phase = "answered" => requests[r].successor \in TokenIds

(* However many requests refresh with the same token at a time, a session  *)
(* has at most one token that can still be used (RotateRefreshToken: "A    *)
(* refresh token is single-use").                                          *)
OneTokenPerSession ==
    \A k, l \in TokenIds :
        /\ ~tokens[k].revoked /\ ~tokens[l].revoked
        /\ tokens[k].login = tokens[l].login
        => k = l

(* A logout that revoked the live token ends its session: a refresh that   *)
(* had checked the token before cannot continue it.                        *)
EndedStaysEnded == \A login \in ended : LiveTokens(login) = {}

=============================================================================
