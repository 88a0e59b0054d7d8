------------------------------ MODULE Sessions ------------------------------
(***************************************************************************)
(* The sessions of a console user: login, refresh and logout of            *)
(* api/v1/auth.py, and the interceptor of the front end's api/client.ts    *)
(* that refreshes an access token when a request is answered with 401.     *)
(*                                                                         *)
(* The tabs of one browser share its cookies and its localStorage; each    *)
(* tab has an access token and an interceptor of its own.                  *)
(***************************************************************************)
EXTENDS Naturals, FiniteSets

CONSTANTS
    Tab,
    Request,     \* API requests, sent again and again
    tabOf,       \* the tab that sends each
    Logout,      \* those that may be POST /auth/logout, or any other
    Me,          \* those that are GET /users/me of the login page
    Token,       \* refresh tokens handed out; a bound on those alive at a time
    NoToken,     \* "no cookie"
    NoRequest    \* "no refresh under way"

ASSUME TabAssumption == IsFiniteSet(Tab)
ASSUME TabOfAssumption == tabOf \in [Request -> Tab]
ASSUME LogoutAssumption == Logout \subseteq Request
ASSUME MeAssumption == Me \subseteq Request \ Logout
ASSUME NoTokenAssumption == NoToken \notin Token
ASSUME NoRequestAssumption == NoRequest \notin Request

VARIABLES
    \* the server
    active,      \* User.is_active
    row,         \* RefreshToken rows: none, live, expired or revoked
    uses,        \* history: access tokens each refresh token was good for
    \* the browser
    cookie,      \* the refresh_token cookie
    access,      \* accessToken of each tab: none, valid or expired
    isAuthenticated,  \* of each tab; unlike the token it does not survive a reload
    req,         \* where each request stands
    carries,     \* whether the access token it carries is valid
    brings,      \* the refresh token a logout was sent with
    retried,     \* its _retry flag
    refreshFor,  \* the request a tab refreshes for; isRefreshing is "not NoRequest"
    refresh,     \* where POST /auth/refresh of each tab stands
    refreshWith  \* the refresh token it came with

serverVars == <<active, row, uses>>
authVars == <<access, isAuthenticated>>
requestVars == <<req, carries, brings, retried>>
refreshVars == <<refreshFor, refresh, refreshWith>>
vars == <<serverVars, cookie, authVars, requestVars, refreshVars>>

\* "queued": in failedQueue.  "found": refresh() has selected the token row
\* and the user, and has not committed.
RequestPhase == {"idle", "sent", "queued"}
RefreshPhase == {"none", "sent", "found", "granted", "refused"}

Refreshing(t) == refreshFor[t] # NoRequest
RequestsOf(t) == {r \in Request : tabOf[r] = t}

TypeOK ==
    /\ active \in BOOLEAN
    /\ row \in [Token -> {"none", "live", "expired", "revoked"}]
    /\ uses \in [Token -> Nat]
    /\ cookie \in Token \cup {NoToken}
    /\ access \in [Tab -> {"none", "valid", "expired"}]
    /\ isAuthenticated \in [Tab -> BOOLEAN]
    /\ \A t \in Tab : isAuthenticated[t] => access[t] # "none"
    /\ req \in [Request -> RequestPhase \cup {"refreshing"}]
    /\ carries \in [Request -> BOOLEAN]
    /\ brings \in [Request -> Token \cup {NoToken}]
    /\ retried \in [Request -> BOOLEAN]
    /\ refreshFor \in [Tab -> Request \cup {NoRequest}]
    /\ refresh \in [Tab -> RefreshPhase]
    /\ refreshWith \in [Tab -> Token \cup {NoToken}]
    /\ \A t \in Tab : Refreshing(t) <=> refresh[t] # "none"
    /\ \A r \in Request : req[r] = "refreshing" <=> refreshFor[tabOf[r]] = r

Init ==
    /\ active = TRUE
    /\ row = [k \in Token |-> "none"]
    /\ uses = [k \in Token |-> 0]
    /\ cookie = NoToken
    /\ access = [t \in Tab |-> "none"]
    /\ isAuthenticated = [t \in Tab |-> FALSE]
    /\ req = [r \in Request |-> "idle"]
    /\ carries = [r \in Request |-> FALSE]
    /\ brings = [r \in Request |-> NoToken]
    /\ retried = [r \in Request |-> FALSE]
    /\ refreshFor = [t \in Tab |-> NoRequest]
    /\ refresh = [t \in Tab |-> "none"]
    /\ refreshWith = [t \in Tab |-> NoToken]

-----------------------------------------------------------------------------
(* The auth store.                                                         *)

SetAuth(t) ==
    /\ access' = [access EXCEPT ![t] = "valid"]
    /\ isAuthenticated' = [isAuthenticated EXCEPT ![t] = TRUE]

ClearAuth(t) ==
    /\ access' = [access EXCEPT ![t] = "none"]
    /\ isAuthenticated' = [isAuthenticated EXCEPT ![t] = FALSE]

(* Requests are sent.  The cookie goes to /auth only, and matters to the   *)
(* logout there.                                                           *)
RequestsGo(S, valid) ==
    /\ req' = [r \in Request |-> IF r \in S THEN "sent" ELSE req[r]]
    /\ carries' = [r \in Request |-> IF r \in S THEN valid ELSE carries[r]]
    /\ brings' = [r \in Request |-> IF r \in S \cap Logout THEN cookie ELSE brings[r]]

RequestsEnd(S) ==
    /\ req' = [r \in Request |-> IF r \in S THEN "idle" ELSE req[r]]
    /\ carries' = [r \in Request |-> carries[r] /\ r \notin S]
    /\ brings' = [r \in Request |-> IF r \in S THEN NoToken ELSE brings[r]]
    /\ retried' = [r \in Request |-> retried[r] /\ r \notin S]

-----------------------------------------------------------------------------
(* A token nobody can use any more stands for the next one handed out.     *)
Fresh(k) ==
    /\ row[k] # "live"
    /\ k # cookie
    /\ \A t \in Tab : refreshWith[t] # k
    /\ \A r \in Request : brings[r] # k

(* login, from the login page, and the GET /users/me that follows; other   *)
(* requests may still be under way.  The interceptor puts a token of the   *)
(* store, if there is one, in the place of the new one.                    *)
Login(t, k) ==
    /\ active
    /\ Fresh(k)
    /\ \E r \in Me : /\ tabOf[r] = t
                     /\ req[r] = "idle"
                     /\ RequestsGo({r}, access[t] # "expired")
    /\ row' = [row EXCEPT ![k] = "live"]
    /\ uses' = [uses EXCEPT ![k] = 0]
    /\ cookie' = k
    /\ UNCHANGED <<active, authVars, retried, refreshVars>>

SendRequest(r) ==
    /\ r \notin Me
    /\ req[r] = "idle"
    /\ isAuthenticated[tabOf[r]]
    /\ RequestsGo({r}, access[tabOf[r]] = "valid")
    /\ UNCHANGED <<serverVars, cookie, authVars, retried, refreshVars>>

\* get_current_user lets the request pass.
Authorized(r) == req[r] = "sent" /\ carries[r] /\ active

RevokeBrought(r) == [k \in Token |-> IF k = brings[r] THEN "revoked" ELSE row[k]]

(* onFinish of the login page stores the token of the login when it has    *)
(* the user.  logout revokes the token that came with it and deletes the   *)
(* cookie, and handleLogout clears the store.  What a request is makes no  *)
(* difference before it ends, so that is where the model tells.            *)
RequestSucceeds(r) ==
    /\ Authorized(r)
    /\ RequestsEnd({r})
    /\ \/ r \notin Me /\ UNCHANGED <<row, cookie, authVars>>
       \/ r \in Me /\ SetAuth(tabOf[r]) /\ UNCHANGED <<row, cookie>>
       \/ /\ r \in Logout
          /\ ClearAuth(tabOf[r])
          /\ row' = RevokeBrought(r)
          /\ cookie' = NoToken
    /\ UNCHANGED <<active, uses, refreshVars>>

(* No answer, an answer other than 401, or a second 401.  A logout that    *)
(* was carried out may be among those without an answer, which leaves the  *)
(* cookie; handleLogout clears the store in any case.                      *)
RequestFails(r) ==
    /\ req[r] = "sent"
    /\ RequestsEnd({r})
    /\ \/ UNCHANGED <<row, authVars>>
       \/ /\ r \in Logout
          /\ ClearAuth(tabOf[r])
          /\ \/ UNCHANGED row
             \/ Authorized(r) /\ row' = RevokeBrought(r)
    /\ UNCHANGED <<active, uses, cookie, refreshVars>>

Unauthorized(r) ==
    /\ req[r] = "sent"
    /\ ~carries[r] \/ ~active
    /\ ~retried[r]

(* The interceptor, while another request of the tab is refreshing.        *)
RequestQueued(r) ==
    /\ Unauthorized(r)
    /\ Refreshing(tabOf[r])
    /\ req' = [req EXCEPT ![r] = "queued"]
    /\ carries' = [carries EXCEPT ![r] = FALSE]
    /\ brings' = [brings EXCEPT ![r] = NoToken]
    /\ UNCHANGED <<serverVars, cookie, authVars, retried, refreshVars>>

(* Variant: isRefreshing is not looked at.                                 *)
RefreshStartsAlways(r) ==
    LET t == tabOf[r]
    IN  /\ Unauthorized(r)
        /\ req' = [req EXCEPT ![r] = "refreshing"]
        /\ carries' = [carries EXCEPT ![r] = FALSE]
        /\ brings' = [brings EXCEPT ![r] = NoToken]
        /\ retried' = [retried EXCEPT ![r] = TRUE]
        /\ refreshFor' = [refreshFor EXCEPT ![t] = r]
        /\ refresh' = [refresh EXCEPT ![t] = "sent"]
        /\ refreshWith' = [refreshWith EXCEPT ![t] = cookie]
        /\ UNCHANGED <<serverVars, cookie, authVars>>

(* The interceptor, otherwise: the refresh goes out with the cookie.       *)
RefreshStarts(r) ==
    LET t == tabOf[r]
    IN  /\ Unauthorized(r)
        /\ ~Refreshing(t)
        /\ req' = [req EXCEPT ![r] = "refreshing"]
        /\ carries' = [carries EXCEPT ![r] = FALSE]
        /\ brings' = [brings EXCEPT ![r] = NoToken]
        /\ retried' = [retried EXCEPT ![r] = TRUE]
        /\ refreshFor' = [refreshFor EXCEPT ![t] = r]
        /\ refresh' = [refresh EXCEPT ![t] = "sent"]
        /\ refreshWith' = [refreshWith EXCEPT ![t] = cookie]
        /\ UNCHANGED <<serverVars, cookie, authVars>>

-----------------------------------------------------------------------------
(* refresh: a select that wants the row unrevoked, and a commit that       *)
(* revokes it by its key.                                                  *)

\* Variant: the select does not ask for "revoked == False".
GoodOnceLive(k) == k # NoToken /\ row[k] \in {"live", "revoked"}

Good(k) == k # NoToken /\ row[k] = "live"

\* The token the request came with plays no part in it any more.
Answer(t, answer) ==
    /\ refresh' = [refresh EXCEPT ![t] = answer]
    /\ refreshWith' = [refreshWith EXCEPT ![t] = NoToken]

RefreshLooksUp(t) ==
    /\ refresh[t] = "sent"
    /\ IF Good(refreshWith[t]) /\ active
       THEN refresh' = [refresh EXCEPT ![t] = "found"] /\ UNCHANGED refreshWith
       ELSE Answer(t, "refused")
    /\ UNCHANGED <<serverVars, cookie, authVars, requestVars, refreshFor>>

(* The new token is stored as well; as neither a cookie nor the body hands *)
(* it out, nobody ever comes with it and it is left out here.              *)
RefreshCommits(t) ==
    /\ refresh[t] = "found"
    /\ row' = [row EXCEPT ![refreshWith[t]] = "revoked"]
    /\ uses' = [uses EXCEPT ![refreshWith[t]] = @ + 1]
    /\ Answer(t, "granted")
    /\ UNCHANGED <<active, cookie, authVars, requestVars, refreshFor>>

RefreshOver(t) ==
    /\ refreshFor' = [refreshFor EXCEPT ![t] = NoRequest]
    /\ refresh' = [refresh EXCEPT ![t] = "none"]
    /\ refreshWith' = [refreshWith EXCEPT ![t] = NoToken]

(* Variant: the requests in failedQueue are left there.                    *)
RefreshSucceedsAlone(t) ==
    /\ refresh[t] = "granted"
    /\ SetAuth(t)
    /\ RequestsGo({refreshFor[t]}, TRUE)
    /\ RefreshOver(t)
    /\ UNCHANGED <<serverVars, cookie, retried>>

(* processQueue resolves the queued requests: they are sent once more, as  *)
(* the request the refresh was for is, but without its _retry flag.        *)
RefreshSucceeds(t) ==
    /\ refresh[t] = "granted"
    /\ SetAuth(t)
    /\ RequestsGo({r \in RequestsOf(t) : req[r] \in {"queued", "refreshing"}}, TRUE)
    /\ RefreshOver(t)
    /\ UNCHANGED <<serverVars, cookie, retried>>

(* Variant: the page stays, and the queue as it is.                        *)
RefreshFailsAlone(t) ==
    /\ refresh[t] \in {"sent", "granted", "refused"}
    /\ ClearAuth(t)
    /\ RequestsEnd({refreshFor[t]})
    /\ RefreshOver(t)
    /\ UNCHANGED <<serverVars, cookie>>

(* Refused, or no answer.  The queued requests are rejected and the page   *)
(* is left for the login page, which ends what else was under way.         *)
RefreshFails(t) ==
    /\ refresh[t] \in {"sent", "granted", "refused"}
    /\ ClearAuth(t)
    /\ RequestsEnd(RequestsOf(t))
    /\ RefreshOver(t)
    /\ UNCHANGED <<serverVars, cookie>>

(* The page is loaded again.  accessToken is persisted, isAuthenticated is *)
(* not, so the login page comes with a token in the store: that of the tab *)
(* which wrote localStorage last.                                          *)
Reload(t) ==
    /\ refresh[t] # "found"
    /\ \E stored \in {access[u] : u \in Tab} : access' = [access EXCEPT ![t] = stored]
    /\ isAuthenticated' = [isAuthenticated EXCEPT ![t] = FALSE]
    /\ RequestsEnd(RequestsOf(t))
    /\ RefreshOver(t)
    /\ UNCHANGED <<serverVars, cookie>>

-----------------------------------------------------------------------------
(* Fifteen minutes: the access token expires with the requests it carries. *)
AccessExpires(t) ==
    /\ access[t] = "valid" \/ \E r \in RequestsOf(t) : carries[r]
    /\ access' = [access EXCEPT ![t] = IF @ = "none" THEN @ ELSE "expired"]
    /\ carries' = [r \in Request |-> carries[r] /\ tabOf[r] # t]
    /\ UNCHANGED <<serverVars, cookie, isAuthenticated, req, brings, retried, refreshVars>>

(* Seven days.                                                             *)
TokenExpires(k) ==
    /\ row[k] = "live"
    /\ row' = [row EXCEPT ![k] = "expired"]
    /\ UNCHANGED <<active, uses, cookie, authVars, requestVars, refreshVars>>

(* update_user.                                                            *)
SetActive ==
    /\ active' = ~active
    /\ UNCHANGED <<row, uses, cookie, authVars, requestVars, refreshVars>>

RequestAnswered(r) ==
    RequestSucceeds(r) \/ RequestFails(r) \/ RequestQueued(r) \/ RefreshStarts(r)

RefreshStep(t) ==
    \/ RefreshLooksUp(t)
    \/ RefreshCommits(t)
    \/ RefreshSucceeds(t)
    \/ RefreshFails(t)

Next ==
    \/ \E t \in Tab : \/ \E k \in Token : Login(t, k)
                      \/ Reload(t)
                      \/ RefreshStep(t)
                      \/ AccessExpires(t)
    \/ \E r \in Request : SendRequest(r) \/ RequestAnswered(r)
    \/ \E k \in Token : TokenExpires(k)
    \/ SetActive

Spec == Init /\ [][Next]_vars

(* A request that gets no answer fails after 30 seconds; a refresh is      *)
(* answered or fails.                                                      *)
Fairness ==
    /\ \A r \in Request : WF_req(RequestFails(r))
    /\ \A t \in Tab : WF_refresh(RefreshStep(t))

FairSpec == Spec /\ Fairness

-----------------------------------------------------------------------------
(* A request waits in failedQueue only while a refresh of its tab is under *)
(* way that will empty the queue.                                          *)
QueuedMeansRefreshing ==
    \A r \in Request : req[r] = "queued" => Refreshing(tabOf[r])

(* A refresh token is good for at most one access token per tab: the tabs  *)
(* race between the select and the commit of refresh, nothing else lets a  *)
(* token be used again.                                                    *)
PendingUses(k) == Cardinality({t \in Tab : refresh[t] = "found" /\ refreshWith[t] = k})

UsesBounded ==
    \A k \in Token : uses[k] + PendingUses(k) <= Cardinality(Tab)

(* Every request ends, answered or rejected, unless somebody logs in again *)
(* and again: refreshing and sending again does not go on by itself.       *)
SomebodyLogsIn == \E k \in Token : row[k] # "live" /\ row'[k] = "live"

EveryRequestEnds ==
    <>[][~SomebodyLogsIn]_row
        => \A r \in Request : []<>(req[r] = "idle")
=============================================================================
