---------------------------- MODULE AccessProofs ----------------------------
(***************************************************************************)
(* Proofs about those who use the console: their sessions, for any number  *)
(* of tabs, requests and tokens, and their accounts, for any number of     *)
(* workers, accounts and crashes.                                          *)
(***************************************************************************)
EXTENDS Sessions, Administration, FiniteSetTheorems, TLAPS

-----------------------------------------------------------------------------
(* Sessions.                                                               *)

(* The two views the interceptor has of a refresh agree: isRefreshing is   *)
(* set while a POST /auth/refresh is out, for the request that waits for   *)
(* it.  Part of the type invariant.                                        *)
LEMMA TypeInit == Init => TypeOK
BY NoRequestAssumption, TabOfAssumption
   DEF Init, TypeOK, Refreshing, RequestPhase, RefreshPhase

LEMMA TypeEnd ==
    ASSUME TypeOK, NEW S, RequestsEnd(S)
    PROVE  /\ req' \in [Request -> RequestPhase \cup {"refreshing"}]
           /\ carries' \in [Request -> BOOLEAN]
           /\ brings' \in [Request -> Token \cup {NoToken}]
           /\ retried' \in [Request -> BOOLEAN]
           /\ \A r \in Request : req'[r] = IF r \in S THEN "idle" ELSE req[r]
BY DEF TypeOK, RequestsEnd, RequestPhase

LEMMA TypeGo ==
    ASSUME TypeOK, NEW S, NEW valid \in BOOLEAN, RequestsGo(S, valid)
    PROVE  /\ req' \in [Request -> RequestPhase \cup {"refreshing"}]
           /\ carries' \in [Request -> BOOLEAN]
           /\ brings' \in [Request -> Token \cup {NoToken}]
           /\ \A r \in Request : req'[r] = IF r \in S THEN "sent" ELSE req[r]
BY DEF TypeOK, RequestsGo, RequestPhase

LEMMA TypeAuth ==
    ASSUME TypeOK, NEW t \in Tab, SetAuth(t) \/ ClearAuth(t) \/ UNCHANGED authVars
    PROVE  /\ access' \in [Tab -> {"none", "valid", "expired"}]
           /\ isAuthenticated' \in [Tab -> BOOLEAN]
           /\ \A u \in Tab : isAuthenticated'[u] => access'[u] # "none"
<1> USE DEF TypeOK
<1>1. CASE SetAuth(t)
  BY <1>1 DEF SetAuth
<1>2. CASE ClearAuth(t)
  BY <1>2 DEF ClearAuth
<1>3. CASE UNCHANGED authVars
  BY <1>3 DEF authVars
<1> QED
  BY <1>1, <1>2, <1>3

LEMMA TypeRequestStep ==
    ASSUME TypeOK, NEW r \in Request, SendRequest(r) \/ RequestAnswered(r)
    PROVE  TypeOK'
<1> USE TabOfAssumption, NoRequestAssumption
        DEF TypeOK, RequestPhase, RefreshPhase, Refreshing
<1>1. CASE SendRequest(r)
  <2>1. /\ RequestsGo({r}, access[tabOf[r]] = "valid")
        /\ req[r] = "idle"
        /\ UNCHANGED <<active, row, uses, cookie, access, isAuthenticated, retried,
                       refreshFor, refresh, refreshWith>>
    BY <1>1 DEF SendRequest, serverVars, authVars, refreshVars
  <2>2. (access[tabOf[r]] = "valid") \in BOOLEAN
    OBVIOUS
  <2>3. /\ req' \in [Request -> RequestPhase \cup {"refreshing"}]
        /\ carries' \in [Request -> BOOLEAN]
        /\ brings' \in [Request -> Token \cup {NoToken}]
        /\ \A q \in Request : req'[q] = IF q \in {r} THEN "sent" ELSE req[q]
    BY <2>1, <2>2, TypeGo
  <2> QED
    BY <2>1, <2>3
<1>2. ASSUME RequestsEnd({r}), req[r] = "sent", UNCHANGED refreshVars
      PROVE  /\ req' \in [Request -> RequestPhase \cup {"refreshing"}]
             /\ carries' \in [Request -> BOOLEAN]
             /\ brings' \in [Request -> Token \cup {NoToken}]
             /\ retried' \in [Request -> BOOLEAN]
             /\ \A t \in Tab : Refreshing(t)' <=> refresh'[t] # "none"
             /\ \A q \in Request : req'[q] = "refreshing" <=> refreshFor'[tabOf[q]] = q
  BY <1>2, TypeEnd DEF refreshVars
<1>3. RevokeBrought(r) \in [Token -> {"none", "live", "expired", "revoked"}]
  BY DEF RevokeBrought
<1>4. CASE RequestSucceeds(r)
  <2>1. /\ RequestsEnd({r}) /\ req[r] = "sent"
        /\ UNCHANGED <<active, uses, refreshVars>>
        /\ row' \in {row, RevokeBrought(r)}
        /\ cookie' \in {cookie, NoToken}
        /\ SetAuth(tabOf[r]) \/ ClearAuth(tabOf[r]) \/ UNCHANGED authVars
    BY <1>4 DEF RequestSucceeds, Authorized
  <2>2. /\ access' \in [Tab -> {"none", "valid", "expired"}]
        /\ isAuthenticated' \in [Tab -> BOOLEAN]
        /\ \A u \in Tab : isAuthenticated'[u] => access'[u] # "none"
    BY <2>1, TypeAuth
  <2> QED
    BY <1>2, <1>3, <2>1, <2>2 DEF refreshVars
<1>5. CASE RequestFails(r)
  <2>1. /\ RequestsEnd({r}) /\ req[r] = "sent"
        /\ UNCHANGED <<active, uses, cookie, refreshVars>>
        /\ row' \in {row, RevokeBrought(r)}
        /\ ClearAuth(tabOf[r]) \/ UNCHANGED authVars
    BY <1>5 DEF RequestFails
  <2>2. /\ access' \in [Tab -> {"none", "valid", "expired"}]
        /\ isAuthenticated' \in [Tab -> BOOLEAN]
        /\ \A u \in Tab : isAuthenticated'[u] => access'[u] # "none"
    BY <2>1, TypeAuth
  <2> QED
    BY <1>2, <1>3, <2>1, <2>2 DEF refreshVars
<1>6. CASE RequestQueued(r)
  BY <1>6 DEF RequestQueued, Unauthorized, serverVars, authVars, refreshVars
<1>7. CASE RefreshStarts(r)
  BY <1>7 DEF RefreshStarts, Unauthorized, serverVars, authVars
<1> QED
  BY <1>1, <1>4, <1>5, <1>6, <1>7 DEF RequestAnswered

LEMMA TypeRefreshStep ==
    ASSUME TypeOK, NEW t \in Tab, RefreshStep(t)
    PROVE  TypeOK'
<1> USE TabOfAssumption, NoRequestAssumption
        DEF TypeOK, RequestPhase, RefreshPhase, Refreshing
<1>1. CASE RefreshLooksUp(t)
  <2>1. UNCHANGED <<active, row, uses, cookie, access, isAuthenticated, req, carries,
                    brings, retried, refreshFor>>
    BY <1>1 DEF RefreshLooksUp, serverVars, authVars, requestVars
  <2>2. /\ refresh' \in [Tab -> RefreshPhase]
        /\ refreshWith' \in [Tab -> Token \cup {NoToken}]
        /\ \A u \in Tab : refresh'[u] # "none" <=> refresh[u] # "none"
    BY <1>1 DEF RefreshLooksUp, Answer
  <2> QED
    BY <2>1, <2>2
<1>2. CASE RefreshCommits(t)
  <2>1. /\ row' = [row EXCEPT ![refreshWith[t]] = "revoked"]
        /\ uses' = [uses EXCEPT ![refreshWith[t]] = @ + 1]
        /\ refresh' = [refresh EXCEPT ![t] = "granted"]
        /\ refreshWith' = [refreshWith EXCEPT ![t] = NoToken]
        /\ refresh[t] = "found"
        /\ UNCHANGED <<active, cookie, access, isAuthenticated, refreshFor>>
    BY <1>2 DEF RefreshCommits, Answer, authVars
  <2>2. UNCHANGED <<req, carries, brings, retried>>
    BY <1>2 DEF RefreshCommits, requestVars
  <2>3. row' \in [Token -> {"none", "live", "expired", "revoked"}]
    BY <2>1
  <2>4. uses' \in [Token -> Nat]
    <3>1. CASE refreshWith[t] \in Token
      BY <2>1, <3>1
    <3>2. CASE refreshWith[t] \notin Token
      <4>1. uses' = uses
        BY <2>1, <3>2
      <4> QED
        BY <4>1
    <3> QED
      BY <3>1, <3>2
  <2>5. /\ refresh' \in [Tab -> RefreshPhase]
        /\ \A u \in Tab : Refreshing(u)' <=> refresh'[u] # "none"
    BY <2>1
  <2> QED
    BY <2>1, <2>2, <2>3, <2>4, <2>5
<1>3. CASE RefreshSucceeds(t)
  <2> DEFINE again == {r \in RequestsOf(t) : req[r] \in {"queued", "refreshing"}}
  <2>1. RequestsGo(again, TRUE) /\ SetAuth(t) /\ UNCHANGED <<active, row, uses, cookie, retried>>
    BY <1>3 DEF RefreshSucceeds, serverVars
  <2>2. /\ refreshFor' = [refreshFor EXCEPT ![t] = NoRequest]
        /\ refresh' = [refresh EXCEPT ![t] = "none"]
        /\ refreshWith' = [refreshWith EXCEPT ![t] = NoToken]
    BY <1>3 DEF RefreshSucceeds, RefreshOver
  <2>3. /\ access' \in [Tab -> {"none", "valid", "expired"}]
        /\ isAuthenticated' \in [Tab -> BOOLEAN]
        /\ \A u \in Tab : isAuthenticated'[u] => access'[u] # "none"
    BY <2>1, TypeAuth
  <2>4. /\ req' \in [Request -> RequestPhase \cup {"refreshing"}]
        /\ carries' \in [Request -> BOOLEAN]
        /\ brings' \in [Request -> Token \cup {NoToken}]
        /\ \A r \in Request : req'[r] = IF r \in again THEN "sent" ELSE req[r]
    BY <2>1, TypeGo
  <2>5. \A r \in Request : req'[r] = "refreshing" <=> refreshFor'[tabOf[r]] = r
    BY <2>2, <2>4 DEF RequestsOf
  <2>6. \A u \in Tab : Refreshing(u)' <=> refresh'[u] # "none"
    BY <2>2
  <2> HIDE DEF again
  <2> QED
    BY <2>1, <2>2, <2>3, <2>4, <2>5, <2>6
<1>4. CASE RefreshFails(t)
  <2>1. /\ ClearAuth(t)
        /\ RequestsEnd(RequestsOf(t))
        /\ refreshFor' = [refreshFor EXCEPT ![t] = NoRequest]
        /\ refresh' = [refresh EXCEPT ![t] = "none"]
        /\ refreshWith' = [refreshWith EXCEPT ![t] = NoToken]
        /\ UNCHANGED <<active, row, uses, cookie>>
    BY <1>4 DEF RefreshFails, RefreshOver, serverVars
  <2>2. /\ access' \in [Tab -> {"none", "valid", "expired"}]
        /\ isAuthenticated' \in [Tab -> BOOLEAN]
        /\ \A u \in Tab : isAuthenticated'[u] => access'[u] # "none"
    BY <2>1, TypeAuth
  <2>3. /\ req' \in [Request -> RequestPhase \cup {"refreshing"}]
        /\ carries' \in [Request -> BOOLEAN]
        /\ brings' \in [Request -> Token \cup {NoToken}]
        /\ retried' \in [Request -> BOOLEAN]
        /\ \A r \in Request : req'[r] = IF r \in RequestsOf(t) THEN "idle" ELSE req[r]
    BY <2>1, TypeEnd
  <2>4. /\ refreshFor' \in [Tab -> Request \cup {NoRequest}]
        /\ refresh' \in [Tab -> RefreshPhase]
        /\ refreshWith' \in [Tab -> Token \cup {NoToken}]
        /\ \A v \in Tab : Refreshing(v)' <=> refresh'[v] # "none"
    BY <2>1
  <2>5. \A r \in Request : req'[r] = "refreshing" <=> refreshFor'[tabOf[r]] = r
    BY <2>1, <2>3 DEF RequestsOf
  <2> QED
    BY <2>1, <2>2, <2>3, <2>4, <2>5
<1> QED
  BY <1>1, <1>2, <1>3, <1>4 DEF RefreshStep

LEMMA TypeStep ==
    ASSUME TypeOK, [Next]_vars
    PROVE  TypeOK'
<1>1. ASSUME NEW t \in Tab, NEW k \in Token, Login(t, k)
      PROVE  TypeOK'
  <2>1. PICK r \in Me : /\ tabOf[r] = t
                        /\ req[r] = "idle"
                        /\ RequestsGo({r}, access[t] # "expired")
    BY <1>1 DEF Login
  <2>2. /\ row' = [row EXCEPT ![k] = "live"]
        /\ uses' = [uses EXCEPT ![k] = 0]
        /\ cookie' = k
        /\ UNCHANGED <<active, access, isAuthenticated, retried,
                       refreshFor, refresh, refreshWith>>
    BY <1>1 DEF Login, authVars, refreshVars
  <2>3. r \in Request /\ (access[t] # "expired") \in BOOLEAN
    BY MeAssumption
  <2>4. /\ req' \in [Request -> RequestPhase \cup {"refreshing"}]
        /\ carries' \in [Request -> BOOLEAN]
        /\ brings' \in [Request -> Token \cup {NoToken}]
        /\ \A q \in Request : req'[q] = IF q \in {r} THEN "sent" ELSE req[q]
    BY <2>1, <2>3, TypeGo
  <2> QED
    BY <2>1, <2>2, <2>3, <2>4 DEF TypeOK, Refreshing
<1>2. ASSUME NEW t \in Tab, AccessExpires(t)
      PROVE  TypeOK'
  BY <1>2 DEF TypeOK, AccessExpires, serverVars, refreshVars, Refreshing
<1>6. ASSUME NEW t \in Tab, Reload(t)
      PROVE  TypeOK'
  <2>1. /\ \E stored \in {access[u] : u \in Tab} : access' = [access EXCEPT ![t] = stored]
        /\ isAuthenticated' = [isAuthenticated EXCEPT ![t] = FALSE]
        /\ UNCHANGED <<active, row, uses, cookie>>
        /\ RequestsEnd(RequestsOf(t))
        /\ refreshFor' = [refreshFor EXCEPT ![t] = NoRequest]
        /\ refresh' = [refresh EXCEPT ![t] = "none"]
        /\ refreshWith' = [refreshWith EXCEPT ![t] = NoToken]
    BY <1>6 DEF Reload, RefreshOver, serverVars
  <2>2. /\ req' \in [Request -> RequestPhase \cup {"refreshing"}]
        /\ carries' \in [Request -> BOOLEAN]
        /\ brings' \in [Request -> Token \cup {NoToken}]
        /\ retried' \in [Request -> BOOLEAN]
        /\ \A r \in Request : req'[r] = IF r \in RequestsOf(t) THEN "idle" ELSE req[r]
    BY <2>1, TypeEnd
  <2>3. /\ access' \in [Tab -> {"none", "valid", "expired"}]
        /\ isAuthenticated' \in [Tab -> BOOLEAN]
        /\ \A v \in Tab : isAuthenticated'[v] => access'[v] # "none"
    BY <2>1 DEF TypeOK
  <2>4. /\ refreshFor' \in [Tab -> Request \cup {NoRequest}]
        /\ refresh' \in [Tab -> RefreshPhase]
        /\ refreshWith' \in [Tab -> Token \cup {NoToken}]
        /\ \A v \in Tab : Refreshing(v)' <=> refresh'[v] # "none"
    BY <2>1 DEF TypeOK, Refreshing, RefreshPhase
  <2>5. \A r \in Request : req'[r] = "refreshing" <=> refreshFor'[tabOf[r]] = r
    BY <2>1, <2>2, NoRequestAssumption, TabOfAssumption DEF TypeOK, RequestsOf
  <2>6. /\ active' \in BOOLEAN /\ cookie' \in Token \cup {NoToken}
        /\ row' \in [Token -> {"none", "live", "expired", "revoked"}]
        /\ uses' \in [Token -> Nat]
    BY <2>1 DEF TypeOK
  <2> QED
    BY <2>2, <2>3, <2>4, <2>5, <2>6, Zenon DEF TypeOK
<1>3. ASSUME NEW k \in Token, TokenExpires(k)
      PROVE  TypeOK'
  BY <1>3 DEF TypeOK, TokenExpires, authVars, requestVars, refreshVars, Refreshing
<1>4. CASE SetActive
  BY <1>4 DEF TypeOK, SetActive, authVars, requestVars, refreshVars, Refreshing
<1>5. CASE UNCHANGED vars
  BY <1>5 DEF TypeOK, vars, serverVars, authVars, requestVars, refreshVars, Refreshing
<1> QED
  BY <1>1, <1>2, <1>3, <1>4, <1>5, <1>6, TypeRequestStep, TypeRefreshStep DEF Next

THEOREM TypeCorrect == Spec => []TypeOK
<1>1. Init => TypeOK
  BY TypeInit
<1>2. TypeOK /\ [Next]_vars => TypeOK'
  BY TypeStep
<1> QED
  BY <1>1, <1>2, PTL DEF Spec

-----------------------------------------------------------------------------
(* No request is forgotten in failedQueue.                                 *)

LEMMA QueueStep ==
    ASSUME TypeOK, QueuedMeansRefreshing, [Next]_vars
    PROVE  QueuedMeansRefreshing'
<1> USE TabOfAssumption DEF TypeOK, QueuedMeansRefreshing, Refreshing
<1>1. ASSUME NEW r \in Request, SendRequest(r)
      PROVE  QueuedMeansRefreshing'
  BY <1>1 DEF SendRequest, RequestsGo, refreshVars
<1>2. ASSUME NEW r \in Request, RequestSucceeds(r) \/ RequestFails(r)
      PROVE  QueuedMeansRefreshing'
  BY <1>2, TypeEnd DEF RequestSucceeds, RequestFails, refreshVars
<1>3. ASSUME NEW r \in Request, RequestQueued(r)
      PROVE  QueuedMeansRefreshing'
  BY <1>3 DEF RequestQueued, refreshVars
<1>4. ASSUME NEW r \in Request, RefreshStarts(r)
      PROVE  QueuedMeansRefreshing'
  BY <1>4, NoRequestAssumption DEF RefreshStarts
<1>5. ASSUME NEW t \in Tab, RefreshLooksUp(t) \/ RefreshCommits(t)
      PROVE  QueuedMeansRefreshing'
  BY <1>5 DEF RefreshLooksUp, RefreshCommits, requestVars
<1>6. ASSUME NEW t \in Tab, RefreshSucceeds(t)
      PROVE  QueuedMeansRefreshing'
  BY <1>6 DEF RefreshSucceeds, RequestsGo, RefreshOver, RequestsOf
<1>7. ASSUME NEW t \in Tab, RefreshFails(t) \/ Reload(t)
      PROVE  QueuedMeansRefreshing'
  BY <1>7, TypeEnd DEF RefreshFails, Reload, RefreshOver, RequestsOf
<1>9. ASSUME NEW t \in Tab, NEW k \in Token, Login(t, k)
      PROVE  QueuedMeansRefreshing'
  BY <1>9 DEF Login, RequestsGo, refreshVars
<1>8. CASE UNCHANGED <<req, refreshFor>>
  BY <1>8
<1> QED
  BY <1>1, <1>2, <1>3, <1>4, <1>5, <1>6, <1>7, <1>8, <1>9
     DEF Next, RequestAnswered, RefreshStep, AccessExpires, TokenExpires,
         SetActive, vars, requestVars, refreshVars

(* A request that waits for another's refresh always has one to wait for.  *)
THEOREM NoRequestForgotten == Spec => []QueuedMeansRefreshing
<1>1. Init => TypeOK /\ QueuedMeansRefreshing
  BY TypeInit DEF Init, QueuedMeansRefreshing
<1>2. (TypeOK /\ QueuedMeansRefreshing) /\ [Next]_vars
          => (TypeOK /\ QueuedMeansRefreshing)'
  BY TypeStep, QueueStep
<1> QED
  BY <1>1, <1>2, PTL DEF Spec

-----------------------------------------------------------------------------
(* The uses of a refresh token.  While its row is live it has not been     *)
(* used; once it is not, no further select of it succeeds.                 *)

Finding(k) == {t \in Tab : refresh[t] = "found" /\ refreshWith[t] = k}

UsesOK ==
    /\ \A k \in Token : row[k] = "live" => uses[k] = 0
    /\ \A t \in Tab : refresh[t] = "found" => refreshWith[t] \in Token
    /\ UsesBounded

LEMMA FindingFinite ==
    ASSUME NEW k
    PROVE  /\ IsFiniteSet(Finding(k))
           /\ Cardinality(Finding(k)) \in Nat
           /\ Cardinality(Finding(k)) <= Cardinality(Tab)
           /\ Cardinality(Tab) \in Nat
BY TabAssumption, FS_Subset, FS_CardinalityType DEF Finding

\* Steps that use no token and find none.
LEMMA UsesFrame ==
    ASSUME TypeOK, UsesOK, uses' = uses,
           \A k \in Token : row'[k] = "live" => row[k] = "live",
           \A t \in Tab : refresh'[t] = "found" => refresh[t] = "found",
           \A t \in Tab : refresh'[t] = "found" => refreshWith'[t] = refreshWith[t]
    PROVE  UsesOK'
<1>1. ASSUME NEW k \in Token
      PROVE  uses'[k] + Cardinality(Finding(k)') <= Cardinality(Tab)
  <2>1. Finding(k)' \subseteq Finding(k)
    BY DEF Finding
  <2>2. /\ Cardinality(Finding(k)') <= Cardinality(Finding(k))
        /\ Cardinality(Finding(k)') \in Nat
    BY <2>1, FindingFinite, FS_Subset, FS_CardinalityType
  <2>3. uses[k] + Cardinality(Finding(k)) <= Cardinality(Tab) /\ uses[k] \in Nat
    BY DEF UsesOK, UsesBounded, PendingUses, Finding, TypeOK
  <2> QED
    BY <2>2, <2>3, FindingFinite
<1> QED
  BY <1>1 DEF UsesOK, UsesBounded, PendingUses, Finding

LEMMA UsesStep ==
    ASSUME TypeOK, UsesOK, [Next]_vars
    PROVE  UsesOK'
<1>1. ASSUME NEW t \in Tab, NEW n \in Token, Login(t, n)
      PROVE  UsesOK'
  <2>1. /\ row' = [row EXCEPT ![n] = "live"]
        /\ uses' = [uses EXCEPT ![n] = 0]
        /\ UNCHANGED <<refresh, refreshWith>>
        /\ \A u \in Tab : refreshWith[u] # n
    BY <1>1 DEF Login, Fresh, refreshVars
  <2>2. Finding(n)' = {} /\ \A k : Finding(k)' = Finding(k)
    BY <2>1 DEF Finding
  <2>3. ASSUME NEW k \in Token
        PROVE  uses'[k] + Cardinality(Finding(k)') <= Cardinality(Tab)
    <3>1. uses[k] + Cardinality(Finding(k)) <= Cardinality(Tab)
      BY DEF UsesOK, UsesBounded, PendingUses, Finding
    <3>2. CASE k = n
      BY <2>1, <2>2, <3>2, FindingFinite DEF TypeOK
    <3>3. CASE k # n
      BY <2>1, <2>2, <3>1, <3>3 DEF TypeOK
    <3> QED
      BY <3>2, <3>3
  <2> QED
    BY <2>1, <2>3 DEF UsesOK, UsesBounded, PendingUses, Finding, TypeOK
<1>2. ASSUME NEW t \in Tab, RefreshLooksUp(t)
      PROVE  UsesOK'
  <2>1. UNCHANGED <<row, uses>>
    BY <1>2 DEF RefreshLooksUp, serverVars
  <2>2. CASE Good(refreshWith[t]) /\ active
    <3>n. PICK n \in Token : n = refreshWith[t]
      BY <2>2 DEF Good, TypeOK
    <3>0. refresh' = [refresh EXCEPT ![t] = "found"] /\ refreshWith' = refreshWith
      BY <1>2, <2>2 DEF RefreshLooksUp
    <3>1. row[n] = "live" /\ uses[n] = 0
      BY <2>2, <3>n DEF Good, TypeOK, UsesOK
    <3>2. \A k \in Token \ {n} : Finding(k)' = Finding(k)
      BY <3>n, <3>0 DEF Finding, TypeOK
    <3>3. Cardinality(Finding(n)') <= Cardinality(Tab) /\ Cardinality(Finding(n)') \in Nat
      BY TabAssumption, FS_Subset, FS_CardinalityType DEF Finding
    <3>4. ASSUME NEW k \in Token
          PROVE  uses'[k] + Cardinality(Finding(k)') <= Cardinality(Tab)
      <4>1. CASE k = n
        BY <2>1, <3>1, <3>3, <4>1, FindingFinite
      <4>2. CASE k # n
        BY <2>1, <3>2, <4>2 DEF UsesOK, UsesBounded, PendingUses, Finding
      <4> QED
        BY <4>1, <4>2
    <3> QED
      BY <2>1, <3>n, <3>0, <3>1, <3>4 DEF UsesOK, UsesBounded, PendingUses, Finding, TypeOK
  <2>3. CASE ~(Good(refreshWith[t]) /\ active)
    <3>1. /\ refresh' = [refresh EXCEPT ![t] = "refused"]
          /\ refreshWith' = [refreshWith EXCEPT ![t] = NoToken]
      BY <1>2, <2>3 DEF RefreshLooksUp, Answer
    <3> QED
      BY <2>1, <3>1, UsesFrame DEF TypeOK
  <2> QED
    BY <2>2, <2>3
<1>3. ASSUME NEW t \in Tab, RefreshCommits(t)
      PROVE  UsesOK'
  <2>n. PICK n \in Token : n = refreshWith[t]
    BY <1>3 DEF RefreshCommits, UsesOK
  <2>1. /\ refresh[t] = "found"
        /\ row' = [row EXCEPT ![n] = "revoked"]
        /\ uses' = [uses EXCEPT ![n] = @ + 1]
        /\ refresh' = [refresh EXCEPT ![t] = "granted"]
        /\ refreshWith' = [refreshWith EXCEPT ![t] = NoToken]
    BY <1>3, <2>n DEF RefreshCommits, Answer
  <2>2. t \in Finding(n)
    BY <2>1, <2>n DEF Finding
  <2>3. Finding(n)' = Finding(n) \ {t} /\ \A k \in Token \ {n} : Finding(k)' = Finding(k)
    BY <2>1, <2>n, NoTokenAssumption DEF Finding, TypeOK
  <2>4. Cardinality(Finding(n)') = Cardinality(Finding(n)) - 1
    BY <2>2, <2>3, FindingFinite, FS_RemoveElement
  <2>5. ASSUME NEW k \in Token
        PROVE  uses'[k] + Cardinality(Finding(k)') <= Cardinality(Tab)
    <3>1. uses[k] + Cardinality(Finding(k)) <= Cardinality(Tab) /\ uses[k] \in Nat
      BY DEF UsesOK, UsesBounded, PendingUses, Finding, TypeOK
    <3>2. CASE k = n
      BY <2>1, <2>4, <3>1, <3>2, FindingFinite DEF TypeOK
    <3>3. CASE k # n
      BY <2>1, <2>3, <3>1, <3>3 DEF TypeOK
    <3> QED
      BY <3>2, <3>3
  <2> QED
    BY <2>1, <2>2, <2>5 DEF UsesOK, UsesBounded, PendingUses, Finding, TypeOK
<1>4. ASSUME NEW r \in Request, RequestSucceeds(r) \/ RequestFails(r)
      PROVE  UsesOK'
  <2>1. UNCHANGED <<uses, refresh, refreshWith>> /\ row' \in {row, RevokeBrought(r)}
    BY <1>4 DEF RequestSucceeds, RequestFails, refreshVars
  <2>2. \A k \in Token : RevokeBrought(r)[k] = "live" => row[k] = "live"
    BY DEF RevokeBrought
  <2> QED
    BY <2>1, <2>2, UsesFrame
<1>5. ASSUME NEW r \in Request, RefreshStarts(r)
      PROVE  UsesOK'
  BY <1>5, UsesFrame, TabOfAssumption DEF RefreshStarts, Unauthorized, serverVars, TypeOK,
                         Refreshing
<1>6. ASSUME NEW t \in Tab, RefreshSucceeds(t) \/ RefreshFails(t) \/ Reload(t)
      PROVE  UsesOK'
  <2>1. /\ UNCHANGED <<row, uses>>
        /\ refresh' = [refresh EXCEPT ![t] = "none"]
        /\ refreshWith' = [refreshWith EXCEPT ![t] = NoToken]
    BY <1>6 DEF RefreshSucceeds, RefreshFails, Reload, RefreshOver, serverVars
  <2> QED
    BY <2>1, UsesFrame DEF TypeOK
<1>7. ASSUME NEW k \in Token, TokenExpires(k)
      PROVE  UsesOK'
  BY <1>7, UsesFrame DEF TokenExpires, refreshVars, TypeOK
<1>8. CASE UNCHANGED <<row, uses, refresh, refreshWith>>
  BY <1>8, UsesFrame
<1> QED
  BY <1>1, <1>2, <1>3, <1>4, <1>5, <1>6, <1>7, <1>8
     DEF Next, RequestAnswered, RefreshStep, SendRequest, RequestQueued, AccessExpires, SetActive, vars, serverVars, refreshVars

(* refresh() does not lock the row it selects, so the tabs of a browser    *)
(* may each use the same refresh token, once each and no more.             *)
THEOREM UsesAreBounded == Spec => []UsesBounded
<1>1. Init => TypeOK /\ UsesOK
  <2> SUFFICES ASSUME Init
               PROVE  TypeOK /\ UsesOK
    OBVIOUS
  <2>1. TypeOK
    BY TypeInit
  <2>2. \A k \in Token : Finding(k) = {} /\ uses[k] = 0
    BY DEF Init, Finding
  <2>3. \A k \in Token : PendingUses(k) = 0
    BY <2>2, FS_EmptySet DEF PendingUses, Finding
  <2>4. UsesBounded
    BY <2>2, <2>3, FindingFinite DEF UsesBounded
  <2> QED
    BY <2>1, <2>2, <2>4 DEF UsesOK, Init
<1>2. (TypeOK /\ UsesOK) /\ [Next]_vars => (TypeOK /\ UsesOK)'
  BY TypeStep, UsesStep
<1>3. UsesOK => UsesBounded
  BY DEF UsesOK
<1> QED
  BY <1>1, <1>2, <1>3, PTL DEF Spec

-----------------------------------------------------------------------------
(* Accounts.                                                               *)

LEMMA SuperadminMayWrite == CheckPermission("superadmin", "user:write")
<1>1. "superadmin" \in Role /\ ROLE_LEVELS["superadmin"] = 3
  BY DEF Role, ROLE_LEVELS
<1>2. "superadmin" \in PERMISSIONS["user:write"]
  <2>1. /\ "user:write" \in ForSuperadmins
        /\ "user:write" \notin ForAll \cup ForHelpdesk \cup ForAdmins
    BY DEF ForAll, ForHelpdesk, ForAdmins, ForSuperadmins
  <2> QED
    BY <2>1 DEF PERMISSIONS
<1>3. HasRole("superadmin", "superadmin")
  BY <1>1 DEF HasRole
<1> QED
  BY <1>2, <1>3 DEF CheckPermission

(* What a worker serves, and what it read if it is an update.              *)
PossibleCalls ==
    [by : Id, kind : {"create"}, target : {NoAccount}, change : Created]
    \cup [by : Id, kind : {"update"}, target : Id, change : Change]
    \cup {r \in [by : Id, kind : {"delete"}, target : Id, change : {NoAccount}] : r.by # r.target}

CallsOK ==
    /\ request \in [Worker -> PossibleCalls \cup {NoCall}]
    /\ \A w \in Worker : pc[w] = "loaded" /\ request[w].kind = "update" => loaded[w] \in Row

(* The rules are only added by workers that found none.                    *)
Seeding == {w \in Worker : pc[w] = "seeding"}
SeedingOK == ruleSets + Cardinality(Seeding) <= Cardinality(Worker)

(* Without a cause there is a superadmin, or no account at all and no      *)
(* worker past the step that makes one.                                    *)
EarlyPhase == {"down", "tables", "creating", "admin", "adding"}
AdminOK ==
    cause = {} =>
       \/ \E i \in Id : Superadmin(i)
       \/ Live = {} /\ \A w \in Worker : pc[w] \in EarlyPhase

AccountsInv == AccountsTypeOK /\ CallsOK /\ SeedingOK /\ AdminOK

LEMMA AccountsInitInv == AccountsInit => AccountsInv
<1> SUFFICES ASSUME AccountsInit
             PROVE  AccountsInv
  OBVIOUS
<1>1. Seeding = {} /\ Cardinality(Seeding) = 0
  BY FS_EmptySet DEF AccountsInit, Seeding
<1>2. Cardinality(Worker) \in Nat
  BY AdministrationAssumption, FS_CardinalityType
<1>3. AccountsTypeOK
  <2>1. Live = {} /\ \A w \in Worker : request[w] = NoCall /\ pc[w] = "down"
    BY DEF AccountsInit, Live
  <2>2. 0 \in 0 .. Cardinality(Worker) /\ 0 \in 0 .. MaxCrashes
    BY <1>2, AdministrationAssumption
  <2> QED
    BY <2>1, <2>2 DEF AccountsInit, AccountsTypeOK, Starting
<1>4. CallsOK
  BY DEF AccountsInit, CallsOK
<1>5. SeedingOK
  BY <1>1, <1>2 DEF AccountsInit, SeedingOK
<1>6. AdminOK
  BY DEF AccountsInit, AdminOK, EarlyPhase, Live
<1> QED
  BY <1>3, <1>4, <1>5, <1>6 DEF AccountsInv

(* A worker moves and nobody's requests change.                            *)
LEMMA StepMoves ==
    ASSUME AccountsTypeOK, NEW w \in Worker, NEW from \in Starting,
           NEW to \in Starting \cup {"ready"}, Step(w, from, to)
    PROVE  /\ pc[w] = from /\ pc'[w] = to /\ \A v \in Worker \ {w} : pc'[v] = pc[v]
           /\ pc' \in [Worker -> Starting \cup {"ready", "allowed", "loaded"}]
           /\ \A v \in Worker : pc'[v] \in {"allowed", "loaded"} <=> pc[v] \in {"allowed", "loaded"}
           /\ request' = request /\ loaded' = loaded /\ crashes' = crashes /\ cause' = cause
BY DEF AccountsTypeOK, Step, Starting

(* The count of those that are about to add the rules.                     *)
LEMMA SeedingCount ==
    ASSUME NEW w \in Worker, \A v \in Worker \ {w} : pc'[v] = pc[v]
    PROVE  /\ Cardinality(Seeding) \in Nat /\ Cardinality(Seeding') \in Nat
           /\ Cardinality(Worker) \in Nat /\ Cardinality(Seeding') <= Cardinality(Worker)
           /\ pc'[w] # "seeding" => Cardinality(Seeding') <= Cardinality(Seeding)
           /\ pc[w] = "seeding" /\ pc'[w] # "seeding" =>
                 Cardinality(Seeding') + 1 = Cardinality(Seeding)
<1>1. IsFiniteSet(Seeding) /\ IsFiniteSet(Seeding') /\ IsFiniteSet(Worker)
      /\ Seeding \subseteq Worker /\ Seeding' \subseteq Worker
  <2>1. Seeding \subseteq Worker /\ Seeding' \subseteq Worker
    BY DEF Seeding
  <2> QED
    BY <2>1, AdministrationAssumption, FS_Subset
<1>2. /\ Cardinality(Seeding) \in Nat /\ Cardinality(Seeding') \in Nat
      /\ Cardinality(Worker) \in Nat /\ Cardinality(Seeding') <= Cardinality(Worker)
  BY <1>1, FS_CardinalityType, FS_Subset
<1>3. ASSUME pc'[w] # "seeding"
      PROVE  Cardinality(Seeding') <= Cardinality(Seeding)
  <2>1. Seeding' \subseteq Seeding
    BY <1>3 DEF Seeding
  <2> QED
    BY <1>1, <2>1, FS_Subset
<1>4. ASSUME pc[w] = "seeding", pc'[w] # "seeding"
      PROVE  Cardinality(Seeding') + 1 = Cardinality(Seeding)
  <2>1. w \in Seeding /\ Seeding' = Seeding \ {w}
    BY <1>4 DEF Seeding
  <2>2. Cardinality(Seeding') = Cardinality(Seeding) - 1
    BY <1>1, <2>1, FS_RemoveElement
  <2> QED
    BY <1>2, <2>2
<1> QED
  BY <1>2, <1>3, <1>4

(* A new row takes an identifier nobody has: the others stay what they     *)
(* are.                                                                    *)
LEMMA InsertKeeps ==
    ASSUME AccountsTypeOK, NEW acct \in Row, Insert(acct), ~Has(acct.email)
    PROVE  /\ account' \in [Id -> Row \cup {NoAccount}]
           /\ \E n \in Id : account'[n] = acct /\ n \in Live'
           /\ \A i, j \in Live' : account'[i].email = account'[j].email => i = j
           /\ \A i \in Id : Superadmin(i) => Superadmin(i)'
<1>1. PICK n \in FreshIds : account' = [account EXCEPT ![n] = acct]
  BY DEF Insert
<1>2. n \in Id /\ n \notin Live
  BY DEF FreshIds
<1>3. /\ account' \in [Id -> Row \cup {NoAccount}]
      /\ account'[n] = acct /\ \A i \in Id \ {n} : account'[i] = account[i]
  BY <1>1, <1>2 DEF AccountsTypeOK
<1>4. Live' = Live \cup {n}
  BY <1>2, <1>3, NoAccountAssumption DEF Live
<1>5. \A i, j \in Live' : account'[i].email = account'[j].email => i = j
  BY <1>2, <1>3, <1>4 DEF AccountsTypeOK, Live, Has
<1>6. \A i \in Id : Superadmin(i) => Superadmin(i)'
  BY <1>2, <1>3, <1>4 DEF Superadmin
<1> QED
  BY <1>2, <1>3, <1>4, <1>5, <1>6

LEMMA HasInsertsAdmin ==
    ASSUME AccountsTypeOK,
           Insert([email |-> InitialAdmin, role |-> "superadmin", active |-> TRUE]),
           ~Has(InitialAdmin)
    PROVE  /\ account' \in [Id -> Row \cup {NoAccount}]
           /\ \A i, j \in Live' : account'[i].email = account'[j].email => i = j
           /\ \E i \in Id : Superadmin(i)'
<1> DEFINE acct == [email |-> InitialAdmin, role |-> "superadmin", active |-> TRUE]
<1>1. acct \in Row /\ acct.email = InitialAdmin /\ acct.active /\ acct.role = "superadmin"
  BY AdministrationAssumption DEF Row, Role, ROLE_LEVELS
<1> HIDE DEF acct
<1>2. Insert(acct) /\ ~Has(acct.email)
  BY <1>1 DEF acct
<1>3. /\ account' \in [Id -> Row \cup {NoAccount}]
      /\ \E n \in Id : account'[n] = acct /\ n \in Live'
      /\ \A i, j \in Live' : account'[i].email = account'[j].email => i = j
  BY <1>1, <1>2, InsertKeeps
<1>4. PICK n \in Id : account'[n] = acct /\ n \in Live'
  BY <1>3
<1>5. Superadmin(n)'
  BY <1>1, <1>4, SuperadminMayWrite DEF Superadmin
<1> QED
  BY <1>3, <1>5

LEMMA StartsInv ==
    ASSUME AccountsInv, NEW w \in Worker, Starts(w)
    PROVE  AccountsInv'
<1> USE DEF AccountsInv
<1>1. ASSUME NEW from \in Starting, NEW to \in Starting \cup {"ready"}, Step(w, from, to),
             tables' \in BOOLEAN, UNCHANGED account,
             \/ ruleSets' = ruleSets /\ (to = "ready" => ruleSets > 0) /\ to # "seeding"
             \/ ruleSets = 0 /\ ruleSets' = 0 /\ to = "seeding"
             \/ ruleSets' = ruleSets + 1 /\ from = "seeding" /\ to = "ready",
             to \in EarlyPhase \/ from \notin EarlyPhase \/ Live # {}
      PROVE  AccountsInv'
  <2>1. /\ pc[w] = from /\ pc'[w] = to /\ \A v \in Worker \ {w} : pc'[v] = pc[v]
        /\ pc' \in [Worker -> Starting \cup {"ready", "allowed", "loaded"}]
        /\ \A v \in Worker : pc'[v] \in {"allowed", "loaded"} <=> pc[v] \in {"allowed", "loaded"}
        /\ request' = request /\ loaded' = loaded /\ crashes' = crashes /\ cause' = cause
    BY <1>1, StepMoves
  <2>2. Live' = Live /\ \A i \in Id : Superadmin(i)' <=> Superadmin(i)
    BY <1>1 DEF Live, Superadmin
  <2>3. ruleSets \in Nat /\ SeedingOK'
    <3>1. ruleSets \in Nat
      BY DEF AccountsTypeOK
    <3> QED
      BY <1>1, <2>1, <3>1, SeedingCount DEF SeedingOK
  <2>4. ruleSets' \in 0 .. Cardinality(Worker)
    BY <1>1, <2>1, <2>3, SeedingCount DEF SeedingOK
  <2>5. AccountsTypeOK'
    <3>1. \A v \in Worker : pc'[v] \notin Starting => ruleSets' > 0
      BY <1>1, <2>1, <2>3 DEF AccountsTypeOK
    <3> QED
      BY <1>1, <2>1, <2>2, <2>4, <3>1 DEF AccountsTypeOK
  <2>6. CallsOK'
    BY <2>1 DEF CallsOK, Starting
  <2>7. AdminOK'
    BY <1>1, <2>1, <2>2 DEF AdminOK
  <2> QED
    BY <2>3, <2>5, <2>6, <2>7
<1>2. CASE Spawn(w)
  BY <1>1, <1>2 DEF Spawn, database, Starting, EarlyPhase, AccountsTypeOK
<1>3. CASE InspectTables(w)
  BY <1>1, <1>3 DEF InspectTables, database, Starting, EarlyPhase, AccountsTypeOK
<1>4. CASE CreateTables(w)
  BY <1>1, <1>4 DEF CreateTables, Starting, EarlyPhase, AccountsTypeOK
<1>5. CASE SelectAdmin(w)
  <2>1. Has(InitialAdmin) => Live # {}
    BY DEF Has
  <2> QED
    BY <1>1, <1>5, <2>1 DEF SelectAdmin, database, Starting, EarlyPhase, AccountsTypeOK
<1>6. CASE InsertAdmin(w)
  <2>1. CASE Has(InitialAdmin)
    BY <1>1, <1>6, <2>1 DEF InsertAdmin, Starting, EarlyPhase, AccountsTypeOK
  <2>2. CASE ~Has(InitialAdmin)
    <3>1. /\ Step(w, "adding", "rules") /\ UNCHANGED <<tables, ruleSets>>
          /\ Insert([email |-> InitialAdmin, role |-> "superadmin", active |-> TRUE])
      BY <1>6, <2>2 DEF InsertAdmin
    <3>2. /\ pc[w] = "adding" /\ pc'[w] = "rules" /\ \A v \in Worker \ {w} : pc'[v] = pc[v]
          /\ pc' \in [Worker -> Starting \cup {"ready", "allowed", "loaded"}]
          /\ \A v \in Worker : pc'[v] \in {"allowed", "loaded"} <=> pc[v] \in {"allowed", "loaded"}
          /\ request' = request /\ loaded' = loaded /\ crashes' = crashes /\ cause' = cause
      BY <3>1, StepMoves DEF Starting
    <3>3. /\ account' \in [Id -> Row \cup {NoAccount}]
          /\ \A i, j \in Live' : account'[i].email = account'[j].email => i = j
          /\ \E i \in Id : Superadmin(i)'
      BY <2>2, <3>1, HasInsertsAdmin
    <3>4. SeedingOK'
      BY <3>1, <3>2, SeedingCount DEF SeedingOK, AccountsTypeOK
    <3>5. AccountsTypeOK'
      BY <3>1, <3>2, <3>3 DEF AccountsTypeOK, Starting
    <3>6. CallsOK'
      BY <3>2 DEF CallsOK
    <3> QED
      BY <3>3, <3>4, <3>5, <3>6 DEF AdminOK
  <2> QED
    BY <2>1, <2>2
<1>7. CASE SelectRules(w)
  BY <1>1, <1>7 DEF SelectRules, database, Starting, EarlyPhase, AccountsTypeOK
<1>8. CASE InsertRules(w)
  BY <1>1, <1>8 DEF InsertRules, Starting, EarlyPhase, AccountsTypeOK
<1> QED
  BY <1>2, <1>3, <1>4, <1>5, <1>6, <1>7, <1>8 DEF Starts

(* A worker that serves goes on serving; only accounts may change, and not *)
(* so that a superadmin is lost without a cause.                           *)
LEMMA ServingInv ==
    ASSUME AccountsInv, NEW w \in Worker, NEW to \in {"ready", "allowed", "loaded"},
           NEW call \in PossibleCalls \cup {NoCall}, NEW acct \in Row \cup {NoAccount},
           pc[w] \in {"ready", "allowed", "loaded"},
           pc' = [pc EXCEPT ![w] = to],
           request' = [request EXCEPT ![w] = call],
           loaded' = [loaded EXCEPT ![w] = acct],
           to = "ready" <=> call = NoCall,
           to = "loaded" /\ call.kind = "update" => acct \in Row,
           UNCHANGED <<tables, ruleSets, crashes>>,
           account' \in [Id -> Row \cup {NoAccount}],
           \A i, j \in Live' : account'[i].email = account'[j].email => i = j,
           cause' \subseteq {"demoted", "outlived"}, cause \subseteq cause',
           cause' # {} \/ \E i \in Id : Superadmin(i)'
    PROVE  AccountsInv'
<1> USE DEF AccountsInv
<1>1. /\ pc'[w] = to /\ \A v \in Worker \ {w} : pc'[v] = pc[v]
      /\ request'[w] = call /\ \A v \in Worker \ {w} : request'[v] = request[v]
      /\ loaded'[w] = acct /\ \A v \in Worker \ {w} : loaded'[v] = loaded[v]
      /\ pc' \in [Worker -> Starting \cup {"ready", "allowed", "loaded"}]
      /\ request' \in [Worker -> PossibleCalls \cup {NoCall}]
      /\ loaded' \in [Worker -> Row \cup {NoAccount}]
  BY DEF AccountsTypeOK, CallsOK
<1>2. SeedingOK'
  BY <1>1, SeedingCount DEF SeedingOK, AccountsTypeOK
<1>3. AccountsTypeOK'
  <2>1. \A v \in Worker :
           /\ pc'[v] \in {"allowed", "loaded"} <=> request'[v] # NoCall
           /\ pc'[v] \notin Starting => ruleSets' > 0
    BY <1>1 DEF AccountsTypeOK, Starting
  <2> QED
    BY <1>1, <2>1 DEF AccountsTypeOK
<1>4. CallsOK'
  BY <1>1 DEF CallsOK
<1>5. AdminOK'
  BY DEF AdminOK
<1> QED
  BY <1>2, <1>3, <1>4, <1>5

(* What a step that leaves the accounts alone keeps of them.               *)
LEMMA AccountsKept ==
    ASSUME AccountsInv, UNCHANGED <<account, cause>>,
           NEW w \in Worker, pc[w] \in {"ready", "allowed", "loaded"}
    PROVE  /\ account' \in [Id -> Row \cup {NoAccount}]
           /\ \A i, j \in Live' : account'[i].email = account'[j].email => i = j
           /\ cause' \subseteq {"demoted", "outlived"} /\ cause \subseteq cause'
           /\ cause' # {} \/ \E i \in Id : Superadmin(i)'
<1>1. Live' = Live /\ \A i \in Id : Superadmin(i)' <=> Superadmin(i)
  BY DEF Live, Superadmin
<1>2. cause # {} \/ \E i \in Id : Superadmin(i)
  BY DEF AccountsInv, AdminOK, EarlyPhase
<1> QED
  BY <1>1, <1>2 DEF AccountsInv, AccountsTypeOK

LEMMA AllowInv ==
    ASSUME AccountsInv, NEW w \in Worker, NEW r \in Calls, Allow(w, r)
    PROVE  AccountsInv'
<1>1. r \in PossibleCalls /\ r # NoCall
  BY DEF Calls, PossibleCalls, NoCall, Live
<1>2. /\ pc[w] = "ready" /\ pc' = [pc EXCEPT ![w] = "allowed"]
      /\ request' = [request EXCEPT ![w] = r] /\ loaded' = loaded
      /\ UNCHANGED <<tables, account, ruleSets, crashes, cause>>
  BY DEF Allow, database
<1>3. loaded[w] \in Row \cup {NoAccount} /\ loaded' = [loaded EXCEPT ![w] = loaded[w]]
  BY <1>2 DEF AccountsInv, AccountsTypeOK
<1> QED
  BY <1>1, <1>2, <1>3, AccountsKept, ServingInv

LEMMA LoadInv ==
    ASSUME AccountsInv, NEW w \in Worker, Load(w)
    PROVE  AccountsInv'
<1> DEFINE r == request[w]
<1>1. /\ pc[w] = "allowed" /\ UNCHANGED <<tables, account, ruleSets, crashes, cause>>
      /\ r \in PossibleCalls /\ r # NoCall
  BY DEF Load, database, AccountsInv, AccountsTypeOK, CallsOK
<1>2. CASE IF r.kind = "create" THEN Has(r.change.email) ELSE r.target \notin Live
  <2>1. /\ pc' = [pc EXCEPT ![w] = "ready"] /\ request' = [request EXCEPT ![w] = NoCall]
        /\ loaded' = [loaded EXCEPT ![w] = loaded[w]]
        /\ loaded[w] \in Row \cup {NoAccount}
    BY <1>2 DEF Load, AccountsInv, AccountsTypeOK
  <2> QED
    BY <1>1, <2>1, AccountsKept, ServingInv
<1>3. CASE ~(IF r.kind = "create" THEN Has(r.change.email) ELSE r.target \notin Live)
  <2> DEFINE acct == IF r.kind = "create" THEN NoAccount ELSE account[r.target]
  <2>1. /\ pc' = [pc EXCEPT ![w] = "loaded"] /\ request' = [request EXCEPT ![w] = r]
        /\ loaded' = [loaded EXCEPT ![w] = acct]
    BY <1>3 DEF Load, AccountsInv, CallsOK
  <2>2. acct \in Row \cup {NoAccount} /\ (r.kind = "update" => acct \in Row)
    BY <1>1, <1>3 DEF AccountsInv, AccountsTypeOK, Live
  <2> HIDE DEF r, acct
  <2> QED
    BY <1>1, <2>1, <2>2, AccountsKept, ServingInv
<1> QED
  BY <1>2, <1>3

LEMMA EndsFacts ==
    ASSUME AccountsInv, NEW w \in Worker, NEW kind, Ends(w, kind)
    PROVE  /\ pc[w] = "loaded" /\ pc' = [pc EXCEPT ![w] = "ready"]
           /\ request' = [request EXCEPT ![w] = NoCall]
           /\ loaded' = [loaded EXCEPT ![w] = NoAccount]
           /\ UNCHANGED <<tables, ruleSets, crashes>>
           /\ request[w].kind = kind /\ request[w] \in PossibleCalls
           /\ cause # {} \/ \E i \in Id : Superadmin(i)
<1>1. request[w] \in PossibleCalls
  BY DEF Ends, AccountsInv, AccountsTypeOK, CallsOK
<1>2. cause # {} \/ \E i \in Id : Superadmin(i)
  BY DEF Ends, AccountsInv, AdminOK, EarlyPhase
<1> QED
  BY <1>1, <1>2 DEF Ends

(* A commit that ends a request keeps the invariant if it keeps the        *)
(* accounts' types, emails and, unless there is a cause, a superadmin.     *)
LEMMA EndsInv ==
    ASSUME AccountsInv, NEW w \in Worker, NEW kind, Ends(w, kind),
           account' \in [Id -> Row \cup {NoAccount}],
           \A i, j \in Live' : account'[i].email = account'[j].email => i = j,
           cause' \subseteq {"demoted", "outlived"}, cause \subseteq cause',
           cause' # {} \/ \E i \in Id : Superadmin(i)'
    PROVE  AccountsInv'
<1>1. /\ pc[w] = "loaded" /\ pc' = [pc EXCEPT ![w] = "ready"]
      /\ request' = [request EXCEPT ![w] = NoCall]
      /\ loaded' = [loaded EXCEPT ![w] = NoAccount]
      /\ UNCHANGED <<tables, ruleSets, crashes>>
  BY EndsFacts
<1> QED
  BY <1>1, ServingInv

LEMMA CommitCreateInv ==
    ASSUME AccountsInv, NEW w \in Worker, CommitCreate(w)
    PROVE  AccountsInv'
<1> DEFINE c == request[w].change
           acct == [email |-> c.email, role |-> c.role, active |-> TRUE]
<1>1. /\ Ends(w, "create") /\ cause' = cause
      /\ IF Has(c.email) THEN UNCHANGED account ELSE Insert(acct)
  BY DEF CommitCreate
<1>2. /\ pc[w] = "loaded" /\ request[w].kind = "create" /\ request[w] \in PossibleCalls
      /\ cause # {} \/ \E i \in Id : Superadmin(i)
  BY <1>1, EndsFacts
<1>3. cause' \subseteq {"demoted", "outlived"} /\ cause \subseteq cause'
  BY <1>1 DEF AccountsInv, AccountsTypeOK
<1>4. CASE Has(c.email)
  <2>1. UNCHANGED <<account, cause>>
    BY <1>1, <1>4
  <2> QED
    BY <1>1, <1>2, <2>1, AccountsKept, EndsInv
<1>5. CASE ~Has(c.email)
  <2>1. c \in Created
    BY <1>2 DEF PossibleCalls
  <2>2. acct \in Row /\ acct.email = c.email
    BY <2>1, AdministrationAssumption DEF Row, GivenRole
  <2> HIDE DEF acct
  <2>3. Insert(acct) /\ ~Has(acct.email)
    BY <1>1, <1>5, <2>2
  <2>4. /\ account' \in [Id -> Row \cup {NoAccount}]
        /\ \A i, j \in Live' : account'[i].email = account'[j].email => i = j
        /\ \A i \in Id : Superadmin(i) => Superadmin(i)'
    BY <2>2, <2>3, InsertKeeps DEF AccountsInv
  <2>5. cause' # {} \/ \E i \in Id : Superadmin(i)'
    BY <1>1, <1>2, <2>4, SMTT(60)
  <2> QED
    BY <1>1, <1>3, <2>4, <2>5, EndsInv
<1> QED
  BY <1>4, <1>5

LEMMA CommitUpdateInv ==
    ASSUME AccountsInv, NEW w \in Worker, CommitUpdate(w)
    PROVE  AccountsInv'
<1> DEFINE r == request[w]
           t == r.target
           role == Written(account[t].role, loaded[w].role, r.change.role)
           enabled == Written(account[t].active, loaded[w].active, r.change.active)
           acct == [account[t] EXCEPT !.role = role, !.active = enabled]
<1>1. /\ Ends(w, "update")
      /\ account' = IF t \notin Live THEN account
                    ELSE [account EXCEPT
                            ![t].role = Written(@, loaded[w].role, r.change.role),
                            ![t].active = Written(@, loaded[w].active, r.change.active)]
      /\ cause' = cause \cup (IF \E i \in Id : Superadmin(i) /\ ~Superadmin(i)' THEN {"demoted"} ELSE {})
  BY DEF CommitUpdate
<1>2. /\ pc[w] = "loaded" /\ r.kind = "update" /\ r \in PossibleCalls
      /\ cause # {} \/ \E i \in Id : Superadmin(i)
  BY <1>1, EndsFacts
<1>3. t \in Id /\ r.change \in Change
  BY <1>2 DEF PossibleCalls
<1>4. /\ cause' \subseteq {"demoted", "outlived"} /\ cause \subseteq cause'
      /\ cause' # {} \/ \E i \in Id : Superadmin(i)'
  BY <1>1, <1>2 DEF AccountsInv, AccountsTypeOK
<1>5. account' \in [Id -> Row \cup {NoAccount}]
      /\ \A i, j \in Live' : account'[i].email = account'[j].email => i = j
  <2>1. CASE t \notin Live
    BY <1>1, <2>1 DEF AccountsInv, AccountsTypeOK, Live
  <2>2. CASE t \in Live
    <3>1. account[t] \in Row
      BY <1>3, <2>2 DEF AccountsInv, AccountsTypeOK, Live
    <3>2. account' = [account EXCEPT ![t] = acct]
      BY <1>1, <1>3, <2>2 DEF AccountsInv, AccountsTypeOK
    <3>3. role \in Role \cup GivenRole
      <4>1. r.change.role \subseteq GivenRole
        BY <1>3 DEF GivenRole
      <4> QED
        BY <3>1, <4>1 DEF Written, Row
    <3>4. enabled \in BOOLEAN
      <4>1. r.change.active \subseteq BOOLEAN
        BY <1>3, AdministrationAssumption
      <4> QED
        BY <3>1, <4>1 DEF Written, Row
    <3>5. acct \in Row /\ acct.email = account[t].email
      <4> HIDE DEF role, enabled
      <4> QED
        BY <3>1, <3>3, <3>4 DEF Row
    <3> HIDE DEF acct, t
    <3>6. /\ account' \in [Id -> Row \cup {NoAccount}]
          /\ \A i \in Id : account'[i] = IF i = t THEN acct ELSE account[i]
      BY <1>3, <3>2, <3>5 DEF AccountsInv, AccountsTypeOK
    <3>7. Live' = Live /\ \A i \in Live : account'[i].email = account[i].email
      BY <2>2, <3>5, <3>6, NoAccountAssumption DEF Live
    <3> QED
      BY <3>6, <3>7 DEF AccountsInv, AccountsTypeOK
  <2> QED
    BY <2>1, <2>2
<1> QED
  BY <1>1, <1>4, <1>5, EndsInv

LEMMA CommitDeleteInv ==
    ASSUME AccountsInv, NEW w \in Worker, CommitDelete(w)
    PROVE  AccountsInv'
<1> DEFINE r == request[w]
<1>1. /\ Ends(w, "delete")
      /\ account' = [account EXCEPT ![r.target] = NoAccount]
      /\ cause' = cause \cup (IF Superadmin(r.by) THEN {} ELSE {"outlived"})
  BY DEF CommitDelete
<1>2. r.kind = "delete" /\ r \in PossibleCalls
  BY <1>1, EndsFacts
<1>3. r.by \in Id /\ r.target \in Id /\ r.by # r.target
  BY <1>2 DEF PossibleCalls
<1>4. /\ account' \in [Id -> Row \cup {NoAccount}]
      /\ \A i \in Id : account'[i] = IF i = r.target THEN NoAccount ELSE account[i]
  BY <1>1, <1>3 DEF AccountsInv, AccountsTypeOK
<1>5. \A i, j \in Live' : account'[i].email = account'[j].email => i = j
  BY <1>4 DEF AccountsInv, AccountsTypeOK, Live
<1>6. Superadmin(r.by) => \E i \in Id : Superadmin(i)'
  <2> SUFFICES ASSUME Superadmin(r.by) PROVE \E i \in Id : Superadmin(i)'
    OBVIOUS
  <2>1. PICK b \in Id : b = r.by
    BY <1>3
  <2>2. account'[b] = account[b] /\ Superadmin(b)
    BY <1>3, <1>4, <2>1
  <2>3. Superadmin(b)'
    BY <2>2 DEF Superadmin, Live
  <2> QED
    BY <2>3
<1>7. /\ cause' \subseteq {"demoted", "outlived"} /\ cause \subseteq cause'
      /\ cause' # {} \/ \E i \in Id : Superadmin(i)'
  BY <1>1, <1>6 DEF AccountsInv, AccountsTypeOK
<1> QED
  BY <1>1, <1>4, <1>5, <1>7, EndsInv

LEMMA CrashInv ==
    ASSUME AccountsInv, NEW w \in Worker, Crash(w)
    PROVE  AccountsInv'
<1> USE DEF AccountsInv
<1>1. /\ UNCHANGED <<tables, account, ruleSets, cause>>
      /\ pc'[w] = "down" /\ \A v \in Worker \ {w} : pc'[v] = pc[v]
      /\ request'[w] = NoCall /\ \A v \in Worker \ {w} : request'[v] = request[v]
      /\ loaded'[w] = NoAccount /\ \A v \in Worker \ {w} : loaded'[v] = loaded[v]
      /\ pc' \in [Worker -> Starting \cup {"ready", "allowed", "loaded"}]
      /\ request' \in [Worker -> PossibleCalls \cup {NoCall}]
      /\ loaded' \in [Worker -> Row \cup {NoAccount}]
      /\ crashes' \in 0 .. MaxCrashes
  BY AdministrationAssumption DEF Crash, database, AccountsTypeOK, CallsOK, Starting
<1>2. SeedingOK'
  BY <1>1, SeedingCount DEF SeedingOK, AccountsTypeOK
<1>3. AccountsTypeOK'
  <2>1. \A v \in Worker :
           /\ pc'[v] \in {"allowed", "loaded"} <=> request'[v] # NoCall
           /\ pc'[v] \notin Starting => ruleSets' > 0
    BY <1>1 DEF AccountsTypeOK, Starting
  <2>2. Live' = Live
    BY <1>1 DEF Live
  <2> QED
    BY <1>1, <2>1, <2>2 DEF AccountsTypeOK
<1>4. CallsOK'
  BY <1>1 DEF CallsOK
<1>5. AdminOK'
  BY <1>1 DEF AdminOK, EarlyPhase, Superadmin, Live, Has
<1> QED
  BY <1>2, <1>3, <1>4, <1>5

LEMMA AccountsStep ==
    AccountsInv /\ [AccountsNext]_accountsVars => AccountsInv'
<1> SUFFICES ASSUME AccountsInv, [AccountsNext]_accountsVars PROVE AccountsInv'
  OBVIOUS
<1>1. CASE UNCHANGED accountsVars
  BY <1>1 DEF accountsVars, database, AccountsInv, AccountsTypeOK, SeedingOK, Seeding,
              CallsOK, AdminOK, EarlyPhase, Superadmin, Live, Has
<1>2. CASE AccountsNext
  <2>1. PICK w \in Worker : Starts(w) \/ Serves(w) \/ Crash(w) \/ \E r \in Calls : Allow(w, r)
    BY <1>2 DEF AccountsNext
  <2>2. CASE Starts(w)
    BY <2>2, StartsInv
  <2>3. CASE Serves(w)
    BY <2>3, LoadInv, CommitCreateInv, CommitUpdateInv, CommitDeleteInv DEF Serves
  <2>4. CASE Crash(w)
    BY <2>4, CrashInv
  <2>5. CASE \E r \in Calls : Allow(w, r)
    BY <2>5, AllowInv
  <2> QED
    BY <2>1, <2>2, <2>3, <2>4, <2>5
<1> QED
  BY <1>1, <1>2

(* A worker that serves finds the compliance rules in the database, which  *)
(* no more than one insert per worker has put there, and no two accounts   *)
(* share an email: whatever the workers' starts, crashes and requests.     *)
THEOREM AccountsTypeCorrect == AccountsSpec => []AccountsTypeOK
<1>1. AccountsInv => AccountsTypeOK
  BY DEF AccountsInv
<1> QED
  BY <1>1, AccountsInitInv, AccountsStep, PTL DEF AccountsSpec

(* The server is left without an active superadmin only by a change of     *)
(* roles or by a deletion that outlived its caller's right to it: neither  *)
(* the workers' race to add the initial administrator, nor their crashes,  *)
(* nor any number of creations and deletions can do it.                    *)
THEOREM LockOutIsCaused == AccountsSpec => []LockOutHasCause
<1>1. AccountsInv => LockOutHasCause
  BY DEF AccountsInv, AdminOK, LockOutHasCause, EarlyPhase, Starting
<1> QED
  BY <1>1, AccountsInitInv, AccountsStep, PTL DEF AccountsSpec
=============================================================================
