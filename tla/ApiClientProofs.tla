--------------------------- MODULE ApiClientProofs ---------------------------
(***************************************************************************)
(* The server's sessions (AuthSession), for any sets of tokens and         *)
(* requests: what makes ExchangeSpendsToken and SessionsNeedPlayer         *)
(* inductive is what a Refresh knows between two of its statements, that   *)
(* once it has revoked its token nothing makes that token live again.      *)
(*                                                                         *)
(* The browser (ApiClient), for any calls, tabs and tokens.  Its steps are *)
(* steps of AuthSession or leave the sessions alone.  What makes           *)
(* StoredTokenUnspent inductive is who can have seen a token: one that is  *)
(* unused, or issued to a tab that has not stored it yet, has been posted  *)
(* by nobody.                                                              *)
(***************************************************************************)
EXTENDS ApiClient, FiniteSetTheorems, TLAPS

-----------------------------------------------------------------------------
(* The sessions.                                                            *)

RevokedStaysSpent ==
  \A q \in Requests :
    /\ exchange[q].pc # "none" => exchange[q].token \in Tokens
    /\ exchange[q].pc = "revoked" => session[exchange[q].token] \in {"revoked", "deleted"}

AuthInv ==
  /\ AuthTypeOK
  /\ RevokedStaysSpent
  /\ ExchangeSpendsToken
  /\ SessionsNeedPlayer

USE TokenAssumption

\* A pair that replaces nothing, or a spent token, keeps the chains of tokens.
LEMMA IssueKeepsInv ==
  ASSUME AuthInv, NEW new \in Tokens, NEW from \in Tokens \cup {None},
         from # None => session[from] \in {"revoked", "deleted"},
         IssueTokens(new, from), UNCHANGED player
  PROVE  /\ player' \in {"active", "deleted"}
         /\ session' \in [Tokens -> {"unused", "live", "revoked", "expired", "deleted"}]
         /\ valid' \subseteq Tokens
         /\ origin' \in [Tokens -> Tokens \cup {None}]
         /\ ExchangeSpendsToken'
         /\ SessionsNeedPlayer'
         /\ \A r \in Tokens : session[r] \in {"revoked", "deleted"} => session'[r] = session[r]
<1> USE DEF AuthInv, AuthTypeOK
<1>1. /\ session' = [session EXCEPT ![new] = "live"] /\ session[new] = "unused"
      /\ origin' = [origin EXCEPT ![new] = from] /\ valid' = valid \cup {new}
      /\ player = "active" /\ player' = player
  BY DEF IssueTokens
<1>2. /\ session' \in [Tokens -> {"unused", "live", "revoked", "expired", "deleted"}]
      /\ origin' \in [Tokens -> Tokens \cup {None}]
      /\ valid' \subseteq Tokens
  BY <1>1
<1>3. \A r \in Tokens : session[r] \in {"revoked", "deleted"} => session'[r] = session[r]
  BY <1>1
<1>4. ExchangeSpendsToken'
  <2> SUFFICES ASSUME NEW r \in Tokens, origin'[r] # None
               PROVE  session'[origin'[r]] \in {"revoked", "deleted"}
    BY DEF ExchangeSpendsToken
  <2>1. CASE r = new
    <3>1. origin'[r] = from /\ from \in Tokens
      BY <1>1, <2>1
    <3> QED  BY <3>1, <1>3
  <2>2. CASE r # new
    <3>1. origin'[r] = origin[r] /\ origin[r] \in Tokens
      BY <1>1, <2>2
    <3>2. session[origin[r]] \in {"revoked", "deleted"}
      BY <3>1 DEF ExchangeSpendsToken
    <3> QED  BY <3>1, <3>2, <1>3
  <2> QED  BY <2>1, <2>2
<1>5. SessionsNeedPlayer'
  BY <1>1 DEF SessionsNeedPlayer
<1> QED  BY <1>1, <1>2, <1>3, <1>4, <1>5

LEMMA AuthInvInit == AuthInit => AuthInv
BY DEF AuthInit, AuthInv, AuthTypeOK, NoExchange, RevokedStaysSpent,
       ExchangeSpendsToken, SessionsNeedPlayer

LEMMA LoginKeepsInv == ASSUME AuthInv, NEW new \in Tokens, Login(new) PROVE AuthInv'
<1>1. IssueTokens(new, None) /\ UNCHANGED player /\ exchange' = exchange
  BY DEF Login
<1>2. RevokedStaysSpent'
  BY <1>1, IssueKeepsInv DEF AuthInv, RevokedStaysSpent
<1> QED  BY <1>1, <1>2, IssueKeepsInv DEF AuthInv, AuthTypeOK

LEMMA RefreshCheckKeepsInv ==
  ASSUME AuthInv, NEW q \in Requests, NEW r \in Tokens, RefreshCheck(q, r)
  PROVE  AuthInv'
<1> USE DEF AuthInv
<1>1. /\ exchange' = [exchange EXCEPT ![q] = [pc |-> "checked", token |-> r]]
      /\ player' = player /\ session' = session /\ valid' = valid /\ origin' = origin
  BY DEF RefreshCheck
<1>2. AuthTypeOK'
  BY <1>1 DEF AuthTypeOK
<1>3. RevokedStaysSpent'
  BY <1>1 DEF RevokedStaysSpent, AuthTypeOK
<1>4. ExchangeSpendsToken' /\ SessionsNeedPlayer'
  BY <1>1 DEF ExchangeSpendsToken, SessionsNeedPlayer
<1> QED  BY <1>2, <1>3, <1>4

LEMMA RefreshRevokeKeepsInv ==
  ASSUME AuthInv, NEW q \in Requests, RefreshRevoke(q)
  PROVE  AuthInv'
<1> USE DEF AuthInv
<1> DEFINE r == exchange[q].token
<1>1. r \in Tokens /\ exchange[q].pc = "checked"
  BY DEF RefreshRevoke, RevokedStaysSpent
<1>2. /\ session' = [session EXCEPT ![r] = IF session[r] = "deleted" THEN session[r] ELSE "revoked"]
      /\ exchange' = [exchange EXCEPT ![q].pc = "revoked"]
      /\ player' = player /\ valid' = valid /\ origin' = origin
  BY DEF RefreshRevoke
<1>3. AuthTypeOK'
  BY <1>1, <1>2 DEF AuthTypeOK
<1>4. /\ session'[r] \in {"revoked", "deleted"}
      /\ \A s \in Tokens : session[s] \in {"revoked", "deleted"} => session'[s] \in {"revoked", "deleted"}
      /\ \A s \in Tokens : session'[s] = "live" => session[s] = "live"
  BY <1>1, <1>2 DEF AuthTypeOK
<1>5. /\ exchange'[q].pc = "revoked" /\ exchange'[q].token = r
      /\ \A p \in Requests \ {q} : exchange'[p] = exchange[p]
  BY <1>1, <1>2 DEF AuthTypeOK
<1>6. RevokedStaysSpent'
  BY <1>1, <1>4, <1>5 DEF RevokedStaysSpent
<1>7. ExchangeSpendsToken'
  BY <1>2, <1>4 DEF ExchangeSpendsToken, AuthTypeOK
<1>8. SessionsNeedPlayer'
  BY <1>2, <1>4 DEF SessionsNeedPlayer
<1> QED  BY <1>3, <1>6, <1>7, <1>8

LEMMA RefreshIssueKeepsInv ==
  ASSUME AuthInv, NEW q \in Requests, NEW new \in Tokens, RefreshIssue(q, new)
  PROVE  AuthInv'
<1> DEFINE from == exchange[q].token
<1>1. /\ from \in Tokens /\ session[from] \in {"revoked", "deleted"}
      /\ IssueTokens(new, from) /\ UNCHANGED player
      /\ exchange' = [exchange EXCEPT ![q] = NoExchange]
  BY DEF RefreshIssue, AuthInv, RevokedStaysSpent
<1> HIDE DEF from
<1>2. /\ AuthTypeOK' /\ ExchangeSpendsToken' /\ SessionsNeedPlayer'
      /\ \A r \in Tokens : session[r] \in {"revoked", "deleted"} => session'[r] = session[r]
  <2>1. exchange' \in [Requests -> [pc : {"none", "checked", "revoked"},
                                    token : Tokens \cup {None}]]
    BY <1>1 DEF AuthInv, AuthTypeOK, NoExchange
  <2> QED  BY <1>1, <2>1, IssueKeepsInv DEF AuthTypeOK
<1>3. RevokedStaysSpent'
  BY <1>1, <1>2 DEF AuthInv, AuthTypeOK, RevokedStaysSpent, NoExchange
<1> QED  BY <1>2, <1>3 DEF AuthInv

LEMMA RefreshFailKeepsInv ==
  ASSUME AuthInv, NEW q \in Requests, RefreshFail(q)
  PROVE  AuthInv'
<1> USE DEF AuthInv
<1>1. /\ exchange' = [exchange EXCEPT ![q] = NoExchange]
      /\ player' = player /\ session' = session /\ valid' = valid /\ origin' = origin
  BY DEF RefreshFail
<1>2. AuthTypeOK' /\ RevokedStaysSpent'
  BY <1>1 DEF AuthTypeOK, RevokedStaysSpent, NoExchange
<1>3. ExchangeSpendsToken' /\ SessionsNeedPlayer'
  BY <1>1 DEF ExchangeSpendsToken, SessionsNeedPlayer
<1> QED  BY <1>2, <1>3

LEMMA ClockKeepsInv ==
  ASSUME AuthInv, NEW r \in Tokens, ExpireAccess(r) \/ Expire(r)
  PROVE  AuthInv'
<1> USE DEF AuthInv
<1>1. CASE ExpireAccess(r)
  BY <1>1 DEF ExpireAccess, AuthTypeOK, RevokedStaysSpent, ExchangeSpendsToken, SessionsNeedPlayer
<1>2. CASE Expire(r)
  <2>1. /\ session' = [session EXCEPT ![r] = "expired"] /\ session[r] = "live"
        /\ player' = player /\ valid' = valid /\ exchange' = exchange /\ origin' = origin
    BY <1>2 DEF Expire
  <2>2. AuthTypeOK'
    BY <2>1 DEF AuthTypeOK
  <2>3. \A s \in Tokens : session[s] \in {"revoked", "deleted"} => session'[s] = session[s]
    BY <2>1 DEF AuthTypeOK
  <2>4. RevokedStaysSpent' /\ ExchangeSpendsToken'
    BY <2>1, <2>3 DEF AuthTypeOK, RevokedStaysSpent, ExchangeSpendsToken
  <2>5. SessionsNeedPlayer'
    BY <2>1 DEF AuthTypeOK, SessionsNeedPlayer
  <2> QED  BY <2>2, <2>4, <2>5
<1> QED  BY <1>1, <1>2

LEMMA DeletePlayerKeepsInv == ASSUME AuthInv, DeletePlayer PROVE AuthInv'
<1> USE DEF AuthInv
<1>1. /\ session' = [r \in Tokens |-> IF session[r] = "unused" THEN "unused" ELSE "deleted"]
      /\ player' = "deleted" /\ valid' = valid /\ exchange' = exchange /\ origin' = origin
  BY DEF DeletePlayer
<1>2. AuthTypeOK'
  BY <1>1 DEF AuthTypeOK
<1>3. \A s \in Tokens : session[s] \in {"revoked", "deleted"} => session'[s] = "deleted"
  BY <1>1
<1>4. RevokedStaysSpent' /\ ExchangeSpendsToken'
  BY <1>1, <1>3 DEF AuthTypeOK, RevokedStaysSpent, ExchangeSpendsToken
<1>5. SessionsNeedPlayer'
  BY <1>1 DEF SessionsNeedPlayer
<1> QED  BY <1>2, <1>4, <1>5

LEMMA AuthInvStep == AuthInv /\ [AuthNext]_authVars => AuthInv'
<1> SUFFICES ASSUME AuthInv, [AuthNext]_authVars PROVE AuthInv'
  OBVIOUS
<1>1. CASE \E new \in Tokens : Login(new)
  BY <1>1, LoginKeepsInv
<1>2. CASE \E q \in Requests, r \in Tokens : RefreshCheck(q, r) \/ RefreshIssue(q, r)
  BY <1>2, RefreshCheckKeepsInv, RefreshIssueKeepsInv
<1>3. CASE \E q \in Requests : RefreshRevoke(q) \/ RefreshFail(q)
  BY <1>3, RefreshRevokeKeepsInv, RefreshFailKeepsInv
<1>4. CASE \E r \in Tokens : ExpireAccess(r) \/ Expire(r)
  BY <1>4, ClockKeepsInv
<1>5. CASE DeletePlayer
  BY <1>5, DeletePlayerKeepsInv
<1>6. CASE UNCHANGED authVars
  BY <1>6 DEF authVars, AuthInv, AuthTypeOK, RevokedStaysSpent, ExchangeSpendsToken,
              SessionsNeedPlayer
<1> QED  BY <1>1, <1>2, <1>3, <1>4, <1>5, <1>6 DEF AuthNext

LEMMA AuthInvariant == AuthSpec => []AuthInv
<1>1. AuthInit => AuthInv
  BY AuthInvInit
<1>2. AuthInv /\ [AuthNext]_authVars => AuthInv'
  BY AuthInvStep
<1> QED  BY <1>1, <1>2, PTL DEF AuthSpec

\* Refresh (auth_service.go:213-244) leaves no token live that it exchanged,
\* with any number of requests in flight and failing anywhere.
THEOREM TokensAreSpent == AuthSpec => []ExchangeSpendsToken
<1>1. AuthInv => ExchangeSpendsToken
  BY DEF AuthInv
<1> QED  BY <1>1, AuthInvariant, PTL

\* No Refresh or Login outlives the deletion of the player
\* (admin_service.go:83-146, auth_sessions.user_id): no session is left live.
THEOREM DeletionEndsSessions == AuthSpec => []SessionsNeedPlayer
<1>1. AuthInv => SessionsNeedPlayer
  BY DEF AuthInv
<1> QED  BY <1>1, AuthInvariant, PTL

-----------------------------------------------------------------------------
(* The kinds of steps.                                                      *)

USE TabsAssumption

PcStates == {"idle", "sent", "replied", "rejected", "queued"} \cup Refreshing \cup Ended

CallRows == [pc : PcStates, token : Tokens \cup {None}, retried : BOOLEAN, tab : Tabs \cup {None}]

\* A call that was made belongs to a tab, and an answer brings tokens.
Shape ==
  \A c \in Requests : /\ call[c].pc # "idle" => call[c].tab \in Tabs
                      /\ call[c].pc = "issued" => call[c].token \in Tokens

Only(c) == \A d \in Requests \ {c} : call'[d] = call[d]

\* No call moves: the server's part, the clock, signing in and out.
Aside == UNCHANGED <<call, executed, isRefreshing, refreshQueue>>

\* c moves, but neither begins nor ends a refresh.
Quiet(c) ==
  /\ call[c].pc \in {"idle", "sent", "replied", "rejected"}
  /\ call'[c].pc \in {"sent", "replied", "rejected", "queued"} \cup Settled
  /\ call'[c].tab \in Tabs /\ Only(c)
  /\ \/ executed' = executed /\ (call[c].pc = "replied" => call'[c].pc \in Settled)
     \/ /\ call'[c].pc = "replied" /\ call[c].pc = "sent"
        /\ executed' = [executed EXCEPT ![c] = @ + 1]
  /\ \A t \in Tabs : \A d \in refreshQueue'[t] :
       \/ d \in refreshQueue[t]
       \/ d = c /\ call'[c].pc = "queued" /\ call'[c].tab = t
  /\ UNCHANGED <<authVars, stored, isRefreshing>>

\* c's refresh moves on, and its tab does not know yet.
Resolving(c) ==
  /\ call[c].pc \in Refreshing /\ call'[c].pc \in Refreshing
  /\ call'[c].tab = call[c].tab /\ Only(c)
  /\ UNCHANGED <<executed, stored, isRefreshing, refreshQueue>>

LEMMA CallType == TypeOK => call \in [Requests -> CallRows]
BY DEF TypeOK, CallRows, PcStates

LEMMA RowSet ==
  ASSUME TypeOK, NEW c \in Requests, NEW row \in CallRows, call' = [call EXCEPT ![c] = row]
  PROVE  call' \in [Requests -> CallRows] /\ call'[c] = row /\ Only(c)
BY CallType DEF CallRows, Only

LEMMA PcSet ==
  ASSUME TypeOK, NEW c \in Requests, NEW p \in PcStates, call' = [call EXCEPT ![c].pc = p]
  PROVE  /\ call' \in [Requests -> CallRows] /\ Only(c) /\ call'[c].pc = p
         /\ call'[c].token = call[c].token /\ call'[c].retried = call[c].retried
         /\ call'[c].tab = call[c].tab
BY CallType DEF CallRows, Only

LEMMA PostedToken ==
  ASSUME TypeOK, Shape, NEW c \in Requests
  PROVE  Posted(c) \in Tokens \cup {None}
<1>1. call[c].token \in Tokens \cup {None}
  BY CallType DEF CallRows
<1>2. CASE call[c].pc = "issued"
  BY <1>2 DEF Posted, Shape, TypeOK, AuthTypeOK
<1> QED  BY <1>1, <1>2 DEF Posted

LEMMA TypeNext ==
  ASSUME AuthTypeOK', call' \in [Requests -> CallRows], executed' \in [Requests -> Nat],
         stored' \in [at : Tokens \cup {None}, rt : Tokens \cup {None}],
         memory' \in [Tabs -> Tokens \cup {None}],
         isRefreshing' \in [Tabs -> BOOLEAN], refreshQueue' \in [Tabs -> SUBSET Requests]
  PROVE  TypeOK'
BY DEF TypeOK, CallRows, PcStates

\* Every step of the browser is a step of the sessions, or leaves them alone.
LEMMA StepOfSessions ==
  ASSUME TypeOK, [Next]_vars
  PROVE  [AuthNext]_authVars
<1>1. ASSUME NEW c \in Requests, Check(c) PROVE AuthNext
  <2>1. call[c].token \in Tokens
    BY <1>1, CallType DEF Check, CallRows
  <2> QED  BY <1>1, <2>1 DEF Check, AuthNext
<1>2. ASSUME NEW c \in Requests, Revoke(c) \/ FailRefresh(c) PROVE AuthNext
  BY <1>2 DEF Revoke, FailRefresh, AuthNext
<1>3. ASSUME NEW c \in Requests, NEW new \in Tokens, Issue(c, new) PROVE AuthNext
  BY <1>3 DEF Issue, AuthNext
<1>4. ASSUME NEW t \in Tabs, NEW new \in Tokens, SignIn(t, new) PROVE AuthNext
  BY <1>4 DEF SignIn, AuthNext
<1>5. CASE Time \/ Admin
  BY <1>5 DEF Time, Admin, AuthNext
<1>6. ASSUME NEW c \in Requests,
             \/ \E t \in TabsOf[c] : Send(c, t)
             \/ Serve(c) \/ Receive(c) \/ Lose(c)
             \/ ReturnRejection(c) \/ Enqueue(c) \/ StartRefresh(c)
             \/ Refuse(c) \/ LoseRefresh(c) \/ Refreshed(c) \/ Refused(c)
      PROVE  UNCHANGED authVars
  BY <1>6 DEF Send, Serve, Receive, Lose, ReturnRejection, Enqueue, StartRefresh, Refuse,
              LoseRefresh, Refreshed, Refused
<1>7. ASSUME NEW t \in Tabs, Leave(t) \/ Logout(t) PROVE UNCHANGED authVars
  BY <1>7 DEF Leave, Logout
<1>8. CASE UNCHANGED vars
  BY <1>8 DEF vars, authVars
<1> QED  BY <1>1, <1>2, <1>3, <1>4, <1>5, <1>6, <1>7, <1>8 DEF Next

LEMMA TokenRead ==
  ASSUME TypeOK, NEW t \in Tabs
  PROVE  getAccessToken(t) \in Tokens \cup {None}
BY DEF TypeOK, getAccessToken

\* Steps of a call that neither begin nor end a refresh.
LEMMA QuietSteps ==
  ASSUME TypeOK, Shape, NEW c \in Requests,
         \/ \E t \in TabsOf[c] : Send(c, t)
         \/ Serve(c) \/ Receive(c) \/ Lose(c) \/ ReturnRejection(c) \/ Enqueue(c)
  PROVE  Quiet(c) /\ TypeOK'
<1> USE DEF Refreshing, Settled, Ended
<1>1. ASSUME NEW t \in TabsOf[c], Send(c, t) PROVE Quiet(c) /\ TypeOK'
  <2>1. t \in Tabs
    OBVIOUS
  <2>2. Call("sent", getAccessToken(t), FALSE, t) \in CallRows
    BY <2>1, TokenRead DEF Call, CallRows, PcStates
  <2>3. call' \in [Requests -> CallRows] /\ Only(c) /\ call'[c] = Call("sent", getAccessToken(t), FALSE, t)
    BY <1>1, <2>2, RowSet DEF Send
  <2>4. Quiet(c)
    BY <1>1, <2>1, <2>3 DEF Send, Quiet, Call
  <2>5. memory' \in [Tabs -> Tokens \cup {None}]
    BY <1>1, <2>1, TokenRead DEF Send, TypeOK
  <2>6. TypeOK'
    BY <1>1, <2>3, <2>5, TypeNext DEF Send, TypeOK, AuthTypeOK, authVars
  <2> QED  BY <2>4, <2>6
<1>2. CASE Serve(c)
  <2>1. PICK p \in {"replied", "rejected"} :
          /\ call' = [call EXCEPT ![c].pc = p]
          /\ \/ executed' = executed
             \/ p = "replied" /\ executed' = [executed EXCEPT ![c] = @ + 1]
    BY <1>2 DEF Serve
  <2>2. /\ call[c].pc = "sent"
        /\ UNCHANGED <<authVars, stored, memory, isRefreshing, refreshQueue>>
    BY <1>2 DEF Serve
  <2>3. /\ call' \in [Requests -> CallRows] /\ Only(c) /\ call'[c].pc = p
        /\ call'[c].tab = call[c].tab
    BY <2>1, PcSet DEF PcStates
  <2>4. Quiet(c)
    BY <2>1, <2>2, <2>3 DEF Quiet, Shape
  <2>5. executed' \in [Requests -> Nat]
    BY <2>1 DEF TypeOK
  <2>6. TypeOK'
    BY <2>2, <2>3, <2>5, TypeNext DEF TypeOK, AuthTypeOK, authVars
  <2> QED  BY <2>4, <2>6
<1>3. CASE Receive(c) \/ Lose(c) \/ ReturnRejection(c)
  <2>1. /\ call[c].pc \in {"sent", "replied", "rejected"}
        /\ \E p \in Settled : call' = [call EXCEPT ![c].pc = p]
        /\ UNCHANGED <<authVars, executed, stored, memory, isRefreshing, refreshQueue>>
    BY <1>3 DEF Receive, Lose, ReturnRejection
  <2>2. PICK p \in Settled : call' = [call EXCEPT ![c].pc = p]
    BY <2>1
  <2>3. /\ call' \in [Requests -> CallRows] /\ Only(c) /\ call'[c].pc = p
        /\ call'[c].tab = call[c].tab
    BY <2>2, PcSet DEF PcStates
  <2>4. Quiet(c)
    BY <2>1, <2>3 DEF Quiet, Shape
  <2>5. TypeOK'
    BY <2>1, <2>3, TypeNext DEF TypeOK, AuthTypeOK, authVars
  <2> QED  BY <2>4, <2>5
<1>4. CASE Enqueue(c)
  <2>1. /\ call[c].pc = "rejected"
        /\ call' = [call EXCEPT ![c].pc = "queued"]
        /\ refreshQueue' = [refreshQueue EXCEPT ![call[c].tab] = @ \cup {c}]
        /\ UNCHANGED <<authVars, executed, stored, memory, isRefreshing>>
    BY <1>4 DEF Enqueue
  <2>2. /\ call' \in [Requests -> CallRows] /\ Only(c) /\ call'[c].pc = "queued"
        /\ call'[c].tab = call[c].tab /\ call[c].tab \in Tabs
    BY <2>1, PcSet DEF PcStates, Shape
  <2>3. \A t \in Tabs : \A d \in refreshQueue'[t] :
          d \in refreshQueue[t] \/ (d = c /\ call[c].tab = t)
    BY <2>1, <2>2 DEF TypeOK
  <2>4. Quiet(c)
    BY <2>1, <2>2, <2>3 DEF Quiet
  <2>5. refreshQueue' \in [Tabs -> SUBSET Requests]
    BY <2>1, <2>2 DEF TypeOK
  <2>6. TypeOK'
    BY <2>1, <2>2, <2>5, TypeNext DEF TypeOK, AuthTypeOK, authVars
  <2> QED  BY <2>4, <2>6
<1> QED  BY <1>1, <1>2, <1>3, <1>4

\* Steps of a refresh whose outcome the tab does not know yet.
LEMMA ResolvingSteps ==
  ASSUME TypeOK, Shape, AuthTypeOK', NEW c \in Requests,
         \/ Refuse(c) \/ LoseRefresh(c)
         \/ call[c].pc = "refreshing" /\ (FailRefresh(c) \/ \E new \in Tokens : Issue(c, new))
  PROVE  Resolving(c) /\ TypeOK' /\ (call'[c].pc = "issued" => call'[c].token \in Tokens)
<1> USE DEF Refreshing
<1>1. CASE Refuse(c) \/ (call[c].pc = "refreshing" /\ FailRefresh(c))
  <2>1. /\ call[c].pc = "refreshing" /\ call' = [call EXCEPT ![c].pc = "refused"]
        /\ UNCHANGED <<executed, stored, memory, isRefreshing, refreshQueue>>
    BY <1>1 DEF Refuse, FailRefresh
  <2>2. /\ call' \in [Requests -> CallRows] /\ Only(c) /\ call'[c].pc = "refused"
        /\ call'[c].tab = call[c].tab
    BY <2>1, PcSet DEF PcStates
  <2>3. TypeOK'
    BY <2>1, <2>2, TypeNext DEF TypeOK
  <2> QED  BY <2>1, <2>2, <2>3 DEF Resolving
<1>2. CASE LoseRefresh(c)
  <2> DEFINE k == Posted(c)
             row == Call("refused", k, FALSE, call[c].tab)
  <2>1. /\ call[c].pc \in {"refreshing", "issued"} /\ call' = [call EXCEPT ![c] = row]
        /\ UNCHANGED <<authVars, executed, stored, memory, isRefreshing, refreshQueue>>
    BY <1>2 DEF LoseRefresh
  <2>2. k \in Tokens \cup {None}
    BY PostedToken
  <2> HIDE DEF k
  <2>3. row \in CallRows /\ row.pc = "refused" /\ row.tab = call[c].tab
    BY <2>2, CallType DEF CallRows, PcStates, Call
  <2> HIDE DEF row
  <2>4. call' \in [Requests -> CallRows] /\ Only(c) /\ call'[c] = row
    BY <2>1, <2>3, RowSet
  <2>5. TypeOK'
    BY <2>1, <2>4, TypeNext DEF TypeOK
  <2> QED  BY <2>1, <2>3, <2>4, <2>5 DEF Resolving
<1>3. ASSUME NEW new \in Tokens, call[c].pc = "refreshing", Issue(c, new)
      PROVE  Resolving(c) /\ TypeOK' /\ (call'[c].pc = "issued" => call'[c].token \in Tokens)
  <2> DEFINE row == Call("issued", new, FALSE, call[c].tab)
  <2>1. /\ call' = [call EXCEPT ![c] = row]
        /\ UNCHANGED <<executed, stored, memory, isRefreshing, refreshQueue>>
    BY <1>3 DEF Issue
  <2>2. row \in CallRows /\ row.pc = "issued" /\ row.tab = call[c].tab /\ row.token = new
    BY CallType DEF CallRows, PcStates, Call
  <2> HIDE DEF row
  <2>3. call' \in [Requests -> CallRows] /\ Only(c) /\ call'[c] = row
    BY <2>1, <2>2, RowSet
  <2>4. TypeOK'
    BY <2>1, <2>3, TypeNext DEF TypeOK
  <2> QED  BY <1>3, <2>1, <2>2, <2>3, <2>4 DEF Resolving
<1> QED  BY <1>1, <1>2, <1>3

LEMMA StartStep ==
  ASSUME TypeOK, Shape, NEW c \in Requests, StartRefresh(c)
  PROVE  /\ call' \in [Requests -> CallRows] /\ Only(c)
         /\ call'[c] = Call("refreshing", stored.rt, FALSE, call[c].tab)
         /\ call[c].tab \in Tabs
         /\ TypeOK'
<1> DEFINE row == Call("refreshing", stored.rt, FALSE, call[c].tab)
<1>1. /\ call' = [call EXCEPT ![c] = row] /\ call[c].pc = "rejected"
      /\ isRefreshing' = [isRefreshing EXCEPT ![call[c].tab] = TRUE]
      /\ UNCHANGED <<authVars, executed, stored, memory, refreshQueue>>
  BY DEF StartRefresh
<1>2. row \in CallRows
  BY CallType DEF TypeOK, CallRows, PcStates, Call, Refreshing
<1> HIDE DEF row
<1>3. call' \in [Requests -> CallRows] /\ Only(c) /\ call'[c] = row
  BY <1>1, <1>2, RowSet
<1>4. TypeOK'
  BY <1>1, <1>3, TypeNext DEF TypeOK, AuthTypeOK, authVars
<1>5. call[c].tab \in Tabs
  BY <1>1 DEF Shape
<1> QED  BY <1>3, <1>4, <1>5 DEF row

LEMMA RefreshedStep ==
  ASSUME TypeOK, Shape, NEW c \in Requests, Refreshed(c)
  PROVE  /\ call[c].tab \in Tabs /\ call[c].token \in Tokens
         /\ \A d \in Requests :
              call'[d] = IF d \in refreshQueue[call[c].tab] \cup {c}
                         THEN Call("sent", call[c].token, TRUE, call[c].tab) ELSE call[d]
         /\ TypeOK'
<1> DEFINE row == Call("sent", call[c].token, TRUE, call[c].tab)
<1>1. /\ call[c].pc = "issued"
      /\ stored' = [at |-> call[c].token, rt |-> call[c].token]
      /\ memory' = [memory EXCEPT ![call[c].tab] = call[c].token]
      /\ isRefreshing' = [isRefreshing EXCEPT ![call[c].tab] = FALSE]
      /\ refreshQueue' = [refreshQueue EXCEPT ![call[c].tab] = {}]
      /\ call' = [d \in Requests |->
                    IF d \in refreshQueue[call[c].tab] \cup {c} THEN row ELSE call[d]]
      /\ UNCHANGED <<authVars, executed>>
  BY DEF Refreshed
<1>2. call[c].tab \in Tabs /\ call[c].token \in Tokens
  BY <1>1 DEF Shape
<1>3. row \in CallRows
  BY <1>2 DEF CallRows, PcStates, Call
<1> HIDE DEF row
<1>4. call' \in [Requests -> CallRows]
  BY <1>1, <1>3, CallType
<1>5. TypeOK'
  BY <1>1, <1>2, <1>4, TypeNext DEF TypeOK, AuthTypeOK, authVars
<1>6. \A d \in Requests :
        call'[d] = IF d \in refreshQueue[call[c].tab] \cup {c} THEN row ELSE call[d]
  BY <1>1
<1> QED  BY <1>2, <1>5, <1>6 DEF row

LEMMA RefusedStep ==
  ASSUME TypeOK, Shape, NEW c \in Requests, Refused(c)
  PROVE  /\ call'[c].pc = "failed" /\ call'[c].tab = call[c].tab /\ Only(c)
         /\ call[c].tab \in Tabs
         /\ TypeOK'
<1>1. /\ call[c].pc = "refused" /\ call' = [call EXCEPT ![c].pc = "failed"]
      /\ stored' = SignedOut /\ memory' = [memory EXCEPT ![call[c].tab] = None]
      /\ isRefreshing' = [isRefreshing EXCEPT ![call[c].tab] = FALSE]
      /\ UNCHANGED <<authVars, executed, refreshQueue>>
  BY DEF Refused
<1>2. /\ call' \in [Requests -> CallRows] /\ Only(c) /\ call'[c].pc = "failed"
      /\ call'[c].tab = call[c].tab
  BY <1>1, PcSet DEF PcStates, Settled, Ended
<1>3. TypeOK'
  BY <1>1, <1>2, TypeNext DEF TypeOK, AuthTypeOK, authVars, SignedOut
<1>4. call[c].tab \in Tabs
  BY <1>1 DEF Shape
<1> QED  BY <1>2, <1>3, <1>4

\* What a call is after its page is left: ended, as it may have been before.
Cut(d, t) ==
  \/ call'[d] = call[d] /\ (call[d].tab = t => call[d].pc \in Ended)
  \/ /\ call[d].tab = t /\ call[d].pc \notin Ended /\ call'[d].tab = t
     /\ call'[d].pc = IF call[d].pc \in Refreshing THEN "abandoned" ELSE "gone"
     /\ call[d].pc \in Refreshing => call'[d].token = Posted(d)

LEMMA LeaveStep ==
  ASSUME TypeOK, Shape, NEW t \in Tabs, Leave(t)
  PROVE  (\A d \in Requests : Cut(d, t)) /\ TypeOK'
<1>1. /\ call' = [c \in Requests |->
                   IF call[c].tab = t /\ call[c].pc \notin Ended THEN Interrupted(c) ELSE call[c]]
      /\ memory' = [memory EXCEPT ![t] = None]
      /\ isRefreshing' = [isRefreshing EXCEPT ![t] = FALSE]
      /\ refreshQueue' = [refreshQueue EXCEPT ![t] = {}]
      /\ UNCHANGED <<authVars, executed, stored>>
  BY DEF Leave
<1>2. \A d \in Requests : Interrupted(d) \in CallRows
  <2> SUFFICES ASSUME NEW d \in Requests PROVE Interrupted(d) \in CallRows
    OBVIOUS
  <2>1. call[d].tab \in Tabs \cup {None} /\ Posted(d) \in Tokens \cup {None}
    BY CallType, PostedToken DEF CallRows
  <2> QED  BY <2>1 DEF Interrupted, Call, CallRows, PcStates, Ended
<1>3. \A d \in Requests : Cut(d, t)
  BY <1>1 DEF Cut, Interrupted, Call
<1>4. call' \in [Requests -> CallRows]
  BY <1>1, <1>2, CallType
<1>5. TypeOK'
  BY <1>1, <1>4, TypeNext DEF TypeOK, AuthTypeOK, authVars
<1> QED  BY <1>3, <1>5

LEMMA AsideSteps ==
  ASSUME TypeOK, AuthTypeOK',
         \/ \E c \in Requests :
              \/ Check(c) \/ Revoke(c)
              \/ call[c].pc # "refreshing" /\ (FailRefresh(c) \/ \E new \in Tokens : Issue(c, new))
         \/ \E t \in Tabs : Logout(t) \/ \E new \in Tokens : SignIn(t, new)
         \/ Time \/ Admin \/ UNCHANGED vars
  PROVE  Aside /\ TypeOK'
<1>1. Aside
  BY DEF Check, Revoke, FailRefresh, Issue, Logout, SignIn, Time, Admin, vars, clientVars, Aside
<1> DEFINE TokensStored == /\ stored' \in [at : Tokens \cup {None}, rt : Tokens \cup {None}]
                           /\ memory' \in [Tabs -> Tokens \cup {None}]
<1>2. TokensStored
  <2>1. ASSUME NEW t \in Tabs, Logout(t) PROVE TokensStored
    BY <2>1 DEF Logout, SignedOut, TypeOK
  <2>2. ASSUME NEW t \in Tabs, NEW new \in Tokens, SignIn(t, new) PROVE TokensStored
    BY <2>2 DEF SignIn, TypeOK
  <2>3. CASE UNCHANGED <<stored, memory>>
    BY <2>3 DEF TypeOK
  <2> QED
    BY <2>1, <2>2, <2>3 DEF Check, Revoke, FailRefresh, Issue, Time, Admin, vars, clientVars
<1>3. TypeOK'
  BY <1>1, <1>2, CallType, TypeNext DEF TypeOK, Aside
<1> QED  BY <1>1, <1>3

LEMMA Kinds ==
  ASSUME TypeOK, Shape, AuthTypeOK', [Next]_vars
  PROVE  /\ TypeOK'
         /\ \/ Aside
            \/ \E c \in Requests : \/ Quiet(c) \/ StartRefresh(c) \/ Refreshed(c) \/ Refused(c)
                                   \/ Resolving(c) /\ (call'[c].pc = "issued" => call'[c].token \in Tokens)
            \/ \E t \in Tabs : Leave(t)
<1>1. ASSUME NEW c \in Requests,
             \/ \E t \in TabsOf[c] : Send(c, t)
             \/ Serve(c) \/ Receive(c) \/ Lose(c) \/ ReturnRejection(c) \/ Enqueue(c)
      PROVE  TypeOK' /\ Quiet(c)
  BY <1>1, QuietSteps
<1>2. ASSUME NEW c \in Requests, StartRefresh(c) PROVE TypeOK'
  BY <1>2, StartStep
<1>3. ASSUME NEW c \in Requests, Refreshed(c) PROVE TypeOK'
  BY <1>3, RefreshedStep
<1>4. ASSUME NEW c \in Requests, Refused(c) PROVE TypeOK'
  BY <1>4, RefusedStep
<1>5. ASSUME NEW c \in Requests,
             \/ Refuse(c) \/ LoseRefresh(c)
             \/ call[c].pc = "refreshing" /\ (FailRefresh(c) \/ \E new \in Tokens : Issue(c, new))
      PROVE  TypeOK' /\ Resolving(c) /\ (call'[c].pc = "issued" => call'[c].token \in Tokens)
  BY <1>5, ResolvingSteps
<1>6. ASSUME \/ \E c \in Requests :
                  \/ Check(c) \/ Revoke(c)
                  \/ call[c].pc # "refreshing" /\ (FailRefresh(c) \/ \E new \in Tokens : Issue(c, new))
             \/ \E t \in Tabs : Logout(t) \/ \E new \in Tokens : SignIn(t, new)
             \/ Time \/ Admin \/ UNCHANGED vars
      PROVE  TypeOK' /\ Aside
  BY <1>6, AsideSteps
<1>7. ASSUME NEW t \in Tabs, Leave(t) PROVE TypeOK'
  BY <1>7, LeaveStep
<1> QED  BY <1>1, <1>2, <1>3, <1>4, <1>5, <1>6, <1>7 DEF Next

-----------------------------------------------------------------------------
(* The tabs.                                                                *)

InRefresh(c, t) == call[c].pc \in Refreshing /\ call[c].tab = t

\* isRefreshing is TRUE while one call of the tab refreshes.
RefreshOwned ==
  \A t \in Tabs : /\ isRefreshing[t] <=> \E c \in Requests : InRefresh(c, t)
                  /\ \A c, d \in Requests : InRefresh(c, t) /\ InRefresh(d, t) => c = d

\* What is in a tab's queue waits, and in that tab.
QueueOwned ==
  \A t \in Tabs : \A c \in refreshQueue[t] : call[c].pc = "queued" /\ call[c].tab = t

TabInv == Shape /\ RefreshOwned /\ QueueOwned /\ AtMostOnce

LEMMA TabInvAside ==
  ASSUME TypeOK, TabInv, Aside
  PROVE  TabInv'
BY DEF Aside, TabInv, Shape, RefreshOwned, InRefresh, QueueOwned, AtMostOnce

LEMMA TabInvQuiet ==
  ASSUME TypeOK, TabInv, NEW c \in Requests, Quiet(c)
  PROVE  TabInv'
<1> USE DEF Refreshing, Settled, Ended
<1>1. Shape'
  BY DEF Quiet, Only, TabInv, Shape
<1>2. \A d \in Requests, t \in Tabs : InRefresh(d, t)' <=> InRefresh(d, t)
  BY DEF Quiet, Only, InRefresh
<1>3. RefreshOwned'
  BY <1>2 DEF TabInv, RefreshOwned, Quiet
<1>4. QueueOwned'
  <2> SUFFICES ASSUME NEW t \in Tabs, NEW d \in refreshQueue'[t]
               PROVE  call'[d].pc = "queued" /\ call'[d].tab = t
    BY DEF QueueOwned
  <2>1. CASE d \in refreshQueue[t]
    <3>1. d \in Requests /\ call[d].pc = "queued" /\ call[d].tab = t
      BY <2>1 DEF TypeOK, TabInv, QueueOwned
    <3>2. d # c
      BY <3>1 DEF Quiet
    <3> QED  BY <3>1, <3>2 DEF Quiet, Only
  <2>2. CASE d = c /\ call'[c].pc = "queued" /\ call'[c].tab = t
    BY <2>2
  <2> QED  BY <2>1, <2>2 DEF Quiet
<1>5. AtMostOnce'
  <2> SUFFICES ASSUME NEW d \in Requests
               PROVE  executed'[d] <= IF call'[d].pc \in {"replied"} \cup Ended THEN 1 ELSE 0
    BY DEF AtMostOnce
  <2>0. /\ executed[d] \in Nat
        /\ executed[d] <= IF call[d].pc \in {"replied"} \cup Ended THEN 1 ELSE 0
    BY DEF TypeOK, TabInv, AtMostOnce
  <2>1. CASE d # c
    <3>1. call'[d] = call[d] /\ executed'[d] = executed[d]
      BY <2>1 DEF Quiet, Only, TypeOK
    <3> QED  BY <2>0, <3>1
  <2>2. CASE d = c /\ executed' = executed
    BY <2>0, <2>2 DEF Quiet
  <2>3. CASE d = c /\ executed' # executed
    <3>1. /\ call'[c].pc = "replied" /\ call[c].pc = "sent"
          /\ executed'[c] = executed[c] + 1
      BY <2>3 DEF Quiet, TypeOK
    <3> QED  BY <2>0, <2>3, <3>1
  <2> QED  BY <2>1, <2>2, <2>3
<1> QED  BY <1>1, <1>3, <1>4, <1>5 DEF TabInv

\* c moves from outside the queue to where it has not been served.
LEMMA QueueKept ==
  ASSUME TypeOK, QueueOwned, NEW c \in Requests, Only(c), call[c].pc # "queued",
         refreshQueue' = refreshQueue
  PROVE  QueueOwned'
BY DEF TypeOK, QueueOwned, Only

LEMMA TabInvStart ==
  ASSUME TypeOK, TabInv, NEW c \in Requests, StartRefresh(c)
  PROVE  TabInv'
<1> USE DEF Refreshing, Settled, Ended
<1>1. /\ call[c].pc = "rejected" /\ ~isRefreshing[call[c].tab] /\ call[c].tab \in Tabs
      /\ isRefreshing' = [isRefreshing EXCEPT ![call[c].tab] = TRUE]
      /\ executed' = executed /\ refreshQueue' = refreshQueue
      /\ call'[c].pc = "refreshing" /\ call'[c].tab = call[c].tab /\ Only(c)
  BY StartStep DEF StartRefresh, Call, TabInv
<1>2. Shape'
  BY <1>1 DEF TabInv, Shape, Only
<1>3. \A d \in Requests, t \in Tabs :
        InRefresh(d, t)' <=> (d = c /\ t = call[c].tab) \/ InRefresh(d, t)
  BY <1>1 DEF Only, InRefresh
<1>4. \A d \in Requests : ~InRefresh(d, call[c].tab)
  BY <1>1 DEF TabInv, RefreshOwned
<1>5. /\ isRefreshing'[call[c].tab]
      /\ \A t \in Tabs \ {call[c].tab} : isRefreshing'[t] = isRefreshing[t]
  BY <1>1 DEF TypeOK
<1>6. RefreshOwned'
  <2> SUFFICES ASSUME NEW t \in Tabs
               PROVE  /\ isRefreshing'[t] <=> \E d \in Requests : InRefresh(d, t)'
                      /\ \A d, e \in Requests : InRefresh(d, t)' /\ InRefresh(e, t)' => d = e
    BY DEF RefreshOwned
  <2>1. CASE t = call[c].tab
    BY <1>3, <1>4, <1>5, <2>1
  <2>2. CASE t # call[c].tab
    BY <1>3, <1>5, <2>2 DEF TabInv, RefreshOwned
  <2> QED  BY <2>1, <2>2
<1>7. QueueOwned'
  BY <1>1, QueueKept DEF TabInv
<1>8. AtMostOnce'
  BY <1>1 DEF TabInv, AtMostOnce, Only
<1> QED  BY <1>2, <1>6, <1>7, <1>8 DEF TabInv

LEMMA TabInvResolving ==
  ASSUME TypeOK, TabInv, NEW c \in Requests, Resolving(c),
         call'[c].pc = "issued" => call'[c].token \in Tokens
  PROVE  TabInv'
<1> USE DEF Refreshing, Settled, Ended
<1>1. Shape'
  BY DEF Resolving, Only, TabInv, Shape
<1>2. \A d \in Requests, t \in Tabs : InRefresh(d, t)' <=> InRefresh(d, t)
  BY DEF Resolving, Only, InRefresh
<1>3. RefreshOwned'
  BY <1>2 DEF TabInv, RefreshOwned, Resolving
<1>4. QueueOwned'
  BY QueueKept DEF TabInv, Resolving
<1>5. AtMostOnce'
  BY DEF TabInv, AtMostOnce, Only, Resolving
<1> QED  BY <1>1, <1>3, <1>4, <1>5 DEF TabInv

\* The end of a refresh: its tab refreshes no more.
LEMMA RefreshEnds ==
  ASSUME TypeOK, TabInv, NEW c \in Requests, call[c].pc \in Refreshing, call[c].tab \in Tabs,
         isRefreshing' = [isRefreshing EXCEPT ![call[c].tab] = FALSE],
         \A d \in Requests : \/ d # c /\ call'[d] = call[d]
                             \/ /\ call'[d].pc \notin Refreshing
                                /\ d = c \/ call[d].pc \notin Refreshing
  PROVE  RefreshOwned'
<1> DEFINE s == call[c].tab
<1>1. InRefresh(c, s)
  BY DEF InRefresh
<1>2. \A d \in Requests : InRefresh(d, s) => d = c
  BY <1>1 DEF TabInv, RefreshOwned
<1>3. \A d \in Requests, t \in Tabs : InRefresh(d, t)' <=> d # c /\ InRefresh(d, t)
  BY DEF InRefresh
<1>4. ~isRefreshing'[s] /\ \A t \in Tabs \ {s} : isRefreshing'[t] = isRefreshing[t]
  BY DEF TypeOK
<1>5. \A t \in Tabs \ {s} : ~InRefresh(c, t)
  BY DEF InRefresh
<1> HIDE DEF s
<1> SUFFICES ASSUME NEW t \in Tabs
             PROVE  /\ isRefreshing'[t] <=> \E d \in Requests : InRefresh(d, t)'
                    /\ \A d, e \in Requests : InRefresh(d, t)' /\ InRefresh(e, t)' => d = e
  BY DEF RefreshOwned
<1>6. CASE t = s
  BY <1>2, <1>3, <1>4, <1>6
<1>7. CASE t # s
  <2>1. isRefreshing[t] <=> \E d \in Requests : InRefresh(d, t)
    BY DEF TabInv, RefreshOwned
  <2>2. \A d, e \in Requests : InRefresh(d, t) /\ InRefresh(e, t) => d = e
    BY DEF TabInv, RefreshOwned
  <2>3. \A d \in Requests : InRefresh(d, t)' <=> InRefresh(d, t)
    BY <1>3, <1>5, <1>7
  <2> QED  BY <1>4, <1>7, <2>1, <2>2, <2>3
<1> QED  BY <1>6, <1>7

LEMMA TabInvRefreshed ==
  ASSUME TypeOK, TabInv, NEW c \in Requests, Refreshed(c)
  PROVE  TabInv'
<1> DEFINE s == call[c].tab
           new == call[c].token
<1>1. /\ call[c].pc = "issued" /\ executed' = executed
      /\ isRefreshing' = [isRefreshing EXCEPT ![s] = FALSE]
      /\ refreshQueue' = [refreshQueue EXCEPT ![s] = {}]
  BY DEF Refreshed
<1>2. /\ s \in Tabs /\ new \in Tokens
      /\ \A d \in Requests : call'[d] = IF d \in refreshQueue[s] \cup {c}
                                        THEN Call("sent", new, TRUE, s) ELSE call[d]
  BY RefreshedStep DEF TabInv
<1>3. \A d \in refreshQueue[s] : call[d].pc = "queued" /\ call[d].tab = s
  BY <1>2 DEF TabInv, QueueOwned
<1> HIDE DEF s, new
<1>4. \A d \in Requests : \/ /\ d = c \/ d \in refreshQueue[s]
                             /\ call'[d].pc = "sent" /\ call'[d].tab = s
                          \/ d # c /\ d \notin refreshQueue[s] /\ call'[d] = call[d]
  BY <1>2 DEF Call
<1>5. Shape'
  BY <1>2, <1>4 DEF TabInv, Shape
<1>6. RefreshOwned'
  <2>1. \A d \in Requests : \/ d # c /\ call'[d] = call[d]
                            \/ /\ call'[d].pc \notin Refreshing
                               /\ d = c \/ call[d].pc \notin Refreshing
    BY <1>3, <1>4 DEF Refreshing
  <2>2. call[c].pc \in Refreshing
    BY <1>1 DEF Refreshing
  <2> QED  BY <1>1, <1>2, <2>1, <2>2, RefreshEnds DEF s
<1>7. QueueOwned'
  <2> SUFFICES ASSUME NEW t \in Tabs, NEW d \in refreshQueue'[t]
               PROVE  call'[d].pc = "queued" /\ call'[d].tab = t
    BY DEF QueueOwned
  <2>1. t # s /\ d \in refreshQueue[t]
    BY <1>1, <1>2 DEF TypeOK
  <2>2. d \in Requests /\ call[d].pc = "queued" /\ call[d].tab = t
    BY <2>1 DEF TypeOK, TabInv, QueueOwned
  <2>3. d # c /\ d \notin refreshQueue[s]
    BY <1>1, <1>3, <2>1, <2>2
  <2> QED  BY <1>4, <2>2, <2>3
<1>8. AtMostOnce'
  <2> SUFFICES ASSUME NEW d \in Requests
               PROVE  executed'[d] <= IF call'[d].pc \in {"replied"} \cup Ended THEN 1 ELSE 0
    BY DEF AtMostOnce
  <2>1. executed[d] <= IF call[d].pc \in {"replied"} \cup Ended THEN 1 ELSE 0
    BY DEF TabInv, AtMostOnce
  <2>2. d = c \/ d \in refreshQueue[s] => executed[d] <= 0
    BY <1>1, <1>3, <2>1 DEF Settled, Ended
  <2> QED  BY <1>1, <1>4, <2>1, <2>2 DEF Settled, Ended
<1> QED  BY <1>5, <1>6, <1>7, <1>8 DEF TabInv

LEMMA TabInvRefused ==
  ASSUME TypeOK, TabInv, NEW c \in Requests, Refused(c)
  PROVE  TabInv'
<1> USE DEF Refreshing, Settled, Ended
<1>1. /\ call[c].pc = "refused" /\ call'[c].pc = "failed" /\ call'[c].tab = call[c].tab
      /\ Only(c) /\ call[c].tab \in Tabs
      /\ isRefreshing' = [isRefreshing EXCEPT ![call[c].tab] = FALSE]
      /\ executed' = executed /\ refreshQueue' = refreshQueue
  BY RefusedStep DEF Refused, TabInv
<1>2. Shape'
  BY <1>1 DEF TabInv, Shape, Only
<1>3. RefreshOwned'
  BY <1>1, RefreshEnds DEF Only
<1>4. QueueOwned'
  BY <1>1, QueueKept DEF TabInv
<1>5. AtMostOnce'
  <2> SUFFICES ASSUME NEW d \in Requests
               PROVE  executed'[d] <= IF call'[d].pc \in {"replied"} \cup Ended THEN 1 ELSE 0
    BY DEF AtMostOnce
  <2>1. /\ executed[d] \in Nat
        /\ executed[d] <= IF call[d].pc \in {"replied"} \cup Ended THEN 1 ELSE 0
    BY DEF TypeOK, TabInv, AtMostOnce
  <2> QED  BY <1>1, <2>1 DEF Only
<1> QED  BY <1>2, <1>3, <1>4, <1>5 DEF TabInv

\* A page that is left takes its refresh and its queue with it.
LEMMA TabInvLeave ==
  ASSUME TypeOK, TabInv, NEW t \in Tabs, Leave(t)
  PROVE  TabInv'
<1> USE DEF Refreshing, Settled, Ended
<1>1. \A d \in Requests : Cut(d, t)
  BY LeaveStep DEF TabInv
<1>2. /\ ~isRefreshing'[t] /\ \A s \in Tabs \ {t} : isRefreshing'[s] = isRefreshing[s]
      /\ refreshQueue'[t] = {} /\ \A s \in Tabs \ {t} : refreshQueue'[s] = refreshQueue[s]
      /\ executed' = executed
  BY DEF Leave, TypeOK
<1>3. \A d \in Requests : call[d].tab # t => call'[d] = call[d]
  BY <1>1 DEF Cut
<1>4. \A d \in Requests : call'[d].tab = call[d].tab
  BY <1>1 DEF Cut
<1>5. \A d \in Requests, s \in Tabs : InRefresh(d, s)' <=> s # t /\ InRefresh(d, s)
  <2> SUFFICES ASSUME NEW d \in Requests, NEW s \in Tabs
               PROVE  InRefresh(d, s)' <=> s # t /\ InRefresh(d, s)
    OBVIOUS
  <2>1. CASE call[d].tab = t
    <3>1. call'[d].pc \in Ended
      BY <1>1, <2>1 DEF Cut
    <3> QED  BY <1>4, <2>1, <3>1 DEF InRefresh
  <2>2. CASE call[d].tab # t
    BY <1>3, <2>2 DEF InRefresh
  <2> QED  BY <2>1, <2>2
<1>6. Shape'
  BY <1>1 DEF TabInv, Shape, Cut
<1>7. RefreshOwned'
  BY <1>2, <1>5 DEF TabInv, RefreshOwned
<1>8. QueueOwned'
  <2> SUFFICES ASSUME NEW s \in Tabs, NEW d \in refreshQueue'[s]
               PROVE  call'[d].pc = "queued" /\ call'[d].tab = s
    BY DEF QueueOwned
  <2>1. s # t /\ d \in refreshQueue[s]
    BY <1>2
  <2>2. d \in Requests /\ call[d].pc = "queued" /\ call[d].tab = s
    BY <2>1 DEF TypeOK, TabInv, QueueOwned
  <2> QED  BY <1>3, <2>1, <2>2
<1>9. AtMostOnce'
  <2> SUFFICES ASSUME NEW d \in Requests
               PROVE  executed[d] <= IF call'[d].pc \in {"replied"} \cup Ended THEN 1 ELSE 0
    BY <1>2 DEF AtMostOnce
  <2>1. /\ executed[d] \in Nat
        /\ executed[d] <= IF call[d].pc \in {"replied"} \cup Ended THEN 1 ELSE 0
    BY DEF TypeOK, TabInv, AtMostOnce
  <2>2. call'[d] = call[d] \/ call'[d].pc \in Ended
    BY <1>1 DEF Cut
  <2> QED  BY <2>1, <2>2
<1> QED  BY <1>6, <1>7, <1>8, <1>9 DEF TabInv

LEMMA TabInvStep ==
  ASSUME TypeOK, TabInv, AuthTypeOK', [Next]_vars
  PROVE  TypeOK' /\ TabInv'
<1>1. Shape
  BY DEF TabInv
<1> QED  BY <1>1, Kinds, TabInvAside, TabInvQuiet, TabInvStart, TabInvResolving, TabInvRefreshed,
            TabInvRefused, TabInvLeave

ClientInv == TypeOK /\ TabInv /\ AuthInv

LEMMA ClientInvInit == Init => ClientInv
<1> SUFFICES ASSUME Init PROVE ClientInv
  OBVIOUS
<1>1. AuthInv
  BY AuthInvInit DEF Init
<1>2. TypeOK
  BY <1>1 DEF Init, TypeOK, AuthInv, Call, SignedOut, Refreshing, Settled, Ended
<1>3. Shape /\ QueueOwned /\ AtMostOnce
  BY DEF Init, Shape, QueueOwned, AtMostOnce, Call, Settled, Ended
<1>4. RefreshOwned
  BY DEF Init, RefreshOwned, InRefresh, Call, Refreshing
<1> QED  BY <1>1, <1>2, <1>3, <1>4 DEF ClientInv, TabInv

LEMMA ClientInvStep ==
  ASSUME ClientInv, [Next]_vars
  PROVE  ClientInv' /\ [AuthNext]_authVars
<1>1. [AuthNext]_authVars
  BY StepOfSessions DEF ClientInv
<1>2. AuthInv'
  BY <1>1, AuthInvStep DEF ClientInv
<1>3. AuthTypeOK'
  BY <1>2 DEF AuthInv
<1>4. TypeOK' /\ TabInv'
  BY <1>3, TabInvStep DEF ClientInv
<1> QED  BY <1>1, <1>2, <1>4 DEF ClientInv

LEMMA ClientInvariant == Spec => []ClientInv
<1>1. ClientInv /\ [Next]_vars => ClientInv'
  BY ClientInvStep
<1> QED  BY <1>1, ClientInvInit, PTL DEF Spec

\* What the browser does to the sessions, by any calls in any tabs over a
\* network that loses what it likes, is a behaviour of the sessions alone.
THEOREM ClientUsesSessions == Spec => AuthSpec
<1>1. Init => AuthInit
  BY DEF Init
<1>2. ClientInv /\ [Next]_vars => [AuthNext]_authVars
  BY ClientInvStep
<1> QED  BY <1>1, <1>2, ClientInvariant, PTL DEF Spec, AuthSpec

\* Every variable of the browser and of the sessions keeps its type.
THEOREM ClientTypeCorrect == Spec => []TypeOK
<1>1. ClientInv => TypeOK
  BY DEF ClientInv
<1> QED  BY <1>1, ClientInvariant, PTL

\* apiClient's second attempt (apiClient.ts) never repeats a call that the
\* server ran, whatever is lost and however long a call has queued.
THEOREM CallsRunOnce == Spec => []AtMostOnce
<1>1. ClientInv => AtMostOnce
  BY DEF ClientInv, TabInv
<1> QED  BY <1>1, ClientInvariant, PTL

\* isRefreshing admits one refresh per tab and is reset by it alone.
THEOREM RefreshesExclude == Spec => []OneRefreshPerTab
<1>1. ClientInv => OneRefreshPerTab
  <2> SUFFICES ASSUME ClientInv, NEW t \in Tabs
               PROVE  Cardinality({c \in Requests : call[c].tab = t /\ call[c].pc \in Refreshing})
                      = IF isRefreshing[t] THEN 1 ELSE 0
    BY DEF OneRefreshPerTab
  <2> DEFINE S == {c \in Requests : call[c].tab = t /\ call[c].pc \in Refreshing}
  <2>1. \A c \in Requests : c \in S <=> InRefresh(c, t)
    BY DEF InRefresh
  <2>2. /\ isRefreshing[t] <=> \E c \in Requests : InRefresh(c, t)
        /\ \A c, d \in Requests : InRefresh(c, t) /\ InRefresh(d, t) => c = d
    BY DEF ClientInv, TabInv, RefreshOwned
  <2>3. CASE isRefreshing[t]
    <3>1. PICK c \in Requests : S = {c}
      BY <2>1, <2>2, <2>3
    <3>2. Cardinality(S) = 1
      BY <3>1, FS_Singleton
    <3> QED  BY <2>3, <3>2
  <2>4. CASE ~isRefreshing[t]
    <3>1. S = {}
      BY <2>1, <2>2, <2>4
    <3>2. Cardinality(S) = 0
      BY <3>1, FS_EmptySet
    <3> QED  BY <2>4, <3>2
  <2> QED  BY <2>3, <2>4
<1> QED  BY <1>1, ClientInvariant, PTL

\* What holds of the sessions holds under every browser.
THEOREM ClientSessionsSafe == Spec => [](ExchangeSpendsToken /\ SessionsNeedPlayer)
BY ClientUsesSessions, TokensAreSpent, DeletionEndsSessions, PTL

-----------------------------------------------------------------------------
(* The tokens.                                                              *)

Exchanging(r) == \E q \in Requests : exchange[q].pc # "none" /\ exchange[q].token = r

\* A request with r was sent, or may be.
Known(r) ==
  \/ stored.rt = r
  \/ \E d \in Requests : call[d].pc \in {"refreshing", "refused"} /\ call[d].token = r
  \/ Exchanging(r)
  \/ \E s \in Tokens : origin[s] = r

UnusedUnknown == \A r \in Tokens : session[r] = "unused" => ~Known(r)

\* A token that its tab has not stored yet: nobody can have spent it.
IssuedUnknown ==
  \A c \in Requests, r \in Tokens :
    call[c].pc = "issued" /\ call[c].token = r =>
      ~Known(r) /\ session[r] \notin {"unused", "revoked"}

IssuedOnce ==
  \A c, d \in Requests :
    call[c].pc = "issued" /\ call[d].pc = "issued" /\ call[d].token = call[c].token => c = d

\* The server's part of c's refresh is about the token c posted.
OwnExchange ==
  \A c \in Requests :
    exchange[c].pc # "none" =>
      /\ call[c].pc \in {"refreshing", "refused", "failed", "abandoned"}
      /\ call[c].pc = "refreshing" => exchange[c].token = call[c].token

\* A call whose refresh posted r, and whose tab has not been told or was left.
Accounts(c, r) == Presents(c, r) \/ Abandoned(c, r)

\* Whoever spends the stored token has told no tab yet.
TokenPresented ==
  \A r \in Tokens :
    stored.rt = r /\ (session[r] = "revoked" \/ Exchanging(r)) => \E c \in Requests : Accounts(c, r)

TokenInv == UnusedUnknown /\ IssuedUnknown /\ IssuedOnce /\ OwnExchange /\ TokenPresented

\* Steps that show a token to nobody and spend none, and after which whoever was
\* about to tell of one still is, or nothing is stored.
LEMMA NothingLearnt ==
  ASSUME TokenInv,
         \A r \in Tokens : Known(r)' => Known(r),
         \A r \in Tokens : session'[r] = "unused" => session[r] = "unused",
         \A r \in Tokens : session'[r] = "revoked" => session[r] = "revoked",
         \A r \in Tokens : Exchanging(r)' => Exchanging(r),
         \/ stored'.rt = None
         \/ /\ stored'.rt = stored.rt
            /\ \A r \in Tokens, c \in Requests : Accounts(c, r) => Accounts(c, r)',
         \A c \in Requests : call'[c].pc = "issued" =>
           /\ call[c].pc = "issued" /\ call'[c].token = call[c].token /\ call[c].token \in Tokens,
         OwnExchange'
  PROVE  TokenInv'
<1>1. UnusedUnknown'
  BY DEF TokenInv, UnusedUnknown
<1>2. IssuedUnknown'
  <2> SUFFICES ASSUME NEW c \in Requests, NEW r \in Tokens,
                      call'[c].pc = "issued", call'[c].token = r
               PROVE  ~Known(r)' /\ session'[r] \notin {"unused", "revoked"}
    BY DEF IssuedUnknown
  <2>1. call[c].pc = "issued" /\ call[c].token = r
    OBVIOUS
  <2>2. ~Known(r) /\ session[r] \notin {"unused", "revoked"}
    BY <2>1 DEF TokenInv, IssuedUnknown
  <2> QED  BY <2>2
<1>3. IssuedOnce'
  <2>1. IssuedOnce
    BY DEF TokenInv
  <2> QED  BY <2>1 DEF IssuedOnce
<1>4. TokenPresented'
  <2> SUFFICES ASSUME NEW r \in Tokens, stored'.rt = r,
                      session'[r] = "revoked" \/ Exchanging(r)'
               PROVE  \E c \in Requests : Accounts(c, r)'
    BY DEF TokenPresented
  <2>1. stored'.rt = stored.rt
    BY TokenAssumption
  <2>2. PICK c \in Requests : Accounts(c, r)
    BY <2>1 DEF TokenInv, TokenPresented
  <2>3. Accounts(c, r)'
    BY <2>2, TokenAssumption
  <2> QED  BY <2>3
<1> QED  BY <1>1, <1>2, <1>3, <1>4 DEF TokenInv

LEMMA TokenInvQuiet ==
  ASSUME TypeOK, Shape, TokenInv, NEW c \in Requests, Quiet(c)
  PROVE  TokenInv'
<1>1. /\ call[c].pc \notin Refreshing /\ call'[c].pc \notin Refreshing /\ Only(c)
      /\ call[c].pc \notin {"failed", "abandoned"}
      /\ player' = player /\ session' = session /\ exchange' = exchange /\ origin' = origin
      /\ stored' = stored
  BY DEF Quiet, Refreshing, Settled, authVars
<1>2. \A d \in Requests : d # c => call'[d] = call[d]
  BY <1>1 DEF Only
<1>3. \A r \in Tokens : Exchanging(r)' <=> Exchanging(r)
  BY <1>1 DEF Exchanging
<1>4. \A r \in Tokens : Known(r)' => Known(r)
  BY <1>1, <1>2, <1>3 DEF Known, Refreshing
<1>5. \A r \in Tokens, d \in Requests : Accounts(d, r) => Accounts(d, r)'
  BY <1>1, <1>2 DEF Accounts, Presents, Abandoned, Refreshing
<1>6. OwnExchange'
  BY <1>1, <1>2 DEF TokenInv, OwnExchange, Refreshing
<1>7. \A d \in Requests : call'[d].pc = "issued" =>
        call[d].pc = "issued" /\ call'[d].token = call[d].token /\ call[d].token \in Tokens
  BY <1>1, <1>2 DEF Shape, Refreshing
<1> QED  BY <1>1, <1>3, <1>4, <1>5, <1>6, <1>7, NothingLearnt

LEMMA TokenInvStart ==
  ASSUME TypeOK, Shape, TokenInv, NEW c \in Requests, StartRefresh(c)
  PROVE  TokenInv'
<1>1. /\ call[c].pc = "rejected" /\ call'[c].pc = "refreshing" /\ call'[c].token = stored.rt
      /\ Only(c)
      /\ session' = session /\ exchange' = exchange /\ origin' = origin /\ stored' = stored
  BY StartStep DEF StartRefresh, Call, authVars
<1>2. \A d \in Requests : d # c => call'[d] = call[d]
  BY <1>1 DEF Only
<1>3. \A r \in Tokens : Exchanging(r)' <=> Exchanging(r)
  BY <1>1 DEF Exchanging
<1>4. \A r \in Tokens : Known(r)' => Known(r)
  BY <1>1, <1>2, <1>3 DEF Known
<1>5. \A r \in Tokens, d \in Requests : Accounts(d, r) => Accounts(d, r)'
  BY <1>1, <1>2 DEF Accounts, Presents, Abandoned
<1>6. OwnExchange'
  BY <1>1, <1>2 DEF TokenInv, OwnExchange
<1>7. \A d \in Requests : call'[d].pc = "issued" =>
        call[d].pc = "issued" /\ call'[d].token = call[d].token /\ call[d].token \in Tokens
  BY <1>1, <1>2 DEF Shape
<1> QED  BY <1>1, <1>3, <1>4, <1>5, <1>6, <1>7, NothingLearnt

LEMMA TokenInvRefused ==
  ASSUME TypeOK, Shape, TokenInv, NEW c \in Requests, Refused(c)
  PROVE  TokenInv'
<1>1. /\ call[c].pc = "refused" /\ call'[c].pc = "failed" /\ Only(c) /\ stored'.rt = None
      /\ session' = session /\ exchange' = exchange /\ origin' = origin
  BY RefusedStep DEF Refused, SignedOut, authVars
<1>2. \A d \in Requests : d # c => call'[d] = call[d]
  BY <1>1 DEF Only
<1>3. \A r \in Tokens : Exchanging(r)' <=> Exchanging(r)
  BY <1>1 DEF Exchanging
<1>4. \A r \in Tokens : Known(r)' => Known(r)
  BY <1>1, <1>2, <1>3 DEF Known
<1>5. OwnExchange'
  BY <1>1, <1>2 DEF TokenInv, OwnExchange
<1>6. \A d \in Requests : call'[d].pc = "issued" =>
        call[d].pc = "issued" /\ call'[d].token = call[d].token /\ call[d].token \in Tokens
  BY <1>1, <1>2 DEF Shape
<1> QED  BY <1>1, <1>3, <1>4, <1>5, <1>6, NothingLearnt

\* The refresh of c is refused or lost, or the server gives it up.
LEMMA TokenInvGivenUp ==
  ASSUME TypeOK, Shape, TokenInv, NEW c \in Requests, Refuse(c) \/ LoseRefresh(c) \/ FailRefresh(c)
  PROVE  TokenInv'
<1>1. /\ session' = session /\ origin' = origin /\ stored' = stored
      /\ \A d \in Requests : d # c => exchange'[d] = exchange[d]
      /\ exchange' = exchange \/ exchange'[c].pc = "none"
  <2>1. CASE Refuse(c) \/ LoseRefresh(c)
    BY <2>1 DEF Refuse, LoseRefresh, authVars
  <2>2. CASE FailRefresh(c)
    <3>1. /\ session' = session /\ origin' = origin /\ stored' = stored
          /\ exchange' = [exchange EXCEPT ![c] = NoExchange]
      BY <2>2 DEF FailRefresh, RefreshFail
    <3>2. /\ exchange'[c] = NoExchange
          /\ \A d \in Requests : d # c => exchange'[d] = exchange[d]
      BY <3>1 DEF TypeOK, AuthTypeOK
    <3> QED  BY <3>1, <3>2 DEF NoExchange
  <2> QED  BY <2>1, <2>2
<1>2. \A d \in Requests : d # c => call'[d] = call[d]
  BY DEF Refuse, LoseRefresh, FailRefresh, TypeOK
<1>3. \/ call'[c] = call[c]
      \/ /\ call'[c].pc = "refused" /\ call[c].pc \in {"refreshing", "issued"}
         /\ call'[c].token = IF call[c].pc = "issued" THEN origin[call[c].token] ELSE call[c].token
  <2>1. CASE LoseRefresh(c)
    BY <2>1, CallType DEF LoseRefresh, Posted, Call
  <2>2. CASE Refuse(c) \/ (FailRefresh(c) /\ call[c].pc = "refreshing")
    <3>1. call[c].pc = "refreshing" /\ call' = [call EXCEPT ![c].pc = "refused"]
      BY <2>2 DEF Refuse, FailRefresh
    <3> QED  BY <3>1, PcSet DEF PcStates, Refreshing
  <2>3. CASE FailRefresh(c) /\ call[c].pc # "refreshing"
    BY <2>3 DEF FailRefresh
  <2> QED  BY <2>1, <2>2, <2>3
<1>4. call[c].pc = "issued" => call[c].token \in Tokens
  BY DEF Shape
<1>5. \A r \in Tokens : Exchanging(r)' => Exchanging(r)
  BY <1>1 DEF Exchanging
<1>6. \A r \in Tokens : Known(r)' => Known(r)
  BY <1>1, <1>2, <1>3, <1>4, <1>5 DEF Known
<1>7. \A r \in Tokens, d \in Requests : Accounts(d, r) => Accounts(d, r)'
  BY <1>1, <1>2, <1>3 DEF Accounts, Presents, Abandoned
<1>8. OwnExchange'
  BY <1>1, <1>2, <1>3 DEF TokenInv, OwnExchange
<1>9. \A d \in Requests : call'[d].pc = "issued" =>
        call[d].pc = "issued" /\ call'[d].token = call[d].token /\ call[d].token \in Tokens
  BY <1>2, <1>3 DEF Shape
<1> QED  BY <1>1, <1>5, <1>6, <1>7, <1>8, <1>9, NothingLearnt

\* Time passes, the player is deleted or signs out, or nothing happens.
LEMMA TokenInvIdle ==
  ASSUME TypeOK, Shape, TokenInv, Time \/ Admin \/ (\E t \in Tabs : Logout(t)) \/ UNCHANGED vars
  PROVE  TokenInv'
<1>1. /\ call' = call /\ exchange' = exchange /\ origin' = origin
      /\ stored' = stored \/ stored'.rt = None
  BY DEF Time, Admin, Logout, vars, clientVars, authVars, ExpireAccess, Expire, DeletePlayer, SignedOut
<1> DEFINE Same == \A r \in Tokens : session'[r] \in {"unused", "revoked"} => session'[r] = session[r]
<1>2. Same
  <2>1. ASSUME NEW k \in Tokens, Expire(k) PROVE Same
    BY <2>1 DEF Expire, TypeOK, AuthTypeOK
  <2>2. CASE Admin
    BY <2>2 DEF Admin, DeletePlayer
  <2>3. CASE session' = session
    BY <2>3
  <2> QED  BY <2>1, <2>2, <2>3 DEF Time, ExpireAccess, Logout, vars, authVars
<1>3. \A r \in Tokens : Exchanging(r)' => Exchanging(r)
  BY <1>1 DEF Exchanging
<1>4. \A r \in Tokens : Known(r)' => Known(r)
  BY <1>1, <1>3 DEF Known
<1>5. \A r \in Tokens, d \in Requests : Accounts(d, r) => Accounts(d, r)'
  BY <1>1 DEF Accounts, Presents, Abandoned
<1>6. OwnExchange'
  BY <1>1 DEF TokenInv, OwnExchange
<1>7. \A d \in Requests : call'[d].pc = "issued" =>
        call[d].pc = "issued" /\ call'[d].token = call[d].token /\ call[d].token \in Tokens
  BY <1>1 DEF Shape
<1> QED  BY <1>1, <1>2, <1>3, <1>4, <1>5, <1>6, <1>7, NothingLearnt

\* The page is left: what its refresh posted is not forgotten.
LEMMA TokenInvLeave ==
  ASSUME TypeOK, Shape, TokenInv, NEW t \in Tabs, Leave(t)
  PROVE  TokenInv'
<1>1. /\ session' = session /\ exchange' = exchange /\ origin' = origin /\ stored' = stored
  BY DEF Leave, authVars
<1>2. \A d \in Requests :
        \/ call'[d] = call[d]
        \/ call[d].pc \in Refreshing /\ call'[d].pc = "abandoned" /\ call'[d].token = Posted(d)
        \/ call[d].pc \notin Refreshing \cup Ended /\ call'[d].pc = "gone"
  BY LeaveStep DEF Cut
<1>3. \A r \in Tokens : Exchanging(r)' <=> Exchanging(r)
  BY <1>1 DEF Exchanging
<1>4. \A r \in Tokens : Known(r)' => Known(r)
  BY <1>1, <1>2, <1>3 DEF Known
<1>5. \A r \in Tokens, d \in Requests : Accounts(d, r) => Accounts(d, r)'
  BY <1>1, <1>2 DEF Accounts, Presents, Abandoned, Posted, Refreshing, Ended, Settled
<1>6. OwnExchange'
  BY <1>1, <1>2 DEF TokenInv, OwnExchange, Refreshing, Ended, Settled
<1>7. \A d \in Requests : call'[d].pc = "issued" =>
        call[d].pc = "issued" /\ call'[d].token = call[d].token /\ call[d].token \in Tokens
  BY <1>2 DEF Shape
<1> QED  BY <1>1, <1>3, <1>4, <1>5, <1>6, <1>7, NothingLearnt

\* The server finds the posted token live.
LEMMA TokenInvCheck ==
  ASSUME TypeOK, Shape, TokenInv, NEW c \in Requests, Check(c)
  PROVE  TokenInv'
<1> DEFINE k == call[c].token
<1>1. /\ call[c].pc = "refreshing" /\ k \in Tokens
      /\ exchange' = [exchange EXCEPT ![c] = [pc |-> "checked", token |-> k]]
      /\ session' = session /\ origin' = origin /\ call' = call /\ stored' = stored
  BY CallType DEF Check, RefreshCheck, clientVars, CallRows
<1>2. /\ \A d \in Requests : d # c => exchange'[d] = exchange[d]
      /\ exchange'[c].pc = "checked" /\ exchange'[c].token = k
  BY <1>1 DEF TypeOK, AuthTypeOK
<1>3. \A r \in Tokens : Exchanging(r)' => Exchanging(r) \/ r = k
  BY <1>2 DEF Exchanging
<1>4. \A r \in Tokens : Known(r)' => Known(r)
  BY <1>1, <1>3 DEF Known
<1>5. \A r \in Tokens, d \in Requests : Accounts(d, r)' <=> Accounts(d, r)
  BY <1>1 DEF Accounts, Presents, Abandoned
<1>6. UnusedUnknown' /\ IssuedUnknown' /\ IssuedOnce'
  BY <1>1, <1>4 DEF TokenInv, UnusedUnknown, IssuedUnknown, IssuedOnce
<1>7. OwnExchange'
  BY <1>1, <1>2 DEF TokenInv, OwnExchange
<1>8. TokenPresented'
  <2> SUFFICES ASSUME NEW r \in Tokens, stored'.rt = r,
                      session'[r] = "revoked" \/ Exchanging(r)'
               PROVE  \E d \in Requests : Accounts(d, r)'
    BY DEF TokenPresented
  <2>1. CASE r = k
    <3>1. Accounts(c, r)
      BY <1>1, <2>1 DEF Accounts, Presents, Abandoned
    <3> QED  BY <1>5, <3>1
  <2>2. CASE r # k
    <3>1. PICK d \in Requests : Accounts(d, r)
      BY <1>1, <1>3, <2>2 DEF TokenInv, TokenPresented
    <3> QED  BY <1>5, <3>1
  <2> QED  BY <2>1, <2>2
<1> QED  BY <1>6, <1>7, <1>8 DEF TokenInv

\* The server spends the posted token: whoever posted it presents it still.
LEMMA TokenInvRevoke ==
  ASSUME TypeOK, AuthInv, TokenInv, NEW c \in Requests, Revoke(c)
  PROVE  TokenInv'
<1> DEFINE k == exchange[c].token
<1>1. /\ exchange[c].pc = "checked" /\ k \in Tokens
      /\ session' = [session EXCEPT ![k] = IF session[k] = "deleted" THEN session[k] ELSE "revoked"]
      /\ exchange' = [exchange EXCEPT ![c].pc = "revoked"]
      /\ origin' = origin /\ call' = call /\ stored' = stored
  BY DEF Revoke, RefreshRevoke, clientVars, AuthInv, RevokedStaysSpent
<1>2. /\ \A d \in Requests : exchange'[d].token = exchange[d].token
      /\ \A d \in Requests : exchange'[d].pc # "none" <=> exchange[d].pc # "none"
  BY <1>1 DEF TypeOK, AuthTypeOK
<1>3. /\ \A r \in Tokens : r # k => session'[r] = session[r]
      /\ session'[k] # "unused"
  BY <1>1 DEF TypeOK, AuthTypeOK
<1>4. \A r \in Tokens : Exchanging(r)' <=> Exchanging(r)
  BY <1>2 DEF Exchanging
<1>5. \A r \in Tokens : Known(r)' => Known(r)
  BY <1>1, <1>4 DEF Known
<1>6. \A r \in Tokens, d \in Requests : Accounts(d, r)' <=> Accounts(d, r)
  BY <1>1 DEF Accounts, Presents, Abandoned
<1>7. Exchanging(k) /\ Known(k)
  BY <1>1 DEF Exchanging, Known
<1> HIDE DEF k
<1>8. UnusedUnknown'
  BY <1>3, <1>5 DEF TokenInv, UnusedUnknown
<1>9. IssuedUnknown' /\ IssuedOnce'
  BY <1>1, <1>3, <1>5, <1>7 DEF TokenInv, IssuedUnknown, IssuedOnce
<1>10. OwnExchange'
  BY <1>1, <1>2 DEF TokenInv, OwnExchange
<1>11. TokenPresented'
  BY <1>1, <1>3, <1>4, <1>6, <1>7 DEF TokenInv, TokenPresented
<1> QED  BY <1>8, <1>9, <1>10, <1>11 DEF TokenInv

LEMMA TokenInvSignIn ==
  ASSUME TypeOK, Shape, TokenInv, NEW t \in Tabs, NEW new \in Tokens, SignIn(t, new)
  PROVE  TokenInv'
<1>1. /\ session[new] = "unused" /\ session' = [session EXCEPT ![new] = "live"]
      /\ origin' = [origin EXCEPT ![new] = None] /\ exchange' = exchange
      /\ call' = call /\ stored'.rt = new
  BY DEF SignIn, Login, IssueTokens
<1>2. /\ \A r \in Tokens : r # new => session'[r] = session[r] /\ origin'[r] = origin[r]
      /\ session'[new] = "live" /\ origin'[new] = None
  BY <1>1 DEF TypeOK, AuthTypeOK
<1>3. \A r \in Tokens : Exchanging(r)' <=> Exchanging(r)
  BY <1>1 DEF Exchanging
<1>4. \A r \in Tokens : Known(r)' => Known(r) \/ r = new
  BY <1>1, <1>2, <1>3 DEF Known
<1>5. ~Exchanging(new)
  BY <1>1 DEF TokenInv, UnusedUnknown, Known
<1>6. UnusedUnknown'
  BY <1>2, <1>4 DEF TokenInv, UnusedUnknown
<1>7. IssuedUnknown' /\ IssuedOnce'
  BY <1>1, <1>2, <1>4 DEF TokenInv, IssuedUnknown, IssuedOnce
<1>8. OwnExchange'
  BY <1>1 DEF TokenInv, OwnExchange
<1>9. TokenPresented'
  BY <1>1, <1>2, <1>3, <1>5 DEF TokenPresented
<1> QED  BY <1>6, <1>7, <1>8, <1>9 DEF TokenInv

\* A new pair for the posted token: the call that posted it, if it still waits,
\* presents it by what it is about to store.
LEMMA TokenInvIssue ==
  ASSUME TypeOK, Shape, AuthInv, TokenInv, NEW c \in Requests, NEW new \in Tokens, Issue(c, new)
  PROVE  TokenInv'
<1> DEFINE from == exchange[c].token
<1>1. /\ exchange[c].pc = "revoked" /\ from \in Tokens
      /\ session[new] = "unused" /\ session' = [session EXCEPT ![new] = "live"]
      /\ origin' = [origin EXCEPT ![new] = from] /\ exchange' = [exchange EXCEPT ![c] = NoExchange]
      /\ stored' = stored
  BY DEF Issue, RefreshIssue, IssueTokens, AuthInv, RevokedStaysSpent
<1>2. /\ \A r \in Tokens : r # new => session'[r] = session[r] /\ origin'[r] = origin[r]
      /\ session'[new] = "live" /\ origin'[new] = from
      /\ \A d \in Requests : d # c => exchange'[d] = exchange[d]
      /\ exchange'[c].pc = "none"
  BY <1>1 DEF TypeOK, AuthTypeOK, NoExchange
<1>3. /\ \A d \in Requests : d # c => call'[d] = call[d]
      /\ \/ call[c].pc # "refreshing" /\ call'[c] = call[c]
         \/ call[c].pc = "refreshing" /\ call'[c].pc = "issued" /\ call'[c].token = new
  BY DEF Issue, Call, TypeOK
<1>4. Exchanging(from) /\ Known(from)
  BY <1>1 DEF Exchanging, Known
<1>5. call[c].pc = "refreshing" => call[c].token = from
  BY <1>1 DEF TokenInv, OwnExchange
<1> HIDE DEF from
<1>6. \A r \in Tokens : Exchanging(r)' => Exchanging(r)
  BY <1>2 DEF Exchanging
<1>7. \A r \in Tokens : Known(r)' => Known(r)
  <2> SUFFICES ASSUME NEW r \in Tokens, Known(r)' PROVE Known(r)
    OBVIOUS
  <2>1. CASE \E s \in Tokens : origin'[s] = r
    <3>1. r = from \/ \E s \in Tokens : origin[s] = r
      BY <1>2, <2>1
    <3> QED  BY <1>4, <3>1 DEF Known
  <2>2. CASE \E d \in Requests : call'[d].pc \in {"refreshing", "refused"} /\ call'[d].token = r
    BY <1>3, <2>2 DEF Known
  <2>3. CASE stored'.rt = r \/ Exchanging(r)'
    BY <1>1, <1>6, <2>3 DEF Known
  <2> QED  BY <2>1, <2>2, <2>3 DEF Known
<1>8. ~Known(new) /\ stored.rt # new
  BY <1>1 DEF TokenInv, UnusedUnknown, Known
<1>9. \A d \in Requests : call[d].pc = "issued" => call[d].token \in Tokens /\ call[d].token # new
  BY <1>1 DEF TokenInv, IssuedUnknown, Shape
<1>10. UnusedUnknown'
  BY <1>2, <1>7 DEF TokenInv, UnusedUnknown
<1>11. IssuedUnknown'
  <2> SUFFICES ASSUME NEW d \in Requests, NEW r \in Tokens, call'[d].pc = "issued", call'[d].token = r
               PROVE  ~Known(r)' /\ session'[r] \notin {"unused", "revoked"}
    BY DEF IssuedUnknown
  <2>1. CASE r = new
    BY <1>2, <1>7, <1>8, <2>1
  <2>2. CASE r # new
    <3>1. call[d].pc = "issued" /\ call[d].token = r
      BY <1>3, <2>2
    <3> QED  BY <1>2, <1>7, <2>2, <3>1 DEF TokenInv, IssuedUnknown
  <2> QED  BY <2>1, <2>2
<1>12. IssuedOnce'
  BY <1>3, <1>9 DEF TokenInv, IssuedOnce
<1>13. OwnExchange'
  BY <1>2, <1>3 DEF TokenInv, OwnExchange
<1>14. TokenPresented'
  <2> SUFFICES ASSUME NEW r \in Tokens, stored'.rt = r,
                      session'[r] = "revoked" \/ Exchanging(r)'
               PROVE  \E d \in Requests : Accounts(d, r)'
    BY DEF TokenPresented
  <2>1. r # new
    BY <1>1, <1>8
  <2>2. PICK d \in Requests : Accounts(d, r)
    BY <1>1, <1>2, <1>6, <2>1 DEF TokenInv, TokenPresented
  <2>3. CASE call[d].pc = "issued"
    <3>1. call'[d] = call[d] /\ origin'[call[d].token] = origin[call[d].token]
      BY <1>2, <1>3, <1>9, <2>3
    <3> QED  BY <2>2, <2>3, <3>1 DEF Accounts, Presents, Abandoned
  <2>4. CASE d = c /\ call[d].pc = "refreshing"
    <3>1. call'[d].pc = "issued" /\ call'[d].token = new /\ from = r
      BY <1>3, <1>5, <2>2, <2>4 DEF Accounts, Presents, Abandoned
    <3> QED  BY <1>2, <3>1 DEF Accounts, Presents, Abandoned
  <2>5. CASE call[d].pc # "issued" /\ (d # c \/ call[d].pc # "refreshing")
    <3>1. call'[d] = call[d]
      BY <1>3, <2>5
    <3> QED  BY <2>2, <2>5, <3>1 DEF Accounts, Presents, Abandoned
  <2> QED  BY <2>3, <2>4, <2>5
<1> QED  BY <1>10, <1>11, <1>12, <1>13, <1>14 DEF TokenInv

\* The tab stores what it was issued: nobody has spent it.
LEMMA TokenInvRefreshed ==
  ASSUME TypeOK, TabInv, TokenInv, NEW c \in Requests, Refreshed(c)
  PROVE  TokenInv'
<1> DEFINE new == call[c].token
           s == call[c].tab
<1>1. /\ call[c].pc = "issued" /\ stored'.rt = new
      /\ session' = session /\ exchange' = exchange /\ origin' = origin
  BY DEF Refreshed, authVars
<1>2. /\ s \in Tabs /\ new \in Tokens
      /\ \A d \in Requests : call'[d] = IF d \in refreshQueue[s] \cup {c}
                                        THEN Call("sent", new, TRUE, s) ELSE call[d]
  BY RefreshedStep DEF TabInv
<1>3. \A d \in refreshQueue[s] : call[d].pc = "queued"
  BY <1>2 DEF TabInv, QueueOwned
<1> HIDE DEF new, s
<1>4. \A d \in Requests : \/ d # c /\ call'[d] = call[d]
                          \/ /\ call'[d].pc = "sent"
                             /\ call[d].pc \in {"issued", "queued"}
  BY <1>1, <1>2, <1>3 DEF Call
<1>5. call'[c].pc = "sent"
  BY <1>2 DEF Call
<1>6. /\ ~Known(new) /\ session[new] \notin {"unused", "revoked"} /\ ~Exchanging(new)
      /\ \A d \in Requests : d # c /\ call[d].pc = "issued" => call[d].token # new
  BY <1>1, <1>2 DEF TokenInv, IssuedUnknown, IssuedOnce, Known, new
<1>7. \A r \in Tokens : Exchanging(r)' <=> Exchanging(r)
  BY <1>1 DEF Exchanging
<1>8. \A r \in Tokens : Known(r)' => Known(r) \/ r = new
  BY <1>1, <1>4, <1>7 DEF Known
<1>9. UnusedUnknown'
  BY <1>1, <1>6, <1>8 DEF TokenInv, UnusedUnknown
<1>10. IssuedUnknown' /\ IssuedOnce'
  BY <1>1, <1>4, <1>5, <1>6, <1>8 DEF TokenInv, IssuedUnknown, IssuedOnce
<1>11. OwnExchange'
  BY <1>1, <1>4 DEF TokenInv, OwnExchange
<1>12. TokenPresented'
  BY <1>1, <1>6, <1>7 DEF TokenPresented
<1> QED  BY <1>9, <1>10, <1>11, <1>12 DEF TokenInv

LEMMA TokenInvStep ==
  ASSUME ClientInv, TokenInv, [Next]_vars
  PROVE  TokenInv'
<1>1. TypeOK /\ Shape /\ TabInv /\ AuthInv
  BY DEF ClientInv, TabInv
<1>2. ASSUME NEW c \in Requests,
             \/ \E t \in TabsOf[c] : Send(c, t)
             \/ Serve(c) \/ Receive(c) \/ Lose(c) \/ ReturnRejection(c) \/ Enqueue(c)
      PROVE  TokenInv'
  BY <1>1, <1>2, QuietSteps, TokenInvQuiet
<1>3. ASSUME NEW c \in Requests,
             \/ StartRefresh(c) \/ Refused(c) \/ Refreshed(c)
             \/ Refuse(c) \/ LoseRefresh(c) \/ FailRefresh(c)
             \/ Check(c) \/ Revoke(c) \/ \E new \in Tokens : Issue(c, new)
      PROVE  TokenInv'
  BY <1>1, <1>3, TokenInvStart, TokenInvRefused, TokenInvRefreshed, TokenInvGivenUp,
     TokenInvCheck, TokenInvRevoke, TokenInvIssue
<1>4. ASSUME NEW t \in Tabs, NEW new \in Tokens, SignIn(t, new) PROVE TokenInv'
  BY <1>1, <1>4, TokenInvSignIn
<1>5. CASE Time \/ Admin \/ (\E t \in Tabs : Logout(t)) \/ UNCHANGED vars
  BY <1>1, <1>5, TokenInvIdle
<1>6. ASSUME NEW t \in Tabs, Leave(t) PROVE TokenInv'
  BY <1>1, <1>6, TokenInvLeave
<1> QED  BY <1>2, <1>3, <1>4, <1>5, <1>6 DEF Next

LEMMA TokenInvariant == Spec => []TokenInv
<1>1. Init => TokenInv
  <2> SUFFICES ASSUME Init PROVE TokenInv
    OBVIOUS
  <2>1. /\ \A c \in Requests : call[c].pc = "idle" /\ exchange[c].pc = "none"
        /\ stored.rt = None /\ \A r \in Tokens : origin[r] = None
    BY DEF Init, AuthInit, Call, NoExchange, SignedOut
  <2>2. \A r \in Tokens : ~Known(r)
    BY <2>1, Zenon DEF Known, Exchanging
  <2> QED  BY <2>1, <2>2 DEF TokenInv, UnusedUnknown, IssuedUnknown, IssuedOnce, OwnExchange,
                             TokenPresented
<1>2. ClientInv /\ TokenInv /\ [Next]_vars => TokenInv'
  BY TokenInvStep
<1> QED  BY <1>1, <1>2, ClientInvariant, PTL DEF Spec

\* The token in localStorage is spent only while a tab waits for the answer that
\* replaces it, or will sign the player out, or after the page that waited was
\* left: refreshTokenFlow in any number of tabs strands the player with a token
\* the server refuses in no other way.
THEOREM StoredTokensUsable == Spec => []StoredTokenUnspent
<1>1. TokenInv => StoredTokenUnspent
  BY DEF TokenInv, TokenPresented, StoredTokenUnspent, Accounts
<1> QED  BY <1>1, TokenInvariant, PTL

-----------------------------------------------------------------------------
(* How calls end.                                                           *)

\* How far a call is from its end: the second time it is sent it is closer to it
\* than by any refresh or queue of the first.
Distance(row) ==
  CASE row.pc = "idle" -> 10
    [] row.pc = "sent" -> IF row.retried THEN 4 ELSE 9
    [] row.pc = "rejected" -> IF row.retried THEN 1 ELSE 8
    [] row.pc \in {"queued", "refreshing"} -> 7
    [] row.pc = "issued" -> 6
    [] row.pc = "refused" -> 5
    [] row.pc = "replied" -> 1
    [] OTHER -> 0

CallsAdvance == \A c \in Requests : call'[c] # call[c] => Distance(call'[c]) < Distance(call[c])

\* A step that moves one call brings it closer.
LEMMA OneAdvances ==
  ASSUME TypeOK, NEW c \in Requests, NEW row, call' = [call EXCEPT ![c] = row],
         Distance(row) < Distance(call[c])
  PROVE  CallsAdvance
BY DEF CallsAdvance, TypeOK

LEMMA CallRow ==
  ASSUME TypeOK, NEW c \in Requests
  PROVE  /\ call[c] \in CallRows
         /\ \A pc : LET row == [call[c] EXCEPT !.pc = pc]
                    IN  row.pc = pc /\ row.retried = call[c].retried
BY CallType DEF CallRows

\* The tab's and the server's steps with a call that is sent or answered.
LEMMA AnswerAdvances ==
  ASSUME TypeOK, NEW c \in Requests,
         \/ \E t \in TabsOf[c] : Send(c, t)
         \/ Serve(c) \/ Receive(c) \/ Lose(c) \/ ReturnRejection(c) \/ Enqueue(c)
         \/ StartRefresh(c)
  PROVE  CallsAdvance
<1>1. ASSUME NEW t \in TabsOf[c], Send(c, t) PROVE CallsAdvance
  <2> DEFINE row == Call("sent", getAccessToken(t), FALSE, t)
  <2>1. call' = [call EXCEPT ![c] = row] /\ call[c].pc = "idle"
    BY <1>1 DEF Send
  <2>2. Distance(row) = 9 /\ Distance(call[c]) = 10
    BY <2>1 DEF Distance, Call
  <2> HIDE DEF row
  <2>3. Distance(row) < Distance(call[c])
    BY <2>2
  <2> QED  BY <2>1, <2>3, OneAdvances
<1>2. CASE Serve(c)
  <2>1. PICK pc \in {"replied", "rejected"} : call' = [call EXCEPT ![c] = [@ EXCEPT !.pc = pc]]
    BY <1>2 DEF Serve
  <2> DEFINE row == [call[c] EXCEPT !.pc = pc]
  <2>2. row.pc = pc /\ row.retried = call[c].retried
    BY CallRow
  <2>3. Distance(call[c]) = IF call[c].retried THEN 4 ELSE 9
    BY <1>2 DEF Serve, Distance
  <2>4. call' = [call EXCEPT ![c] = row]
    BY <2>1
  <2> HIDE DEF row
  <2>5. Distance(row) \in {1, 8} /\ (call[c].retried => Distance(row) = 1)
    BY <2>2 DEF Distance
  <2>6. Distance(row) < Distance(call[c])
    BY <2>3, <2>5
  <2> QED  BY <2>4, <2>6, OneAdvances
<1>3. CASE Receive(c) \/ Lose(c) \/ ReturnRejection(c)
  <2>1. PICK pc \in {"succeeded", "failed"} : call' = [call EXCEPT ![c] = [@ EXCEPT !.pc = pc]]
    BY <1>3 DEF Receive, Lose, ReturnRejection
  <2> DEFINE row == [call[c] EXCEPT !.pc = pc]
  <2>2. row.pc = pc
    BY CallRow
  <2>3. call' = [call EXCEPT ![c] = row]
    BY <2>1
  <2> HIDE DEF row
  <2>4. Distance(row) = 0
    BY <2>2 DEF Distance
  <2>5. call[c].pc \in {"sent", "replied", "rejected"}
    BY <1>3 DEF Receive, Lose, ReturnRejection
  <2>6. Distance(call[c]) \in {1, 4, 8, 9}
    BY <2>5 DEF Distance
  <2>7. Distance(row) < Distance(call[c])
    BY <2>4, <2>6
  <2> QED  BY <2>3, <2>7, OneAdvances
<1>4. CASE Enqueue(c)
  <2> DEFINE row == [call[c] EXCEPT !.pc = "queued"]
  <2>1. row.pc = "queued"
    BY CallRow
  <2>2. call' = [call EXCEPT ![c] = row]
    BY <1>4 DEF Enqueue
  <2> HIDE DEF row
  <2>3. Distance(row) = 7 /\ Distance(call[c]) = 8
    BY <1>4, <2>1 DEF Distance, Enqueue
  <2>4. Distance(row) < Distance(call[c])
    BY <2>3
  <2> QED  BY <2>2, <2>4, OneAdvances
<1>5. CASE StartRefresh(c)
  <2> DEFINE row == Call("refreshing", stored.rt, FALSE, call[c].tab)
  <2>1. call' = [call EXCEPT ![c] = row]
    BY <1>5 DEF StartRefresh
  <2>2. Distance(row) = 7 /\ Distance(call[c]) = 8
    BY <1>5 DEF StartRefresh, Distance, Call
  <2> HIDE DEF row
  <2>3. Distance(row) < Distance(call[c])
    BY <2>2
  <2> QED  BY <2>1, <2>3, OneAdvances
<1> QED  BY <1>1, <1>2, <1>3, <1>4, <1>5

\* The refresh's.
LEMMA RefreshAdvances ==
  ASSUME TypeOK, TabInv, NEW c \in Requests,
         \/ Refuse(c) \/ LoseRefresh(c) \/ Refused(c) \/ Refreshed(c)
         \/ FailRefresh(c) \/ \E new \in Tokens : Issue(c, new)
  PROVE  CallsAdvance
<1>1. CASE Refuse(c) \/ (FailRefresh(c) /\ call[c].pc = "refreshing")
  <2> DEFINE row == [call[c] EXCEPT !.pc = "refused"]
  <2>1. row.pc = "refused"
    BY CallRow
  <2>2. call' = [call EXCEPT ![c] = row] /\ call[c].pc = "refreshing"
    BY <1>1 DEF Refuse, FailRefresh
  <2> HIDE DEF row
  <2>3. Distance(row) = 5 /\ Distance(call[c]) = 7
    BY <2>1, <2>2 DEF Distance
  <2>4. Distance(row) < Distance(call[c])
    BY <2>3
  <2> QED  BY <2>2, <2>4, OneAdvances
<1>2. ASSUME NEW new \in Tokens, Issue(c, new), call[c].pc = "refreshing" PROVE CallsAdvance
  <2> DEFINE row == Call("issued", new, FALSE, call[c].tab)
  <2>1. call' = [call EXCEPT ![c] = row]
    BY <1>2 DEF Issue
  <2>2. Distance(row) = 6 /\ Distance(call[c]) = 7
    BY <1>2 DEF Distance, Call
  <2> HIDE DEF row
  <2>3. Distance(row) < Distance(call[c])
    BY <2>2
  <2> QED  BY <2>1, <2>3, OneAdvances
<1>3. CASE LoseRefresh(c)
  <2> DEFINE row == Call("refused", Posted(c), FALSE, call[c].tab)
  <2>1. call' = [call EXCEPT ![c] = row] /\ call[c].pc \in {"refreshing", "issued"}
    BY <1>3 DEF LoseRefresh
  <2>2. Distance(row) = 5
    BY DEF Distance, Call
  <2> HIDE DEF row
  <2>3. Distance(call[c]) \in {6, 7}
    BY <2>1 DEF Distance
  <2>4. Distance(row) < Distance(call[c])
    BY <2>2, <2>3
  <2> QED  BY <2>1, <2>4, OneAdvances
<1>4. CASE Refused(c)
  <2> DEFINE row == [call[c] EXCEPT !.pc = "failed"]
  <2>1. row.pc = "failed"
    BY CallRow
  <2>2. call' = [call EXCEPT ![c] = row]
    BY <1>4 DEF Refused
  <2> HIDE DEF row
  <2>3. Distance(row) = 0 /\ Distance(call[c]) = 5
    BY <1>4, <2>1 DEF Distance, Refused
  <2>4. Distance(row) < Distance(call[c])
    BY <2>3
  <2> QED  BY <2>2, <2>4, OneAdvances
<1>5. CASE Refreshed(c)
  <2> DEFINE t == call[c].tab
             row == Call("sent", call[c].token, TRUE, t)
  <2>1. t \in Tabs /\ call[c].pc = "issued"
    BY <1>5 DEF Refreshed, TabInv, Shape
  <2>2. call' = [d \in Requests |-> IF d \in refreshQueue[t] \cup {c} THEN row ELSE call[d]]
    BY <1>5 DEF Refreshed
  <2>3. Distance(row) = 4
    BY DEF Distance, Call
  <2> HIDE DEF row
  <2>4. \A d \in refreshQueue[t] : call[d].pc = "queued"
    BY <2>1 DEF TabInv, QueueOwned
  <2>5. \A d \in refreshQueue[t] \cup {c} : Distance(call[d]) \in {6, 7}
    BY <2>1, <2>4 DEF Distance
  <2> HIDE DEF t
  <2> QED  BY <2>2, <2>3, <2>5 DEF CallsAdvance
<1>6. CASE call' = call
  BY <1>6 DEF CallsAdvance
<1> QED
  BY <1>1, <1>2, <1>3, <1>4, <1>5, <1>6 DEF FailRefresh, Issue

\* A page that is left ends its calls.
LEMMA LeaveAdvances ==
  ASSUME TypeOK, Shape, NEW t \in Tabs, Leave(t)
  PROVE  CallsAdvance
<1> SUFFICES ASSUME NEW d \in Requests, call'[d] # call[d]
             PROVE  Distance(call'[d]) < Distance(call[d])
  BY DEF CallsAdvance
<1>1. call[d].pc \notin Ended /\ call'[d].pc \in {"abandoned", "gone"}
  BY LeaveStep DEF Cut
<1>2. call[d].pc \in PcStates \ Ended
  BY <1>1, CallType DEF CallRows
<1>3. Distance(call'[d]) = 0
  BY <1>1 DEF Distance
<1>4. Distance(call[d]) \in {1, 4, 5, 6, 7, 8, 9, 10}
  BY <1>2 DEF PcStates, Refreshing, Distance
<1> QED  BY <1>3, <1>4

\* apiClient never goes round in circles: whatever the tabs, the server and the
\* network do, a call that moves comes closer to its end, so that no call is
\* refreshed for or sent again for ever; and what waits in a queue waits for a
\* refresh that is under way in its tab, unless that refresh has left it behind.
\* With the fairness of FairSpec this is why AnsweredOrStranded holds.
THEOREM CallsComeToAnEnd ==
  Spec => /\ []\A c \in Requests :
                 call[c].pc = "queued" =>
                   Stranded(c) \/ \E d \in Requests : InRefresh(d, call[c].tab)
          /\ [][CallsAdvance]_vars
<1> DEFINE Waits == \A c \in Requests :
                      call[c].pc = "queued" =>
                        Stranded(c) \/ \E d \in Requests : InRefresh(d, call[c].tab)
<1>1. ClientInv => Waits
  BY DEF ClientInv, TabInv, Shape, RefreshOwned, Stranded
<1>2. ClientInv /\ [Next]_vars => [CallsAdvance]_vars
  <2> SUFFICES ASSUME ClientInv, Next PROVE CallsAdvance
    OBVIOUS
  <2>1. TypeOK /\ TabInv
    BY DEF ClientInv
  <2>2. ASSUME call' = call PROVE CallsAdvance
    BY <2>2 DEF CallsAdvance
  <2>3. ASSUME NEW t \in Tabs, Leave(t) PROVE CallsAdvance
    BY <2>1, <2>3, LeaveAdvances DEF TabInv
  <2> QED
    BY <2>1, <2>2, <2>3, AnswerAdvances, RefreshAdvances
    DEF Next, Check, Revoke, clientVars, Logout, SignIn, Time, Admin
<1>3. Spec => []Waits
  BY <1>1, ClientInvariant, PTL
<1>4. Spec => [][CallsAdvance]_vars
  BY <1>2, ClientInvariant, PTL DEF Spec
<1> QED  BY <1>3, <1>4
=============================================================================
