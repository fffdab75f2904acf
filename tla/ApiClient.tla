------------------------------ MODULE ApiClient ------------------------------
(***************************************************************************)
(* The browser's side of a session (apiClient.ts, useAuth.ts) over         *)
(* AuthSession.  A call that the server rejects with 401 waits for a       *)
(* refresh of the tokens and is sent again, once.  A tab runs one refresh  *)
(* at a time; the calls rejected meanwhile queue behind it.  Tabs share    *)
(* localStorage.                                                           *)
(*                                                                         *)
(* A tab's JavaScript runs without interruption between two awaits; each   *)
(* such run is an action.  The network may lose any request or response,   *)
(* also while the server still works on the request.  Request q of         *)
(* AuthSession is the refresh that call q performs.                        *)
(***************************************************************************)
EXTENDS AuthSession, FiniteSets

CONSTANTS
  Tabs,
  TabsOf   \* TabsOf[c]: the tabs that may make call c

ASSUME TabsAssumption == TabsOf \in [Requests -> SUBSET Tabs]

VARIABLES
  call,        \* call[c]: how far apiClient is, the token it holds, whether it
               \* has sent the call for the second time, and in which tab
  executed,    \* history: the times the server ran c's handler
  stored,      \* localStorage: hr_at and hr_rt
  memory,      \* memory[t]: accessToken
  isRefreshing,
  refreshQueue

clientVars == <<call, executed, stored, memory, isRefreshing, refreshQueue>>
vars == <<player, session, valid, exchange, origin, call, executed, stored, memory,
          isRefreshing, refreshQueue>>

Refreshing == {"refreshing", "issued", "refused"}
Settled == {"succeeded", "failed"}
Ended == Settled \cup {"gone", "abandoned"}  \* or its page was left

Call(pc, token, retried, tab) == [pc |-> pc, token |-> token, retried |-> retried, tab |-> tab]
SignedOut == [at |-> None, rt |-> None]

TypeOK ==
  /\ AuthTypeOK
  /\ call \in [Requests -> [pc : {"idle", "sent", "replied", "rejected", "queued"}
                                 \cup Refreshing \cup Ended,
                            token : Tokens \cup {None}, retried : BOOLEAN,
                            tab : Tabs \cup {None}]]
  /\ executed \in [Requests -> Nat]
  /\ stored \in [at : Tokens \cup {None}, rt : Tokens \cup {None}]
  /\ memory \in [Tabs -> Tokens \cup {None}]
  /\ isRefreshing \in [Tabs -> BOOLEAN]
  /\ refreshQueue \in [Tabs -> SUBSET Requests]

Init ==
  /\ AuthInit
  /\ call = [c \in Requests |-> Call("idle", None, FALSE, None)]
  /\ executed = [c \in Requests |-> 0]
  /\ stored = SignedOut
  /\ memory = [t \in Tabs |-> None]
  /\ isRefreshing = [t \in Tabs |-> FALSE]
  /\ refreshQueue = [t \in Tabs |-> {}]

-----------------------------------------------------------------------------
(* Sending a call.                                                          *)

getAccessToken(t) == IF memory[t] # None THEN memory[t] ELSE stored.at

Send(c, t) ==
  /\ call[c].pc = "idle"
  /\ call' = [call EXCEPT ![c] = Call("sent", getAccessToken(t), FALSE, t)]
  /\ memory' = [memory EXCEPT ![t] = getAccessToken(t)]
  /\ UNCHANGED <<authVars, executed, stored, isRefreshing, refreshQueue>>

\* withAuth, and the handler.  A handler finds nothing of a deleted player, and
\* some of them answer 401 then.
Serve(c) ==
  /\ call[c].pc = "sent"
  /\ \/ /\ call[c].token \in valid /\ player = "active"
        /\ executed' = [executed EXCEPT ![c] = @ + 1]
        /\ call' = [call EXCEPT ![c].pc = "replied"]
     \/ /\ call[c].token \in valid /\ player = "deleted"
        /\ \E pc \in {"replied", "rejected"} : call' = [call EXCEPT ![c].pc = pc]
        /\ UNCHANGED executed
     \/ /\ call[c].token \notin valid
        /\ call' = [call EXCEPT ![c].pc = "rejected"]
        /\ UNCHANGED executed
  /\ UNCHANGED <<authVars, stored, memory, isRefreshing, refreshQueue>>

Receive(c) ==
  /\ call[c].pc = "replied"
  /\ call' = [call EXCEPT ![c].pc = "succeeded"]
  /\ UNCHANGED <<authVars, executed, stored, memory, isRefreshing, refreshQueue>>

\* Mutant: a call that the network lost is sent again.
LoseAndResend(c) ==
  /\ call[c].pc \in {"sent", "replied", "rejected"}
  /\ call' = [call EXCEPT ![c].pc = IF @ = "replied" THEN "sent" ELSE "failed"]
  /\ UNCHANGED <<authVars, executed, stored, memory, isRefreshing, refreshQueue>>

\* The request or the response is lost: NETWORK_ERROR.
Lose(c) ==
  /\ call[c].pc \in {"sent", "replied", "rejected"}
  /\ call' = [call EXCEPT ![c].pc = "failed"]
  /\ UNCHANGED <<authVars, executed, stored, memory, isRefreshing, refreshQueue>>

-----------------------------------------------------------------------------
(* The 401 response.                                                        *)

\* The second one is returned to the caller.
ReturnRejection(c) ==
  /\ call[c].pc = "rejected" /\ call[c].retried
  /\ call' = [call EXCEPT ![c].pc = "failed"]
  /\ UNCHANGED <<authVars, executed, stored, memory, isRefreshing, refreshQueue>>

Enqueue(c) ==
  /\ call[c].pc = "rejected" /\ ~call[c].retried
  /\ isRefreshing[call[c].tab]
  /\ call' = [call EXCEPT ![c].pc = "queued"]
  /\ refreshQueue' = [refreshQueue EXCEPT ![call[c].tab] = @ \cup {c}]
  /\ UNCHANGED <<authVars, executed, stored, memory, isRefreshing>>

\* Mutant: every rejected call runs a refresh of its own.
RefreshAnyway(c) ==
  /\ call[c].pc = "rejected" /\ ~call[c].retried
  /\ isRefreshing' = [isRefreshing EXCEPT ![call[c].tab] = TRUE]
  /\ call' = [call EXCEPT ![c] = Call("refreshing", stored.rt, FALSE, @.tab)]
  /\ UNCHANGED <<authVars, executed, stored, memory, refreshQueue>>

\* refreshTokenFlow posts the refresh token, if there is one.
StartRefresh(c) ==
  /\ call[c].pc = "rejected" /\ ~call[c].retried
  /\ ~isRefreshing[call[c].tab]
  /\ isRefreshing' = [isRefreshing EXCEPT ![call[c].tab] = TRUE]
  /\ call' = [call EXCEPT ![c] = Call("refreshing", stored.rt, FALSE, @.tab)]
  /\ UNCHANGED <<authVars, executed, stored, memory, refreshQueue>>

-----------------------------------------------------------------------------
(* The server's side of the refresh, and the network's.                     *)

Check(c) ==
  /\ call[c].pc = "refreshing" /\ call[c].token # None
  /\ RefreshCheck(c, call[c].token)
  /\ UNCHANGED clientVars

Revoke(c) == RefreshRevoke(c) /\ UNCHANGED clientVars

\* The client may have stopped waiting.
Issue(c, new) ==
  /\ RefreshIssue(c, new)
  /\ call' = IF call[c].pc = "refreshing"
             THEN [call EXCEPT ![c] = Call("issued", new, FALSE, @.tab)] ELSE call
  /\ UNCHANGED <<executed, stored, memory, isRefreshing, refreshQueue>>

FailRefresh(c) ==
  /\ RefreshFail(c)
  /\ call' = IF call[c].pc = "refreshing" THEN [call EXCEPT ![c].pc = "refused"] ELSE call
  /\ UNCHANGED <<executed, stored, memory, isRefreshing, refreshQueue>>

\* No token, or one the server does not take.
Refuse(c) ==
  /\ call[c].pc = "refreshing" /\ exchange[c] = NoExchange
  /\ call[c].token # None => session[call[c].token] # "live"
  /\ call' = [call EXCEPT ![c].pc = "refused"]
  /\ UNCHANGED <<authVars, executed, stored, memory, isRefreshing, refreshQueue>>

\* The token that c's refresh posted.
Posted(c) == IF call[c].pc = "issued" THEN origin[call[c].token] ELSE call[c].token

\* The exchange, if the server began it, goes on.
LoseRefresh(c) ==
  /\ call[c].pc \in {"refreshing", "issued"}
  /\ call' = [call EXCEPT ![c] = Call("refused", Posted(c), FALSE, @.tab)]
  /\ UNCHANGED <<authVars, executed, stored, memory, isRefreshing, refreshQueue>>

-----------------------------------------------------------------------------
(* The end of the refresh.                                                  *)

\* The queued calls are sent again, and the call that refreshed.
Refreshed(c) ==
  /\ call[c].pc = "issued"
  /\ LET t == call[c].tab  new == call[c].token IN
       /\ stored' = [at |-> new, rt |-> new]
       /\ memory' = [memory EXCEPT ![t] = new]
       /\ isRefreshing' = [isRefreshing EXCEPT ![t] = FALSE]
       /\ refreshQueue' = [refreshQueue EXCEPT ![t] = {}]
       /\ call' = [d \in Requests |->
                     IF d \in refreshQueue[t] \cup {c} THEN Call("sent", new, TRUE, t)
                     ELSE call[d]]
  /\ UNCHANGED <<authVars, executed>>

\* Mutant: isRefreshing is not reset.
RefusedKeepsFlag(c) ==
  /\ call[c].pc = "refused"
  /\ stored' = SignedOut
  /\ memory' = [memory EXCEPT ![call[c].tab] = None]
  /\ call' = [call EXCEPT ![c].pc = "failed"]
  /\ UNCHANGED <<authVars, executed, isRefreshing, refreshQueue>>

\* Mutant: the tokens are kept.
RefusedKeepsTokens(c) ==
  /\ call[c].pc = "refused"
  /\ isRefreshing' = [isRefreshing EXCEPT ![call[c].tab] = FALSE]
  /\ call' = [call EXCEPT ![c].pc = "failed"]
  /\ UNCHANGED <<authVars, executed, stored, memory, refreshQueue>>

\* The player is signed out.  The queued calls stay in the queue.
Refused(c) ==
  /\ call[c].pc = "refused"
  /\ stored' = SignedOut
  /\ memory' = [memory EXCEPT ![call[c].tab] = None]
  /\ isRefreshing' = [isRefreshing EXCEPT ![call[c].tab] = FALSE]
  /\ call' = [call EXCEPT ![c].pc = "failed"]
  /\ UNCHANGED <<authVars, executed, refreshQueue>>

-----------------------------------------------------------------------------
(* useAuth.  The login's own request and response are one step.             *)

SignIn(t, new) ==
  /\ Login(new)
  /\ stored' = [at |-> new, rt |-> new]
  /\ memory' = [memory EXCEPT ![t] = new]
  /\ UNCHANGED <<call, executed, isRefreshing, refreshQueue>>

\* Mutant: setItem(hr_at, null) stores a string.
LogoutStoresNull(t) ==
  /\ stored' = [at |-> "null", rt |-> None]
  /\ memory' = [memory EXCEPT ![t] = None]
  /\ UNCHANGED <<authVars, call, executed, isRefreshing, refreshQueue>>

Logout(t) ==
  /\ stored' = SignedOut
  /\ memory' = [memory EXCEPT ![t] = None]
  /\ UNCHANGED <<authVars, call, executed, isRefreshing, refreshQueue>>

Interrupted(c) ==
  IF call[c].pc \in Refreshing THEN Call("abandoned", Posted(c), FALSE, call[c].tab)
  ELSE Call("gone", None, FALSE, call[c].tab)

\* The page is reloaded or closed, or another is opened in the tab
\* (app/stall/page.tsx:330): all that the module holds is lost, localStorage is
\* not.  What the server does with a request that it begins only afterwards, it
\* could have done just before.
Leave(t) ==
  /\ call' = [c \in Requests |->
                IF call[c].tab = t /\ call[c].pc \notin Ended THEN Interrupted(c) ELSE call[c]]
  /\ memory' = [memory EXCEPT ![t] = None]
  /\ isRefreshing' = [isRefreshing EXCEPT ![t] = FALSE]
  /\ refreshQueue' = [refreshQueue EXCEPT ![t] = {}]
  /\ UNCHANGED <<authVars, executed, stored>>

Time ==
  /\ \E r \in Tokens : ExpireAccess(r) \/ Expire(r)
  /\ UNCHANGED clientVars

Admin == DeletePlayer /\ UNCHANGED clientVars

Next ==
  \/ \E c \in Requests :
       \/ \E t \in TabsOf[c] : Send(c, t)
       \/ Serve(c) \/ Receive(c) \/ Lose(c)
       \/ ReturnRejection(c) \/ Enqueue(c) \/ StartRefresh(c)
       \/ Check(c) \/ Revoke(c) \/ FailRefresh(c) \/ Refuse(c) \/ LoseRefresh(c)
       \/ \E new \in Tokens : Issue(c, new)
       \/ Refreshed(c) \/ Refused(c)
  \/ \E t \in Tabs : Leave(t) \/ Logout(t) \/ \E new \in Tokens : SignIn(t, new)
  \/ Time
  \/ Admin

Spec == Init /\ [][Next]_vars

\* What the server and the tab have begun goes on, and a response or its loss
\* reaches the tab (LoseRefresh stands for the server's time limit, too).  Nobody
\* has to send a call, sign in or out, leave a page, or expire.
Fairness ==
  \A c \in Requests :
    /\ WF_vars(Serve(c)) /\ WF_vars(Receive(c))
    /\ WF_vars(ReturnRejection(c) \/ Enqueue(c) \/ StartRefresh(c))
    /\ WF_vars(LoseRefresh(c))
    /\ WF_vars(Refreshed(c)) /\ WF_vars(Refused(c))

FairSpec == Spec /\ Fairness

-----------------------------------------------------------------------------
(* Properties.                                                              *)

\* No call runs twice on the server, by a retry, a queue or a lost response: a
\* call that may still be sent has not run.
AtMostOnce ==
  \A c \in Requests :
    executed[c] <= IF call[c].pc \in {"replied"} \cup Ended THEN 1 ELSE 0

\* A tab refreshes exactly while isRefreshing says so, and one call does it.
OneRefreshPerTab ==
  \A t \in Tabs :
    Cardinality({c \in Requests : call[c].tab = t /\ call[c].pc \in Refreshing})
    = IF isRefreshing[t] THEN 1 ELSE 0

\* c's refresh posted r and has not told its tab the outcome.
Presents(c, r) ==
  \/ call[c].pc \in {"refreshing", "refused"} /\ call[c].token = r
  \/ call[c].pc = "issued" /\ origin[call[c].token] = r

\* c's page was left while its refresh, which posted r, was under way.
Abandoned(c, r) == call[c].pc = "abandoned" /\ call[c].token = r

\* localStorage holds a spent refresh token only while a tab waits for what it
\* was exchanged for, or after the page that waited was left: no interleaving of
\* tabs that stay leaves the player with a token that the server will refuse as
\* revoked.
StoredTokenUnspent ==
  \A r \in Tokens :
    stored.rt = r /\ session[r] = "revoked" =>
      \E c \in Requests : Presents(c, r) \/ Abandoned(c, r)

\* A queued call that no refresh of its tab will resume
Stranded(c) == call[c].pc = "queued" /\ ~isRefreshing[call[c].tab]

\* Every call is answered, unless its page is left or it ends up queued in a tab
\* whose refresh was refused.
AnsweredOrStranded ==
  \A c \in Requests :
    call[c].pc = "sent" ~> call[c].pc \in Ended \/ Stranded(c)

\* "Always refetch queries on settled (success or failure)" (useStall.ts:104):
\* every call settles whose page stays.
CallsSettle ==
  \A c \in Requests : call[c].pc = "sent" ~> call[c].pc \in Ended
=============================================================================
