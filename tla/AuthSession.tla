----------------------------- MODULE AuthSession -----------------------------
(***************************************************************************)
(* The sessions of one player (auth_service.go): tokens are issued in      *)
(* pairs, a refresh token is exchanged for the next pair, and a deleted    *)
(* player's sessions go with the users row.                                *)
(*                                                                         *)
(* Refresh runs three autocommitted statements without a transaction: it   *)
(* checks the session, revokes it, and inserts the next one.  Other        *)
(* requests run between them, and a failure can come after each.           *)
(*                                                                         *)
(* A pair is named by its refresh token.  No code sets users.status, so    *)
(* Login's test for a banned player is left out.                           *)
(***************************************************************************)
EXTENDS Naturals

CONSTANTS
  Tokens,    \* the pairs issueTokens can generate
  Requests,  \* concurrent POST /auth/refresh requests
  None

ASSUME TokenAssumption == None \notin Tokens

VARIABLES
  player,    \* "active", or "deleted": the users row is gone
  session,   \* session[r]: r's auth_sessions row
  valid,     \* the pairs whose access token has not expired
  exchange,  \* exchange[q]: how far request q's Refresh is, and its token
  origin     \* history: origin[r]: the token that r replaced

authVars == <<player, session, valid, exchange, origin>>

NoExchange == [pc |-> "none", token |-> None]

AuthTypeOK ==
  /\ player \in {"active", "deleted"}
  /\ session \in [Tokens -> {"unused", "live", "revoked", "expired", "deleted"}]
  /\ valid \subseteq Tokens
  /\ exchange \in [Requests -> [pc : {"none", "checked", "revoked"},
                                token : Tokens \cup {None}]]
  /\ origin \in [Tokens -> Tokens \cup {None}]

AuthInit ==
  /\ player = "active"
  /\ session = [r \in Tokens |-> "unused"]
  /\ valid = {}
  /\ exchange = [q \in Requests |-> NoExchange]
  /\ origin = [r \in Tokens |-> None]

-----------------------------------------------------------------------------
\* Mutant: auth_sessions.user_id does not reference users.
IssueTokensToNobody(new, from) ==
  /\ session[new] = "unused"
  /\ session' = [session EXCEPT ![new] = "live"]
  /\ valid' = valid \cup {new}
  /\ origin' = [origin EXCEPT ![new] = from]

\* The row references the player's, so it needs one.
IssueTokens(new, from) ==
  /\ player = "active"
  /\ session[new] = "unused"
  /\ session' = [session EXCEPT ![new] = "live"]
  /\ valid' = valid \cup {new}
  /\ origin' = [origin EXCEPT ![new] = from]

Login(new) == IssueTokens(new, None) /\ UNCHANGED <<player, exchange>>

RefreshCheck(q, r) ==
  /\ exchange[q].pc = "none"
  /\ session[r] = "live"
  /\ exchange' = [exchange EXCEPT ![q] = [pc |-> "checked", token |-> r]]
  /\ UNCHANGED <<player, session, valid, origin>>

\* Mutant: the UPDATE misses the row.
RefreshRevokesNothing(q) ==
  /\ exchange[q].pc = "checked"
  /\ exchange' = [exchange EXCEPT ![q].pc = "revoked"]
  /\ UNCHANGED <<player, session, valid, origin>>

\* Another request may have revoked the row since, or deleted it.
RefreshRevoke(q) ==
  /\ exchange[q].pc = "checked"
  /\ session' = [session EXCEPT ![exchange[q].token] =
                   IF @ = "deleted" THEN @ ELSE "revoked"]
  /\ exchange' = [exchange EXCEPT ![q].pc = "revoked"]
  /\ UNCHANGED <<player, valid, origin>>

RefreshIssue(q, new) ==
  /\ exchange[q].pc = "revoked"
  /\ IssueTokens(new, exchange[q].token)
  /\ exchange' = [exchange EXCEPT ![q] = NoExchange]
  /\ UNCHANGED player

\* A statement fails, or the server stops; what is done stays done.
RefreshFail(q) ==
  /\ exchange[q].pc # "none"
  /\ exchange' = [exchange EXCEPT ![q] = NoExchange]
  /\ UNCHANGED <<player, session, valid, origin>>

\* 24 hours, and 7 days.
ExpireAccess(r) ==
  /\ r \in valid
  /\ valid' = valid \ {r}
  /\ UNCHANGED <<player, session, exchange, origin>>

Expire(r) ==
  /\ session[r] = "live" /\ r \notin valid
  /\ session' = [session EXCEPT ![r] = "expired"]
  /\ UNCHANGED <<player, valid, exchange, origin>>

\* AdminService.DeletePlayer: the rows go with the user's (ON DELETE CASCADE).
DeletePlayer ==
  /\ player = "active"
  /\ player' = "deleted"
  /\ session' = [r \in Tokens |-> IF session[r] = "unused" THEN "unused" ELSE "deleted"]
  /\ UNCHANGED <<valid, exchange, origin>>

AuthNext ==
  \/ \E new \in Tokens : Login(new)
  \/ \E q \in Requests, r \in Tokens : RefreshCheck(q, r) \/ RefreshIssue(q, r)
  \/ \E q \in Requests : RefreshRevoke(q) \/ RefreshFail(q)
  \/ \E r \in Tokens : ExpireAccess(r) \/ Expire(r)
  \/ DeletePlayer

AuthSpec == AuthInit /\ [][AuthNext]_authVars

-----------------------------------------------------------------------------
(* Properties.                                                              *)

\* A token that another one replaced is not live: whatever a Refresh met or
\* wherever it failed, the exchange left no two usable links of one chain.
ExchangeSpendsToken ==
  \A r \in Tokens :
    origin[r] # None => session[origin[r]] \in {"revoked", "deleted"}

\* A Refresh that the deletion of the player overtakes leaves no session behind.
SessionsNeedPlayer ==
  player = "deleted" => \A r \in Tokens : session[r] # "live"
=============================================================================
