------------------------------- MODULE ShopTx -------------------------------
(***************************************************************************)
(* Shop's endpoints as the code runs them: concurrent transactions of      *)
(* statements that lock rows (SELECT ... FOR UPDATE, UPDATE, INSERT) in    *)
(* READ COMMITTED.  A transaction computes what it writes from the rows as *)
(* it read them, keeps its locks until it ends, and becomes visible when   *)
(* it commits.  Commit therefore takes the rows of seen[t], not of db.     *)
(*                                                                         *)
(* GET /quests (quest_service.go) is here with the locks it takes, in      *)
(* which it meets the others: at a reset, the player's row and then the    *)
(* quests'.  What it writes is QuestReset's, and no lock depends on it: a  *)
(* quest that somebody has locked is not reset meanwhile.                  *)
(*                                                                         *)
(* The requests are those of one player.  The rows that players share are  *)
(* the catalogue's, of which a request locks one, and the quests that the  *)
(* joined SELECT of updateQuestProgress locks too (progression.go:11): in  *)
(* which order two players lock them is the query plan's and is left out.  *)
(*                                                                         *)
(* PostgreSQL's part (external): a lock is granted when no other           *)
(* transaction holds it, and a deadlock is broken by failing one of the    *)
(* transactions in it.                                                     *)
(***************************************************************************)
EXTENDS Shop

CONSTANTS
  Txns,      \* the API's connections, each with one request at a time
  QuestType  \* QuestType[q]: "daily", "weekly" or "main"

ASSUME TxnsAssumption ==
  /\ IsFiniteSet(Txns)
  /\ QuestType \in [Quests -> {"daily", "weekly", "main"}]

VARIABLES
  request,   \* request[t]: what t's transaction was asked, or NoRequest
  seen       \* seen[t]: the rows t has locked, as it read them

vars == <<db, due, sold, dumped, start, request, seen>>

NoRequest == [op |-> "none"]
\* GET /quests, for each outcome of its comparison of the day and the week.
Lists == [op : {"list"}, reset : SUBSET {"daily", "weekly"}]

TxRequests == Requests \cup Lists

NoRows == [row \in {} |-> 0]

Init ==
  /\ ShopInit
  /\ request = [t \in Txns |-> NoRequest]
  /\ seen = [t \in Txns |-> NoRows]

-----------------------------------------------------------------------------
(* The rows a request locks, in order.                                      *)

QuestsOf(target) == {Quest(q) : q \in {x \in Quests : TargetType[x] = target}}

\* The rows of each kind of request: an element for each statement, or for each
\* table of a join.  m is what the request has read: the row that a row read
\* earlier names is added when that one is known.

PlaceRows(i, p) == <<{Stall}, {Slot(i)}, {Stock(p)}, QuestsOf("PLACE_PRODUCT")>>

CollectRows(i, m) ==
  <<{Slot(i)},
    IF Slot(i) \in DOMAIN m THEN {Catalogue(m[Slot(i)].product)} ELSE {},
    {Wallet}, {User}, QuestsOf("COLLECT_REVENUE")>>

ImportRows(o) == <<{User}, {Wallet}, {Import(o)}, QuestsOf("IMPORT_PRODUCT")>>

ClaimRows(o, m) ==
  <<{Import(o)}, IF Import(o) \in DOMAIN m THEN {Stock(m[Import(o)].product)} ELSE {}>>

SellRows(p) == <<{Stock(p)}, {Wallet}, QuestsOf("COLLECT_REVENUE")>>

\* Mutant: the level is written before the wallet.
UpgradeRowsUserFirst(m) ==
  <<{Stall}, {User}, {Wallet}, IF Stall \in DOMAIN m THEN {NewSlot(m)} ELSE {},
    QuestsOf("UPGRADE_STALL")>>

UpgradeRows(m) ==
  <<{Stall}, {Wallet}, {User}, IF Stall \in DOMAIN m THEN {NewSlot(m)} ELSE {},
    QuestsOf("UPGRADE_STALL")>>

RewardRows(q) == <<{Quest(q)}, {Wallet}>>

VisitRows == <<{User}>>

Reopened(kinds, k) == {Quest(q) : q \in {x \in Quests : k \in kinds /\ QuestType[x] = k}}

ListRows(kinds) == <<{User}, Reopened(kinds, "daily"), Reopened(kinds, "weekly")>>

Program(r, m) ==
  CASE r.op = "place" -> PlaceRows(r.slot, r.product)
    [] r.op = "collect" -> CollectRows(r.slot, m)
    [] r.op = "import" -> ImportRows(r.order)
    [] r.op = "claim" -> ClaimRows(r.order, m)
    [] r.op = "sell" -> SellRows(r.product)
    [] r.op = "upgrade" -> UpgradeRows(m)
    [] r.op = "reward" -> RewardRows(r.quest)
    [] r.op = "visit" -> VisitRows
    [] r.op = "list" -> ListRows(r.reset)

\* updateQuestProgress selects the active quests only; a claim and a reset
\* take their quests whatever their status.
Skipped(r) ==
  IF r.op \in {"reward", "list"} THEN {}
  ELSE {Quest(q) : q \in {x \in Quests : db[Quest(x)].status # "active"}}

Remaining(t, k) == Program(request[t], seen[t])[k] \ (DOMAIN seen[t] \cup Skipped(request[t]))

Statements(t) == DOMAIN Program(request[t], seen[t])

\* The rows that t's next statement locks, one after the other.
Wanted(t) ==
  UNION {Remaining(t, k) :
           k \in {j \in Statements(t) : \A i \in 1..(j - 1) : Remaining(t, i) = {}}}

Held(t) == DOMAIN seen[t]

-----------------------------------------------------------------------------
Running(t) == request[t] # NoRequest
Accepted(t) == request[t] \in Requests => Allowed(request[t], seen[t])

Begin(t) ==
  /\ ~Running(t)
  /\ \E r \in TxRequests : request' = [request EXCEPT ![t] = r]
  /\ UNCHANGED <<db, due, sold, dumped, start, seen>>

\* Mutant: the row is read without FOR UPDATE, and waits for nobody.
LockNoWait(t) ==
  /\ Running(t) /\ Accepted(t)
  /\ \E row \in Wanted(t) :
       seen' = [seen EXCEPT ![t] = [x \in Held(t) \cup {row} |->
                                      IF x = row THEN db[row] ELSE seen[t][x]]]
  /\ UNCHANGED <<db, due, sold, dumped, start, request>>

\* The lock is granted and the row read: after a wait, the row as its last
\* owner committed it.
Lock(t) ==
  /\ Running(t) /\ Accepted(t)
  /\ \E row \in Wanted(t) :
       /\ \A u \in Txns : row \notin Held(u)
       /\ seen' = [seen EXCEPT ![t] = [x \in Held(t) \cup {row} |->
                                         IF x = row THEN db[row] ELSE seen[t][x]]]
  /\ UNCHANGED <<db, due, sold, dumped, start, request>>

End(t) ==
  /\ request' = [request EXCEPT ![t] = NoRequest]
  /\ seen' = [seen EXCEPT ![t] = NoRows]

Commit(t) ==
  /\ request[t] \in Requests /\ Accepted(t)
  /\ Wanted(t) = {}
  /\ LET written == After(request[t], seen[t]) IN
       db' = [row \in Rows |-> IF row \in Held(t) THEN written[row] ELSE db[row]]
  /\ Recorded(request[t], seen[t])
  /\ End(t)

\* The resets are QuestReset's: here the list only gives its locks back.
CommitList(t) ==
  /\ request[t] \in Lists
  /\ Wanted(t) = {}
  /\ End(t)
  /\ UNCHANGED <<db, due, sold, dumped, start>>

\* Mutant: the early return leaves the transaction open.
RefuseLeaks(t) ==
  /\ Running(t) /\ ~Accepted(t)
  /\ UNCHANGED vars

\* An early return: a row just read does not allow the request.
Refuse(t) ==
  /\ Running(t) /\ ~Accepted(t)
  /\ End(t)
  /\ UNCHANGED <<db, due, sold, dumped, start>>

\* A statement fails or the connection is lost: defer tx.Rollback().
Rollback(t) ==
  /\ Running(t)
  /\ End(t)
  /\ UNCHANGED <<db, due, sold, dumped, start>>

Waits(t, u) == /\ t # u
               /\ Running(t) /\ Accepted(t)
               /\ Wanted(t) \cap Held(u) # {}

\* The transactions in D wait for each other.
Deadlocked(D) ==
  /\ D # {}
  /\ \A t \in D : (\E u \in D : Waits(t, u)) /\ (\E u \in D : Waits(u, t))

Victim(t) ==
  /\ \E D \in SUBSET Txns : t \in D /\ Deadlocked(D)
  /\ End(t)
  /\ UNCHANGED <<db, due, sold, dumped, start>>

Clock == Elapse /\ UNCHANGED <<request, seen>>

Next ==
  \/ \E t \in Txns :
       \/ Begin(t)
       \/ Lock(t)
       \/ Commit(t)
       \/ CommitList(t)
       \/ Refuse(t)
       \/ Rollback(t)
       \/ Victim(t)
  \/ Clock

Spec == Init /\ [][Next]_vars

\* The server runs every request on, row locks are queued, and the detector
\* breaks every deadlock; no request has to be sent and no statement to fail.
Fairness ==
  /\ \A t \in Txns : /\ SF_vars(Lock(t))
                     /\ WF_vars(Commit(t))
                     /\ WF_vars(CommitList(t))
                     /\ WF_vars(Refuse(t))
  /\ WF_vars(\E t \in Txns : Victim(t))

FairSpec == Spec /\ Fairness

-----------------------------------------------------------------------------
(* Properties.                                                              *)

TypeOK ==
  /\ ShopTypeOK
  /\ request \in [Txns -> TxRequests \cup {NoRequest}]
  /\ \A t \in Txns : Held(t) \subseteq Rows /\ (~Running(t) => Held(t) = {})

\* Every request ends, however the others' locks interleave with its own.
RequestsEnd == \A t \in Txns : Running(t) ~> ~Running(t)

Resetting(t) == request[t] \in Lists /\ request[t].reset # {}

\* A player's requests only block each other for good when one of them buys
\* goods (users before user_wallets) or is a list that resets (users before
\* user_quests): the others take their rows in one order.  A claim of a quest
\* takes user_quests before user_wallets, but its quest is complete and
\* updateQuestProgress waits for active ones only.
DeadlockNeedsImportOrReset ==
  \A D \in SUBSET Txns :
    Deadlocked(D) => \E t \in D : request[t].op = "import" \/ Resetting(t)
=============================================================================
